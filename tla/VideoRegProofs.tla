--------------------------- MODULE VideoRegProofs ---------------------------
(***************************************************************************)
(* Theorems about the codec registry, for any types, fourccs and           *)
(* descriptions and any number of registrations.  An answer of lib_exists  *)
(* is first characterised by what it is least or greatest among (Chosen),  *)
(* without the CHOOSE; inserting at the head and removing shift positions  *)
(* but keep their order, so they keep what Chosen says.                    *)
(***************************************************************************)
EXTENDS VideoReg, WellFoundedInduction, TLAPS

\* The least member of a set of positions, and the greatest of a bounded one.
LEMMA FirstIsLeast ==
  ASSUME NEW S \in SUBSET Nat, S # {}
  PROVE  First(S) \in S /\ \A j \in S : First(S) <= j
<1>1. PICK i \in S : \A j \in S \ {i} : <<j, i>> \notin OpToRel(<, Nat)
  BY NatLessThanWellFounded, WFMin
<1>2. \A j \in S : i <= j
  <2> TAKE j \in S
  <2>1. i \in Nat /\ j \in Nat
    OBVIOUS
  <2>2. CASE j = i
    BY <2>1, <2>2
  <2>3. CASE j # i
    <3>1. <<j, i>> \notin OpToRel(<, Nat)
      BY <1>1, <2>3
    <3>2. ~ (j < i)
      BY <2>1, <3>1 DEF OpToRel
    <3> QED BY <2>1, <3>2
  <2> QED BY <2>2, <2>3
<1> QED
  BY <1>2 DEF First

LEMMA LastIsGreatest ==
  ASSUME NEW n \in Nat, NEW S \in SUBSET (1 .. n), S # {}
  PROVE  Last(S) \in S /\ \A j \in S : Last(S) >= j
<1> DEFINE T == {n - i : i \in S}
<1>1. T \in SUBSET Nat /\ T # {}
  <2>1. \A i \in S : n - i \in Nat
    OBVIOUS
  <2> QED BY <2>1
<1>2. PICK t \in T : \A u \in T : t <= u
  <2> HIDE DEF T
  <2>1. First(T) \in T /\ \A u \in T : First(T) <= u
    BY <1>1, FirstIsLeast
  <2> QED BY <2>1
<1>3. PICK i \in S : t = n - i
  BY <1>2
<1>4. \A j \in S : i >= j
  <2> TAKE j \in S
  <2>1. i \in 1 .. n /\ j \in 1 .. n
    OBVIOUS
  <2>2. t <= n - j
    BY <1>2
  <2> HIDE DEF T
  <2> QED BY <1>3, <2>1, <2>2
<1> QED
  BY <1>3, <1>4 DEF Last

\* k is the position lib_exists answers with.
Chosen(list, q, k) ==
  /\ k \in Accepted(list, q)
  /\ q.cc # NoTag => \A j \in Accepted(list, q) : k <= j
  /\ q.cc = NoTag /\ list[k].hw =>
       \A j \in Accepted(list, q) : list[j].hw => k <= j
  /\ q.cc = NoTag /\ ~ list[k].hw =>
       \A j \in Accepted(list, q) : ~ list[j].hw /\ k >= j

LEMMA AnswerIsChosen ==
  ASSUME NEW list \in Seq(Descs), NEW q \in Query, Accepted(list, q) # {}
  PROVE  \E k : Chosen(list, q, k) /\ LibExists(list, q) = list[k]
<1> DEFINE found    == Accepted(list, q)
           hardware == {i \in found : list[i].hw}
<1>1. Len(list) \in Nat /\ found \in SUBSET (1 .. Len(list)) /\ found # {}
  BY DEF Accepted
<1>2. found \in SUBSET Nat /\ hardware \in SUBSET Nat
  BY <1>1
<1>3. CASE q.cc # NoTag
  <2>1. First(found) \in found /\ \A j \in found : First(found) <= j
    BY <1>1, <1>2, FirstIsLeast
  <2>2. LibExists(list, q) = list[First(found)]
    BY <1>1, <1>3 DEF LibExists
  <2> QED BY <1>3, <2>1, <2>2 DEF Chosen
<1>4. CASE q.cc = NoTag /\ hardware # {}
  <2>1. First(hardware) \in hardware /\ \A j \in hardware : First(hardware) <= j
    <3> HIDE DEF hardware
    <3> QED BY <1>2, <1>4, FirstIsLeast
  <2>2. LibExists(list, q) = list[First(hardware)]
    BY <1>1, <1>4 DEF LibExists
  <2> QED BY <1>4, <2>1, <2>2 DEF Chosen
<1>5. CASE q.cc = NoTag /\ hardware = {}
  <2>1. Last(found) \in found /\ \A j \in found : Last(found) >= j
    <3> HIDE DEF found
    <3> QED BY <1>1, LastIsGreatest
  <2>2. LibExists(list, q) = list[Last(found)]
    BY <1>1, <1>5 DEF LibExists
  <2> QED BY <1>5, <2>1, <2>2 DEF Chosen
<1> QED
  BY <1>3, <1>4, <1>5

\* There is one such position only.
LEMMA ChosenIsAnswer ==
  ASSUME NEW list \in Seq(Descs), NEW q \in Query, NEW k, Chosen(list, q, k)
  PROVE  LibExists(list, q) = list[k]
<1>1. Accepted(list, q) \subseteq Nat /\ Accepted(list, q) # {}
  BY DEF Accepted, Chosen
<1>2. PICK i : Chosen(list, q, i) /\ LibExists(list, q) = list[i]
  BY <1>1, AnswerIsChosen
<1>3. i \in Nat /\ k \in Nat
  BY <1>1, <1>2 DEF Chosen
<1>4. i <= k /\ k <= i
  <2>1. CASE q.cc # NoTag
    BY <1>2, <2>1 DEF Chosen
  <2>2. CASE q.cc = NoTag /\ list[i].hw
    BY <1>2, <2>2 DEF Chosen
  <2>3. CASE q.cc = NoTag /\ ~ list[i].hw
    BY <1>2, <1>3, <2>3 DEF Chosen
  <2> QED BY <2>1, <2>2, <2>3
<1>5. i = k
  BY <1>3, <1>4
<1> QED
  BY <1>2, <1>5

\* Nothing is answered exactly when nothing is accepted.
LEMMA NoAnswer ==
  ASSUME NEW list \in Seq(Descs), NEW q \in Query
  PROVE  LibExists(list, q) = NoLib <=> Accepted(list, q) = {}
<1>1. CASE Accepted(list, q) = {}
  BY <1>1 DEF LibExists
<1>2. CASE Accepted(list, q) # {}
  <2>1. PICK k : Chosen(list, q, k) /\ LibExists(list, q) = list[k]
    BY <1>2, AnswerIsChosen
  <2>2. list[k] \in Desc
    BY <2>1, RegConstants DEF Chosen, Accepted
  <2>3. list[k] # NoLib
    BY <2>2, RegConstants DEF Desc, NoLib
  <2> QED BY <1>2, <2>1, <2>3
<1> QED
  BY <1>1, <1>2

-----------------------------------------------------------------------------
(* What the two calls do to the list.                                      *)

Asks(d) == [type |-> d.type, cc |-> d.cc]

LEMMA Inserted ==
  ASSUME NEW list \in Seq(Descs), NEW d \in Descs
  PROVE  /\ <<d>> \o list \in Seq(Descs)
         /\ DOMAIN (<<d>> \o list) = 1 .. Len(list) + 1
         /\ (<<d>> \o list)[1] = d
         /\ \A i \in DOMAIN list : (<<d>> \o list)[i + 1] = list[i]
<1>1. <<d>> \in Seq(Descs) /\ Len(<<d>>) = 1 /\ <<d>>[1] = d
  OBVIOUS
<1>2. /\ <<d>> \o list \in Seq(Descs)
      /\ Len(<<d>> \o list) = 1 + Len(list)
  BY <1>1
<1>3. \A i \in 1 .. 1 + Len(list) :
        (<<d>> \o list)[i] = IF i <= 1 THEN <<d>>[i] ELSE list[i - 1]
  BY <1>1
<1> QED
  BY <1>1, <1>2, <1>3

LEMMA Removed ==
  ASSUME NEW list \in Seq(Descs), NEW i \in DOMAIN list
  PROVE  /\ Without(list, i) \in Seq(Descs)
         /\ DOMAIN Without(list, i) = 1 .. Len(list) - 1
         /\ \A j \in 1 .. Len(list) - 1 :
              Without(list, i)[j] = IF j < i THEN list[j] ELSE list[j + 1]
<1>1. Len(list) - 1 \in Nat
  OBVIOUS
<1>2. \A j \in 1 .. Len(list) - 1 : (IF j < i THEN list[j] ELSE list[j + 1]) \in Descs
  OBVIOUS
<1> QED
  BY <1>1, <1>2 DEF Without

\* remove_libs takes out one entry, which was there.
LEMMA RemovesOne ==
  ASSUME NEW d \in Descs, libs \in Seq(Descs), RemoveLibs(d)
  PROVE  \E i \in DOMAIN libs : libs[i] = d /\ libs' = Without(libs, i)
<1> DEFINE same == {i \in DOMAIN libs : libs[i] = d}
<1>1. same \in SUBSET Nat /\ same # {}
  BY DEF RemoveLibs
<1>2. First(same) \in same
  <2> HIDE DEF same
  <2> QED BY <1>1, FirstIsLeast
<1> QED
  BY <1>2 DEF RemoveLibs

\* Insertion keeps what is answered, unless the new entry is hardware for a
\* query that leaves the choice open.
LEMMA InsertKeepsAnswer ==
  ASSUME NEW list \in Seq(Descs), NEW d \in Descs, NEW q \in Query,
         LibExists(list, Asks(d)) = NoLib, LibExists(list, q) # NoLib
  PROVE  \/ LibExists(<<d>> \o list, q) = LibExists(list, q)
         \/ q.cc = NoTag /\ LibExists(<<d>> \o list, q).hw
<1> DEFINE new == <<d>> \o list
<1>1. PICK k : Chosen(list, q, k) /\ LibExists(list, q) = list[k]
  BY AnswerIsChosen, NoAnswer
<1>2. /\ k \in DOMAIN list /\ DOMAIN list = 1 .. Len(list) /\ Len(list) \in Nat
      /\ new \in Seq(Descs)
      /\ DOMAIN new = 1 .. Len(list) + 1 /\ new[1] = d
      /\ \A i \in DOMAIN list : new[i + 1] = list[i]
  BY <1>1, Inserted DEF Chosen, Accepted
<1> HIDE DEF new
<1>3. \A j \in Accepted(new, q) : j = 1 \/ j - 1 \in Accepted(list, q)
  <2> TAKE j \in Accepted(new, q)
  <2>1. j \in 1 .. Len(list) + 1
    BY <1>2 DEF Accepted
  <2>2. j # 1 => j - 1 \in DOMAIN list /\ new[j] = list[j - 1]
    BY <1>2, <2>1
  <2> QED BY <2>2 DEF Accepted
<1>4. k + 1 \in Accepted(new, q) /\ new[k + 1] = list[k]
  BY <1>1, <1>2 DEF Accepted, Chosen
<1>5. CASE q.cc # NoTag
  <2>1. 1 \notin Accepted(new, q)
    <3>1. SUFFICES ASSUME 1 \in Accepted(new, q) PROVE FALSE
      OBVIOUS
    <3>2. d.type = q.type /\ d.cc = q.cc
      BY <1>2, <1>5, <3>1 DEF Accepted
    <3>3. Asks(d) = q
      BY <3>2 DEF Asks, Query
    <3> QED BY <3>3
  <2>2. \A j \in Accepted(new, q) : k + 1 <= j
    BY <1>1, <1>2, <1>3, <1>5, <2>1 DEF Chosen, Accepted
  <2>3. Chosen(new, q, k + 1)
    BY <1>4, <1>5, <2>2 DEF Chosen
  <2>4. LibExists(new, q) = LibExists(list, q)
    BY <1>1, <1>2, <1>4, <2>3, ChosenIsAnswer
  <2> QED BY <2>4 DEF new
<1>6. CASE q.cc = NoTag /\ 1 \in Accepted(new, q) /\ d.hw
  <2>1. Chosen(new, q, 1)
    BY <1>2, <1>6 DEF Chosen, Accepted
  <2>2. LibExists(new, q) = d
    BY <1>2, <2>1, ChosenIsAnswer
  <2> QED BY <1>6, <2>2 DEF new
<1>7. CASE q.cc = NoTag /\ ~ (1 \in Accepted(new, q) /\ d.hw)
  <2>1. \A j \in Accepted(new, q) :
          \/ j = 1 /\ ~ new[j].hw
          \/ j - 1 \in Accepted(list, q) /\ new[j] = list[j - 1]
    <3> TAKE j \in Accepted(new, q)
    <3>1. j \in 1 .. Len(list) + 1
      BY <1>2 DEF Accepted
    <3>2. j # 1 => j - 1 \in DOMAIN list /\ new[j] = list[j - 1]
      BY <1>2, <3>1
    <3> QED BY <1>2, <1>3, <1>7, <3>2
  <2>2. CASE list[k].hw
    <3>1. \A j \in Accepted(new, q) : new[j].hw => k + 1 <= j
      BY <1>1, <1>2, <1>7, <2>1, <2>2 DEF Chosen, Accepted
    <3>2. Chosen(new, q, k + 1)
      BY <1>4, <1>7, <2>2, <3>1 DEF Chosen
    <3>3. LibExists(new, q) = LibExists(list, q)
      BY <1>1, <1>2, <1>4, <3>2, ChosenIsAnswer
    <3> QED BY <3>3 DEF new
  <2>3. CASE ~ list[k].hw
    <3>1. \A j \in Accepted(new, q) : ~ new[j].hw /\ k + 1 >= j
      BY <1>1, <1>2, <1>7, <2>1, <2>3 DEF Chosen, Accepted
    <3>2. Chosen(new, q, k + 1)
      BY <1>4, <1>7, <2>3, <3>1 DEF Chosen
    <3>3. LibExists(new, q) = LibExists(list, q)
      BY <1>1, <1>2, <1>4, <3>2, ChosenIsAnswer
    <3> QED BY <3>3 DEF new
  <2> QED BY <2>2, <2>3
<1> QED
  BY <1>5, <1>6, <1>7

\* Removal of another codec keeps what is answered.
LEMMA RemoveKeepsAnswer ==
  ASSUME NEW list \in Seq(Descs), NEW i \in DOMAIN list, NEW q \in Query,
         LibExists(list, q) # NoLib, LibExists(list, q) # list[i]
  PROVE  LibExists(Without(list, i), q) = LibExists(list, q)
<1> DEFINE new  == Without(list, i)
           Old(j) == IF j < i THEN j ELSE j + 1
<1>1. PICK k : Chosen(list, q, k) /\ LibExists(list, q) = list[k]
  BY AnswerIsChosen, NoAnswer
<1>2. /\ k \in DOMAIN list /\ DOMAIN list = 1 .. Len(list) /\ Len(list) \in Nat
      /\ k # i
      /\ new \in Seq(Descs) /\ DOMAIN new = 1 .. Len(list) - 1
      /\ \A j \in DOMAIN new : new[j] = list[Old(j)]
  <2>1. new \in Seq(Descs) /\ DOMAIN new = 1 .. Len(list) - 1
    BY Removed
  <2>2. \A j \in DOMAIN new : new[j] = list[Old(j)]
    <3>1. \A j \in 1 .. Len(list) - 1 :
            Without(list, i)[j] = IF j < i THEN list[j] ELSE list[j + 1]
      BY Removed
    <3> QED BY <2>1, <3>1
  <2>3. k \in DOMAIN list /\ k # i
    BY <1>1 DEF Chosen, Accepted
  <2> QED BY <2>1, <2>2, <2>3
<1> DEFINE n == IF k < i THEN k ELSE k - 1
<1>3. n \in DOMAIN new /\ Old(n) = k
  BY <1>2
<1> HIDE DEF new
<1>4. \A j \in Accepted(new, q) :
        /\ j \in DOMAIN new /\ Old(j) \in Accepted(list, q) /\ new[j] = list[Old(j)]
        /\ (k <= Old(j) => n <= j) /\ (k >= Old(j) => n >= j)
  <2> TAKE j \in Accepted(new, q)
  <2>1. j \in DOMAIN new /\ new[j] = list[Old(j)]
    BY <1>2 DEF Accepted
  <2>2. Old(j) \in DOMAIN list
    BY <1>2, <2>1
  <2>3. Old(j) \in Accepted(list, q)
    BY <2>1, <2>2 DEF Accepted
  <2>4. (k <= Old(j) => n <= j) /\ (k >= Old(j) => n >= j)
    BY <1>2, <2>1
  <2> QED BY <2>1, <2>3, <2>4
<1>5. n \in Accepted(new, q) /\ new[n] = list[k]
  BY <1>1, <1>2, <1>3 DEF Accepted, Chosen
<1> HIDE DEF n, Old
<1>6. Chosen(new, q, n)
  <2>1. CASE q.cc # NoTag
    BY <1>1, <1>4, <1>5, <2>1 DEF Chosen
  <2>2. CASE q.cc = NoTag /\ list[k].hw
    BY <1>1, <1>4, <1>5, <2>2 DEF Chosen
  <2>3. CASE q.cc = NoTag /\ ~ list[k].hw
    BY <1>1, <1>4, <1>5, <2>3 DEF Chosen
  <2> QED BY <2>1, <2>2, <2>3
<1>7. LibExists(new, q) = list[k]
  BY <1>2, <1>5, <1>6, ChosenIsAnswer
<1> QED
  BY <1>1, <1>7 DEF new

-----------------------------------------------------------------------------
(* The registry.                                                           *)

\* The inductive invariant.
RegInv == RegTypeOK /\ OneOfEachTag

LEMMA AddKeepsInv ==
  ASSUME NEW d \in Descs, RegInv, AddLibs(d)
  PROVE  RegInv'
<1>1. /\ libs \in Seq(Descs) /\ libs' = <<d>> \o libs
      /\ LibExists(libs, Asks(d)) = NoLib /\ Asks(d) \in Query
  BY RegConstants DEF RegInv, RegTypeOK, AddLibs, Asks, Query, Desc
<1>2. \A i \in DOMAIN libs : ~ (libs[i].type = d.type /\ libs[i].cc = d.cc)
  <2>1. Accepted(libs, Asks(d)) = {}
    BY <1>1, NoAnswer
  <2> QED BY <2>1 DEF Accepted, Asks
<1>3. /\ libs' \in Seq(Descs) /\ libs'[1] = d
      /\ DOMAIN libs = 1 .. Len(libs) /\ Len(libs) \in Nat
      /\ DOMAIN libs' = 1 .. Len(libs) + 1
      /\ \A i \in DOMAIN libs : libs'[i + 1] = libs[i]
  BY <1>1, Inserted
<1>4. ASSUME NEW i \in DOMAIN libs', NEW j \in DOMAIN libs',
             libs'[i].type = libs'[j].type, libs'[i].cc = libs'[j].cc
      PROVE  i = j
  <2>1. \A n \in DOMAIN libs' : n # 1 => n - 1 \in DOMAIN libs /\ libs'[n] = libs[n - 1]
    <3> TAKE n \in DOMAIN libs'
    <3>1. n # 1 => n - 1 \in DOMAIN libs /\ n - 1 + 1 = n
      BY <1>3
    <3> QED BY <1>3, <3>1
  <2>2. CASE i = 1 \/ j = 1
    BY <1>2, <1>3, <1>4, <2>1, <2>2
  <2>3. CASE i # 1 /\ j # 1
    <3>1. i - 1 = j - 1
      BY <1>4, <2>1, <2>3 DEF RegInv, OneOfEachTag
    <3> QED BY <1>3, <3>1
  <2> QED BY <2>2, <2>3
<1> QED
  BY <1>3, <1>4 DEF RegInv, RegTypeOK, OneOfEachTag

LEMMA RemoveKeepsInv ==
  ASSUME NEW d \in Descs, RegInv, RemoveLibs(d)
  PROVE  RegInv'
<1>1. PICK k \in DOMAIN libs : libs' = Without(libs, k)
  BY RemovesOne DEF RegInv, RegTypeOK
<1>2. libs \in Seq(Descs) /\ DOMAIN libs = 1 .. Len(libs) /\ Len(libs) \in Nat
  BY DEF RegInv, RegTypeOK
<1>3. /\ libs' \in Seq(Descs) /\ DOMAIN libs' = 1 .. Len(libs) - 1
      /\ \A j \in DOMAIN libs' : libs'[j] = IF j < k THEN libs[j] ELSE libs[j + 1]
  BY <1>1, <1>2, Removed
<1>4. ASSUME NEW i \in DOMAIN libs', NEW j \in DOMAIN libs',
             libs'[i].type = libs'[j].type, libs'[i].cc = libs'[j].cc
      PROVE  i = j
  <2> DEFINE Old(n) == IF n < k THEN n ELSE n + 1
  <2>1. Old(i) \in DOMAIN libs /\ Old(j) \in DOMAIN libs
    BY <1>2, <1>3
  <2>2. libs'[i] = libs[Old(i)] /\ libs'[j] = libs[Old(j)]
    BY <1>3
  <2>3. Old(i) = Old(j)
    BY <1>4, <2>1, <2>2 DEF RegInv, OneOfEachTag
  <2> QED BY <1>1, <1>3, <2>3
<1> QED
  BY <1>3, <1>4 DEF RegInv, RegTypeOK, OneOfEachTag

LEMMA RegInvHolds == RegSpec => []RegInv
<1>1. RegInit => RegInv
  BY DEF RegInit, RegInv, RegTypeOK, OneOfEachTag
<1>2. RegInv /\ [RegNext]_libs => RegInv'
  <2> SUFFICES ASSUME RegInv, [RegNext]_libs PROVE RegInv'
    OBVIOUS
  <2>1. CASE UNCHANGED libs
    BY <2>1 DEF RegInv, RegTypeOK, OneOfEachTag
  <2>2. ASSUME NEW d \in Descs, AddLibs(d) \/ RemoveLibs(d) PROVE RegInv'
    BY <2>2, AddKeepsInv, RemoveKeepsInv
  <2> QED BY <2>1, <2>2 DEF RegNext
<1> QED
  BY <1>1, <1>2, PTL DEF RegSpec

\* The list holds registered descriptions only, however codecs come and go.
THEOREM RegTypeCorrect == RegSpec => []RegTypeOK
<1>1. RegInv => RegTypeOK
  BY DEF RegInv
<1> QED
  BY <1>1, RegInvHolds, PTL

\* No two registered codecs have a type and a fourcc in common.
THEOREM OneOfEach == RegSpec => []OneOfEachTag
<1>1. RegInv => OneOfEachTag
  BY DEF RegInv
<1> QED
  BY <1>1, RegInvHolds, PTL

\* A query without a fourcc is answered with hardware where there is any.
THEOREM PrefersHardware == RegSpec => []HardwareFirst
<1>1. RegInv => HardwareFirst
  <2> SUFFICES ASSUME RegInv, NEW t \in Types,
                      NEW i \in DOMAIN libs, libs[i].type = t, libs[i].hw
               PROVE  LibExists(libs, [type |-> t, cc |-> NoTag]).hw
    BY DEF HardwareFirst
  <2> DEFINE q == [type |-> t, cc |-> NoTag]
  <2>1. q \in Query /\ q.cc = NoTag /\ libs \in Seq(Descs) /\ i \in Accepted(libs, q)
    BY DEF Query, RegInv, RegTypeOK, Accepted
  <2> HIDE DEF q
  <2>2. PICK k : Chosen(libs, q, k) /\ LibExists(libs, q) = libs[k]
    BY <2>1, AnswerIsChosen
  <2>3. libs[k].hw
    BY <2>1, <2>2 DEF Chosen
  <2> QED BY <2>2, <2>3 DEF q
<1> QED
  BY <1>1, RegInvHolds, PTL

\* The answer to a query changes only when that codec is unregistered or
\* hardware comes for a query that leaves the choice open.
THEOREM AnswersAreStable == RegSpec => AnswersStable
<1>1. RegInv /\ [RegNext]_libs => [\A q \in Query : AnswerStable(q)]_libs
  <2> SUFFICES ASSUME RegInv, RegNext, NEW q \in Query PROVE AnswerStable(q)
    OBVIOUS
  <2>1. LibExists(libs, q)' = LibExists(libs', q)
    BY DEF LibExists, Accepted
  <2>2. libs \in Seq(Descs)
    BY DEF RegInv, RegTypeOK
  <2>3. ASSUME NEW d \in Descs, AddLibs(d), LibExists(libs, q) # NoLib
        PROVE  AnswerStable(q)
    <3>1. libs' = <<d>> \o libs /\ LibExists(libs, Asks(d)) = NoLib
      BY <2>3 DEF AddLibs, Asks
    <3>2. \/ LibExists(libs', q) = LibExists(libs, q)
          \/ q.cc = NoTag /\ LibExists(libs', q).hw
      BY <2>2, <2>3, <3>1, InsertKeepsAnswer
    <3> QED BY <2>1, <3>2 DEF AnswerStable
  <2>4. ASSUME NEW d \in Descs, RemoveLibs(d), LibExists(libs, q) # NoLib
        PROVE  AnswerStable(q)
    <3>1. PICK k \in DOMAIN libs : libs' = Without(libs, k)
      BY <2>2, <2>4, RemovesOne
    <3>2. CASE LibExists(libs, q) # libs[k]
      BY <2>1, <2>2, <2>4, <3>1, <3>2, RemoveKeepsAnswer DEF AnswerStable
    <3>3. CASE LibExists(libs, q) = libs[k]
      <4>1. /\ DOMAIN libs = 1 .. Len(libs) /\ Len(libs) \in Nat
            /\ DOMAIN libs' = 1 .. Len(libs) - 1
            /\ \A j \in DOMAIN libs' : libs'[j] = IF j < k THEN libs[j] ELSE libs[j + 1]
        BY <2>2, <3>1, Removed
      <4>2. \A j \in DOMAIN libs : j # k => libs[j] # libs[k]
        BY DEF RegInv, OneOfEachTag
      <4>3. \A j \in DOMAIN libs' : libs'[j] # libs[k]
        BY <3>1, <4>1, <4>2
      <4> QED BY <3>3, <4>3 DEF AnswerStable
    <3> QED BY <3>2, <3>3
  <2>5. CASE LibExists(libs, q) = NoLib
    BY <2>5 DEF AnswerStable
  <2> QED BY <2>3, <2>4, <2>5 DEF RegNext
<1> QED
  BY <1>1, RegInvHolds, PTL DEF RegSpec, AnswersStable
=============================================================================
