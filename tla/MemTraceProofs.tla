--------------------------- MODULE MemTraceProofs ---------------------------
(***************************************************************************)
(* Theorems about MemTrace for every value of its constants.               *)
(***************************************************************************)
EXTENDS MemTrace, TLAPS, SequenceTheorems, FiniteSetTheorems, WellFoundedInduction

Table  == [items : Seq(Item), modules : Seq(Entry),
           usage : 0 .. Word - 1, peak : 0 .. Word - 1]

\* A block has a size, so 0 can stand for a free address.
LEMMA SizesPositive == Size \subseteq Nat \ {0}
  BY Constants

\* A counter stays a uint32_t.
LEMMA WrapInWord ==
  ASSUME NEW n \in Int
  PROVE  Wrap(n) \in 0 .. Word - 1
<1>1. Word \in Nat /\ Word > 0
  BY Constants
<1> QED
  BY <1>1 DEF Wrap

\* Division by a positive number.
LEMMA DivModOf ==
  ASSUME NEW k \in Nat \ {0}, NEW r \in Int, NEW s \in 0 .. k - 1
  PROVE  ((r * k) + s) % k = s
BY SMT
LEMMA DivModBy ==
  ASSUME NEW k \in Nat \ {0}, NEW i \in Int
  PROVE  i = ((i \div k) * k) + (i % k) /\ i \div k \in Int /\ i % k \in 0 .. k - 1
BY SMT
LEMMA Distributes ==
  ASSUME NEW k \in Nat, NEW a \in Int, NEW b \in Int
  PROVE  (a * k) + (b * k) = (a + b) * k /\ a * k \in Int /\ b * k \in Int
BY SMT
\* A remainder can be taken before a sum and after it.
LEMMA ModOfSum ==
  ASSUME NEW k \in Nat \ {0}, NEW a \in Int, NEW b \in Int
  PROVE  ((a % k) + b) % k = (a + b) % k
<1> DEFINE m == (a % k) + b
           q == a \div k
           p == m \div k
<1>1. a = (q * k) + (a % k) /\ q \in Int /\ a % k \in 0 .. k - 1
  BY DivModBy
<1>2. m \in Int
  BY <1>1
<1>3. m = (p * k) + (m % k) /\ p \in Int /\ m % k \in 0 .. k - 1
  <2> HIDE DEF m
  <2> QED BY <1>2, DivModBy
<1> HIDE DEF p, q
<1>4. q * k \in Int /\ p * k \in Int /\ (q * k) + (p * k) = (q + p) * k /\ q + p \in Int
  BY <1>1, <1>3, Distributes
<1>5. a + b = (q * k) + m
  BY <1>1, <1>4
<1>6. a + b = ((q + p) * k) + (m % k)
  <2> HIDE DEF m
  <2> QED BY <1>2, <1>3, <1>4, <1>5
<1>7. (((q + p) * k) + (m % k)) % k = m % k
  <2> HIDE DEF m
  <2> QED BY <1>3, <1>4, DivModOf
<1> QED
  BY <1>6, <1>7

\* Adding to a counter that has wrapped is adding and then wrapping.
LEMMA WrapOfSum ==
  ASSUME NEW a \in Int, NEW b \in Int
  PROVE  Wrap(Wrap(a) + b) = Wrap(a + b)
BY ModOfSum, Constants DEF Wrap

\* Charging keeps every field of an entry but its usage and its peak.
LEMMA ChargeEntry ==
  ASSUME NEW e \in Entry, NEW n \in Nat
  PROVE  Charge(e, n) \in Entry
<1>1. Wrap(e.usage + n) \in 0 .. Word - 1
  BY WrapInWord, Constants DEF Entry
<1> QED
  BY <1>1, Constants DEF Charge, Entry, MaxOf

LEMMA ChargeTable ==
  ASSUME NEW m \in Table, NEW n \in Nat
  PROVE  /\ Charge(m, n) \in Table
         /\ Charge(m, n).items = m.items
         /\ Charge(m, n).usage = Wrap(m.usage + n)
         /\ Charge(m, n).modules = m.modules
<1>1. m.usage + n \in Int
  BY Constants DEF Table
<1>2. Wrap(m.usage + n) \in 0 .. Word - 1
  BY <1>1, WrapInWord
<1> QED
  BY <1>2, Constants DEF Charge, Table, MaxOf

\* alloc_module never makes the list longer than there are ids.
LEMMA AllocModuleType ==
  ASSUME NEW list \in Seq(Entry), Len(list) <= IdLimit + 1,
         NEW name \in Names, NEW ok \in BOOLEAN
  PROVE  /\ AllocModule(list, name, ok) \in Seq(Entry)
         /\ Len(AllocModule(list, name, ok)) <= IdLimit + 1
<1>1. name # NoModule => [name |-> name, usage |-> 0, peak |-> 0] \in Entry
  BY Constants DEF Entry, Names
<1> QED
  BY <1>1, Constants DEF AllocModule

LEMMA AddMemUsageType ==
  ASSUME NEW m \in Table, Len(m.modules) <= IdLimit + 1,
         NEW name \in Names, NEW n \in Nat, NEW ok \in BOOLEAN
  PROVE  /\ AddMemUsage(m, name, n, ok).m \in Table
         /\ AddMemUsage(m, name, n, ok).m.items = m.items
         /\ AddMemUsage(m, name, n, ok).m.usage = Wrap(m.usage + n)
         /\ Len(AddMemUsage(m, name, n, ok).m.modules) <= IdLimit + 1
         /\ AddMemUsage(m, name, n, ok).id \in Ids
<1> DEFINE all  == Charge(m, n)
           list == IF UsageBit THEN AllocModule(m.modules, name, ok) ELSE m.modules
           id   == IdOf(list, name)
<1>1. /\ all \in Table /\ all.items = m.items /\ all.modules = m.modules
      /\ all.usage = Wrap(m.usage + n)
  BY ChargeTable
<1>2. list \in Seq(Entry) /\ Len(list) <= IdLimit + 1
  BY AllocModuleType DEF Table
<1>3. 0 \in Ids
  BY Constants DEF Ids
<1>4. CASE UsageBit /\ Known(list, name)
  <2> DEFINE pos == CHOOSE i \in DOMAIN list : list[i].name = name
  <2>0. pos \in 1 .. Len(list) /\ id = pos - 1
    <3>1. pos \in DOMAIN list
      BY <1>4 DEF Known
    <3> HIDE DEF list
    <3> QED
      BY <1>2, <3>1 DEF IdOf
  <2> HIDE DEF pos
  <2>1. id + 1 \in DOMAIN list
    <3> HIDE DEF list, id
    <3> QED BY <1>2, <2>0
  <2>2. id \in Ids
    <3> HIDE DEF list, id
    <3> QED BY <1>2, <2>0, Constants DEF Ids
  <2>3. Charge(list[id + 1], n) \in Entry
    BY <1>2, <2>1, ChargeEntry
  <2> DEFINE charged == [list EXCEPT ![id + 1] = Charge(list[id + 1], n)]
  <2>4. charged \in Seq(Entry) /\ Len(charged) <= IdLimit + 1
    <3> HIDE DEF list, id
    <3>1. Len(charged) = Len(list) /\ charged \in Seq(Entry)
      BY <1>2, <2>1, <2>3
    <3> QED
      BY <1>2, <3>1
  <2>5. AddMemUsage(m, name, n, ok) = [m |-> [all EXCEPT !.modules = charged], id |-> id]
    BY <1>4 DEF AddMemUsage
  <2>6. [all EXCEPT !.modules = charged] \in Table
    <3> HIDE DEF list, id, all, charged
    <3> QED BY <1>1, <2>4 DEF Table
  <2> HIDE DEF list, id, all, charged
  <2>7. /\ [all EXCEPT !.modules = charged].items = m.items
        /\ [all EXCEPT !.modules = charged].modules = charged
        /\ [all EXCEPT !.modules = charged].usage = Wrap(m.usage + n)
    BY <1>1 DEF Table
  <2>8. /\ AddMemUsage(m, name, n, ok).m = [all EXCEPT !.modules = charged]
        /\ AddMemUsage(m, name, n, ok).id = id
    BY <2>5
  <2> QED
    BY <2>2, <2>4, <2>6, <2>7, <2>8
<1>5. CASE ~ (UsageBit /\ Known(list, name))
  <2>1. AddMemUsage(m, name, n, ok) = [m |-> [all EXCEPT !.modules = list], id |-> 0]
    BY <1>5 DEF AddMemUsage
  <2> HIDE DEF list, id, all
  <2>2. [all EXCEPT !.modules = list] \in Table
    BY <1>1, <1>2 DEF Table
  <2>3. /\ [all EXCEPT !.modules = list].items = m.items
        /\ [all EXCEPT !.modules = list].modules = list
        /\ [all EXCEPT !.modules = list].usage = Wrap(m.usage + n)
    BY <1>1 DEF Table
  <2>4. /\ AddMemUsage(m, name, n, ok).m = [all EXCEPT !.modules = list]
        /\ AddMemUsage(m, name, n, ok).id = 0
    BY <2>1
  <2> QED
    BY <1>2, <1>3, <2>2, <2>3, <2>4
<1> QED
  BY <1>4, <1>5

LEMMA RemoveMemUsageType ==
  ASSUME NEW m \in Table, Len(m.modules) <= IdLimit + 1,
         NEW id \in Ids, NEW n \in Nat
  PROVE  /\ RemoveMemUsage(m, id, n) \in Table
         /\ RemoveMemUsage(m, id, n).items = m.items
         /\ RemoveMemUsage(m, id, n).usage = Wrap(m.usage - n)
         /\ Len(RemoveMemUsage(m, id, n).modules) <= IdLimit + 1
<1> DEFINE all == [m EXCEPT !.usage = Wrap(m.usage - n)]
<1>1. /\ all \in Table /\ all.items = m.items /\ all.modules = m.modules
      /\ all.usage = Wrap(m.usage - n)
  BY WrapInWord, m.usage - n \in Int, Constants DEF Table
<1>2. CASE UsageBit /\ id + 1 \in DOMAIN m.modules
  <2> DEFINE e == [m.modules[id + 1] EXCEPT !.usage = Wrap(m.modules[id + 1].usage - n)]
             list == [m.modules EXCEPT ![id + 1] = e]
  <2>1. m.modules \in Seq(Entry) /\ m.modules[id + 1] \in Entry
    BY <1>2 DEF Table
  <2>0. m.modules[id + 1].usage - n \in Int
    BY <2>1, Constants DEF Entry
  <2>2. e \in Entry
    BY <2>0, <2>1, WrapInWord DEF Entry
  <2>3. list \in Seq(Entry) /\ Len(list) = Len(m.modules)
    <3> HIDE DEF e
    <3> QED BY <1>2, <2>1, <2>2
  <2>4. RemoveMemUsage(m, id, n) = [all EXCEPT !.modules = list]
    BY <1>1, <1>2 DEF RemoveMemUsage
  <2> HIDE DEF e, list, all
  <2> QED
    BY <1>1, <2>3, <2>4 DEF Table
<1>3. CASE ~ (UsageBit /\ id + 1 \in DOMAIN m.modules)
  BY <1>1, <1>3 DEF RemoveMemUsage
<1> QED
  BY <1>2, <1>3

-----------------------------------------------------------------------------
(* Sums over finite sets.  SumFunctionOnSet is a fold, which takes an      *)
(* element that CHOOSE picks; a sum does not depend on the order.          *)

\* A set of numbers has a least one.
LEMMA LeastOf ==
  ASSUME NEW X \in SUBSET Nat, X # {}
  PROVE  \E n \in X : \A m \in X : n <= m
<1>1. PICK n \in X : \A m \in X : <<m, n>> \notin OpToRel(<, Nat)
  BY NatLessThanWellFounded, WFMin
<1>2. \A m \in X : ~ (m < n)
  BY <1>1 DEF OpToRel
<1> QED
  BY <1>2

\* g adds f up over each subset of S.
Adds(g, f, S) ==
  g = [s \in SUBSET S |->
         IF s = {} THEN 0
         ELSE f[CHOOSE x \in s : TRUE] + g[s \ {CHOOSE x \in s : TRUE}]]

LEMMA SumIs ==
  ASSUME NEW f, NEW S
  PROVE  SumFunctionOnSet(f, S) = (CHOOSE g : Adds(g, f, S))[S]
BY DEF SumFunctionOnSet, FoldFunctionOnSet, MapThenFoldSet, Adds

\* There is such a function: up to any number of elements, by induction.
LEMMA SumExists ==
  ASSUME NEW S, IsFiniteSet(S), NEW f, \A x \in S : f[x] \in Nat
  PROVE  \E g \in [SUBSET S -> Nat] : Adds(g, f, S)
<1> DEFINE c(s) == CHOOSE x \in s : TRUE
           next(g, s) == IF s = {} THEN 0 ELSE f[c(s)] + g[s \ {c(s)}]
           Good(n) == \E g \in [SUBSET S -> Nat] :
                        \A s \in SUBSET S : Cardinality(s) <= n => g[s] = next(g, s)
           bad == {n \in Nat : ~ Good(n)}
<1>1. \A s \in SUBSET S : Cardinality(s) \in Nat /\ (Cardinality(s) = 0 <=> s = {})
  BY FS_Subset, FS_CardinalityType, FS_EmptySet
<1>2. \A s \in SUBSET S : s # {} =>
        /\ c(s) \in s /\ s \ {c(s)} \in SUBSET S
        /\ Cardinality(s \ {c(s)}) = Cardinality(s) - 1
  <2> TAKE s \in SUBSET S
  <2> HAVE s # {}
  <2>1. c(s) \in s
    OBVIOUS
  <2> HIDE DEF c
  <2>2. IsFiniteSet(s)
    BY FS_Subset
  <2> QED
    BY <2>1, <2>2, FS_RemoveElement
<1>3. Good(0)
  <2> DEFINE g == [s \in SUBSET S |-> 0]
  <2>1. g \in [SUBSET S -> Nat]
    OBVIOUS
  <2>2. \A s \in SUBSET S : Cardinality(s) <= 0 => g[s] = next(g, s)
    BY <1>1
  <2> QED BY <2>1, <2>2
<1>4. ASSUME NEW n \in Nat, Good(n) PROVE Good(n + 1)
  <2>1. PICK g \in [SUBSET S -> Nat] :
          \A s \in SUBSET S : Cardinality(s) <= n => g[s] = next(g, s)
    BY <1>4
  <2> DEFINE h == [s \in SUBSET S |-> IF Cardinality(s) <= n THEN g[s] ELSE next(g, s)]
  <2>2. \A s \in SUBSET S : next(g, s) \in Nat
    BY <1>2
  <2>3. h \in [SUBSET S -> Nat]
    <3> HIDE DEF next
    <3> QED BY <2>2
  <2>4. ASSUME NEW s \in SUBSET S, Cardinality(s) <= n + 1 PROVE h[s] = next(h, s)
    <3>1. CASE s = {}
      <4>1. Cardinality(s) <= n
        BY <1>1, <3>1
      <4> QED BY <2>1, <3>1, <4>1
    <3>2. CASE s # {}
      <4>1. Cardinality(s \ {c(s)}) <= n
        BY <1>1, <1>2, <2>4, <3>2
      <4>2. h[s \ {c(s)}] = g[s \ {c(s)}]
        BY <1>2, <3>2, <4>1
      <4>3. next(h, s) = next(g, s)
        BY <3>2, <4>2
      <4> HIDE DEF next
      <4> QED BY <2>1, <4>3
    <3> QED BY <3>1, <3>2
  <2> HIDE DEF h
  <2> QED BY <2>3, <2>4
<1>5. bad = {}
  <2> SUFFICES ASSUME bad # {} PROVE FALSE
    OBVIOUS
  <2>1. PICK n \in bad : \A m \in bad : n <= m
    <3> HIDE DEF Good
    <3> QED BY LeastOf
  <2> HIDE DEF Good
  <2>2. n # 0
    BY <1>3
  <2>3. n - 1 \in Nat /\ n - 1 \notin bad
    BY <2>1, <2>2
  <2> QED BY <1>4, <2>3
<1>6. Good(Cardinality(S))
  <2> HIDE DEF Good
  <2> QED BY <1>5, FS_CardinalityType
<1>7. \A s \in SUBSET S : Cardinality(s) <= Cardinality(S)
  BY FS_Subset
<1> QED
  BY <1>6, <1>7 DEF Adds

\* Two such functions agree.
LEMMA SumUnique ==
  ASSUME NEW S, IsFiniteSet(S), NEW T \in SUBSET S, NEW f, NEW f2,
         \A x \in T : f2[x] = f[x],
         NEW g, Adds(g, f, S), NEW h, Adds(h, f2, T)
  PROVE  \A s \in SUBSET T : g[s] = h[s]
<1> DEFINE c(s) == CHOOSE x \in s : TRUE
           bad == {s \in SUBSET T : g[s] # h[s]}
<1> SUFFICES ASSUME bad # {} PROVE FALSE
  OBVIOUS
<1>1. IsFiniteSet(T)
  BY FS_Subset
<1>2. bad \subseteq FiniteSubsetsOf(T)
  BY <1>1, FS_FiniteSubsetsOfFinite
<1>3. PICK s \in bad : \A t \in bad : <<t, s>> \notin StrictSubsetOrdering(T)
  <2> HIDE DEF bad
  <2> QED BY <1>2, FS_StrictSubsetOrderingWellFounded, WFMin
<1>4. s \in SUBSET T /\ g[s] # h[s]
  OBVIOUS
<1>5. s # {}
  BY <1>4 DEF Adds
<1>6. c(s) \in s
  BY <1>5
<1>7. g[s] = f[c(s)] + g[s \ {c(s)}] /\ h[s] = f2[c(s)] + h[s \ {c(s)}]
  BY <1>4, <1>5 DEF Adds
<1>8. f2[c(s)] = f[c(s)]
  BY <1>4, <1>6
<1> DEFINE t == s \ {c(s)}
<1>9. t \in SUBSET T /\ t \subseteq s /\ t # s
  BY <1>4, <1>6
<1>10. <<t, s>> \in StrictSubsetOrdering(T)
  BY <1>4, <1>9 DEF StrictSubsetOrdering
<1>11. g[t] = h[t]
  BY <1>3, <1>9, <1>10
<1> QED
  BY <1>4, <1>7, <1>8, <1>11

LEMMA SumOfNone == ASSUME NEW f PROVE SumFunctionOnSet(f, {}) = 0
<1>1. PICK g : Adds(g, f, {})
  BY FS_EmptySet, SumExists
<1>2. Adds(CHOOSE g2 : Adds(g2, f, {}), f, {})
  BY <1>1
<1> QED
  BY <1>2, SumIs DEF Adds

\* A sum is a number, and that of what is left plus what was taken.
LEMMA SumChosen ==
  ASSUME NEW S, IsFiniteSet(S), NEW f, \A x \in S : f[x] \in Nat
  PROVE  /\ SumFunctionOnSet(f, S) \in Nat
         /\ S # {} => SumFunctionOnSet(f, S)
                        = f[CHOOSE x \in S : TRUE] + SumFunctionOnSet(f, S \ {CHOOSE x \in S : TRUE})
<1> DEFINE G(T) == CHOOSE g : Adds(g, f, T)
           c == CHOOSE x \in S : TRUE
           T == S \ {c}
<1>0. T \in SUBSET S /\ IsFiniteSet(T)
  BY FS_Subset
<1>1. PICK g \in [SUBSET S -> Nat] : Adds(g, f, S)
  BY SumExists
<1>2. Adds(G(S), f, S)
  BY <1>1
<1>3. Adds(G(T), f, T)
  BY <1>0, SumExists
<1> HIDE DEF T
<1>4. \A s \in SUBSET S : G(S)[s] = g[s]
  BY ONLY <1>1, <1>2, IsFiniteSet(S), SumUnique
<1>5. \A s \in SUBSET T : G(S)[s] = G(T)[s]
  <2> HIDE DEF G
  <2> QED BY ONLY <1>0, <1>2, <1>3, IsFiniteSet(S), SumUnique
<1>6. SumFunctionOnSet(f, S) = G(S)[S] /\ SumFunctionOnSet(f, T) = G(T)[T]
  BY SumIs
<1> HIDE DEF G
<1>7. S # {} => G(S)[S] = f[c] + G(S)[T]
  BY <1>2 DEF Adds, T
<1> QED
  BY <1>1, <1>4, <1>5, <1>6, <1>7 DEF T

\* The sum of the same terms is the same.
LEMMA SumSame ==
  ASSUME NEW S, IsFiniteSet(S), NEW f, NEW h, \A x \in S : f[x] \in Nat,
         \A x \in S : h[x] = f[x]
  PROVE  SumFunctionOnSet(h, S) = SumFunctionOnSet(f, S)
<1> DEFINE F == CHOOSE g : Adds(g, f, S)
           H == CHOOSE g : Adds(g, h, S)
<1>1. Adds(F, f, S) /\ Adds(H, h, S)
  BY SumExists
<1>2. S \in SUBSET S
  OBVIOUS
<1>3. SumFunctionOnSet(f, S) = F[S] /\ SumFunctionOnSet(h, S) = H[S]
  BY SumIs
<1> HIDE DEF F, H
<1>4. \A s \in SUBSET S : F[s] = H[s]
  BY ONLY <1>1, <1>2, IsFiniteSet(S), \A x \in S : h[x] = f[x], SumUnique
<1> QED
  BY <1>2, <1>3, <1>4

\* Some subsets have a smallest among them.
LEMMA LeastSubset ==
  ASSUME NEW S, IsFiniteSet(S), NEW X \in SUBSET (SUBSET S), X # {}
  PROVE  \E s \in X : \A t \in X : t \subseteq s => t = s
<1>1. X \subseteq FiniteSubsetsOf(S)
  BY FS_FiniteSubsetsOfFinite
<1>2. PICK s \in X : \A t \in X : <<t, s>> \notin StrictSubsetOrdering(S)
  BY <1>1, FS_StrictSubsetOrderingWellFounded, WFMin
<1> QED
  BY <1>2 DEF StrictSubsetOrdering

\* Whatever element is taken out first.
LEMMA SumWithout ==
  ASSUME NEW S, IsFiniteSet(S), NEW f, \A x \in S : f[x] \in Nat, NEW z \in S
  PROVE  SumFunctionOnSet(f, S) = f[z] + SumFunctionOnSet(f, S \ {z})
<1> DEFINE Sum(s) == SumFunctionOnSet(f, s)
           c(s) == CHOOSE x \in s : TRUE
           bad == {s \in SUBSET S : \E x \in s : Sum(s) # f[x] + Sum(s \ {x})}
<1> SUFFICES ASSUME bad # {} PROVE FALSE
  OBVIOUS
<1>1. PICK s \in bad : \A t \in bad : t \subseteq s => t = s
  <2> HIDE DEF bad
  <2>1. bad \in SUBSET (SUBSET S)
    BY DEF bad
  <2> QED BY <2>1, LeastSubset
<1>2. PICK x \in s : Sum(s) # f[x] + Sum(s \ {x})
  BY <1>1
<1>3. s \in SUBSET S /\ s # {} /\ c(s) \in s
  BY <1>1, <1>2
<1>4. \A t \in SUBSET S : Sum(t) \in Nat /\ (t # {} => Sum(t) = f[c(t)] + Sum(t \ {c(t)}))
  BY FS_Subset, SumChosen
<1> DEFINE y == c(s)
<1>5. x # y
  BY <1>2, <1>3, <1>4
<1>6. \A t \in SUBSET S : t \subseteq s /\ t # s => \A u \in t : Sum(t) = f[u] + Sum(t \ {u})
  BY <1>1
<1>7. y \in s
  BY <1>3
<1> HIDE DEF y, bad, Sum
<1>8. Sum(s \ {y}) = f[x] + Sum((s \ {y}) \ {x})
  <2>1. s \ {y} \in SUBSET S /\ s \ {y} \subseteq s /\ s \ {y} # s /\ x \in s \ {y}
    BY <1>3, <1>5, <1>7
  <2> QED BY <1>6, <2>1
<1>9. Sum(s \ {x}) = f[y] + Sum((s \ {x}) \ {y})
  <2>1. s \ {x} \in SUBSET S /\ s \ {x} \subseteq s /\ s \ {x} # s /\ y \in s \ {x}
    BY <1>2, <1>3, <1>5, <1>7
  <2> QED BY <1>6, <2>1
<1>10. (s \ {y}) \ {x} = (s \ {x}) \ {y}
  OBVIOUS
<1>11. Sum(s) = f[y] + Sum(s \ {y})
  BY <1>3, <1>4 DEF y
<1>12. f[x] \in Nat /\ f[y] \in Nat /\ Sum((s \ {x}) \ {y}) \in Nat
  BY <1>2, <1>3, <1>4, <1>7
<1> QED
  BY <1>2, <1>8, <1>9, <1>10, <1>11, <1>12

\* One term may change.
LEMMA SumChanged ==
  ASSUME NEW S, IsFiniteSet(S), NEW f, \A x \in S : f[x] \in Nat,
         NEW z \in S, NEW h, h[z] \in Nat, \A x \in S \ {z} : h[x] = f[x]
  PROVE  SumFunctionOnSet(h, S) + f[z] = SumFunctionOnSet(f, S) + h[z]
<1> DEFINE T == S \ {z}
<1>0. \A x \in S : h[x] \in Nat
  OBVIOUS
<1>1. /\ SumFunctionOnSet(f, S) = f[z] + SumFunctionOnSet(f, T)
      /\ SumFunctionOnSet(h, S) = h[z] + SumFunctionOnSet(h, T)
  BY <1>0, SumWithout
<1>2. IsFiniteSet(T) /\ \A x \in T : f[x] \in Nat /\ h[x] = f[x]
  BY FS_Subset
<1> HIDE DEF T
<1>3. SumFunctionOnSet(h, T) = SumFunctionOnSet(f, T) /\ SumFunctionOnSet(f, T) \in Nat
  BY <1>2, SumSame, SumChosen
<1> QED
  BY <1>1, <1>3

\* b gives the terms of f other names, under which h has them.
Renames(b, f, S, h, T) ==
  /\ \A x \in S : b[x] \in T /\ h[b[x]] = f[x]
  /\ \A x, y \in S : b[x] = b[y] => x = y
  /\ \A z \in T : \E x \in S : b[x] = z

LEMMA SumRenamed ==
  ASSUME NEW S, IsFiniteSet(S), NEW f, \A x \in S : f[x] \in Nat,
         NEW T, IsFiniteSet(T), NEW h, NEW b, Renames(b, f, S, h, T)
  PROVE  SumFunctionOnSet(h, T) = SumFunctionOnSet(f, S)
<1> USE DEF Renames
<1> DEFINE Of(s) == {b[x] : x \in s}
           bad == {s \in SUBSET S : SumFunctionOnSet(h, Of(s)) # SumFunctionOnSet(f, s)}
<1>1. ASSUME bad # {} PROVE FALSE
  <2>1. PICK s \in bad : \A t \in bad : t \subseteq s => t = s
    <3> HIDE DEF bad
    <3>1. bad \in SUBSET (SUBSET S)
      BY DEF bad
    <3> QED BY <1>1, <3>1, LeastSubset
  <2>2. s \in SUBSET S /\ SumFunctionOnSet(h, Of(s)) # SumFunctionOnSet(f, s)
    BY <2>1
  <2>3. s # {}
    <3> SUFFICES ASSUME s = {} PROVE FALSE
      OBVIOUS
    <3>1. Of(s) = {}
      OBVIOUS
    <3> QED BY <2>2, <3>1, SumOfNone
  <2>4. PICK x \in s : TRUE
    BY <2>3
  <2> DEFINE t == s \ {x}
  <2>5. t \in SUBSET S /\ t \notin bad
    BY <2>1, <2>2, <2>4
  <2>6. SumFunctionOnSet(h, Of(t)) = SumFunctionOnSet(f, t)
    BY <2>5
  <2>7. Of(t) = Of(s) \ {b[x]}
    BY <2>2, <2>4
  <2>8. Of(s) \in SUBSET T /\ b[x] \in Of(s) /\ h[b[x]] = f[x]
    BY <2>2, <2>4
  <2>9. IsFiniteSet(s) /\ IsFiniteSet(Of(s))
    <3> HIDE DEF Of
    <3> QED BY <2>2, <2>8, FS_Subset
  <2>10. \A z \in Of(s) : h[z] \in Nat
    BY <2>2
  <2> HIDE DEF Of, bad
  <2>11. SumFunctionOnSet(f, s) = f[x] + SumFunctionOnSet(f, t)
    BY <2>2, <2>4, <2>9, SumWithout
  <2>12. SumFunctionOnSet(h, Of(s)) = h[b[x]] + SumFunctionOnSet(h, Of(s) \ {b[x]})
    BY <2>8, <2>9, <2>10, SumWithout
  <2> QED BY <2>2, <2>6, <2>7, <2>8, <2>11, <2>12
<1>2. S \in SUBSET S /\ Of(S) = T
  OBVIOUS
<1> QED
  BY <1>1, <1>2

\* Terms that are 0 need not be added.
LEMMA SumOfOthers ==
  ASSUME NEW S, IsFiniteSet(S), NEW f, \A x \in S : f[x] \in Nat,
         NEW T \in SUBSET S, \A x \in S \ T : f[x] = 0
  PROVE  SumFunctionOnSet(f, S) = SumFunctionOnSet(f, T)
<1> DEFINE Sum(s) == SumFunctionOnSet(f, s)
           bad == {s \in SUBSET S : Sum(s) # Sum(s \cap T)}
<1>1. ASSUME bad # {} PROVE FALSE
  <2>1. PICK s \in bad : \A t \in bad : t \subseteq s => t = s
    <3> HIDE DEF bad
    <3>1. bad \in SUBSET (SUBSET S)
      BY DEF bad
    <3> QED BY <1>1, <3>1, LeastSubset
  <2>2. s \in SUBSET S /\ Sum(s) # Sum(s \cap T)
    BY <2>1
  <2>3. s # {}
    <3> SUFFICES ASSUME s = {} PROVE FALSE
      OBVIOUS
    <3>1. s \cap T = s
      OBVIOUS
    <3> QED BY <2>2, <3>1
  <2>4. PICK x \in s : TRUE
    BY <2>3
  <2>5. Sum(s \ {x}) = Sum((s \ {x}) \cap T)
    BY <2>1, <2>2, <2>4
  <2>6. IsFiniteSet(s) /\ IsFiniteSet(s \cap T)
    BY <2>2, FS_Subset
  <2>7. (\A y \in s : f[y] \in Nat) /\ (\A y \in s \cap T : f[y] \in Nat)
    BY <2>2
  <2>8. Sum(s) = f[x] + Sum(s \ {x})
    BY <2>4, <2>6, <2>7, SumWithout
  <2>9. CASE x \in T
    <3>1. Sum(s \cap T) = f[x] + Sum((s \cap T) \ {x})
      BY <2>4, <2>6, <2>7, <2>9, SumWithout
    <3>2. (s \cap T) \ {x} = (s \ {x}) \cap T
      OBVIOUS
    <3> HIDE DEF Sum
    <3> QED BY <2>2, <2>5, <2>8, <3>1, <3>2
  <2>10. CASE x \notin T
    <3>1. (s \ {x}) \cap T = s \cap T /\ f[x] = 0
      BY <2>2, <2>4, <2>10
    <3>2. Sum(s \cap T) \in Nat
      BY <2>6, <2>7, SumChosen
    <3>3. Sum(s \ {x}) = Sum(s \cap T)
      BY <2>5, <3>1
    <3> HIDE DEF Sum
    <3> QED BY <2>2, <2>8, <3>1, <3>2, <3>3
  <2> QED BY <2>9, <2>10
<1>2. S \in SUBSET S /\ S \cap T = T
  OBVIOUS
<1> QED
  BY <1>1, <1>2

\* Larger terms, larger sums.
LEMMA SumAtMost ==
  ASSUME NEW S, IsFiniteSet(S), NEW f, NEW h,
         \A x \in S : f[x] \in Nat /\ h[x] \in Nat /\ f[x] <= h[x]
  PROVE  SumFunctionOnSet(f, S) <= SumFunctionOnSet(h, S)
<1> DEFINE bad == {s \in SUBSET S : ~ (SumFunctionOnSet(f, s) <= SumFunctionOnSet(h, s))}
<1>1. ASSUME bad # {} PROVE FALSE
  <2>1. PICK s \in bad : \A t \in bad : t \subseteq s => t = s
    <3> HIDE DEF bad
    <3>1. bad \in SUBSET (SUBSET S)
      BY DEF bad
    <3> QED BY <1>1, <3>1, LeastSubset
  <2>2. s \in SUBSET S /\ ~ (SumFunctionOnSet(f, s) <= SumFunctionOnSet(h, s))
    BY <2>1
  <2>3. s # {}
    <3> SUFFICES ASSUME s = {} PROVE FALSE
      OBVIOUS
    <3>1. SumFunctionOnSet(f, {}) = 0 /\ SumFunctionOnSet(h, {}) = 0
      BY SumOfNone
    <3> QED BY <2>2, <3>1
  <2>4. PICK x \in s : TRUE
    BY <2>3
  <2> DEFINE t == s \ {x}
  <2>5. SumFunctionOnSet(f, t) <= SumFunctionOnSet(h, t)
    BY <2>1, <2>2, <2>4
  <2>6. IsFiniteSet(s) /\ IsFiniteSet(t)
    BY <2>2, FS_Subset
  <2>7. \A y \in s : f[y] \in Nat /\ h[y] \in Nat /\ f[y] <= h[y]
    BY <2>2
  <2>8. /\ SumFunctionOnSet(f, s) = f[x] + SumFunctionOnSet(f, t)
        /\ SumFunctionOnSet(h, s) = h[x] + SumFunctionOnSet(h, t)
    BY <2>4, <2>6, <2>7, SumWithout
  <2>9. SumFunctionOnSet(f, t) \in Nat /\ SumFunctionOnSet(h, t) \in Nat
    BY <2>6, <2>7, SumChosen
  <2> HIDE DEF t
  <2> QED BY <2>2, <2>4, <2>5, <2>7, <2>8, <2>9
<1>2. S \in SUBSET S
  OBVIOUS
<1> QED
  BY <1>1, <1>2

-----------------------------------------------------------------------------
(* The record table. *)

Recorded(items, a) == \E i \in DOMAIN items : items[i].addr = a
Distinct(items)    == \A i, j \in DOMAIN items : items[i].addr = items[j].addr => i = j

\* get_trace_item answers a record of the address, if there is one.
LEMMA FirstMatchIsMatch ==
  ASSUME NEW items \in Seq(Item), NEW a, Recorded(items, a)
  PROVE  FirstMatch(items, a) \in Matches(items, a)
<1> DEFINE M == Matches(items, a)
<1>1. M # {} /\ M \subseteq Nat
  BY DEF Matches, Recorded
<1>2. \E i \in M : \A j \in M : i <= j
  <2> HIDE DEF M
  <2> QED BY <1>1, LeastOf
<1> QED
  BY <1>2 DEF FirstMatch

\* remove_trace_item drops one record and keeps the others, each once.
LEMMA SwapRemoveKeeps ==
  ASSUME NEW items \in Seq(Item), NEW i \in 1 .. Len(items)
  PROVE  /\ SwapRemove(items, i) \in Seq(Item)
         /\ DOMAIN SwapRemove(items, i) = 1 .. Len(items) - 1
         /\ \A j \in 1 .. Len(items) - 1 :
              SwapRemove(items, i)[j] = items[IF j = i THEN Len(items) ELSE j]
<1>1. Len(items) - 1 \in Nat
  OBVIOUS
<1>2. \A j \in 1 .. Len(items) - 1 : items[j] \in Item
  OBVIOUS
<1>3. items[Len(items)] \in Item
  OBVIOUS
<1> QED
  BY <1>1, <1>2, <1>3 DEF SwapRemove

\* What remove_trace(a) does to the table.
LEMMA RemoveTraceTable ==
  ASSUME NEW m \in Table, Len(m.modules) <= IdLimit + 1, NEW a
  PROVE  /\ RemoveTrace(m, a) \in Table
         /\ Len(RemoveTrace(m, a).modules) <= IdLimit + 1
         /\ \A j \in DOMAIN RemoveTrace(m, a).items :
              \E k \in DOMAIN m.items : RemoveTrace(m, a).items[j] = m.items[k]
         /\ Distinct(m.items) =>
              /\ Distinct(RemoveTrace(m, a).items)
              /\ ~ Recorded(RemoveTrace(m, a).items, a)
<1>0. m.items \in Seq(Item)
  BY DEF Table
<1>1. CASE Matches(m.items, a) = {}
  BY <1>1 DEF RemoveTrace, Recorded, Matches
<1>2. CASE Matches(m.items, a) # {}
  <2> DEFINE i == FirstMatch(m.items, a)
             r == RemoveMemUsage(m, m.items[i].id, m.items[i].size)
             s == SwapRemove(m.items, i)
  <2>1. i \in 1 .. Len(m.items) /\ m.items[i].addr = a
    BY <1>0, <1>2, FirstMatchIsMatch DEF Matches, Recorded
  <2>2. m.items[i].id \in Ids /\ m.items[i].size \in Nat
    <3> HIDE DEF i
    <3>1. m.items[i] \in Item
      BY <1>0, <2>1
    <3> QED BY <3>1, SizesPositive DEF Item
  <2>3. r \in Table /\ Len(r.modules) <= IdLimit + 1
    BY <2>2, RemoveMemUsageType
  <2>4. /\ s \in Seq(Item) /\ DOMAIN s = 1 .. Len(m.items) - 1
        /\ \A j \in 1 .. Len(m.items) - 1 :
             s[j] = m.items[IF j = i THEN Len(m.items) ELSE j]
    BY <1>0, <2>1, SwapRemoveKeeps
  <2>5. RemoveTrace(m, a) = [r EXCEPT !.items = s]
    BY <1>2 DEF RemoveTrace
  <2> HIDE DEF r, s, i
  <2>6. [r EXCEPT !.items = s] \in Table /\ [r EXCEPT !.items = s].items = s
        /\ [r EXCEPT !.items = s].modules = r.modules
    BY <2>3, <2>4 DEF Table
  <2>7. \A j \in DOMAIN s : \E k \in DOMAIN m.items : s[j] = m.items[k] /\ k # i
    <3> TAKE j \in DOMAIN s
    <3> DEFINE k == IF j = i THEN Len(m.items) ELSE j
    <3>1. k \in DOMAIN m.items /\ s[j] = m.items[k] /\ k # i
      BY <1>0, <2>1, <2>4
    <3> QED BY <3>1
  <2>8. ASSUME Distinct(m.items)
        PROVE  Distinct(s) /\ ~ Recorded(s, a)
    <3>1. ~ Recorded(s, a)
      BY <1>0, <2>1, <2>7, <2>8 DEF Distinct, Recorded
    <3>2. Distinct(s)
      <4> SUFFICES ASSUME NEW j \in DOMAIN s, NEW l \in DOMAIN s, s[j].addr = s[l].addr
                   PROVE  j = l
        BY DEF Distinct
      <4> DEFINE k(x) == IF x = i THEN Len(m.items) ELSE x
      <4>1. k(j) \in DOMAIN m.items /\ k(l) \in DOMAIN m.items
        BY <1>0, <2>1, <2>4
      <4>2. m.items[k(j)].addr = m.items[k(l)].addr
        BY <2>4
      <4>3. k(j) = k(l)
        <5> HIDE DEF k
        <5> QED BY <2>8, <4>1, <4>2 DEF Distinct
      <4> QED BY <1>0, <2>4, <4>3
    <3> QED BY <3>1, <3>2
  <2> QED
    BY <2>3, <2>5, <2>6, <2>7, <2>8
<1> QED
  BY <1>1, <1>2

\* What add_trace does: the table stays as it is, or gets one record more.
LEMMA AddTraceTable ==
  ASSUME mt \in Table, Len(mt.modules) <= IdLimit + 1, lost \in [Ids -> Nat],
         NEW name \in Names, NEW a \in Block, NEW size \in Size,
         AddTrace(name, a, size)
  PROVE  /\ mt' \in Table /\ Len(mt'.modules) <= IdLimit + 1
         /\ lost' \in [Ids -> Nat]
         /\ \/ mt'.items = mt.items
            \/ \E id \in Ids : mt'.items = Append(mt.items, [addr |-> a, size |-> size, id |-> id])
<1>1. PICK ok \in {TRUE} \cup {~ MayFail} :
        LET added == AddMemUsage(mt, name, size, ok)
            item  == [addr |-> a, size |-> size, id |-> added.id]
        IN  IF Full(mt)
              THEN /\ mt' = added.m
                   /\ lost' = [lost EXCEPT ![added.id] = @ + size]
              ELSE /\ mt' = [added.m EXCEPT !.items = Append(mt.items, item)]
                   /\ UNCHANGED lost
  BY DEF AddTrace
<1> DEFINE added == AddMemUsage(mt, name, size, ok)
           item  == [addr |-> a, size |-> size, id |-> added.id]
<1>2. ok \in BOOLEAN /\ size \in Nat
  <2>1. ok \in BOOLEAN
    OBVIOUS
  <2> QED BY <2>1, SizesPositive
<1>3. /\ added.m \in Table /\ added.m.items = mt.items
      /\ Len(added.m.modules) <= IdLimit + 1 /\ added.id \in Ids
  BY <1>2, AddMemUsageType
<1>4. IF Full(mt)
        THEN /\ mt' = added.m
             /\ lost' = [lost EXCEPT ![added.id] = @ + size]
        ELSE /\ mt' = [added.m EXCEPT !.items = Append(mt.items, item)]
             /\ UNCHANGED lost
  BY <1>1
<1> HIDE DEF added
<1>5. lost[added.id] + size \in Nat
  BY <1>2, <1>3
<1>6. Append(mt.items, item) \in Seq(Item)
  BY <1>3 DEF Table, Item
<1>7. CASE Full(mt)
  BY <1>3, <1>4, <1>5, <1>7
<1>8. CASE ~ Full(mt)
  <2> HIDE DEF item
  <2>1. /\ [added.m EXCEPT !.items = Append(mt.items, item)] \in Table
        /\ [added.m EXCEPT !.items = Append(mt.items, item)].modules = added.m.modules
        /\ [added.m EXCEPT !.items = Append(mt.items, item)].items = Append(mt.items, item)
    BY <1>3, <1>6 DEF Table
  <2> QED BY <1>3, <1>4, <1>8, <2>1 DEF item
<1> QED
  BY <1>7, <1>8

-----------------------------------------------------------------------------
(* Type correctness.  A call must carry what its later steps will use: a   *)
(* size that was asked for, the block it was handed.                       *)

TaskRec == [pc : InUse \cup {"idle"}, addr : Block \cup {NoAddr},
            new : Block \cup {NoAddr}, size : Size \cup {0}, name : Names]
HeapRec == [size : Size \cup {0}, name : Names, traced : BOOLEAN]

ReallocPc == {"krealloc", "lock", "mlock", "mrealloc", "rremove", "radd"}

ArgsOK(k) ==
  /\ k.pc \in ReallocPc \cup {"kmalloc", "add"} => k.size \in Size
  /\ k.pc = "add" => k.new \in Block
  /\ k.pc \in {"remove", "kfree", "untrack"} => k.addr \in Block
  /\ k.pc \in ReallocPc => {k.addr, k.new} \subseteq Addr \cup {NoAddr}

TableOK   == mt \in Table /\ Len(mt.modules) <= IdLimit + 1 /\ lost \in [Ids -> Nat]
HeapOK    == heap \in [Block -> HeapRec]
TasksOK   == task \in [Task -> TaskRec] /\ \A t \in Task : ArgsOK(task[t])
ControlOK == /\ mtState \in {"null", "ready", "unlocked"}
             /\ typeSet \in BOOLEAN /\ recordNum \in Nat /\ lib \in {"kept", "trace"}
             /\ holder \in Task \cup {NoTask}
             /\ ctl \in {"idle", "num", "install", "restore", "mutex", "free"}
TypeInv   == TableOK /\ HeapOK /\ TasksOK /\ ControlOK

LEMMA TypeInvImpliesTypeOK == TypeInv => TypeOK
  BY DEF TypeInv, TableOK, HeapOK, TasksOK, ControlOK, TypeOK, Table, HeapRec, TaskRec

LEMMA EmptyTable == Empty \in Table /\ Len(Empty.modules) = 0 /\ Empty.items = <<>>
  BY Constants DEF Empty, Table

LEMMA TypeInit == Init => TypeInv
<1> SUFFICES ASSUME Init PROVE TypeInv
  OBVIOUS
<1>1. TableOK
  BY EmptyTable, Constants DEF Init, TableOK
<1>2. HeapOK
  BY DEF Init, HeapOK, HeapRec, Free, Names
<1>3. TasksOK
  BY DEF Init, TasksOK, TaskRec, Idle, Names, ArgsOK, ReallocPc
<1>4. ControlOK
  BY DEF Init, ControlOK
<1> QED
  BY <1>1, <1>2, <1>3, <1>4 DEF TypeInv

\* A step that starts or moves on one call keeps the calls well-formed.
LEMMA OneTaskMoves ==
  ASSUME TasksOK, NEW t \in Task, NEW k \in TaskRec, ArgsOK(k),
         task' = [task EXCEPT ![t] = k]
  PROVE  TasksOK'
BY DEF TasksOK, ArgsOK, ReallocPc

LEMMA ReturnType ==
  ASSUME TasksOK, NEW t \in Task, Return(t)
  PROVE  TasksOK'
<1>1. Idle \in TaskRec /\ ArgsOK(Idle)
  BY DEF Idle, TaskRec, Names, ArgsOK, ReallocPc
<1> QED
  BY <1>1, OneTaskMoves DEF Return

LEMMA GotoType ==
  ASSUME TasksOK, NEW t \in Task, NEW pc \in InUse, NEW addr \in Block \cup {NoAddr},
         NEW new \in Block \cup {NoAddr}, NEW size \in Size \cup {0}, NEW name \in Names,
         ArgsOK([pc |-> pc, addr |-> addr, new |-> new, size |-> size, name |-> name]),
         Goto(t, pc, addr, new, size, name)
  PROVE  TasksOK'
<1>1. [pc |-> pc, addr |-> addr, new |-> new, size |-> size, name |-> name] \in TaskRec
  BY DEF TaskRec
<1> QED
  BY <1>1, OneTaskMoves DEF Goto

LEMMA HandType ==
  ASSUME HeapOK, NEW a \in Block, NEW size \in Size, NEW name \in Names,
         NEW traced \in BOOLEAN, Hand(a, size, name, traced)
  PROVE  HeapOK'
<1>1. [size |-> size, name |-> name, traced |-> traced] \in HeapRec
  BY DEF HeapRec
<1> QED
  BY <1>1 DEF HeapOK, Hand

LEMMA FreeType ==
  ASSUME HeapOK, NEW a \in Block, heap' = [heap EXCEPT ![a] = Free]
  PROVE  HeapOK'
<1>1. Free \in HeapRec
  BY DEF HeapRec, Free, Names
<1> QED
  BY <1>1 DEF HeapOK

LEMMA KeptReallocType ==
  ASSUME HeapOK, NEW a \in Addr \cup {NoAddr}, NEW size \in Size, NEW name \in Names,
         NEW new \in Addr \cup {NoAddr}, KeptRealloc(a, size, name, new)
  PROVE  HeapOK'
<1>1. Free \in HeapRec
  BY DEF HeapRec, Free, Names
<1>2. ASSUME NEW b \in Block
      PROVE  [size |-> size, name |-> name, traced |-> new = a /\ heap[b].traced] \in HeapRec
  <2>1. heap[b].traced \in BOOLEAN
    BY <1>2 DEF HeapOK, HeapRec
  <2>2. (new = a /\ heap[b].traced) \in BOOLEAN
    OBVIOUS
  <2> QED BY <2>2 DEF HeapRec
<1>3. CASE UNCHANGED heap
  BY <1>3 DEF HeapOK
<1>4. CASE heap' = [b \in Block |->
                      CASE b = new -> [size |-> size, name |-> name,
                                       traced |-> new = a /\ heap[b].traced]
                        [] b = a /\ a # new -> Free
                        [] OTHER -> heap[b]]
  BY <1>1, <1>2, <1>4 DEF HeapOK
<1> QED
  BY <1>3, <1>4 DEF KeptRealloc

LEMMA TracedType ==
  ASSUME HeapOK, NEW a \in Block, heap' = [heap EXCEPT ![a].traced = TRUE]
  PROVE  HeapOK'
BY DEF HeapOK, HeapRec

LEMMA TypeCall ==
  ASSUME TypeInv, NEW t \in Task, Call(t)
  PROVE  TypeInv'
<1> USE DEF TypeInv
<1>0. UNCHANGED <<mt, traceVars, holder, lost>> \* no call enters the table before the mutex
  BY Zenon DEF Call, CallAlloc, CallFree, CallRealloc, CallTrack, CallUntrack, CallQuery
<1>1. TableOK'
  BY <1>0 DEF TableOK
<1>2. ControlOK'
  BY <1>0 DEF ControlOK, traceVars
<1>3. HeapOK' /\ TasksOK'
  <2>1. ASSUME NEW name \in AllocNames, NEW size \in Size, CallAlloc(t, name, size)
        PROVE  HeapOK' /\ TasksOK'
    <3>1. name \in Names /\ NameIn(name) \in Names
      BY Constants DEF Names, NameIn
    <3>2. CASE Goto(t, "kmalloc", NoAddr, NoAddr, size, NameIn(name)) /\ UNCHANGED heap
      <4>1. TasksOK'
        BY <3>1, <3>2, GotoType DEF ArgsOK, InUse, ReallocPc
      <4> QED BY <3>2, <4>1 DEF HeapOK
    <3>3. CASE (\E a \in Addr : ~ Live(a) /\ Hand(a, size, name, FALSE)) /\ UNCHANGED task
      <4>1. HeapOK'
        BY <3>1, <3>3, HandType DEF Block
      <4> QED BY <3>3, <4>1 DEF TasksOK
    <3> QED BY <2>1, <3>2, <3>3 DEF CallAlloc
  <2>2. ASSUME NEW a \in Addr, CallFree(t, a)
        PROVE  HeapOK' /\ TasksOK'
    <3>1. CASE Goto(t, "remove", a, NoAddr, 0, NoModule) /\ UNCHANGED heap
      <4>1. TasksOK'
        BY <3>1, GotoType DEF ArgsOK, InUse, ReallocPc, Block, Names
      <4> QED BY <3>1, <4>1 DEF HeapOK
    <3>2. CASE heap' = [heap EXCEPT ![a] = Free] /\ UNCHANGED task
      <4>1. HeapOK'
        BY <3>2, FreeType DEF Block
      <4> QED BY <3>2, <4>1 DEF TasksOK
    <3> QED BY <2>2, <3>1, <3>2 DEF CallFree
  <2>3. ASSUME NEW name \in ReallocNames, NEW a \in Addr \cup {NoAddr}, NEW size \in Size,
               CallRealloc(t, name, a, size)
        PROVE  HeapOK' /\ TasksOK'
    <3>1. name \in Names
      BY Constants DEF Names
    <3>2. CASE Goto(t, "mlock", a, NoAddr, size, name) /\ UNCHANGED heap
      <4>1. TasksOK'
        BY <3>1, <3>2, GotoType DEF ArgsOK, InUse, ReallocPc, Block
      <4> QED BY <3>2, <4>1 DEF HeapOK
    <3>3. CASE Goto(t, "krealloc", a, NoAddr, size, NoModule) /\ UNCHANGED heap
      <4>1. TasksOK'
        BY <3>3, GotoType DEF ArgsOK, InUse, ReallocPc, Block, Names
      <4> QED BY <3>3, <4>1 DEF HeapOK
    <3>4. CASE /\ \E new \in Addr \cup {NoAddr} : KeptRealloc(a, size, name, new)
               /\ UNCHANGED task
      <4>1. HeapOK'
        BY <3>1, <3>4, KeptReallocType
      <4> QED BY <3>4, <4>1 DEF TasksOK
    <3> QED BY <2>3, <3>2, <3>3, <3>4 DEF CallRealloc
  <2>4. ASSUME NEW name \in AllocNames, NEW a \in Extern, NEW size \in Size,
               CallTrack(t, name, a, size)
        PROVE  HeapOK' /\ TasksOK'
    <3>1. name \in Names
      BY Constants DEF Names
    <3>2. HeapOK'
      BY <2>4, <3>1, HandType DEF CallTrack, Block
    <3>3. TasksOK'
      BY <2>4, <3>1, GotoType DEF CallTrack, ArgsOK, InUse, ReallocPc, Block
    <3> QED BY <3>2, <3>3
  <2>5. ASSUME NEW a \in Extern, CallUntrack(t, a)
        PROVE  HeapOK' /\ TasksOK'
    <3>1. CASE Goto(t, "untrack", a, NoAddr, 0, NoModule) /\ UNCHANGED heap
      <4>1. TasksOK'
        BY <3>1, GotoType DEF ArgsOK, InUse, ReallocPc, Block, Names
      <4> QED BY <3>1, <4>1 DEF HeapOK
    <3>2. CASE heap' = [heap EXCEPT ![a] = Free] /\ UNCHANGED task
      <4>1. HeapOK'
        BY <3>2, FreeType DEF Block
      <4> QED BY <3>2, <4>1 DEF TasksOK
    <3> QED BY <2>5, <3>1, <3>2 DEF CallUntrack
  <2>6. ASSUME CallQuery(t)
        PROVE  HeapOK' /\ TasksOK'
    <3>1. TasksOK'
      BY <2>6, GotoType DEF CallQuery, ArgsOK, InUse, ReallocPc, Names
    <3> QED BY <2>6, <3>1 DEF CallQuery, HeapOK
  <2> QED BY <2>1, <2>2, <2>3, <2>4, <2>5, <2>6 DEF Call
<1> QED
  BY <1>1, <1>2, <1>3

LEMMA TypeRun ==
  ASSUME TypeInv, NEW t \in Task, Run(t)
  PROVE  TypeInv'
<1> USE DEF TypeInv
<1> DEFINE k == task[t]
<1>0. k \in TaskRec /\ ArgsOK(k)
  BY DEF TasksOK
<1>1. ControlOK'
  <2>1. UNCHANGED traceVars
    BY DEF Run, KeptMalloc, LockedAdd, LockedRemove, KeptFree, LockedUntrack, DoRealloc,
           ReallocLock, ReallocRemove, ReallocAdd, QueryRead
  <2>2. holder' \in {holder, t, NoTask}
    BY DEF Run, KeptMalloc, LockedAdd, LockedRemove, KeptFree, LockedUntrack, DoRealloc,
           ReallocLock, ReallocRemove, ReallocAdd, QueryRead, Lock, Unlock
  <2> QED
    BY <2>1, <2>2 DEF ControlOK, traceVars
<1>2. CASE KeptMalloc(t)
  <2>1. TableOK'
    BY <1>2 DEF KeptMalloc, TableOK
  <2>2. CASE \E a \in Addr : /\ ~ Live(a)
                             /\ Hand(a, task[t].size, task[t].name, FALSE)
                             /\ task' = [task EXCEPT ![t].pc = "add", ![t].new = a]
    <3>1. PICK a \in Addr : /\ Hand(a, k.size, k.name, FALSE)
                            /\ task' = [task EXCEPT ![t].pc = "add", ![t].new = a]
      BY <2>2
    <3>2. k.size \in Size /\ k.name \in Names
      BY <1>0, <1>2 DEF KeptMalloc, ArgsOK, TaskRec
    <3>3. HeapOK'
      BY <3>1, <3>2, HandType DEF Block
    <3> DEFINE n == [k EXCEPT !.pc = "add", !.new = a]
    <3>4. n \in TaskRec /\ ArgsOK(n)
      BY <1>0, <3>2 DEF ArgsOK, TaskRec, InUse, ReallocPc, Block
    <3>5. task' = [task EXCEPT ![t] = n]
      BY <3>1 DEF TasksOK
    <3> QED BY <1>1, <2>1, <3>3, <3>4, <3>5, OneTaskMoves
  <2>3. CASE UNCHANGED heap /\ Return(t)
    BY <1>1, <2>1, <2>3, ReturnType DEF HeapOK
  <2> QED BY <1>2, <2>2, <2>3 DEF KeptMalloc
<1>3. CASE LockedAdd(t)
  <2>1. k.size \in Size /\ k.new \in Block /\ k.name \in Names
    BY <1>0, <1>3 DEF LockedAdd, ArgsOK, TaskRec
  <2>2. TableOK'
    BY <1>3, <2>1, AddTraceTable DEF LockedAdd, TableOK
  <2>3. HeapOK'
    BY <1>3, <2>1, TracedType DEF LockedAdd
  <2> QED BY <1>1, <1>3, <2>2, <2>3, ReturnType DEF LockedAdd
<1>4. CASE LockedRemove(t)
  <2>1. TableOK'
    BY <1>4, RemoveTraceTable DEF LockedRemove, TableOK
  <2> DEFINE n == [k EXCEPT !.pc = "kfree"]
  <2>2. n \in TaskRec /\ ArgsOK(n)
    BY <1>0, <1>4 DEF LockedRemove, ArgsOK, TaskRec, InUse, ReallocPc
  <2>3. task' = [task EXCEPT ![t] = n] /\ UNCHANGED heap
    BY <1>4 DEF LockedRemove, Step, TasksOK
  <2> QED BY <1>1, <2>1, <2>2, <2>3, OneTaskMoves DEF HeapOK
<1>5. CASE KeptFree(t)
  <2>1. k.addr \in Block
    BY <1>0, <1>5 DEF KeptFree, ArgsOK
  <2> QED BY <1>1, <1>5, <2>1, FreeType, ReturnType DEF KeptFree, TableOK
<1>6. CASE LockedUntrack(t)
  <2>1. k.addr \in Block
    BY <1>0, <1>6 DEF LockedUntrack, ArgsOK
  <2>2. TableOK'
    BY <1>6, RemoveTraceTable DEF LockedUntrack, TableOK
  <2> QED BY <1>1, <1>6, <2>1, <2>2, FreeType, ReturnType DEF LockedUntrack
<1>7. CASE DoRealloc(t)
  <2>1. /\ k.pc \in ReallocPc /\ k.size \in Size /\ k.name \in Names
        /\ k.addr \in Addr \cup {NoAddr}
    BY <1>0, <1>7 DEF DoRealloc, ArgsOK, ReallocPc, TaskRec
  <2>2. PICK new \in Addr \cup {NoAddr} :
          /\ KeptRealloc(k.addr, k.size, k.name, new)
          /\ task' = [task EXCEPT ![t].new = new,
                        ![t].pc = IF k.pc = "krealloc" THEN "lock" ELSE "rremove"]
    BY <1>7 DEF DoRealloc
  <2>3. HeapOK'
    BY <2>1, <2>2, KeptReallocType
  <2> DEFINE n == [k EXCEPT !.new = new, !.pc = IF k.pc = "krealloc" THEN "lock" ELSE "rremove"]
  <2>4. n \in TaskRec /\ ArgsOK(n)
    BY <1>0, <2>1 DEF ArgsOK, TaskRec, InUse, ReallocPc, Block
  <2>5. task' = [task EXCEPT ![t] = n]
    BY <2>2 DEF TasksOK
  <2> QED BY <1>1, <1>7, <2>3, <2>4, <2>5, OneTaskMoves DEF DoRealloc, TableOK
<1>8. CASE ReallocLock(t)
  <2> DEFINE n == [k EXCEPT !.pc = IF k.pc = "lock" THEN "rremove" ELSE "mrealloc"]
  <2>1. n \in TaskRec /\ ArgsOK(n)
    BY <1>0, <1>8 DEF ReallocLock, ArgsOK, TaskRec, InUse, ReallocPc
  <2>2. task' = [task EXCEPT ![t] = n] /\ UNCHANGED <<heap, mt, lost>>
    BY <1>8 DEF ReallocLock, Step, TasksOK
  <2> QED BY <1>1, <2>1, <2>2, OneTaskMoves DEF HeapOK, TableOK
<1>9. CASE ReallocRemove(t)
  <2> DEFINE n == [k EXCEPT !.pc = "radd"]
  <2>1. n \in TaskRec /\ ArgsOK(n)
    BY <1>0, <1>9 DEF ReallocRemove, ArgsOK, TaskRec, InUse, ReallocPc
  <2>2. task' = [task EXCEPT ![t] = n] /\ UNCHANGED heap
    BY <1>9 DEF ReallocRemove, Step, TasksOK
  <2>3. TableOK'
    BY <1>9, RemoveTraceTable DEF ReallocRemove, TableOK
  <2> QED BY <1>1, <2>1, <2>2, <2>3, OneTaskMoves DEF HeapOK
<1>10. CASE ReallocAdd(t)
  <2>1. k.size \in Size /\ k.new \in Addr \cup {NoAddr} /\ k.name \in Names
    BY <1>0, <1>10 DEF ReallocAdd, ArgsOK, TaskRec, ReallocPc
  <2>2. CASE UNCHANGED <<heap, mt, lost>>
    BY <1>1, <1>10, <2>2, ReturnType DEF ReallocAdd, HeapOK, TableOK
  <2>3. CASE /\ k.new # NoAddr
             /\ AddTrace(k.name, k.new, k.size)
             /\ heap' = [heap EXCEPT ![k.new].traced = TRUE]
    <3>1. k.new \in Block
      BY <2>1, <2>3 DEF Block
    <3>2. TableOK'
      BY <2>1, <2>3, <3>1, AddTraceTable DEF TableOK
    <3> QED BY <1>1, <1>10, <2>3, <3>1, <3>2, TracedType, ReturnType DEF ReallocAdd
  <2> QED BY <1>10, <2>2, <2>3 DEF ReallocAdd
<1>11. CASE QueryRead(t)
  BY <1>1, <1>11, ReturnType DEF QueryRead, HeapOK, TableOK
<1> QED
  BY <1>2, <1>3, <1>4, <1>5, <1>6, <1>7, <1>8, <1>9, <1>10, <1>11 DEF Run

LEMMA TypeControl ==
  ASSUME TypeInv, Control
  PROVE  TypeInv'
<1> USE DEF TypeInv
<1>1. TasksOK'
  BY DEF Control, StartConfig, StartNum, StartInstall, StopType, StopRestore, StopMutex,
         StopFree, TasksOK
<1>2. HeapOK'
  <2>1. CASE StopFree
    BY <2>1 DEF StopFree, HeapOK, HeapRec
  <2> QED
    BY <2>1 DEF Control, StartConfig, StartNum, StartInstall, StopType, StopRestore,
                StopMutex, HeapOK
<1>3. TableOK'
  <2>1. CASE mt' = Empty /\ lost' = [id \in Ids |-> 0]
    BY <2>1, EmptyTable, Constants DEF TableOK
  <2>2. CASE UNCHANGED <<mt, lost>>
    BY <2>2 DEF TableOK
  <2> QED
    BY <2>1, <2>2 DEF Control, StartConfig, StartNum, StartInstall, StopType, StopRestore,
                      StopMutex, StopFree
<1>4. ControlOK'
  BY Constants DEF Control, StartConfig, StartNum, StartInstall, StopType, StopRestore,
                   StopMutex, StopFree, ControlOK, TableSize
<1> QED
  BY <1>1, <1>2, <1>3, <1>4

LEMMA TypeStep == TypeInv /\ [Next]_vars => TypeInv'
<1> SUFFICES ASSUME TypeInv, [Next]_vars PROVE TypeInv'
  OBVIOUS
<1>1. CASE UNCHANGED vars
  BY <1>1 DEF vars, traceVars, TypeInv, TableOK, HeapOK, TasksOK, ControlOK
<1> QED
  BY <1>1, TypeCall, TypeRun, TypeControl DEF Next

\* Whatever the tasks, sizes, names, the table's size and the trace type are,
\* and even while the trace starts and stops under running calls: the record
\* table only ever holds records of real blocks with a module id below the
\* limit, and the counters stay in their 32 bits.
THEOREM TypeCorrect == Spec => []TypeOK
BY TypeInit, TypeStep, TypeInvImpliesTypeOK, PTL DEF Spec

-----------------------------------------------------------------------------
(* What is recorded, added up: w is what a record counts for.              *)

Weigh(items, w) == SumFunction([i \in DOMAIN items |-> w[items[i]]])

LEMMA WeighType ==
  ASSUME NEW items \in Seq(Item), NEW w \in [Item -> Nat]
  PROVE  /\ Weigh(items, w) \in Nat
         /\ items = <<>> => Weigh(items, w) = 0
<1> DEFINE f == [i \in DOMAIN items |-> w[items[i]]]
<1>1. DOMAIN items = 1 .. Len(items) /\ \A i \in DOMAIN items : items[i] \in Item
  OBVIOUS
<1>2. IsFiniteSet(DOMAIN items)
  BY <1>1, FS_Interval
<1>3. DOMAIN f = DOMAIN items /\ \A i \in DOMAIN items : f[i] \in Nat
  BY <1>1
<1>4. Weigh(items, w) = SumFunctionOnSet(f, DOMAIN items)
  BY DEF Weigh, SumFunction
<1>5. items = <<>> => DOMAIN items = {}
  OBVIOUS
<1> HIDE DEF f
<1>6. SumFunctionOnSet(f, DOMAIN items) \in Nat
  BY <1>2, <1>3, SumChosen
<1>7. SumFunctionOnSet(f, {}) = 0
  BY SumOfNone
<1> QED
  BY <1>4, <1>5, <1>6, <1>7, Zenon

LEMMA WeighAppend ==
  ASSUME NEW items \in Seq(Item), NEW w \in [Item -> Nat], NEW r \in Item
  PROVE  Weigh(Append(items, r), w) = Weigh(items, w) + w[r]
<1> DEFINE n == Len(items)
           more == Append(items, r)
           f == [i \in DOMAIN items |-> w[items[i]]]
           h == [i \in DOMAIN more |-> w[more[i]]]
<1>1. /\ more \in Seq(Item) /\ DOMAIN more = 1 .. n + 1 /\ DOMAIN items = 1 .. n /\ n \in Nat
      /\ \A i \in 1 .. n : more[i] = items[i]
      /\ more[n + 1] = r
  OBVIOUS
<1>2. \A i \in 1 .. n + 1 : more[i] \in Item
  BY <1>1
<1>3. IsFiniteSet(1 .. n + 1) /\ IsFiniteSet(1 .. n)
  BY <1>1, FS_Interval
<1> HIDE DEF more
<1>4. /\ \A i \in 1 .. n + 1 : h[i] \in Nat
      /\ \A i \in 1 .. n : h[i] = f[i] /\ f[i] \in Nat
      /\ h[n + 1] = w[r]
  BY <1>1, <1>2
<1>5. Weigh(items, w) = SumFunctionOnSet(f, 1 .. n) /\ Weigh(more, w) = SumFunctionOnSet(h, 1 .. n + 1)
  BY <1>1 DEF Weigh, SumFunction
<1> HIDE DEF f, h
<1>6. (1 .. n + 1) \ {n + 1} = 1 .. n /\ n + 1 \in 1 .. n + 1
  BY <1>1
<1> HIDE DEF n
<1>7. SumFunctionOnSet(h, 1 .. n + 1) = h[n + 1] + SumFunctionOnSet(h, (1 .. n + 1) \ {n + 1})
  BY ONLY <1>3, <1>4, <1>6, SumWithout
<1>8. SumFunctionOnSet(h, 1 .. n) = SumFunctionOnSet(f, 1 .. n) /\ SumFunctionOnSet(f, 1 .. n) \in Nat
  BY ONLY <1>3, <1>4, SumSame, SumChosen
<1>9. h[n + 1] \in Nat
  BY <1>4, <1>6
<1>10. h[n + 1] + SumFunctionOnSet(f, 1 .. n) = SumFunctionOnSet(f, 1 .. n) + h[n + 1]
  BY <1>8, <1>9
<1> QED
  BY <1>4, <1>5, <1>6, <1>7, <1>8, <1>10, Zenon DEF more

LEMMA WeighSwapRemove ==
  ASSUME NEW items \in Seq(Item), NEW w \in [Item -> Nat], NEW i \in DOMAIN items
  PROVE  Weigh(items, w) = Weigh(SwapRemove(items, i), w) + w[items[i]]
<1> DEFINE n == Len(items)
           less == SwapRemove(items, i)
           S == 1 .. n - 1
           T == (1 .. n) \ {i}
           f == [j \in DOMAIN less |-> w[less[j]]]
           h == [j \in DOMAIN items |-> w[items[j]]]
           b == [j \in S |-> IF j = i THEN n ELSE j]
<1>1. DOMAIN items = 1 .. n /\ n \in Nat /\ i \in 1 .. n /\ \A j \in 1 .. n : items[j] \in Item
  OBVIOUS
<1>2. /\ less \in Seq(Item) /\ DOMAIN less = S
      /\ \A j \in S : less[j] = items[IF j = i THEN n ELSE j]
  BY <1>1, SwapRemoveKeeps
<1>3. IsFiniteSet(1 .. n) /\ IsFiniteSet(S) /\ IsFiniteSet(T)
  <2>1. IsFiniteSet(1 .. n) /\ IsFiniteSet(1 .. n - 1)
    BY <1>1, FS_Interval
  <2> QED BY <2>1, FS_RemoveElement
<1> HIDE DEF less
<1>4. \A j \in S : b[j] \in T /\ less[j] = items[b[j]]
  <2>1. ASSUME NEW j \in S
        PROVE  b[j] = (IF j = i THEN n ELSE j) /\ (IF j = i THEN n ELSE j) \in T
    BY <1>1
  <2> HIDE DEF b
  <2> QED BY <1>2, <2>1
<1>5. \A j \in 1 .. n : h[j] \in Nat
  BY <1>1
<1>6. \A j \in S : h[b[j]] = f[j] /\ f[j] \in Nat
  <2> TAKE j \in S
  <2>1. b[j] \in 1 .. n
    BY <1>4
  <2>2. f[j] = w[less[j]] /\ h[b[j]] = w[items[b[j]]]
    <3> HIDE DEF b
    <3> QED BY <1>1, <1>2, <2>1
  <2> HIDE DEF b
  <2> QED BY <1>1, <1>4, <2>1, <2>2
<1>7. \A j, k \in S : b[j] = b[k] => j = k
  BY <1>1
<1>8. \A z \in T : \E j \in S : b[j] = z
  <2> TAKE z \in T
  <2>1. CASE z = n
    <3>1. i \in S /\ b[i] = z
      BY <1>1, <2>1
    <3> QED BY <3>1
  <2>2. CASE z # n
    <3>1. z \in 1 .. n /\ z # i
      OBVIOUS
    <3>2. z \in S
      <4> HIDE DEF n
      <4> QED BY <1>1, <2>2, <3>1
    <3>3. b[z] = z
      BY <3>1, <3>2
    <3> QED BY <3>2, <3>3
  <2> QED BY <2>1, <2>2
<1>9. Weigh(items, w) = SumFunctionOnSet(h, 1 .. n) /\ Weigh(less, w) = SumFunctionOnSet(f, S)
  BY <1>1, <1>2 DEF Weigh, SumFunction
<1>10. h[i] = w[items[i]]
  BY <1>1
<1> HIDE DEF f, h, b, S
<1>11. SumFunctionOnSet(h, T) = SumFunctionOnSet(f, S) /\ SumFunctionOnSet(f, S) \in Nat
  <2> HIDE DEF T, n
  <2>1. \A x \in S : f[x] \in Nat
    BY ONLY <1>6
  <2>2. \A x \in S : b[x] \in T /\ h[b[x]] = f[x]
    BY ONLY <1>4, <1>6
  <2>3. IsFiniteSet(S) /\ IsFiniteSet(T)
    BY ONLY <1>3
  <2>4. SumFunctionOnSet(h, T) = SumFunctionOnSet(f, S)
    <3>1. Renames(b, f, S, h, T)
      BY ONLY <1>7, <1>8, <2>2, Zenon DEF Renames
    <3> QED BY ONLY <2>1, <2>3, <3>1, SumRenamed
  <2> QED BY ONLY <2>1, <2>3, <2>4, SumChosen
<1>12. SumFunctionOnSet(h, 1 .. n) = h[i] + SumFunctionOnSet(h, T)
  BY <1>1, <1>3, <1>5, SumWithout
<1>13. h[i] \in Nat
  BY <1>1, <1>5
<1> QED
  BY <1>9, <1>10, <1>11, <1>12, <1>13 DEF less

-----------------------------------------------------------------------------
(* The usage.  Four things happen to the table.                            *)

LEMMA RecordType ==
  ASSUME TableOK, NEW i \in DOMAIN mt.items
  PROVE  mt.items[i] \in Item
<1>1. mt.items \in Seq(Item)
  BY DEF TableOK, Table
<1> QED
  BY <1>1

Sizes == [r \in Item |-> r.size]
CountAll == mt.usage = Wrap(Weigh(mt.items, Sizes) + LostBytes)

\* Recorded bytes as a weight.
LEMMA BytesAre ==
  ASSUME NEW items \in Seq(Item)
  PROVE  SumFunction([i \in DOMAIN items |-> items[i].size]) = Weigh(items, Sizes)
<1> DEFINE f == [i \in DOMAIN items |-> Sizes[items[i]]]
           h == [i \in DOMAIN items |-> items[i].size]
<1>1. \A i \in DOMAIN items : items[i] \in Item
  OBVIOUS
<1>2. \A i \in DOMAIN items : Sizes[items[i]] = items[i].size
  BY <1>1 DEF Sizes
<1>3. f = h
  BY <1>2
<1> QED
  BY <1>3 DEF Weigh

LEMMA CountAllIs == CountAll /\ TableOK => UsageIsRecordedPlusLost
BY BytesAre DEF CountAll, UsageIsRecordedPlusLost, RecordedBytes, TableOK, Table

LEMMA SizesType == Sizes \in [Item -> Nat]
BY SizesPositive DEF Sizes, Item

\* add_trace counts the block for some module, and records it or not.
Counted(added, a, size) ==
  /\ added.id \in Ids
  /\ mt'.usage = added.m.usage /\ mt'.peak = added.m.peak /\ mt'.modules = added.m.modules
  /\ \/ mt'.items = mt.items /\ lost' = [lost EXCEPT ![added.id] = @ + size]
     \/ /\ mt'.items = Append(mt.items, [addr |-> a, size |-> size, id |-> added.id])
        /\ lost' = lost

LEMMA AddTraceIs ==
  ASSUME TableOK, NEW name \in Names, NEW a \in Block, NEW size \in Size,
         AddTrace(name, a, size)
  PROVE  \E ok \in {TRUE} \cup {~ MayFail} :
           Counted(AddMemUsage(mt, name, size, ok), a, size)
<1> USE DEF TableOK
<1>1. PICK ok \in {TRUE} \cup {~ MayFail} :
        LET added == AddMemUsage(mt, name, size, ok)
            item  == [addr |-> a, size |-> size, id |-> added.id]
        IN  IF Full(mt)
              THEN /\ mt' = added.m
                   /\ lost' = [lost EXCEPT ![added.id] = @ + size]
              ELSE /\ mt' = [added.m EXCEPT !.items = Append(mt.items, item)]
                   /\ UNCHANGED lost
  BY DEF AddTrace
<1> DEFINE added == AddMemUsage(mt, name, size, ok)
           item  == [addr |-> a, size |-> size, id |-> added.id]
<1>2. ok \in BOOLEAN /\ size \in Nat
  <2>1. ok \in BOOLEAN
    OBVIOUS
  <2> QED BY <2>1, SizesPositive
<1>3. added.m \in Table /\ added.m.items = mt.items /\ added.id \in Ids
  BY <1>2, AddMemUsageType
<1>4. IF Full(mt)
        THEN /\ mt' = added.m
             /\ lost' = [lost EXCEPT ![added.id] = @ + size]
        ELSE /\ mt' = [added.m EXCEPT !.items = Append(mt.items, item)]
             /\ UNCHANGED lost
  BY <1>1
<1> HIDE DEF added
<1>5. Counted(added, a, size)
  <2> HIDE DEF item
  <2>1. CASE Full(mt)
    BY <1>3, <1>4, <2>1 DEF Counted
  <2>2. CASE ~ Full(mt)
    <3> DEFINE m == [added.m EXCEPT !.items = Append(mt.items, item)]
    <3>1. /\ m.items = Append(mt.items, item) /\ m.usage = added.m.usage
          /\ m.peak = added.m.peak /\ m.modules = added.m.modules
      BY <1>3 DEF Table
    <3>2. mt' = m /\ lost' = lost
      BY <1>4, <2>2
    <3> HIDE DEF m
    <3> QED BY <1>3, <3>1, <3>2 DEF Counted, item
  <2> QED BY <2>1, <2>2
<1> QED
  BY <1>5 DEF added

\* remove_trace takes the record's bytes off.
Uncounted(m, n, i) ==
  LET r == RemoveMemUsage(m, m.items[i].id, m.items[i].size)
  IN  /\ n.items = SwapRemove(m.items, i)
      /\ n.usage = r.usage /\ n.peak = r.peak /\ n.modules = r.modules

LEMMA RemoveTraceIs ==
  ASSUME NEW m \in Table, Len(m.modules) <= IdLimit + 1, NEW a
  PROVE  \/ RemoveTrace(m, a) = m
         \/ \E i \in DOMAIN m.items :
              m.items[i].addr = a /\ Uncounted(m, RemoveTrace(m, a), i)
<1>1. CASE Matches(m.items, a) = {}
  BY <1>1 DEF RemoveTrace
<1>2. CASE Matches(m.items, a) # {}
  <2> DEFINE i == FirstMatch(m.items, a)
             r == RemoveMemUsage(m, m.items[i].id, m.items[i].size)
             n == [r EXCEPT !.items = SwapRemove(m.items, i)]
  <2>0. m.items \in Seq(Item)
    BY DEF Table
  <2>1. i \in DOMAIN m.items /\ m.items[i].addr = a
    BY <1>2, <2>0, FirstMatchIsMatch DEF Matches, Recorded
  <2>2. m.items[i].id \in Ids /\ m.items[i].size \in Nat
    <3> HIDE DEF i
    <3>1. m.items[i] \in Item
      BY <2>0, <2>1
    <3> QED BY <3>1, SizesPositive DEF Item
  <2>3. r \in Table
    BY <2>2, RemoveMemUsageType
  <2>4. RemoveTrace(m, a) = n
    BY <1>2 DEF RemoveTrace
  <2> HIDE DEF i
  <2>5. Uncounted(m, n, i)
    BY <2>3 DEF Uncounted, Table
  <2> HIDE DEF n
  <2> QED BY <2>1, <2>4, <2>5
<1> QED
  BY <1>1, <1>2

LEMMA TableSteps ==
  ASSUME TypeInv, [Next]_vars
  PROVE  \/ UNCHANGED <<mt, lost>>
         \/ mt' = Empty /\ lost' = [id \in Ids |-> 0]
         \/ \E t \in Task, ok \in {TRUE} \cup {~ MayFail} :
              /\ task[t].name \in Names /\ task[t].new \in Block /\ task[t].size \in Size
              /\ task[t].pc \in {"add", "radd"}
              /\ Counted(AddMemUsage(mt, task[t].name, task[t].size, ok),
                         task[t].new, task[t].size)
         \/ \E t \in Task : \E i \in DOMAIN mt.items :
              /\ task[t].pc \in {"remove", "untrack", "rremove"}
              /\ mt.items[i].addr = task[t].addr /\ Uncounted(mt, mt', i) /\ UNCHANGED lost
<1> USE DEF TypeInv
<1>1. CASE UNCHANGED vars
  BY <1>1 DEF vars
<1>2. ASSUME NEW t \in Task, Call(t) PROVE UNCHANGED <<mt, lost>>
  BY <1>2, Zenon DEF Call, CallAlloc, CallFree, CallRealloc, CallTrack, CallUntrack, CallQuery
<1>3. CASE Control
  BY <1>3 DEF Control, StartConfig, StartNum, StartInstall, StopType, StopRestore, StopMutex,
              StopFree
<1>4. ASSUME NEW t \in Task, task[t].pc \in {"add", "radd"}, task[t].new # NoAddr,
             AddTrace(task[t].name, task[t].new, task[t].size)
      PROVE  \E ok \in {TRUE} \cup {~ MayFail} :
              /\ task[t].name \in Names /\ task[t].new \in Block /\ task[t].size \in Size
              /\ Counted(AddMemUsage(mt, task[t].name, task[t].size, ok),
                         task[t].new, task[t].size)
  <2>1. task[t].name \in Names /\ task[t].new \in Block /\ task[t].size \in Size
    BY <1>4 DEF TasksOK, TaskRec, ArgsOK, ReallocPc
  <2> QED BY <1>4, <2>1, AddTraceIs
<1>5. ASSUME NEW t \in Task, task[t].pc \in {"remove", "untrack", "rremove"},
             mt' = RemoveTrace(mt, task[t].addr), UNCHANGED lost
      PROVE  \/ UNCHANGED <<mt, lost>>
             \/ \E i \in DOMAIN mt.items :
                  mt.items[i].addr = task[t].addr /\ Uncounted(mt, mt', i) /\ UNCHANGED lost
  BY <1>5, RemoveTraceIs DEF TableOK
<1>6. ASSUME NEW t \in Task, Run(t)
      PROVE  \/ UNCHANGED <<mt, lost>>
             \/ /\ task[t].pc \in {"add", "radd"} /\ task[t].new # NoAddr
                /\ AddTrace(task[t].name, task[t].new, task[t].size)
             \/ /\ task[t].pc \in {"remove", "untrack", "rremove"}
                /\ mt' = RemoveTrace(mt, task[t].addr) /\ UNCHANGED lost
  <2>1. task[t].pc = "add" => task[t].new # NoAddr
    BY Constants DEF TasksOK, ArgsOK, Block
  <2> QED
    BY <1>6, <2>1, Zenon DEF Run, KeptMalloc, LockedAdd, LockedRemove, KeptFree, LockedUntrack,
                     DoRealloc, ReallocLock, ReallocRemove, ReallocAdd, QueryRead
<1> QED
  BY <1>1, <1>2, <1>3, <1>4, <1>5, <1>6, Zenon DEF Next

LEMMA LostMore ==
  ASSUME lost \in [Ids -> Nat]
  PROVE  /\ LostBytes \in Nat
         /\ \A id \in Ids, n \in Nat :
              lost' = [lost EXCEPT ![id] = @ + n] => LostBytes' = LostBytes + n
<1>1. IsFiniteSet(Ids)
  BY FS_Interval, Constants DEF Ids
<1>2. LostBytes = SumFunctionOnSet(lost, Ids) /\ SumFunctionOnSet(lost, Ids) \in Nat
  BY <1>1, SumChosen DEF LostBytes, SumFunction
<1>3. ASSUME NEW id \in Ids, NEW n \in Nat, lost' = [lost EXCEPT ![id] = @ + n]
      PROVE  LostBytes' = LostBytes + n
  <2>1. lost' \in [Ids -> Nat] /\ lost'[id] = lost[id] + n /\ \A x \in Ids \ {id} : lost'[x] = lost[x]
    BY <1>3
  <2>2. LostBytes' = SumFunctionOnSet(lost', Ids)
    BY <2>1 DEF LostBytes, SumFunction
  <2>3. SumFunctionOnSet(lost', Ids) + lost[id] = SumFunctionOnSet(lost, Ids) + lost'[id]
    BY <1>1, <2>1, SumChanged
  <2>4. SumFunctionOnSet(lost', Ids) \in Nat /\ lost[id] \in Nat
    BY <1>1, <2>1, SumChosen
  <2> QED
    BY <1>2, <2>1, <2>2, <2>3, <2>4
<1> QED
  BY <1>2, <1>3

LEMMA NoneLost == SumFunction([id \in Ids |-> 0]) = 0
<1> DEFINE f == [id \in Ids |-> 0]
<1>1. IsFiniteSet(Ids)
  BY FS_Interval, Constants DEF Ids
<1>2. SumFunctionOnSet(f, Ids) = SumFunctionOnSet(f, {})
  BY <1>1, SumOfOthers
<1> QED
  BY <1>2, SumOfNone DEF SumFunction

LEMMA CountAllKept ==
  ASSUME TypeInv, CountAll, [Next]_vars
  PROVE  CountAll'
<1> USE DEF TypeInv
<1> DEFINE w == Sizes
<1>0. w \in [Item -> Nat] /\ mt.items \in Seq(Item) /\ mt.usage \in Nat /\ lost \in [Ids -> Nat]
  BY SizesType, Constants DEF TableOK, Table
<1>1. Weigh(mt.items, w) \in Nat /\ LostBytes \in Nat
  BY <1>0, WeighType, LostMore
<1>2. CASE UNCHANGED <<mt, lost>>
  BY <1>2 DEF CountAll, LostBytes
<1>3. CASE mt' = Empty /\ lost' = [id \in Ids |-> 0]
  <2>1. mt'.items = <<>> /\ mt'.usage = 0
    BY <1>3 DEF Empty
  <2>2. LostBytes' = 0
    BY <1>3, NoneLost DEF LostBytes
  <2>3. Weigh(mt'.items, w) = 0
    <3>1. <<>> \in Seq(Item)
      OBVIOUS
    <3> QED BY <1>0, <2>1, <3>1, WeighType
  <2>4. Wrap(0 + 0) = 0
    BY Constants DEF Wrap
  <2> QED BY <2>1, <2>2, <2>3, <2>4 DEF CountAll, Sizes
<1>4. ASSUME NEW t \in Task, NEW ok \in {TRUE} \cup {~ MayFail},
             task[t].name \in Names, task[t].new \in Block, task[t].size \in Size,
             Counted(AddMemUsage(mt, task[t].name, task[t].size, ok), task[t].new, task[t].size)
      PROVE  CountAll'
  <2> DEFINE size == task[t].size
             added == AddMemUsage(mt, task[t].name, size, ok)
             r == [addr |-> task[t].new, size |-> size, id |-> added.id]
  <2>0. size \in Nat /\ ok \in BOOLEAN
    <3>1. ok \in BOOLEAN
      OBVIOUS
    <3> QED BY <1>4, <3>1, SizesPositive
  <2>1. added.m.usage = Wrap(mt.usage + size) /\ added.id \in Ids
    BY <1>4, <2>0, AddMemUsageType DEF TableOK
  <2>2. mt'.usage = Wrap(mt.usage + size)
    BY <1>4, <2>1 DEF Counted
  <2>3. r \in Item /\ w[r] = size
    BY <1>4, <2>1 DEF Item, Sizes
  <2> HIDE DEF added
  <2>4. \/ mt'.items = mt.items /\ LostBytes' = LostBytes + size
        \/ mt'.items = Append(mt.items, r) /\ LostBytes' = LostBytes
    <3>1. \/ mt'.items = mt.items /\ lost' = [lost EXCEPT ![added.id] = @ + size]
          \/ mt'.items = Append(mt.items, r) /\ lost' = lost
      BY <1>4 DEF Counted, added
    <3> QED BY <1>0, <2>0, <2>1, <3>1, LostMore DEF LostBytes
  <2>5. Weigh(mt'.items, w) + LostBytes' = (Weigh(mt.items, w) + LostBytes) + size
    <3>1. Weigh(Append(mt.items, r), w) = Weigh(mt.items, w) + size
      BY <1>0, <2>3, WeighAppend
    <3> HIDE DEF w, r, size
    <3>2. CASE mt'.items = mt.items /\ LostBytes' = LostBytes + size
      BY <1>1, <2>0, <3>2
    <3>3. CASE mt'.items = Append(mt.items, r) /\ LostBytes' = LostBytes
      BY <1>1, <2>0, <3>1, <3>3
    <3> QED BY <2>4, <3>2, <3>3
  <2> DEFINE all == Weigh(mt.items, w) + LostBytes
  <2>6. Wrap(Wrap(all) + size) = Wrap(all + size)
    <3>1. all \in Int
      BY <1>1
    <3> HIDE DEF all, size
    <3> QED BY <2>0, <3>1, WrapOfSum
  <2> QED BY <2>2, <2>5, <2>6 DEF CountAll, Sizes
<1>5. ASSUME NEW i \in DOMAIN mt.items, Uncounted(mt, mt', i), UNCHANGED lost
      PROVE  CountAll'
  <2> DEFINE r == mt.items[i]
  <2>0. r \in Item
    BY <1>0
  <2>1. r \in Item /\ r.size \in Nat /\ w[r] = r.size
    <3> HIDE DEF r
    <3> QED BY <2>0, SizesPositive DEF Item, Sizes
  <2>2. mt'.usage = Wrap(mt.usage - r.size)
    BY <1>5, <2>1, RemoveMemUsageType DEF Uncounted, TableOK, Item
  <2>3. Weigh(mt.items, w) = Weigh(mt'.items, w) + r.size
    BY <1>0, <1>5, <2>1, WeighSwapRemove DEF Uncounted
  <2>4. mt'.items \in Seq(Item)
    BY <1>0, <1>5, SwapRemoveKeeps DEF Uncounted
  <2>5. Weigh(mt'.items, w) \in Nat
    BY <1>0, <2>4, WeighType
  <2> DEFINE all == Weigh(mt.items, w) + LostBytes
             now == Weigh(mt'.items, w) + LostBytes
             b == 0 - r.size
  <2>6. all + b = now /\ all \in Int /\ b \in Int
    <3> HIDE DEF r, w
    <3> QED BY <1>1, <2>1, <2>3, <2>5
  <2>7. Wrap(Wrap(all) + b) = Wrap(all + b)
    <3> HIDE DEF all, b
    <3> QED BY <2>6, WrapOfSum
  <2>8. mt.usage - r.size = Wrap(all) + b
    <3>1. mt.usage = Wrap(all)
      BY DEF CountAll
    <3> HIDE DEF r, all
    <3> QED BY <1>0, <2>1, <3>1
  <2>9. LostBytes' = LostBytes
    BY <1>5 DEF LostBytes
  <2>10. mt'.usage = Wrap(now)
    <3> HIDE DEF all, now, b, r
    <3> QED BY <2>2, <2>6, <2>7, <2>8
  <2> QED BY <2>9, <2>10 DEF CountAll, Sizes
<1> QED
  BY <1>2, <1>3, <1>4, <1>5, TableSteps, Zenon

LEMMA CountInit == Init => CountAll
<1> SUFFICES ASSUME Init PROVE CountAll
  OBVIOUS
<1>1. mt.items = <<>> /\ mt.usage = 0 /\ LostBytes = 0
  BY NoneLost DEF Init, Empty, LostBytes
<1>2. Weigh(mt.items, Sizes) = 0
  <2>1. <<>> \in Seq(Item)
    OBVIOUS
  <2> QED BY <1>1, <2>1, WeighType, SizesType
<1>3. Wrap(0 + 0) = 0
  BY Constants DEF Wrap
<1> QED
  BY <1>1, <1>2, <1>3 DEF CountAll

\* For every table, every number of modules and every word: the usage is what is
\* recorded and what was counted without a record, whatever the tasks do.
THEOREM UsageIsCounted == Spec => []UsageIsRecordedPlusLost
<1>1. Init => TypeInv /\ CountAll
  BY TypeInit, CountInit
<1>2. TypeInv /\ CountAll /\ [Next]_vars => (TypeInv /\ CountAll)'
  <2> SUFFICES ASSUME TypeInv, CountAll, [Next]_vars PROVE TypeInv' /\ CountAll'
    OBVIOUS
  <2>1. TypeInv'
    BY TypeStep
  <2> QED BY <2>1, CountAllKept
<1>3. TypeInv /\ CountAll => UsageIsRecordedPlusLost
  BY CountAllIs DEF TypeInv
<1> QED
  BY <1>1, <1>2, <1>3, PTL DEF Spec

-----------------------------------------------------------------------------
(* One record per block.  The two assumptions are those under which the    *)
(* code keeps its promise: no task calls media_lib_realloc, which moves the *)
(* block before it takes the mutex, and tasks keep quiet while the trace   *)
(* starts or stops.                                                        *)
(*                                                                         *)
(* Neither promise is inductive.  That an address gets no second record    *)
(* when it is added follows from what the calls in progress know: a block  *)
(* that a call has in hand is live and in no other call's hand, a block    *)
(* about to be recorded has no record yet - unless a realloc inside the    *)
(* mutex is about to remove it - and only the mutex' holder is inside one. *)

Application == NoModule \notin ReallocNames /\ Concurrent = FALSE

PhaseOK ==   \* where the controller is, what is installed, who may be in a call
  /\ \/ ctl = "idle" /\ mtState = "null" /\ ~ typeSet /\ lib = "kept" /\ mt.items = <<>>
     \/ ctl = "idle" /\ mtState = "ready" /\ typeSet /\ lib = "trace"
     \/ ctl \in {"num", "install"} /\ mtState = "ready" /\ typeSet
     \/ ctl = "restore" /\ ~ typeSet
     \/ ctl \in {"mutex", "free"} /\ ~ typeSet /\ lib = "kept"
  /\ \A t \in Task : task[t].pc # "idle" => ctl = "idle" /\ mtState = "ready"

InMutex == {"mrealloc", "rremove", "radd"}
MutexOK == \A t \in Task : holder = t <=> task[t].pc \in InMutex

Apart ==     \* no block is in the hands of two calls
  \A t, u \in Task : \A a \in Owned(task[t]) \cap Owned(task[u]) : a = NoAddr \/ t = u

Replaced(a) == \E t \in Task : task[t].pc = "rremove" /\ task[t].addr = a

TaskInv(k) ==
  /\ k.pc \notin {"krealloc", "lock"}
  /\ \A a \in Owned(k) : a = NoAddr \/ Live(a)
  /\ k.pc \in {"add", "rremove", "radd"} /\ k.new # NoAddr => heap[k.new].size = k.size
  /\ k.pc = "kfree" => ~ Recorded(mt.items, k.addr)
  /\ k.pc = "radd" /\ k.new # NoAddr => ~ Recorded(mt.items, k.new)
  /\ k.pc = "rremove" /\ k.new \notin {NoAddr, k.addr} => ~ Recorded(mt.items, k.new)
  /\ k.pc = "add" /\ Recorded(mt.items, k.new) => Replaced(k.new)

Records ==
  \A i \in DOMAIN mt.items :
    heap[mt.items[i].addr].size = mt.items[i].size \/ Replaced(mt.items[i].addr)

RecordInv ==
  /\ TypeInv /\ PhaseOK /\ MutexOK /\ Apart
  /\ \A t \in Task : TaskInv(task[t])
  /\ Records /\ Distinct(mt.items)

LEMMA RecordInvImplies == RecordInv => OneRecordPerBlock /\ RecordsDescribeBlocks
<1> SUFFICES ASSUME RecordInv PROVE OneRecordPerBlock /\ RecordsDescribeBlocks
  OBVIOUS
<1>1. OneRecordPerBlock
  BY DEF RecordInv, OneRecordPerBlock, Distinct
<1>2. ASSUME NEW a, Replaced(a)
      PROVE  holder # NoTask /\ task[holder].pc = "rremove" /\ task[holder].addr = a
  BY <1>2, Constants DEF RecordInv, Replaced, MutexOK, InMutex
<1>3. RecordsDescribeBlocks
  BY <1>2 DEF RecordInv, RecordsDescribeBlocks, Records
<1> QED
  BY <1>1, <1>3

LEMMA RecordInit == Init => RecordInv
<1> SUFFICES ASSUME Init PROVE RecordInv
  OBVIOUS
<1>1. mt.items = <<>> /\ \A t \in Task : task[t].pc = "idle"
  BY EmptyTable DEF Init, Idle
<1>2. PhaseOK
  BY <1>1 DEF Init, PhaseOK
<1>3. MutexOK
  BY <1>1, Constants DEF Init, MutexOK, InMutex
<1>4. Apart /\ \A t \in Task : TaskInv(task[t])
  BY <1>1 DEF Apart, TaskInv, Owned
<1>5. Records /\ Distinct(mt.items)
  BY <1>1 DEF Records, Distinct
<1> QED
  BY <1>2, <1>3, <1>4, <1>5, TypeInit DEF RecordInv

\* A call keeps what it knows when the others leave its block and its record alone.
LEMMA OtherTask ==
  ASSUME TypeInv, NEW u \in Task, TaskInv(task[u]), task'[u] = task[u],
         \A a \in Owned(task[u]) :
           a = NoAddr \/ (/\ heap'[a].size = heap[a].size
                          /\ Recorded(mt'.items, a) => Recorded(mt.items, a)),
         \A a : Replaced(a) /\ Recorded(mt'.items, a) => Replaced(a)'
  PROVE  TaskInv(task[u])'
<1> DEFINE k == task[u]
<1>1. k.pc \notin {"krealloc", "lock"}
  BY DEF TaskInv
<1>2. \A a \in Owned(k) : a = NoAddr \/ heap'[a].size > 0
  BY DEF TaskInv, Live
<1>3. k.pc \in {"add", "rremove", "radd"} /\ k.new # NoAddr => k.new \in Owned(k)
  BY DEF Owned
<1>4. k.pc = "kfree" => k.addr \in Owned(k)
  BY DEF Owned
<1>5. k.pc = "kfree" => k.addr # NoAddr
  BY Constants DEF TypeInv, TasksOK, ArgsOK, Block
<1>6. /\ k.pc \in {"add", "rremove", "radd"} /\ k.new # NoAddr => heap'[k.new].size = k.size
      /\ k.pc = "kfree" => ~ Recorded(mt'.items, k.addr)
      /\ k.pc = "radd" /\ k.new # NoAddr => ~ Recorded(mt'.items, k.new)
      /\ k.pc = "rremove" /\ k.new \notin {NoAddr, k.addr} => ~ Recorded(mt'.items, k.new)
  BY <1>3, <1>4, <1>5 DEF TaskInv
<1>7. k.pc = "add" /\ Recorded(mt'.items, k.new) => Replaced(k.new)'
  <2>1. k.pc = "add" => k.new # NoAddr
    BY Constants DEF TypeInv, TasksOK, ArgsOK, Block
  <2> QED BY <1>3, <2>1 DEF TaskInv
<1> QED
  BY <1>1, <1>2, <1>6, <1>7 DEF TaskInv, Live

LEMMA BlockSize ==
  ASSUME HeapOK, NEW a \in Block
  PROVE  heap[a].size \in Nat
<1>1. heap[a].size \in Size \/ heap[a].size = 0
  BY DEF HeapOK, HeapRec
<1>2. \A n \in Size : n \in Nat /\ n > 0
  BY SizesPositive
<1> QED
  BY <1>1, <1>2

\* What a call n of task t has in its hands no other task has.
OwnsAlone(n, t) ==
  \A u \in Task \ {t} : \A a \in Owned(n) \cap Owned(task[u]) : a = NoAddr

LEMMA ApartMove ==
  ASSUME TasksOK, Apart, NEW t \in Task, NEW n, task' = [task EXCEPT ![t] = n],
         OwnsAlone(n, t)
  PROVE  Apart'
<1> USE DEF OwnsAlone
<1> SUFFICES ASSUME NEW u \in Task, NEW v \in Task, u # v,
                    NEW a \in Owned(task'[u]) \cap Owned(task'[v])
             PROVE  a = NoAddr
  BY DEF Apart
<1>1. CASE u = t
  BY <1>1 DEF TasksOK
<1>2. CASE v = t
  BY <1>2 DEF TasksOK
<1>3. CASE u # t /\ v # t
  BY <1>3 DEF TasksOK, Apart
<1> QED
  BY <1>1, <1>2, <1>3

\* A call may let go of a block, or go on with the one it has.
LEMMA ApartSame ==
  ASSUME Apart, NEW t \in Task, \A u \in Task \ {t} : task'[u] = task[u],
         Owned(task'[t]) \subseteq Owned(task[t])
  PROVE  Apart'
BY DEF Apart

LEMMA PhaseMove ==
  ASSUME TasksOK, PhaseOK, ctl = "idle", mtState = "ready", UNCHANGED traceVars,
         NEW t \in Task, NEW n, task' = [task EXCEPT ![t] = n]
  PROVE  PhaseOK'
<1>1. ctl' = "idle" /\ mtState' = "ready" /\ typeSet' /\ lib' = "trace"
  BY DEF PhaseOK, traceVars
<1> QED
  BY <1>1 DEF PhaseOK

LEMMA ReplacedStays ==
  ASSUME TasksOK, NEW t \in Task, NEW n, task' = [task EXCEPT ![t] = n],
         task[t].pc # "rremove", NEW a, Replaced(a)
  PROVE  Replaced(a)'
BY DEF Replaced, TasksOK

\* A step that moves a task, outside the mutex before and after, and touches
\* neither the heap nor the table.
LEMMA RecordOutside ==
  ASSUME RecordInv, TypeInv', NEW t \in Task, NEW n, task' = [task EXCEPT ![t] = n],
         ctl = "idle", mtState = "ready",
         UNCHANGED <<heap, mt, traceVars, holder>>,
         task[t].pc \notin InMutex,
         n.pc \in {"idle", "kmalloc", "remove", "untrack", "mlock", "query"},
         \A a \in Owned(n) : a = NoAddr \/ InHand(a)
  PROVE  RecordInv'
<1> USE DEF RecordInv, TypeInv
<1>1. PhaseOK'
  BY PhaseMove
<1>2. MutexOK'
  BY DEF MutexOK, InMutex, TasksOK
<1>3. Apart'
  <2>1. OwnsAlone(n, t)
    BY DEF OwnsAlone, InHand
  <2> QED BY <2>1, ApartMove
<1>4. \A a : Replaced(a) => Replaced(a)'
  BY ReplacedStays DEF InMutex
<1>5. ASSUME NEW u \in Task PROVE TaskInv(task[u])'
  <2>1. CASE u = t
    BY <2>1 DEF TaskInv, TasksOK, InHand, Live, Owned
  <2>2. CASE u # t
    BY <1>4, <2>2, OtherTask DEF TasksOK
  <2> QED BY <2>1, <2>2
<1>6. Records' /\ Distinct(mt'.items)
  BY <1>4 DEF Records
<1> QED
  BY <1>1, <1>2, <1>3, <1>5, <1>6

\* An address that is not in use is in no call's hand, and has no record but
\* one that is being replaced.
LEMMA UnusedAddress ==
  ASSUME RecordInv, NEW a \in Block, ~ Live(a)
  PROVE  /\ \A u \in Task : a \notin Owned(task[u])
         /\ Recorded(mt.items, a) => Replaced(a)
<1>1. a # NoAddr
  BY Constants DEF Block
<1>2. \A u \in Task : a \notin Owned(task[u])
  BY <1>1 DEF RecordInv, TaskInv
<1>3. ASSUME NEW i \in DOMAIN mt.items, mt.items[i].addr = a
      PROVE  Replaced(a)
  <2>1. mt.items[i] \in Item /\ heap[a].size \in Nat
    BY RecordType, BlockSize DEF RecordInv, TypeInv
  <2>2. mt.items[i].size \in Nat /\ mt.items[i].size # 0
    BY <2>1, SizesPositive DEF Item
  <2>3. heap[a].size # mt.items[i].size
    BY <2>1, <2>2 DEF Live
  <2> QED BY <1>3, <2>3 DEF RecordInv, Records
<1> QED
  BY <1>2, <1>3 DEF Recorded

\* A task is handed an unused address, and will record it.
LEMMA RecordHanded ==
  ASSUME RecordInv, TypeInv', NEW t \in Task, NEW n \in TaskRec, task' = [task EXCEPT ![t] = n],
         ctl = "idle", mtState = "ready",
         UNCHANGED <<mt, traceVars, holder>>,
         task[t].pc \notin InMutex, n.pc = "add", n.new \in Block, ~ Live(n.new),
         NEW r, r.size = n.size, heap' = [heap EXCEPT ![n.new] = r]
  PROVE  RecordInv'
<1> USE DEF RecordInv, TypeInv
<1>0. /\ \A u \in Task : n.new \notin Owned(task[u])
      /\ Recorded(mt.items, n.new) => Replaced(n.new)
  BY UnusedAddress
<1>1. PhaseOK'
  BY PhaseMove
<1>2. MutexOK'
  BY DEF MutexOK, InMutex, TasksOK
<1>3. n.new # NoAddr /\ Owned(n) = {n.new}
  BY Constants DEF Owned, Block
<1>4. Apart'
  <2>1. OwnsAlone(n, t)
    BY <1>0, <1>3 DEF OwnsAlone
  <2>2. TasksOK /\ Apart
    OBVIOUS
  <2> QED BY <2>1, <2>2, ApartMove
<1>5. \A a : Replaced(a) => Replaced(a)'
  BY ReplacedStays DEF InMutex
<1>6. \A a \in Block : heap'[a] = IF a = n.new THEN r ELSE heap[a]
  BY DEF HeapOK
<1>7. r.size > 0
  <2>1. task'[t] = n
    BY DEF TasksOK
  <2>2. n.size \in Size
    BY <2>1 DEF TasksOK, ArgsOK
  <2>3. \A x \in Size : x > 0
    BY SizesPositive
  <2> QED BY <2>2, <2>3
<1>8. ASSUME NEW u \in Task PROVE TaskInv(task[u])'
  <2>1. CASE u = t
    <3>1. task'[u] = n
      BY <2>1 DEF TasksOK
    <3>2. \A a \in Owned(n) : Live(a)'
      BY <1>3, <1>6, <1>7 DEF Live
    <3> QED BY <1>0, <1>5, <1>6, <3>1, <3>2 DEF TaskInv
  <2>2. CASE u # t
    <3>1. \A a \in Owned(task[u]) : a = NoAddr \/ a \in Block
      BY DEF Owned, TasksOK, TaskRec
    <3>2. task'[u] = task[u]
      BY <2>2 DEF TasksOK
    <3> QED BY <1>0, <1>5, <1>6, <3>1, <3>2, OtherTask
  <2> QED BY <2>1, <2>2
<1>9. Records' /\ Distinct(mt'.items)
  <2>1. \A i \in DOMAIN mt.items : mt.items[i].addr \in Block
    BY RecordType DEF Item
  <2>2. \A i \in DOMAIN mt.items : mt.items[i].addr = n.new => Replaced(n.new)
    BY <1>0 DEF Recorded
  <2> QED BY <1>5, <1>6, <2>1, <2>2 DEF Records
<1> QED
  BY <1>1, <1>2, <1>4, <1>8, <1>9

\* While there is no trace, nothing is recorded and nobody is in a traced call.
LEMMA RecordUntraced ==
  ASSUME RecordInv, TypeInv', ctl = "idle", mtState = "null",
         UNCHANGED <<mt, traceVars, holder, task>>
  PROVE  RecordInv'
<1> USE DEF RecordInv
<1>1. mt'.items = <<>> /\ \A t \in Task : task'[t].pc = "idle"
  BY DEF PhaseOK
<1>2. PhaseOK' /\ MutexOK'
  BY DEF PhaseOK, MutexOK, traceVars
<1>3. Apart' /\ \A t \in Task : TaskInv(task[t])'
  BY <1>1 DEF Apart, TaskInv, Owned
<1>4. Records' /\ Distinct(mt'.items)
  BY <1>1 DEF Records, Distinct
<1> QED
  BY <1>2, <1>3, <1>4

LEMMA RecordCall ==
  ASSUME Application, RecordInv, NEW t \in Task, Call(t)
  PROVE  RecordInv'
<1>0. TypeInv'
  BY TypeCall DEF RecordInv
<1>1. /\ MayCall(t) /\ UNCHANGED <<mt, traceVars, holder, lost>>
  BY Zenon DEF Call, CallAlloc, CallFree, CallRealloc, CallTrack, CallUntrack, CallQuery
<1>2. ctl = "idle" /\ task[t].pc = "idle" /\ task[t].pc \notin InMutex
  BY <1>1 DEF MayCall, Application, InMutex
<1>3. CASE mtState = "null"
  <2>1. ~ typeSet /\ lib = "kept"
    BY <1>2, <1>3 DEF RecordInv, PhaseOK
  <2>2. UNCHANGED task
    BY <2>1 DEF Call, CallAlloc, CallFree, CallRealloc, CallTrack, CallUntrack, CallQuery, Traced
  <2> QED BY <1>0, <1>1, <1>2, <1>3, <2>2, RecordUntraced
<1>4. CASE mtState # "null"
  <2>1. mtState = "ready" /\ typeSet /\ lib = "trace"
    BY <1>2, <1>4 DEF RecordInv, PhaseOK
  <2>2. ASSUME NEW pc \in {"kmalloc", "remove", "untrack", "mlock", "query"}, NEW a, NEW size,
               NEW name, Goto(t, pc, a, NoAddr, size, name), UNCHANGED heap,
               a = NoAddr \/ InHand(a)
        PROVE  RecordInv'
    <3> DEFINE n == [pc |-> pc, addr |-> a, new |-> NoAddr, size |-> size, name |-> name]
    <3>1. task' = [task EXCEPT ![t] = n] /\ n.pc = pc
      BY <2>2 DEF Goto
    <3>2. \A b \in Owned(n) : b = NoAddr \/ InHand(b)
      BY <2>2 DEF Owned
    <3> HIDE DEF n
    <3> QED BY <1>0, <1>1, <1>2, <2>1, <2>2, <3>1, <3>2, RecordOutside
  <2>3. ASSUME NEW name \in AllocNames, NEW size \in Size, CallAlloc(t, name, size)
        PROVE  RecordInv'
    BY <2>1, <2>2, <2>3 DEF CallAlloc, Traced
  <2>4. ASSUME NEW a \in Addr, CallFree(t, a)
        PROVE  RecordInv'
    BY <2>1, <2>2, <2>4 DEF CallFree
  <2>5. ASSUME NEW name \in ReallocNames, NEW a \in Addr \cup {NoAddr}, NEW size \in Size,
               CallRealloc(t, name, a, size)
        PROVE  RecordInv'
    BY <2>1, <2>2, <2>5 DEF CallRealloc, Application
  <2>6. ASSUME NEW name \in AllocNames, NEW a \in Extern, NEW size \in Size,
               CallTrack(t, name, a, size)
        PROVE  RecordInv'
    <3> DEFINE n == [pc |-> "add", addr |-> NoAddr, new |-> a, size |-> size, name |-> name]
               r == [size |-> size, name |-> name, traced |-> FALSE]
    <3>1. n \in TaskRec
      BY Constants DEF TaskRec, InUse, Block, Names
    <3>2. /\ task' = [task EXCEPT ![t] = n] /\ heap' = [heap EXCEPT ![n.new] = r]
          /\ ~ Live(n.new)
      BY <2>6 DEF CallTrack, Goto, Hand
    <3>3. n.pc = "add" /\ n.new \in Block /\ r.size = n.size
      BY DEF Block
    <3> HIDE DEF n, r
    <3> QED BY <1>0, <1>1, <1>2, <2>1, <3>1, <3>2, <3>3, RecordHanded
  <2>7. ASSUME NEW a \in Extern, CallUntrack(t, a)
        PROVE  RecordInv'
    BY <2>1, <2>2, <2>7 DEF CallUntrack
  <2>8. ASSUME CallQuery(t)
        PROVE  RecordInv'
    BY <2>1, <2>2, <2>8 DEF CallQuery
  <2> QED BY <2>3, <2>4, <2>5, <2>6, <2>7, <2>8 DEF Call
<1> QED
  BY <1>3, <1>4

LEMMA RecordControl ==
  ASSUME Application, RecordInv, Control
  PROVE  RecordInv'
<1> USE DEF RecordInv
<1>0. TypeInv'
  BY TypeControl
<1>1. UNCHANGED task
  BY DEF Control, StartConfig, StartNum, StartInstall, StopType, StopRestore, StopMutex, StopFree
<1>2. \A t \in Task : task[t].pc = "idle" /\ task'[t].pc = "idle"
  BY <1>1 DEF Control, StartConfig, StartNum, StartInstall, StopType, StopRestore, StopMutex,
              StopFree, Quiet, AllIdle, Application, PhaseOK
<1>3. PhaseOK'
  <2>1. Empty.items = <<>>
    BY EmptyTable
  <2> QED
    BY <1>2, <2>1 DEF Control, StartConfig, StartNum, StartInstall, StopType, StopRestore,
                      StopMutex, StopFree, PhaseOK
<1>4. MutexOK'
  <2>1. holder' \in {holder, NoTask}
    BY DEF Control, StartConfig, StartNum, StartInstall, StopType, StopRestore, StopMutex, StopFree
  <2> QED
    BY <1>2, <2>1, Constants DEF MutexOK, InMutex
<1>5. Apart' /\ \A t \in Task : TaskInv(task[t])'
  BY <1>2 DEF Apart, TaskInv, Owned
<1>6. Records' /\ Distinct(mt'.items)
  <2>1. CASE mt' = Empty
    BY <2>1, EmptyTable DEF Records, Distinct
  <2>2. CASE UNCHANGED <<heap, mt>>
    BY <1>2, <2>2 DEF Records, Replaced
  <2> QED
    BY <2>1, <2>2 DEF Control, StartConfig, StartNum, StartInstall, StopType, StopRestore,
                      StopMutex, StopFree
<1> QED
  BY <1>0, <1>3, <1>4, <1>5, <1>6

\* A critical section of one step begins with nobody inside the mutex.
LEMMA NobodyInside ==
  ASSUME RecordInv, mtState = "ready", Lockable
  PROVE  /\ \A u \in Task : task[u].pc \notin InMutex
         /\ \A a : ~ Replaced(a)
BY Constants DEF RecordInv, MutexOK, Lockable, Replaced, InMutex

\* One task at most is inside, so what is being replaced is its block.
LEMMA OnlyHolderInside ==
  ASSUME RecordInv, NEW t \in Task, task[t].pc \in InMutex
  PROVE  /\ \A u \in Task : task[u].pc \in InMutex => u = t
         /\ \A a : Replaced(a) => task[t].pc = "rremove" /\ task[t].addr = a
BY DEF RecordInv, MutexOK, Replaced, InMutex

LEMMA InACall ==
  ASSUME RecordInv, NEW t \in Task, Run(t)
  PROVE  ctl = "idle" /\ mtState = "ready"
<1>1. task[t].pc # "idle"
  BY DEF Run, KeptMalloc, LockedAdd, LockedRemove, KeptFree, LockedUntrack, DoRealloc,
         ReallocLock, ReallocRemove, ReallocAdd, QueryRead
<1> QED
  BY <1>1 DEF RecordInv, PhaseOK

LEMMA OwnedType ==
  ASSUME TasksOK, NEW u \in Task, NEW a \in Owned(task[u])
  PROVE  a = NoAddr \/ a \in Block
BY DEF Owned, TasksOK, TaskRec

\* add_trace of a block that is in hand and has no record yet.
LEMMA RecordAdded ==
  ASSUME RecordInv, TypeInv', NEW t \in Task, task[t].pc \in {"add", "radd"},
         ctl = "idle", mtState = "ready", UNCHANGED traceVars, MutexOK', Return(t),
         task[t].new \in Block, ~ Recorded(mt.items, task[t].new), \A a : ~ Replaced(a),
         AddTrace(task[t].name, task[t].new, task[t].size),
         heap' = [heap EXCEPT ![task[t].new].traced = TRUE]
  PROVE  RecordInv'
<1> USE DEF RecordInv, TypeInv
<1> DEFINE new == task[t].new
           size == task[t].size
<1>1. size \in Size /\ task[t].name \in Names
  BY DEF TasksOK, ArgsOK, TaskRec, ReallocPc
<1>2. \/ mt'.items = mt.items
      \/ \E id \in Ids : mt'.items = Append(mt.items, [addr |-> new, size |-> size, id |-> id])
  BY <1>1, AddTraceTable DEF TableOK
<1>3. mt.items \in Seq(Item) /\ new # NoAddr
  BY Constants DEF TableOK, Table, Block
<1>4. \A i \in DOMAIN mt'.items :
        \/ i \in DOMAIN mt.items /\ mt'.items[i] = mt.items[i]
        \/ i = Len(mt.items) + 1 /\ mt'.items[i].addr = new /\ mt'.items[i].size = size
  <2>1. CASE mt'.items = mt.items
    BY <2>1
  <2>2. ASSUME NEW r, r.addr = new, r.size = size, mt'.items = Append(mt.items, r)
        PROVE  \A i \in DOMAIN mt'.items :
                 \/ i \in DOMAIN mt.items /\ mt'.items[i] = mt.items[i]
                 \/ i = Len(mt.items) + 1 /\ mt'.items[i].addr = new /\ mt'.items[i].size = size
    <3>1. /\ DOMAIN mt'.items = 1 .. Len(mt.items) + 1
          /\ DOMAIN mt.items = 1 .. Len(mt.items)
          /\ \A i \in 1 .. Len(mt.items) : mt'.items[i] = mt.items[i]
          /\ mt'.items[Len(mt.items) + 1] = r
      BY <1>3, <2>2
    <3> QED BY <1>3, <2>2, <3>1
  <2> QED BY <1>2, <2>1, <2>2
<1>5. \A b : Recorded(mt'.items, b) => Recorded(mt.items, b) \/ b = new
  BY <1>4 DEF Recorded
<1>6. \A b \in Block : heap'[b].size = heap[b].size
  BY DEF HeapOK, HeapRec
<1>7. new \in Owned(task[t]) /\ heap[new].size = size
  BY <1>3 DEF Owned, TaskInv
<1>8. task' = [task EXCEPT ![t] = Idle]
  BY DEF Return
<1>9. Idle.pc = "idle" /\ Owned(Idle) = {}
  BY DEF Idle, Owned
<1>10. PhaseOK'
  BY <1>8, PhaseMove
<1>11. Apart'
  <2>1. OwnsAlone(Idle, t)
    BY <1>9 DEF OwnsAlone
  <2>2. TasksOK /\ Apart
    OBVIOUS
  <2> QED BY ONLY <1>8, <2>1, <2>2, ApartMove, t \in Task
<1>12. ASSUME NEW u \in Task PROVE TaskInv(task[u])'
  <2>1. CASE u = t
    <3>1. task'[u] = Idle
      BY <1>8, <2>1 DEF TasksOK
    <3> QED BY <1>9, <3>1 DEF TaskInv
  <2>2. CASE u # t
    <3>1. \A a \in Owned(task[u]) : a = NoAddr \/ (a \in Block /\ a # new)
      BY <1>3, <1>7, <2>2, OwnedType DEF Apart
    <3>2. task'[u] = task[u]
      BY <1>8, <2>2 DEF TasksOK
    <3> QED BY <1>5, <1>6, <3>1, <3>2, OtherTask
  <2> QED BY <2>1, <2>2
<1>13. Records'
  <2>1. \A i \in DOMAIN mt.items : mt.items[i].addr \in Block
    BY RecordType DEF Item
  <2> QED BY <1>4, <1>6, <1>7, <2>1 DEF Records
<1>14. Distinct(mt'.items)
  BY <1>3, <1>4 DEF Distinct, Recorded
<1> QED
  BY <1>10, <1>11, <1>12, <1>13, <1>14

LEMMA RecordLockedAdd ==
  ASSUME RecordInv, TypeInv', NEW t \in Task, LockedAdd(t), ctl = "idle", mtState = "ready"
  PROVE  RecordInv'
<1>1. \A u \in Task : task[u].pc \notin InMutex
  BY NobodyInside DEF LockedAdd
<1>2. \A a : ~ Replaced(a)
  BY NobodyInside DEF LockedAdd
<1>3. task[t].new \in Block /\ ~ Recorded(mt.items, task[t].new)
  BY <1>2 DEF LockedAdd, RecordInv, TypeInv, TasksOK, ArgsOK, TaskInv
<1>4. MutexOK'
  BY <1>1 DEF LockedAdd, Return, Idle, RecordInv, TypeInv, TasksOK, MutexOK, InMutex
<1> QED
  BY <1>2, <1>3, <1>4, RecordAdded DEF LockedAdd

LEMMA RecordReallocAdd ==
  ASSUME RecordInv, TypeInv', NEW t \in Task, ReallocAdd(t), ctl = "idle", mtState = "ready"
  PROVE  RecordInv'
<1>1. task[t].pc = "radd" /\ task[t].pc \in InMutex
  BY DEF ReallocAdd, InMutex
<1>2. /\ \A u \in Task : task[u].pc \in InMutex => u = t
      /\ \A a : ~ Replaced(a)
  BY <1>1, OnlyHolderInside
<1>3. holder = t
  BY <1>1 DEF RecordInv, MutexOK
<1>4. task' = [task EXCEPT ![t] = Idle] /\ Idle.pc = "idle"
  BY DEF ReallocAdd, Return, Idle
<1>5. MutexOK'
  BY <1>2, <1>3, <1>4, Constants DEF ReallocAdd, Unlock, RecordInv, TypeInv, TasksOK, MutexOK, InMutex
<1>6. CASE task[t].new # NoAddr
  <2>1. task[t].new \in Block /\ ~ Recorded(mt.items, task[t].new)
    BY <1>1, <1>6 DEF RecordInv, TypeInv, TasksOK, TaskRec, TaskInv
  <2> QED
    BY <1>1, <1>2, <1>5, <1>6, <2>1, RecordAdded DEF ReallocAdd
<1>7. CASE task[t].new = NoAddr
  <2> USE DEF RecordInv, TypeInv
  <2>1. UNCHANGED <<heap, mt>>
    BY <1>7 DEF ReallocAdd
  <2>2. PhaseOK'
    BY <1>4, PhaseMove DEF ReallocAdd
  <2>3. Apart'
    <3>1. OwnsAlone(Idle, t)
      BY <1>4 DEF OwnsAlone, Owned
    <3> QED BY <1>4, <3>1, ApartMove
  <2>4. ASSUME NEW u \in Task PROVE TaskInv(task[u])'
    <3>1. CASE u = t
      BY <1>4, <3>1 DEF TaskInv, TasksOK, Owned
    <3>2. CASE u # t
      BY <1>2, <1>4, <2>1, <3>2, OtherTask DEF TasksOK
    <3> QED BY <3>1, <3>2
  <2>5. Records' /\ Distinct(mt'.items)
    BY <1>2, <2>1 DEF Records
  <2> QED BY <1>5, <2>2, <2>3, <2>4, <2>5
<1> QED
  BY <1>6, <1>7

\* remove_trace leaves records of the table, each once, and none of the address.
LEMMA RecordsLeft ==
  ASSUME RecordInv, NEW a, mt' = RemoveTrace(mt, a)
  PROVE  /\ Distinct(mt'.items) /\ ~ Recorded(mt'.items, a)
         /\ \A b : Recorded(mt'.items, b) => Recorded(mt.items, b)
         /\ \A j \in DOMAIN mt'.items : \E i \in DOMAIN mt.items : mt'.items[j] = mt.items[i]
<1>1. /\ \A j \in DOMAIN mt'.items : \E i \in DOMAIN mt.items : mt'.items[j] = mt.items[i]
      /\ Distinct(mt'.items) /\ ~ Recorded(mt'.items, a)
  BY RemoveTraceTable DEF RecordInv, TypeInv, TableOK
<1> QED
  BY <1>1 DEF Recorded

LEMMA RecordLockedRemove ==
  ASSUME RecordInv, TypeInv', NEW t \in Task, LockedRemove(t), ctl = "idle", mtState = "ready"
  PROVE  RecordInv'
<1> USE DEF RecordInv, TypeInv
<1> DEFINE n == [task[t] EXCEPT !.pc = "kfree"]
<1>1. task' = [task EXCEPT ![t] = n] /\ n.pc = "kfree" /\ n.addr = task[t].addr
  BY DEF LockedRemove, Step, TasksOK, TaskRec
<1>2. Owned(n) = Owned(task[t]) /\ Owned(n) = {n.addr}
  BY <1>1 DEF Owned, LockedRemove
<1> HIDE DEF n
<1>3. /\ \A u \in Task : task[u].pc \notin InMutex
      /\ \A a : ~ Replaced(a)
  BY NobodyInside DEF LockedRemove
<1>4. /\ Distinct(mt'.items) /\ ~ Recorded(mt'.items, n.addr)
      /\ \A b : Recorded(mt'.items, b) => Recorded(mt.items, b)
      /\ \A j \in DOMAIN mt'.items : \E i \in DOMAIN mt.items : mt'.items[j] = mt.items[i]
  BY <1>1, RecordsLeft DEF LockedRemove
<1>5. PhaseOK'
  BY <1>1, PhaseMove DEF LockedRemove
<1>6. MutexOK'
  BY <1>1, <1>3 DEF LockedRemove, MutexOK, InMutex, TasksOK
<1>7. Apart'
  <2>1. /\ \A u \in Task \ {t} : task'[u] = task[u]
        /\ task'[t] = n
    BY <1>1 DEF TasksOK
  <2> QED BY <1>2, <2>1, ApartSame
<1>8. UNCHANGED heap
  BY DEF LockedRemove
<1>9. ASSUME NEW u \in Task PROVE TaskInv(task[u])'
  <2>1. CASE u = t
    BY <1>1, <1>2, <1>4, <1>8, <2>1 DEF TaskInv, TasksOK, Live
  <2>2. CASE u # t
    <3>1. task'[u] = task[u]
      BY <1>1, <2>2 DEF TasksOK
    <3> QED BY <1>3, <1>4, <1>8, <3>1, OtherTask
  <2> QED BY <2>1, <2>2
<1>10. Records'
  BY <1>3, <1>4, <1>8 DEF Records
<1> QED
  BY <1>4, <1>5, <1>6, <1>7, <1>9, <1>10

\* A block that has no record is given back, and the call returns.
LEMMA RecordFreed ==
  ASSUME RecordInv, TypeInv', NEW t \in Task, task[t].pc \in {"kfree", "untrack"},
         ctl = "idle", mtState = "ready", UNCHANGED traceVars, UNCHANGED holder, Return(t),
         ~ Recorded(mt'.items, task[t].addr), Distinct(mt'.items),
         \A b : Recorded(mt'.items, b) => Recorded(mt.items, b),
         \A j \in DOMAIN mt'.items : \E i \in DOMAIN mt.items : mt'.items[j] = mt.items[i],
         heap' = [heap EXCEPT ![task[t].addr] = Free]
  PROVE  RecordInv'
<1> USE DEF RecordInv, TypeInv
<1> DEFINE a == task[t].addr
<1>1. task' = [task EXCEPT ![t] = Idle] /\ Idle.pc = "idle" /\ Owned(Idle) = {}
  BY DEF Return, Idle, Owned
<1>2. a \in Owned(task[t]) /\ a \in Block /\ a # NoAddr
  BY Constants DEF Owned, TasksOK, ArgsOK, Block
<1>3. PhaseOK'
  BY <1>1, PhaseMove
<1>4. MutexOK'
  BY <1>1 DEF MutexOK, InMutex, TasksOK
<1>5. Apart'
  <2>1. OwnsAlone(Idle, t)
    BY <1>1 DEF OwnsAlone
  <2>2. TasksOK /\ Apart
    OBVIOUS
  <2> QED BY ONLY <1>1, <2>1, <2>2, ApartMove, t \in Task
<1>6. \A b \in Block : b # a => heap'[b] = heap[b]
  BY DEF HeapOK
<1>7. \A b : Replaced(b) => Replaced(b)'
  BY <1>1, ReplacedStays
<1>8. ASSUME NEW u \in Task PROVE TaskInv(task[u])'
  <2>1. CASE u = t
    <3>1. task'[u] = Idle
      BY <1>1, <2>1 DEF TasksOK
    <3> QED BY <1>1, <3>1 DEF TaskInv
  <2>2. CASE u # t
    <3>1. \A b \in Owned(task[u]) : b = NoAddr \/ (b \in Block /\ b # a)
      BY <1>2, <2>2, OwnedType DEF Apart
    <3>2. task'[u] = task[u]
      BY <1>1, <2>2 DEF TasksOK
    <3> QED BY <1>6, <1>7, <3>1, <3>2, OtherTask
  <2> QED BY <2>1, <2>2
<1>9. Records'
  <2>1. \A i \in DOMAIN mt.items : mt.items[i].addr \in Block
    BY RecordType DEF Item
  <2>2. \A j \in DOMAIN mt'.items : mt'.items[j].addr # a
    BY DEF Recorded
  <2> QED BY <1>6, <1>7, <2>1, <2>2 DEF Records
<1> QED
  BY <1>3, <1>4, <1>5, <1>8, <1>9

LEMMA RecordKeptFree ==
  ASSUME RecordInv, TypeInv', NEW t \in Task, KeptFree(t), ctl = "idle", mtState = "ready"
  PROVE  RecordInv'
<1>1. ~ Recorded(mt.items, task[t].addr)
  BY DEF KeptFree, RecordInv, TaskInv
<1> QED
  BY <1>1, RecordFreed DEF KeptFree, RecordInv

LEMMA RecordLockedUntrack ==
  ASSUME RecordInv, TypeInv', NEW t \in Task, LockedUntrack(t), ctl = "idle", mtState = "ready"
  PROVE  RecordInv'
BY RecordsLeft, RecordFreed DEF LockedUntrack

LEMMA RecordReallocLock ==
  ASSUME RecordInv, TypeInv', NEW t \in Task, ReallocLock(t), ctl = "idle", mtState = "ready"
  PROVE  RecordInv'
<1> USE DEF RecordInv, TypeInv
<1>1. task[t].pc = "mlock"
  BY DEF ReallocLock, TaskInv
<1> DEFINE n == [task[t] EXCEPT !.pc = "mrealloc"]
<1>2. /\ task' = [task EXCEPT ![t] = n] /\ n.pc = "mrealloc" /\ n.addr = task[t].addr
      /\ UNCHANGED <<heap, mt, traceVars>> /\ holder' = t
  BY <1>1 DEF ReallocLock, Step, Lock, TasksOK, TaskRec
<1>3. Owned(n) = Owned(task[t])
  BY <1>1, <1>2 DEF Owned
<1> HIDE DEF n
<1>4. /\ \A u \in Task : task[u].pc \notin InMutex
      /\ \A a : ~ Replaced(a)
  BY NobodyInside DEF ReallocLock
<1>5. task'[t] = n /\ \A u \in Task \ {t} : task'[u] = task[u]
  BY <1>2 DEF TasksOK
<1>6. PhaseOK'
  BY <1>2, PhaseMove
<1>7. MutexOK'
  BY <1>2, <1>4, <1>5 DEF MutexOK, InMutex
<1>8. Apart'
  BY <1>3, <1>5, ApartSame
<1>9. ASSUME NEW u \in Task PROVE TaskInv(task[u])'
  <2>1. CASE u = t
    BY <1>2, <1>3, <1>5, <2>1 DEF TaskInv, Live
  <2>2. CASE u # t
    BY <1>2, <1>4, <1>5, <2>2, OtherTask
  <2> QED BY <2>1, <2>2
<1>10. Records' /\ Distinct(mt'.items)
  BY <1>2, <1>4 DEF Records
<1> QED
  BY <1>6, <1>7, <1>8, <1>9, <1>10

LEMMA RecordReallocRemove ==
  ASSUME RecordInv, TypeInv', NEW t \in Task, ReallocRemove(t), ctl = "idle", mtState = "ready"
  PROVE  RecordInv'
<1> USE DEF RecordInv, TypeInv
<1> DEFINE n == [task[t] EXCEPT !.pc = "radd"]
           a == task[t].addr
<1>1. /\ task' = [task EXCEPT ![t] = n] /\ n.pc = "radd" /\ n.addr = a
      /\ n.new = task[t].new /\ n.size = task[t].size /\ task[t].pc = "rremove"
      /\ UNCHANGED <<heap, traceVars, holder>>
  BY DEF ReallocRemove, Step, TasksOK, TaskRec
<1>2. Owned(n) = Owned(task[t])
  BY <1>1 DEF Owned
<1>3. task'[t] = n /\ \A u \in Task \ {t} : task'[u] = task[u]
  BY <1>1 DEF TasksOK
<1> HIDE DEF n
<1>4. \A b : Replaced(b) => b = a
  BY <1>1, OnlyHolderInside DEF InMutex
<1>5. /\ Distinct(mt'.items) /\ ~ Recorded(mt'.items, a)
      /\ \A b : Recorded(mt'.items, b) => Recorded(mt.items, b)
      /\ \A j \in DOMAIN mt'.items : \E i \in DOMAIN mt.items : mt'.items[j] = mt.items[i]
  <2>1. CASE a = NoAddr
    <3>1. mt' = mt
      BY <2>1 DEF ReallocRemove
    <3>2. \A i \in DOMAIN mt.items : mt.items[i].addr # NoAddr
      BY RecordType, Constants DEF Item, Block
    <3> QED BY <2>1, <3>1, <3>2 DEF Recorded
  <2>2. CASE a # NoAddr
    BY <2>2, RecordsLeft DEF ReallocRemove
  <2> QED BY <2>1, <2>2
<1>6. PhaseOK'
  BY <1>1, PhaseMove
<1>7. MutexOK'
  BY <1>1, <1>3 DEF MutexOK, InMutex
<1>8. Apart'
  BY <1>2, <1>3, ApartSame
<1>9. ASSUME NEW u \in Task PROVE TaskInv(task[u])'
  <2>1. CASE u = t
    <3>1. n.new # NoAddr => ~ Recorded(mt'.items, n.new)
      BY <1>1, <1>5 DEF TaskInv
    <3>2. \A b \in Owned(n) : b = NoAddr \/ Live(b)'
      BY <1>1, <1>2 DEF TaskInv, Live
    <3>3. n.new # NoAddr => heap'[n.new].size = n.size
      BY <1>1 DEF TaskInv
    <3> QED BY <1>1, <1>3, <2>1, <3>1, <3>2, <3>3 DEF TaskInv
  <2>2. CASE u # t
    BY <1>1, <1>3, <1>4, <1>5, <2>2, OtherTask
  <2> QED BY <2>1, <2>2
<1>10. Records'
  <2> SUFFICES ASSUME NEW j \in DOMAIN mt'.items
               PROVE  heap'[mt'.items[j].addr].size = mt'.items[j].size
    BY DEF Records
  <2>1. PICK i \in DOMAIN mt.items : mt'.items[j] = mt.items[i]
    BY <1>5
  <2>2. mt'.items[j].addr # a
    BY <1>5 DEF Recorded
  <2> QED BY <1>1, <1>4, <2>1, <2>2 DEF Records
<1> QED
  BY <1>5, <1>6, <1>7, <1>8, <1>9, <1>10

LEMMA RecordDoRealloc ==
  ASSUME RecordInv, TypeInv', NEW t \in Task, DoRealloc(t), ctl = "idle", mtState = "ready"
  PROVE  RecordInv'
<1> USE DEF RecordInv, TypeInv
<1> DEFINE a == task[t].addr
           size == task[t].size
<1>1. task[t].pc = "mrealloc" /\ size \in Size /\ a \in Addr \cup {NoAddr}
  BY DEF DoRealloc, TaskInv, TasksOK, ArgsOK, ReallocPc
<1>2. PICK new \in Addr \cup {NoAddr} :
        /\ KeptRealloc(a, size, task[t].name, new)
        /\ task' = [task EXCEPT ![t].new = new, ![t].pc = "rremove"]
  BY <1>1 DEF DoRealloc
<1> DEFINE n == [task[t] EXCEPT !.new = new, !.pc = "rremove"]
<1>3. /\ task'[t] = n /\ \A u \in Task \ {t} : task'[u] = task[u]
      /\ n.pc = "rremove" /\ n.addr = a /\ n.new = new /\ n.size = size
      /\ task' = [task EXCEPT ![t] = n]
      /\ UNCHANGED <<mt, traceVars, holder>>
  BY <1>2 DEF DoRealloc, TasksOK, TaskRec
<1> HIDE DEF n
<1>4. /\ \A u \in Task : task[u].pc \in InMutex => u = t
      /\ \A b : ~ Replaced(b)
  BY <1>1, OnlyHolderInside DEF InMutex
<1>5. \A x \in Size : x \in Nat /\ x > 0
  BY SizesPositive
<1>6. \/ new = NoAddr /\ \A b \in Block : heap'[b] = heap[b]
      \/ /\ new # NoAddr /\ new \in Block /\ (new = a \/ ~ Live(new))
         /\ heap'[new].size = size
         /\ \A b \in Block : b \notin {a, new} => heap'[b] = heap[b]
  <2>1. CASE new = NoAddr /\ UNCHANGED heap
    BY <2>1
  <2>2. CASE /\ new \in Addr /\ (new = a \/ ~ Live(new))
             /\ heap' = [b \in Block |->
                   CASE b = new -> [size |-> size, name |-> task[t].name,
                                    traced |-> new = a /\ heap[b].traced]
                     [] b = a /\ a # new -> Free
                     [] OTHER -> heap[b]]
    <3>1. new \in Block /\ new # NoAddr
      BY <2>2, Constants DEF Block
    <3>2. heap'[new].size = size
      BY <2>2, <3>1
    <3>3. \A b \in Block : b \notin {a, new} => heap'[b] = heap[b]
      BY <2>2
    <3> QED BY <2>2, <3>1, <3>2, <3>3
  <2> QED BY <1>2, <2>1, <2>2 DEF KeptRealloc
<1>7. Owned(task[t]) = {a} /\ Owned(n) = {IF new = NoAddr THEN a ELSE new}
  BY <1>1, <1>3 DEF Owned
<1>8. \A u \in Task \ {t} : \A b \in Owned(task[u]) :
        b = NoAddr \/ (b \in Block /\ b # a /\ b # new)
  <2> SUFFICES ASSUME NEW u \in Task \ {t}, NEW b \in Owned(task[u]), b # NoAddr
               PROVE  b \in Block /\ b # a /\ b # new
    OBVIOUS
  <2>1. b \in Block /\ b # a
    BY <1>7, OwnedType DEF Apart
  <2>2. b # new
    BY <1>6, <2>1, UnusedAddress
  <2> QED BY <2>1, <2>2
<1>9. PhaseOK'
  BY <1>3, PhaseMove
<1>10. MutexOK'
  BY <1>1, <1>3 DEF MutexOK, InMutex
<1>11. Apart'
  BY <1>3, <1>7, <1>8 DEF Apart
<1>12. ASSUME NEW u \in Task PROVE TaskInv(task[u])'
  <2>1. CASE u = t
    <3>1. \A b \in Owned(n) : b = NoAddr \/ Live(b)'
      <4>1. CASE new # NoAddr
        BY <1>1, <1>5, <1>6, <1>7, <4>1 DEF Live
      <4>2. CASE new = NoAddr
        <5>1. a = NoAddr \/ (a \in Block /\ Live(a))
          BY <1>1, <1>7 DEF TaskInv, Block
        <5> QED BY <1>6, <1>7, <4>2, <5>1 DEF Live
      <4> QED BY <4>1, <4>2
    <3>2. new \notin {NoAddr, a} => ~ Recorded(mt.items, new)
      BY <1>4, <1>6, UnusedAddress
    <3> QED BY <1>3, <1>6, <2>1, <3>1, <3>2 DEF TaskInv
  <2>2. CASE u # t
    <3>1. \A b \in Owned(task[u]) : b = NoAddr \/ heap'[b] = heap[b]
      BY <1>6, <1>8, <2>2
    <3> QED BY <1>3, <1>4, <2>2, <3>1, OtherTask
  <2> QED BY <2>1, <2>2
<1>13. Records'
  <2> SUFFICES ASSUME NEW i \in DOMAIN mt.items
               PROVE  \/ heap'[mt.items[i].addr].size = mt.items[i].size
                      \/ Replaced(mt.items[i].addr)'
    BY <1>3 DEF Records
  <2> DEFINE b == mt.items[i].addr
  <2>1. b \in Block
    BY RecordType DEF Item
  <2>2. CASE b = a
    BY <1>3, <2>2 DEF Replaced
  <2>3. CASE b # a
    <3>0. Recorded(mt.items, b)
      BY DEF Recorded
    <3> HIDE DEF b
    <3>1. b # new
      BY <1>4, <1>6, <2>1, <2>3, <3>0, UnusedAddress, Constants DEF Block
    <3>2. heap'[b] = heap[b]
      BY <1>6, <2>1, <2>3, <3>1
    <3> QED BY <1>4, <3>2 DEF Records, b
  <2> QED BY <2>2, <2>3
<1>14. Distinct(mt'.items)
  BY <1>3
<1> QED
  BY <1>9, <1>10, <1>11, <1>12, <1>13, <1>14

LEMMA RecordRun ==
  ASSUME RecordInv, NEW t \in Task, Run(t)
  PROVE  RecordInv'
<1>0. TypeInv'
  BY TypeRun DEF RecordInv
<1>1. ctl = "idle" /\ mtState = "ready"
  BY InACall
<1>2. ASSUME task[t].pc \in {"kmalloc", "query"}, Return(t),
             UNCHANGED <<heap, mt, traceVars, holder>>
      PROVE  RecordInv'
  <2>1. task' = [task EXCEPT ![t] = Idle] /\ Idle.pc = "idle" /\ Owned(Idle) = {}
    BY <1>2 DEF Return, Idle, Owned
  <2>2. task[t].pc \notin InMutex
    BY <1>2 DEF InMutex
  <2> QED BY <1>0, <1>1, <1>2, <2>1, <2>2, RecordOutside
<1>3. CASE KeptMalloc(t)
  <2>1. ASSUME NEW a \in Addr, ~ Live(a), Hand(a, task[t].size, task[t].name, FALSE),
               task' = [task EXCEPT ![t].pc = "add", ![t].new = a]
        PROVE  RecordInv'
    <3> DEFINE n == [task[t] EXCEPT !.pc = "add", !.new = a]
               r == [size |-> task[t].size, name |-> task[t].name, traced |-> FALSE]
    <3>1. /\ task' = [task EXCEPT ![t] = n] /\ n.pc = "add" /\ n.new = a
          /\ n.size = task[t].size /\ n \in TaskRec
      BY <2>1 DEF RecordInv, TypeInv, TasksOK, TaskRec, InUse, Block
    <3>2. heap' = [heap EXCEPT ![a] = r] /\ r.size = task[t].size
      BY <2>1 DEF Hand
    <3>3. task[t].pc \notin InMutex /\ a \in Block
      BY <1>3 DEF KeptMalloc, InMutex, Block
    <3>4. UNCHANGED <<mt, traceVars, holder>>
      BY <1>3 DEF KeptMalloc
    <3> HIDE DEF n, r
    <3> QED BY <1>0, <1>1, <2>1, <3>1, <3>2, <3>3, <3>4, RecordHanded
  <2> QED BY <1>2, <1>3, <2>1 DEF KeptMalloc
<1>4. CASE QueryRead(t)
  BY <1>2, <1>4 DEF QueryRead
<1> QED
  BY <1>0, <1>1, <1>3, <1>4, RecordLockedAdd, RecordLockedRemove, RecordKeptFree,
     RecordLockedUntrack, RecordDoRealloc, RecordReallocLock, RecordReallocRemove,
     RecordReallocAdd DEF Run

LEMMA RecordStep ==
  ASSUME Application, RecordInv, [Next]_vars
  PROVE  RecordInv'
<1>1. CASE UNCHANGED vars
  BY <1>1 DEF vars, traceVars, RecordInv, TypeInv, TableOK, HeapOK, TasksOK, ControlOK,
              PhaseOK, MutexOK, Apart, TaskInv, Records, Replaced, Live
<1> QED
  BY <1>1, RecordCall, RecordRun, RecordControl DEF Next

LEMMA RecordInductive ==
  ASSUME Application
  PROVE  Spec => []RecordInv
<1>1. RecordInv /\ [Next]_vars => RecordInv'
  BY RecordStep
<1> QED
  BY <1>1, RecordInit, PTL DEF Spec

\* For every set of tasks, addresses, sizes and names and every size of the
\* table: however traced malloc, free and module_realloc calls interleave, and
\* although the heap gives a freed address to the next task at once, no address
\* ever has two records.
THEOREM OneRecord ==
  ASSUME Application
  PROVE  Spec => []OneRecordPerBlock
  BY RecordInductive, RecordInvImplies, PTL

\* Under the same conditions every record of the table describes a block that
\* exists, with its present size, except the one a realloc inside the mutex is
\* about to replace.
THEOREM RecordsAreTrue ==
  ASSUME Application
  PROVE  Spec => []RecordsDescribeBlocks
  BY RecordInductive, RecordInvImplies, PTL

-----------------------------------------------------------------------------
(* The leak report.  Two more conditions than for the records: the table   *)
(* was never full, and no resize fails - one inside the mutex that does    *)
(* removes the record of the block and does not put it back.  What is      *)
(* traced is recorded, except between removing a record and freeing its    *)
(* block or recording it anew; what is recorded is traced, except while a  *)
(* realloc has moved it.                                                   *)

Exact == Application /\ (ReallocNames = {} \/ MayFail = FALSE)

Between(a) ==
  \E t \in Task : \/ task[t].pc = "kfree" /\ task[t].addr = a
                  \/ task[t].pc = "radd" /\ task[t].new = a

MovedOK(k) ==
  /\ k.pc = "rremove" /\ k.addr \notin {NoAddr, k.new} => heap[k.addr].traced = FALSE
  /\ k.pc \in {"rremove", "radd"} /\ k.new = NoAddr => k.addr = NoAddr
  /\ k.pc \in ReallocPc => MayFail = FALSE

Covered ==
  NothingLost =>
    \A a \in Block :
      /\ heap[a].traced => Recorded(mt.items, a) \/ Between(a)
      /\ Recorded(mt.items, a) => heap[a].traced \/ Replaced(a)

TracedInv ==
  /\ Covered
  /\ \A t \in Task : MovedOK(task[t])
  /\ mtState = "null" => \A a \in Block : heap[a].traced = FALSE

LEMMA TracedIsReported == RecordInv /\ TracedInv => LeakReportExact
<1> SUFFICES ASSUME RecordInv, TracedInv, Settled, NothingLost PROVE LeakReportExact
  BY DEF LeakReportExact
<1>1. \A t \in Task : task[t].pc = "idle"
  BY DEF Settled, AllIdle
<1>2. \A a \in Block : ~ Between(a) /\ ~ Replaced(a)
  BY <1>1 DEF Between, Replaced
<1>3. \A a \in Block : heap[a].traced <=> Recorded(mt.items, a)
  BY <1>2 DEF TracedInv, Covered, RecordInv, TypeInv, HeapOK, HeapRec
<1>4. \A i \in DOMAIN mt.items :
        mt.items[i].addr \in Block /\ mt.items[i].size = heap[mt.items[i].addr].size
  <2> TAKE i \in DOMAIN mt.items
  <2>1. mt.items[i].addr \in Block
    BY RecordType DEF RecordInv, TypeInv, Item
  <2> QED BY <1>2, <2>1 DEF RecordInv, Records
<1>5. \A i \in DOMAIN mt.items : Recorded(mt.items, mt.items[i].addr)
  BY DEF Recorded
<1>6. {<<mt.items[i].addr, mt.items[i].size>> : i \in DOMAIN mt.items}
        = {<<a, heap[a].size>> : a \in {b \in Block : heap[b].traced}}
  <2>1. ASSUME NEW i \in DOMAIN mt.items
        PROVE  <<mt.items[i].addr, mt.items[i].size>>
                 \in {<<a, heap[a].size>> : a \in {b \in Block : heap[b].traced}}
    BY <1>3, <1>4, <1>5
  <2>2. ASSUME NEW a \in Block, heap[a].traced
        PROVE  <<a, heap[a].size>> \in {<<mt.items[i].addr, mt.items[i].size>> : i \in DOMAIN mt.items}
    <3>1. PICK i \in DOMAIN mt.items : mt.items[i].addr = a
      BY <1>3, <2>2 DEF Recorded
    <3> QED BY <1>4, <3>1
  <2> QED BY <2>1, <2>2
<1> QED
  BY <1>6, RecordInvImplies DEF LeakReportExact

\* A call begins, or moves on, and a block is at most handed out.
LEMMA TracedMoves ==
  ASSUME RecordInv, TracedInv, NEW t \in Task, NEW n, task' = [task EXCEPT ![t] = n],
         mtState' = "ready", UNCHANGED <<lost, mt>>,
         task[t].pc \notin {"kfree", "rremove", "radd"}, n.pc \notin {"rremove", "radd"},
         n.pc \in ReallocPc => MayFail = FALSE,
         \A a \in Block :
           \/ heap'[a].traced = heap[a].traced
           \/ heap'[a].traced = FALSE /\ (Recorded(mt.items, a) => Replaced(a))
  PROVE  TracedInv'
<1> USE DEF RecordInv, TypeInv
<1>1. task'[t] = n /\ \A u \in Task \ {t} : task'[u] = task[u]
  BY DEF TasksOK
<1>2. \A a : (Between(a) => Between(a)') /\ (Replaced(a) => Replaced(a)')
  BY <1>1 DEF Between, Replaced
<1>3. Covered'
  BY <1>2 DEF TracedInv, Covered, NothingLost
<1>4. ASSUME NEW u \in Task PROVE MovedOK(task[u])'
  <2>1. CASE u = t
    BY <1>1, <2>1 DEF MovedOK
  <2>2. CASE u # t
    <3>1. MovedOK(task[u]) /\ task'[u] = task[u]
      BY <1>1, <2>2 DEF TracedInv
    <3>2. task[u].pc = "rremove" /\ task[u].addr # NoAddr => task[u].addr \in Block
      BY DEF TasksOK, TaskRec
    <3> QED BY <3>1, <3>2 DEF MovedOK
  <2> QED BY <2>1, <2>2
<1> QED
  BY <1>3, <1>4 DEF TracedInv

LEMMA TracedUntraced ==
  ASSUME RecordInv, RecordInv', \A a \in Block : heap'[a].traced = FALSE,
         mt'.items = <<>>, \A t \in Task : task'[t].pc = "idle"
  PROVE  TracedInv'
<1>1. \A a : ~ Recorded(mt'.items, a)
  BY DEF Recorded
<1>2. Covered'
  BY <1>1 DEF Covered
<1> QED
  BY <1>2 DEF TracedInv, MovedOK, ReallocPc

LEMMA TracedCall ==
  ASSUME Exact, RecordInv, RecordInv', TracedInv, NEW t \in Task, Call(t)
  PROVE  TracedInv'
<1> USE DEF RecordInv, TypeInv
<1>1. MayCall(t) /\ UNCHANGED <<mt, traceVars, holder, lost>>
  BY Zenon DEF Call, CallAlloc, CallFree, CallRealloc, CallTrack, CallUntrack, CallQuery
<1>2. ctl = "idle" /\ task[t].pc = "idle"
  BY <1>1 DEF MayCall, Exact, Application
<1>3. CASE mtState = "null"
  <2>1. ~ typeSet /\ lib = "kept" /\ mt.items = <<>>
    BY <1>2, <1>3 DEF PhaseOK
  <2>2. UNCHANGED task
    BY <2>1 DEF Call, CallAlloc, CallFree, CallRealloc, CallTrack, CallUntrack, CallQuery, Traced
  <2>3. \A u \in Task : task'[u].pc = "idle"
    BY <1>3, <2>2 DEF PhaseOK
  <2>4. \A a \in Block : heap[a].traced = FALSE
    BY <1>3 DEF TracedInv
  <2>5. \A a \in Block : heap'[a].traced = FALSE
    <3>1. ASSUME NEW name, NEW size, NEW a \in Addr, Hand(a, size, name, FALSE)
          PROVE  \A b \in Block : heap'[b].traced = FALSE
      BY <2>4, <3>1 DEF Hand, HeapOK
    <3>2. ASSUME NEW a \in Block, heap' = [heap EXCEPT ![a] = Free]
          PROVE  \A b \in Block : heap'[b].traced = FALSE
      BY <2>4, <3>2 DEF Free, HeapOK
    <3>3. ASSUME NEW a, NEW size, NEW name, NEW new, KeptRealloc(a, size, name, new)
          PROVE  \A b \in Block : heap'[b].traced = FALSE
      <4> SUFFICES ASSUME NEW b \in Block, ~ UNCHANGED heap PROVE heap'[b].traced = FALSE
        BY <2>4
      <4>1. (new = a /\ heap[b].traced) = FALSE
        BY <2>4
      <4>2. heap'[b] = CASE b = new -> [size |-> size, name |-> name,
                                        traced |-> new = a /\ heap[b].traced]
                         [] b = a /\ a # new -> Free
                         [] OTHER -> heap[b]
        BY <3>3 DEF KeptRealloc
      <4>3. CASE b = new
        <5>1. heap'[b] = [size |-> size, name |-> name, traced |-> new = a /\ heap[b].traced]
          BY <4>2, <4>3
        <5>2. heap'[b] = [size |-> size, name |-> name, traced |-> FALSE]
          BY <4>1, <5>1, Zenon
        <5> QED BY <5>2
      <4>4. CASE b # new
        <5>1. heap'[b] = Free \/ heap'[b] = heap[b]
          BY <4>2, <4>4
        <5> QED BY <2>4, <5>1 DEF Free
      <4> QED BY <4>3, <4>4
    <3>4. \A a : a \in Addr \/ a \in Extern => a \in Block
      BY DEF Block
    <3>5. ASSUME NEW name \in AllocNames, NEW size \in Size, CallAlloc(t, name, size)
          PROVE  \A b \in Block : heap'[b].traced = FALSE
      BY <2>1, <2>4, <3>1, <3>5 DEF CallAlloc, Traced
    <3>6. ASSUME NEW a \in Addr, CallFree(t, a)
          PROVE  \A b \in Block : heap'[b].traced = FALSE
      BY <2>1, <3>2, <3>4, <3>6 DEF CallFree
    <3>7. ASSUME NEW name \in ReallocNames, NEW a \in Addr \cup {NoAddr}, NEW size \in Size,
                 CallRealloc(t, name, a, size)
          PROVE  \A b \in Block : heap'[b].traced = FALSE
      BY <2>1, <3>3, <3>7 DEF CallRealloc
    <3>8. ASSUME NEW a \in Extern, CallUntrack(t, a)
          PROVE  \A b \in Block : heap'[b].traced = FALSE
      BY <2>1, <3>2, <3>4, <3>8 DEF CallUntrack
    <3> QED BY <2>1, <3>5, <3>6, <3>7, <3>8 DEF Call, CallTrack, CallQuery
  <2> QED BY <1>1, <2>1, <2>3, <2>5, TracedUntraced
<1>4. CASE mtState # "null"
  <2>1. mtState = "ready" /\ typeSet /\ lib = "trace" /\ mtState' = "ready"
    BY <1>1, <1>2, <1>4 DEF PhaseOK, traceVars
  <2>2. \E n : /\ task' = [task EXCEPT ![t] = n] /\ n.pc \notin {"rremove", "radd"}
               /\ n.pc \in ReallocPc => MayFail = FALSE
    <3> DEFINE Moved == \E n : /\ task' = [task EXCEPT ![t] = n]
                               /\ n.pc \notin {"rremove", "radd"}
                               /\ n.pc \in ReallocPc => MayFail = FALSE
    <3>1. ASSUME NEW pc \in {"kmalloc", "remove", "mlock", "add", "untrack", "query"},
                 pc = "mlock" => MayFail = FALSE,
                 NEW a, NEW b, NEW size, NEW name, Goto(t, pc, a, b, size, name)
          PROVE  Moved
      <4> DEFINE n == [pc |-> pc, addr |-> a, new |-> b, size |-> size, name |-> name]
      <4>1. /\ task' = [task EXCEPT ![t] = n] /\ n.pc \notin {"rremove", "radd"}
            /\ n.pc \in ReallocPc => MayFail = FALSE
        BY <3>1 DEF Goto, ReallocPc
      <4> QED BY <4>1
    <3> HIDE DEF Moved
    <3>2. ASSUME NEW name \in ReallocNames, NEW a, NEW size, CallRealloc(t, name, a, size)
          PROVE  Moved
      <4>1. Goto(t, "mlock", a, NoAddr, size, name) /\ MayFail = FALSE
        BY <2>1, <3>2 DEF CallRealloc, Exact, Application
      <4> QED BY <3>1, <4>1
    <3>3. ASSUME NEW name, NEW size, CallAlloc(t, name, size)
          PROVE  Moved
      <4>1. Goto(t, "kmalloc", NoAddr, NoAddr, size, NameIn(name))
        BY <2>1, <3>3 DEF CallAlloc, Traced
      <4> QED BY <3>1, <4>1
    <3>4. ASSUME NEW a, CallFree(t, a)
          PROVE  Moved
      <4>1. Goto(t, "remove", a, NoAddr, 0, NoModule)
        BY <2>1, <3>4 DEF CallFree
      <4> QED BY <3>1, <4>1
    <3>5. ASSUME NEW a, CallUntrack(t, a)
          PROVE  Moved
      <4>1. Goto(t, "untrack", a, NoAddr, 0, NoModule)
        BY <2>1, <3>5 DEF CallUntrack
      <4> QED BY <3>1, <4>1
    <3>6. ASSUME NEW name, NEW a, NEW size, CallTrack(t, name, a, size)
          PROVE  Moved
      BY <3>1, <3>6 DEF CallTrack
    <3>7. ASSUME CallQuery(t)
          PROVE  Moved
      BY <3>1, <3>7 DEF CallQuery
    <3>8. Moved
      BY <3>2, <3>3, <3>4, <3>5, <3>6, <3>7 DEF Call
    <3> QED BY <3>8 DEF Moved
  <2>3. ASSUME NEW name \in AllocNames, NEW a \in Extern, NEW size \in Size,
               CallTrack(t, name, a, size)
        PROVE  \A b \in Block :
                 \/ heap'[b].traced = heap[b].traced
                 \/ heap'[b].traced = FALSE /\ (Recorded(mt.items, b) => Replaced(b))
    <3>1. a \in Block /\ ~ Live(a)
      BY <2>3 DEF CallTrack, Block
    <3>2. Recorded(mt.items, a) => Replaced(a)
      BY <3>1, UnusedAddress
    <3>3. \A b \in Block : heap'[b] = IF b = a THEN [size |-> size, name |-> name, traced |-> FALSE]
                                      ELSE heap[b]
      BY <2>3 DEF CallTrack, Hand, HeapOK
    <3> QED BY <3>2, <3>3
  <2>4. \/ UNCHANGED heap
        \/ \E name \in AllocNames, a \in Extern, size \in Size : CallTrack(t, name, a, size)
    BY <2>1 DEF Call, CallAlloc, CallFree, CallRealloc, CallUntrack, CallQuery, Traced,
                Exact, Application
  <2>5. \A b \in Block :
          \/ heap'[b].traced = heap[b].traced
          \/ heap'[b].traced = FALSE /\ (Recorded(mt.items, b) => Replaced(b))
    BY <2>3, <2>4
  <2>6. PICK n : /\ task' = [task EXCEPT ![t] = n] /\ n.pc \notin {"rremove", "radd"}
                 /\ n.pc \in ReallocPc => MayFail = FALSE
    BY <2>2
  <2> QED BY <1>1, <1>2, <2>1, <2>5, <2>6, TracedMoves
<1> QED
  BY <1>3, <1>4

\* remove_trace(a) leaves the records of the other blocks where they are, or moves them.
LEMMA OthersStayRecorded ==
  ASSUME TableOK, NEW a, mt' = RemoveTrace(mt, a), NEW b, b # a, Recorded(mt.items, b)
  PROVE  Recorded(mt'.items, b)
<1>0. mt.items \in Seq(Item) /\ DOMAIN mt.items = 1 .. Len(mt.items)
  BY DEF TableOK, Table
<1>1. CASE mt' = mt
  BY <1>1
<1>2. ASSUME NEW i \in DOMAIN mt.items, mt.items[i].addr = a,
             mt'.items = SwapRemove(mt.items, i)
      PROVE  Recorded(mt'.items, b)
  <2>1. PICK k \in DOMAIN mt.items : mt.items[k].addr = b
    BY DEF Recorded
  <2>2. /\ DOMAIN mt'.items = 1 .. Len(mt.items) - 1
        /\ \A j \in 1 .. Len(mt.items) - 1 :
             mt'.items[j] = mt.items[IF j = i THEN Len(mt.items) ELSE j]
    BY <1>0, <1>2, SwapRemoveKeeps
  <2> DEFINE j == IF k = Len(mt.items) THEN i ELSE k
  <2>3. j \in DOMAIN mt'.items /\ mt'.items[j] = mt.items[k]
    BY <1>0, <1>2, <2>1, <2>2
  <2> QED BY <2>1, <2>3 DEF Recorded
<1> QED
  BY <1>1, <1>2, RemoveTraceIs DEF TableOK, Uncounted

\* The block is recorded, or counted as lost.
LEMMA TracedAdded ==
  ASSUME RecordInv, TracedInv, NEW t \in Task, task[t].pc \in {"add", "radd"},
         mtState' = "ready", Return(t), task[t].new \in Block, \A a : ~ Replaced(a),
         AddTrace(task[t].name, task[t].new, task[t].size),
         heap' = [heap EXCEPT ![task[t].new].traced = TRUE]
  PROVE  TracedInv'
<1> USE DEF RecordInv, TypeInv
<1> DEFINE new == task[t].new
           size == task[t].size
<1>1. size \in Size /\ task[t].name \in Names
  BY DEF TasksOK, ArgsOK, TaskRec, ReallocPc
<1>2. task'[t] = Idle /\ Idle.pc = "idle" /\ \A u \in Task \ {t} : task'[u] = task[u]
  BY DEF Return, Idle, TasksOK
<1>3. \A b \in Block : heap'[b].traced = IF b = new THEN TRUE ELSE heap[b].traced
  BY DEF HeapOK, HeapRec
<1>4. ASSUME NothingLost'
      PROVE  /\ NothingLost
             /\ \A b : Recorded(mt'.items, b) <=> Recorded(mt.items, b) \/ b = new
  <2>1. PICK ok \in {TRUE} \cup {~ MayFail} :
          Counted(AddMemUsage(mt, task[t].name, size, ok), new, size)
    BY <1>1, AddTraceIs
  <2> DEFINE added == AddMemUsage(mt, task[t].name, size, ok)
             r == [addr |-> new, size |-> size, id |-> added.id]
  <2>2. /\ added.id \in Ids
        /\ \/ lost' = [lost EXCEPT ![added.id] = @ + size]
           \/ mt'.items = Append(mt.items, r) /\ lost' = lost
    BY <2>1 DEF Counted
  <2>3. r.addr = new
    OBVIOUS
  <2> HIDE DEF added, r
  <2>4. ~ lost' = [lost EXCEPT ![added.id] = @ + size]
    <3>1. lost[added.id] \in Nat /\ size \in Nat /\ size > 0
      BY <1>1, <2>2, SizesPositive DEF TableOK
    <3>2. lost'[added.id] = 0
      BY <1>4, <2>2 DEF NothingLost
    <3> HIDE DEF size
    <3> QED BY <2>2, <3>1, <3>2 DEF TableOK
  <2>5. mt'.items = Append(mt.items, r) /\ NothingLost
    BY <1>4, <2>2, <2>4 DEF NothingLost
  <2>6. /\ DOMAIN mt'.items = 1 .. Len(mt.items) + 1
        /\ DOMAIN mt.items = 1 .. Len(mt.items) /\ Len(mt.items) \in Nat
        /\ \A i \in 1 .. Len(mt.items) : mt'.items[i] = mt.items[i]
        /\ mt'.items[Len(mt.items) + 1] = r
    BY <2>5 DEF TableOK, Table
  <2>7. ASSUME NEW b PROVE Recorded(mt'.items, b) <=> Recorded(mt.items, b) \/ b = new
    <3>1. ASSUME Recorded(mt.items, b) PROVE Recorded(mt'.items, b)
      <4>1. PICK i \in DOMAIN mt.items : mt.items[i].addr = b
        BY <3>1 DEF Recorded
      <4> QED BY <2>6, <4>1 DEF Recorded
    <3>2. Recorded(mt'.items, new)
      BY <2>3, <2>6 DEF Recorded
    <3>3. ASSUME Recorded(mt'.items, b) PROVE Recorded(mt.items, b) \/ b = new
      <4>1. PICK i \in DOMAIN mt'.items : mt'.items[i].addr = b
        BY <3>3 DEF Recorded
      <4> QED BY <2>3, <2>6, <4>1 DEF Recorded
    <3> QED BY <3>1, <3>2, <3>3
  <2> QED BY <2>5, <2>7
<1>5. Covered'
  <2> SUFFICES ASSUME NothingLost', NEW b \in Block
               PROVE  /\ heap'[b].traced => Recorded(mt'.items, b) \/ Between(b)'
                      /\ Recorded(mt'.items, b) => heap'[b].traced \/ Replaced(b)'
    BY DEF Covered
  <2>1. CASE b = new
    BY <1>3, <1>4, <2>1
  <2>2. CASE b # new
    <3>1. /\ heap[b].traced => Recorded(mt.items, b) \/ Between(b)
          /\ Recorded(mt.items, b) => heap[b].traced
      BY <1>4 DEF TracedInv, Covered
    <3>2. Between(b) => Between(b)'
      BY <1>2, <2>2 DEF Between
    <3> QED BY <1>3, <1>4, <2>2, <3>1, <3>2
  <2> QED BY <2>1, <2>2
<1>6. ASSUME NEW u \in Task PROVE MovedOK(task[u])'
  <2>1. CASE u = t
    BY <1>2, <2>1 DEF MovedOK, ReallocPc
  <2>2. CASE u # t
    BY <1>2, <2>2 DEF MovedOK, TracedInv, Replaced, ReallocPc
  <2> QED BY <2>1, <2>2
<1> QED
  BY <1>5, <1>6 DEF TracedInv

\* The record goes, and the block is about to.
LEMMA TracedLockedRemove ==
  ASSUME RecordInv, TracedInv, NEW t \in Task, LockedRemove(t), mtState = "ready"
  PROVE  TracedInv'
<1> USE DEF RecordInv, TypeInv
<1>1. /\ task'[t].pc = "kfree" /\ task'[t].addr = task[t].addr
      /\ \A u \in Task \ {t} : task'[u] = task[u]
      /\ task[t].pc = "remove"
      /\ UNCHANGED <<heap, lost, mtState>>
  BY DEF LockedRemove, Step, TasksOK, TaskRec, traceVars
<1>2. \A a : ~ Replaced(a)
  BY NobodyInside DEF LockedRemove
<1>3. /\ \A b : Recorded(mt'.items, b) => Recorded(mt.items, b)
      /\ \A b : b # task[t].addr /\ Recorded(mt.items, b) => Recorded(mt'.items, b)
  BY RecordsLeft, OthersStayRecorded DEF LockedRemove
<1>4. \A b : Between(b) \/ b = task[t].addr => Between(b)'
  BY <1>1 DEF Between
<1>5. Covered'
  BY <1>1, <1>2, <1>3, <1>4 DEF TracedInv, Covered, NothingLost
<1>6. \A u \in Task : MovedOK(task[u])'
  BY <1>1 DEF TracedInv, MovedOK, ReallocPc
<1> QED
  BY <1>1, <1>5, <1>6 DEF TracedInv

\* The block goes, and its record has gone.
LEMMA TracedFreed ==
  ASSUME RecordInv, TracedInv, NEW t \in Task, task[t].pc \in {"kfree", "untrack"},
         mtState' = "ready", lost' = lost, Return(t),
         ~ Recorded(mt'.items, task[t].addr),
         \A b : Recorded(mt'.items, b) => Recorded(mt.items, b),
         \A b : b # task[t].addr /\ Recorded(mt.items, b) => Recorded(mt'.items, b),
         heap' = [heap EXCEPT ![task[t].addr] = Free]
  PROVE  TracedInv'
<1> USE DEF RecordInv, TypeInv
<1> DEFINE a == task[t].addr
<1>1. task'[t].pc = "idle" /\ \A u \in Task \ {t} : task'[u] = task[u]
  BY DEF Return, Idle, TasksOK
<1>2. \A b \in Block : heap'[b].traced = IF b = a THEN FALSE ELSE heap[b].traced
  BY DEF HeapOK, Free
<1>3. \A b : b # a /\ Between(b) => Between(b)'
  BY <1>1 DEF Between
<1>4. \A b : Replaced(b) => Replaced(b)'
  BY <1>1 DEF Replaced
<1>5. Covered'
  BY <1>2, <1>3, <1>4 DEF TracedInv, Covered, NothingLost
<1>6. ASSUME NEW u \in Task PROVE MovedOK(task[u])'
  <2>1. CASE u = t
    BY <1>1, <2>1 DEF MovedOK, ReallocPc
  <2>2. CASE u # t
    <3>1. MovedOK(task[u]) /\ task'[u] = task[u]
      BY <1>1, <2>2 DEF TracedInv
    <3>2. task[u].pc = "rremove" /\ task[u].addr # NoAddr => task[u].addr \in Block
      BY DEF TasksOK, TaskRec
    <3> QED BY <1>2, <3>1, <3>2 DEF MovedOK, ReallocPc
  <2> QED BY <2>1, <2>2
<1> QED
  BY <1>5, <1>6 DEF TracedInv

\* The heap moves the block, resizes it in place, or hands out a first one.
LEMMA TracedDoRealloc ==
  ASSUME RecordInv, TracedInv, NEW t \in Task, DoRealloc(t), mtState = "ready"
  PROVE  TracedInv'
<1> USE DEF RecordInv, TypeInv
<1> DEFINE a == task[t].addr
           size == task[t].size
<1>1. task[t].pc = "mrealloc" /\ a \in Addr \cup {NoAddr}
  BY DEF DoRealloc, TaskInv, TasksOK, ArgsOK, ReallocPc
<1>2. PICK new \in Addr \cup {NoAddr} :
        /\ KeptRealloc(a, size, task[t].name, new)
        /\ task' = [task EXCEPT ![t].new = new, ![t].pc = "rremove"]
  BY <1>1 DEF DoRealloc
<1>3. /\ task'[t].pc = "rremove" /\ task'[t].addr = a /\ task'[t].new = new
      /\ \A u \in Task \ {t} : task'[u] = task[u]
      /\ UNCHANGED <<mt, lost, mtState>>
  BY <1>2 DEF DoRealloc, TasksOK, TaskRec, traceVars
<1>4. /\ \A u \in Task : task[u].pc \in InMutex => u = t
      /\ \A b : ~ Replaced(b)
  BY <1>1, OnlyHolderInside DEF InMutex
<1>4a. MayFail = FALSE
  BY <1>1 DEF TracedInv, MovedOK, ReallocPc
<1>5. /\ new = NoAddr => a = NoAddr
      /\ new # NoAddr => new \in Block /\ (new = a \/ ~ Live(new))
      /\ \A b \in Block : /\ heap'[b].traced \in BOOLEAN
                          /\ heap'[b].traced <=> heap[b].traced /\ (b = new <=> b = a)
  <2>1. CASE new = NoAddr /\ a = NoAddr /\ UNCHANGED heap
    BY <2>1 DEF HeapOK, HeapRec
  <2>2. CASE /\ new \in Addr /\ (new = a \/ ~ Live(new))
             /\ heap' = [b \in Block |->
                   CASE b = new -> [size |-> size, name |-> task[t].name,
                                    traced |-> new = a /\ heap[b].traced]
                     [] b = a /\ a # new -> Free
                     [] OTHER -> heap[b]]
    <3>1. new \in Block /\ new # NoAddr
      BY <2>2, Constants DEF Block
    <3>2. ASSUME NEW b \in Block
          PROVE  /\ heap'[b].traced \in BOOLEAN
                 /\ heap'[b].traced <=> heap[b].traced /\ (b = new <=> b = a)
      <4> DEFINE tr == new = a /\ heap[b].traced
      <4>0. heap[b].traced \in BOOLEAN /\ tr \in BOOLEAN
        BY DEF HeapOK, HeapRec
      <4>1. heap'[b] = CASE b = new -> [size |-> size, name |-> task[t].name, traced |-> tr]
                         [] b = a /\ a # new -> Free
                         [] OTHER -> heap[b]
        BY <2>2
      <4>2. CASE b = new
        <5>1. heap'[b] = [size |-> size, name |-> task[t].name, traced |-> tr]
          BY <4>1, <4>2
        <5>2. tr <=> heap[b].traced /\ (b = new <=> b = a)
          BY <4>2
        <5> HIDE DEF tr
        <5>3. heap'[b].traced = tr
          BY <4>0, <5>1
        <5> QED BY <4>0, <5>2, <5>3, Zenon
      <4>3. CASE b # new /\ b = a
        <5>1. heap'[b] = Free
          <6> HIDE DEF tr
          <6> QED BY <4>1, <4>3
        <5> QED BY <4>3, <5>1 DEF Free
      <4>4. CASE b # new /\ b # a
        <5>1. heap'[b] = heap[b]
          BY <4>1, <4>4
        <5> QED BY <4>0, <4>4, <5>1
      <4> QED BY <4>2, <4>3, <4>4
    <3> QED BY <2>2, <3>1, <3>2
  <2> QED BY <1>2, <1>4a, <2>1, <2>2 DEF KeptRealloc
<1>6. \A b : Between(b) => Between(b)'
  BY <1>1, <1>3 DEF Between
<1>7. \A b : b = a => Replaced(b)'
  BY <1>3 DEF Replaced
<1>8. new \notin {NoAddr, a} => ~ Recorded(mt.items, new)
  BY <1>4, <1>5, UnusedAddress
<1>9. Covered'
  <2> SUFFICES ASSUME NothingLost', NEW b \in Block
               PROVE  /\ heap'[b].traced => Recorded(mt'.items, b) \/ Between(b)'
                      /\ Recorded(mt'.items, b) => heap'[b].traced \/ Replaced(b)'
    BY DEF Covered
  <2>1. /\ heap[b].traced => Recorded(mt.items, b) \/ Between(b)
        /\ Recorded(mt.items, b) => heap[b].traced
    BY <1>3, <1>4 DEF TracedInv, Covered, NothingLost
  <2>2. mt' = mt
    BY <1>3
  <2>3. b # NoAddr
    BY Constants DEF Block
  <2>4. heap'[b].traced <=> heap[b].traced /\ (b = new <=> b = a)
    BY <1>5
  <2>5. Recorded(mt.items, b) /\ b = new => b = a
    BY <1>8, <2>3, Zenon
  <2>6. b = a => Replaced(b)'
    BY <1>7
  <2>7. Between(b) => Between(b)'
    BY <1>6
  <2> QED BY <2>1, <2>2, <2>4, <2>5, <2>6, <2>7
<1>10. ASSUME NEW u \in Task PROVE MovedOK(task[u])'
  <2>1. CASE u = t
    <3>1. a # NoAddr => a \in Block
      BY <1>1 DEF Block
    <3> QED BY <1>3, <1>4a, <1>5, <2>1, <3>1 DEF MovedOK
  <2>2. CASE u # t
    <3>1. MovedOK(task[u]) /\ task'[u] = task[u] /\ task[u].pc \notin InMutex
      BY <1>3, <1>4, <2>2 DEF TracedInv
    <3> QED BY <3>1 DEF MovedOK, InMutex
  <2> QED BY <2>1, <2>2
<1> QED
  BY <1>3, <1>9, <1>10 DEF TracedInv

\* The record of the old block goes; the new one is about to be recorded.
LEMMA TracedReallocRemove ==
  ASSUME RecordInv, TracedInv, NEW t \in Task, ReallocRemove(t), mtState = "ready"
  PROVE  TracedInv'
<1> USE DEF RecordInv, TypeInv
<1> DEFINE a == task[t].addr
<1>1. /\ task'[t].pc = "radd" /\ task'[t].addr = a /\ task'[t].new = task[t].new
      /\ \A u \in Task \ {t} : task'[u] = task[u]
      /\ task[t].pc = "rremove"
      /\ UNCHANGED <<heap, lost, mtState>>
  BY DEF ReallocRemove, Step, TasksOK, TaskRec, traceVars
<1>2. /\ \A u \in Task : task[u].pc \in InMutex => u = t
      /\ \A b : Replaced(b) => b = a
  BY <1>1, OnlyHolderInside DEF InMutex
<1>3. /\ \A b : Recorded(mt'.items, b) => Recorded(mt.items, b)
      /\ \A b : b # a /\ Recorded(mt.items, b) => Recorded(mt'.items, b)
      /\ ~ Recorded(mt'.items, a)
  <2>1. CASE a = NoAddr
    <3>1. mt' = mt
      BY <2>1 DEF ReallocRemove
    <3>2. \A i \in DOMAIN mt.items : mt.items[i].addr # NoAddr
      BY RecordType, Constants DEF Item, Block
    <3> QED BY <2>1, <3>1, <3>2 DEF Recorded
  <2>2. CASE a # NoAddr
    BY <2>2, RecordsLeft, OthersStayRecorded DEF ReallocRemove
  <2> QED BY <2>1, <2>2
<1>4. \A b : Between(b) => Between(b)'
  BY <1>1 DEF Between
<1>5. a \in Block /\ heap[a].traced => Between(a)'
  <2> SUFFICES ASSUME a \in Block, heap[a].traced PROVE Between(a)'
    OBVIOUS
  <2>1. a # NoAddr
    BY Constants DEF Block
  <2>2. MovedOK(task[t])
    BY DEF TracedInv
  <2>3. task[t].new = a
    BY <1>1, <2>1, <2>2 DEF MovedOK, ReallocPc
  <2> QED BY <1>1, <2>3 DEF Between
<1>6. Covered'
  BY <1>1, <1>2, <1>3, <1>4, <1>5 DEF TracedInv, Covered, NothingLost
<1>7. ASSUME NEW u \in Task PROVE MovedOK(task[u])'
  <2>1. CASE u = t
    BY <1>1, <2>1 DEF TracedInv, MovedOK, ReallocPc
  <2>2. CASE u # t
    BY <1>1, <1>2, <2>2 DEF TracedInv, MovedOK, InMutex, ReallocPc
  <2> QED BY <2>1, <2>2
<1> QED
  BY <1>1, <1>6, <1>7 DEF TracedInv

LEMMA TracedRun ==
  ASSUME RecordInv, TracedInv, NEW t \in Task, Run(t)
  PROVE  TracedInv'
<1> USE DEF RecordInv, TypeInv
<1>1. ctl = "idle" /\ mtState = "ready" /\ mtState' = "ready"
  <2>1. ctl = "idle" /\ mtState = "ready"
    BY InACall
  <2>2. mtState' = mtState
    BY Zenon DEF Run, KeptMalloc, LockedAdd, LockedRemove, KeptFree, LockedUntrack,
             DoRealloc, ReallocLock, ReallocRemove, ReallocAdd, QueryRead, traceVars
  <2> QED BY <2>1, <2>2
<1>2. CASE KeptMalloc(t)
  <2>1. UNCHANGED <<lost, mt>> /\ task[t].pc = "kmalloc"
    BY <1>2 DEF KeptMalloc
  <2>2. ASSUME NEW a \in Addr, ~ Live(a), Hand(a, task[t].size, task[t].name, FALSE),
               task' = [task EXCEPT ![t].pc = "add", ![t].new = a]
        PROVE  TracedInv'
    <3> DEFINE n == [task[t] EXCEPT !.pc = "add", !.new = a]
    <3>1. task' = [task EXCEPT ![t] = n] /\ n.pc = "add"
      BY <2>2 DEF TasksOK, TaskRec
    <3>2. a \in Block
      BY DEF Block
    <3>3. Recorded(mt.items, a) => Replaced(a)
      BY <2>2, <3>2, UnusedAddress
    <3>4. \A b \in Block :
            heap'[b] = IF b = a THEN [size |-> task[t].size, name |-> task[t].name, traced |-> FALSE]
                       ELSE heap[b]
      BY <2>2 DEF Hand, HeapOK
    <3>5. \A b \in Block :
            \/ heap'[b].traced = heap[b].traced
            \/ heap'[b].traced = FALSE /\ (Recorded(mt.items, b) => Replaced(b))
      BY <3>3, <3>4
    <3> HIDE DEF n
    <3> QED BY <1>1, <2>1, <3>1, <3>5, TracedMoves DEF ReallocPc
  <2>3. CASE UNCHANGED heap /\ Return(t)
    <3>1. task' = [task EXCEPT ![t] = Idle] /\ Idle.pc = "idle"
      BY <2>3 DEF Return, Idle
    <3> QED BY <1>1, <2>1, <2>3, <3>1, TracedMoves DEF ReallocPc
  <2> QED BY <1>2, <2>2, <2>3 DEF KeptMalloc
<1>3. CASE LockedAdd(t)
  <2>1. task[t].new \in Block /\ \A a : ~ Replaced(a)
    BY <1>1, <1>3, NobodyInside DEF LockedAdd, TasksOK, ArgsOK
  <2> QED BY <1>1, <1>3, <2>1, TracedAdded DEF LockedAdd
<1>4. CASE LockedRemove(t)
  BY <1>1, <1>4, TracedLockedRemove
<1>5. CASE KeptFree(t)
  BY <1>1, <1>5, TracedFreed DEF KeptFree, TaskInv
<1>6. CASE LockedUntrack(t)
  <2>1. mt' = RemoveTrace(mt, task[t].addr)
    BY <1>6 DEF LockedUntrack
  <2>2. /\ ~ Recorded(mt'.items, task[t].addr)
        /\ \A b : Recorded(mt'.items, b) => Recorded(mt.items, b)
        /\ \A b : b # task[t].addr /\ Recorded(mt.items, b) => Recorded(mt'.items, b)
    BY <2>1, RecordsLeft, OthersStayRecorded
  <2> QED BY <1>1, <1>6, <2>2, TracedFreed DEF LockedUntrack
<1>7. CASE DoRealloc(t)
  BY <1>1, <1>7, TracedDoRealloc
<1>8. CASE ReallocLock(t)
  <2> DEFINE n == [task[t] EXCEPT !.pc = "mrealloc"]
  <2>1. task[t].pc = "mlock"
    BY <1>8 DEF ReallocLock, TaskInv
  <2>2. task' = [task EXCEPT ![t] = n] /\ n.pc = "mrealloc" /\ UNCHANGED <<heap, lost, mt>>
    BY <1>8, <2>1 DEF ReallocLock, Step, TasksOK, TaskRec
  <2>3. MayFail = FALSE
    BY <2>1 DEF TracedInv, MovedOK, ReallocPc
  <2> HIDE DEF n
  <2> QED BY <1>1, <2>1, <2>2, <2>3, TracedMoves
<1>9. CASE ReallocRemove(t)
  BY <1>1, <1>9, TracedReallocRemove
<1>10. CASE ReallocAdd(t)
  <2>1. task[t].pc = "radd" /\ \A a : ~ Replaced(a)
    BY <1>10, OnlyHolderInside DEF ReallocAdd, InMutex
  <2>2. CASE task[t].new # NoAddr
    <3>1. task[t].new \in Block
      BY <2>2 DEF TasksOK, TaskRec
    <3> QED BY <1>1, <1>10, <2>1, <2>2, <3>1, TracedAdded DEF ReallocAdd
  <2>3. CASE task[t].new = NoAddr
    <3>1. /\ UNCHANGED <<heap, mt, lost>>
          /\ task'[t].pc = "idle" /\ \A u \in Task \ {t} : task'[u] = task[u]
      BY <1>10, <2>3 DEF ReallocAdd, Return, Idle, TasksOK
    <3>2. ASSUME NEW a \in Block PROVE Between(a) => Between(a)'
      <4>1. a # NoAddr
        BY Constants DEF Block
      <4> QED BY <2>1, <2>3, <3>1, <4>1 DEF Between
    <3>3. Covered'
      BY <2>1, <3>1, <3>2 DEF TracedInv, Covered, NothingLost
    <3>4. \A u \in Task : MovedOK(task[u])'
      BY <3>1 DEF TracedInv, MovedOK, ReallocPc
    <3> QED BY <1>1, <3>3, <3>4 DEF TracedInv
  <2> QED BY <2>2, <2>3
<1>11. CASE QueryRead(t)
  <2>1. task' = [task EXCEPT ![t] = Idle] /\ Idle.pc = "idle"
        /\ UNCHANGED <<heap, mt, lost>> /\ task[t].pc = "query"
    BY <1>11 DEF QueryRead, Return, Idle
  <2> QED BY <1>1, <2>1, TracedMoves DEF ReallocPc
<1> QED
  BY <1>2, <1>3, <1>4, <1>5, <1>6, <1>7, <1>8, <1>9, <1>10, <1>11 DEF Run

LEMMA TracedControl ==
  ASSUME RecordInv, RecordInv', TracedInv, Control
  PROVE  TracedInv'
<1> USE DEF RecordInv, TypeInv
<1>1. UNCHANGED task
  BY Zenon DEF Control, StartConfig, StartNum, StartInstall, StopType, StopRestore, StopMutex,
               StopFree
<1>2. CASE StartConfig
  <2>1. \A a \in Block : heap'[a].traced = FALSE
    BY <1>2 DEF StartConfig, TracedInv
  <2>2. mt'.items = <<>> /\ \A t \in Task : task'[t].pc = "idle"
    BY <1>1, <1>2, EmptyTable DEF StartConfig, PhaseOK
  <2> QED BY <2>1, <2>2, TracedUntraced
<1>3. CASE StopFree
  <2>1. \A a \in Block : heap'[a].traced = FALSE
    BY <1>3 DEF StopFree, HeapOK, HeapRec
  <2>2. mt'.items = <<>> /\ \A t \in Task : task'[t].pc = "idle"
    BY <1>1, <1>3, EmptyTable DEF StopFree, PhaseOK
  <2> QED BY <2>1, <2>2, TracedUntraced
<1>4. CASE StartNum \/ StartInstall \/ StopType \/ StopRestore \/ StopMutex
  <2>1. UNCHANGED <<heap, mt, lost, task>> /\ (mtState' = "null" => mtState = "null")
    BY <1>4 DEF StartNum, StartInstall, StopType, StopRestore, StopMutex
  <2> QED BY <2>1 DEF TracedInv, Covered, NothingLost, Between, Replaced, MovedOK
<1> QED
  BY <1>2, <1>3, <1>4 DEF Control

LEMMA TracedInit == Init => TracedInv
<1> SUFFICES ASSUME Init PROVE TracedInv
  OBVIOUS
<1>1. \A a \in Block : heap[a].traced = FALSE
  BY DEF Init, Free
<1>2. mt.items = <<>> /\ \A t \in Task : task[t].pc = "idle"
  BY EmptyTable DEF Init, Idle
<1>3. \A a : ~ Recorded(mt.items, a)
  BY <1>2 DEF Recorded
<1> QED
  BY <1>1, <1>2, <1>3 DEF TracedInv, Covered, MovedOK, ReallocPc

LEMMA TracedStep ==
  ASSUME Exact, RecordInv, TracedInv, [Next]_vars
  PROVE  RecordInv' /\ TracedInv'
<1>1. RecordInv'
  BY RecordStep DEF Exact
<1>2. CASE UNCHANGED vars
  <2>1. UNCHANGED <<heap, mt, lost, task, mtState>>
    BY <1>2 DEF vars
  <2>2. Covered'
    BY <2>1 DEF TracedInv, Covered, NothingLost, Between, Replaced
  <2>3. \A t \in Task : MovedOK(task[t])'
    BY <2>1 DEF TracedInv, MovedOK, ReallocPc
  <2> QED BY <1>1, <2>1, <2>2, <2>3 DEF TracedInv
<1> QED
  BY <1>1, <1>2, TracedCall, TracedRun, TracedControl DEF Next

\* For every set of tasks, addresses and sizes, if none of them resizes or no resize
\* fails:
\* between calls, if the table never was full, the leak report lists the traced
\* blocks that are alive, all of them and nothing else, each once.
THEOREM LeakReportIsExact ==
  ASSUME Exact
  PROVE  Spec => []LeakReportExact
<1>1. Init => RecordInv /\ TracedInv
  BY RecordInit, TracedInit
<1>2. RecordInv /\ TracedInv /\ [Next]_vars => (RecordInv /\ TracedInv)'
  BY TracedStep
<1>3. RecordInv /\ TracedInv => LeakReportExact
  BY TracedIsReported
<1> QED
  BY <1>1, <1>2, <1>3, PTL DEF Spec

-----------------------------------------------------------------------------
(* The usage of each module, when every call names its module, a module    *)
(* always gets its entry and no resize fails.                              *)
(*                                                                         *)
(* ModuleUsageExact is not inductive: it speaks only of the moments between *)
(* calls, and of blocks, where the code adds up records.  What each step   *)
(* keeps is that a counter is the sum of the records with its id and of the *)
(* bytes lost under it (CountEach), and that a record's id is the position *)
(* of its block's name in the list, unless a realloc holds the mutex and is *)
(* about to replace that record (NamedInv).                                *)

\* Every call names its module, there are ids for all names, and memory for all
\* entries.
Named ==
  /\ Exact
  /\ NoModule \notin AllocNames /\ MayFail = FALSE /\ TraceUsage
  /\ IsFiniteSet(Module) /\ Cardinality(Module) <= IdLimit + 1

\* A name has one entry.
Unique(list) == \A i, j \in DOMAIN list : list[i].name = list[j].name => i = j

\* The counters of an id, 0 while it has no entry.
UsageOf(list, id) == IF id + 1 \in DOMAIN list THEN list[id + 1].usage ELSE 0
PeakOf(list, id) == IF id + 1 \in DOMAIN list THEN list[id + 1].peak ELSE 0

\* What charging n bytes to `name`, whose id is at, makes of the table m; and
\* what taking them off that id makes of it.
Charged(m, new, name, at, n) ==
  /\ new.usage = Wrap(m.usage + n) /\ new.peak = MaxOf(m.peak, new.usage)
  /\ at + 1 \in DOMAIN new.modules /\ new.modules[at + 1].name = name
  /\ \A i \in DOMAIN m.modules : i \in DOMAIN new.modules /\ new.modules[i].name = m.modules[i].name
  /\ Unique(new.modules)
  /\ \A id \in Ids :
       IF id = at
       THEN /\ UsageOf(new.modules, id) = Wrap(UsageOf(m.modules, id) + n)
            /\ PeakOf(new.modules, id) = MaxOf(PeakOf(m.modules, id), UsageOf(new.modules, id))
       ELSE /\ UsageOf(new.modules, id) = UsageOf(m.modules, id)
            /\ PeakOf(new.modules, id) = PeakOf(m.modules, id)

Discharged(m, new, at, n) ==
  /\ new.usage = Wrap(m.usage - n) /\ new.peak = m.peak
  /\ DOMAIN new.modules = DOMAIN m.modules
  /\ \A i \in DOMAIN m.modules : new.modules[i].name = m.modules[i].name
  /\ \A id \in Ids :
       /\ UsageOf(new.modules, id) = IF id = at THEN Wrap(UsageOf(m.modules, id) - n)
                                     ELSE UsageOf(m.modules, id)
       /\ PeakOf(new.modules, id) = PeakOf(m.modules, id)

\* A name without an entry finds an id: each entry has taken another name.
LEMMA IdsLeft ==
  ASSUME Named, NEW list \in Seq(Entry), Unique(list), NEW name \in Module, ~ Known(list, name)
  PROVE  Len(list) <= IdLimit
<1> DEFINE S == 1 .. Len(list)
           T == Module \ {name}
           f == [i \in S |-> list[i].name]
<1>1. IsFiniteSet(S) /\ Cardinality(S) = Len(list)
  <2>1. Len(list) \in Nat /\ 1 \in Int
    OBVIOUS
  <2> HIDE DEF S
  <2>2. IsFiniteSet(1 .. Len(list)) /\ Cardinality(1 .. Len(list)) = IF 1 > Len(list) THEN 0 ELSE Len(list) - 1 + 1
    BY <2>1, FS_Interval
  <2> QED BY <2>1, <2>2 DEF S
<1>2. IsFiniteSet(T) /\ Cardinality(T) = Cardinality(Module) - 1
  BY FS_RemoveElement DEF Named
<1>3. f \in [S -> T]
  <2>1. \A i \in S : list[i] \in Entry /\ list[i].name # name
    BY DEF Known
  <2> QED BY <2>1 DEF Entry
<1>4. \A x, y \in S : f[x] = f[y] => x = y
  BY DEF Unique
<1> HIDE DEF S, T, f
<1>5. ~ (Cardinality(T) < Cardinality(S))
  BY <1>1, <1>2, <1>3, <1>4, FS_PigeonHole
<1>6. Cardinality(Module) \in Nat /\ Len(list) \in Nat
  BY FS_CardinalityType DEF Named
<1> QED
  BY <1>1, <1>2, <1>5, <1>6, Constants DEF Named

\* A call that names its module finds or makes its entry and charges it.
LEMMA AddNamed ==
  ASSUME Named, NEW m \in Table, Unique(m.modules), typeSet, Len(m.modules) <= IdLimit + 1,
         NEW name \in Module, NEW n \in Nat
  PROVE  LET added == AddMemUsage(m, name, n, TRUE)
         IN  Charged(m, added.m, name, added.id, n)
<1> DEFINE before == m.modules
           more == AllocModule(before, name, TRUE)
           all == Charge(m, n)
           at == CHOOSE i \in DOMAIN more : more[i].name = name
           e == Charge(more[at], n)
           list == [more EXCEPT ![at] = e]
           fresh == [name |-> name, usage |-> 0, peak |-> 0]
<1>1. before \in Seq(Entry) /\ UsageBit /\ name # NoModule
  BY Constants DEF Table, UsageBit, Named
<1>2. \/ more = before /\ Known(before, name)
      \/ more = Append(before, fresh) /\ ~ Known(before, name)
  BY <1>1, IdsLeft DEF AllocModule
<1>3. fresh \in Entry
  BY Constants DEF Entry
<1> HIDE DEF before, more, fresh
<1>4. /\ more \in Seq(Entry) /\ Known(more, name)
      /\ \A i \in DOMAIN before : i \in DOMAIN more /\ more[i] = before[i]
      /\ Unique(more)
      /\ \A i \in DOMAIN more \ DOMAIN before : more[i].usage = 0 /\ more[i].peak = 0
  <2>0. Unique(before)
    BY DEF before
  <2>1. CASE more = before /\ Known(before, name)
    BY <1>1, <2>0, <2>1
  <2>2. CASE more = Append(before, fresh) /\ ~ Known(before, name)
    <3>1. /\ DOMAIN before = 1 .. Len(before) /\ DOMAIN more = 1 .. Len(before) + 1
          /\ more \in Seq(Entry) /\ Len(before) \in Nat
          /\ \A i \in 1 .. Len(before) : more[i] = before[i]
          /\ more[Len(before) + 1] = fresh
      BY <1>1, <1>3, <2>2
    <3>2. fresh.name = name /\ fresh.usage = 0 /\ fresh.peak = 0
      BY DEF fresh
    <3>3. \A i \in 1 .. Len(before) : before[i].name # name
      BY <2>2, <3>1 DEF Known
    <3>4. Known(more, name)
      BY <3>1, <3>2 DEF Known
    <3>5. Unique(more)
      BY <2>0, <3>1, <3>2, <3>3 DEF Unique
    <3> QED BY <3>1, <3>2, <3>4, <3>5
  <2> QED BY <1>2, <2>1, <2>2
<1>5. at \in DOMAIN more /\ more[at].name = name
  BY <1>4 DEF Known
<1>6. at \in Nat \ {0}
  BY <1>4, <1>5
<1> HIDE DEF at
<1>7. more[at] \in Entry
  BY <1>4, <1>5
<1>8. /\ e.name = name /\ e.usage = Wrap(more[at].usage + n)
      /\ e.peak = MaxOf(more[at].peak, Wrap(more[at].usage + n))
  BY <1>5, <1>7 DEF Charge, Entry
<1> HIDE DEF e
<1>9. DOMAIN list = DOMAIN more /\ \A i \in DOMAIN more : list[i] = IF i = at THEN e ELSE more[i]
  BY <1>4, <1>5
<1> HIDE DEF list
<1>10. \A i \in DOMAIN more : list[i].name = more[i].name
  BY <1>5, <1>8, <1>9
<1>11. Unique(list)
  BY <1>4, <1>9, <1>10 DEF Unique
<1>12. ASSUME NEW id \in Ids
       PROVE  IF id = at - 1
              THEN /\ UsageOf(list, id) = Wrap(UsageOf(before, id) + n)
                   /\ PeakOf(list, id) = MaxOf(PeakOf(before, id), UsageOf(list, id))
              ELSE /\ UsageOf(list, id) = UsageOf(before, id)
                   /\ PeakOf(list, id) = PeakOf(before, id)
  <2>0. id \in Int
    BY DEF Ids
  <2>1. UsageOf(before, id) = UsageOf(more, id) /\ PeakOf(before, id) = PeakOf(more, id)
    BY <1>4 DEF UsageOf, PeakOf
  <2>2. CASE id = at - 1
    <3>1. id + 1 = at
      BY <1>6, <2>2
    <3>2. UsageOf(list, id) = e.usage /\ PeakOf(list, id) = e.peak
      BY <1>5, <1>9, <3>1 DEF UsageOf, PeakOf
    <3>3. UsageOf(more, id) = more[at].usage /\ PeakOf(more, id) = more[at].peak
      BY <1>5, <3>1 DEF UsageOf, PeakOf
    <3> QED BY <1>8, <2>1, <2>2, <3>2, <3>3
  <2>3. CASE id # at - 1
    <3>1. id + 1 # at
      BY <1>6, <2>0, <2>3
    <3>2. UsageOf(list, id) = UsageOf(more, id) /\ PeakOf(list, id) = PeakOf(more, id)
      BY <1>9, <3>1 DEF UsageOf, PeakOf
    <3> QED BY <2>1, <2>3, <3>2
  <2> QED BY <2>2, <2>3
<1>13. at - 1 + 1 = at
  BY <1>6
<1>14. AddMemUsage(m, name, n, TRUE) = [m |-> [all EXCEPT !.modules = list], id |-> at - 1]
  BY <1>1, <1>4, <1>13 DEF AddMemUsage, IdOf, list, at, more, before, e
<1>15. all \in [items : Seq(Item), modules : Seq(Entry), usage : Int, peak : Int]
       /\ all.peak = MaxOf(m.peak, Wrap(m.usage + n))
  <2>1. Wrap(m.usage + n) \in Int /\ m.peak \in Int
    BY WrapInWord, Constants DEF Table
  <2> QED BY <2>1 DEF Charge, Table, MaxOf
<1> HIDE DEF all
<1>16. /\ [all EXCEPT !.modules = list].modules = list
       /\ [all EXCEPT !.modules = list].peak = MaxOf(m.peak, Wrap(m.usage + n))
  BY <1>15
<1> DEFINE added == AddMemUsage(m, name, n, TRUE)
<1>17. added.m.modules = list /\ added.id = at - 1 /\ added.m.peak = MaxOf(m.peak, Wrap(m.usage + n))
  <2> DEFINE new == [all EXCEPT !.modules = list]
  <2>1. added = [m |-> new, id |-> at - 1]
    BY <1>14
  <2> HIDE DEF added, new
  <2>2. added.m = new /\ added.id = at - 1
    BY <2>1
  <2> QED BY <1>16, <2>2 DEF new
<1>19. added.m.usage = Wrap(m.usage + n)
  <2>1. name \in Names /\ TRUE \in BOOLEAN
    BY DEF Names
  <2> QED BY <2>1, AddMemUsageType
<1> HIDE DEF added
<1>18. /\ added.id + 1 \in DOMAIN list /\ list[added.id + 1].name = name
       /\ \A i \in DOMAIN before : i \in DOMAIN list /\ list[i].name = before[i].name
  BY <1>4, <1>5, <1>9, <1>10, <1>13, <1>17
<1>20. Charged(m, added.m, name, added.id, n)
  BY <1>11, <1>12, <1>17, <1>18, <1>19 DEF Charged, before
<1> QED
  BY <1>20 DEF added

\* Taking off a record's bytes.
LEMMA RemoveNamed ==
  ASSUME Named, NEW m \in Table, typeSet, Len(m.modules) <= IdLimit + 1, NEW n \in Nat,
         NEW at \in Ids, at + 1 \in DOMAIN m.modules
  PROVE  Discharged(m, RemoveMemUsage(m, at, n), at, n)
<1> DEFINE all == [m EXCEPT !.usage = Wrap(m.usage - n)]
           e == [m.modules[at + 1] EXCEPT !.usage = Wrap(m.modules[at + 1].usage - n)]
           list == [m.modules EXCEPT ![at + 1] = e]
<1>1. UsageBit /\ m.modules \in Seq(Entry) /\ m.modules[at + 1] \in Entry
  BY DEF Named, UsageBit, Table
<1>2. all.modules = m.modules /\ all.peak = m.peak
      /\ all \in [items : Seq(Item), modules : Seq(Entry), usage : Int, peak : Int]
  <2>1. Wrap(m.usage - n) \in Int /\ m.peak \in Int
    BY WrapInWord, Constants DEF Table
  <2> QED BY <2>1 DEF Table
<1>3. RemoveMemUsage(m, at, n) = [all EXCEPT !.modules = list]
  BY <1>1, <1>2 DEF RemoveMemUsage
<1>4. /\ e.usage = Wrap(m.modules[at + 1].usage - n) /\ e.peak = m.modules[at + 1].peak
      /\ e.name = m.modules[at + 1].name
  BY <1>1 DEF Entry
<1> HIDE DEF e, all
<1>5. /\ DOMAIN list = DOMAIN m.modules
      /\ \A i \in DOMAIN m.modules : list[i] = IF i = at + 1 THEN e ELSE m.modules[i]
  BY <1>1
<1> HIDE DEF list
<1>6. /\ RemoveMemUsage(m, at, n).modules = list
      /\ RemoveMemUsage(m, at, n).peak = m.peak
  BY <1>2, <1>3
<1>7. \A i \in DOMAIN list : list[i].name = m.modules[i].name
  BY <1>4, <1>5
<1>8. ASSUME NEW id \in Ids
      PROVE  /\ UsageOf(list, id) = IF id = at THEN Wrap(UsageOf(m.modules, id) - n)
                                    ELSE UsageOf(m.modules, id)
             /\ PeakOf(list, id) = PeakOf(m.modules, id)
  <2>1. id + 1 = at + 1 <=> id = at
    BY DEF Ids
  <2> QED BY <1>4, <1>5, <2>1 DEF UsageOf, PeakOf
<1>9. RemoveMemUsage(m, at, n).usage = Wrap(m.usage - n)
  BY RemoveMemUsageType
<1> QED
  BY <1>5, <1>6, <1>7, <1>8, <1>9 DEF Discharged

\* Weighing the records by it gives the recorded bytes of one module id.
OfModule(at) == [r \in Item |-> IF r.id = at THEN r.size ELSE 0]

\* A call that will charge a block carries the name of a module.
NamesKnown ==
  \A t \in Task : task[t].pc \in {"kmalloc", "add", "mlock", "mrealloc", "rremove", "radd"}
                    => task[t].name \in Module

\* A record's id has an entry in the module list.
Indexed == \A i \in DOMAIN mt.items : mt.items[i].id + 1 \in DOMAIN mt.modules

\* A step charges a named call's block, gives a record's bytes back, or leaves both alone.
LEMMA NamedSteps ==
  ASSUME Named, RecordInv, NamesKnown, Indexed, Unique(mt.modules), [Next]_vars
  PROVE  \/ UNCHANGED <<mt, lost>>
         \/ mt' = Empty /\ lost' = [id \in Ids |-> 0]
         \/ \E t \in Task, at \in Ids :
              /\ task[t].pc \in {"add", "radd"} /\ task[t].name \in Module
              /\ task[t].new \in Block /\ task[t].size \in Size
              /\ \/ mt'.items = mt.items /\ lost' = [lost EXCEPT ![at] = @ + task[t].size]
                 \/ /\ mt'.items = Append(mt.items, [addr |-> task[t].new, size |-> task[t].size,
                                                     id |-> at])
                    /\ lost' = lost
              /\ Charged(mt, mt', task[t].name, at, task[t].size)
         \/ \E i \in DOMAIN mt.items :
              /\ mt'.items = SwapRemove(mt.items, i) /\ UNCHANGED lost
              /\ Discharged(mt, mt', mt.items[i].id, mt.items[i].size)
<1> USE DEF RecordInv, TypeInv
<1>1. ASSUME NEW t \in Task, task[t].pc # "idle"
      PROVE  typeSet
  BY <1>1 DEF PhaseOK
<1>2. ASSUME NEW t \in Task, NEW ok \in {TRUE} \cup {~ MayFail},
             task[t].pc \in {"add", "radd"},
             task[t].new \in Block, task[t].size \in Size,
             Counted(AddMemUsage(mt, task[t].name, task[t].size, ok), task[t].new, task[t].size)
      PROVE  \E at \in Ids :
              /\ task[t].name \in Module
              /\ \/ mt'.items = mt.items /\ lost' = [lost EXCEPT ![at] = @ + task[t].size]
                 \/ /\ mt'.items = Append(mt.items, [addr |-> task[t].new, size |-> task[t].size,
                                                     id |-> at])
                    /\ lost' = lost
              /\ Charged(mt, mt', task[t].name, at, task[t].size)
  <2> DEFINE n == task[t].size
             name == task[t].name
             added == AddMemUsage(mt, name, n, TRUE)
  <2>0. n \in Nat /\ name \in Module /\ name \in Names
    BY <1>2, SizesPositive DEF NamesKnown, Names
  <2>1. ok = TRUE
    BY DEF Named
  <2>2. Counted(added, task[t].new, n)
    BY <1>2, <2>1
  <2>3. typeSet
    BY <1>1, <1>2
  <2>4. mt \in Table /\ Len(mt.modules) <= IdLimit + 1
    BY DEF TableOK
  <2> HIDE DEF n, name
  <2>5. Charged(mt, added.m, name, added.id, n)
    BY <2>0, <2>3, <2>4, AddNamed
  <2> HIDE DEF added
  <2>7. /\ mt'.usage = added.m.usage /\ mt'.peak = added.m.peak /\ mt'.modules = added.m.modules
        /\ added.id \in Ids
    BY <2>2 DEF Counted
  <2>8. Charged(mt, mt', name, added.id, n)
    BY <2>5, <2>7 DEF Charged
  <2> QED BY <2>0, <2>2, <2>7, <2>8 DEF Counted, n, name
<1>3. ASSUME NEW t \in Task, NEW i \in DOMAIN mt.items,
             task[t].pc \in {"remove", "untrack", "rremove"},
             Uncounted(mt, mt', i), UNCHANGED lost
      PROVE  /\ mt'.items = SwapRemove(mt.items, i) /\ UNCHANGED lost
             /\ Discharged(mt, mt', mt.items[i].id, mt.items[i].size)
  <2> DEFINE n == mt.items[i].size
             at == mt.items[i].id
             r == RemoveMemUsage(mt, at, n)
  <2>0. n \in Nat /\ at \in Ids /\ at + 1 \in DOMAIN mt.modules
    BY RecordType, SizesPositive DEF Item, Indexed
  <2>1. typeSet
    BY <1>1, <1>3
  <2>2. mt \in Table /\ Len(mt.modules) <= IdLimit + 1
    BY DEF TableOK
  <2>3. /\ mt'.items = SwapRemove(mt.items, i)
        /\ mt'.usage = r.usage /\ mt'.peak = r.peak /\ mt'.modules = r.modules
    BY <1>3 DEF Uncounted
  <2> HIDE DEF n, at
  <2>4. Discharged(mt, r, at, n)
    BY <2>0, <2>1, <2>2, RemoveNamed
  <2> HIDE DEF r
  <2>6. Discharged(mt, mt', at, n)
    BY <2>3, <2>4 DEF Discharged
  <2> QED BY <1>3, <2>3, <2>6 DEF at, n
<1> HIDE DEF RecordInv, TypeInv
<1>4. \/ UNCHANGED <<mt, lost>>
      \/ mt' = Empty /\ lost' = [id \in Ids |-> 0]
      \/ \E t \in Task, ok \in {TRUE} \cup {~ MayFail} :
           /\ task[t].name \in Names /\ task[t].new \in Block /\ task[t].size \in Size
           /\ task[t].pc \in {"add", "radd"}
           /\ Counted(AddMemUsage(mt, task[t].name, task[t].size, ok),
                      task[t].new, task[t].size)
      \/ \E t \in Task : \E i \in DOMAIN mt.items :
           /\ task[t].pc \in {"remove", "untrack", "rremove"}
           /\ mt.items[i].addr = task[t].addr /\ Uncounted(mt, mt', i) /\ UNCHANGED lost
  BY TableSteps DEF RecordInv
<1>5. CASE \E t \in Task, ok \in {TRUE} \cup {~ MayFail} :
           /\ task[t].name \in Names /\ task[t].new \in Block /\ task[t].size \in Size
           /\ task[t].pc \in {"add", "radd"}
           /\ Counted(AddMemUsage(mt, task[t].name, task[t].size, ok),
                      task[t].new, task[t].size)
  <2>1. PICK t \in Task, ok \in {TRUE} \cup {~ MayFail} :
           /\ task[t].name \in Names /\ task[t].new \in Block /\ task[t].size \in Size
           /\ task[t].pc \in {"add", "radd"}
           /\ Counted(AddMemUsage(mt, task[t].name, task[t].size, ok),
                      task[t].new, task[t].size)
    BY <1>5
  <2> QED BY <1>2, <2>1
<1>6. CASE \E t \in Task : \E i \in DOMAIN mt.items :
           /\ task[t].pc \in {"remove", "untrack", "rremove"}
           /\ mt.items[i].addr = task[t].addr /\ Uncounted(mt, mt', i) /\ UNCHANGED lost
  BY <1>3, <1>6
<1> QED
  BY <1>4, <1>5, <1>6

\* A module's counter is what is recorded with its id and what was lost under it.
CountEach ==
  \A id \in Ids :
    UsageOf(mt.modules, id) = Wrap(Weigh(mt.items, OfModule(id)) + lost[id])

LEMMA OfModuleType ==
  ASSUME NEW id \in Ids
  PROVE  OfModule(id) \in [Item -> Nat]
BY SizesPositive DEF OfModule, Item

LEMMA CountEachKept ==
  ASSUME Named, RecordInv, NamesKnown, Indexed, Unique(mt.modules), CountEach, [Next]_vars
  PROVE  CountEach'
<1> SUFFICES ASSUME NEW id \in Ids
    PROVE  UsageOf(mt'.modules, id) = Wrap(Weigh(mt'.items, OfModule(id)) + lost'[id])
  <2>1. \A d : OfModule(d)' = OfModule(d)
    BY DEF OfModule
  <2> QED BY <2>1 DEF CountEach, UsageOf, Weigh
<1> DEFINE w == OfModule(id)
           all == Weigh(mt.items, w) + lost[id]
           u == UsageOf(mt.modules, id)
<1>0. w \in [Item -> Nat] /\ mt.items \in Seq(Item) /\ lost \in [Ids -> Nat]
  BY OfModuleType DEF RecordInv, TypeInv, TableOK, Table
<1>1. Weigh(mt.items, w) \in Nat /\ lost[id] \in Nat /\ u = Wrap(all)
  BY <1>0, WeighType DEF CountEach
<1>2. all \in Int
  BY <1>1
<1>3. CASE UNCHANGED <<mt, lost>>
  BY <1>1, <1>3
<1>4. CASE mt' = Empty /\ lost' = [x \in Ids |-> 0]
  <2>1. mt'.items = <<>> /\ mt'.modules = <<>> /\ lost'[id] = 0
    BY <1>4 DEF Empty
  <2>2. Weigh(mt'.items, w) = 0
    <3>1. <<>> \in Seq(Item)
      OBVIOUS
    <3> QED BY <1>0, <2>1, <3>1, WeighType
  <2>3. UsageOf(mt'.modules, id) = 0
    BY <2>1 DEF UsageOf
  <2>4. Wrap(0 + 0) = 0
    BY Constants DEF Wrap
  <2> QED BY <2>1, <2>2, <2>3, <2>4
<1>5. ASSUME NEW at \in Ids, NEW a \in Block, NEW n \in Size,
             \/ mt'.items = mt.items /\ lost' = [lost EXCEPT ![at] = @ + n]
             \/ mt'.items = Append(mt.items, [addr |-> a, size |-> n, id |-> at]) /\ lost' = lost,
             NEW name, Charged(mt, mt', name, at, n)
      PROVE  UsageOf(mt'.modules, id) = Wrap(Weigh(mt'.items, w) + lost'[id])
  <2> DEFINE r == [addr |-> a, size |-> n, id |-> at]
             k == IF id = at THEN n ELSE 0
  <2>1. r \in Item /\ w[r] = k /\ k \in Nat
    BY SizesPositive DEF Item, OfModule
  <2>2. UsageOf(mt'.modules, id) = IF id = at THEN Wrap(u + n) ELSE u
    BY <1>5 DEF Charged
  <2>3. Weigh(Append(mt.items, r), w) = Weigh(mt.items, w) + k
    BY <1>0, <2>1, WeighAppend
  <2>4. Weigh(mt'.items, w) + lost'[id] = all + k
    <3>1. CASE mt'.items = mt.items /\ lost' = [lost EXCEPT ![at] = @ + n]
      <4>1. lost'[id] = lost[id] + k
        BY <1>0, <1>1, <3>1
      <4> HIDE DEF w, k
      <4> QED BY <1>1, <2>1, <3>1, <4>1
    <3>2. CASE mt'.items = Append(mt.items, r) /\ lost' = lost
      <4> HIDE DEF w, k, r
      <4> QED BY <1>1, <2>1, <2>3, <3>2
    <3> QED BY <1>5, <3>1, <3>2
  <2>5. Wrap(Wrap(all) + n) = Wrap(all + n) /\ all + 0 = all
    <3>1. n \in Int
      BY SizesPositive
    <3> HIDE DEF all
    <3> QED BY <1>2, <3>1, WrapOfSum
  <2> HIDE DEF all, w, u
  <2> QED BY <1>1, <2>2, <2>4, <2>5
<1>6. ASSUME NEW i \in DOMAIN mt.items,
             mt'.items = SwapRemove(mt.items, i), UNCHANGED lost,
             Discharged(mt, mt', mt.items[i].id, mt.items[i].size)
      PROVE  UsageOf(mt'.modules, id) = Wrap(Weigh(mt'.items, w) + lost'[id])
  <2> DEFINE r == mt.items[i]
             k == IF id = r.id THEN r.size ELSE 0
             now == Weigh(mt'.items, w) + lost[id]
             b == 0 - k
  <2>0. r \in Item
    BY <1>0
  <2>1. w[r] = k /\ k \in Nat /\ r.size \in Nat
    <3> HIDE DEF r
    <3> QED BY <2>0, SizesPositive DEF Item, OfModule
  <2>2. UsageOf(mt'.modules, id) = IF id = r.id THEN Wrap(u - r.size) ELSE u
    BY <1>6 DEF Discharged
  <2>3. Weigh(mt.items, w) = Weigh(mt'.items, w) + k
    BY <1>0, <1>6, <2>1, WeighSwapRemove
  <2>4. Weigh(mt'.items, w) \in Nat
    <3>1. i \in 1 .. Len(mt.items)
      BY <1>0
    <3>2. mt'.items \in Seq(Item)
      BY <1>0, <1>6, <3>1, SwapRemoveKeeps
    <3> QED BY <1>0, <3>2, WeighType
  <2>5. all + b = now /\ b \in Int
    <3> HIDE DEF r, w, k
    <3> QED BY <1>1, <2>1, <2>3, <2>4
  <2>6. Wrap(Wrap(all) + b) = Wrap(all + b)
    <3> HIDE DEF all, b
    <3> QED BY <1>2, <2>5, WrapOfSum
  <2>7. Wrap(all) \in Int
    <3> HIDE DEF all
    <3> QED BY <1>2, WrapInWord, Constants
  <2>8. UsageOf(mt'.modules, id) = Wrap(u + b)
    <3>1. CASE id = r.id
      <4>1. u - r.size = u + b
        <5>1. b = 0 - r.size
          BY <3>1
        <5> HIDE DEF b, r, all, u
        <5> QED BY <1>1, <2>1, <2>7, <5>1
      <4> QED BY <2>2, <3>1, <4>1
    <3>2. CASE id # r.id
      <4>1. b = 0
        BY <3>2
      <4>2. Wrap(u) = u
        <5> HIDE DEF all, b
        <5>0. Wrap(all) + 0 = Wrap(all) /\ all + 0 = all /\ 0 \in Int
          BY <1>2, <2>7
        <5>1. Wrap(Wrap(all) + 0) = Wrap(all + 0)
          BY <1>2, <5>0, WrapOfSum
        <5> HIDE DEF u
        <5> QED BY <1>1, <5>0, <5>1
      <4>3. u + b = u
        <5> HIDE DEF b, u, all
        <5> QED BY <1>1, <2>7, <4>1
      <4> QED BY <2>2, <3>2, <4>2, <4>3
    <3> QED BY <3>1, <3>2
  <2>9. UsageOf(mt'.modules, id) = Wrap(now)
    <3> HIDE DEF all, b, u, now
    <3> QED BY <1>1, <2>5, <2>6, <2>8
  <2> QED BY <1>6, <2>9
<1> HIDE DEF w
<1> QED
  BY <1>3, <1>4, <1>5, <1>6, NamedSteps DEF w

\* A task moves by itself.
LEMMA MovesItself ==
  ASSUME TypeInv, [Next]_vars, NEW u \in Task
  PROVE  task'[u] = task[u] \/ Call(u) \/ Run(u)
<1>1. CASE UNCHANGED vars
  BY <1>1 DEF vars
<1>2. CASE Control
  BY <1>2, Zenon DEF Control, StartConfig, StartNum, StartInstall, StopType, StopRestore, StopMutex,
               StopFree
<1>3. ASSUME NEW t \in Task, Call(t) \/ Run(t), t # u
      PROVE  task'[u] = task[u]
  <2>1. task \in [Task -> TaskRec]
    BY DEF TypeInv, TasksOK
  <2>2. ASSUME Call(t) PROVE UNCHANGED task \/ \E k : task' = [task EXCEPT ![t] = k]
    BY <2>2, Zenon DEF Call, CallAlloc, CallFree, CallRealloc, CallTrack, CallUntrack, CallQuery, Goto
  <2>3. ASSUME Run(t) PROVE task'[u] = task[u]
    BY <1>3, <2>1, <2>3 DEF Run, KeptMalloc, LockedAdd, LockedRemove, KeptFree, LockedUntrack,
                     DoRealloc, ReallocLock, ReallocRemove, ReallocAdd, QueryRead, Step, Return
  <2> QED BY <1>3, <2>1, <2>2, <2>3
<1> QED
  BY <1>1, <1>2, <1>3 DEF Next

\* What a task does when it calls, with quiet tasks during start and stop.
LEMMA CallsWhenIdle ==
  ASSUME Named, RecordInv, NEW t \in Task, MayCall(t)
  PROVE  \/ ~ typeSet /\ lib = "kept" /\ mt.items = <<>>
         \/ typeSet /\ lib = "trace"
  BY DEF RecordInv, PhaseOK, MayCall, Named, Exact, Application

LEMMA NamesKnownKept ==
  ASSUME Named, RecordInv, NamesKnown, [Next]_vars
  PROVE  NamesKnown'
<1> DEFINE Naming == {"kmalloc", "add", "mlock", "mrealloc", "rremove", "radd"}
<1> SUFFICES ASSUME NEW u \in Task, task'[u].pc \in Naming
             PROVE  task'[u].name \in Module
  BY DEF NamesKnown
<1>0. task \in [Task -> TaskRec] /\ task[u] \in TaskRec /\ TypeInv
  BY DEF RecordInv, TypeInv, TasksOK
<1>1. CASE task'[u] = task[u]
  BY <1>1 DEF NamesKnown
<1>2. CASE Call(u)
  <2>1. AllocNames \subseteq Module /\ ReallocNames \subseteq Module
    BY Constants DEF Named, Exact, Application
  <2>2. ASSUME NEW name \in AllocNames, NEW size \in Size, CallAlloc(u, name, size)
        PROVE  task'[u].name \in Module
    <3>1. CASE UNCHANGED task
      BY <3>1 DEF NamesKnown
    <3>2. CASE Traced(name) /\ Goto(u, "kmalloc", NoAddr, NoAddr, size, NameIn(name))
      <4>1. typeSet
        BY <2>2, <3>2, CallsWhenIdle DEF CallAlloc, Traced
      <4>2. task'[u].name = NameIn(name)
        BY <1>0, <3>2 DEF Goto
      <4> QED BY <2>1, <4>1, <4>2 DEF NameIn
    <3> QED BY <2>2, <3>1, <3>2 DEF CallAlloc
  <2>3. ASSUME NEW a \in Addr, CallFree(u, a)
        PROVE  task'[u].pc \notin Naming \/ UNCHANGED task
    BY <1>0, <2>3 DEF CallFree, Goto
  <2>4. ASSUME NEW name \in ReallocNames, NEW a \in Addr \cup {NoAddr}, NEW size \in Size,
               CallRealloc(u, name, a, size)
        PROVE  task'[u].name = name \/ task'[u].pc \notin Naming \/ UNCHANGED task
    <3>1. CASE Goto(u, "mlock", a, NoAddr, size, name)
      BY <1>0, <3>1 DEF Goto
    <3>2. CASE Goto(u, "krealloc", a, NoAddr, size, NoModule)
      BY <1>0, <3>2 DEF Goto
    <3>3. CASE UNCHANGED task
      BY <3>3
    <3>4. \/ Goto(u, "mlock", a, NoAddr, size, name)
          \/ Goto(u, "krealloc", a, NoAddr, size, NoModule)
          \/ UNCHANGED task
      BY <2>4, Zenon DEF CallRealloc
    <3> QED BY <3>1, <3>2, <3>3, <3>4
  <2>5. ASSUME NEW name \in AllocNames, NEW a \in Extern, NEW size \in Size,
               CallTrack(u, name, a, size)
        PROVE  task'[u].name = name
    BY <1>0, <2>5 DEF CallTrack, Goto
  <2>6. ASSUME NEW a \in Extern, CallUntrack(u, a)
        PROVE  task'[u].pc \notin Naming \/ UNCHANGED task
    BY <1>0, <2>6 DEF CallUntrack, Goto
  <2>7. ASSUME CallQuery(u) PROVE task'[u].pc \notin Naming
    BY <1>0, <2>7 DEF CallQuery, Goto
  <2>8. UNCHANGED task => task'[u].name \in Module
    BY DEF NamesKnown
  <2> HIDE DEF Naming
  <2> QED BY <1>2, <2>1, <2>2, <2>3, <2>4, <2>5, <2>6, <2>7, <2>8 DEF Call
<1>3. CASE Run(u)
  <2>1. task[u].pc \notin {"lock", "krealloc"}
    BY DEF RecordInv, TaskInv
  <2>2. \/ task'[u].name = task[u].name /\ task[u].pc \in Naming
        \/ task'[u].pc \notin Naming
    <3>1. CASE LockedAdd(u) \/ KeptFree(u) \/ LockedUntrack(u) \/ ReallocAdd(u) \/ QueryRead(u)
      <4>1. Return(u)
        BY <3>1 DEF LockedAdd, KeptFree, LockedUntrack, ReallocAdd, QueryRead
      <4> QED BY <1>0, <4>1 DEF Return, Idle
    <3>2. CASE LockedRemove(u)
      BY <1>0, <3>2 DEF LockedRemove, Step, TaskRec
    <3>3. CASE ReallocLock(u) \/ ReallocRemove(u)
      BY <1>0, <2>1, <3>3 DEF ReallocLock, ReallocRemove, Step, TaskRec
    <3>4. CASE KeptMalloc(u) \/ DoRealloc(u)
      <4>1. task[u].pc \in Naming
        BY <2>1, <3>4 DEF KeptMalloc, DoRealloc
      <4>2. Return(u) \/ \E k, a : task' = [task EXCEPT ![u].pc = k, ![u].new = a]
                             \/ task' = [task EXCEPT ![u].new = a, ![u].pc = k]
        BY <3>4 DEF KeptMalloc, DoRealloc
      <4>3. CASE Return(u)
        BY <1>0, <4>3 DEF Return, Idle
      <4> HIDE DEF Naming
      <4>4. ASSUME NEW k, NEW a, \/ task' = [task EXCEPT ![u].pc = k, ![u].new = a]
                                 \/ task' = [task EXCEPT ![u].new = a, ![u].pc = k]
            PROVE  task'[u].name = task[u].name
        BY <1>0, <4>4 DEF TaskRec
      <4> QED BY <4>1, <4>2, <4>3, <4>4
    <3> QED BY <1>3, <3>1, <3>2, <3>3, <3>4 DEF Run
  <2> QED BY <2>2 DEF NamesKnown
<1> QED
  BY <1>0, <1>1, <1>2, <1>3, MovesItself

\* Whose block changes its name: a free one, one that no call has in hand while
\* nothing is traced, or one that is freed or resized in the mutex.
LEMMA NameChanges ==
  ASSUME Named, RecordInv, [Next]_vars, NEW a \in Block, heap'[a].name # heap[a].name
  PROVE  \/ ~ Live(a)
         \/ InHand(a) /\ mt' = mt /\ mt.items = <<>>
         \/ \E t \in Task :
              /\ a \in Owned(task[t]) /\ task[t].pc \in {"kfree", "untrack", "mrealloc"}
              /\ heap'[a].size = 0 \/ (task'[t].pc = "rremove" /\ task'[t].addr = a)
<1>0. heap \in [Block -> HeapRec] /\ task \in [Task -> TaskRec]
  BY DEF RecordInv, TypeInv, HeapOK, TasksOK
<1>1. CASE UNCHANGED vars
  BY <1>1 DEF vars
<1>2. CASE Control
  <2>1. UNCHANGED heap \/ heap' = [b \in Block |-> [heap[b] EXCEPT !.traced = FALSE]]
    BY <1>2, Zenon DEF Control, StartConfig, StartNum, StartInstall, StopType, StopRestore, StopMutex,
                 StopFree
  <2> QED BY <1>0, <2>1 DEF HeapRec
<1>3. ASSUME NEW t \in Task, Call(t)
      PROVE  ~ Live(a) \/ (InHand(a) /\ mt' = mt /\ mt.items = <<>>)
  <2>1. mt' = mt
    BY <1>3, Zenon DEF Call, CallAlloc, CallFree, CallRealloc, CallTrack, CallUntrack, CallQuery
  <2>2. ASSUME NEW name \in AllocNames, NEW size \in Size, CallAlloc(t, name, size)
        PROVE  ~ Live(a)
    BY <1>0, <2>2 DEF CallAlloc, Hand
  <2>3. ASSUME NEW b \in Addr, CallFree(t, b)
        PROVE  InHand(a) /\ mt.items = <<>>
    <3>1. MayCall(t) /\ lib = "kept" /\ InHand(b) /\ heap' = [heap EXCEPT ![b] = Free]
      BY <2>3 DEF CallFree
    <3>2. a = b
      BY <1>0, <3>1
    <3> QED BY <3>1, <3>2, CallsWhenIdle
  <2>4. ASSUME NEW name \in ReallocNames, NEW b \in Addr \cup {NoAddr}, NEW size \in Size,
               CallRealloc(t, name, b, size)
        PROVE  ~ Live(a) \/ (InHand(a) /\ mt.items = <<>>)
    <3>1. MayCall(t) /\ (b = NoAddr \/ InHand(b)) /\ lib = "kept"
          /\ \E new \in Addr \cup {NoAddr} : KeptRealloc(b, size, name, new)
      BY <2>4 DEF CallRealloc
    <3>2. mt.items = <<>>
      BY <3>1, CallsWhenIdle
    <3>3. PICK new \in Addr \cup {NoAddr} : KeptRealloc(b, size, name, new)
      BY <3>1
    <3>4. \/ a = new /\ (new = b \/ ~ Live(new))
          \/ a = b
      BY <1>0, <3>3 DEF KeptRealloc
    <3>5. a # NoAddr
      BY Constants DEF Block
    <3> QED BY <3>1, <3>2, <3>4, <3>5
  <2>5. ASSUME NEW name \in AllocNames, NEW b \in Extern, NEW size \in Size,
               CallTrack(t, name, b, size)
        PROVE  ~ Live(a)
    BY <1>0, <2>5 DEF CallTrack, Hand
  <2>6. ASSUME NEW b \in Extern, CallUntrack(t, b)
        PROVE  InHand(a) /\ mt.items = <<>>
    <3>1. MayCall(t) /\ ~ typeSet /\ InHand(b) /\ heap' = [heap EXCEPT ![b] = Free]
      BY <2>6 DEF CallUntrack
    <3>2. a = b
      BY <1>0, <3>1
    <3> QED BY <3>1, <3>2, CallsWhenIdle
  <2>7. ~ CallQuery(t)
    BY DEF CallQuery
  <2> QED BY <1>3, <2>1, <2>2, <2>3, <2>4, <2>5, <2>6, <2>7 DEF Call
<1>4. ASSUME NEW t \in Task, Run(t)
      PROVE  \/ ~ Live(a)
             \/ /\ a \in Owned(task[t]) /\ task[t].pc \in {"kfree", "untrack", "mrealloc"}
                /\ heap'[a].size = 0 \/ (task'[t].pc = "rremove" /\ task'[t].addr = a)
  <2>1. CASE KeptMalloc(t)
    BY <1>0, <2>1 DEF KeptMalloc, Hand
  <2>2. CASE LockedAdd(t) \/ ReallocAdd(t)
    <3>1. UNCHANGED heap \/ heap' = [heap EXCEPT ![task[t].new].traced = TRUE]
      BY <2>2 DEF LockedAdd, ReallocAdd
    <3>2. heap'[a].name = heap[a].name
      BY <1>0, <3>1 DEF HeapRec
    <3> QED BY <3>2
  <2>3. CASE KeptFree(t) \/ LockedUntrack(t)
    <3>1. task[t].pc \in {"kfree", "untrack"} /\ heap' = [heap EXCEPT ![task[t].addr] = Free]
      BY <2>3 DEF KeptFree, LockedUntrack
    <3>2. a = task[t].addr /\ heap'[a].size = 0
      BY <1>0, <3>1 DEF Free
    <3> QED BY <3>1, <3>2 DEF Owned
  <2>4. CASE DoRealloc(t)
    <3>1. task[t].pc = "mrealloc"
      BY <2>4 DEF DoRealloc, RecordInv, TaskInv
    <3>2. PICK new \in Addr \cup {NoAddr} :
            /\ KeptRealloc(task[t].addr, task[t].size, task[t].name, new)
            /\ task' = [task EXCEPT ![t].new = new,
                          ![t].pc  = IF task[t].pc = "krealloc" THEN "lock" ELSE "rremove"]
      BY <2>4 DEF DoRealloc
    <3>3. task'[t].pc = "rremove" /\ task'[t].addr = task[t].addr
      BY <1>0, <3>1, <3>2 DEF TaskRec
    <3>4. \/ a = new /\ (new = task[t].addr \/ ~ Live(new))
          \/ a = task[t].addr
      BY <1>0, <3>2 DEF KeptRealloc
    <3> QED BY <3>1, <3>3, <3>4 DEF Owned
  <2>5. CASE LockedRemove(t) \/ ReallocLock(t) \/ ReallocRemove(t) \/ QueryRead(t)
    BY <2>5 DEF LockedRemove, ReallocLock, ReallocRemove, QueryRead
  <2> QED BY <1>4, <2>1, <2>2, <2>3, <2>4, <2>5 DEF Run
<1> QED
  BY <1>1, <1>2, <1>3, <1>4 DEF Next

\* The block a call has obtained belongs to the module the call names.
NamesHeld ==
  \A t \in Task : task[t].pc \in {"add", "rremove", "radd"} /\ task[t].new # NoAddr
                    => heap[task[t].new].name = task[t].name

\* A new block keeps its name while its call goes on.
LEMMA NewNameStays ==
  ASSUME Named, RecordInv, [Next]_vars, NEW u \in Task,
         task[u].pc \in {"add", "rremove", "radd"}, task[u].new # NoAddr
  PROVE  heap'[task[u].new].name = heap[task[u].new].name
<1> DEFINE b == task[u].new
<1>0. b \in Block
  BY DEF RecordInv, TypeInv, TasksOK, TaskRec
<1>1. b \in Owned(task[u])
  BY DEF Owned
<1>2. Live(b)
  BY <1>1 DEF RecordInv, TaskInv
<1>3. ~ InHand(b)
  BY <1>1 DEF InHand
<1>4. ASSUME NEW t \in Task, b \in Owned(task[t]) PROVE t = u
  BY <1>1, <1>4 DEF RecordInv, Apart
<1> QED BY <1>0, <1>2, <1>3, <1>4, NameChanges

LEMMA NamesHeldKept ==
  ASSUME Named, RecordInv, NamesHeld, [Next]_vars
  PROVE  NamesHeld'
<1> SUFFICES ASSUME NEW u \in Task, task'[u].pc \in {"add", "rremove", "radd"}, task'[u].new # NoAddr
             PROVE  heap'[task'[u].new].name = task'[u].name
  BY DEF NamesHeld
<1>0. /\ heap \in [Block -> HeapRec] /\ task \in [Task -> TaskRec] /\ task[u] \in TaskRec
      /\ TypeInv /\ task[u].new \in Block \cup {NoAddr}
  BY DEF RecordInv, TypeInv, HeapOK, TasksOK, TaskRec
<1> DEFINE b == task[u].new
<1>1. task[u].pc \in {"add", "rremove", "radd"} /\ b # NoAddr => heap'[b].name = heap[b].name
  BY NewNameStays
<1>2. CASE task'[u] = task[u]
  BY <1>1, <1>2 DEF NamesHeld
<1>3. CASE Call(u)
  <2>1. PICK name \in AllocNames, a \in Extern, size \in Size : CallTrack(u, name, a, size)
    <3>1. task[u].pc = "idle"
      BY <1>3, Zenon DEF Call, CallAlloc, CallFree, CallRealloc, CallTrack, CallUntrack, CallQuery, MayCall
    <3>2. ~ UNCHANGED task
      BY <3>1
    <3>3. \A k, x, y, n, nm : Goto(u, k, x, y, n, nm) => k \in {"add", "rremove", "radd"}
      BY <1>0 DEF Goto
    <3>4. ASSUME NEW name \in AllocNames, NEW size \in Size, CallAlloc(u, name, size)
          PROVE  FALSE
      <4>1. CASE Goto(u, "kmalloc", NoAddr, NoAddr, size, NameIn(name))
        BY <1>0, <4>1 DEF Goto
      <4> QED BY <3>2, <3>4, <4>1 DEF CallAlloc
    <3>5. \A a \in Addr : ~ CallFree(u, a)
      BY <3>2, <3>3 DEF CallFree
    <3>6. \A name \in ReallocNames, a \in Addr \cup {NoAddr}, size \in Size :
            ~ CallRealloc(u, name, a, size)
      BY <3>2, <3>3 DEF CallRealloc
    <3>7. \A a \in Extern : ~ CallUntrack(u, a)
      BY <3>2, <3>3 DEF CallUntrack
    <3>8. ~ CallQuery(u)
      BY <3>3 DEF CallQuery
    <3> QED BY <1>3, <3>4, <3>5, <3>6, <3>7, <3>8 DEF Call
  <2>2. heap' = [heap EXCEPT ![a] = [size |-> size, name |-> name, traced |-> FALSE]]
        /\ task'[u].new = a /\ task'[u].name = name /\ a \in Block
    BY <1>0, <2>1 DEF CallTrack, Hand, Goto, Block
  <2> QED BY <1>0, <2>2
<1>4. CASE Run(u)
  <2>1. CASE KeptMalloc(u)
    <3>1. CASE UNCHANGED heap /\ Return(u)
      BY <1>0, <3>1 DEF Return, Idle
    <3>2. CASE \E a \in Addr : /\ ~ Live(a) /\ Hand(a, task[u].size, task[u].name, FALSE)
                               /\ task' = [task EXCEPT ![u].pc = "add", ![u].new = a]
      <4>1. PICK a \in Addr : /\ Hand(a, task[u].size, task[u].name, FALSE)
                              /\ task' = [task EXCEPT ![u].pc = "add", ![u].new = a]
        BY <3>2
      <4>2. task'[u].new = a /\ task'[u].name = task[u].name /\ a \in Block
        BY <1>0, <4>1 DEF TaskRec, Block
      <4> QED BY <1>0, <4>1, <4>2 DEF Hand
    <3> QED BY <2>1, <3>1, <3>2 DEF KeptMalloc
  <2>2. CASE DoRealloc(u)
    <3>1. PICK new \in Addr \cup {NoAddr} :
            /\ KeptRealloc(task[u].addr, task[u].size, task[u].name, new)
            /\ task' = [task EXCEPT ![u].new = new,
                          ![u].pc  = IF task[u].pc = "krealloc" THEN "lock" ELSE "rremove"]
      BY <2>2 DEF DoRealloc
    <3>2. task'[u].new = new /\ task'[u].name = task[u].name
      BY <1>0, <3>1 DEF TaskRec
    <3>3. new \in Block /\ new # NoAddr
      BY <3>2 DEF Block
    <3> QED BY <3>1, <3>2, <3>3 DEF KeptRealloc
  <2>3. CASE ReallocRemove(u)
    <3>1. task[u].pc = "rremove" /\ task'[u].new = task[u].new /\ task'[u].name = task[u].name
      BY <1>0, <2>3 DEF ReallocRemove, Step, TaskRec
    <3> QED BY <1>1, <3>1 DEF NamesHeld
  <2>4. CASE ReallocLock(u)
    <3>1. task'[u].pc = "mrealloc"
      BY <1>0, <2>4 DEF ReallocLock, Step, RecordInv, TaskInv, TaskRec
    <3> QED BY <3>1
  <2>5. CASE LockedAdd(u) \/ LockedRemove(u) \/ KeptFree(u) \/ LockedUntrack(u) \/ ReallocAdd(u)
             \/ QueryRead(u)
    <3>1. task'[u].pc \notin {"add", "rremove", "radd"}
      BY <1>0, <2>5 DEF LockedAdd, LockedRemove, KeptFree, LockedUntrack, ReallocAdd, QueryRead, Step,
                        Return, Idle, TaskRec
    <3> QED BY <3>1
  <2> QED BY <1>4, <2>1, <2>2, <2>3, <2>4, <2>5 DEF Run
<1> QED
  BY <1>0, <1>2, <1>3, <1>4, MovesItself

LEMMA ItemSize == ASSUME NEW r \in Item PROVE r.size > 0
<1>1. r.size \in Size
  BY DEF Item
<1>2. r.size \in Nat /\ r.size # 0
  BY <1>1, SizesPositive
<1> QED
  BY <1>2

LEMMA MovesByStep ==
  ASSUME Named, RecordInv, [Next]_vars, NEW t \in Task, task[t].pc = "rremove"
  PROVE  task'[t] = task[t] \/ ReallocRemove(t)
<1>1. CASE Call(t)
  <2>1. MayCall(t)
    BY <1>1, Zenon DEF Call, CallAlloc, CallFree, CallRealloc, CallTrack, CallUntrack, CallQuery
  <2> QED BY <2>1 DEF MayCall
<1>2. CASE Run(t)
  BY <1>2 DEF Run, KeptMalloc, LockedAdd, LockedRemove, KeptFree, LockedUntrack, DoRealloc, ReallocLock,
              ReallocAdd, QueryRead
<1> QED
  BY <1>1, <1>2, MovesItself DEF RecordInv

\* The record of a block that moved is there until the task that moved it removes it.
LEMMA ReplacedKept ==
  ASSUME Named, RecordInv, [Next]_vars, NEW a \in Block, Replaced(a), Recorded(mt'.items, a)
  PROVE  Replaced(a)'
<1>1. PICK t \in Task : task[t].pc = "rremove" /\ task[t].addr = a
  BY DEF Replaced
<1>2. ~ ReallocRemove(t)
  <2>1. SUFFICES ASSUME ReallocRemove(t) PROVE FALSE
    OBVIOUS
  <2>2. a # NoAddr
    BY Constants DEF Block
  <2>3. mt' = RemoveTrace(mt, a)
    BY <1>1, <2>1, <2>2 DEF ReallocRemove
  <2> QED BY <2>3, RecordsLeft
<1>3. task'[t] = task[t]
  BY <1>1, <1>2, MovesByStep
<1> QED
  BY <1>1, <1>3 DEF Replaced

\* A block that has a record, before and after, keeps its name or is being replaced.
LEMMA RecordStaysNamed ==
  ASSUME Named, RecordInv, RecordInv', [Next]_vars, NEW a \in Block,
         NEW i \in DOMAIN mt.items, mt.items[i].addr = a,
         NEW j \in DOMAIN mt'.items, mt'.items[j].addr = a,
         NEW name, heap[a].name = name \/ Replaced(a)
  PROVE  heap'[a].name = name \/ Replaced(a)'
<1>0. mt.items[i].size > 0 /\ mt'.items[j].size > 0
  <2>1. mt.items[i] \in Item
    BY RecordType DEF RecordInv, TypeInv
  <2>2. mt'.items[j] \in Item
    <3>1. mt' \in Table
      BY DEF RecordInv, TypeInv, TableOK
    <3>2. mt'.items \in Seq(Item)
      BY <3>1 DEF Table
    <3>3. DOMAIN mt'.items = 1 .. Len(mt'.items)
      BY <3>2
    <3> QED BY <3>2, <3>3
  <2> QED BY <2>1, <2>2, ItemSize
<1>1. ASSUME Replaced(a) PROVE Replaced(a)'
  <2>1. Recorded(mt'.items, a)
    BY DEF Recorded
  <2> QED BY <1>1, <2>1, ReplacedKept
<1>2. heap[a].size > 0 \/ Replaced(a)
  BY <1>0 DEF RecordInv, Records
<1>3. heap'[a].size > 0 \/ Replaced(a)'
  <2>1. Records'
    BY DEF RecordInv
  <2>2. heap'[a].size = mt'.items[j].size \/ Replaced(a)'
    BY <2>1 DEF Records, Replaced
  <2> QED BY <1>0, <2>2
<1>4. mt.items # <<>>
  OBVIOUS
<1>5. ASSUME heap'[a].name # heap[a].name PROVE Replaced(a)'
  <2>1. \/ ~ Live(a)
        \/ InHand(a) /\ mt' = mt /\ mt.items = <<>>
        \/ \E t \in Task :
              /\ a \in Owned(task[t]) /\ task[t].pc \in {"kfree", "untrack", "mrealloc"}
              /\ heap'[a].size = 0 \/ (task'[t].pc = "rremove" /\ task'[t].addr = a)
    BY <1>5, NameChanges
  <2>2. CASE ~ Live(a)
    BY <1>1, <1>2, <2>2 DEF Live
  <2>3. CASE heap'[a].size = 0
    BY <1>3, <2>3
  <2>4. ASSUME NEW t \in Task, task'[t].pc = "rremove", task'[t].addr = a
        PROVE  Replaced(a)'
    BY <2>4 DEF Replaced
  <2> QED BY <1>4, <2>1, <2>2, <2>3, <2>4
<1> QED
  BY <1>1, <1>5

\* A record's id is that of its block's module, but for one to be replaced.
RecordsNamed ==
  \A i \in DOMAIN mt.items :
    LET r == mt.items[i]
    IN  /\ r.id + 1 \in DOMAIN mt.modules
        /\ heap[r.addr].name = mt.modules[r.id + 1].name \/ Replaced(r.addr)

NamedInv == NamesKnown /\ NamesHeld /\ Unique(mt.modules) /\ RecordsNamed

\* A record that was there stays what it was, under the same name.
LEMMA OldRecordNamed ==
  ASSUME Named, RecordInv, RecordInv', NamedInv, [Next]_vars,
         \A i \in DOMAIN mt.modules :
           i \in DOMAIN mt'.modules /\ mt'.modules[i].name = mt.modules[i].name,
         NEW i \in DOMAIN mt.items, NEW j \in DOMAIN mt'.items, mt'.items[j] = mt.items[i]
  PROVE  /\ mt'.items[j].id + 1 \in DOMAIN mt'.modules
         /\ \/ heap'[mt'.items[j].addr].name = mt'.modules[mt'.items[j].id + 1].name
            \/ Replaced(mt.items[j].addr)'
<1> DEFINE r == mt.items[i]
<1>1. r \in Item
  BY RecordType DEF RecordInv, TypeInv
<1>2. /\ r.id + 1 \in DOMAIN mt.modules
      /\ heap[r.addr].name = mt.modules[r.id + 1].name \/ Replaced(r.addr)
  BY DEF NamedInv, RecordsNamed
<1>3. PICK a \in Block : a = r.addr
  BY <1>1 DEF Item
<1>4. PICK name : name = mt.modules[r.id + 1].name
  OBVIOUS
<1>5. heap[a].name = name \/ Replaced(a)
  BY <1>2, <1>3, <1>4
<1>6. heap'[a].name = name \/ Replaced(a)'
  BY <1>3, <1>5, RecordStaysNamed
<1>7. Replaced(a)' => Replaced(mt.items[j].addr)'
  BY <1>3 DEF Replaced
<1> QED
  BY <1>2, <1>3, <1>4, <1>6, <1>7

LEMMA RecordsNamedKept ==
  ASSUME Named, RecordInv, RecordInv', NamedInv, [Next]_vars
  PROVE  RecordsNamed' /\ Unique(mt'.modules)
<1> USE DEF NamedInv
<1>0. Indexed
  BY DEF RecordsNamed, Indexed
<1>1. CASE UNCHANGED <<mt, lost>>
  <2>1. RecordsNamed'
    <3> SUFFICES ASSUME NEW j \in DOMAIN mt'.items
                 PROVE  /\ mt'.items[j].id + 1 \in DOMAIN mt'.modules
                        /\ \/ heap'[mt'.items[j].addr].name = mt'.modules[mt'.items[j].id + 1].name
                           \/ Replaced(mt.items[j].addr)'
      BY DEF RecordsNamed
    <3> QED BY <1>1, OldRecordNamed
  <2> QED BY <1>1, <2>1
<1>2. CASE mt' = Empty
  BY <1>2 DEF Empty, RecordsNamed, Unique
<1>3. ASSUME NEW t \in Task, NEW at \in Ids,
             task[t].pc \in {"add", "radd"}, task[t].name \in Module, task[t].new \in Block,
             \/ mt'.items = mt.items
             \/ mt'.items = Append(mt.items, [addr |-> task[t].new, size |-> task[t].size, id |-> at]),
             Charged(mt, mt', task[t].name, at, task[t].size)
      PROVE  RecordsNamed' /\ Unique(mt'.modules)
  <2>1. \A i \in DOMAIN mt.modules :
          i \in DOMAIN mt'.modules /\ mt'.modules[i].name = mt.modules[i].name
    BY <1>3 DEF Charged
  <2>2. SUFFICES ASSUME NEW j \in DOMAIN mt'.items
                 PROVE  /\ mt'.items[j].id + 1 \in DOMAIN mt'.modules
                        /\ \/ heap'[mt'.items[j].addr].name = mt'.modules[mt'.items[j].id + 1].name
                           \/ Replaced(mt.items[j].addr)'
    BY <1>3 DEF RecordsNamed, Charged
  <2>3. \/ j \in DOMAIN mt.items /\ mt'.items[j] = mt.items[j]
        \/ mt'.items[j] = [addr |-> task[t].new, size |-> task[t].size, id |-> at]
    <3>1. mt.items \in Seq(Item)
      BY DEF RecordInv, TypeInv, TableOK, Table
    <3> DEFINE r == [addr |-> task[t].new, size |-> task[t].size, id |-> at]
    <3>2. mt'.items = mt.items \/ mt'.items = Append(mt.items, r)
      BY <1>3
    <3> HIDE DEF r
    <3>3. (mt'.items[j] = mt.items[j] /\ j \in DOMAIN mt.items) \/ mt'.items[j] = r
      BY <3>1, <3>2
    <3> QED BY <3>3 DEF r
  <2>4. CASE mt'.items[j] = [addr |-> task[t].new, size |-> task[t].size, id |-> at]
    <3>1. /\ mt'.items[j].id = at /\ mt'.items[j].addr = task[t].new
      BY <2>4
    <3>2. at + 1 \in DOMAIN mt'.modules /\ mt'.modules[at + 1].name = task[t].name
      BY <1>3 DEF Charged
    <3>3. task[t].new # NoAddr
      BY <1>3, Constants DEF Block
    <3>4. heap'[task[t].new].name = task[t].name
      BY <1>3, <3>3, NewNameStays DEF NamesHeld
    <3> QED BY <3>1, <3>2, <3>4
  <2> QED BY <2>1, <2>3, <2>4, OldRecordNamed
<1>4. ASSUME NEW i \in DOMAIN mt.items, mt'.items = SwapRemove(mt.items, i),
             Discharged(mt, mt', mt.items[i].id, mt.items[i].size)
      PROVE  RecordsNamed' /\ Unique(mt'.modules)
  <2>1. /\ DOMAIN mt'.modules = DOMAIN mt.modules
        /\ \A k \in DOMAIN mt.modules : mt'.modules[k].name = mt.modules[k].name
    BY <1>4 DEF Discharged
  <2>2. Unique(mt'.modules)
    BY <2>1 DEF Unique
  <2>3. SUFFICES ASSUME NEW j \in DOMAIN mt'.items
                 PROVE  /\ mt'.items[j].id + 1 \in DOMAIN mt'.modules
                        /\ \/ heap'[mt'.items[j].addr].name = mt'.modules[mt'.items[j].id + 1].name
                           \/ Replaced(mt.items[j].addr)'
    BY <2>2 DEF RecordsNamed
  <2>4. mt.items \in Seq(Item)
    BY DEF RecordInv, TypeInv, TableOK, Table
  <2>5. \E k \in DOMAIN mt.items : mt'.items[j] = mt.items[k]
    <3>1. i \in 1 .. Len(mt.items) /\ DOMAIN mt.items = 1 .. Len(mt.items) /\ Len(mt.items) \in Nat
      BY <2>4
    <3>2. mt'.items = [k \in 1 .. Len(mt.items) - 1 |-> IF k = i THEN mt.items[Len(mt.items)] ELSE mt.items[k]]
      BY <1>4 DEF SwapRemove
    <3>3. j \in 1 .. Len(mt.items) - 1
          /\ mt'.items[j] = IF j = i THEN mt.items[Len(mt.items)] ELSE mt.items[j]
      BY <3>2, Zenon
    <3> QED BY <3>1, <3>3
  <2> QED BY <2>1, <2>5, OldRecordNamed
<1>5. \/ UNCHANGED <<mt, lost>>
      \/ mt' = Empty
      \/ \E t \in Task, at \in Ids :
           /\ task[t].pc \in {"add", "radd"} /\ task[t].name \in Module
           /\ task[t].new \in Block
           /\ \/ mt'.items = mt.items
              \/ mt'.items = Append(mt.items, [addr |-> task[t].new, size |-> task[t].size, id |-> at])
           /\ Charged(mt, mt', task[t].name, at, task[t].size)
      \/ \E i \in DOMAIN mt.items :
           mt'.items = SwapRemove(mt.items, i) /\ Discharged(mt, mt', mt.items[i].id, mt.items[i].size)
  BY <1>0, NamedSteps
<1> QED
  BY <1>1, <1>2, <1>3, <1>4, <1>5

\* The recorded blocks fit in the address space, so that no counter of them wraps.
RecordsFit == RecordedBytes < Word

\* Larger weights, larger sums.
LEMMA WeighAtMost ==
  ASSUME NEW items \in Seq(Item), NEW v \in [Item -> Nat], NEW w \in [Item -> Nat],
         \A r \in Item : v[r] <= w[r]
  PROVE  Weigh(items, v) <= Weigh(items, w)
<1> DEFINE f == [i \in DOMAIN items |-> v[items[i]]]
           h == [i \in DOMAIN items |-> w[items[i]]]
<1>1. IsFiniteSet(DOMAIN items)
  <2>1. DOMAIN items = 1 .. Len(items) /\ Len(items) \in Nat
    OBVIOUS
  <2> QED BY <2>1, FS_Interval
<1>2. \A i \in DOMAIN items : f[i] \in Nat /\ h[i] \in Nat /\ f[i] <= h[i]
  <2> TAKE i \in DOMAIN items
  <2>1. items[i] \in Item
    OBVIOUS
  <2> QED BY <2>1
<1>3. Weigh(items, v) = SumFunctionOnSet(f, DOMAIN items)
      /\ Weigh(items, w) = SumFunctionOnSet(h, DOMAIN items)
  BY DEF Weigh, SumFunction
<1> HIDE DEF f, h
<1> QED
  BY <1>1, <1>2, <1>3, SumAtMost

LEMMA WrapSmall == ASSUME NEW n \in Nat, n < Word PROVE Wrap(n) = n
BY Constants DEF Wrap

\* Between calls the records of a module are its traced blocks.
LEMMA RecordsOfModule ==
  ASSUME Named, RecordInv, TracedInv, NamedInv, Settled, NothingLost,
         NEW i \in DOMAIN mt.modules, NEW id \in Ids, id + 1 = i
  PROVE  Weigh(mt.items, OfModule(id))
           = SumFunctionOnSet([a \in Block |-> heap[a].size],
                              {a \in Block : heap[a].traced /\ heap[a].name = mt.modules[i].name})
<1> DEFINE D == DOMAIN mt.items
           T == {j \in D : mt.items[j].id = id}
           S == {a \in Block : heap[a].traced /\ heap[a].name = mt.modules[i].name}
           f == [j \in D |-> OfModule(id)[mt.items[j]]]
           h == [a \in Block |-> heap[a].size]
           b == [j \in T |-> mt.items[j].addr]
<1>1. \A a \in Block : ~ Replaced(a) /\ (heap[a].traced <=> Recorded(mt.items, a))
  <2>1. \A t \in Task : task[t].pc = "idle"
    BY DEF Settled, AllIdle
  <2>2. \A a \in Block : ~ Between(a) /\ ~ Replaced(a)
    BY <2>1 DEF Between, Replaced
  <2> QED BY <2>2 DEF TracedInv, Covered, RecordInv, TypeInv, HeapOK, HeapRec
<1>2. ASSUME NEW j \in D
      PROVE  /\ mt.items[j] \in Item /\ mt.items[j].addr \in Block
             /\ mt.items[j].id \in Ids /\ mt.items[j].size \in Nat
             /\ heap[mt.items[j].addr].size = mt.items[j].size
             /\ mt.items[j].id + 1 \in DOMAIN mt.modules
             /\ heap[mt.items[j].addr].name = mt.modules[mt.items[j].id + 1].name
  <2>1. mt.items[j] \in Item
    BY RecordType DEF RecordInv, TypeInv
  <2>2. mt.items[j].addr \in Block /\ mt.items[j].id \in Ids /\ mt.items[j].size \in Nat
    BY <2>1, SizesPositive DEF Item
  <2>3. ~ Replaced(mt.items[j].addr)
    BY <1>1, <2>2
  <2>4. heap[mt.items[j].addr].size = mt.items[j].size
    BY <2>3 DEF RecordInv, Records
  <2> QED BY <2>1, <2>2, <2>3, <2>4 DEF NamedInv, RecordsNamed
<1>3. IsFiniteSet(D) /\ T \in SUBSET D
  <2>0. mt.items \in Seq(Item)
    BY DEF RecordInv, TypeInv, TableOK, Table
  <2>1. D = 1 .. Len(mt.items) /\ Len(mt.items) \in Nat
    BY <2>0
  <2> QED BY <2>1, FS_Interval
<1>4. \A j \in D : f[j] = IF mt.items[j].id = id THEN mt.items[j].size ELSE 0
  BY <1>2 DEF OfModule
<1>5. /\ \A j \in D : f[j] \in Nat
      /\ \A j \in D \ T : f[j] = 0
      /\ \A j \in T : f[j] = mt.items[j].size
  <2> HIDE DEF f
  <2>1. \A j \in D : mt.items[j].size \in Nat
    BY <1>2
  <2> QED BY <1>4, <2>1
<1>6. Weigh(mt.items, OfModule(id)) = SumFunctionOnSet(f, D)
  BY DEF Weigh, SumFunction
<1>7. IsFiniteSet(T)
  BY <1>3, FS_Subset
<1>8. Renames(b, f, T, h, S)
  <2>1. ASSUME NEW j \in T PROVE b[j] \in S /\ h[b[j]] = f[j]
    <3>1. mt.items[j].id + 1 = i /\ j \in D
      OBVIOUS
    <3>2. Recorded(mt.items, mt.items[j].addr)
      BY <3>1 DEF Recorded
    <3>3. heap[mt.items[j].addr].traced
      BY <1>1, <1>2, <3>1, <3>2
    <3>4. mt.items[j].addr \in S
      BY <1>2, <3>1, <3>3
    <3> QED BY <1>2, <1>5, <3>1, <3>4
  <2>2. ASSUME NEW x \in T, NEW y \in T, b[x] = b[y] PROVE x = y
    BY <2>2 DEF RecordInv, Distinct
  <2>3. ASSUME NEW a \in S PROVE \E j \in T : b[j] = a
    <3>1. PICK j \in D : mt.items[j].addr = a
      BY <1>1 DEF Recorded
    <3>2. mt.modules[mt.items[j].id + 1].name = mt.modules[i].name
          /\ mt.items[j].id + 1 \in DOMAIN mt.modules
      BY <1>2, <3>1
    <3>3. mt.items[j].id + 1 = i
      BY <3>2 DEF NamedInv, Unique
    <3>4. mt.items[j].id = id
      BY <1>2, <3>3 DEF Ids
    <3> QED BY <3>1, <3>4
  <2> HIDE DEF b, T, S, f, h
  <2> QED BY <2>1, <2>2, <2>3 DEF Renames
<1>9. IsFiniteSet(S)
  <2>1. b \in Surjection(T, S)
    <3>1. DOMAIN b = T /\ b = [j \in T |-> b[j]]
      OBVIOUS
    <3> HIDE DEF b, T, S, f, h
    <3> QED BY <1>8, <3>1 DEF Renames, Surjection
  <2> HIDE DEF b, T, S
  <2> QED BY <1>7, <2>1, FS_Surjection
<1> HIDE DEF D, T, S, f, b
<1>10. SumFunctionOnSet(f, D) = SumFunctionOnSet(f, T)
  BY <1>3, <1>5, SumOfOthers
<1>11. \A j \in T : f[j] \in Nat
  BY <1>3, <1>5
<1> HIDE DEF h
<1>12. SumFunctionOnSet(h, S) = SumFunctionOnSet(f, T)
  BY <1>7, <1>8, <1>9, <1>11, SumRenamed
<1> QED
  BY <1>6, <1>10, <1>12 DEF h, S

\* Without a wrap the counter is that sum.
LEMMA UsageIsReported ==
  ASSUME Named, RecordInv, TracedInv, NamedInv, CountEach, RecordsFit
  PROVE  ModuleUsageExact
<1> SUFFICES ASSUME Settled, NothingLost, NEW i \in DOMAIN mt.modules
             PROVE  mt.modules[i].usage =
                      SumFunctionOnSet([a \in Block |-> heap[a].size],
                         {a \in Block : heap[a].traced /\ heap[a].name = mt.modules[i].name})
  BY DEF ModuleUsageExact
<1>1. PICK id \in Ids : id + 1 = i
  <2>0. mt.modules \in Seq(Entry) /\ Len(mt.modules) <= IdLimit + 1
    BY DEF RecordInv, TypeInv, TableOK, Table
  <2>1. i \in 1 .. Len(mt.modules)
    BY <2>0
  <2>2. i - 1 \in 0 .. IdLimit /\ i - 1 + 1 = i
    BY <2>0, <2>1, Constants
  <2> QED BY <2>2 DEF Ids
<1> DEFINE n == Weigh(mt.items, OfModule(id))
<1>2. mt.items \in Seq(Item) /\ TableOK
  BY DEF RecordInv, TypeInv, TableOK, Table
<1>3. n \in Nat
  BY <1>2, OfModuleType, WeighType
<1>4. n <= RecordedBytes
  <2>1. \A r \in Item : OfModule(id)[r] <= Sizes[r]
    <3> TAKE r \in Item
    <3>1. r.size \in Nat
      BY SizesPositive DEF Item
    <3>2. OfModule(id)[r] \in {0, r.size} /\ Sizes[r] = r.size
      BY DEF OfModule, Sizes
    <3> QED BY <3>1, <3>2
  <2>2. n <= Weigh(mt.items, Sizes)
    BY <1>2, <2>1, OfModuleType, SizesType, WeighAtMost
  <2> QED BY <1>2, <2>2, BytesAre DEF RecordedBytes
<1>5. RecordedBytes \in Nat
  BY <1>2, BytesAre, SizesType, WeighType DEF RecordedBytes
<1>6. UsageOf(mt.modules, id) = Wrap(n + 0)
  BY DEF CountEach, NothingLost
<1>7. UsageOf(mt.modules, id) = mt.modules[i].usage
  BY <1>1 DEF UsageOf
<1> HIDE DEF n
<1>8. Wrap(n + 0) = n
  BY <1>3, <1>4, <1>5, WrapSmall, Constants DEF RecordsFit
<1>9. n = SumFunctionOnSet([a \in Block |-> heap[a].size],
                         {a \in Block : heap[a].traced /\ heap[a].name = mt.modules[i].name})
  BY <1>1, RecordsOfModule DEF n
<1> QED
  BY <1>6, <1>7, <1>8, <1>9

LEMMA NamedInit == Init => RecordInv /\ TracedInv /\ NamedInv /\ CountEach
<1> SUFFICES ASSUME Init PROVE RecordInv /\ TracedInv /\ NamedInv /\ CountEach
  OBVIOUS
<1>1. RecordInv
  BY RecordInit
<1>2. TracedInv
  BY TracedInit
<1>3. mt = Empty /\ lost = [id \in Ids |-> 0] /\ \A t \in Task : task[t].pc = "idle"
  BY DEF Init, Idle
<1>4. mt.items = <<>> /\ mt.modules = <<>>
  BY <1>3 DEF Empty
<1>5. NamedInv
  BY <1>3, <1>4 DEF NamedInv, NamesKnown, NamesHeld, Unique, RecordsNamed
<1>6. CountEach
  <2> SUFFICES ASSUME NEW id \in Ids
               PROVE  UsageOf(mt.modules, id) = Wrap(Weigh(mt.items, OfModule(id)) + lost[id])
    BY DEF CountEach
  <2>1. <<>> \in Seq(Item)
    OBVIOUS
  <2>2. Weigh(mt.items, OfModule(id)) = 0
    BY <1>4, <2>1, OfModuleType, WeighType
  <2>3. UsageOf(mt.modules, id) = 0
    BY <1>4 DEF UsageOf
  <2>4. Wrap(0 + 0) = 0
    BY Constants DEF Wrap
  <2> QED BY <1>3, <2>2, <2>3, <2>4
<1> QED
  BY <1>1, <1>2, <1>5, <1>6

LEMMA NamedStep ==
  ASSUME Named, RecordInv, TracedInv, NamedInv, CountEach, [Next]_vars
  PROVE  RecordInv' /\ TracedInv' /\ NamedInv' /\ CountEach'
<1>1. RecordInv' /\ TracedInv'
  BY TracedStep DEF Named
<1>2. NamedInv'
  BY <1>1, RecordsNamedKept, NamesKnownKept, NamesHeldKept DEF NamedInv
<1>3. Indexed
  BY DEF NamedInv, RecordsNamed, Indexed
<1>4. CountEach'
  BY <1>3, CountEachKept DEF NamedInv
<1> QED
  BY <1>1, <1>2, <1>4

\* For every set of tasks, blocks, sizes and modules, if every call names its
\* module and the recorded blocks fit in the address space: between calls, while
\* the table never was full, media_lib_get_mem_usage answers for each module the
\* bytes of its traced blocks that are alive.
THEOREM ModuleUsageIsExact ==
  ASSUME Named
  PROVE  Spec /\ []RecordsFit => []ModuleUsageExact
<1> DEFINE I == RecordInv /\ TracedInv /\ NamedInv /\ CountEach
<1>1. Init => I
  BY NamedInit
<1>2. I /\ [Next]_vars => I'
  BY NamedStep
<1>3. I /\ RecordsFit => ModuleUsageExact
  BY UsageIsReported
<1> HIDE DEF I
<1> QED
  BY <1>1, <1>2, <1>3, PTL DEF Spec

-----------------------------------------------------------------------------
(* The peaks.  Without a wrap the modules' usage adds up to the whole, so  *)
(* no module is charged above it and the whole not above all modules.      *)

\* No counter wraps: what is recorded and what was counted without a record fit.
CountersFit == RecordedBytes + LostBytes < Word

Usages(m) == [id \in Ids |-> UsageOf(m.modules, id)]
Peaks(m)  == [id \in Ids |-> PeakOf(m.modules, id)]
Total(f)  == SumFunctionOnSet(f, Ids)

\* The modules' usage adds up to the whole, and the peaks lie as they should.
PeaksFit(m) ==
  /\ m.usage = Total(Usages(m))
  /\ \A id \in Ids : /\ UsageOf(m.modules, id) <= PeakOf(m.modules, id)
                     /\ PeakOf(m.modules, id) <= m.peak
  /\ m.peak <= Total(Peaks(m))

LEMMA IdsFinite == IsFiniteSet(Ids)
BY FS_Interval, Constants DEF Ids

\* A total is a number, and no smaller than any of its terms.
LEMMA TotalType ==
  ASSUME NEW f \in [Ids -> Nat]
  PROVE  Total(f) \in Nat /\ \A id \in Ids : f[id] <= Total(f)
<1>1. Total(f) \in Nat
  BY IdsFinite, SumChosen DEF Total
<1>2. ASSUME NEW id \in Ids PROVE f[id] <= Total(f)
  <2>1. Total(f) = f[id] + SumFunctionOnSet(f, Ids \ {id})
    BY IdsFinite, SumWithout DEF Total
  <2>2. IsFiniteSet(Ids \ {id})
    BY IdsFinite, FS_Subset
  <2>3. SumFunctionOnSet(f, Ids \ {id}) \in Nat
    BY <2>2, SumChosen
  <2>4. f[id] \in Nat
    OBVIOUS
  <2> QED BY <2>1, <2>3, <2>4
<1> QED
  BY <1>1, <1>2

LEMMA TotalChanged ==
  ASSUME NEW f \in [Ids -> Nat], NEW h \in [Ids -> Nat], NEW at \in Ids,
         \A id \in Ids \ {at} : h[id] = f[id]
  PROVE  Total(h) + f[at] = Total(f) + h[at]
BY IdsFinite, SumChanged DEF Total

LEMMA TotalAtMost ==
  ASSUME NEW f \in [Ids -> Nat], NEW h \in [Ids -> Nat], \A id \in Ids : f[id] <= h[id]
  PROVE  Total(f) <= Total(h)
BY IdsFinite, SumAtMost DEF Total

LEMMA UsagesType ==
  ASSUME NEW m \in Table
  PROVE  /\ Usages(m) \in [Ids -> Nat] /\ Peaks(m) \in [Ids -> Nat]
         /\ m.usage \in Nat /\ m.usage < Word /\ m.peak \in Nat
<1>1. m.modules \in Seq(Entry) /\ m.usage \in 0 .. Word - 1 /\ m.peak \in 0 .. Word - 1
  BY DEF Table
<1>2. ASSUME NEW id \in Ids
      PROVE  UsageOf(m.modules, id) \in Nat /\ PeakOf(m.modules, id) \in Nat
  <2>1. CASE id + 1 \in DOMAIN m.modules
    <3>1. m.modules[id + 1] \in Entry
      BY <1>1, <2>1
    <3> QED BY <2>1, <3>1, Constants DEF Entry, UsageOf, PeakOf
  <2>2. CASE id + 1 \notin DOMAIN m.modules
    BY <2>2 DEF UsageOf, PeakOf
  <2> QED BY <2>1, <2>2
<1> QED
  BY <1>1, <1>2, Constants DEF Usages, Peaks

\* Charging keeps the peaks fitting, if the whole does not wrap.
LEMMA PeaksCharged ==
  ASSUME NEW m \in Table, NEW new \in Table, PeaksFit(m), NEW name, NEW at \in Ids, NEW n \in Nat,
         Charged(m, new, name, at, n), new.usage = m.usage + n
  PROVE  PeaksFit(new)
<1> DEFINE f == Usages(m)
           h == Usages(new)
           p == Peaks(m)
           q == Peaks(new)
<1>1. /\ f \in [Ids -> Nat] /\ h \in [Ids -> Nat] /\ p \in [Ids -> Nat] /\ q \in [Ids -> Nat]
      /\ m.usage \in Nat /\ m.peak \in Nat /\ new.usage \in Nat /\ new.peak \in Nat
      /\ new.usage < Word
  BY UsagesType
<1>2. /\ m.usage = Total(f) /\ m.peak <= Total(p)
      /\ \A id \in Ids : f[id] <= p[id] /\ p[id] <= m.peak
  BY DEF PeaksFit, Usages, Peaks
<1>3. /\ new.peak = MaxOf(m.peak, new.usage)
      /\ \A id \in Ids :
           IF id = at THEN h[id] = Wrap(f[id] + n) /\ q[id] = MaxOf(p[id], h[id])
           ELSE h[id] = f[id] /\ q[id] = p[id]
  BY DEF Charged, Usages, Peaks
<1> SUFFICES /\ new.usage = Total(h) /\ new.peak <= Total(q)
             /\ \A id \in Ids : h[id] <= q[id] /\ q[id] <= new.peak
  BY DEF PeaksFit, Usages, Peaks
<1> HIDE DEF f, h, p, q
<1>4. f[at] <= m.usage /\ f[at] \in Nat
  BY <1>1, <1>2, TotalType
<1>5. h[at] = f[at] + n
  <2>1. f[at] + n \in Nat /\ f[at] + n < Word
    BY <1>1, <1>4, Constants
  <2> QED BY <1>3, <2>1, WrapSmall
<1>6. Total(f) \in Nat /\ Total(h) \in Nat /\ Total(p) \in Nat /\ Total(q) \in Nat
  BY <1>1, TotalType
<1>7. new.usage = Total(h)
  <2>1. Total(h) + f[at] = Total(f) + h[at]
    BY <1>1, <1>3, TotalChanged
  <2> QED BY <1>1, <1>2, <1>4, <1>5, <1>6, <2>1
<1>8. ASSUME NEW id \in Ids
      PROVE  h[id] <= q[id] /\ q[id] <= new.peak /\ p[id] <= q[id]
  <2>0. h[id] \in Nat /\ q[id] \in Nat /\ p[id] \in Nat /\ f[id] \in Nat /\ h[id] <= new.usage
    BY <1>1, <1>7, TotalType
  <2>1. m.peak <= new.peak /\ new.usage <= new.peak
    BY <1>1, <1>3 DEF MaxOf
  <2>2. CASE id = at
    <3>1. q[id] = MaxOf(p[id], h[id])
      BY <1>3, <2>2
    <3> QED BY <1>1, <1>2, <2>0, <2>1, <3>1 DEF MaxOf
  <2>3. CASE id # at
    <3>1. h[id] = f[id] /\ q[id] = p[id]
      BY <1>3, <2>3
    <3> QED BY <1>1, <1>2, <2>0, <2>1, <3>1
  <2> QED BY <2>2, <2>3
<1>9. Total(p) <= Total(q) /\ Total(h) <= Total(q)
  BY <1>1, <1>8, TotalAtMost
<1>10. new.peak <= Total(q)
  BY <1>1, <1>2, <1>3, <1>6, <1>7, <1>9 DEF MaxOf
<1> QED
  BY <1>7, <1>8, <1>10

\* Giving back keeps them, if the module has that much.
LEMMA PeaksDischarged ==
  ASSUME NEW m \in Table, NEW new \in Table, PeaksFit(m), NEW at \in Ids, NEW n \in Nat,
         Discharged(m, new, at, n), n <= UsageOf(m.modules, at)
  PROVE  PeaksFit(new)
<1> DEFINE f == Usages(m)
           h == Usages(new)
           p == Peaks(m)
<1>1. /\ f \in [Ids -> Nat] /\ h \in [Ids -> Nat] /\ p \in [Ids -> Nat]
      /\ m.usage \in Nat /\ m.peak \in Nat /\ m.usage < Word
  BY UsagesType
<1>2. /\ m.usage = Total(f) /\ m.peak <= Total(p) /\ n <= f[at]
      /\ \A id \in Ids : f[id] <= p[id] /\ p[id] <= m.peak
  BY DEF PeaksFit, Usages, Peaks
<1>3. /\ new.peak = m.peak /\ new.usage = Wrap(m.usage - n)
      /\ \A id \in Ids : h[id] = IF id = at THEN Wrap(f[id] - n) ELSE f[id]
  BY DEF Discharged, Usages
<1>4. Peaks(new) = p
  BY DEF Discharged, Peaks
<1> SUFFICES /\ new.usage = Total(h)
             /\ \A id \in Ids : h[id] <= p[id] /\ p[id] <= m.peak
  BY <1>2, <1>3, <1>4 DEF PeaksFit, Usages, Peaks
<1> HIDE DEF f, h, p
<1>5. f[at] <= m.usage /\ f[at] \in Nat
  BY <1>1, <1>2, TotalType
<1>6. h[at] = f[at] - n /\ new.usage = m.usage - n
  <2>1. f[at] - n \in Nat /\ f[at] - n < Word /\ m.usage - n \in Nat /\ m.usage - n < Word
    BY <1>1, <1>2, <1>5, Constants
  <2> QED BY <1>3, <2>1, WrapSmall
<1>7. Total(f) \in Nat /\ Total(h) \in Nat
  BY <1>1, TotalType
<1>8. new.usage = Total(h)
  <2>1. Total(h) + f[at] = Total(f) + h[at]
    BY <1>1, <1>3, TotalChanged
  <2> QED BY <1>1, <1>2, <1>5, <1>6, <1>7, <2>1
<1>9. ASSUME NEW id \in Ids PROVE h[id] <= p[id] /\ p[id] <= m.peak
  <2>1. p[id] \in Nat /\ f[id] \in Nat /\ f[id] <= p[id]
    BY <1>1, <1>2
  <2> QED BY <1>2, <1>3, <1>6, <2>1
<1> QED
  BY <1>8, <1>9

\* Without a wrap, the usage grows by what is charged.
LEMMA UsageGrows ==
  ASSUME TypeInv, TypeInv', CountAll, CountAll', CountersFit, CountersFit',
         NEW at \in Ids, NEW r \in Item,
         \/ mt'.items = mt.items /\ lost' = [lost EXCEPT ![at] = @ + r.size]
         \/ mt'.items = Append(mt.items, r) /\ lost' = lost
  PROVE  mt'.usage = mt.usage + r.size
<1> DEFINE w == Weigh(mt.items, Sizes)
           v == Weigh(mt'.items, Sizes)
<1>0. mt.items \in Seq(Item) /\ lost \in [Ids -> Nat] /\ r.size \in Nat
  BY SizesPositive DEF TypeInv, TableOK, Table, Item
<1>1. mt'.items \in Seq(Item)
  <2>1. mt' \in Table
    BY DEF TypeInv, TableOK
  <2> QED BY <2>1 DEF Table
<1>2. w \in Nat /\ v \in Nat /\ LostBytes \in Nat
  BY <1>0, <1>1, SizesType, WeighType, LostMore
<1>3. v + LostBytes' = w + LostBytes + r.size /\ LostBytes' \in Nat
  <2>1. CASE mt'.items = mt.items /\ lost' = [lost EXCEPT ![at] = @ + r.size]
    <3>1. LostBytes' = LostBytes + r.size
      BY <1>0, <2>1, LostMore
    <3> QED BY <1>0, <1>2, <2>1, <3>1
  <2>2. CASE mt'.items = Append(mt.items, r) /\ lost' = lost
    <3>1. v = w + r.size
      BY <1>0, <2>2, SizesType, WeighAppend DEF Sizes
    <3>2. LostBytes' = LostBytes
      BY <2>2 DEF LostBytes
    <3> QED BY <1>0, <1>2, <3>1, <3>2
  <2> QED BY <2>1, <2>2
<1>4. mt.usage = Wrap(w + LostBytes) /\ mt'.usage = Wrap(v + LostBytes')
  BY DEF CountAll, Sizes
<1>5. w + LostBytes < Word
  BY <1>0, BytesAre DEF CountersFit, RecordedBytes
<1>6. v + LostBytes' < Word
  BY <1>1, BytesAre DEF CountersFit, RecordedBytes
<1> HIDE DEF w, v
<1>7. mt.usage = w + LostBytes /\ mt'.usage = v + LostBytes'
  BY <1>2, <1>3, <1>4, <1>5, <1>6, WrapSmall
<1> QED
  BY <1>0, <1>2, <1>3, <1>7

\* What a record gives back was charged to its module.
LEMMA ChargedBefore ==
  ASSUME TypeInv, CountEach, CountersFit, NEW i \in DOMAIN mt.items
  PROVE  mt.items[i].size <= UsageOf(mt.modules, mt.items[i].id)
<1> DEFINE r == mt.items[i]
           at == mt.items[i].id
           w == Weigh(mt.items, OfModule(at))
           v == Weigh(SwapRemove(mt.items, i), OfModule(at))
           all == Weigh(mt.items, Sizes)
<1>0. mt.items \in Seq(Item) /\ lost \in [Ids -> Nat] /\ r \in Item
  BY RecordType DEF TypeInv, TableOK, Table
<1>1. r.size \in Nat /\ at \in Ids /\ OfModule(at)[r] = r.size
  <2> DEFINE x == r.size
  <2>1. r.size \in Size /\ at \in Ids
    BY <1>0 DEF Item
  <2>2. OfModule(at)[r] = r.size
    BY <1>0 DEF OfModule
  <2> QED BY <2>1, <2>2, SizesPositive
<1> HIDE DEF r, at
<1>2. OfModule(at) \in [Item -> Nat]
  BY <1>1, OfModuleType
<1>3. w = v + r.size
  BY <1>0, <1>1, <1>2, WeighSwapRemove DEF r
<1>4. w \in Nat /\ v \in Nat /\ all \in Nat
  <2>1. i \in 1 .. Len(mt.items)
    BY <1>0
  <2> QED BY <1>0, <1>2, <2>1, SwapRemoveKeeps, SizesType, WeighType
<1>5. w <= all
  <2>1. \A x \in Item : OfModule(at)[x] <= Sizes[x]
    <3> TAKE x \in Item
    <3>1. x.size \in Nat
      BY SizesPositive DEF Item
    <3>2. OfModule(at)[x] \in {0, x.size} /\ Sizes[x] = x.size
      BY DEF OfModule, Sizes
    <3> QED BY <3>1, <3>2
  <2> QED BY <1>0, <1>2, <2>1, SizesType, WeighAtMost
<1>6. lost[at] <= LostBytes /\ LostBytes \in Nat /\ lost[at] \in Nat
  <2>1. LostBytes = Total(lost)
    BY <1>0 DEF LostBytes, SumFunction, Total
  <2> QED BY <1>0, <1>1, <2>1, TotalType
<1>7. all + LostBytes < Word
  BY <1>0, BytesAre DEF CountersFit, RecordedBytes
<1>8. UsageOf(mt.modules, at) = Wrap(w + lost[at])
  BY <1>1 DEF CountEach
<1> HIDE DEF w, v, all
<1>9. Wrap(w + lost[at]) = w + lost[at]
  BY <1>4, <1>5, <1>6, <1>7, WrapSmall, Constants
<1>10. r.size <= UsageOf(mt.modules, at)
  BY <1>1, <1>3, <1>4, <1>6, <1>8, <1>9
<1> QED
  BY <1>10 DEF r, at

LEMMA EmptyPeaks == PeaksFit(Empty)
<1>1. \A id \in Ids : UsageOf(Empty.modules, id) = 0 /\ PeakOf(Empty.modules, id) = 0
  BY DEF Empty, UsageOf, PeakOf
<1> DEFINE f == [id \in Ids |-> 0]
<1>2. Usages(Empty) = f /\ Peaks(Empty) = f
  BY <1>1 DEF Usages, Peaks
<1>3. Total(f) = 0
  <2>1. Total(f) = SumFunction(f)
    BY DEF Total, SumFunction
  <2> QED BY <2>1, NoneLost
<1>4. Empty.usage = 0 /\ Empty.peak = 0
  BY DEF Empty
<1> QED
  BY <1>1, <1>2, <1>3, <1>4 DEF PeaksFit

LEMMA PeaksKept ==
  ASSUME Named, RecordInv, RecordInv', NamedInv, CountEach, CountAll, CountAll',
         CountersFit, CountersFit', PeaksFit(mt), [Next]_vars
  PROVE  PeaksFit(mt')
<1>0. mt \in Table /\ mt' \in Table /\ Indexed /\ NamesKnown /\ Unique(mt.modules)
  BY DEF RecordInv, TypeInv, TableOK, NamedInv, RecordsNamed, Indexed
<1>1. CASE UNCHANGED <<mt, lost>>
  BY <1>1
<1>2. CASE mt' = Empty
  BY <1>2, EmptyPeaks
<1>3. ASSUME NEW t \in Task, NEW at \in Ids, task[t].new \in Block, task[t].size \in Size,
             \/ mt'.items = mt.items /\ lost' = [lost EXCEPT ![at] = @ + task[t].size]
             \/ /\ mt'.items = Append(mt.items, [addr |-> task[t].new, size |-> task[t].size, id |-> at])
                /\ lost' = lost,
             Charged(mt, mt', task[t].name, at, task[t].size)
      PROVE  PeaksFit(mt')
  <2>1. PICK r \in Item : r = [addr |-> task[t].new, size |-> task[t].size, id |-> at]
    BY <1>3 DEF Item
  <2>2. r.size = task[t].size /\ r.size \in Nat
    BY <1>3, <2>1, SizesPositive
  <2>3. mt'.usage = mt.usage + r.size
    BY <1>3, <2>1, <2>2, UsageGrows DEF RecordInv
  <2> QED BY <1>0, <1>3, <2>2, <2>3, PeaksCharged
<1>4. ASSUME NEW i \in DOMAIN mt.items,
             Discharged(mt, mt', mt.items[i].id, mt.items[i].size)
      PROVE  PeaksFit(mt')
  <2>1. mt.items[i] \in Item
    BY RecordType DEF RecordInv, TypeInv
  <2>2. mt.items[i].id \in Ids /\ mt.items[i].size \in Nat
    BY <2>1, SizesPositive DEF Item
  <2>3. mt.items[i].size <= UsageOf(mt.modules, mt.items[i].id)
    BY ChargedBefore DEF RecordInv
  <2> QED BY <1>0, <1>4, <2>2, <2>3, PeaksDischarged
<1>5. \/ UNCHANGED <<mt, lost>>
      \/ mt' = Empty
      \/ \E t \in Task, at \in Ids :
           /\ task[t].new \in Block /\ task[t].size \in Size
           /\ \/ mt'.items = mt.items /\ lost' = [lost EXCEPT ![at] = @ + task[t].size]
              \/ /\ mt'.items = Append(mt.items, [addr |-> task[t].new, size |-> task[t].size, id |-> at])
                 /\ lost' = lost
           /\ Charged(mt, mt', task[t].name, at, task[t].size)
      \/ \E i \in DOMAIN mt.items : Discharged(mt, mt', mt.items[i].id, mt.items[i].size)
  BY <1>0, NamedSteps
<1> QED
  BY <1>1, <1>2, <1>3, <1>4, <1>5

\* The peaks of the list add up to those of the ids.
LEMMA PeaksOfList ==
  ASSUME TypeInv
  PROVE  SumFunction([i \in DOMAIN mt.modules |-> mt.modules[i].peak]) = Total(Peaks(mt))
<1> DEFINE D == DOMAIN mt.modules
           T == {id \in Ids : id + 1 \in D}
           h == [i \in D |-> mt.modules[i].peak]
           b == [id \in T |-> id + 1]
           p == Peaks(mt)
<1>0. mt \in Table /\ mt.modules \in Seq(Entry) /\ Len(mt.modules) <= IdLimit + 1
  BY DEF TypeInv, TableOK, Table
<1>1. D = 1 .. Len(mt.modules) /\ Len(mt.modules) \in Nat
  BY <1>0
<1>2. IsFiniteSet(D)
  BY <1>1, FS_Interval
<1>3. p \in [Ids -> Nat] /\ \A id \in Ids : p[id] = IF id \in T THEN h[id + 1] ELSE 0
  BY <1>0, UsagesType DEF Peaks, PeakOf
<1>4. Renames(b, p, T, h, D)
  <2>1. \A id \in T : b[id] \in D /\ h[b[id]] = p[id]
    BY <1>3
  <2>2. \A x, y \in T : b[x] = b[y] => x = y
    BY DEF Ids
  <2>3. ASSUME NEW i \in D PROVE \E id \in T : b[id] = i
    <3>1. i - 1 \in T /\ i - 1 + 1 = i
      BY <1>0, <1>1, Constants DEF Ids
    <3> QED BY <3>1
  <2> HIDE DEF b, h, T, D, p
  <2> QED BY <2>1, <2>2, <2>3 DEF Renames
<1>5. T \in SUBSET Ids /\ IsFiniteSet(T)
  BY IdsFinite, FS_Subset
<1>6. SumFunction(h) = SumFunctionOnSet(h, D)
  BY DEF SumFunction
<1> HIDE DEF b, h, T, D, p
<1>7. \A id \in T : p[id] \in Nat
  BY <1>3, <1>5
<1>8. SumFunctionOnSet(h, D) = SumFunctionOnSet(p, T)
  BY <1>2, <1>4, <1>5, <1>7, SumRenamed
<1>9. SumFunctionOnSet(p, Ids) = SumFunctionOnSet(p, T)
  BY <1>3, <1>5, IdsFinite, SumOfOthers
<1> QED
  BY <1>6, <1>8, <1>9 DEF Total, h, D, p

LEMMA PeaksAreReported ==
  ASSUME TypeInv, PeaksFit(mt)
  PROVE  ModulePeaksFit
<1>0. mt.modules \in Seq(Entry) /\ Len(mt.modules) <= IdLimit + 1
  BY DEF TypeInv, TableOK, Table
<1>1. ASSUME NEW i \in DOMAIN mt.modules PROVE mt.modules[i].peak <= mt.peak
  <2>1. i \in 1 .. Len(mt.modules)
    BY <1>0
  <2>2. i - 1 \in Ids /\ i - 1 + 1 = i
    BY <1>0, <2>1, Constants DEF Ids
  <2>3. PeakOf(mt.modules, i - 1) = mt.modules[i].peak
    BY <2>2 DEF PeakOf
  <2> QED BY <2>2, <2>3 DEF PeaksFit
<1> QED
  BY <1>1, PeaksOfList DEF ModulePeaksFit, PeaksFit

\* For every set of tasks, blocks, sizes and modules, if every call names its
\* module and no counter wraps: no module peaked above the whole, and the whole
\* not above the sum of the modules' peaks.
THEOREM ModulePeaksFitTogether ==
  ASSUME Named
  PROVE  Spec /\ []CountersFit => []ModulePeaksFit
<1> DEFINE I == RecordInv /\ TracedInv /\ NamedInv /\ CountEach /\ CountAll /\ PeaksFit(mt)
<1>1. Init => I
  BY NamedInit, CountInit, EmptyPeaks DEF Init
<1>2. I /\ CountersFit /\ CountersFit' /\ [Next]_vars => I'
  <2> SUFFICES ASSUME RecordInv, TracedInv, NamedInv, CountEach, CountAll, PeaksFit(mt),
                      CountersFit, CountersFit', [Next]_vars
               PROVE  I'
    OBVIOUS
  <2>1. RecordInv' /\ TracedInv' /\ NamedInv' /\ CountEach'
    BY NamedStep
  <2>2. CountAll'
    BY CountAllKept DEF RecordInv
  <2>3. PeaksFit(mt')
    BY <2>1, <2>2, PeaksKept
  <2>4. PeaksFit(mt)'
    BY <2>3 DEF PeaksFit, Total, Usages, Peaks, UsageOf, PeakOf
  <2> QED BY <2>1, <2>2, <2>4
<1>3. I => ModulePeaksFit
  BY PeaksAreReported DEF RecordInv
<1> HIDE DEF I
<1> QED
  BY <1>1, <1>2, <1>3, PTL DEF Spec
=============================================================================
