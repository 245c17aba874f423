------------------------------ MODULE HlsProofs ------------------------------
(***************************************************************************)
(* HlsRead implements HlsStream, and the segment callback comes before the *)
(* media of its segment, for any stream, segments, sizes of block, bus and *)
(* reads, and places to seek to.                                           *)
(*                                                                         *)
(* And, for any number of handles, ios and URLs (HlsSource): a fetcher     *)
(* that keeps to what Careful says reads what it asked for through every   *)
(* handle, whatever fails; and, if an io that was made always opens, each  *)
(* io or FILE that was not ended has its one owner.                        *)
(***************************************************************************)
EXTENDS HlsRead, HlsSource, SequenceTheorems, WellFoundedInduction, TLAPS

-----------------------------------------------------------------------------
(***************************************************************************)
(* The filter and the bus.                                                 *)
(*                                                                         *)
(* What the filter relies on is that the bus can be read from where it     *)
(* stands.  Aligned says so with three functions on the places of the bus, *)
(* the end included: R[i] media bytes of a frame are still to come at i,   *)
(* P[i] is where they are in the stream, and T[i] the segment that will    *)
(* have been told by then.                                                 *)
(***************************************************************************)

-----------------------------------------------------------------------------
(* Segments                                                                *)

LEMMA SegOfIs ==
  ASSUME NEW at \in Nat
  PROVE  /\ SegOf(at) \in SegStart /\ SegOf(at) \in Nat /\ SegOf(at) <= at
         /\ \A r \in SegStart : r <= at => r <= SegOf(at)
<1> DEFINE Before == {s \in SegStart : s <= at}
           Away   == {at - s : s \in Before}
<1>0. SegStart \subseteq Nat /\ 0 \in SegStart BY HlsConstants
<1>1. Away \subseteq Nat /\ at \in Away
  <2>1. Away \subseteq Nat BY <1>0
  <2>2. 0 \in Before /\ at - 0 = at BY <1>0
  <2> QED BY <2>1, <2>2
<1>2. PICK d \in Away : \A e \in Away : ~ (<<e, d>> \in OpToRel(<, Nat))
  BY <1>1, WFMin, NatLessThanWellFounded
<1>3. PICK s \in Before : d = at - s BY <1>2
<1>4. \A r \in Before : r <= s
  <2> SUFFICES ASSUME NEW r \in Before, ~ (r <= s) PROVE FALSE OBVIOUS
  <2>1. r \in Nat /\ s \in Nat /\ r <= at /\ s <= at BY <1>0, <1>3
  <2>2. at - r \in Nat /\ d \in Nat /\ at - r < d BY <2>1, <1>3
  <2>3. <<at - r, d>> \in OpToRel(<, Nat) BY <2>2 DEF OpToRel
  <2> QED BY <2>3, <1>2
<1>5. s \in SegStart /\ s <= at /\ \A r \in SegStart : r <= at => r <= s BY <1>3, <1>4
<1> HIDE DEF Before, Away
<1> QED BY <1>5, <1>0 DEF SegOf

\* Between two beginnings the segment is the same.
LEMMA SameSegment ==
  ASSUME NEW p \in Nat, NEW q \in Nat, p <= q,
         \A s \in SegStart : ~ (p < s /\ s <= q)
  PROVE  SegOf(q) = SegOf(p)
<1>1. SegOf(q) \in SegStart /\ SegOf(q) \in Nat /\ SegOf(q) <= q
      /\ \A r \in SegStart : r <= q => r <= SegOf(q) BY SegOfIs
<1>2. SegOf(p) \in SegStart /\ SegOf(p) \in Nat /\ SegOf(p) <= p
      /\ \A r \in SegStart : r <= p => r <= SegOf(p) BY SegOfIs
<1>3. SegOf(q) <= p BY <1>1
<1>4. SegOf(q) <= SegOf(p) /\ SegOf(p) <= SegOf(q) BY <1>1, <1>2, <1>3
<1> QED BY <1>1, <1>2, <1>4

-----------------------------------------------------------------------------
(* The bus                                                                 *)

Frames(b, R, P, T) ==
  /\ \A i \in 1 .. Len(b) : R[i] = 0 =>
       /\ R[i + 1] = b[i].n /\ b[i].n <= Block
       /\ P[i + 1] = P[i]
       /\ T[i + 1] = IF b[i].bos THEN b[i].seg ELSE T[i]
  /\ \A i \in 1 .. Len(b) : R[i] > 0 => b[i] = Media(P[i]) /\ T[i] = SegOf(P[i])
  /\ \A i \in 1 .. Len(b) + 1 : i + R[i] <= Len(b) + 1
  /\ \A i, j \in 1 .. Len(b) + 1 : i <= j /\ j <= i + R[i] =>
       R[j] = R[i] - (j - i) /\ P[j] = P[i] + (j - i) /\ T[j] = T[i]

Places(b, R, P, T) ==
  /\ R \in [1 .. Len(b) + 1 -> Nat]
  /\ P \in [1 .. Len(b) + 1 -> 0 .. Total]
  /\ T \in [1 .. Len(b) + 1 -> Nat \cup {-1}]

\* From rem bytes of a frame, the place at and the segment t to the place end.
Aligned(b, rem, at, t, end, fr) ==
  \E R, P, T :
    /\ Places(b, R, P, T) /\ Frames(b, R, P, T)
    /\ R[1] = rem /\ P[1] = at /\ T[1] = t
    /\ R[Len(b) + 1] = 0 /\ P[Len(b) + 1] = end
    /\ fr \/ T[Len(b) + 1] = SegOf(end)

LEMMA EmptyAligned ==
  ASSUME NEW at \in 0 .. Total, NEW t \in Nat \cup {-1}
  PROVE  Aligned(<<>>, 0, at, t, at, TRUE)
<1> DEFINE R == [i \in 1 .. 1 |-> 0]
           P == [i \in 1 .. 1 |-> at]
           T == [i \in 1 .. 1 |-> t]
<1>1. Len(<<>>) = 0 BY EmptySeq
<1>2. Places(<<>>, R, P, T) BY <1>1 DEF Places
<1>3. Frames(<<>>, R, P, T) BY <1>1 DEF Frames
<1> QED BY <1>1, <1>2, <1>3 DEF Aligned

LEMMA EmptyAtEnd ==
  ASSUME NEW rem, NEW at, NEW t, NEW end, NEW fr, Aligned(<<>>, rem, at, t, end, fr)
  PROVE  at = end
<1>1. Len(<<>>) + 1 = 1 BY EmptySeq
<1> QED BY <1>1 DEF Aligned

\* Places before a header, at it and behind it.
LEMMA ThreePlaces == ASSUME NEW l \in Nat, NEW i \in Int PROVE i <= l \/ i = l + 1 \/ i >= l + 2
OBVIOUS
LEMMA BehindHeader ==
  ASSUME NEW l \in Nat, NEW s \in Nat, NEW e \in Nat
  PROVE  l + 2 + s - (l + 2) = s /\ e + (l + 2) - l - 2 = e
OBVIOUS
LEMMA FromOneToTheOther ==
  ASSUME NEW l \in Nat, NEW size \in Nat, NEW end \in Nat, NEW i \in Int, NEW j \in Int
  PROVE  /\ l + 2 + size - j = l + 2 + size - i - (j - i)
         /\ end + j - l - 2 = end + i - l - 2 + (j - i)
OBVIOUS
LEMMA Beyond ==
  ASSUME NEW l \in Nat, NEW s \in Nat, NEW i \in 1 .. l + s, ~ (i <= l) PROVE i - l \in 1 .. s
OBVIOUS

\* A header with its frame behind it.
LEMMA FrameAligned ==
  ASSUME NEW b \in Seq(Unit), NEW b2 \in Seq(Unit), NEW size \in 0 .. Block,
         NEW end \in Nat, end + size <= Total, NEW fr \in BOOLEAN, NEW fr2 \in BOOLEAN,
         NEW rem, NEW at, NEW t, Aligned(b, rem, at, t, end, fr),
         Len(b2) = Len(b) + 1 + size,
         \A i \in 1 .. Len(b) : b2[i] = b[i],
         b2[Len(b) + 1] = Header(size, fr, SegOf(end)),
         \A i \in Len(b) + 2 .. Len(b2) : b2[i] = Media(end + i - Len(b) - 2),
         \A k \in 1 .. size - 1 : end + k \notin SegStart,
         fr2 \/ size = 0 \/ end + size \notin SegStart
  PROVE  Aligned(b2, rem, at, t, end + size, fr2)
<1> DEFINE L == Len(b)
<1>0. L \in Nat /\ Total \in Nat /\ Block \in Nat BY HlsConstants
<1>1. PICK R, P, T :
        /\ Places(b, R, P, T) /\ Frames(b, R, P, T)
        /\ R[1] = rem /\ P[1] = at /\ T[1] = t
        /\ R[L + 1] = 0 /\ P[L + 1] = end
        /\ fr \/ T[L + 1] = SegOf(end)
  BY DEF Aligned
<1> DEFINE R2 == [i \in 1 .. L + size + 2 |-> IF i <= L + 1 THEN R[i] ELSE L + 2 + size - i]
           P2 == [i \in 1 .. L + size + 2 |-> IF i <= L + 1 THEN P[i] ELSE end + i - L - 2]
           T2 == [i \in 1 .. L + size + 2 |-> IF i <= L + 1 THEN T[i] ELSE SegOf(end)]
<1>2. Len(b2) + 1 = L + size + 2 BY <1>0
<1>3. \A k \in 0 .. size : size > k \/ (k = size /\ (size = 0 \/ end + size \notin SegStart))
          => SegOf(end + k) = SegOf(end)
  <2> SUFFICES ASSUME NEW k \in 0 .. size,
                      size > k \/ (k = size /\ (size = 0 \/ end + size \notin SegStart))
               PROVE  SegOf(end + k) = SegOf(end) OBVIOUS
  <2>1. \A s \in SegStart : ~ (end < s /\ s <= end + k)
    <3> SUFFICES ASSUME NEW s \in SegStart, end < s, s <= end + k PROVE FALSE OBVIOUS
    <3>1. s \in Nat BY HlsConstants
    <3>2. s - end \in 1 .. k /\ end + (s - end) = s BY <3>1, <1>0
    <3>3. s - end \notin 1 .. size - 1 BY <3>2
    <3>4. s - end = size /\ k = size BY <3>2, <3>3, <1>0
    <3> QED BY <3>2, <3>4, <1>0
  <2> QED BY <2>1, SameSegment, <1>0
<1>4. Places(b2, R2, P2, T2)
  <2>0. /\ R \in [1 .. L + 1 -> Nat] /\ P \in [1 .. L + 1 -> 0 .. Total]
        /\ T \in [1 .. L + 1 -> Nat \cup {-1}]
    BY <1>1 DEF Places
  <2>1. SegOf(end) \in Nat BY SegOfIs
  <2>2. R2 \in [1 .. L + size + 2 -> Nat] BY <1>0, <2>0
  <2>3. P2 \in [1 .. L + size + 2 -> 0 .. Total] BY <1>0, <2>0
  <2>4. T2 \in [1 .. L + size + 2 -> Nat \cup {-1}] BY <1>0, <2>0, <2>1
  <2> HIDE DEF R2, P2, T2
  <2> QED BY <1>2, <2>2, <2>3, <2>4 DEF Places
<1>5. Frames(b2, R2, P2, T2)
  <2>1. \A i \in 1 .. L + 1 : R2[i] = R[i] /\ P2[i] = P[i] /\ T2[i] = T[i] BY <1>0
  <2>2. \A i \in L + 2 .. L + size + 2 :
          R2[i] = L + 2 + size - i /\ P2[i] = end + i - L - 2 /\ T2[i] = SegOf(end) BY <1>0
  <2>3. \A i \in 1 .. L + 1 : R[i] \in Nat
    <3>1. R \in [1 .. L + 1 -> Nat] BY <1>1 DEF Places
    <3> QED BY <3>1
  <2> HIDE DEF R2, P2, T2
  <2>4. ASSUME NEW i \in 1 .. Len(b2), R2[i] = 0
        PROVE  /\ R2[i + 1] = b2[i].n /\ b2[i].n <= Block
               /\ P2[i + 1] = P2[i]
               /\ T2[i + 1] = IF b2[i].bos THEN b2[i].seg ELSE T2[i]
    <3>1. CASE i <= L
      <4>1. i \in 1 .. L /\ i \in 1 .. L + 1 /\ i + 1 \in 1 .. L + 1 /\ R[i] = 0 BY <3>1, <1>0, <2>1, <2>4
      <4>2. /\ R[i + 1] = b[i].n /\ b[i].n <= Block /\ P[i + 1] = P[i]
            /\ T[i + 1] = IF b[i].bos THEN b[i].seg ELSE T[i]
        BY <1>1, <4>1 DEF Frames
      <4> QED BY <2>1, <4>1, <4>2
    <3>2. CASE i = L + 1
      <4>1. b2[i].n = size /\ b2[i].bos = fr /\ b2[i].seg = SegOf(end) BY <3>2 DEF Header
      <4>2. i \in 1 .. L + 1 /\ i + 1 = L + 2 /\ L + 2 \in L + 2 .. L + size + 2 BY <3>2, <1>0
      <4>3. R2[i + 1] = size /\ P2[i + 1] = end /\ T2[i + 1] = SegOf(end)
        <5>1. /\ R2[L + 2] = L + 2 + size - (L + 2)
              /\ P2[L + 2] = end + (L + 2) - L - 2 /\ T2[L + 2] = SegOf(end) BY <2>2, <4>2
        <5>2. size \in Nat BY <1>0
        <5>3. L + 2 + size - (L + 2) = size /\ end + (L + 2) - L - 2 = end
          BY <5>2, <1>0, BehindHeader, Zenon
        <5> QED BY <5>1, <5>3, <4>2, Zenon
      <4>4. P2[i] = end /\ (fr \/ T2[i] = SegOf(end)) BY <1>1, <2>1, <4>2, <3>2
      <4> QED BY <4>1, <4>3, <4>4
    <3>3. CASE i >= L + 2
      <4>1. i \in L + 2 .. L + size + 1 /\ i \in L + 2 .. L + size + 2 BY <3>3, <1>2, <1>0
      <4>2. R2[i] = L + 2 + size - i BY <2>2, <4>1
      <4> QED BY <4>1, <4>2, <2>4, <1>0
    <3>4. i \in Int OBVIOUS
    <3>5. i <= L \/ i = L + 1 \/ i >= L + 2 BY <3>4, <1>0, ThreePlaces, Zenon
    <3> QED BY <3>1, <3>2, <3>3, <3>5, Zenon
  <2>5. ASSUME NEW i \in 1 .. Len(b2), R2[i] > 0
        PROVE  b2[i] = Media(P2[i]) /\ T2[i] = SegOf(P2[i])
    <3>1. CASE i <= L
      <4>1. i \in 1 .. L /\ i \in 1 .. L + 1 BY <3>1, <1>0
      <4>2. R[i] > 0 BY <4>1, <2>1, <2>5
      <4>3. b[i] = Media(P[i]) /\ T[i] = SegOf(P[i]) BY <4>1, <4>2, <1>1 DEF Frames
      <4> QED BY <4>1, <4>3, <2>1
    <3>2. CASE i = L + 1
      <4>1. R2[i] = 0 BY <3>2, <2>1, <1>1, <1>0
      <4> QED BY <4>1, <2>5
    <3>3. CASE i >= L + 2
      <4>1. i \in L + 2 .. L + size + 1 /\ i \in L + 2 .. L + size + 2 /\ i \in L + 2 .. Len(b2)
        BY <3>3, <1>2, <1>0
      <4>2. P2[i] = end + (i - L - 2) /\ T2[i] = SegOf(end) BY <2>2, <4>1, <1>0
      <4>3. i - L - 2 \in 0 .. size /\ size > i - L - 2
        <5>1. i \in Int /\ L \in Nat /\ size \in Nat /\ L + 2 <= i /\ i <= L + size + 1
          BY <4>1, <1>0
        <5> HIDE DEF L
        <5> QED BY <5>1
      <4>4. SegOf(end + (i - L - 2)) = SegOf(end) BY <1>3, <4>3
      <4>5. end + i - L - 2 = end + (i - L - 2) BY <4>1, <1>0
      <4>6. b2[i] = Media(end + i - L - 2) BY <4>1
      <4>7. b2[i] = Media(P2[i]) BY <4>2, <4>5, <4>6, Zenon
      <4>8. T2[i] = SegOf(P2[i]) BY <4>2, <4>4, Zenon
      <4> QED BY <4>7, <4>8, Zenon
    <3>4. i \in Int OBVIOUS
    <3>5. i <= L \/ i = L + 1 \/ i >= L + 2 BY <3>4, <1>0, ThreePlaces, Zenon
    <3> QED BY <3>1, <3>2, <3>3, <3>5, Zenon
  <2>6. ASSUME NEW i \in 1 .. Len(b2) + 1 PROVE i + R2[i] <= Len(b2) + 1
    <3>1. CASE i <= L + 1
      <4>1. i \in 1 .. L + 1 /\ i + R[i] <= L + 1 BY <3>1, <1>0, <1>1 DEF Frames
      <4> QED BY <4>1, <2>1, <2>3, <1>2, <1>0
    <3>2. CASE i >= L + 2
      <4>1. i \in L + 2 .. L + size + 2 BY <3>2, <1>2, <1>0
      <4>2. R2[i] = L + 2 + size - i BY <4>1, <2>2
      <4>3. i + (L + 2 + size - i) = L + size + 2
        <5>1. i \in Int /\ L \in Nat /\ size \in Nat BY <1>0
        <5> HIDE DEF L
        <5> QED BY <5>1
      <4> QED BY <4>2, <4>3, <1>2, <1>0
    <3> QED BY <3>1, <3>2, <1>0
  <2>7. ASSUME NEW i \in 1 .. Len(b2) + 1, NEW j \in 1 .. Len(b2) + 1, i <= j, j <= i + R2[i]
        PROVE  R2[j] = R2[i] - (j - i) /\ P2[j] = P2[i] + (j - i) /\ T2[j] = T2[i]
    <3>1. CASE i <= L + 1
      <4>1. i \in 1 .. L + 1 /\ i + R[i] <= L + 1 BY <3>1, <1>0, <1>1 DEF Frames
      <4>2. j \in 1 .. L + 1 /\ j <= i + R[i]
        <5>1. R2[i] = R[i] /\ R[i] \in Nat BY <4>1, <2>1, <2>3
        <5>2. /\ i \in Int /\ j \in Int /\ L \in Nat /\ 1 <= i /\ i <= j
              /\ j <= i + R[i] /\ i + R[i] <= L + 1
          BY <4>1, <5>1, <2>7, <1>0
        <5> HIDE DEF L
        <5> QED BY <5>1, <5>2
      <4>3. R[j] = R[i] - (j - i) /\ P[j] = P[i] + (j - i) /\ T[j] = T[i]
        BY <4>1, <4>2, <2>7, <1>1 DEF Frames
      <4> QED BY <4>1, <4>2, <4>3, <2>1
    <3>2. CASE i >= L + 2
      <4>1. i \in L + 2 .. L + size + 2 /\ j \in L + 2 .. L + size + 2 BY <3>2, <2>7, <1>2, <1>0
      <4>2. /\ R2[i] = L + 2 + size - i /\ P2[i] = end + i - L - 2 /\ T2[i] = SegOf(end)
            /\ R2[j] = L + 2 + size - j /\ P2[j] = end + j - L - 2 /\ T2[j] = SegOf(end)
        BY <4>1, <2>2, Zenon
      <4>3. /\ L + 2 + size - j = L + 2 + size - i - (j - i)
            /\ end + j - L - 2 = end + i - L - 2 + (j - i)
        <5>1. size \in Nat BY <1>0
        <5>2. i \in Int /\ j \in Int OBVIOUS
        <5>3. L \in Nat /\ end \in Nat BY <1>0
        <5> HIDE DEF L
        <5> QED BY <5>1, <5>2, <5>3, FromOneToTheOther
      <4>4. T2[j] = T2[i] BY <4>2, Zenon
      <4>5. R2[j] = R2[i] - (j - i) BY <4>2, <4>3
      <4>6. P2[j] = P2[i] + (j - i) BY <4>2, <4>3
      <4> QED BY <4>4, <4>5, <4>6, Zenon
    <3> QED BY <3>1, <3>2, <1>0
  <2> QED BY <2>4, <2>5, <2>6, <2>7 DEF Frames
<1>6. R2[1] = rem /\ P2[1] = at /\ T2[1] = t BY <1>0, <1>1
<1>7. R2[Len(b2) + 1] = 0 /\ P2[Len(b2) + 1] = end + size /\ T2[Len(b2) + 1] = SegOf(end)
  <2> DEFINE last == L + size + 2
  <2>1. last \in 1 .. L + size + 2 /\ ~ (last <= L + 1) BY <1>0
  <2>2. L + 2 + size - last = 0 /\ end + last - L - 2 = end + size
    <3>1. L \in Nat /\ size \in Nat /\ end \in Nat BY <1>0
    <3> HIDE DEF L
    <3> QED BY <3>1
  <2> HIDE DEF last
  <2>3. /\ R2[last] = L + 2 + size - last /\ P2[last] = end + last - L - 2
        /\ T2[last] = SegOf(end)
    BY <2>1
  <2>4. Len(b2) + 1 = last BY <1>2 DEF last
  <2> QED BY <2>2, <2>3, <2>4
<1>8. fr2 \/ SegOf(end) = SegOf(end + size)
  <2> SUFFICES ASSUME ~ fr2 PROVE SegOf(end) = SegOf(end + size) OBVIOUS
  <2>1. size \in 0 .. size /\ (size = 0 \/ end + size \notin SegStart) BY <1>0
  <2> QED BY <1>3, <2>1
<1> HIDE DEF R2, P2, T2
<1> QED BY <1>4, <1>5, <1>6, <1>7, <1>8 DEF Aligned

\* What is behind a place.
LEMMA RestAligned ==
  ASSUME NEW b \in Seq(Unit), NEW size \in 0 .. Len(b),
         NEW R, NEW P, NEW T, Places(b, R, P, T), Frames(b, R, P, T),
         NEW end, NEW fr \in BOOLEAN,
         R[Len(b) + 1] = 0, P[Len(b) + 1] = end, fr \/ T[Len(b) + 1] = SegOf(end)
  PROVE  /\ SubSeq(b, size + 1, Len(b)) \in Seq(Unit)
         /\ Len(SubSeq(b, size + 1, Len(b))) = Len(b) - size
         /\ Aligned(SubSeq(b, size + 1, Len(b)), R[size + 1], P[size + 1], T[size + 1], end, fr)
<1> DEFINE L  == Len(b)
           c  == SubSeq(b, size + 1, Len(b))
           R2 == [i \in 1 .. L - size + 1 |-> R[i + size]]
           P2 == [i \in 1 .. L - size + 1 |-> P[i + size]]
           T2 == [i \in 1 .. L - size + 1 |-> T[i + size]]
<1>0. L \in Nat /\ size \in Nat /\ L - size \in Nat BY LenProperties
<1>1. c \in Seq(Unit) /\ Len(c) = L - size /\ \A i \in 1 .. L - size : c[i] = b[i + size]
  <2>1. \A i \in size + 1 .. L : b[i] \in Unit BY <1>0, ElementOfSeq
  <2>2. /\ c \in Seq(Unit) /\ Len(c) = IF size + 1 <= L THEN L - (size + 1) + 1 ELSE 0
        /\ \A i \in 1 .. L - (size + 1) + 1 : c[i] = b[size + 1 + i - 1]
    BY <2>1, <1>0, SubSeqProperties
  <2>3. Len(c) = L - size BY <2>2, <1>0
  <2>4. ASSUME NEW i \in 1 .. L - size PROVE c[i] = b[i + size]
    <3>1. i \in 1 .. L - (size + 1) + 1 /\ size + 1 + i - 1 = i + size BY <1>0
    <3> QED BY <3>1, <2>2
  <2> QED BY <2>2, <2>3, <2>4
<1>2. \A i \in 1 .. L - size + 1 : R2[i] = R[i + size] /\ P2[i] = P[i + size] /\ T2[i] = T[i + size]
  OBVIOUS
<1>3. /\ R \in [1 .. L + 1 -> Nat] /\ P \in [1 .. L + 1 -> 0 .. Total]
      /\ T \in [1 .. L + 1 -> Nat \cup {-1}] BY DEF Places
<1>4. Places(c, R2, P2, T2)
  <2>1. \A i \in 1 .. L - size + 1 : i + size \in 1 .. L + 1 BY <1>0
  <2>2. Len(c) + 1 = L - size + 1 BY <1>1
  <2> QED BY <2>1, <2>2, <1>3 DEF Places
<1> HIDE DEF R2, P2, T2, c
<1>5. Frames(c, R2, P2, T2)
  <2>1. ASSUME NEW i \in 1 .. Len(c)
        PROVE  /\ i + size \in 1 .. L /\ i \in 1 .. L - size /\ i + 1 \in 1 .. L - size + 1
               /\ i \in 1 .. L - size + 1 /\ (i + size) + 1 = (i + 1) + size
    BY <1>0, <1>1
  <2>2. ASSUME NEW i \in 1 .. Len(c), R2[i] = 0
        PROVE  /\ R2[i + 1] = c[i].n /\ c[i].n <= Block
               /\ P2[i + 1] = P2[i]
               /\ T2[i + 1] = IF c[i].bos THEN c[i].seg ELSE T2[i]
    <3>1. R[i + size] = 0 BY <2>1, <2>2, <1>2
    <3>2. /\ R[(i + size) + 1] = b[i + size].n /\ b[i + size].n <= Block
          /\ P[(i + size) + 1] = P[i + size]
          /\ T[(i + size) + 1] = IF b[i + size].bos THEN b[i + size].seg ELSE T[i + size]
      BY <2>1, <3>1 DEF Frames
    <3> QED BY <2>1, <3>2, <1>1, <1>2
  <2>3. ASSUME NEW i \in 1 .. Len(c), R2[i] > 0
        PROVE  c[i] = Media(P2[i]) /\ T2[i] = SegOf(P2[i])
    <3>1. R[i + size] > 0 BY <2>1, <2>3, <1>2
    <3>2. b[i + size] = Media(P[i + size]) /\ T[i + size] = SegOf(P[i + size])
      BY <2>1, <3>1 DEF Frames
    <3> QED BY <2>1, <3>2, <1>1, <1>2
  <2>4. ASSUME NEW i \in 1 .. Len(c) + 1
        PROVE  i \in 1 .. L - size + 1 /\ i + size \in 1 .. L + 1 /\ R2[i] = R[i + size]
               /\ P2[i] = P[i + size] /\ T2[i] = T[i + size] /\ R[i + size] \in Nat
    <3>1. i \in 1 .. L - size + 1 /\ i + size \in 1 .. L + 1 BY <1>0, <1>1
    <3> QED BY <3>1, <1>2, <1>3
  <2>5. ASSUME NEW i \in 1 .. Len(c) + 1 PROVE i + R2[i] <= Len(c) + 1
    <3>1. (i + size) + R[i + size] <= L + 1 BY <2>4 DEF Frames
    <3> QED BY <3>1, <2>4, <1>0, <1>1
  <2>6. ASSUME NEW i \in 1 .. Len(c) + 1, NEW j \in 1 .. Len(c) + 1, i <= j, j <= i + R2[i]
        PROVE  R2[j] = R2[i] - (j - i) /\ P2[j] = P2[i] + (j - i) /\ T2[j] = T2[i]
    <3>1. /\ i + size <= j + size /\ j + size <= (i + size) + R[i + size]
          /\ (j + size) - (i + size) = j - i BY <2>4, <2>6, <1>0
    <3>2. /\ R[j + size] = R[i + size] - ((j + size) - (i + size))
          /\ P[j + size] = P[i + size] + ((j + size) - (i + size))
          /\ T[j + size] = T[i + size] BY <3>1, <2>4 DEF Frames
    <3> QED BY <3>1, <3>2, <2>4
  <2> QED BY <2>2, <2>3, <2>5, <2>6 DEF Frames
<1>6. R2[1] = R[size + 1] /\ P2[1] = P[size + 1] /\ T2[1] = T[size + 1]
  <2>1. 1 \in 1 .. L - size + 1 /\ 1 + size = size + 1 BY <1>0
  <2> QED BY <2>1, <1>2
<1>7. R2[Len(c) + 1] = 0 /\ P2[Len(c) + 1] = end /\ T2[Len(c) + 1] = T[L + 1]
  <2>1. Len(c) + 1 \in 1 .. L - size + 1 /\ (Len(c) + 1) + size = L + 1 BY <1>0, <1>1
  <2> QED BY <2>1, <1>2
<1>8. Aligned(c, R[size + 1], P[size + 1], T[size + 1], end, fr)
  BY <1>4, <1>5, <1>6, <1>7 DEF Aligned
<1> QED BY <1>1, <1>8 DEF c

\* Behind a header is its frame.
LEMMA HeaderRead ==
  ASSUME NEW b \in Seq(Unit), b # <<>>, NEW at, NEW t, NEW end, NEW fr \in BOOLEAN,
         Aligned(b, 0, at, t, end, fr)
  PROVE  /\ Tail(b) \in Seq(Unit) /\ Len(Tail(b)) = Len(b) - 1
         /\ Head(b).n \in 0 .. Block
         /\ Aligned(Tail(b), Head(b).n, at, IF Head(b).bos THEN Head(b).seg ELSE t, end, fr)
<1>0. Len(b) \in Nat /\ Len(b) # 0 /\ b[1] \in Unit
  BY LenProperties, EmptySeq, ElementOfSeq
<1>1. PICK R, P, T :
        /\ Places(b, R, P, T) /\ Frames(b, R, P, T)
        /\ R[1] = 0 /\ P[1] = at /\ T[1] = t
        /\ R[Len(b) + 1] = 0 /\ P[Len(b) + 1] = end
        /\ fr \/ T[Len(b) + 1] = SegOf(end)
  BY DEF Aligned
<1>2. 1 \in 1 .. Len(b) /\ 1 \in 0 .. Len(b) /\ 1 + 1 = 2 BY <1>0
<1>3. /\ R[2] = b[1].n /\ b[1].n <= Block /\ P[2] = at
      /\ T[2] = IF b[1].bos THEN b[1].seg ELSE t
  BY <1>1, <1>2 DEF Frames
<1>4. Head(b) = b[1] /\ Tail(b) = SubSeq(b, 2, Len(b)) BY TailIsSubSeq
<1>5. b[1].n \in Nat BY <1>0 DEF Unit
<1>6. /\ SubSeq(b, 1 + 1, Len(b)) \in Seq(Unit)
      /\ Len(SubSeq(b, 1 + 1, Len(b))) = Len(b) - 1
      /\ Aligned(SubSeq(b, 1 + 1, Len(b)), R[1 + 1], P[1 + 1], T[1 + 1], end, fr)
  BY <1>1, <1>2, RestAligned
<1>7. b[1].n \in 0 .. Block BY <1>3, <1>5, HlsConstants
<1> QED BY <1>2, <1>3, <1>4, <1>6, <1>7

\* Of a frame, what is read is the next media.
LEMMA MediaRead ==
  ASSUME NEW b \in Seq(Unit), NEW rem \in Nat, NEW size \in 0 .. Len(b), size <= rem,
         NEW at \in Nat, NEW t, NEW end, NEW fr \in BOOLEAN, Aligned(b, rem, at, t, end, fr)
  PROVE  /\ SubSeq(b, size + 1, Len(b)) \in Seq(Unit)
         /\ Len(SubSeq(b, size + 1, Len(b))) = Len(b) - size
         /\ Aligned(SubSeq(b, size + 1, Len(b)), rem - size, at + size, t, end, fr)
         /\ \A i \in 1 .. size : b[i] = Media(at + i - 1)
         /\ rem <= Len(b) /\ (rem > 0 => t = SegOf(at))
         /\ at \in 0 .. Total /\ at + size \in 0 .. Total
         /\ size = Len(b) => rem = size /\ at + size = end
<1>0. Len(b) \in Nat BY LenProperties
<1>1. PICK R, P, T :
        /\ Places(b, R, P, T) /\ Frames(b, R, P, T)
        /\ R[1] = rem /\ P[1] = at /\ T[1] = t
        /\ R[Len(b) + 1] = 0 /\ P[Len(b) + 1] = end
        /\ fr \/ T[Len(b) + 1] = SegOf(end)
  BY DEF Aligned
<1>2. \A i \in 0 .. size : /\ R[i + 1] = rem - i /\ P[i + 1] = at + i /\ T[i + 1] = t
                         /\ P[i + 1] \in 0 .. Total
  <2> SUFFICES ASSUME NEW i \in 0 .. size
               PROVE  /\ R[i + 1] = rem - i /\ P[i + 1] = at + i /\ T[i + 1] = t
                      /\ P[i + 1] \in 0 .. Total OBVIOUS
  <2>1. 1 \in 1 .. Len(b) + 1 /\ i + 1 \in 1 .. Len(b) + 1 /\ 1 <= i + 1 /\ i + 1 <= 1 + rem
        /\ (i + 1) - 1 = i BY <1>0
  <2>2. /\ R[i + 1] = R[1] - ((i + 1) - 1) /\ P[i + 1] = P[1] + ((i + 1) - 1) /\ T[i + 1] = T[1]
    BY <1>1, <2>1 DEF Frames
  <2>3. P[i + 1] \in 0 .. Total BY <1>1, <2>1 DEF Places
  <2> QED BY <1>1, <2>1, <2>2, <2>3
<1>3. 1 + rem <= Len(b) + 1
  <2>1. 1 \in 1 .. Len(b) + 1 BY <1>0
  <2> QED BY <2>1, <1>1 DEF Frames
<1>4. at \in 0 .. Total
  <2>1. 1 \in 1 .. Len(b) + 1 BY <1>0
  <2> QED BY <2>1, <1>1 DEF Places
<1>5. ASSUME NEW i \in 1 .. size PROVE b[i] = Media(at + i - 1)
  <2>1. i - 1 \in 0 .. size /\ (i - 1) + 1 = i /\ i \in 1 .. Len(b) BY <1>0
  <2>2. R[i] = rem - (i - 1) /\ P[i] = at + (i - 1) BY <1>2, <2>1
  <2>3. R[i] > 0 BY <2>2
  <2>4. b[i] = Media(P[i]) BY <1>1, <2>1, <2>3 DEF Frames
  <2>5. at + (i - 1) = at + i - 1 BY <1>4
  <2> QED BY <2>2, <2>4, <2>5
<1>6. rem > 0 => t = SegOf(at)
  <2>1. SUFFICES ASSUME rem > 0 PROVE t = SegOf(at) OBVIOUS
  <2>2. 1 \in 1 .. Len(b) BY <1>0, <1>3, <2>1
  <2> QED BY <1>1, <2>1, <2>2 DEF Frames
<1>7. size \in 0 .. size /\ size \in Nat BY <1>0
<1>8. R[size + 1] = rem - size /\ P[size + 1] = at + size /\ T[size + 1] = t /\ P[size + 1] \in 0 .. Total
  BY <1>2, <1>7
<1>9. size = Len(b) => rem = size /\ at + size = end BY <1>1, <1>8, <1>0
<1>10. /\ SubSeq(b, size + 1, Len(b)) \in Seq(Unit)
       /\ Len(SubSeq(b, size + 1, Len(b))) = Len(b) - size
       /\ Aligned(SubSeq(b, size + 1, Len(b)), R[size + 1], P[size + 1], T[size + 1], end, fr)
  BY <1>1, RestAligned
<1>11. rem <= Len(b) BY <1>3, <1>0
<1>12. at + size \in 0 .. Total BY <1>8
<1> QED BY <1>4, <1>5, <1>6, <1>8, <1>9, <1>10, <1>11, <1>12

-----------------------------------------------------------------------------
(* The invariant                                                           *)

Phases ==
  /\ ~ open => read.pc = "idle"
  /\ read.pc = "idle" => read.bytes = <<>>
  /\ read.pc = "meta" => remain = 0
  /\ read.pc = "media" => remain > 0
  /\ done => producer = "ended" /\ pos = Total
  /\ producer = "run" => retry > 0

\* Given and about to be given: the bytes from "from" on.
Reached == from + Len(given) + Len(read.bytes)
InOrder ==
  /\ from \in 0 .. Total
  /\ \A i \in 1 .. Len(given) : given[i] = from + i - 1
  /\ \A i \in 1 .. Len(read.bytes) : read.bytes[i] = from + Len(given) + i - 1

Synced == open => Aligned(bus, remain, Reached, told, pos, fresh)

Sound == TypeOK /\ Phases /\ InOrder /\ Synced

LEMMA Types ==
  ASSUME TypeOK
  PROVE  /\ bus \in Seq(Unit) /\ Len(bus) \in Nat /\ pos \in Nat /\ remain \in Nat
         /\ read.bytes \in Seq(Nat) /\ Len(read.bytes) \in Nat
         /\ read.pc \in {"idle", "meta", "media"} /\ read.mode \in {"copy", "zero"}
         /\ read.max \in Nat /\ fresh \in BOOLEAN
         /\ given \in Seq(Nat) /\ Len(given) \in Nat /\ from \in Nat /\ Reached \in Nat
<1>1. bus \in Seq(Unit) /\ given \in Seq(Nat) /\ fresh \in BOOLEAN
      /\ read \in [pc : {"idle", "meta", "media"}, mode : {"copy", "zero"},
                   max : Nat, bytes : Seq(Nat)] BY DEF TypeOK
<1>2. pos \in Nat /\ remain \in Nat BY HlsConstants DEF TypeOK
<1>3. read.bytes \in Seq(Nat) BY <1>1
<1>4. Len(bus) \in Nat /\ Len(given) \in Nat /\ Len(read.bytes) \in Nat
  BY <1>1, <1>3, LenProperties
<1>5. from \in Nat /\ Reached \in Nat BY <1>4 DEF TypeOK, Reached
<1> QED BY <1>1, <1>2, <1>3, <1>4, <1>5

\* Where the bytes of a read lead to.
LEMMA ReachedIs ==
  ASSUME TypeOK, NEW d \in Int
  PROVE  /\ Reached + d = from + Len(given) + (Len(read.bytes) + d)
         /\ Reached + (d - Len(read.bytes)) - 1 = from + Len(given) + d - 1
<1>1. from \in Int /\ Len(given) \in Int /\ Len(read.bytes) \in Int BY Types
<1>2. \A c \in Int : /\ (from + Len(given) + c) + d = from + Len(given) + (c + d)
                     /\ (from + Len(given) + c) + (d - c) - 1 = from + Len(given) + d - 1
  BY <1>1
<1>3. /\ (from + Len(given) + Len(read.bytes)) + d = from + Len(given) + (Len(read.bytes) + d)
      /\ (from + Len(given) + Len(read.bytes)) + (d - Len(read.bytes)) - 1 = from + Len(given) + d - 1
  BY <1>1, <1>2, Zenon
<1>4. Reached = from + Len(given) + Len(read.bytes) BY Zenon DEF Reached
<1> QED BY <1>3, <1>4, Zenon

\* What a read returns when it has all of these bytes.
LEMMA ReturnInOrder ==
  ASSUME Sound, NEW bytes \in Seq(Nat), NEW state, Return(bytes, state),
         state \in {"data", "done", "end", "timeout", "abort"},
         \A i \in 1 .. Len(bytes) : bytes[i] = from + Len(given) + i - 1
  PROVE  /\ given' \in Seq(Nat) /\ Len(given') = Len(given) + Len(bytes)
         /\ InOrder' /\ read' = NoRead /\ Len(read'.bytes) = 0
         /\ Reached' = from + Len(given) + Len(bytes)
         /\ status' \in {"none", "data", "done", "end", "timeout", "abort"}
         /\ ended' \in BOOLEAN /\ from' \in Nat
         /\ read' \in [pc : {"idle", "meta", "media"}, mode : {"copy", "zero"},
                      max : Nat, bytes : Seq(Nat)]
<1>1. /\ given \in Seq(Nat) /\ Len(given) \in Nat /\ Len(bytes) \in Nat
      /\ from \in Nat /\ from \in 0 .. Total
  BY Types, LenProperties, HlsConstants DEF Sound, InOrder
<1>2. given' = given \o bytes /\ from' = from /\ read' = NoRead /\ status' = state
      /\ ended' = (ended \/ state \in {"done", "end"})
  BY DEF Return
<1>3. /\ given' \in Seq(Nat) /\ Len(given') = Len(given) + Len(bytes)
      /\ \A i \in 1 .. Len(given) + Len(bytes) :
           given'[i] = IF i <= Len(given) THEN given[i] ELSE bytes[i - Len(given)]
  BY <1>1, <1>2, ConcatProperties
<1>4. ASSUME NEW i \in 1 .. Len(given') PROVE given'[i] = from + i - 1
  <2>1. CASE i <= Len(given)
    <3>1. i \in 1 .. Len(given) /\ i \in 1 .. Len(given) + Len(bytes) BY <2>1, <1>1, <1>3
    <3> QED BY <3>1, <2>1, <1>3 DEF Sound, InOrder
  <2>2. CASE ~ (i <= Len(given))
    <3>1. i - Len(given) \in 1 .. Len(bytes) /\ i \in 1 .. Len(given) + Len(bytes)
      BY <2>2, <1>1, <1>3
    <3>2. given'[i] = from + Len(given) + (i - Len(given)) - 1 BY <3>1, <2>2, <1>3
    <3> QED BY <3>2, <1>1
  <2> QED BY <2>1, <2>2
<1>5. read'.bytes = <<>> /\ Len(read'.bytes) = 0 BY <1>2, EmptySeq DEF NoRead
<1>6. InOrder'
  <2>1. 1 .. Len(read'.bytes) = {} BY <1>5
  <2> QED BY <2>1, <1>1, <1>2, <1>4 DEF InOrder
<1>7. Reached' = from + Len(given) + Len(bytes) BY <1>1, <1>2, <1>3, <1>5 DEF Reached
<1>8. read' \in [pc : {"idle", "meta", "media"}, mode : {"copy", "zero"},
                max : Nat, bytes : Seq(Nat)]
  <2>1. <<>> \in Seq(Nat) BY EmptySeq
  <2> QED BY <1>2, <2>1 DEF NoRead
<1>9. ended' \in BOOLEAN BY <1>2
<1> QED BY <1>1, <1>2, <1>3, <1>5, <1>6, <1>7, <1>8, <1>9

LEMMA InitSound == Init => Sound
<1> SUFFICES ASSUME Init PROVE Sound OBVIOUS
<1>1. <<>> \in Seq(Unit) /\ <<>> \in Seq(Nat) /\ Len(<<>>) = 0 BY EmptySeq
<1>2. TypeOK
  <2>1. read \in [pc : {"idle", "meta", "media"}, mode : {"copy", "zero"},
                 max : Nat, bytes : Seq(Nat)] BY <1>1 DEF Init, NoRead
  <2>2. Len(bus) <= BusSize /\ retry \in 0 .. Retries /\ pos \in 0 .. Total /\ remain \in 0 .. Block
    BY <1>1, HlsConstants DEF Init
  <2> QED BY <1>1, <2>1, <2>2 DEF Init, TypeOK
<1>3. Phases BY <1>1 DEF Init, Phases, NoRead
<1>4. InOrder
  <2>1. given = <<>> /\ read.bytes = <<>> /\ from = 0 BY DEF Init, NoRead
  <2> QED BY <1>1, <2>1, HlsConstants DEF InOrder
<1>5. Synced BY DEF Init, Synced
<1> QED BY <1>2, <1>3, <1>4, <1>5 DEF Sound

-----------------------------------------------------------------------------
(* The thread                                                              *)

LEMMA FetchSound ==
  ASSUME Sound, NEW size \in 0 .. Block, Fetch(size)
  PROVE  Sound'
<1>0. /\ bus \in Seq(Unit) /\ Len(bus) \in Nat /\ pos \in Nat /\ fresh \in BOOLEAN
      /\ Total \in Nat /\ Block \in Nat /\ BusSize \in Nat /\ Retries \in Nat \ {0}
  BY Types, HlsConstants DEF Sound
<1>1. /\ open /\ producer = "run" /\ Len(bus) + 1 + Block <= BusSize
      /\ size <= Total - pos /\ (size = 0 => fresh)
      /\ \A k \in 1 .. size - 1 : pos + k \notin SegStart
      /\ bus' = bus \o <<Header(size, fresh, SegOf(pos))>> \o [i \in 1 .. size |-> Media(pos + i - 1)]
      /\ pos' = pos + size
      /\ fresh' = (size > 0 /\ pos' \in SegStart)
      /\ retry' = Retries
  BY <1>0 DEF Fetch, Working, Lesser
<1>2. UNCHANGED <<open, done, aborted, producer, remain, read, status, told, from, given, ended>>
  BY DEF Fetch, histVars
<1> DEFINE head  == Header(size, fresh, SegOf(pos))
           media == [i \in 1 .. size |-> Media(pos + i - 1)]
<1>3. head \in Unit
  <2>1. SegOf(pos) \in Nat BY <1>0, SegOfIs
  <2> QED BY <2>1, <1>0 DEF Header, Unit
<1>4. media \in Seq(Unit) /\ Len(media) = size
  <2>1. \A i \in 1 .. size : Media(pos + i - 1) \in Unit BY <1>0 DEF Media, Unit
  <2> QED BY <2>1, <1>0
<1>5. \A i \in 1 .. size : media[i] = Media(pos + i - 1) OBVIOUS
<1> HIDE DEF head, media
<1>6. /\ bus \o <<head>> \in Seq(Unit) /\ Len(bus \o <<head>>) = Len(bus) + 1
      /\ \A i \in 1 .. Len(bus) : (bus \o <<head>>)[i] = bus[i]
      /\ (bus \o <<head>>)[Len(bus) + 1] = head
  BY <1>0, <1>3, AppendProperties, AppendIsConcat
<1>7. bus' = (bus \o <<head>>) \o media BY <1>1 DEF head, media
<1>8. /\ bus' \in Seq(Unit) /\ Len(bus') = Len(bus) + 1 + size
      /\ \A i \in 1 .. Len(bus) + 1 + size :
           bus'[i] = IF i <= Len(bus) + 1 THEN (bus \o <<head>>)[i] ELSE media[i - (Len(bus) + 1)]
  <2> DEFINE front == bus \o <<head>>
  <2>1. front \in Seq(Unit) /\ media \in Seq(Unit) /\ bus' = front \o media
        /\ Len(front) = Len(bus) + 1 /\ Len(media) = size BY <1>4, <1>6, <1>7
  <2> HIDE DEF front
  <2>2. /\ bus' \in Seq(Unit) /\ Len(bus') = Len(front) + Len(media)
        /\ \A i \in 1 .. Len(front) + Len(media) :
             bus'[i] = IF i <= Len(front) THEN front[i] ELSE media[i - Len(front)]
    BY <2>1, ConcatProperties
  <2>3. \A i \in 1 .. Len(bus) + 1 + size :
             bus'[i] = IF i <= Len(bus) + 1 THEN front[i] ELSE media[i - (Len(bus) + 1)]
    BY <2>1, <2>2
  <2> QED BY <2>1, <2>2, <2>3 DEF front
<1>9. \A i \in 1 .. Len(bus) : bus'[i] = bus[i] BY <1>0, <1>6, <1>8
<1>10. bus'[Len(bus) + 1] = Header(size, fresh, SegOf(pos))
  <2>1. Len(bus) + 1 \in 1 .. Len(bus) + 1 + size BY <1>0
  <2>2. bus'[Len(bus) + 1] = head BY <2>1, <1>0, <1>6, <1>8
  <2> QED BY <2>2 DEF head
<1>11. ASSUME NEW i \in Len(bus) + 2 .. Len(bus') PROVE bus'[i] = Media(pos + i - Len(bus) - 2)
  <2>1. i - (Len(bus) + 1) \in 1 .. size /\ i \in 1 .. Len(bus) + 1 + size /\ ~ (i <= Len(bus) + 1)
    BY <1>0, <1>8
  <2>2. bus'[i] = Media(pos + (i - (Len(bus) + 1)) - 1) BY <2>1, <1>5, <1>8
  <2>3. pos + (i - (Len(bus) + 1)) - 1 = pos + i - Len(bus) - 2 BY <2>1, <1>0
  <2> QED BY <2>2, <2>3
<1>12. Aligned(bus, remain, Reached, told, pos, fresh) BY <1>1 DEF Sound, Synced
<1>13. fresh' \in BOOLEAN /\ (fresh' \/ size = 0 \/ pos + size \notin SegStart)
  <2>1. CASE size > 0 /\ pos' \in SegStart
    <3>1. fresh' = TRUE BY <1>1, <2>1
    <3> QED BY <3>1
  <2>2. CASE ~ (size > 0 /\ pos' \in SegStart)
    <3>1. fresh' = FALSE BY <1>1, <2>2
    <3>2. size = 0 \/ pos + size \notin SegStart BY <1>0, <1>1, <2>2
    <3> QED BY <3>1, <3>2
  <2> QED BY <2>1, <2>2
<1>14. pos + size <= Total /\ pos' \in 0 .. Total BY <1>0, <1>1
<1>15. Aligned(bus', remain, Reached, told, pos + size, fresh')
  <2>1. bus \in Seq(Unit) /\ pos \in Nat /\ fresh \in BOOLEAN BY <1>0
  <2>2. \A k \in 1 .. size - 1 : pos + k \notin SegStart BY <1>1
  <2>3. bus' \in Seq(Unit) /\ Len(bus') = Len(bus) + 1 + size BY <1>8
  <2> QED
    BY <1>9, <1>10, <1>11, <1>12, <1>13, <1>14, <2>1, <2>2, <2>3, FrameAligned
<1>16. Reached' = Reached BY <1>2 DEF Reached
<1>17. Synced' BY <1>1, <1>2, <1>15, <1>16 DEF Synced
<1>18. TypeOK'
  <2>1. Len(bus') <= BusSize BY <1>0, <1>1, <1>8
  <2>2. retry' \in 0 .. Retries BY <1>0, <1>1
  <2> QED BY <2>1, <2>2, <1>2, <1>8, <1>13, <1>14 DEF Sound, TypeOK
<1>19. Phases' BY <1>0, <1>1, <1>2 DEF Sound, Phases
<1>20. InOrder' BY <1>2 DEF Sound, InOrder
<1> QED BY <1>17, <1>18, <1>19, <1>20 DEF Sound

\* The other outcomes leave the bus and the place alone.
LEMMA ThreadSound ==
  ASSUME Sound, FetchWait \/ FetchEos \/ FetchFail
  PROVE  Sound'
<1>1. UNCHANGED <<open, bus, pos, fresh, remain, read, status, told, from, given, ended>>
  BY DEF FetchWait, FetchEos, FetchFail, histVars
<1>2. Synced'
  <2>1. Reached' = Reached BY <1>1 DEF Reached
  <2> QED BY <2>1, <1>1 DEF Sound, Synced
<1>3. InOrder' BY <1>1 DEF Sound, InOrder
<1>4. /\ done' \in BOOLEAN /\ aborted' \in BOOLEAN /\ producer' \in {"run", "ended"}
      /\ retry' \in 0 .. Retries
      /\ done' => producer' = "ended" /\ pos' = Total
      /\ producer' = "run" => retry' > 0
  <2>1. /\ producer = "run" /\ retry > 0 /\ done \in BOOLEAN /\ aborted \in BOOLEAN
        /\ retry \in 0 .. Retries /\ Retries \in Nat /\ ~ done
    BY HlsConstants DEF Sound, TypeOK, Phases, FetchWait, FetchEos, FetchFail, Working
  <2>2. CASE FetchWait BY <2>1, <2>2 DEF FetchWait
  <2>3. CASE FetchEos BY <2>1, <2>3 DEF FetchEos
  <2>4. CASE FetchFail BY <2>1, <2>4 DEF FetchFail
  <2> QED BY <2>2, <2>3, <2>4
<1>5. TypeOK' BY <1>1, <1>4 DEF Sound, TypeOK
<1>6. Phases' BY <1>1, <1>4 DEF Sound, Phases
<1> QED BY <1>2, <1>3, <1>5, <1>6 DEF Sound

-----------------------------------------------------------------------------
(* The application's reads                                                 *)

LEMMA ReadCallSound ==
  ASSUME Sound, NEW mode \in {"copy", "zero"}, NEW wanted \in Wanted, ReadCall(mode, wanted)
  PROVE  Sound'
<1>1. /\ open /\ read.pc = "idle" /\ read.bytes = <<>>
      /\ read' = [pc |-> IF remain = 0 THEN "meta" ELSE "media", mode |-> mode,
                 max |-> wanted, bytes |-> <<>>]
  BY DEF ReadCall, Sound, Phases
<1>2. UNCHANGED <<open, bus, done, aborted, producer, retry, pos, fresh, remain, status, told,
                  from, given, ended>>
  BY DEF ReadCall, fetchVars, histVars
<1>3. read'.bytes = read.bytes /\ read'.pc = IF remain = 0 THEN "meta" ELSE "media" BY <1>1
<1>4. read' \in [pc : {"idle", "meta", "media"}, mode : {"copy", "zero"},
                max : Nat, bytes : Seq(Nat)]
  <2>1. wanted \in Nat /\ <<>> \in Seq(Nat) BY HlsConstants, EmptySeq
  <2> QED BY <1>1, <2>1
<1>5. TypeOK' BY <1>2, <1>4 DEF Sound, TypeOK
<1>6. Phases'
  <2>1. remain \in Nat BY Types DEF Sound
  <2> QED BY <1>1, <1>2, <1>3, <2>1 DEF Sound, Phases
<1>7. InOrder' BY <1>2, <1>3 DEF Sound, InOrder
<1>8. Synced'
  <2>1. Reached' = Reached BY <1>2, <1>3 DEF Reached
  <2> QED BY <2>1, <1>2 DEF Sound, Synced
<1> QED BY <1>5, <1>6, <1>7, <1>8 DEF Sound

LEMMA PullMetaSound ==
  ASSUME Sound, PullMeta
  PROVE  Sound'
<1>1. /\ read.pc = "meta" /\ bus # <<>> /\ bus' = Tail(bus) /\ remain' = Head(bus).n
      /\ told' = (IF Head(bus).bos THEN Head(bus).seg ELSE told)
      /\ read' = [read EXCEPT !.pc = IF remain' = 0 THEN "meta" ELSE "media"]
  BY DEF PullMeta
<1>2. UNCHANGED <<open, done, aborted, producer, retry, pos, fresh, status, from, given, ended>>
  BY DEF PullMeta, fetchVars, histVars
<1>3. open /\ remain = 0 BY <1>1 DEF Sound, Phases
<1>4. bus \in Seq(Unit) /\ fresh \in BOOLEAN /\ Len(bus) \in Nat BY Types DEF Sound
<1>5. Aligned(bus, 0, Reached, told, pos, fresh) BY <1>3 DEF Sound, Synced
<1>6. /\ bus' \in Seq(Unit) /\ Len(bus') = Len(bus) - 1 /\ remain' \in 0 .. Block
      /\ Aligned(bus', remain', Reached, told', pos, fresh)
  BY <1>1, <1>4, <1>5, HeaderRead
<1>7. told' \in Nat \cup {-1}
  <2>1. Head(bus) \in Unit BY <1>1, <1>4, HeadTailProperties
  <2>2. Head(bus).seg \in Nat BY <2>1 DEF Unit
  <2>3. told \in Nat \cup {-1} BY DEF Sound, TypeOK
  <2> QED BY <1>1, <2>2, <2>3
<1>8. /\ read'.bytes = read.bytes /\ read'.pc = (IF remain' = 0 THEN "meta" ELSE "media")
      /\ read' \in [pc : {"idle", "meta", "media"}, mode : {"copy", "zero"},
                   max : Nat, bytes : Seq(Nat)]
  <2>1. read \in [pc : {"idle", "meta", "media"}, mode : {"copy", "zero"},
                 max : Nat, bytes : Seq(Nat)] BY DEF Sound, TypeOK
  <2> QED BY <1>1, <2>1
<1>9. TypeOK'
  <2>1. Len(bus') <= BusSize BY <1>4, <1>6, HlsConstants DEF Sound, TypeOK
  <2> QED BY <1>2, <1>6, <1>7, <1>8, <2>1 DEF Sound, TypeOK
<1>10. Phases'
  <2>1. remain' # 0 => remain' > 0 BY <1>6, HlsConstants
  <2> QED BY <1>2, <1>3, <1>8, <2>1 DEF Sound, Phases
<1>11. InOrder' BY <1>2, <1>8 DEF Sound, InOrder
<1>12. Synced'
  <2>1. Reached' = Reached BY <1>2, <1>8 DEF Reached
  <2> QED BY <2>1, <1>2, <1>6 DEF Synced
<1> QED BY <1>9, <1>10, <1>11, <1>12 DEF Sound

\* What TakeMedia takes are the next bytes, all of the stream if the bus ends.
Bytes(size) == read.bytes \o [i \in 1 .. size |-> bus[i].n]

LEMMA Taken ==
  ASSUME Sound, NEW size \in 1 .. Block, TakeMedia(size)
  PROVE  /\ Bytes(size) \in Seq(Nat) /\ Len(Bytes(size)) = Len(read.bytes) + size
         /\ \A i \in 1 .. Len(Bytes(size)) : Bytes(size)[i] = from + Len(given) + i - 1
         /\ bus' \in Seq(Unit) /\ Len(bus') = Len(bus) - size
         /\ remain' = remain - size /\ remain' \in 0 .. Block /\ size \in Nat \ {0} /\ open
         /\ Aligned(bus', remain', Reached + size, told, pos, fresh)
         /\ Reached + size <= Total
         /\ EndOfStream(size) => Reached + size = Total
<1>1. /\ read.pc = "media" /\ size \in 1 .. Lesser(Request, Len(bus))
      /\ bus' = SubSeq(bus, size + 1, Len(bus)) /\ remain' = remain - size
  BY DEF TakeMedia
<1>2. open /\ remain > 0 BY <1>1 DEF Sound, Phases
<1>3. /\ bus \in Seq(Unit) /\ Len(bus) \in Nat /\ remain \in Nat /\ fresh \in BOOLEAN
      /\ read.bytes \in Seq(Nat) /\ Len(read.bytes) \in Nat /\ read.max \in Nat
      /\ Len(given) \in Nat /\ Block \in Nat /\ from \in Nat /\ Total \in Nat /\ Reached \in Nat
  BY Types, HlsConstants DEF Sound
<1>4. remain \in 0 .. Block BY DEF Sound, TypeOK
<1>5. size \in 1 .. Len(bus) /\ size \in 0 .. Len(bus) /\ size <= remain /\ size \in Nat \ {0}
  <2>1. Request \in Int /\ Request <= remain BY <1>3 DEF Request, Lesser
  <2>2. Lesser(Request, Len(bus)) <= Request /\ Lesser(Request, Len(bus)) <= Len(bus)
        /\ Lesser(Request, Len(bus)) \in Int BY <2>1, <1>3 DEF Lesser
  <2> QED BY <1>1, <1>3, <2>1, <2>2
<1>6. Aligned(bus, remain, Reached, told, pos, fresh) BY <1>2 DEF Sound, Synced
<1>7. /\ SubSeq(bus, size + 1, Len(bus)) \in Seq(Unit)
      /\ Len(SubSeq(bus, size + 1, Len(bus))) = Len(bus) - size
      /\ Aligned(SubSeq(bus, size + 1, Len(bus)), remain - size, Reached + size, told, pos, fresh)
      /\ \A i \in 1 .. size : bus[i] = Media(Reached + i - 1)
      /\ Reached \in 0 .. Total /\ Reached + size \in 0 .. Total
      /\ size = Len(bus) => remain = size /\ Reached + size = pos
  <2> DEFINE rest == SubSeq(bus, size + 1, Len(bus))
  <2>0. /\ bus \in Seq(Unit) /\ remain \in Nat /\ size \in 0 .. Len(bus) /\ size <= remain
        /\ Reached \in Nat /\ fresh \in BOOLEAN
    BY <1>3, <1>5
  <2>1. rest \in Seq(Unit) /\ Len(rest) = Len(bus) - size
    BY <2>0, <1>6, MediaRead
  <2>2. Aligned(rest, remain - size, Reached + size, told, pos, fresh)
    BY <2>0, <1>6, MediaRead
  <2>3. \A i \in 1 .. size : bus[i] = Media(Reached + i - 1)
    BY <2>0, <1>6, MediaRead
  <2>4. /\ Reached \in 0 .. Total /\ Reached + size \in 0 .. Total
        /\ size = Len(bus) => remain = size /\ Reached + size = pos
    BY <2>0, <1>6, MediaRead
  <2> HIDE DEF rest
  <2>5. rest = SubSeq(bus, size + 1, Len(bus)) BY DEF rest
  <2> QED BY <2>1, <2>2, <2>3, <2>4, <2>5, Zenon
<1> DEFINE piece == [i \in 1 .. size |-> bus[i].n]
           bytes == Bytes(size)
<1>8. /\ piece \in Seq(Nat) /\ Len(piece) = size
      /\ \A i \in 1 .. size : piece[i] = Reached + i - 1
  <2>1. ASSUME NEW i \in 1 .. size PROVE bus[i].n = Reached + i - 1 /\ bus[i].n \in Nat
    <3>0. bus[i] = Media(Reached + i - 1) BY <1>7
    <3>1. bus[i].n = Reached + i - 1 BY <3>0 DEF Media
    <3>2. Reached + i - 1 \in Nat BY <1>3, <1>5, <1>7
    <3> QED BY <3>1, <3>2
  <2>2. piece \in [1 .. size -> Nat] BY <2>1
  <2>3. \A i \in 1 .. size : piece[i] = Reached + i - 1 BY <2>1
  <2> HIDE DEF piece
  <2>4. piece \in Seq(Nat) /\ Len(piece) = size BY <2>2, <1>5
  <2> QED BY <2>3, <2>4
<1> HIDE DEF piece, bytes
<1>9. /\ bytes \in Seq(Nat) /\ Len(bytes) = Len(read.bytes) + size
      /\ \A i \in 1 .. Len(read.bytes) + size :
           bytes[i] = IF i <= Len(read.bytes) THEN read.bytes[i] ELSE piece[i - Len(read.bytes)]
  <2>1. bytes = read.bytes \o piece /\ read.bytes \in Seq(Nat) /\ piece \in Seq(Nat)
    BY <1>3, <1>8 DEF piece, bytes, Bytes
  <2>2. /\ bytes \in Seq(Nat) /\ Len(bytes) = Len(read.bytes) + Len(piece)
        /\ \A i \in 1 .. Len(read.bytes) + Len(piece) :
             bytes[i] = IF i <= Len(read.bytes) THEN read.bytes[i] ELSE piece[i - Len(read.bytes)]
    BY <2>1, ConcatProperties
  <2> QED BY <2>2, <1>8
<1>10. ASSUME NEW i \in 1 .. Len(bytes) PROVE bytes[i] = from + Len(given) + i - 1
  <2>1. CASE i <= Len(read.bytes)
    <3>1. i \in 1 .. Len(read.bytes) /\ i \in 1 .. Len(read.bytes) + size BY <2>1, <1>3, <1>9
    <3> QED BY <3>1, <2>1, <1>9 DEF Sound, InOrder
  <2>2. CASE ~ (i <= Len(read.bytes))
    <3>0. size \in Nat /\ i \in 1 .. Len(read.bytes) + size BY <1>9
    <3>1. i - Len(read.bytes) \in 1 .. size /\ i \in 1 .. Len(read.bytes) + size
      BY <3>0, <2>2, <1>3, Beyond, Zenon
    <3>2. bytes[i] = Reached + (i - Len(read.bytes)) - 1 BY <3>1, <2>2, <1>8, <1>9
    <3>3. i \in Int BY <1>3, <1>5, <1>9
    <3>4. Reached + (i - Len(read.bytes)) - 1 = from + Len(given) + i - 1
      BY <3>3, ReachedIs, Zenon DEF Sound
    <3> QED BY <3>2, <3>4
  <2> QED BY <2>1, <2>2
<1>11. EndOfStream(size) => Reached + size = Total
  <2> SUFFICES ASSUME EndOfStream(size) PROVE Reached + size = Total OBVIOUS
  <2>1. done /\ size = Len(bus) BY DEF EndOfStream, IsLast
  <2>2. pos = Total BY <2>1 DEF Sound, Phases
  <2> QED BY <2>1, <2>2, <1>7
<1>12. remain - size \in 0 .. Block BY <1>3, <1>4, <1>5
<1>13. Reached + size <= Total BY <1>7
<1> QED BY <1>1, <1>2, <1>5, <1>7, <1>9, <1>10, <1>11, <1>12, <1>13 DEF bytes

LEMMA TakeMediaSound ==
  ASSUME Sound, NEW size \in 1 .. Block, TakeMedia(size)
  PROVE  Sound'
<1> DEFINE bytes == Bytes(size)
<1>1. /\ bytes \in Seq(Nat) /\ Len(bytes) = Len(read.bytes) + size
      /\ \A i \in 1 .. Len(bytes) : bytes[i] = from + Len(given) + i - 1
      /\ bus' \in Seq(Unit) /\ Len(bus') = Len(bus) - size
      /\ remain' \in 0 .. Block /\ size \in Nat \ {0} /\ open
      /\ Aligned(bus', remain', Reached + size, told, pos, fresh)
  BY Taken
<1>2. UNCHANGED <<open, done, aborted, producer, retry, pos, fresh, told>>
  BY DEF TakeMedia, fetchVars
<1>3. Len(bus') <= BusSize
  <2>1. Len(bus) \in Nat /\ Len(bus) <= BusSize BY Types DEF Sound, TypeOK
  <2> QED BY <2>1, <1>1, HlsConstants
<1>4. \/ Return(bytes, IF EndOfStream(size) THEN "done" ELSE "data")
      \/ /\ read' = [read EXCEPT !.bytes = bytes,
                                 !.pc = IF remain' = 0 THEN "meta" ELSE "media"]
         /\ UNCHANGED <<status, from, given, ended>>
  BY DEF TakeMedia, histVars, Bytes
<1> HIDE DEF bytes
<1>5. from \in Nat /\ Len(given) \in Nat /\ Len(read.bytes) \in Nat
      /\ Reached + size = from + Len(given) + Len(bytes)
  <2>1. from \in Nat /\ Len(given) \in Nat /\ Len(read.bytes) \in Nat BY Types DEF Sound
  <2>2. Len(bytes) = Len(read.bytes) + size /\ size \in Int BY <1>1
  <2>3. Reached + size = from + Len(given) + (Len(read.bytes) + size)
    BY <2>2, ReachedIs, Zenon DEF Sound
  <2> QED BY <2>1, <2>2, <2>3, Zenon
<1>6. CASE Return(bytes, IF EndOfStream(size) THEN "done" ELSE "data")
  <2>1. PICK state \in {"data", "done"} : Return(bytes, state) BY <1>6
  <2>2. /\ given' \in Seq(Nat) /\ InOrder' /\ read' = NoRead
        /\ Reached' = from + Len(given) + Len(bytes)
        /\ status' \in {"none", "data", "done", "end", "timeout", "abort"}
        /\ ended' \in BOOLEAN /\ from' \in Nat
        /\ read' \in [pc : {"idle", "meta", "media"}, mode : {"copy", "zero"},
                     max : Nat, bytes : Seq(Nat)]
    BY <2>1, <1>1, ReturnInOrder
  <2>3. TypeOK' BY <1>1, <1>2, <1>3, <2>2 DEF Sound, TypeOK
  <2>4. Phases' BY <1>1, <1>2, <2>2 DEF Sound, Phases, NoRead
  <2>5. Synced' BY <1>1, <1>2, <1>5, <2>2 DEF Synced
  <2> QED BY <2>2, <2>3, <2>4, <2>5 DEF Sound
<1>7. CASE /\ read' = [read EXCEPT !.bytes = bytes,
                                  !.pc = IF remain' = 0 THEN "meta" ELSE "media"]
           /\ UNCHANGED <<status, from, given, ended>>
  <2>1. /\ read'.bytes = bytes /\ read'.pc = (IF remain' = 0 THEN "meta" ELSE "media")
        /\ read' \in [pc : {"idle", "meta", "media"}, mode : {"copy", "zero"},
                     max : Nat, bytes : Seq(Nat)]
    <3>1. read \in [pc : {"idle", "meta", "media"}, mode : {"copy", "zero"},
                   max : Nat, bytes : Seq(Nat)] BY DEF Sound, TypeOK
    <3> QED BY <1>1, <1>7, <3>1
  <2>2. TypeOK' BY <1>1, <1>2, <1>3, <1>7, <2>1 DEF Sound, TypeOK
  <2>3. Phases'
    <3>1. remain' # 0 => remain' > 0 BY <1>1, HlsConstants
    <3> QED BY <1>1, <1>2, <2>1, <3>1 DEF Sound, Phases
  <2>4. InOrder' BY <1>1, <1>7, <2>1 DEF Sound, InOrder
  <2>5. Synced'
    <3>1. Reached' = Reached + size BY <1>5, <1>7, <2>1 DEF Reached
    <3> QED BY <3>1, <1>1, <1>2 DEF Synced
  <2> QED BY <2>2, <2>3, <2>4, <2>5 DEF Sound
<1> QED BY <1>4, <1>6, <1>7

\* With nothing on the bus and its end written, all has been given.
LEMMA NothingLeftSound ==
  ASSUME Sound, NothingLeft
  PROVE  /\ Sound'
         /\ read.bytes = <<>> /\ ended' # ended => Reached = Total /\ ended' = TRUE
<1>1. /\ read.pc # "idle" /\ (aborted \/ bus = <<>>)
      /\ Return(read.bytes, IF read.bytes = <<>> THEN BusSays ELSE "data")
      /\ UNCHANGED <<open, bus, done, aborted, producer, retry, pos, fresh, remain, told>>
  BY DEF NothingLeft, fetchVars
<1>2. open BY <1>1 DEF Sound, Phases
<1>3. PICK state \in {"data", "end", "timeout", "abort"} : Return(read.bytes, state)
  BY <1>1 DEF BusSays
<1>4. /\ read.bytes \in Seq(Nat) /\ Len(read.bytes) \in Nat
      /\ \A i \in 1 .. Len(read.bytes) : read.bytes[i] = from + Len(given) + i - 1
  BY Types DEF Sound, InOrder
<1>5. /\ given' \in Seq(Nat) /\ InOrder' /\ read' = NoRead
      /\ Reached' = from + Len(given) + Len(read.bytes)
      /\ status' \in {"none", "data", "done", "end", "timeout", "abort"}
      /\ ended' \in BOOLEAN /\ from' \in Nat
      /\ read' \in [pc : {"idle", "meta", "media"}, mode : {"copy", "zero"},
                   max : Nat, bytes : Seq(Nat)]
  BY <1>3, <1>4, ReturnInOrder
<1>6. TypeOK' BY <1>1, <1>5 DEF Sound, TypeOK
<1>7. Phases' BY <1>1, <1>2, <1>5 DEF Sound, Phases, NoRead
<1>8. Synced' BY <1>1, <1>2, <1>5 DEF Sound, Synced, Reached
<1>9. ASSUME read.bytes = <<>>, ended' # ended PROVE Reached = Total /\ ended' = TRUE
  <2>1. ended \in BOOLEAN BY DEF Sound, TypeOK
  <2>2. ended' = (ended \/ BusSays \in {"done", "end"}) BY <1>1, <1>9 DEF Return
  <2>3. BusSays \in {"done", "end"} /\ ended' = TRUE BY <1>9, <2>1, <2>2
  <2>4. ~ aborted /\ done BY <2>3 DEF BusSays
  <2>5. bus = <<>> /\ pos = Total BY <1>1, <2>4 DEF Sound, Phases
  <2>6. Aligned(bus, remain, Reached, told, pos, fresh) BY <1>2 DEF Sound, Synced
  <2>7. Reached = Total BY <2>5, <2>6, EmptyAtEnd
  <2> QED BY <2>3, <2>7
<1> QED BY <1>5, <1>6, <1>7, <1>8, <1>9 DEF Sound

-----------------------------------------------------------------------------
(* Seek, close and open                                                    *)

\* Reading starts anew.
LEMMA RestartSound ==
  ASSUME Sound, NEW at \in 0 .. Total, Fetcher(at), Restart(at), open' = TRUE, remain' = 0,
         read.pc = "idle", UNCHANGED <<read, told>>, status' = "none"
  PROVE  Sound'
<1>1. /\ bus' = <<>> /\ done' = FALSE /\ aborted' = FALSE /\ producer' = "run"
      /\ retry' = Retries /\ pos' = at /\ fresh' = TRUE
      /\ from' = at /\ given' = <<>> /\ ended' = FALSE
  BY DEF Fetcher, Restart
<1>2. <<>> \in Seq(Unit) /\ <<>> \in Seq(Nat) /\ Len(<<>>) = 0 BY EmptySeq
<1>3. read.bytes = <<>> /\ read' = read /\ told' = told BY DEF Sound, Phases
<1>4. at \in Nat /\ told \in Nat \cup {-1} BY HlsConstants DEF Sound, TypeOK
<1>5. TypeOK'
  <2>1. Len(bus') <= BusSize /\ retry' \in 0 .. Retries /\ remain' \in 0 .. Block
    BY <1>1, <1>2, HlsConstants
  <2>2. bus' \in Seq(Unit) /\ given' \in Seq(Nat) /\ from' \in Nat BY <1>1, <1>2, <1>4
  <2> QED BY <1>1, <1>3, <2>1, <2>2 DEF Sound, TypeOK
<1>6. Phases' BY <1>1, <1>3, HlsConstants DEF Phases
<1>7. InOrder'
  <2>1. 1 .. Len(given') = {} /\ 1 .. Len(read'.bytes) = {} BY <1>1, <1>2, <1>3
  <2>2. from' \in 0 .. Total BY <1>1
  <2> QED BY <2>1, <2>2 DEF InOrder
<1>8. Synced'
  <2>1. Reached' = at BY <1>1, <1>2, <1>3, <1>4 DEF Reached
  <2>2. Aligned(<<>>, 0, at, told, at, TRUE) BY <1>4, EmptyAligned
  <2> QED BY <1>1, <1>3, <2>1, <2>2 DEF Synced
<1> QED BY <1>5, <1>6, <1>7, <1>8 DEF Sound

LEMMA CloseSound == ASSUME Sound, Close PROVE Sound'
<1>1. /\ read.pc = "idle" /\ open' = FALSE /\ remain' = 0 /\ bus' = <<>> /\ producer' = "ended"
      /\ UNCHANGED <<done, aborted, retry, pos, fresh, read, status, told, from, given, ended>>
  BY DEF Close, histVars
<1>2. bus' \in Seq(Unit) /\ Len(bus') <= BusSize /\ remain' \in 0 .. Block
  BY <1>1, EmptySeq, HlsConstants
<1>3. TypeOK' BY <1>1, <1>2 DEF Sound, TypeOK
<1>4. Phases' BY <1>1 DEF Sound, Phases
<1>5. InOrder' BY <1>1 DEF Sound, InOrder
<1>6. Synced' BY <1>1 DEF Synced
<1> QED BY <1>3, <1>4, <1>5, <1>6 DEF Sound

-----------------------------------------------------------------------------
LEMMA SoundStep == Sound /\ [Next]_hlsVars => Sound'
<1> SUFFICES ASSUME Sound, [Next]_hlsVars PROVE Sound' OBVIOUS
<1>1. CASE UNCHANGED hlsVars
  <2>1. UNCHANGED <<open, bus, done, aborted, producer, retry, pos, fresh, remain, read, status, told,
                    from, given, ended>>
    BY <1>1 DEF hlsVars, fetchVars, histVars
  <2>2. Reached' = Reached BY <2>1 DEF Reached
  <2>3. Synced' BY <2>1, <2>2 DEF Sound, Synced
  <2> QED BY <2>1, <2>3 DEF Sound, TypeOK, Phases, InOrder
<1>2. CASE Producer
  <2>1. ASSUME NEW size \in 0 .. Block, Fetch(size) PROVE Sound' BY <2>1, FetchSound
  <2> QED BY <1>2, <2>1, ThreadSound DEF Producer
<1>3. CASE Filter
  <2>1. ASSUME NEW size \in 1 .. Block, TakeMedia(size) PROVE Sound' BY <2>1, TakeMediaSound
  <2> QED BY <1>3, <2>1, PullMetaSound, NothingLeftSound DEF Filter
<1>4. CASE Application
  <2>1. ASSUME NEW mode \in {"copy", "zero"}, NEW wanted \in Wanted, ReadCall(mode, wanted)
        PROVE  Sound'
    BY <2>1, ReadCallSound
  <2>2. ASSUME NEW at \in SeekTo, Seek(at) PROVE Sound'
    <3>1. at \in 0 .. Total BY HlsConstants
    <3>2. open = TRUE BY <2>2 DEF Seek, Sound, TypeOK
    <3> QED BY <2>2, <3>1, <3>2, RestartSound DEF Seek
  <2>3. CASE Close BY <2>3, CloseSound
  <2>4. CASE Open
    <3>1. 0 \in 0 .. Total BY HlsConstants
    <3>2. read.pc = "idle" BY <2>4 DEF Open, Sound, Phases
    <3> QED BY <2>4, <3>1, <3>2, RestartSound DEF Open
  <2> QED BY <1>4, <2>1, <2>2, <2>3, <2>4 DEF Application
<1> QED BY <1>1, <1>2, <1>3, <1>4 DEF Next

LEMMA SoundTells == Sound => ToldBeforeMedia
<1> SUFFICES ASSUME Sound, read.pc = "media", bus # <<>> PROVE told = SegOf(Head(bus).n)
  BY DEF ToldBeforeMedia
<1>1. /\ bus \in Seq(Unit) /\ Len(bus) \in Nat \ {0} /\ fresh \in BOOLEAN /\ Reached \in Nat
      /\ remain \in Nat
  BY Types, EmptySeq DEF Sound
<1>2. open /\ remain > 0 BY DEF Sound, Phases
<1>3. Aligned(bus, remain, Reached, told, pos, fresh) BY <1>2 DEF Sound, Synced
<1>4. 1 \in 0 .. Len(bus) /\ 1 <= remain /\ 1 \in 1 .. 1 BY <1>1, <1>2
<1>5. /\ \A i \in 1 .. 1 : bus[i] = Media(Reached + i - 1)
      /\ remain > 0 => told = SegOf(Reached)
  BY <1>1, <1>3, <1>4, MediaRead
<1>6. bus[1] = Media(Reached + 1 - 1) /\ Head(bus) = bus[1] BY <1>1, <1>4, <1>5
<1>7. Head(bus).n = Reached BY <1>1, <1>6 DEF Media
<1> QED BY <1>2, <1>5, <1>7

\* The next bytes are given, with the end when they are the last.
LEMMA StepGives ==
  ASSUME Sound, NEW bytes \in Seq(Nat), Len(bytes) > 0, NEW state, Return(bytes, state),
         state \in {"data", "done"},
         \A i \in 1 .. Len(bytes) : bytes[i] = from + Len(given) + i - 1,
         from + Len(given) + Len(bytes) <= Total,
         state = "done" => from + Len(given) + Len(bytes) = Total
  PROVE  Stream!Give
<1>1. /\ given \in Seq(Nat) /\ Len(given) \in Nat /\ Len(bytes) \in Nat /\ from \in Nat
      /\ Total \in Nat /\ ended \in BOOLEAN
  BY Types, LenProperties, HlsConstants DEF Sound, TypeOK
<1>2. given' \in Seq(Nat) /\ Len(given') = Len(given) + Len(bytes) /\ InOrder'
  BY ReturnInOrder
<1>3. from' = from /\ ended' = (ended \/ state \in {"done", "end"}) BY DEF Return
<1>4. Len(given') \in Len(given) + 1 .. Total - from BY <1>1, <1>2
<1>5. given' = [i \in 1 .. Len(given') |-> from + i - 1]
  <2>1. \A i \in 1 .. Len(given') : given'[i] = from + i - 1 BY <1>2, <1>3 DEF InOrder
  <2>2. given' \in [1 .. Len(given') -> Nat] BY <1>2, LenProperties
  <2> QED BY <2>1, <2>2
<1>6. ended' \in {ended, from + Len(given') = Total}
  <2>1. CASE state = "done"
    <3>1. from + Len(given') = Total BY <1>1, <1>2, <2>1
    <3>2. ended' = TRUE BY <1>3, <2>1
    <3> QED BY <3>1, <3>2
  <2>2. CASE state = "data"
    <3>1. ended' = ended BY <1>1, <1>3, <2>2
    <3> QED BY <3>1
  <2> QED BY <2>1, <2>2
<1> QED BY <1>3, <1>4, <1>5, <1>6 DEF Stream!Give

LEMMA StepOfStream == Sound /\ [Next]_hlsVars => [Stream!Next]_(Stream!streamVars)
<1> SUFFICES ASSUME Sound, [Next]_hlsVars
             PROVE  Stream!Next \/ UNCHANGED <<from, given, ended>>
  BY DEF Stream!streamVars
<1>1. CASE UNCHANGED hlsVars BY <1>1 DEF hlsVars, histVars
<1>2. CASE Producer BY <1>2 DEF Producer, Fetch, FetchWait, FetchEos, FetchFail, histVars
<1>3. CASE Filter
  <2>1. CASE PullMeta BY <2>1 DEF PullMeta, histVars
  <2>2. ASSUME NEW size \in 1 .. Block, TakeMedia(size)
        PROVE  Stream!Next \/ UNCHANGED <<from, given, ended>>
    <3>1. /\ Bytes(size) \in Seq(Nat) /\ Len(Bytes(size)) = Len(read.bytes) + size
          /\ \A i \in 1 .. Len(Bytes(size)) : Bytes(size)[i] = from + Len(given) + i - 1
          /\ size \in Nat \ {0} /\ Reached + size <= Total
          /\ EndOfStream(size) => Reached + size = Total
      BY <2>2, Taken
    <3>2. \/ Return(Bytes(size), IF EndOfStream(size) THEN "done" ELSE "data")
          \/ UNCHANGED <<status, from, given, ended>>
      BY <2>2 DEF TakeMedia, histVars, Bytes
    <3>3. CASE Return(Bytes(size), IF EndOfStream(size) THEN "done" ELSE "data")
      <4>1. PICK state \in {"data", "done"} :
              Return(Bytes(size), state) /\ (state = "done" => EndOfStream(size))
        BY <3>3
      <4>2. size \in Int BY <3>1
      <4>3. Reached + size = from + Len(given) + (Len(read.bytes) + size)
        BY <4>2, ReachedIs, Zenon DEF Sound
      <4>4. Reached + size = from + Len(given) + Len(Bytes(size)) BY <3>1, <4>3, Zenon
      <4>5. Len(Bytes(size)) > 0
        <5>1. Len(read.bytes) \in Nat BY Types DEF Sound
        <5> QED BY <3>1, <5>1
      <4>6. /\ from + Len(given) + Len(Bytes(size)) <= Total
            /\ state = "done" => from + Len(given) + Len(Bytes(size)) = Total
        BY <3>1, <4>1, <4>4, Zenon
      <4>7. Stream!Give BY <3>1, <4>1, <4>5, <4>6, StepGives
      <4> QED BY <4>7 DEF Stream!Next
    <3> QED BY <3>2, <3>3
  <2>3. CASE NothingLeft
    <3>1. Return(read.bytes, IF read.bytes = <<>> THEN BusSays ELSE "data") BY <2>3 DEF NothingLeft
    <3>2. read.bytes \in Seq(Nat) /\ given \in Seq(Nat) /\ Len(given) \in Nat /\ from \in Nat
          /\ Len(read.bytes) \in Nat
      BY Types DEF Sound
    <3>3. CASE read.bytes = <<>>
      <4>1. from' = from /\ given' = given
        <5>1. given' = given \o <<>> /\ from' = from BY <3>1, <3>3 DEF Return
        <5> QED BY <3>2, <5>1, ConcatEmptySeq
      <4>2. CASE ended' = ended BY <4>1, <4>2
      <4>3. CASE ended' # ended
        <5>1. Reached = Total /\ ended' = TRUE BY <2>3, <3>3, <4>3, NothingLeftSound
        <5>2. Len(read.bytes) = 0 BY <3>3, EmptySeq
        <5>3. from + Len(given) = Total BY <3>2, <5>1, <5>2 DEF Reached
        <5> QED BY <4>1, <5>1, <5>3 DEF Stream!Next, Stream!End
      <4> QED BY <4>2, <4>3
    <3>4. CASE read.bytes # <<>>
      <4>1. Return(read.bytes, "data") BY <3>1, <3>4
      <4>2. Len(read.bytes) > 0 BY <3>2, <3>4, EmptySeq
      <4>3. \A i \in 1 .. Len(read.bytes) : read.bytes[i] = from + Len(given) + i - 1
        BY DEF Sound, InOrder
      <4>4. from + Len(given) + Len(read.bytes) <= Total
        <5>1. open BY <2>3 DEF NothingLeft, Sound, Phases
        <5>2. Aligned(bus, remain, Reached, told, pos, fresh) BY <5>1 DEF Sound, Synced
        <5>3. /\ bus \in Seq(Unit) /\ remain \in Nat /\ fresh \in BOOLEAN /\ Reached \in Nat
              /\ 0 \in 0 .. Len(bus) /\ 0 <= remain
          BY Types DEF Sound
        <5>4. Reached \in 0 .. Total BY <5>2, <5>3, MediaRead
        <5>5. Reached <= Total BY <5>4, HlsConstants
        <5> QED BY <5>5 DEF Reached
      <4>5. "data" \in {"data", "done"} /\ "data" # "done" OBVIOUS
      <4>6. Stream!Give BY <3>2, <4>1, <4>2, <4>3, <4>4, <4>5, StepGives
      <4> QED BY <4>6 DEF Stream!Next
    <3> QED BY <3>3, <3>4
  <2> QED BY <1>3, <2>1, <2>2, <2>3 DEF Filter
<1>4. CASE Application
  <2>1. CASE \E mode \in {"copy", "zero"}, wanted \in Wanted : ReadCall(mode, wanted)
    BY <2>1 DEF ReadCall, histVars
  <2>2. CASE \E at \in SeekTo : Seek(at)
    BY <2>2 DEF Seek, Restart, Stream!Next, Stream!Restart
  <2>3. CASE Close BY <2>3 DEF Close, histVars
  <2>4. CASE Open BY <2>4 DEF Open, Restart, Stream!Next, Stream!Restart
  <2> QED BY <1>4, <2>1, <2>2, <2>3, <2>4 DEF Application
<1> QED BY <1>1, <1>2, <1>3, <1>4 DEF Next

-----------------------------------------------------------------------------
\* The bus never holds more than it can, nor media_remain more than a block.
THEOREM TypeCorrect == Spec => []TypeOK
<1>1. Sound => TypeOK BY DEF Sound
<1> QED BY <1>1, InitSound, SoundStep, PTL DEF Spec

\* file_seg_cb comes before the first byte of its segment, whatever the frames
\* the fetcher cuts it into and however reads time out between them.
THEOREM ToldBeforeMediaAlways == Spec => []ToldBeforeMedia
<1> QED BY InitSound, SoundStep, SoundTells, PTL DEF Spec

\* The application reads one continuous stream, and is_done comes with the last
\* byte or after it.
THEOREM ContinuousStreamAlways == Spec => ContinuousStream
<1>1. Init => Stream!Init BY DEF Init, Stream!Init
<1>2. Sound /\ [Next]_hlsVars => [Stream!Next]_(Stream!streamVars) BY StepOfStream
<1> QED BY <1>1, <1>2, InitSound, SoundStep, PTL DEF Spec, ContinuousStream, Stream!Spec

-----------------------------------------------------------------------------
(***************************************************************************)
(* The sources of the fetcher.                                             *)
(***************************************************************************)
FileState == Ended \cup [url : Urls, open : BOOLEAN]
HandleState == {Closed} \cup [file : Files \cup {Null}, ref : BOOLEAN]

Typed ==
  /\ file \in [Files -> FileState]
  /\ shared \in Files \cup {Null}
  /\ handle \in [Handles -> HandleState]
  /\ want \in [Handles -> Urls \cup {NoUrl}]

\* What is pointed to is there, and nothing is held while not active.
Held ==
  /\ shared # Null => active /\ file[shared] \notin Ended
  /\ backend = "files" /\ active => shared # Null
  /\ \A h \in Handles : IsOpen(h) =>
       active /\ (handle[h].file # Null => file[handle[h].file] \notin Ended)

\* Whom a handle shares its io with: all, if it is of the cache, where it is
\* then alone; else the references share one, and the others have their own.
OneOfCache ==
  backend = "cache" => \A h \in Handles : IsOpen(h) =>
    /\ ~handle[h].ref /\ handle[h].file \in {shared, Null}
    /\ \A g \in Handles : IsOpen(g) => g = h

Apart ==
  backend # "cache" => \A h \in Handles : IsOpen(h) =>
    IF handle[h].ref THEN handle[h].file = shared /\ shared # Null
    ELSE handle[h].file # Null =>
           /\ handle[h].file # shared
           /\ \A g \in Handles : IsOpen(g) /\ handle[g].file = handle[h].file => g = h

\* What an open io is at is what its handle wants, and at the playlist if it
\* is the one of the playlist.
AtWanted ==
  /\ \A h \in Handles : IsOpen(h) /\ handle[h].file # Null =>
       file[handle[h].file].url = want[h] \/ ~file[handle[h].file].open
  /\ backend # "cache" =>
       /\ shared # Null => file[shared].url = Playlist
       /\ \A h \in Handles : IsOpen(h) /\ handle[h].ref => want[h] = Playlist

SourceSound == Typed /\ Held /\ OneOfCache /\ Apart /\ AtWanted

\* What was not ended is not lost: it is held.
Kept ==
  \A f \in Files : file[f] \notin Ended =>
    f = shared \/ \E h \in Handles : IsOpen(h) /\ ~handle[h].ref /\ handle[h].file = f

\* Only the cache leaves shells.
NoShells == backend # "cache" => \A f \in Files : file[f] # Shell

-----------------------------------------------------------------------------
\* A new io or FILE is one that was not there.
LEMMA FreshIsGone == Room => Fresh \in Files /\ file[Fresh] = Gone
BY DEF Room, Fresh

\* Opening changes the one that is opened, which is there then.
LEMMA OpenedOne ==
  ASSUME NEW fs \in [Files -> FileState], NEW f \in Files,
         NEW url \in Urls, NEW ok \in BOOLEAN
  PROVE  /\ Opened(fs, f, url, ok) \in [Files -> FileState]
         /\ Opened(fs, f, url, ok)[f] \notin Ended
         /\ Opened(fs, f, url, ok)[f].url = url
         /\ Opened(fs, f, url, ok)[f].open = ok
         /\ \A g \in Files \ {f} : Opened(fs, f, url, ok)[g] = fs[g]
BY DEF Opened, FileState, Gone, Shell, Ended

\* Discarding changes the one that is discarded.
LEMMA DiscardedOne ==
  ASSUME NEW fs \in [Files -> FileState], NEW f
  PROVE  /\ Discarded(fs, f) \in [Files -> FileState]
         /\ f \in Files => Discarded(fs, f)[f] = Gone
         /\ \A g \in Files \ {f} : Discarded(fs, f)[g] = fs[g]
BY DEF Discarded, FileState, Ended

\* And so does emptying, of a shell.
LEMMA EmptiedOne ==
  ASSUME NEW fs \in [Files -> FileState], NEW f
  PROVE  /\ Emptied(fs, f) \in [Files -> FileState]
         /\ f \in Files => Emptied(fs, f)[f] = Shell
         /\ \A g \in Files \ {f} : Emptied(fs, f)[g] = fs[g]
BY DEF Emptied, FileState, Ended

\* What is gone was ended, and a shell is not gone.
LEMMA GoneIsEnded == Gone \in Ended /\ Shell \in Ended
BY DEF Ended

\* A handle that is given is open, and only that handle changes.
LEMMA GivenOne ==
  ASSUME Typed, NEW h \in Handles, NEW url \in Urls,
         NEW f \in Files \cup {Null}, NEW ref \in BOOLEAN, Gives(h, url, f, ref)
  PROVE  /\ handle' \in [Handles -> HandleState] /\ want' \in [Handles -> Urls \cup {NoUrl}]
         /\ IsOpen(h)' /\ handle'[h].file = f /\ handle'[h].ref = ref /\ want'[h] = url
         /\ \A g \in Handles \ {h} : handle'[g] = handle[g] /\ want'[g] = want[g]
BY DEF Gives, Typed, HandleState, IsOpen, Closed

LEMMA ShutOne ==
  ASSUME Typed, NEW h \in Handles, Shut(h)
  PROVE  /\ handle' \in [Handles -> HandleState] /\ want' \in [Handles -> Urls \cup {NoUrl}]
         /\ ~IsOpen(h)'
         /\ \A g \in Handles \ {h} : handle'[g] = handle[g] /\ want'[g] = want[g]
BY DEF Shut, Typed, HandleState, IsOpen

LEMMA SourceInitSound == SourceInit => SourceSound /\ Kept /\ NoShells
BY SourceAssumption DEF SourceInit, SourceSound, Typed, Held, OneOfCache, Apart, AtWanted, Kept,
  NoShells, FileState, HandleState, IsOpen, Gone, Shell, Ended

-----------------------------------------------------------------------------
\* A handle is closed, and only what is its own is discarded; what it shares
\* may be closed for all.
LEMMA ClosedSound ==
  ASSUME SourceSound, NEW h \in Handles, Shut(h), IsOpen(h), backend # "cache",
         UNCHANGED <<backend, active, shared>>, file' \in [Files -> FileState],
         \A f \in Files : handle[h].ref \/ f # handle[h].file =>
           \/ file'[f] = file[f]
           \/ file'[f] \notin Ended /\ file'[f].url = file[f].url /\ ~file'[f].open
  PROVE  SourceSound'
<1> USE DEF SourceSound
<1>1. /\ handle' \in [Handles -> HandleState] /\ want' \in [Handles -> Urls \cup {NoUrl}]
      /\ ~IsOpen(h)'
      /\ \A g \in Handles \ {h} : handle'[g] = handle[g] /\ want'[g] = want[g]
  BY ShutOne
<1>2. \A g \in Handles : IsOpen(g)' => g # h /\ IsOpen(g) BY <1>1 DEF IsOpen
<1>3. \A f \in Files : f = shared \/ (\E g \in Handles \ {h} : IsOpen(g) /\ handle[g].file = f)
        => handle[h].ref \/ f # handle[h].file
  BY SourceAssumption DEF Typed, Apart, IsOpen
<1>4. \A f \in Files : f = shared \/ (\E g \in Handles \ {h} : IsOpen(g) /\ handle[g].file = f)
        => \/ file'[f] = file[f]
           \/ file'[f] \notin Ended /\ file'[f].url = file[f].url /\ ~file'[f].open
  BY <1>3
<1>5. Typed' BY <1>1 DEF Typed
<1>6. shared # Null => shared \in Files BY DEF Typed
<1>7. \A g \in Handles : IsOpen(g) /\ handle[g].file # Null => handle[g].file \in Files
  BY DEF Typed, HandleState, IsOpen
<1>8. Held' BY <1>1, <1>2, <1>4, <1>6, <1>7 DEF Held
<1>9. OneOfCache' /\ Apart' BY <1>1, <1>2 DEF OneOfCache, Apart
<1>10. AtWanted' BY <1>1, <1>2, <1>4, <1>6, <1>7 DEF AtWanted, Held
<1> QED BY <1>5, <1>8, <1>9, <1>10

\* A handle is given of an io of its own, that was not there, or of the one of
\* the playlist.
LEMMA GivenSound ==
  ASSUME SourceSound, NEW h \in Handles, NEW url \in Urls, NEW f \in Files, NEW ref \in BOOLEAN,
         backend # "cache", active, ~IsOpen(h), Gives(h, url, f, ref),
         UNCHANGED <<backend, active, shared>>, file' \in [Files -> FileState],
         file'[f] \notin Ended, file'[f].url = url,
         \A g \in Files \ {f} : file'[g] = file[g],
         IF ref THEN f = shared /\ url = Playlist ELSE file[f] = Gone
  PROVE  SourceSound'
<1> USE DEF SourceSound
<1>1. /\ handle' \in [Handles -> HandleState] /\ want' \in [Handles -> Urls \cup {NoUrl}]
      /\ IsOpen(h)' /\ handle'[h].file = f /\ handle'[h].ref = ref /\ want'[h] = url
      /\ \A g \in Handles \ {h} : handle'[g] = handle[g] /\ want'[g] = want[g]
  BY GivenOne
<1>2. \A g \in Handles \ {h} : IsOpen(g)' <=> IsOpen(g) BY <1>1 DEF IsOpen
<1>3. f # Null BY SourceAssumption
<1>4. ~ref => f # shared /\ \A g \in Handles : IsOpen(g) => handle[g].file # f
  BY <1>3, GoneIsEnded DEF Held
<1>5. ref => \A g \in Handles : IsOpen(g) /\ handle[g].file = f => handle[g].ref /\ want[g] = url
  BY <1>3 DEF Apart, AtWanted
<1>6. Typed' BY <1>1 DEF Typed
<1>7. shared # Null => shared \in Files BY DEF Typed
<1>8. \A g \in Handles : IsOpen(g) /\ handle[g].file # Null => handle[g].file \in Files
  BY DEF Typed, HandleState, IsOpen
<1>9. Held' BY <1>1, <1>2, <1>7, <1>8 DEF Held
<1>10. Apart' BY <1>1, <1>2, <1>3, <1>4, <1>5 DEF Apart
<1>11. AtWanted' BY <1>1, <1>2, <1>4, <1>5, <1>7, <1>8 DEF AtWanted
<1> QED BY <1>6, <1>9, <1>10, <1>11 DEF OneOfCache

\* One io is opened on another URL, and what its handles want follows.
LEMMA MovedSound ==
  ASSUME SourceSound, NEW f \in Files, UNCHANGED <<backend, active, shared, handle>>,
         file' \in [Files -> FileState], want' \in [Handles -> Urls \cup {NoUrl}],
         file'[f] \notin Ended, \A g \in Files \ {f} : file'[g] = file[g],
         backend # "cache" /\ f = shared => file'[f].url = Playlist,
         \A g \in Handles : IsOpen(g) =>
           /\ IF handle[g].file = f THEN file'[f].url = want'[g] \/ ~file'[f].open
                                    ELSE want'[g] = want[g]
           /\ backend # "cache" /\ handle[g].ref => want'[g] = Playlist
  PROVE  SourceSound'
<1> USE DEF SourceSound
<1>1. Typed' BY DEF Typed
<1>2. \A g \in Handles : IsOpen(g)' <=> IsOpen(g) BY DEF IsOpen
<1>3. shared # Null => shared \in Files BY DEF Typed
<1>4. \A g \in Handles : IsOpen(g) /\ handle[g].file # Null => handle[g].file \in Files
  BY DEF Typed, HandleState, IsOpen
<1>5. Held' BY <1>2, <1>3, <1>4 DEF Held
<1>6. OneOfCache' /\ Apart' BY <1>2 DEF OneOfCache, Apart
<1>7. AtWanted' BY <1>2, <1>3, <1>4 DEF AtWanted
<1> QED BY <1>1, <1>5, <1>6, <1>7

\* The cache, where no handle was open: at most one is given.
LEMMA CacheSound ==
  ASSUME SourceSound, NEW h \in Handles, NEW url \in Urls, NEW f \in Files \cup {Null},
         backend = "cache", active, \A g \in Handles : ~IsOpen(g),
         UNCHANGED <<backend, active>>, file' \in [Files -> FileState],
         shared' \in Files \cup {Null}, shared' # Null => file'[shared'] \notin Ended,
         f \in {shared', Null}, f # Null => file'[f].url = url,
         Gives(h, url, f, FALSE) \/ UNCHANGED <<handle, want>>
  PROVE  SourceSound'
<1> USE DEF SourceSound
<1>1. CASE UNCHANGED <<handle, want>>
  <2>1. \A g \in Handles : ~IsOpen(g)' BY <1>1 DEF IsOpen
  <2> QED BY <1>1, <2>1 DEF Typed, Held, OneOfCache, Apart, AtWanted
<1>2. CASE Gives(h, url, f, FALSE)
  <2>1. /\ handle' \in [Handles -> HandleState] /\ want' \in [Handles -> Urls \cup {NoUrl}]
        /\ IsOpen(h)' /\ handle'[h].file = f /\ handle'[h].ref = FALSE /\ want'[h] = url
        /\ \A g \in Handles \ {h} : handle'[g] = handle[g] /\ want'[g] = want[g]
    BY <1>2, GivenOne
  <2>2. \A g \in Handles : IsOpen(g)' => g = h BY <2>1 DEF IsOpen
  <2>3. Typed' BY <2>1 DEF Typed
  <2>4. Held' BY <2>1, <2>2 DEF Held
  <2>5. OneOfCache' /\ Apart' BY <2>1, <2>2 DEF OneOfCache, Apart
  <2>6. AtWanted' BY <2>1, <2>2 DEF AtWanted
  <2> QED BY <2>3, <2>4, <2>5, <2>6
<1> QED BY <1>1, <1>2

-----------------------------------------------------------------------------
\* Every step, failing or not, keeps to SourceSound.
LEMMA SourceStep == ASSUME Careful, SourceSound, [SourceNext]_sourceVars PROVE SourceSound'
<1> USE DEF SourceSound
<1>1. CASE _hls_open
  BY <1>1 DEF _hls_open, Typed, Held, OneOfCache, Apart, AtWanted, IsOpen
<1>2. CASE _hls_close
  BY <1>2, DiscardedOne DEF _hls_close, Typed, Held, OneOfCache, Apart, AtWanted, IsOpen, HandleState
<1>3. CASE esp_hls_extractor_io_cfg_init
  BY <1>3 DEF esp_hls_extractor_io_cfg_init, Typed, Held, OneOfCache, Apart, AtWanted, IsOpen
<1>4. CASE origin_pending_open
  <2>1. PICK ok \in BOOLEAN : /\ file' = Opened(file, Fresh, Playlist, ok)
                             /\ shared' = IF ok THEN Fresh ELSE Null
    BY <1>4 DEF origin_pending_open
  <2>2. Fresh \in Files /\ file[Fresh] = Gone BY <1>4, FreshIsGone DEF origin_pending_open
  <2>3. /\ shared = Null /\ active /\ backend = "ios"
        /\ UNCHANGED <<backend, active, handle, want>>
    BY <1>4 DEF origin_pending_open
  <2>4. /\ file' \in [Files -> FileState]
        /\ file'[Fresh] \notin Ended /\ file'[Fresh].url = Playlist
        /\ \A g \in Files \ {Fresh} : file'[g] = file[g]
    BY <2>1, <2>2, OpenedOne, SourceAssumption DEF Typed
  <2>5. \A h \in Handles : IsOpen(h) => handle[h].file # Fresh
    BY <2>2, SourceAssumption, GoneIsEnded DEF Held
  <2>6. Typed' BY <2>1, <2>2, <2>3, <2>4 DEF Typed
  <2>7. Held' BY <2>1, <2>2, <2>3, <2>4, <2>5 DEF Held, IsOpen, Typed, HandleState
  <2>8. OneOfCache' /\ Apart' BY <2>1, <2>3, <2>5 DEF OneOfCache, Apart, IsOpen
  <2>9. AtWanted' BY <2>1, <2>2, <2>3, <2>4, <2>5 DEF AtWanted, IsOpen, Typed, HandleState
  <2> QED BY <2>6, <2>7, <2>8, <2>9
<1>5. CASE esp_hls_extractor_file_cfg_init
  <2>2. Fresh \in Files /\ file[Fresh] = Gone
    BY <1>5, FreshIsGone DEF esp_hls_extractor_file_cfg_init
  <2>3. /\ ~active /\ active' /\ shared' = Fresh /\ UNCHANGED <<backend, handle, want>>
        /\ file' = Opened(file, Fresh, Playlist, TRUE)
    BY <1>5 DEF esp_hls_extractor_file_cfg_init
  <2>4. /\ file' \in [Files -> FileState]
        /\ file'[Fresh] \notin Ended /\ file'[Fresh].url = Playlist
    <3>1. PICK ok \in BOOLEAN : ok = TRUE OBVIOUS
    <3>2. file' = Opened(file, Fresh, Playlist, ok) BY <2>3, <3>1
    <3> QED BY <2>2, <3>2, OpenedOne, SourceAssumption DEF Typed
  <2>5. \A h \in Handles : ~IsOpen(h) /\ ~IsOpen(h)' BY <2>3 DEF Held, IsOpen
  <2>6. Typed' BY <2>2, <2>3, <2>4 DEF Typed
  <2>7. Held'
    <3>1. active' /\ file'[shared'] \notin Ended /\ (\A h \in Handles : ~IsOpen(h)') /\ shared' # Null
      BY <2>2, <2>3, <2>4, <2>5, SourceAssumption
    <3> QED BY <3>1 DEF Held
  <2>8. OneOfCache' /\ Apart' BY <2>5 DEF OneOfCache, Apart
  <2>9. AtWanted' BY <2>2, <2>3, <2>4, <2>5 DEF AtWanted
  <2> QED BY <2>6, <2>7, <2>8, <2>9
<1>6. CASE cfg_deinit
  BY <1>6, DiscardedOne DEF cfg_deinit, Typed, Held, OneOfCache, Apart, AtWanted, IsOpen
<1>7. CASE UNCHANGED sourceVars
  BY <1>7 DEF sourceVars, Typed, Held, OneOfCache, Apart, AtWanted, IsOpen
<1>8. ASSUME NEW h \in Handles, cache_close(h) PROVE SourceSound'
  BY <1>8, ShutOne DEF cache_close, Typed, Held, OneOfCache, Apart, AtWanted, IsOpen
<1>9. ASSUME NEW h \in Handles, io_file_close(h) PROVE SourceSound'
  <2>1. /\ backend = "ios" /\ UNCHANGED <<backend, active, shared>> /\ IsOpen(h) /\ Shut(h)
        /\ file' = IF handle[h].ref THEN [file EXCEPT ![handle[h].file].open = FALSE]
                   ELSE Discarded(file, handle[h].file)
    BY <1>9 DEF io_file_close
  <2>2. CASE handle[h].ref
    <3>1. shared \in Files /\ handle[h].file = shared /\ file[shared] \notin Ended
      BY <2>1, <2>2 DEF Typed, Apart, Held
    <3>2. file[shared] \in [url : Urls, open : BOOLEAN] BY <3>1 DEF Typed, FileState
    <3>3. file' = [file EXCEPT ![shared] = [file[shared] EXCEPT !.open = FALSE]]
      BY <2>1, <2>2, <3>1
    <3>4. /\ file' \in [Files -> FileState] /\ file'[shared] \notin Ended
          /\ file'[shared].url = file[shared].url /\ ~file'[shared].open
          /\ \A g \in Files \ {shared} : file'[g] = file[g]
      BY <3>1, <3>2, <3>3 DEF Typed, FileState, Gone, Shell, Ended
    <3> QED BY <2>1, <3>4, ClosedSound
  <2>3. CASE ~handle[h].ref
    BY <2>1, <2>3, DiscardedOne, ClosedSound DEF Typed
  <2> QED BY <2>2, <2>3
<1>10. ASSUME NEW h \in Handles, file_close(h) PROVE SourceSound'
  <2>1. /\ backend = "files" /\ UNCHANGED <<backend, active, shared>> /\ IsOpen(h) /\ Shut(h)
        /\ file' = IF handle[h].ref THEN file ELSE Discarded(file, handle[h].file)
    BY <1>10 DEF file_close
  <2>2. CASE handle[h].ref
    BY <2>1, <2>2, ClosedSound DEF Typed
  <2>3. CASE ~handle[h].ref
    BY <2>1, <2>3, DiscardedOne, ClosedSound DEF Typed
  <2> QED BY <2>2, <2>3
<1>11. ASSUME NEW h \in Handles, NEW url \in Urls, cache_open(h, url) PROVE SourceSound'
  <2>1. /\ backend = "cache" /\ active /\ UNCHANGED <<backend, active>>
        /\ \A g \in Handles : ~IsOpen(g)
        /\ CacheUnsupported(h, url) \/ CacheHit(h, url) \/ CacheMiss(h, url)
    BY <1>11 DEF cache_open
  <2>2. CASE CacheUnsupported(h, url)
    BY <2>1, <2>2, CacheSound DEF CacheUnsupported, Typed, Held
  <2>3. CASE CacheHit(h, url)
    <3>1. PICK ok \in BOOLEAN : Reloads(shared, url, ok) /\ GivesIf(ok, h, url, shared, FALSE)
      BY <2>3 DEF CacheHit
    <3>2. UNCHANGED shared BY <2>3 DEF CacheHit
    <3>3. CASE shared = Null
      BY <2>1, <3>1, <3>2, <3>3, CacheSound DEF Reloads, GivesIf, Typed
    <3>4. CASE shared # Null
      <4>1. shared \in Files /\ file' = Opened(file, shared, url, ok)
        BY <3>1, <3>4 DEF Reloads, Typed
      <4>2. file' \in [Files -> FileState] /\ file'[shared] \notin Ended /\ file'[shared].url = url
        BY <4>1, OpenedOne DEF Typed
      <4>3. Gives(h, url, shared, FALSE) \/ UNCHANGED <<handle, want>> BY <3>1 DEF GivesIf
      <4> QED BY <2>1, <3>2, <3>4, <4>1, <4>2, <4>3, CacheSound
    <3> QED BY <3>3, <3>4
  <2>4. CASE CacheMiss(h, url)
    <3>1. CASE file' = Emptied(file, shared) /\ shared' = Null /\ UNCHANGED <<handle, want>>
      <4>1. file' \in [Files -> FileState] BY <3>1, EmptiedOne DEF Typed
      <4> QED BY <2>1, <3>1, <4>1, CacheSound
    <3>2. ASSUME Room, shared' = Fresh, NEW ok \in BOOLEAN, GivesIf(ok, h, url, Fresh, FALSE),
                 file' = Opened(Emptied(file, shared), Fresh, url, ok)
          PROVE  SourceSound'
      <4>1. Fresh \in Files BY <3>2, FreshIsGone
      <4>2. Emptied(file, shared) \in [Files -> FileState] BY EmptiedOne DEF Typed
      <4>3. file' \in [Files -> FileState] /\ file'[Fresh] \notin Ended /\ file'[Fresh].url = url
        BY <3>2, <4>1, <4>2, OpenedOne
      <4>4. Gives(h, url, Fresh, FALSE) \/ UNCHANGED <<handle, want>> BY <3>2 DEF GivesIf
      <4> QED BY <2>1, <3>2, <4>1, <4>3, <4>4, CacheSound
    <3> QED BY <2>4, <3>1, <3>2 DEF CacheMiss
  <2> QED BY <2>1, <2>2, <2>3, <2>4
<1>12. ASSUME NEW h \in Handles, NEW url \in Urls, io_file_open(h, url) PROVE SourceSound'
  <2>1. /\ backend = "ios" /\ active /\ ~IsOpen(h) /\ UNCHANGED <<backend, active, shared>>
        /\ IF url = Playlist THEN OpensPlaylistIo(h) ELSE OpensIo(h, url)
    BY <1>12 DEF io_file_open
  <2>2. CASE url = Playlist
    <3>1. PICK ok \in BOOLEAN :
            Reloads(shared, Playlist, ok) /\ GivesIf(ok, h, Playlist, shared, TRUE)
      BY <2>1, <2>2 DEF OpensPlaylistIo
    <3>2. CASE shared = Null
      BY <1>7, <2>1, <3>1, <3>2 DEF Reloads, GivesIf, Typed, Held, OneOfCache, Apart, AtWanted, IsOpen
    <3>3. CASE shared # Null
      <4>1. shared \in Files /\ file' = Opened(file, shared, Playlist, ok)
        BY <3>1, <3>3 DEF Reloads, Typed
      <4>2. /\ file' \in [Files -> FileState] /\ file'[shared] \notin Ended
            /\ file'[shared].url = Playlist /\ file'[shared].open = ok
            /\ \A g \in Files \ {shared} : file'[g] = file[g]
        BY <4>1, OpenedOne, SourceAssumption DEF Typed
      <4>3. CASE ok
        <5>1. Gives(h, url, shared, TRUE) BY <2>2, <3>1, <4>3 DEF GivesIf
        <5>2. PICK ref \in BOOLEAN : ref = TRUE OBVIOUS
        <5>3. Gives(h, url, shared, ref) BY <5>1, <5>2
        <5> QED BY <2>1, <2>2, <4>1, <4>2, <5>2, <5>3, GivenSound
      <4>4. CASE ~ok
        <5>1. UNCHANGED <<handle, want>> BY <3>1, <4>4 DEF GivesIf
        <5> QED BY <2>1, <4>1, <4>2, <4>4, <5>1, MovedSound DEF Typed, AtWanted
      <4> QED BY <4>3, <4>4
    <3> QED BY <3>2, <3>3
  <2>3. CASE url # Playlist
    <3>1. Room /\ Fresh \in Files /\ file[Fresh] = Gone
      BY <2>1, <2>3, FreshIsGone DEF OpensIo
    <3>2. PICK ok \in BOOLEAN :
            file' = Opened(file, Fresh, url, ok) /\ GivesIf(ok, h, url, Fresh, FALSE)
      BY <2>1, <2>3 DEF OpensIo
    <3>3. /\ file' \in [Files -> FileState] /\ file'[Fresh] \notin Ended
          /\ file'[Fresh].url = url
          /\ \A g \in Files \ {Fresh} : file'[g] = file[g]
      BY <3>1, <3>2, OpenedOne DEF Typed
    <3>4. CASE ok
      <4>1. Gives(h, url, Fresh, FALSE) BY <3>2, <3>4 DEF GivesIf
      <4>2. PICK ref \in BOOLEAN : ref = FALSE OBVIOUS
      <4>3. Gives(h, url, Fresh, ref) BY <4>1, <4>2
      <4> QED BY <2>1, <3>1, <3>3, <4>2, <4>3, GivenSound
    <3>5. CASE ~ok
      <4>1. UNCHANGED <<handle, want>> BY <3>2, <3>5 DEF GivesIf
      <4>2. Fresh # shared /\ \A g \in Handles : IsOpen(g) => handle[g].file # Fresh
        BY <3>1, SourceAssumption, GoneIsEnded DEF Held
      <4> QED BY <2>1, <3>1, <3>3, <4>1, <4>2, MovedSound DEF Typed, AtWanted
    <3> QED BY <3>4, <3>5
  <2> QED BY <2>2, <2>3
<1>13. ASSUME NEW h \in Handles, NEW url \in Urls, file_open(h, url) PROVE SourceSound'
  <2>1. /\ backend = "files" /\ active /\ ~IsOpen(h) /\ UNCHANGED <<backend, active, shared>>
        /\ IF url = Playlist THEN Gives(h, url, shared, TRUE) /\ UNCHANGED file
           ELSE Room /\ file' = Opened(file, Fresh, url, TRUE) /\ Gives(h, url, Fresh, FALSE)
    BY <1>13 DEF file_open
  <2>2. PICK ref \in BOOLEAN, ok \in BOOLEAN : ref = (url = Playlist) /\ ok = TRUE OBVIOUS
  <2>3. CASE url = Playlist
    <3>1. shared \in Files /\ file[shared] \notin Ended /\ file[shared].url = url
      BY <2>1, <2>3 DEF Typed, Held, AtWanted
    <3>2. Gives(h, url, shared, ref) /\ ref BY <2>1, <2>2, <2>3
    <3> QED BY <2>1, <2>3, <3>1, <3>2, GivenSound DEF Typed
  <2>4. CASE url # Playlist
    <3>1. Fresh \in Files /\ file[Fresh] = Gone BY <2>1, <2>4, FreshIsGone
    <3>2. file' = Opened(file, Fresh, url, ok) /\ Gives(h, url, Fresh, ref) /\ ~ref
      BY <2>1, <2>2, <2>4
    <3>3. /\ file' \in [Files -> FileState] /\ file'[Fresh] \notin Ended
          /\ file'[Fresh].url = url
          /\ \A g \in Files \ {Fresh} : file'[g] = file[g]
      BY <3>1, <3>2, OpenedOne DEF Typed
    <3> QED BY <2>1, <3>1, <3>2, <3>3, GivenSound
  <2> QED BY <2>3, <2>4
<1>14. ASSUME NEW h \in Handles, NEW url \in Urls, io_reload(h, url) PROVE SourceSound'
  <2> DEFINE f == handle[h].file
  <2>1. /\ backend \in {"cache", "ios"} /\ IsOpen(h)
        /\ handle[h].ref => url = Playlist
        /\ UNCHANGED <<backend, active, shared, handle>>
    BY <1>14 DEF io_reload
  <2>2. PICK ok \in BOOLEAN : /\ Reloads(f, url, ok)
                             /\ want' = IF ok THEN [want EXCEPT ![h] = url] ELSE want
    BY <1>14 DEF io_reload
  <2>3. CASE f = Null
    BY <2>1, <2>2, <2>3 DEF Reloads, Typed, Held, OneOfCache, Apart, AtWanted, IsOpen
  <2>4. CASE f # Null
    <3>1. f \in Files BY <2>1, <2>4 DEF Typed, HandleState, IsOpen
    <3>2. /\ file' \in [Files -> FileState] /\ file'[f] \notin Ended
          /\ file'[f].url = url /\ file'[f].open = ok
          /\ \A g \in Files \ {f} : file'[g] = file[g]
      BY <2>2, <2>4, <3>1, OpenedOne DEF Reloads, Typed
    <3>3. want' \in [Handles -> Urls \cup {NoUrl}] /\ \A g \in Handles \ {h} : want'[g] = want[g]
      BY <2>2 DEF Typed
    <3>4. want'[h] = IF ok THEN url ELSE want[h] BY <2>2 DEF Typed
    <3>5. backend # "cache" => (f = shared <=> handle[h].ref) BY <2>1, <2>4 DEF Apart
    <3>6. \A g \in Handles \ {h} : IsOpen(g) /\ handle[g].file = f =>
            backend # "cache" /\ handle[g].ref /\ handle[h].ref
      BY <2>1, <2>4 DEF OneOfCache, Apart
    <3>7. \A g \in Handles : IsOpen(g) /\ backend # "cache" /\ handle[g].ref => want'[g] = Playlist
      BY <2>1, <3>3, <3>4 DEF AtWanted
    <3>8. \A g \in Handles : IsOpen(g) => IF handle[g].file = f
            THEN file'[f].url = want'[g] \/ ~file'[f].open ELSE want'[g] = want[g]
      BY <2>1, <3>2, <3>3, <3>4, <3>6, <3>7
    <3> QED BY <2>1, <3>1, <3>2, <3>3, <3>5, <3>7, <3>8, MovedSound
  <2> QED BY <2>3, <2>4
<1>15. ASSUME NEW h \in Handles, NEW url \in Urls, file_reload(h, url) PROVE SourceSound'
  <2> DEFINE f == handle[h].file
  <2>1. /\ backend = "files" /\ IsOpen(h) /\ f # Null
        /\ handle[h].ref => url = Playlist
        /\ UNCHANGED <<backend, active, shared>>
    BY <1>15 DEF file_reload
  <2>2. PICK ok \in BOOLEAN :
          /\ handle[h].ref => ok
          /\ want' = IF ok THEN [want EXCEPT ![h] = url] ELSE want
          /\ file' = IF handle[h].ref THEN file
                     ELSE IF ok THEN Opened(file, f, url, TRUE) ELSE Discarded(file, f)
          /\ handle' = IF ok THEN handle ELSE [handle EXCEPT ![h].file = Null]
    BY <1>15 DEF file_reload
  <2>3. f \in Files BY <2>1 DEF Typed, HandleState, IsOpen
  <2>4. CASE handle[h].ref
    <3>1. want' = want
      BY <2>1, <2>2, <2>4 DEF AtWanted, Typed
    <3> QED BY <1>7, <2>1, <2>2, <2>4, <3>1
        DEF Typed, Held, OneOfCache, Apart, AtWanted, IsOpen
  <2>5. CASE ~handle[h].ref /\ ok
    <3>1. file' = Opened(file, f, url, ok) BY <2>2, <2>5
    <3>2. /\ file' \in [Files -> FileState] /\ file'[f] \notin Ended /\ file'[f].url = url
          /\ \A g \in Files \ {f} : file'[g] = file[g]
      BY <2>3, <3>1, OpenedOne DEF Typed
    <3>3. /\ want' \in [Handles -> Urls \cup {NoUrl}] /\ want'[h] = url
          /\ \A g \in Handles \ {h} : want'[g] = want[g]
      BY <2>2, <2>5 DEF Typed
    <3>4. /\ f # shared
          /\ \A g \in Handles \ {h} : IsOpen(g) => handle[g].file # f
      BY <2>1, <2>5 DEF Apart
    <3>5. \A g \in Handles : IsOpen(g) /\ handle[g].ref => want'[g] = Playlist
      BY <2>1, <2>5, <3>3 DEF AtWanted
    <3>6. \A g \in Handles : IsOpen(g) => IF handle[g].file = f
            THEN file'[f].url = want'[g] \/ ~file'[f].open ELSE want'[g] = want[g]
      BY <3>2, <3>3, <3>4
    <3> QED BY <2>1, <2>2, <2>3, <2>5, <3>2, <3>3, <3>4, <3>5, <3>6, MovedSound
  <2>6. CASE ~handle[h].ref /\ ~ok
    <3>1. want' = want /\ file' = Discarded(file, f) /\ handle' = [handle EXCEPT ![h].file = Null]
      BY <2>2, <2>6
    <3>2. /\ file' \in [Files -> FileState]
          /\ \A g \in Files \ {f} : file'[g] = file[g]
      BY <3>1, DiscardedOne DEF Typed
    <3>3. handle[h] \in [file : Files \cup {Null}, ref : BOOLEAN]
      BY <2>1 DEF Typed, HandleState, IsOpen
    <3>4. /\ handle' \in [Handles -> HandleState] /\ handle'[h].file = Null /\ ~handle'[h].ref
          /\ \A g \in Handles \ {h} : handle'[g] = handle[g]
      BY <2>6, <3>1, <3>3 DEF Typed, HandleState
    <3>5. /\ f # shared
          /\ \A g \in Handles \ {h} : IsOpen(g) => handle[g].file # f
      BY <2>1, <2>6 DEF Apart
    <3>6. \A g \in Handles \ {h} : IsOpen(g)' <=> IsOpen(g) BY <3>4 DEF IsOpen
    <3>7. shared # Null => shared \in Files BY DEF Typed
    <3>8. \A g \in Handles : IsOpen(g) /\ handle[g].file # Null => handle[g].file \in Files
      BY DEF Typed, HandleState, IsOpen
    <3>9. Typed' BY <2>1, <3>1, <3>2, <3>4 DEF Typed
    <3>10. Held' BY <2>1, <3>2, <3>4, <3>5, <3>6, <3>7, <3>8 DEF Held
    <3>11. OneOfCache' /\ Apart' BY <2>1, <3>4, <3>6 DEF OneOfCache, Apart
    <3>12. AtWanted' BY <2>1, <3>1, <3>2, <3>4, <3>5, <3>6, <3>7, <3>8 DEF AtWanted
    <3> QED BY <3>9, <3>10, <3>11, <3>12
  <2> QED BY <2>4, <2>5, <2>6
<1> QED BY <1>1, <1>2, <1>3, <1>4, <1>5, <1>6, <1>7, <1>8, <1>9, <1>10, <1>11, <1>12,
           <1>13, <1>14, <1>15 DEF SourceNext

-----------------------------------------------------------------------------
\* Nothing that is made is lost, where a new io always opens.
LEMMA KeptStep ==
  ASSUME Careful, "open" \notin Faults, SourceSound, Kept, [SourceNext]_sourceVars
  PROVE  Kept'
<1> USE DEF SourceSound
<1> DEFINE Owned(f) == \E h \in Handles : IsOpen(h) /\ ~handle[h].ref /\ handle[h].file = f
<1>1. CASE _hls_open \/ esp_hls_extractor_io_cfg_init \/ UNCHANGED sourceVars
  BY <1>1 DEF _hls_open, esp_hls_extractor_io_cfg_init, sourceVars, Kept, IsOpen
<1>2. CASE _hls_close
  <2>1. backend = "cache" /\ file' = Discarded(file, shared) BY <1>2 DEF _hls_close
  <2>2. \A f \in Files : file[f] \notin Ended => f = shared
    BY <2>1, SourceAssumption DEF Kept, OneOfCache
  <2> QED BY <2>1, <2>2, DiscardedOne, GoneIsEnded DEF Kept, Typed
<1>3. CASE origin_pending_open
  <2>1. /\ file' = Opened(file, Fresh, Playlist, TRUE) /\ shared = Null /\ shared' = Fresh
        /\ UNCHANGED handle
    BY <1>3 DEF origin_pending_open
  <2>2. \A f \in Files \ {Fresh} : file'[f] = file[f] BY <2>1 DEF Opened, Typed
  <2> QED BY <2>1, <2>2, SourceAssumption DEF Kept, IsOpen
<1>4. CASE esp_hls_extractor_file_cfg_init
  <2>1. /\ file' = Opened(file, Fresh, Playlist, TRUE) /\ ~active /\ shared' = Fresh
    BY <1>4 DEF esp_hls_extractor_file_cfg_init
  <2>2. \A f \in Files \ {Fresh} : file'[f] = file[f] BY <2>1 DEF Opened, Typed
  <2> QED BY <2>1, <2>2, SourceAssumption DEF Kept, Held
<1>5. CASE cfg_deinit
  <2>1. file' = Discarded(file, shared) /\ \A h \in Handles : ~IsOpen(h) BY <1>5 DEF cfg_deinit
  <2> QED BY <2>1, DiscardedOne, GoneIsEnded DEF Kept, Typed
<1>6. ASSUME NEW h \in Handles, cache_close(h) PROVE Kept'
  <2>1. backend = "cache" /\ UNCHANGED <<file, shared>> BY <1>6 DEF cache_close
  <2> QED BY <2>1, SourceAssumption DEF Kept, OneOfCache
<1>7. ASSUME NEW h \in Handles, io_file_close(h) \/ file_close(h) PROVE Kept'
  <2>1. /\ backend # "cache" /\ UNCHANGED shared /\ IsOpen(h) /\ Shut(h)
    BY <1>7 DEF io_file_close, file_close
  <2>2. /\ ~IsOpen(h)'
        /\ \A g \in Handles \ {h} : handle'[g] = handle[g]
    BY <2>1, ShutOne
  <2>3. \A f \in Files : file'[f] \notin Ended => file[f] \notin Ended /\ (handle[h].ref \/ f # handle[h].file)
    <3>1. CASE handle[h].ref
      <4>1. handle[h].file = shared /\ shared \in Files /\ file[shared] \notin Ended
        BY <2>1, <3>1 DEF Apart, Typed, Held
      <4> QED BY <1>7, <3>1, <4>1 DEF io_file_close, file_close, Typed
    <3>2. CASE ~handle[h].ref
      <4>1. file' = Discarded(file, handle[h].file) BY <1>7, <3>2 DEF io_file_close, file_close
      <4> QED BY <4>1, DiscardedOne, GoneIsEnded DEF Typed
    <3> QED BY <3>1, <3>2
  <2> QED BY <2>1, <2>2, <2>3 DEF Kept, IsOpen
<1>8. ASSUME NEW h \in Handles, NEW url \in Urls, cache_open(h, url) PROVE Kept'
  <2>1. /\ \A g \in Handles : ~IsOpen(g)
        /\ CacheUnsupported(h, url) \/ CacheHit(h, url) \/ CacheMiss(h, url)
    BY <1>8 DEF cache_open
  <2>2. \A f \in Files : file[f] \notin Ended => f = shared BY <2>1 DEF Kept
  <2>3. CASE CacheUnsupported(h, url)
    BY <2>2, <2>3 DEF CacheUnsupported, Kept
  <2>4. CASE CacheHit(h, url)
    <3>1. UNCHANGED shared /\ \A f \in Files \ {shared} : file'[f] = file[f]
      BY <2>4 DEF CacheHit, Reloads, Opened, Typed
    <3> QED BY <2>2, <3>1 DEF Kept
  <2>5. CASE CacheMiss(h, url)
    <3>1. \A f \in Files : Emptied(file, shared)[f] \in Ended
      BY <2>2, GoneIsEnded DEF Emptied
    <3>2. \/ file' = Emptied(file, shared)
          \/ shared' = Fresh /\ \E ok : file' = Opened(Emptied(file, shared), Fresh, url, ok)
      BY <2>5 DEF CacheMiss
    <3>3. \A f \in Files : file'[f] \in Ended \/ f = shared'
      BY <3>1, <3>2 DEF Opened, Emptied
    <3> QED BY <3>3 DEF Kept
  <2> QED BY <2>1, <2>3, <2>4, <2>5
<1>9. ASSUME NEW h \in Handles, NEW url \in Urls, io_file_open(h, url) PROVE Kept'
  <2>1. /\ backend = "ios" /\ ~IsOpen(h) /\ UNCHANGED shared
        /\ IF url = Playlist THEN OpensPlaylistIo(h) ELSE OpensIo(h, url)
    BY <1>9 DEF io_file_open
  <2>2. \A g \in Handles : IsOpen(g) => IsOpen(g)' /\ handle'[g] = handle[g]
    BY <2>1 DEF OpensPlaylistIo, OpensIo, GivesIf, Gives, IsOpen, Typed
  <2>3. CASE url = Playlist
    <3>1. \A f \in Files \ {shared} : file'[f] = file[f]
      BY <2>1, <2>3 DEF OpensPlaylistIo, Reloads, Opened, Typed
    <3> QED BY <2>1, <2>2, <3>1 DEF Kept
  <2>4. CASE url # Playlist
    <3>1. /\ file' = Opened(file, Fresh, url, TRUE)
          /\ Gives(h, url, Fresh, FALSE)
      BY <2>1, <2>4 DEF OpensIo, GivesIf
    <3>2. \A f \in Files \ {Fresh} : file'[f] = file[f] BY <3>1 DEF Opened, Typed
    <3>3. Fresh \in Files BY <2>1, <2>4, FreshIsGone DEF OpensIo
    <3>4. IsOpen(h)' /\ ~handle'[h].ref /\ handle'[h].file = Fresh BY <3>1, <3>3, GivenOne
    <3> QED BY <2>1, <2>2, <3>2, <3>4 DEF Kept
  <2> QED BY <2>3, <2>4
<1>10. ASSUME NEW h \in Handles, NEW url \in Urls, file_open(h, url) PROVE Kept'
  <2>1. /\ ~IsOpen(h) /\ UNCHANGED shared
        /\ IF url = Playlist THEN Gives(h, url, shared, TRUE) /\ UNCHANGED file
           ELSE Room /\ file' = Opened(file, Fresh, url, TRUE) /\ Gives(h, url, Fresh, FALSE)
    BY <1>10 DEF file_open
  <2>2. \A g \in Handles : IsOpen(g) => IsOpen(g)' /\ handle'[g] = handle[g]
    BY <2>1 DEF Gives, IsOpen, Typed
  <2>3. CASE url = Playlist
    BY <2>1, <2>2, <2>3 DEF Kept
  <2>4. CASE url # Playlist
    <3>1. \A f \in Files \ {Fresh} : file'[f] = file[f] BY <2>1, <2>4 DEF Opened, Typed
    <3>2. Fresh \in Files BY <2>1, <2>4, FreshIsGone
    <3>3. IsOpen(h)' /\ ~handle'[h].ref /\ handle'[h].file = Fresh BY <2>1, <2>4, <3>2, GivenOne
    <3> QED BY <2>1, <2>2, <3>1, <3>3 DEF Kept
  <2> QED BY <2>3, <2>4
<1>11. ASSUME NEW h \in Handles, NEW url \in Urls, io_reload(h, url) PROVE Kept'
  <2>1. /\ IsOpen(h) /\ UNCHANGED <<shared, handle>> /\ backend \in {"cache", "ios"}
        /\ \E ok \in BOOLEAN : Reloads(handle[h].file, url, ok)
    BY <1>11 DEF io_reload
  <2>2. \A f \in Files : f # handle[h].file => file'[f] = file[f]
    BY <2>1 DEF Reloads, Opened, Typed
  <2>3. \A f \in Files : f = handle[h].file => f = shared \/ Owned(f)
    BY <2>1, SourceAssumption DEF OneOfCache, Apart
  <2> QED BY <2>1, <2>2, <2>3 DEF Kept, IsOpen
<1>12. ASSUME NEW h \in Handles, NEW url \in Urls, file_reload(h, url) PROVE Kept'
  <2>1. /\ IsOpen(h) /\ UNCHANGED shared /\ backend = "files" BY <1>12 DEF file_reload
  <2>2. CASE handle' = handle
    <3>1. \A f \in Files : f # handle[h].file => file'[f] = file[f]
      BY <1>12, <2>2 DEF file_reload, Opened, Discarded, Typed
    <3>2. \A f \in Files : f = handle[h].file => f = shared \/ Owned(f)
      BY <2>1, SourceAssumption DEF Apart
    <3> QED BY <2>1, <2>2, <3>1, <3>2 DEF Kept, IsOpen
  <2>3. CASE handle' # handle
    <3>1. /\ handle' = [handle EXCEPT ![h].file = Null] /\ ~handle[h].ref
          /\ file' = Discarded(file, handle[h].file)
      BY <1>12, <2>3 DEF file_reload
    <3>2. \A g \in Handles \ {h} : handle'[g] = handle[g] BY <3>1 DEF Typed
    <3>3. \A f \in Files : file'[f] \notin Ended => f # handle[h].file /\ file[f] \notin Ended
      BY <3>1, DiscardedOne, GoneIsEnded DEF Typed
    <3> QED BY <2>1, <3>2, <3>3 DEF Kept, IsOpen
  <2> QED BY <2>2, <2>3
<1> QED BY <1>1, <1>2, <1>3, <1>4, <1>5, <1>6, <1>7, <1>8, <1>9, <1>10, <1>11, <1>12 DEF SourceNext

\* No step of a helper makes a shell: what it changes it opens or discards, or,
\* of the io of the playlist, closes.
LEMMA ShellsStep ==
  ASSUME Careful, SourceSound, NoShells, [SourceNext]_sourceVars
  PROVE  NoShells'
<1> SUFFICES ASSUME backend # "cache", backend' # "cache" PROVE \A f \in Files : file'[f] # Shell
  <2>1. backend' = backend
    BY DEF SourceNext, sourceVars, _hls_open, _hls_close, esp_hls_extractor_io_cfg_init,
      origin_pending_open, esp_hls_extractor_file_cfg_init, cfg_deinit, cache_open, cache_close,
      io_reload, io_file_open, io_file_close, file_open, file_reload, file_close
  <2> QED BY <2>1 DEF NoShells
<1> USE DEF SourceSound
<1>0. file \in [Files -> FileState] /\ \A f \in Files : file[f] # Shell BY DEF NoShells, Typed
<1>1. ASSUME NEW f, NEW url, NEW ok, file' = Opened(file, f, url, ok)
      PROVE  \A g \in Files : file'[g] # Shell
  <2>1. [url |-> url, open |-> ok] # Shell BY DEF Shell
  <2> QED BY <1>0, <1>1, <2>1 DEF Opened
<1>2. ASSUME NEW f, file' = Discarded(file, f) PROVE \A g \in Files : file'[g] # Shell
  <2>1. Gone # Shell BY DEF Gone, Shell
  <2> QED BY <1>0, <1>2, <2>1 DEF Discarded
<1>3. CASE UNCHANGED file BY <1>0, <1>3
<1>4. CASE origin_pending_open \/ esp_hls_extractor_file_cfg_init
  BY <1>1, <1>4 DEF origin_pending_open, esp_hls_extractor_file_cfg_init
<1>5. CASE cfg_deinit BY <1>2, <1>5 DEF cfg_deinit
<1>6. ASSUME NEW h \in Handles, io_file_close(h) PROVE \A g \in Files : file'[g] # Shell
  <2>1. CASE handle[h].ref
    <3>1. shared \in Files /\ handle[h].file = shared /\ file[shared] \notin Ended
      BY <1>6, <2>1 DEF io_file_close, Typed, Apart, Held
    <3>2. file[shared] \in [url : Urls, open : BOOLEAN] BY <3>1 DEF Typed, FileState
    <3>3. file' = [file EXCEPT ![shared] = [file[shared] EXCEPT !.open = FALSE]]
      BY <1>6, <2>1, <3>1 DEF io_file_close
    <3>4. file'[shared] # Shell BY <1>0, <3>1, <3>2, <3>3 DEF Shell
    <3> QED BY <1>0, <3>3, <3>4
  <2>2. CASE ~handle[h].ref BY <1>2, <1>6, <2>2 DEF io_file_close
  <2> QED BY <2>1, <2>2
<1>7. ASSUME NEW h \in Handles, file_close(h) PROVE \A g \in Files : file'[g] # Shell
  BY <1>2, <1>3, <1>7 DEF file_close
<1>8. ASSUME NEW h \in Handles, NEW url \in Urls, io_file_open(h, url) \/ file_open(h, url)
      PROVE  \A g \in Files : file'[g] # Shell
  BY <1>1, <1>3, <1>8 DEF io_file_open, OpensPlaylistIo, OpensIo, Reloads, file_open
<1>9. ASSUME NEW h \in Handles, NEW url \in Urls, io_reload(h, url) \/ file_reload(h, url)
      PROVE  \A g \in Files : file'[g] # Shell
  BY <1>1, <1>2, <1>3, <1>9 DEF io_reload, Reloads, file_reload
<1>10. ASSUME NEW h \in Handles, NEW url \in Urls
       PROVE  ~(_hls_open \/ _hls_close \/ cache_open(h, url) \/ cache_close(h))
  BY DEF _hls_open, _hls_close, cache_open, cache_close
<1>11. UNCHANGED sourceVars \/ esp_hls_extractor_io_cfg_init => UNCHANGED file
  BY DEF sourceVars, esp_hls_extractor_io_cfg_init
<1>12. ~_hls_open /\ ~_hls_close BY DEF _hls_open, _hls_close
<1>13. \A h \in Handles : ~cache_close(h) BY DEF cache_close
<1> QED BY <1>3, <1>4, <1>5, <1>6, <1>7, <1>8, <1>9, <1>10, <1>11, <1>12, <1>13 DEF SourceNext

\* SourceSound is what the two properties are about.
LEMMA SoundReads == SourceSound => ReadsItsUrl
BY DEF SourceSound, Typed, HandleState, FileState, AtWanted, ReadsItsUrl, Reads, IsOpen

LEMMA KeptOwns == SourceSound /\ Kept /\ NoShells => EachHasItsOwner
<1> SUFFICES ASSUME SourceSound, Kept, NoShells PROVE EachHasItsOwner OBVIOUS
<1> USE DEF SourceSound
<1> DEFINE own == {h \in Handles : IsOpen(h) /\ ~handle[h].ref /\ handle[h].file # shared}
           held == {handle[h].file : h \in own} \cup {shared}
<1>1. \A h \in own : handle[h].file \in Files \cup {Null} /\
        (handle[h].file # Null => file[handle[h].file] \notin Ended)
  BY DEF Typed, HandleState, Held, IsOpen
<1>2. \A f \in Files : file[f] \notin Ended => f \in held BY DEF Kept
<1>3. \A f \in held \ {Null} : f \in Files /\ file[f] \notin Ended BY <1>1 DEF Typed, Held
<1>4. Null \notin Files BY SourceAssumption
<1>5. {f \in Files : file[f] \notin Ended} = held \ {Null} BY <1>2, <1>3, <1>4
<1>6. \A h, g \in own : handle[h].file = handle[g].file => h = g \/ handle[h].file = Null
  BY DEF OneOfCache, Apart
<1> QED BY <1>5, <1>6 DEF EachHasItsOwner, NoShells

\* Whatever fails, what a careful fetcher reads through a handle is the URL
\* that it opened or last reloaded the handle for: one io serves all handles
\* of the cache in turn, and all those of the playlist.
THEOREM ReadsItsUrlAlways == Careful => (SourceSpec => []ReadsItsUrl)
<1> SUFFICES ASSUME Careful PROVE SourceSpec => []ReadsItsUrl OBVIOUS
<1>1. SourceInit => SourceSound BY SourceInitSound
<1>2. SourceSound /\ [SourceNext]_sourceVars => SourceSound' BY SourceStep
<1> QED BY <1>1, <1>2, SoundReads, PTL DEF SourceSpec

\* Where an io that was made always opens, what was not ended has its one
\* owner, and no owner holds what was ended: an io that does not open is the one
\* case in which one is lost as it is.  A shell is lost with the cache only, at
\* a change of scheme.
THEOREM EachHasItsOwnerAlways ==
  Careful /\ "open" \notin Faults => (SourceSpec => []EachHasItsOwner)
<1> SUFFICES ASSUME Careful, "open" \notin Faults PROVE SourceSpec => []EachHasItsOwner OBVIOUS
<1> DEFINE Whole == SourceSound /\ Kept /\ NoShells
<1>1. SourceInit => Whole BY SourceInitSound
<1>2. Whole /\ [SourceNext]_sourceVars => Whole' BY SourceStep, KeptStep, ShellsStep
<1>3. Whole => EachHasItsOwner BY KeptOwns
<1> HIDE DEF Whole
<1> QED BY <1>1, <1>2, <1>3, PTL DEF SourceSpec
=============================================================================
