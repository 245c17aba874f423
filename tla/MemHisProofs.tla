---------------------------- MODULE MemHisProofs ----------------------------
(***************************************************************************)
(* For any number and size of slices and any records: the slice that the   *)
(* save thread writes is its own, records that fit are not given up, the   *)
(* file is in order and lacks nothing but slices that stop left full, and, *)
(* where stop comes when the thread has caught up, the file is the log.    *)
(***************************************************************************)
EXTENDS MemHis, SequenceTheorems, TLAPS

-----------------------------------------------------------------------------
(* Slices, counted back from the one that is being filled.                 *)

Back(s, d) == (s + Slices - d) % Slices
Bytes(d) == d * SliceSize

LEMMA ModSmall == ASSUME NEW m \in Nat \ {0}, NEW a \in 0 .. m - 1 PROVE a % m = a
OBVIOUS
LEMMA ModWrap == ASSUME NEW m \in Nat \ {0}, NEW a \in m .. 2 * m - 1 PROVE a % m = a - m
OBVIOUS

LEMMA BackIs ==
  ASSUME NEW s \in Slice, NEW d \in 0 .. Slices
  PROVE  /\ Back(s, d) = IF s >= d THEN s - d ELSE s - d + Slices
         /\ Back(s, d) \in Slice
<1>1. s + Slices - d \in 0 .. 2 * Slices - 1 BY HisConstants DEF Slice
<1>2. CASE s >= d
  <2>1. s + Slices - d \in Slices .. 2 * Slices - 1 BY <1>2, HisConstants DEF Slice
  <2> QED BY <1>2, <2>1, ModWrap, HisConstants DEF Back, Slice
<1>3. CASE s < d
  <2>1. s + Slices - d \in 0 .. Slices - 1 BY <1>3, HisConstants DEF Slice
  <2> QED BY <1>3, <2>1, ModSmall, HisConstants DEF Back, Slice
<1> QED BY <1>2, <1>3, HisConstants DEF Slice

\* The write position moves on, and all slices are one further back.
LEMMA NextIs ==
  ASSUME NEW s \in Slice
  PROVE  /\ (s + 1) % Slices \in Slice
         /\ Back((s + 1) % Slices, 1) = s
         /\ \A d \in 0 .. Slices - 1 : Back((s + 1) % Slices, d + 1) = Back(s, d)
<1>1. (s + 1) % Slices = IF s = Slices - 1 THEN 0 ELSE s + 1
  BY ModSmall, ModWrap, HisConstants DEF Slice
<1>2. (s + 1) % Slices \in Slice BY <1>1, HisConstants DEF Slice
<1>3. ASSUME NEW d \in 0 .. Slices - 1 PROVE Back((s + 1) % Slices, d + 1) = Back(s, d)
  <2>1. d + 1 \in 0 .. Slices /\ d \in 0 .. Slices BY HisConstants
  <2>2. Back(s, d) = IF s >= d THEN s - d ELSE s - d + Slices BY <2>1, BackIs
  <2>3. Back((s + 1) % Slices, d + 1) =
          IF (s + 1) % Slices >= d + 1 THEN ((s + 1) % Slices) - (d + 1)
          ELSE ((s + 1) % Slices) - (d + 1) + Slices
    BY <1>2, <2>1, BackIs
  <2> QED BY <1>1, <2>2, <2>3, HisConstants DEF Slice
<1>4. Back(s, 0) = s BY BackIs, HisConstants DEF Slice
<1> QED BY <1>2, <1>3, <1>4, HisConstants

\* A full slice is not the one being filled, and no two are the same.
LEMMA BackApart ==
  ASSUME NEW s \in Slice, NEW d \in 1 .. Slices - 1
  PROVE  Back(s, d) # s
<1>1. d \in 0 .. Slices BY HisConstants
<1>2. Back(s, d) = IF s >= d THEN s - d ELSE s - d + Slices BY <1>1, BackIs
<1> QED BY <1>2, HisConstants DEF Slice

LEMMA BytesAre ==
  /\ Bytes(0) = 0
  /\ \A d \in Nat : Bytes(d) \in Nat /\ Bytes(d + 1) = Bytes(d) + SliceSize
BY HisConstants DEF Bytes

\* Bytes in order, behind bytes in order.
LEMMA AppendRun ==
  ASSUME NEW l \in Nat, NEW k \in Nat
  PROVE  /\ [i \in 1 .. l |-> i] \o [i \in 1 .. k |-> l + i] = [i \in 1 .. l + k |-> i]
         /\ Len([i \in 1 .. l + k |-> i]) = l + k
OBVIOUS

-----------------------------------------------------------------------------
(* What holds whenever stop comes.                                         *)

\* The oldest full slice is the one the thread writes, and when all are full
\* the next record begins in an empty one.
Shared ==
  /\ n = Slices => filled = 0
  /\ saver \in {"locate", "write", "release"} => n > 0
  /\ saver \in {"write", "release"} => head = Back(wp, n)

Sound == TypeOK /\ Shared /\ NeverDrops

LEMMA RecordsAre ==
  ASSUME NEW p \in Record
  PROVE  p \in Seq(Nat \ {0}) /\ p # <<>> /\ PieceSum(p) \in Nat
<1>1. CASE p \in {<<Detail, f>> : f \in Frames \ {0}}
  <2>1. PICK f \in Nat \ {0} : p = <<Detail, f>> BY <1>1, HisConstants
  <2>2. Detail \in Nat \ {0} /\ Detail + f \in Nat BY HisConstants
  <2> QED BY <2>1, <2>2 DEF PieceSum
<1>2. CASE p = <<FreeDetail>> \/ p = <<Detail>>
  <2>1. PICK d \in Nat \ {0} : p = <<d>> BY <1>2, HisConstants
  <2> QED BY <2>1 DEF PieceSum
<1> QED BY <1>1, <1>2 DEF Record

LEMMA InitSound == Init => Sound
BY HisConstants DEF Init, Sound, TypeOK, Shared, NeverDrops, Slice

\* One turn of his_write.
LEMMA CopyIs ==
  ASSUME Sound, Copy
  PROVE  \E fill \in 1 .. SliceSize - filled :
           /\ accepted' = accepted + fill
           /\ cache' \in [Slice -> [0 .. SliceSize - 1 -> Nat]]
           /\ \A s \in Slice \ {wp} : cache'[s] = cache[s]
           /\ \A k \in 0 .. filled - 1 : cache'[wp][k] = cache[wp][k]
           /\ \A k \in filled .. filled + fill - 1 : cache'[wp][k] = accepted + k - filled + 1
           /\ writer' \in Seq(Nat \ {0})
           /\ \/ filled + fill < SliceSize /\ filled' = filled + fill /\ UNCHANGED <<wp, n>>
              \/ /\ filled + fill = SliceSize /\ filled' = 0
                 /\ wp' = (wp + 1) % Slices /\ n' = n + 1
<1> DEFINE size == Head(writer)
           left == SliceSize - filled
           fill == IF left > size THEN size ELSE left
<1>1. /\ writer # <<>> /\ writer \in Seq(Nat \ {0})
      /\ filled \in 0 .. SliceSize - 1 /\ wp \in Slice /\ accepted \in Nat
      /\ cache \in [Slice -> [0 .. SliceSize - 1 -> Nat]]
  BY DEF Sound, TypeOK, Copy
<1>2. size \in Nat \ {0} /\ Tail(writer) \in Seq(Nat \ {0}) BY <1>1
<1>3. fill \in 1 .. SliceSize - filled BY <1>1, <1>2, HisConstants
<1>4. accepted' = accepted + fill BY DEF Copy
<1>5. cache' = [cache EXCEPT ![wp] = [k \in 0 .. SliceSize - 1 |->
               IF k \in filled .. filled + fill - 1 THEN accepted + k - filled + 1
                                                     ELSE cache[wp][k]]]
  BY DEF Copy
<1>6. /\ cache' \in [Slice -> [0 .. SliceSize - 1 -> Nat]]
      /\ \A s \in Slice \ {wp} : cache'[s] = cache[s]
      /\ \A k \in 0 .. filled - 1 : cache'[wp][k] = cache[wp][k]
      /\ \A k \in filled .. filled + fill - 1 : cache'[wp][k] = accepted + k - filled + 1
  <2> HIDE DEF fill
  <2> QED BY <1>1, <1>3, <1>5, HisConstants
<1>7. \/ left > fill /\ filled' = filled + fill /\ UNCHANGED <<wp, n>> /\ writer' = Tail(writer)
      \/ left = fill /\ NextSlice /\
           writer' = IF size = fill THEN Tail(writer) ELSE <<size - fill>> \o Tail(writer)
  BY DEF Copy
<1>8. writer' \in Seq(Nat \ {0})
  <2>1. size = fill \/ size - fill \in Nat \ {0}
    <3> HIDE DEF size
    <3> QED BY <1>1, <1>2, HisConstants
  <2>2. size - fill \in Nat \ {0} => <<size - fill>> \o Tail(writer) \in Seq(Nat \ {0})
    <3> HIDE DEF size, fill
    <3> QED BY <1>2
  <2> QED BY <1>2, <1>7, <2>1, <2>2
<1>9. \/ filled + fill < SliceSize /\ filled' = filled + fill /\ UNCHANGED <<wp, n>>
      \/ filled + fill = SliceSize /\ filled' = 0 /\ wp' = (wp + 1) % Slices /\ n' = n + 1
  <2> HIDE DEF fill
  <2> QED BY <1>1, <1>3, <1>7, HisConstants DEF NextSlice
<1> HIDE DEF fill
<1> QED BY <1>3, <1>4, <1>6, <1>8, <1>9

LEMMA SoundStep == Sound /\ [Next]_hisVars => Sound'
<1> SUFFICES ASSUME Sound, [Next]_hisVars PROVE Sound' OBVIOUS
<1> USE HisConstants DEF Sound
<1>1. ASSUME NEW p \in Record, Begin(p) PROVE Sound'
  BY <1>1, RecordsAre DEF Begin, TypeOK, Shared, NeverDrops, ring
<1>2. ASSUME NEW p \in Record, GiveUp(p) PROVE Sound'
  <2>1. TypeOK' /\ Shared' BY <1>2, RecordsAre DEF GiveUp, TypeOK, Shared, ring
  <2>2. PieceSum(p) > SliceSize
    BY <1>2, RecordsAre DEF GiveUp, Enough, TypeOK, Shared
  <2> QED BY <1>2, <2>1, <2>2 DEF GiveUp, NeverDrops
<1>3. CASE Copy
  <2>1. PICK fill \in 1 .. SliceSize - filled :
           /\ accepted' = accepted + fill
           /\ cache' \in [Slice -> [0 .. SliceSize - 1 -> Nat]]
           /\ writer' \in Seq(Nat \ {0})
           /\ \/ filled + fill < SliceSize /\ filled' = filled + fill /\ UNCHANGED <<wp, n>>
              \/ /\ filled + fill = SliceSize /\ filled' = 0
                 /\ wp' = (wp + 1) % Slices /\ n' = n + 1
    BY <1>3, CopyIs
  <2>2. n < Slices /\ UNCHANGED <<running, stopping, file, dropped, saver, head, stop>>
    BY <1>3 DEF Copy
  <2>3. TypeOK'
    <3>3. filled' \in 0 .. SliceSize - 1 /\ n' \in 0 .. Slices
      <4>1. filled \in 0 .. SliceSize - 1 /\ n \in 0 .. Slices BY DEF TypeOK
      <4>2. \/ filled + fill < SliceSize /\ filled' = filled + fill /\ n' = n
            \/ filled' = 0 /\ n' = n + 1
        BY <2>1
      <4> QED BY <2>2, <4>1, <4>2
    <3>1. wp' \in Slice
      <4>1. wp \in Slice /\ (wp + 1) % Slices \in Slice BY NextIs DEF TypeOK
      <4> QED BY <2>1, <4>1
    <3>2. accepted' \in Nat BY <2>1 DEF TypeOK
    <3> QED BY <2>1, <2>2, <3>3, <3>1, <3>2 DEF TypeOK
  <2>4. Shared'
    <3>1. n \in 0 .. Slices - 1 BY <2>2 DEF TypeOK
    <3>2. Back((wp + 1) % Slices, n + 1) = Back(wp, n) BY <3>1, NextIs DEF TypeOK
    <3>3. \/ UNCHANGED <<wp, n>>
          \/ n' = n + 1 /\ Back(wp', n') = Back(wp, n) /\ filled' = 0
      BY <2>1, <3>2
    <3> QED BY <2>2, <3>1, <3>3 DEF Shared
  <2> QED BY <2>2, <2>3, <2>4 DEF NeverDrops
<1>4. CASE SaverStart \/ SaverPoll \/ SaverCheck \/ SaverClose \/ StopRequest \/ StopFinish
  BY <1>4 DEF SaverStart, SaverPoll, SaverCheck, SaverClose, StopRequest, StopFinish, Saver,
    TypeOK, Shared, NeverDrops, ring
<1>5. CASE SaverLocate
  <2>1. Back(wp, n) \in Slice BY BackIs DEF TypeOK
  <2> QED BY <1>5, <2>1 DEF SaverLocate, Saver, Back, TypeOK, Shared, NeverDrops, ring
<1>6. CASE SaverRelease
  BY <1>6 DEF SaverRelease, Saver, TypeOK, Shared, NeverDrops
<1>7. CASE SaverWrite
  <2>1. [k \in 1 .. SliceSize |-> cache[head][k - 1]] \in Seq(Nat)
    BY <1>7 DEF TypeOK
  <2>2. file' \in Seq(Nat) BY <1>7, <2>1 DEF SaverWrite, TypeOK
  <2> QED BY <1>7, <2>2 DEF SaverWrite, Saver, TypeOK, Shared, NeverDrops, ring
<1>8. CASE SaverFlush
  <2>1. [k \in 1 .. filled |-> cache[wp][k - 1]] \in Seq(Nat)
    BY <1>8 DEF TypeOK
  <2>2. file' \in Seq(Nat) BY <1>8, <2>1 DEF SaverFlush, TypeOK
  <2> QED BY <1>8, <2>2 DEF SaverFlush, Saver, TypeOK, Shared, NeverDrops, ring
<1>9. CASE UNCHANGED hisVars
  BY <1>9 DEF hisVars, TypeOK, Shared, NeverDrops, ring
<1> QED BY <1>1, <1>2, <1>3, <1>4, <1>5, <1>6, <1>7, <1>8, <1>9
    DEF Next, WriterNext, SaverNext, Finished

LEMMA SoundShares == Sound => SliceNotShared
<1> SUFFICES ASSUME Sound, saver \in {"write", "release"}, n < Slices PROVE head # wp
  BY DEF Sound, Shared, SliceNotShared, Back
<1>1. n \in 1 .. Slices - 1 /\ wp \in Slice /\ head = Back(wp, n)
  BY HisConstants DEF Sound, Shared, TypeOK
<1> QED BY <1>1, BackApart

-----------------------------------------------------------------------------
(* What ring and file hold, whenever stop comes; and, Calm, when it comes  *)
(* after the thread has caught up.                                         *)

\* What is in the ring: full slices, the newest at one back, and the bytes of
\* the slice that is being filled.
Contents ==
  /\ \A d \in 1 .. n : \A k \in 0 .. SliceSize - 1 :
       cache[Back(wp, d)][k] = accepted - filled - Bytes(d) + k + 1
  /\ \A k \in 0 .. filled - 1 : cache[wp][k] = accepted - filled + k + 1

\* The bytes before those of the ring.
Saved ==
  CASE saver = "release" -> accepted - filled - Bytes(n) + SliceSize
    [] OTHER -> accepted - filled - Bytes(n)

\* The first l bytes and, leaving b of them out, the next k.
Skipping(l, b, k) == [i \in 1 .. l + k |-> IF i <= l THEN i ELSE i + b]

\* The file has these, and at the end those of the unfinished slice.
FileHas ==
  /\ saver \notin {"close", "done"} => Len(file) = Saved /\ file = [i \in 1 .. Len(file) |-> i]
  /\ saver \in {"close", "done"} => Saved \in Nat /\ file = Skipping(Saved, Bytes(n), filled)

\* After the call of stop nothing is added.
Stopping ==
  /\ stop # "no" => writer = <<>>
  /\ saver \in {"flush", "close", "done"} => stop # "no"
  /\ stopping => stop # "no"

Ordered == Sound /\ Contents /\ FileHas /\ Stopping

\* The thread does not come to the unfinished slice while one is full.
CaughtUp ==
  stop # "no" => saver # "created" /\ (saver \in {"check", "flush", "close", "done"} => n = 0)

Complete == Ordered /\ CaughtUp

LEMMA InitComplete == Init => Complete
<1> SUFFICES ASSUME Init PROVE Complete OBVIOUS
<1>1. Contents BY BytesAre DEF Init, Contents
<1>2. FileHas BY BytesAre DEF Init, FileHas, Saved
<1> QED BY <1>1, <1>2, InitSound DEF Init, Complete, Ordered, CaughtUp, Stopping

\* A copy keeps what is in the ring, and what is not.
LEMMA CopyKeeps ==
  ASSUME Sound, Contents, Copy
  PROVE  Contents' /\ accepted' - filled' - Bytes(n') = accepted - filled - Bytes(n)
<1>1. PICK fill \in 1 .. SliceSize - filled :
         /\ accepted' = accepted + fill
         /\ \A s \in Slice \ {wp} : cache'[s] = cache[s]
         /\ \A k \in 0 .. filled - 1 : cache'[wp][k] = cache[wp][k]
         /\ \A k \in filled .. filled + fill - 1 : cache'[wp][k] = accepted + k - filled + 1
         /\ \/ filled + fill < SliceSize /\ filled' = filled + fill /\ UNCHANGED <<wp, n>>
            \/ /\ filled + fill = SliceSize /\ filled' = 0
               /\ wp' = (wp + 1) % Slices /\ n' = n + 1
  BY CopyIs
<1>2. /\ n \in 0 .. Slices - 1 /\ filled \in 0 .. SliceSize - 1 /\ wp \in Slice
      /\ accepted \in Nat /\ SliceSize \in Nat \ {0} /\ Slices \in Nat
  BY HisConstants DEF Sound, TypeOK, Copy
<1>3. \A d \in 1 .. n : cache'[Back(wp, d)] = cache[Back(wp, d)]
  <2> SUFFICES ASSUME NEW d \in 1 .. n PROVE cache'[Back(wp, d)] = cache[Back(wp, d)]
    OBVIOUS
  <2>1. d \in 1 .. Slices - 1 /\ d \in 0 .. Slices BY <1>2
  <2>2. Back(wp, d) \in Slice \ {wp} BY <1>2, <2>1, BackIs, BackApart
  <2> QED BY <1>1, <2>2
<1>4. \A k \in 0 .. filled + fill - 1 : cache'[wp][k] = accepted - filled + k + 1
  <2> SUFFICES ASSUME NEW k \in 0 .. filled + fill - 1
               PROVE  cache'[wp][k] = accepted - filled + k + 1
    OBVIOUS
  <2>1. CASE k < filled
    <3>1. k \in 0 .. filled - 1 BY <1>2, <2>1
    <3> QED BY <1>1, <3>1 DEF Contents
  <2>2. CASE k >= filled
    <3>1. k \in filled .. filled + fill - 1 BY <1>2, <2>2
    <3>2. cache'[wp][k] = accepted + k - filled + 1 BY <1>1, <3>1
    <3> QED BY <1>2, <3>2
  <2> QED BY <1>2, <2>1, <2>2
<1>5. n \in Nat /\ Bytes(n) \in Nat /\ Bytes(n + 1) = Bytes(n) + SliceSize
  BY <1>2, BytesAre
<1>6. CASE filled + fill < SliceSize /\ filled' = filled + fill /\ UNCHANGED <<wp, n>>
  <2>1. accepted' - filled' = accepted - filled BY <1>1, <1>2, <1>6
  <2>2. \A d \in 1 .. n : Bytes(d) \in Nat BY <1>2, BytesAre
  <2>3. \A d \in 1 .. n : \A k \in 0 .. SliceSize - 1 :
          cache'[Back(wp, d)][k] = accepted - filled - Bytes(d) + k + 1
    BY <1>3 DEF Contents
  <2>4. \A d \in 1 .. n' : \A k \in 0 .. SliceSize - 1 :
          cache'[Back(wp', d)][k] = accepted' - filled' - Bytes(d) + k + 1
    BY <1>6, <2>1, <2>3
  <2>5. \A k \in 0 .. filled' - 1 : cache'[wp'][k] = accepted' - filled' + k + 1
    <3>1. filled' = filled + fill /\ wp' = wp BY <1>6
    <3>2. \A k \in 0 .. filled + fill - 1 : cache'[wp][k] = accepted' - filled' + k + 1
      BY <1>4, <2>1
    <3>3. 0 .. filled' - 1 = 0 .. filled + fill - 1 BY <1>2, <3>1
    <3> QED BY <3>1, <3>2, <3>3
  <2> QED BY <1>6, <2>1, <2>4, <2>5 DEF Contents, Back, Bytes
<1>7. CASE filled + fill = SliceSize /\ filled' = 0 /\ wp' = (wp + 1) % Slices /\ n' = n + 1
  <2>1. accepted' - filled' = accepted - filled + SliceSize BY <1>1, <1>2, <1>7
  <2>2. ASSUME NEW d \in 1 .. n', NEW k \in 0 .. SliceSize - 1
        PROVE  cache'[Back(wp', d)][k] = accepted' - filled' - Bytes(d) + k + 1
    <3>1. CASE d = 1
      <4>1. Back(wp', d) = wp BY <1>2, <1>7, <3>1, NextIs
      <4>2. Bytes(d) = SliceSize BY <3>1, HisConstants DEF Bytes
      <4>3. cache'[wp][k] = accepted - filled + k + 1 BY <1>2, <1>4, <1>7
      <4> QED BY <1>2, <2>1, <4>1, <4>2, <4>3
    <3>2. CASE d # 1
      <4>1. d - 1 \in 1 .. n /\ d - 1 \in 0 .. Slices - 1 /\ d - 1 \in Nat /\ (d - 1) + 1 = d
        BY <1>2, <1>7, <3>2
      <4>2. Back(wp', d) = Back(wp, d - 1) BY <1>2, <1>7, <4>1, NextIs
      <4>3. Bytes(d) = Bytes(d - 1) + SliceSize /\ Bytes(d - 1) \in Nat BY <4>1, BytesAre
      <4>4. cache'[Back(wp, d - 1)][k] = accepted - filled - Bytes(d - 1) + k + 1
        BY <1>3, <4>1 DEF Contents
      <4> QED BY <1>2, <2>1, <4>2, <4>3, <4>4
    <3> QED BY <3>1, <3>2
  <2>3. \A k \in 0 .. filled' - 1 : cache'[wp'][k] = accepted' - filled' + k + 1
    BY <1>7
  <2>4. Contents' BY <2>2, <2>3 DEF Contents, Back, Bytes
  <2> QED BY <1>2, <1>5, <1>7, <2>1, <2>4
<1> QED BY <1>1, <1>6, <1>7

\* Bytes in order, behind bytes in order and a gap.
LEMMA AppendSkipping ==
  ASSUME NEW l \in Nat, NEW b \in Nat, NEW k \in Nat
  PROVE  [i \in 1 .. l |-> i] \o [j \in 1 .. k |-> l + j + b] = Skipping(l, b, k)
<1> DEFINE first == [i \in 1 .. l |-> i]
           last == [j \in 1 .. k |-> l + j + b]
           joined == first \o last
<1>1. first \in Seq(Nat) /\ last \in Seq(Nat) /\ Len(first) = l /\ Len(last) = k
  OBVIOUS
<1>2. \A i \in 1 .. l : first[i] = i
  OBVIOUS
<1>3. \A j \in 1 .. k : last[j] = l + j + b
  OBVIOUS
<1> HIDE DEF first, last
<1>4. /\ joined \in Seq(Nat) /\ Len(joined) = l + k
      /\ \A i \in 1 .. l + k : joined[i] = IF i <= l THEN first[i] ELSE last[i - l]
  BY <1>1, ConcatProperties
<1> HIDE DEF joined
<1>5. joined = [i \in 1 .. l + k |-> joined[i]] BY <1>4
<1>6. ASSUME NEW i \in 1 .. l + k
      PROVE  joined[i] = IF i <= l THEN i ELSE i + b
  <2>1. CASE i <= l BY <2>1, <1>2, <1>4
  <2>2. CASE ~ (i <= l)
    <3>1. i - l \in 1 .. k /\ l + (i - l) + b = i + b BY <2>2
    <3>2. last[i - l] = i + b BY <3>1, <1>3
    <3> QED BY <2>2, <3>2, <1>4
  <2> QED BY <2>1, <2>2
<1>7. joined = Skipping(l, b, k) BY <1>5, <1>6 DEF Skipping
<1> QED BY <1>7 DEF joined, first, last

\* What the thread writes comes next.
LEMMA WriteAppends ==
  ASSUME Ordered, SaverWrite
  PROVE  /\ file' = [i \in 1 .. Len(file) + SliceSize |-> i]
         /\ Len(file) \in Nat /\ Len(file') = Len(file) + SliceSize
         /\ Len(file) + SliceSize <= accepted
<1> DEFINE l == Len(file)
<1>1. /\ saver = "write" /\ n \in 1 .. Slices /\ head = Back(wp, n)
      /\ filled \in 0 .. SliceSize - 1 /\ accepted \in Nat /\ SliceSize \in Nat /\ l \in Nat
      /\ file' = file \o [k \in 1 .. SliceSize |-> cache[head][k - 1]]
  BY HisConstants DEF Ordered, Sound, TypeOK, Shared, SaverWrite, Saver
<1>2. l = accepted - filled - Bytes(n) /\ file = [i \in 1 .. l |-> i]
  BY <1>1 DEF Ordered, FileHas, Saved
<1>3. Bytes(n) \in Nat /\ Bytes(n) >= SliceSize
  <2>1. n - 1 \in Nat /\ (n - 1) + 1 = n BY <1>1, HisConstants
  <2>2. Bytes(n) = Bytes(n - 1) + SliceSize /\ Bytes(n - 1) \in Nat BY <2>1, BytesAre
  <2> QED BY <1>1, <2>2
<1>4. \A k \in 0 .. SliceSize - 1 : cache[head][k] = l + k + 1
  <2>1. n \in 1 .. n BY <1>1, HisConstants
  <2>2. \A k \in 0 .. SliceSize - 1 : cache[head][k] = accepted - filled - Bytes(n) + k + 1
    BY <1>1, <2>1 DEF Ordered, Contents
  <2> QED BY <1>2, <2>2
<1>5. [k \in 1 .. SliceSize |-> cache[head][k - 1]] = [i \in 1 .. SliceSize |-> l + i]
  <2>1. ASSUME NEW k \in 1 .. SliceSize PROVE cache[head][k - 1] = l + k
    <3>1. k - 1 \in 0 .. SliceSize - 1 BY <1>1
    <3>2. cache[head][k - 1] = l + (k - 1) + 1 BY <1>4, <3>1
    <3> QED BY <1>1, <3>2
  <2> QED BY <2>1
<1>6. file' = file \o [i \in 1 .. SliceSize |-> l + i] BY <1>1, <1>5
<1> HIDE DEF l
<1>7. file' = [i \in 1 .. l + SliceSize |-> i]
  <2>1. file' = [i \in 1 .. l |-> i] \o [i \in 1 .. SliceSize |-> l + i] BY <1>2, <1>6
  <2> QED BY <1>1, <2>1, AppendRun
<1>8. Len(file') = l + SliceSize BY <1>1, <1>7, AppendRun
<1>9. l + SliceSize <= accepted BY <1>1, <1>2, <1>3
<1> QED BY <1>1, <1>7, <1>8, <1>9 DEF l

LEMMA FlushAppends ==
  ASSUME Ordered, SaverFlush
  PROVE  /\ file' = Skipping(Len(file), Bytes(n), filled)
         /\ Len(file) = accepted - filled - Bytes(n) /\ Len(file) \in Nat
<1> DEFINE l == Len(file)
<1>1. /\ saver = "flush" /\ n \in Nat /\ filled \in 0 .. SliceSize - 1 /\ filled \in Nat
      /\ accepted \in Nat /\ SliceSize \in Nat /\ l \in Nat
      /\ file' = file \o [k \in 1 .. filled |-> cache[wp][k - 1]]
  BY HisConstants DEF Ordered, Sound, TypeOK, SaverFlush, Saver
<1>2. Bytes(n) \in Nat BY <1>1, BytesAre
<1>3. l = accepted - filled - Bytes(n) /\ file = [i \in 1 .. l |-> i]
  BY <1>1 DEF Ordered, FileHas, Saved
<1>4. ASSUME NEW k \in 1 .. filled PROVE cache[wp][k - 1] = l + k + Bytes(n)
  <2>1. k - 1 \in 0 .. filled - 1 BY <1>1
  <2>2. cache[wp][k - 1] = accepted - filled + (k - 1) + 1
    BY <2>1 DEF Ordered, Contents
  <2> QED BY <1>1, <1>2, <1>3, <2>2
<1>5. file' = [i \in 1 .. l |-> i] \o [k \in 1 .. filled |-> l + k + Bytes(n)]
  BY <1>1, <1>3, <1>4
<1> HIDE DEF l
<1> DEFINE b == Bytes(n)
<1>6. b \in Nat /\ file' = [i \in 1 .. l |-> i] \o [k \in 1 .. filled |-> l + k + b]
  BY <1>2, <1>5
<1> HIDE DEF b
<1>7. file' = Skipping(l, b, filled) BY <1>1, <1>6, AppendSkipping
<1> QED BY <1>1, <1>3, <1>7 DEF l, b

\* Nothing left out: all of the bytes.
LEMMA SkippingNone ==
  ASSUME NEW l \in Nat, NEW k \in Nat
  PROVE  Skipping(l, 0, k) = [i \in 1 .. l + k |-> i] /\ Len(Skipping(l, 0, k)) = l + k
BY DEF Skipping

LEMMA FlushCompletes ==
  ASSUME Complete, SaverFlush
  PROVE  /\ file' = [i \in 1 .. accepted |-> i]
         /\ Len(file) \in Nat /\ Len(file) <= accepted /\ Len(file') = accepted
         /\ Len(file) = accepted => file' = file
<1>1. /\ n = 0 /\ filled \in Nat /\ accepted \in Nat
      /\ saver = "flush" /\ file = [i \in 1 .. Len(file) |-> i]
  BY HisConstants
  DEF Complete, Ordered, Sound, TypeOK, Stopping, CaughtUp, FileHas, SaverFlush, Saver
<1>2. /\ file' = Skipping(Len(file), 0, filled)
      /\ Len(file) = accepted - filled /\ Len(file) \in Nat
  <2>1. file' = Skipping(Len(file), Bytes(n), filled) /\ Len(file) = accepted - filled - Bytes(n)
        /\ Len(file) \in Nat
    BY FlushAppends DEF Complete
  <2>2. Bytes(n) = 0 BY <1>1, BytesAre
  <2> QED BY <1>1, <2>1, <2>2
<1>3. Len(file) + filled = accepted BY <1>1, <1>2
<1>4. file' = [i \in 1 .. accepted |-> i] /\ Len(file') = accepted
  BY <1>1, <1>2, <1>3, SkippingNone
<1> QED BY <1>1, <1>2, <1>3, <1>4

LEMMA CompleteClosed ==
  ASSUME Complete, saver \in {"close", "done"}
  PROVE  Len(file) = accepted
<1>1. n = 0 /\ filled \in Nat /\ accepted \in Nat
  BY HisConstants DEF Complete, Ordered, Sound, TypeOK, Stopping, CaughtUp
<1>2. /\ accepted - filled \in Nat /\ file = Skipping(accepted - filled, 0, filled)
  BY <1>1, BytesAre DEF Complete, Ordered, FileHas, Saved
<1>3. (accepted - filled) + filled = accepted BY <1>1
<1> QED BY <1>1, <1>2, <1>3, SkippingNone

LEMMA OrderedStep ==
  ASSUME Ordered, [Next]_hisVars
  PROVE  Ordered'
<1>1. Sound' BY SoundStep DEF Ordered
<1>2. Stopping'
  <2> USE DEF Stopping
  <2>1. CASE WriterNext
    BY <2>1 DEF Ordered, WriterNext, Begin, GiveUp, Copy, ring
  <2>2. CASE SaverNext
    <3>1. CASE SaverStart \/ SaverLocate \/ SaverWrite \/ SaverRelease
      BY <3>1 DEF Ordered, SaverStart, SaverLocate, SaverWrite, SaverRelease, Saver, ring
    <3>2. CASE SaverPoll
      BY <3>2 DEF Ordered, SaverPoll, Saver, ring
    <3>3. CASE SaverCheck
      BY <3>3 DEF Ordered, SaverCheck, Saver, ring
    <3>4. CASE SaverFlush \/ SaverClose
      BY <3>4 DEF Ordered, SaverFlush, SaverClose, Saver, ring
    <3> QED BY <2>2, <3>1, <3>2, <3>3, <3>4 DEF SaverNext
  <2>3. CASE StopRequest
    BY <2>3 DEF Ordered, StopRequest, ring
  <2>4. CASE StopFinish
    BY <2>4 DEF Ordered, StopFinish, ring
  <2>5. CASE Finished \/ UNCHANGED hisVars
    BY <2>5 DEF Ordered, Finished, hisVars
  <2> QED BY <2>1, <2>2, <2>3, <2>4, <2>5 DEF Next
<1>3. Contents' /\ FileHas'
  <2>1. CASE Copy
    <3>1. UNCHANGED <<file, saver>> /\ saver \notin {"close", "done"}
      BY <2>1 DEF Copy, Ordered, Stopping
    <3>2. Contents' /\ accepted' - filled' - Bytes(n') = accepted - filled - Bytes(n)
      BY <2>1, CopyKeeps DEF Ordered
    <3> QED BY <3>1, <3>2 DEF Ordered, FileHas, Saved, Bytes
  <2>2. CASE SaverRelease
    <3>1. /\ saver = "release" /\ saver' = "poll" /\ n' = n - 1
          /\ UNCHANGED <<cache, filled, wp, file, accepted>>
      BY <2>2 DEF SaverRelease, Saver
    <3>2. /\ n \in 1 .. Slices /\ n \in Nat
          /\ filled \in Nat /\ accepted \in Nat /\ SliceSize \in Nat
      BY <3>1, HisConstants DEF Ordered, Sound, TypeOK, Shared
    <3>3. Bytes(n) = Bytes(n - 1) + SliceSize /\ Bytes(n - 1) \in Nat
      <4>1. n - 1 \in Nat /\ (n - 1) + 1 = n BY <3>2, HisConstants
      <4> QED BY <4>1, BytesAre
    <3>4. Contents' BY <3>1, <3>2 DEF Ordered, Contents, Back, Bytes
    <3>5. Saved' = Saved
      <4>1. accepted - filled - Bytes(n) + SliceSize = accepted - filled - Bytes(n - 1)
        BY <3>2, <3>3
      <4> QED BY <3>1, <4>1 DEF Saved, Bytes
    <3> QED BY <3>1, <3>4, <3>5 DEF Ordered, FileHas
  <2>3. CASE SaverWrite
    <3>1. UNCHANGED <<cache, filled, wp, n, accepted>> /\ saver = "write" /\ saver' = "release"
      BY <2>3 DEF SaverWrite, Saver, ring
    <3>2. Contents' BY <3>1 DEF Ordered, Contents, Back, Bytes
    <3>3. Saved' = Saved + SliceSize BY <3>1 DEF Saved, Bytes
    <3>4. Len(file) = Saved BY <3>1 DEF Ordered, FileHas
    <3>5. /\ file' = [i \in 1 .. Len(file) + SliceSize |-> i]
          /\ Len(file') = Len(file) + SliceSize
      BY <2>3, WriteAppends
    <3>6. Len(file') = Saved' /\ file' = [i \in 1 .. Len(file') |-> i]
      BY <3>3, <3>4, <3>5
    <3> QED BY <3>1, <3>2, <3>6 DEF FileHas
  <2>4. CASE SaverFlush
    <3>1. UNCHANGED <<cache, filled, wp, n, accepted>> /\ saver' = "close"
      BY <2>4 DEF SaverFlush, Saver, ring
    <3>2. Contents' BY <3>1 DEF Ordered, Contents, Back, Bytes
    <3>3. Saved' = accepted - filled - Bytes(n) BY <3>1 DEF Saved, Bytes
    <3> QED BY <2>4, <3>1, <3>2, <3>3, FlushAppends DEF FileHas, Skipping, Bytes
  <2>5. CASE UNCHANGED <<ring, accepted, file>> /\ saver' \notin {"close", "done", "release"}
             /\ saver \notin {"close", "done", "release"}
    BY <2>5 DEF ring, Ordered, Contents, FileHas, Saved, Skipping, Back, Bytes
  <2>6. CASE UNCHANGED <<ring, accepted, file>> /\ saver' = saver
    BY <2>6 DEF ring, Ordered, Contents, FileHas, Saved, Skipping, Back, Bytes
  <2>7. CASE UNCHANGED <<ring, accepted, file>> /\ saver = "close" /\ saver' = "done"
    BY <2>7 DEF ring, Ordered, Contents, FileHas, Saved, Skipping, Back, Bytes
  <2> QED
    BY <2>1, <2>2, <2>3, <2>4, <2>5, <2>6, <2>7
    DEF Next, WriterNext, SaverNext, Begin, GiveUp, SaverStart, SaverPoll, SaverLocate,
        SaverCheck, SaverClose, Saver, StopRequest, StopFinish, Finished, hisVars, ring
<1> QED BY <1>1, <1>2, <1>3 DEF Ordered

-----------------------------------------------------------------------------
LEMMA CompleteStep ==
  ASSUME Calm, Complete, [Next]_hisVars
  PROVE  Complete'
<1>1. Ordered' BY OrderedStep DEF Complete
<1>2. CaughtUp'
  <2> USE DEF CaughtUp
  <2>1. CASE WriterNext
    BY <2>1 DEF Complete, Ordered, Stopping, WriterNext, Begin, GiveUp, Copy, ring
  <2>2. CASE SaverNext
    <3>1. CASE SaverStart \/ SaverLocate \/ SaverWrite \/ SaverRelease
      BY <3>1 DEF Complete, SaverStart, SaverLocate, SaverWrite, SaverRelease, Saver, ring
    <3>2. CASE SaverPoll
      BY <3>2 DEF Complete, SaverPoll, Saver, ring
    <3>3. CASE SaverCheck
      BY <3>3 DEF Complete, SaverCheck, Saver, ring
    <3>4. CASE SaverFlush \/ SaverClose
      BY <3>4 DEF Complete, SaverFlush, SaverClose, Saver, ring
    <3> QED BY <2>2, <3>1, <3>2, <3>3, <3>4 DEF SaverNext
  <2>3. CASE StopRequest
    BY <2>3 DEF Complete, Ordered, Stopping, StopRequest, SaverCaughtUp, ring
  <2>4. CASE StopFinish
    BY <2>4 DEF Complete, StopFinish, ring
  <2>5. CASE Finished \/ UNCHANGED hisVars
    BY <2>5 DEF Complete, Finished, hisVars
  <2> QED BY <2>1, <2>2, <2>3, <2>4, <2>5 DEF Next
<1> QED BY <1>1, <1>2 DEF Complete

\* Each step of ring, thread and stop is one of the log, or none.
LEMMA StepOfLog ==
  ASSUME Calm, Complete, [Next]_hisVars
  PROVE  [Log!Next]_(Log!logVars)
<1> USE DEF Log!logVars
<1>1. CASE Copy
  <2>1. \E fill \in 1 .. SliceSize - filled : accepted' = accepted + fill
    BY <1>1, CopyIs DEF Complete, Ordered
  <2>2. accepted \in Nat /\ SliceSize \in Nat /\ filled \in Nat
    BY HisConstants DEF Complete, Ordered, Sound, TypeOK
  <2>3. accepted' \in Nat /\ accepted' > accepted BY <2>1, <2>2
  <2>4. saver # "done" /\ UNCHANGED <<file, saver>> BY <1>1 DEF Copy, Complete, Ordered, Stopping
  <2> QED BY <2>3, <2>4 DEF Log!Next, Log!Accept
<1>2. CASE SaverWrite
  <2>1. saver = "write" /\ saver' = "release" /\ UNCHANGED accepted
    BY <1>2 DEF SaverWrite, Saver
  <2>2. /\ Len(file') \in Len(file) + 1 .. accepted
        /\ file' = [i \in 1 .. Len(file') |-> i]
    <3>1. accepted \in Nat /\ SliceSize \in Nat \ {0}
      BY HisConstants DEF Complete, Ordered, Sound, TypeOK
    <3>2. /\ file' = [i \in 1 .. Len(file) + SliceSize |-> i] /\ Len(file) \in Nat
          /\ Len(file') = Len(file) + SliceSize /\ Len(file) + SliceSize <= accepted
      BY <1>2, WriteAppends DEF Complete
    <3> QED BY <3>1, <3>2
  <2> QED BY <2>1, <2>2 DEF Log!Next, Log!Sync
<1>3. CASE SaverFlush
  <2>1. saver = "flush" /\ saver' = "close" /\ UNCHANGED accepted
    BY <1>3 DEF SaverFlush, Saver
  <2>2. /\ file' = [i \in 1 .. accepted |-> i] /\ Len(file') = accepted
        /\ Len(file) \in Nat /\ Len(file) <= accepted /\ (Len(file) = accepted => file' = file)
    BY <1>3, FlushCompletes
  <2>3. CASE Len(file) = accepted
    BY <2>1, <2>2, <2>3
  <2>4. CASE Len(file) # accepted
    <3>1. accepted \in Nat BY DEF Complete, Ordered, Sound, TypeOK
    <3>2. Len(file') \in Len(file) + 1 .. accepted BY <2>2, <2>4, <3>1
    <3> QED BY <2>1, <2>2, <3>2 DEF Log!Next, Log!Sync
  <2> QED BY <2>3, <2>4
<1>4. CASE SaverClose
  <2>1. saver = "close" /\ saver' = "done" /\ UNCHANGED <<accepted, file>>
    BY <1>4 DEF SaverClose, Saver
  <2>2. Len(file) = accepted BY <2>1, CompleteClosed
  <2> QED BY <2>1, <2>2 DEF Log!Next, Log!Close
<1>5. CASE UNCHANGED <<accepted, file>> /\ (saver = "done") = (saver' = "done")
  BY <1>5
<1> QED
  BY <1>1, <1>2, <1>3, <1>4, <1>5
  DEF Next, WriterNext, SaverNext, Begin, GiveUp, SaverStart, SaverPoll, SaverLocate,
      SaverRelease, SaverCheck, Saver, StopRequest, StopFinish, Finished, hisVars

-----------------------------------------------------------------------------
\* Ring, positions and local variables keep their ranges.
THEOREM TypeCorrect == Spec => []TypeOK
<1>1. Sound => TypeOK BY DEF Sound
<1> QED BY <1>1, InitSound, SoundStep, PTL DEF Spec

\* The slice that the thread writes outside the mutex is full and the oldest,
\* and no writer is in it.
THEOREM SliceNotSharedAlways == Spec => []SliceNotShared
<1> QED BY SoundShares, InitSound, SoundStep, PTL DEF Spec

\* Only a record larger than a slice is ever given up.
THEOREM NeverDropsAny == Spec => []NeverDrops
<1>1. Sound => NeverDrops BY DEF Sound
<1> QED BY <1>1, InitSound, SoundStep, PTL DEF Spec

\* The file is in order and holds nothing twice, and when the thread has ended
\* it lacks the slices that are still full, n of them, and nothing else.
OnlyFullSlicesLost ==
  /\ \A i \in 1 .. Len(file) : file[i] \in 1 .. accepted
  /\ \A i, j \in 1 .. Len(file) : i < j => file[i] < file[j]
  /\ saver = "done" => Len(file) = accepted - n * SliceSize

LEMMA OrderedLoses == Ordered => OnlyFullSlicesLost
<1> SUFFICES ASSUME Ordered PROVE OnlyFullSlicesLost OBVIOUS
<1>1. /\ n \in Nat /\ filled \in Nat /\ accepted \in Nat /\ SliceSize \in Nat /\ Bytes(n) \in Nat
      /\ Len(file) \in Nat /\ (saver = "release" => n # 0)
  <2>1. n \in Nat /\ filled \in Nat /\ accepted \in Nat /\ SliceSize \in Nat /\ Len(file) \in Nat
    BY HisConstants DEF Ordered, Sound, TypeOK
  <2>2. Bytes(n) \in Nat BY <2>1, BytesAre
  <2>3. saver = "release" => n # 0 BY <2>1 DEF Ordered, Sound, Shared
  <2> QED BY <2>1, <2>2, <2>3
<1>2. CASE saver \notin {"close", "done"}
  <2>1. Bytes(n) >= SliceSize \/ n = 0
    <3>1. n # 0 => n - 1 \in Nat /\ (n - 1) + 1 = n BY <1>1
    <3>2. n # 0 => Bytes(n) = Bytes(n - 1) + SliceSize /\ Bytes(n - 1) \in Nat
      BY <3>1, BytesAre
    <3> QED BY <1>1, <3>2
  <2>2. Saved <= accepted BY <1>1, <2>1 DEF Saved
  <2>3. Len(file) <= accepted /\ file = [i \in 1 .. Len(file) |-> i]
    BY <1>2, <2>2 DEF Ordered, FileHas
  <2> QED BY <1>1, <1>2, <2>3 DEF OnlyFullSlicesLost
<1>3. CASE saver \in {"close", "done"}
  <2> DEFINE l == accepted - filled - Bytes(n)
             b == Bytes(n)
  <2>1. l \in Nat /\ file = Skipping(l, b, filled) BY <1>3 DEF Ordered, FileHas, Saved
  <2>2. l + filled = accepted - b /\ b \in Nat BY <1>1
  <2>3. b = n * SliceSize BY DEF Bytes
  <2> HIDE DEF l, b
  <2>4. /\ Len(file) = l + filled
        /\ \A i \in 1 .. l + filled : file[i] = IF i <= l THEN i ELSE i + b
    BY <1>1, <2>1 DEF Skipping
  <2>5. \A i \in 1 .. l + filled : file[i] \in 1 .. accepted
    BY <1>1, <2>1, <2>2, <2>4
  <2>6. \A i, j \in 1 .. l + filled : i < j => file[i] < file[j]
    BY <1>1, <2>1, <2>2, <2>4
  <2> QED BY <2>2, <2>3, <2>4, <2>5, <2>6 DEF OnlyFullSlicesLost
<1> QED BY <1>2, <1>3

\* Whenever stop comes, also when it races the thread (media_lib_mem_his.c, the
\* reads of n and of stopping): no byte is out of order or twice in the file, the
\* unfinished slice gets into it, and what is missing is whole slices.
THEOREM OnlyFullSlicesLostEver == Spec => []OnlyFullSlicesLost
<1>1. Init => Ordered BY InitComplete DEF Complete
<1>2. Ordered /\ [Next]_hisVars => Ordered' BY OrderedStep
<1> QED BY <1>1, <1>2, OrderedLoses, PTL DEF Spec

\* Where stop comes when the thread has caught up the file is the log, in
\* order, each byte once, and closed when it holds all of them.
THEOREM FileIsTheLogAlways == Calm => (Spec => FileIsTheLog)
<1> SUFFICES ASSUME Calm PROVE Spec => FileIsTheLog OBVIOUS
<1>1. Init => Log!Init BY DEF Init, Log!Init
<1>2. Complete /\ [Next]_hisVars => Complete' BY CompleteStep
<1>3. Complete /\ [Next]_hisVars => [Log!Next]_(Log!logVars) BY StepOfLog
<1> QED BY <1>1, <1>2, <1>3, InitComplete, PTL DEF Spec, FileIsTheLog, Log!Spec

\* And then stop syncs the history: mem_his_race shows that it does not when it
\* comes at another time.
THEOREM SyncCompleteWhenCalm == Calm => (Spec => []SyncComplete)
<1> SUFFICES ASSUME Calm PROVE Spec => []SyncComplete OBVIOUS
<1>1. Complete /\ [Next]_hisVars => Complete' BY CompleteStep
<1>2. Complete => SyncComplete BY CompleteClosed DEF SyncComplete
<1> QED BY <1>1, <1>2, InitComplete, PTL DEF Spec
=============================================================================
