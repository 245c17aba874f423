----------------------------- MODULE SrtpProofs -----------------------------
(***************************************************************************)
(* Theorems about libsrtp: about the arithmetic of its packet indices, for *)
(* every median, number of rollovers and window; and about one SSRC        *)
(* between two sessions, for any number of keys and any behaviour of the   *)
(* network.  The invariant of the latter says what a bit vector means: the *)
(* bits of a stream are exactly the packets of its key that it has seen    *)
(* among those its window can tell, and no packet it has seen lies ahead   *)
(* of its index.  The last part is about one session, its streams, its     *)
(* template and their key material, whatever fails.                        *)
(***************************************************************************)
EXTENDS SrtpStream, SrtpSession, SequenceTheorems, FiniteSetTheorems, WellFoundedInduction, TLAPS


(***************************************************************************)
(* Division by a positive number                                           *)
(***************************************************************************)
LEMMA DivModBy ==
  ASSUME NEW k \in Nat \ {0}, NEW i \in Nat
  PROVE  /\ i = ((i \div k) * k) + (i % k)
         /\ i \div k \in Nat
         /\ i % k \in 0 .. k - 1
BY SMT

LEMMA DivModOf ==
  ASSUME NEW k \in Nat \ {0}, NEW r \in Nat, NEW s \in 0 .. k - 1
  PROVE  /\ (r * k) + s \in Nat
         /\ ((r * k) + s) \div k = r
         /\ ((r * k) + s) % k = s
BY SMT

LEMMA ModIn ==
  ASSUME NEW k \in Nat \ {0}, NEW i \in Int
  PROVE  i % k \in 0 .. k - 1 /\ (i \in 0 .. k - 1 => i % k = i)
BY SMT

LEMMA MultOrder ==
  ASSUME NEW k \in Nat, NEW q \in Int, NEW r \in Int, q < r
  PROVE  (q * k) + k <= r * k
BY SMT

LEMMA MultStep ==
  ASSUME NEW k \in Nat, NEW r \in Int
  PROVE  /\ r * k \in Int
         /\ (r - 1) * k = (r * k) - k
         /\ (r + 1) * k = (r * k) + k
BY SMT

LEMMA SeqMaxType == SeqMax \in Nat \ {0} /\ SeqMax = Median + Median
BY MedianAssumption DEF SeqMax

LEMMA DivMod ==
  ASSUME NEW i \in Nat
  PROVE  /\ i = (RocOf(i) * SeqMax) + SeqNumOf(i)
         /\ RocOf(i) \in Nat
         /\ SeqNumOf(i) \in Seqs
<1> HIDE DEF SeqMax
<1> QED BY SeqMaxType, DivModBy DEF RocOf, SeqNumOf, Seqs

LEMMA IndexOf ==
  ASSUME NEW r \in Nat, NEW s \in Seqs
  PROVE  /\ (r * SeqMax) + s \in Nat
         /\ RocOf((r * SeqMax) + s) = r
         /\ SeqNumOf((r * SeqMax) + s) = s
<1> HIDE DEF SeqMax
<1> QED BY SeqMaxType, DivModOf DEF RocOf, SeqNumOf, Seqs

LEMMA RocOrder ==
  ASSUME NEW q \in Int, NEW r \in Int, q < r
  PROVE  (q * SeqMax) + SeqMax <= r * SeqMax
<1> HIDE DEF SeqMax
<1> QED BY SeqMaxType, MultOrder

LEMMA RocMods ==
  /\ \A r \in Rocs : r % RocMod = r
  /\ \A r \in Int : r % RocMod \in Rocs
BY RocAssumption, ModIn DEF Rocs

LEMMA SmallMod ==
  ASSUME NEW d \in Seqs
  PROVE  d % SeqMax = d
<1> HIDE DEF SeqMax
<1>1. d \in Int /\ d \in 0 .. SeqMax - 1
  BY SeqMaxType DEF Seqs
<1>2. d \in 0 .. SeqMax - 1 => d % SeqMax = d
  BY <1>1, SeqMaxType, ModIn
<1> QED BY <1>1, <1>2

LEMMA TopType == Top \in Nat /\ Top = (RocMod * SeqMax) - 1
<1> HIDE DEF SeqMax
<1> QED BY SeqMaxType, RocAssumption, SMT DEF Top

LEMMA RocInRange ==
  ASSUME NEW i \in 0 .. Top
  PROVE  RocOf(i) \in Rocs
<1> HIDE DEF SeqMax
<1>1. /\ i \in Nat /\ RocOf(i) \in Nat /\ SeqNumOf(i) \in Nat
      /\ i = (RocOf(i) * SeqMax) + SeqNumOf(i)
      /\ i < RocMod * SeqMax
  BY DivMod, TopType, SeqMaxType, RocAssumption DEF Seqs
<1>2. CASE RocMod <= RocOf(i)
  <2>1. RocMod * SeqMax <= RocOf(i) * SeqMax
    BY <1>1, <1>2, SeqMaxType, RocAssumption, SMT
  <2> QED BY <1>1, <2>1, SeqMaxType, RocAssumption
<1> QED
  BY <1>1, <1>2, RocAssumption DEF Rocs

\* An index is its rollover counter and its sequence number.
LEMMA IndexIn ==
  ASSUME NEW r \in Rocs, NEW s \in Seqs
  PROVE  (r * SeqMax) + s \in 0 .. Top
<1> HIDE DEF SeqMax
<1>1. r \in Nat /\ s \in Nat /\ s < SeqMax /\ (r * SeqMax) + s \in Nat
  BY SeqMaxType, IndexOf DEF Seqs, Rocs
<1>2. (r * SeqMax) + SeqMax <= RocMod * SeqMax
  BY RocOrder, RocAssumption DEF Rocs
<1> QED
  BY <1>1, <1>2, TopType, SeqMaxType, RocAssumption

(***************************************************************************)
(* The guess                                                               *)
(***************************************************************************)
Unwrapped(local, s) == (GuessRoc(local, s) * SeqMax) + s

\* The difference that srtp_index_guess returns is that of the two indices,
\* as long as the rollover counter does not wrap, and within the median.
LEMMA GuessDelta ==
  ASSUME NEW local \in Nat, NEW s \in Seqs
  PROVE  LET d == srtp_index_guess(local, s).delta
         IN  /\ GuessRoc(local, s) \in Int
             /\ d \in Int /\ d <= Median /\ -Median <= d
             /\ Unwrapped(local, s) = local + d
<1> DEFINE g == GuessRoc(local, s)
           r == RocOf(local)
           q == SeqNumOf(local)
<1> HIDE DEF SeqMax
<1>1. /\ local = (r * SeqMax) + q /\ r \in Nat /\ q \in Nat /\ q < SeqMax
      /\ s \in Nat /\ s < SeqMax
  <2>1. local = (r * SeqMax) + q /\ r \in Nat /\ q \in Seqs
    BY DivMod
  <2>2. \A x \in Seqs : x \in Nat /\ x < SeqMax
    BY SeqMaxType DEF Seqs
  <2> QED BY <2>1, <2>2
<1>2. srtp_index_guess(local, s).delta = ((g - r) * SeqMax) + s - q
  BY DEF srtp_index_guess
<1>3. g \in {r - 1, r, r + 1}
  BY DEF GuessRoc
<1> HIDE DEF r, q
<1>4. /\ g = r - 1 => s - q > Median
      /\ g = r => s - q <= Median /\ q - s <= Median
      /\ g = r + 1 => q - s > Median
  BY <1>1, SeqMaxType, MedianAssumption DEF GuessRoc, r, q
<1> HIDE DEF g
<1>5. /\ g = r - 1 => (g - r) * SeqMax = -SeqMax /\ g * SeqMax = (r * SeqMax) - SeqMax
      /\ g = r => (g - r) * SeqMax = 0
      /\ g = r + 1 => (g - r) * SeqMax = SeqMax /\ g * SeqMax = (r * SeqMax) + SeqMax
  <2>1. r \in Int /\ r - r = 0 /\ (r - 1) - r = -1 /\ (r + 1) - r = 1
    BY <1>1
  <2>2. /\ r * SeqMax \in Int
        /\ (r - 1) * SeqMax = (r * SeqMax) - SeqMax
        /\ (r + 1) * SeqMax = (r * SeqMax) + SeqMax
    BY <2>1, SeqMaxType, MultStep
  <2>3. (-1) * SeqMax = -SeqMax /\ 0 * SeqMax = 0 /\ 1 * SeqMax = SeqMax
    BY SeqMaxType
  <2> QED BY <2>1, <2>2, <2>3
<1>6. Unwrapped(local, s) = (g * SeqMax) + s
  BY DEF Unwrapped, g
<1>7. r * SeqMax \in Int
  BY <1>1, SeqMaxType, SMT
<1> QED
  <2>1. CASE g = r - 1
    BY <1>1, <1>2, <1>4, <1>5, <1>6, <1>7, <2>1, SeqMaxType, MedianAssumption DEF g
  <2>2. CASE g = r
    BY <1>1, <1>2, <1>4, <1>5, <1>6, <1>7, <2>2, SeqMaxType, MedianAssumption DEF g
  <2>3. CASE g = r + 1
    BY <1>1, <1>2, <1>4, <1>5, <1>6, <1>7, <2>3, SeqMaxType, MedianAssumption DEF g
  <2> QED BY <1>3, <2>1, <2>2, <2>3 DEF g

\* Whatever the sequence number, the estimate and the difference that comes
\* with it agree, unless the index would run past its 48 bits; an index ahead
\* of the local one by more than the median is the only one told apart.
LEMMA EstimateFacts ==
  ASSUME NEW local \in 0 .. Top, NEW pending \in Rocs, NEW s \in Seqs, NEW e,
         e = srtp_get_est_pkt_index(local, pending, s),
         local + e.delta <= Top
  PROVE  /\ e.est \in 0 .. Top
         /\ e.delta \in Int /\ e.delta < SeqMax
         /\ e.status \in {"ok", "pkt_idx_adv", "pkt_idx_old"}
         /\ e.status = "ok" => e.est = local + e.delta
         /\ e.status = "pkt_idx_adv" => e.est > local + Median
<1> HIDE DEF SeqMax
<1>1. local \in Nat /\ s \in Nat /\ s < SeqMax /\ s <= Top /\ Top \in Nat
  <2>1. s \in Nat /\ s < SeqMax
    BY SeqMaxType DEF Seqs
  <2>2. 0 \in Rocs /\ 0 * SeqMax = 0
    BY RocAssumption, SeqMaxType DEF Rocs
  <2>3. (0 * SeqMax) + s \in 0 .. Top
    BY <2>2, IndexIn
  <2> QED BY <2>1, <2>2, <2>3, TopType
<1>2. CASE pending # 0
  <2> DEFINE est == (pending * SeqMax) + s
  <2>1. est \in 0 .. Top
    BY IndexIn
  <2>2. e = srtp_estimate_index(local, pending, s)
    BY <1>2 DEF srtp_get_est_pkt_index
  <2> HIDE DEF est
  <2>3. e = IF est - local > Median
            THEN [est |-> est, delta |-> 0, status |-> "pkt_idx_adv"]
            ELSE IF local - est > Median
                 THEN [est |-> est, delta |-> 0, status |-> "pkt_idx_old"]
                 ELSE [est |-> est, delta |-> est - local, status |-> "ok"]
    BY <2>2 DEF srtp_estimate_index, est
  <2> QED BY <1>1, <2>1, <2>3, SeqMaxType, MedianAssumption
<1>3. CASE pending = 0 /\ ~ (local > Median)
  <2>1. e = [est |-> s, delta |-> s - local, status |-> "ok"]
    BY <1>3 DEF srtp_get_est_pkt_index, srtp_rdbx_estimate_index
  <2> QED BY <1>1, <2>1, SeqMaxType
<1>4. CASE pending = 0 /\ local > Median
  <2> DEFINE g == GuessRoc(local, s)
  <2>1. e = srtp_index_guess(local, s)
    BY <1>4 DEF srtp_get_est_pkt_index, srtp_rdbx_estimate_index
  <2>2. /\ e.est = ((g % RocMod) * SeqMax) + s
        /\ e.status = "ok"
    BY <2>1 DEF srtp_index_guess
  <2>3. /\ g \in Int /\ e.delta \in Int /\ e.delta <= Median /\ -Median <= e.delta
        /\ (g * SeqMax) + s = local + e.delta
    BY <1>1, <2>1, GuessDelta DEF Unwrapped
  <2> HIDE DEF g
  <2>4. 0 <= (g * SeqMax) + s /\ (g * SeqMax) + s <= Top
    BY <1>1, <1>4, <2>3, MedianAssumption
  <2>5. g \in Rocs
    <3>1. g < 0 => (g * SeqMax) + SeqMax <= 0 * SeqMax
      BY <2>3, RocOrder
    <3>2. RocMod <= g => RocMod * SeqMax <= g * SeqMax
      <4>1. RocMod < g => (RocMod * SeqMax) + SeqMax <= g * SeqMax
        BY <2>3, RocAssumption, RocOrder
      <4>2. RocMod * SeqMax \in Int /\ g * SeqMax \in Int
        BY <2>3, RocAssumption, SeqMaxType, MultStep
      <4> QED BY <4>1, <4>2, <2>3, RocAssumption, SeqMaxType
    <3>3. g * SeqMax \in Int /\ 0 * SeqMax = 0 /\ RocMod * SeqMax \in Int
      BY <2>3, RocAssumption, SeqMaxType, MultStep
    <3> QED
      BY <1>1, <2>3, <2>4, <3>1, <3>2, <3>3, SeqMaxType, TopType, RocAssumption DEF Rocs
  <2>6. e.est = local + e.delta
    BY <2>2, <2>3, <2>5, RocMods
  <2> QED BY <1>1, <2>2, <2>3, <2>4, <2>6, SeqMaxType, MedianAssumption
<1> QED
  BY <1>2, <1>3, <1>4

\* The estimate is right: from a local index less than half of the sequence
\* numbers away, before and after a rollover, the sequence number alone gives
\* back the index of the packet (RFC 3711, 3.3.1; rdbx.c).
THEOREM EstimateRight ==
  ASSUME NEW local \in 0 .. Top, NEW index \in 0 .. Top,
         index < local + Median, local < index + Median
  PROVE  srtp_rdbx_estimate_index(local, SeqNumOf(index))
           = [est |-> index, delta |-> index - local, status |-> "ok"]
<1> DEFINE s == SeqNumOf(index)
           q == SeqNumOf(local)
           r == RocOf(local)
           t == RocOf(index)
<1> HIDE DEF SeqMax
<1>1. /\ index = (t * SeqMax) + s /\ local = (r * SeqMax) + q
      /\ t \in Rocs /\ r \in Rocs /\ s \in Seqs /\ q \in Seqs
  BY DivMod, RocInRange, TopType
<1>2. /\ t \in Nat /\ r \in Nat
      /\ s \in Nat /\ s < SeqMax /\ q \in Nat /\ q < SeqMax
  BY <1>1, SeqMaxType, RocAssumption DEF Seqs, Rocs
<1>3. t * SeqMax \in Int /\ r * SeqMax \in Int /\ index \in Nat /\ local \in Nat
  BY <1>2, SeqMaxType, MultStep, TopType
<1> HIDE DEF s, q, r, t
<1>4. CASE ~ (local > Median)
  <2>1. t = 0
    <3>1. 0 < t => (0 * SeqMax) + SeqMax <= t * SeqMax
      BY <1>2, RocOrder
    <3> QED BY <1>1, <1>2, <1>3, <1>4, <3>1, SeqMaxType, MedianAssumption
  <2>2. s = index
    BY <1>1, <1>2, <2>1, SeqMaxType
  <2> QED BY <1>4, <2>2 DEF srtp_rdbx_estimate_index, s
<1>5. CASE local > Median
  <2> DEFINE g == GuessRoc(local, s)
             e == srtp_index_guess(local, s)
  <2>1. /\ g \in Int /\ e.delta \in Int
        /\ e.delta <= Median /\ -Median <= e.delta
        /\ (g * SeqMax) + s = local + e.delta
    BY <1>1, <1>3, GuessDelta DEF Unwrapped
  <2>2. g * SeqMax \in Int
    BY <2>1, SeqMaxType, MultStep
  <2> HIDE DEF g, e
  <2>3. g = t
    <3>1. g < t => (g * SeqMax) + SeqMax <= t * SeqMax
      BY <1>2, <2>1, RocOrder
    <3>2. t < g => (t * SeqMax) + SeqMax <= g * SeqMax
      BY <1>2, <2>1, RocOrder
    <3> QED
      BY <1>1, <1>2, <1>3, <2>1, <2>2, <3>1, <3>2, SeqMaxType, MedianAssumption
  <2>4. e.delta = index - local
    BY <1>1, <1>3, <2>1, <2>3
  <2>5. e = [est |-> ((g % RocMod) * SeqMax) + s, delta |-> e.delta, status |-> "ok"]
    BY DEF e, srtp_index_guess, g
  <2>6. ((g % RocMod) * SeqMax) + s = index
    BY <1>1, <2>3, RocMods
  <2> QED BY <1>5, <2>4, <2>5, <2>6 DEF srtp_rdbx_estimate_index, s, e
<1> QED
  BY <1>4, <1>5, <1>3, MedianAssumption

(***************************************************************************)
(* The replay databases                                                    *)
(***************************************************************************)
\* The indices whose bits are set.
Used(index, mask) == {i \in Int : i - index + LastBit \in mask}
RtcpUsed(start, mask) == {i \in Int : i - start \in mask}

\* The set then is the set now, and the index, from the lowest index on.
Slides(now, then, index, lowest) ==
  \A i \in Int : i \in then <=> (i \in now \/ i = index) /\ i >= lowest

LEMMA ShiftOf ==
  ASSUME NEW n \in Nat, NEW mask \in SUBSET (0 .. n), NEW d \in Nat
  PROVE  /\ bitvector_left_shift(mask, d) \in SUBSET (0 .. n - d)
         /\ \A b \in Int : b \in bitvector_left_shift(mask, d) <=> b >= 0 /\ b + d \in mask
<1>1. \A c \in mask : c \in Int
  OBVIOUS
<1>2. ASSUME NEW b \in Int
      PROVE  b \in bitvector_left_shift(mask, d) <=> b >= 0 /\ b + d \in mask
  <2>1. ASSUME b \in bitvector_left_shift(mask, d)
        PROVE  b >= 0 /\ b + d \in mask
    <3>1. PICK c \in mask : c >= d /\ b = c - d
      BY <2>1 DEF bitvector_left_shift
    <3>2. c = b + d
      BY <1>1, <3>1
    <3> QED BY <1>1, <3>1, <3>2
  <2>2. ASSUME b >= 0, b + d \in mask
        PROVE  b \in bitvector_left_shift(mask, d)
    <3>1. b + d >= d /\ b = (b + d) - d
      BY <2>2
    <3> QED BY <2>2, <3>1 DEF bitvector_left_shift
  <2> QED BY <2>1, <2>2
<1>3. \A b \in bitvector_left_shift(mask, d) : b \in 0 .. n - d
  BY DEF bitvector_left_shift
<1> QED
  BY <1>2, <1>3

\* What adding the index delta to the window that index and mask hold makes db.
Keeps(index, mask, delta, db) ==
  /\ delta > 0 => db.index = index + delta
  /\ delta <= 0 => db.index = index
  /\ db.mask \in SUBSET (0 .. LastBit)
  /\ index + delta \notin Used(index, mask)
  /\ Slides(Used(index, mask), Used(db.index, db.mask), index + delta, db.index - LastBit)

Masks == SUBSET (0 .. LastBit)

LEMMA RdbxKept ==
  ASSUME NEW index \in Int, NEW mask \in Masks,
         NEW delta \in Int, delta < SeqMax, srtp_rdbx_check(mask, delta) = "ok",
         NEW db, db = srtp_rdbx_add_index(index, mask, delta)
  PROVE  Keeps(index, mask, delta, db)
<1>0. LastBit \in Nat /\ LastBit = Window - 1 /\ Window \in Nat
  BY WindowAssumption, MedianAssumption DEF LastBit
<1> mask \in SUBSET (0 .. LastBit)
  BY DEF Masks
<1> HIDE DEF SeqMax, LastBit
<1>1. CASE delta > 0
  <2> DEFINE shifted == bitvector_left_shift(mask, delta)
  <2>1. delta % SeqMax = delta
    <3>1. delta \in Seqs
      BY <1>1, SeqMaxType DEF Seqs
    <3> QED BY <3>1, SmallMod
  <2>2. db.index = index + delta /\ db.mask = shifted \cup {LastBit}
    BY <1>1, <2>1 DEF srtp_rdbx_add_index
  <2>3. /\ shifted \in SUBSET (0 .. LastBit - delta)
        /\ \A b \in Int : b \in shifted <=> b >= 0 /\ b + delta \in mask
    <3>1. delta \in Nat
      BY <1>1
    <3> QED BY ONLY <1>0, <3>1, mask \in SUBSET (0 .. LastBit), ShiftOf
  <2> HIDE DEF shifted
  <2>4. db.mask \in SUBSET (0 .. LastBit)
    BY <1>0, <1>1, <2>2, <2>3
  <2>5. index + delta \notin Used(index, mask)
    <3>1. (index + delta) - index + LastBit > LastBit
      BY <1>0, <1>1
    <3> QED BY <1>0, <3>1 DEF Used
  <2>6. ASSUME NEW i \in Int
        PROVE  i \in Used(db.index, db.mask)
                 <=> (i \in Used(index, mask) \/ i = index + delta) /\ i >= db.index - LastBit
    <3> DEFINE b == i - (index + delta) + LastBit
    <3>1. /\ b \in Int
          /\ b + delta = i - index + LastBit
          /\ b = LastBit <=> i = index + delta
          /\ b >= 0 <=> i >= (index + delta) - LastBit
      BY <1>0, <1>1
    <3>2. i \in Used(db.index, db.mask) <=> b \in shifted \/ b = LastBit
      BY <2>2 DEF Used
    <3>3. b \in shifted <=> b >= 0 /\ i \in Used(index, mask)
      BY <2>3, <3>1 DEF Used
    <3> HIDE DEF b
    <3> QED BY <1>0, <2>2, <3>1, <3>2, <3>3
  <2>7. Slides(Used(index, mask), Used(db.index, db.mask), index + delta, db.index - LastBit)
    BY <2>6 DEF Slides
  <2> QED BY <1>1, <2>2, <2>4, <2>5, <2>7 DEF Keeps
<1>2. CASE ~ (delta > 0)
  <2>1. db.index = index /\ db.mask = mask \cup {LastBit + delta}
    BY <1>2 DEF srtp_rdbx_add_index
  <2>2. LastBit + delta >= 0 /\ LastBit + delta \notin mask
    BY <1>2, <1>0 DEF srtp_rdbx_check
  <2>3. db.mask \in SUBSET (0 .. LastBit)
    <3>1. LastBit + delta \in 0 .. LastBit
      BY <1>0, <1>2, <2>2
    <3> QED BY <2>1, <3>1
  <2>4. (index + delta) - index + LastBit = LastBit + delta
    BY <1>0
  <2>5. index + delta \notin Used(index, mask)
    BY <2>2, <2>4 DEF Used
  <2>6. ASSUME NEW i \in Int
        PROVE  i \in Used(db.index, db.mask)
                 <=> (i \in Used(index, mask) \/ i = index + delta) /\ i >= db.index - LastBit
    <3> DEFINE b == i - index + LastBit
    <3>1. /\ b \in Int
          /\ b = LastBit + delta <=> i = index + delta
          /\ b >= 0 <=> i >= index - LastBit
      BY <1>0, <1>2
    <3>2. i \in Used(db.index, db.mask) <=> b \in mask \/ b = LastBit + delta
      BY <2>1 DEF Used
    <3>3. b \in mask <=> i \in Used(index, mask)
      BY DEF Used
    <3>4. b \in mask => b >= 0
      BY <1>0
    <3> HIDE DEF b
    <3> QED BY <1>0, <2>1, <2>2, <3>1, <3>2, <3>3, <3>4
  <2>7. Slides(Used(index, mask), Used(db.index, db.mask), index + delta, db.index - LastBit)
    BY <2>6 DEF Slides
  <2> QED BY <1>2, <2>1, <2>3, <2>5, <2>7 DEF Keeps
<1> QED
  BY <1>1, <1>2

\* Adding an index that the check lets through: it was not in the window, it
\* is now, and of the others only what lies below the window is forgotten.
THEOREM RdbxKeepsWindow ==
  ASSUME NEW index \in Int, NEW mask \in SUBSET (0 .. LastBit),
         NEW delta \in Int, delta < SeqMax, srtp_rdbx_check(mask, delta) = "ok",
         NEW db, db = srtp_rdbx_add_index(index, mask, delta)
  PROVE  /\ delta > 0 => db.index = index + delta
         /\ delta <= 0 => db.index = index
         /\ db.mask \in SUBSET (0 .. LastBit)
         /\ index + delta \notin Used(index, mask)
         /\ Slides(Used(index, mask), Used(db.index, db.mask),
                   index + delta, db.index - LastBit)
<1>1. mask \in Masks
  BY DEF Masks
<1>2. Keeps(index, mask, delta, db)
  BY <1>1, RdbxKept
<1> QED
  BY <1>2 DEF Keeps

\* The same of the RTCP database, whose window stands on its lowest index.
THEOREM RdbKeepsWindow ==
  ASSUME NEW start \in Nat, NEW mask \in SUBSET (0 .. RtcpWindow - 1),
         NEW p_index \in Nat, srtp_rdb_check(start, mask, p_index) = "ok",
         NEW db, db = srtp_rdb_add_index(start, mask, p_index)
  PROVE  /\ db.start \in Nat /\ db.start >= start
         /\ db.mask \in SUBSET (0 .. RtcpWindow - 1)
         /\ p_index >= db.start /\ p_index < db.start + RtcpWindow
         /\ p_index \notin RtcpUsed(start, mask)
         /\ Slides(RtcpUsed(start, mask), RtcpUsed(db.start, db.mask), p_index, db.start)
<1>0. RtcpWindow \in Nat /\ RtcpWindow > 0
  BY RtcpAssumption
<1>1. CASE p_index >= start + RtcpWindow
  <2> DEFINE shift == (p_index - start) - (RtcpWindow - 1)
             shifted == bitvector_left_shift(mask, shift)
  <2>1. shift \in Nat /\ shift > 0
    BY <1>0, <1>1
  <2>2. db.start = start + shift /\ db.mask = shifted \cup {RtcpWindow - 1}
    BY <1>0, <1>1 DEF srtp_rdb_add_index
  <2>3. /\ shifted \in SUBSET (0 .. (RtcpWindow - 1) - shift)
        /\ \A b \in Int : b \in shifted <=> b >= 0 /\ b + shift \in mask
    <3>1. RtcpWindow - 1 \in Nat
      BY <1>0
    <3> HIDE DEF shift
    <3> QED BY ONLY <2>1, <3>1, mask \in SUBSET (0 .. RtcpWindow - 1), ShiftOf
  <2> HIDE DEF shifted
  <2>4. db.mask \in SUBSET (0 .. RtcpWindow - 1)
    BY <1>0, <2>1, <2>2, <2>3
  <2>5. p_index \notin RtcpUsed(start, mask)
    BY <1>0, <1>1 DEF RtcpUsed
  <2>6. ASSUME NEW i \in Int
        PROVE  i \in RtcpUsed(db.start, db.mask)
                 <=> (i \in RtcpUsed(start, mask) \/ i = p_index) /\ i >= db.start
    <3> DEFINE b == i - (start + shift)
    <3>1. /\ b \in Int
          /\ b + shift = i - start
          /\ b = RtcpWindow - 1 <=> i = p_index
          /\ b >= 0 <=> i >= start + shift
      BY <1>0, <2>1
    <3>2. i \in RtcpUsed(db.start, db.mask) <=> b \in shifted \/ b = RtcpWindow - 1
      BY <2>2 DEF RtcpUsed
    <3>3. b \in shifted <=> b >= 0 /\ i \in RtcpUsed(start, mask)
      BY <2>3, <3>1 DEF RtcpUsed
    <3> HIDE DEF b
    <3> QED BY <1>0, <2>2, <3>1, <3>2, <3>3
  <2>7. /\ db.start \in Nat /\ db.start >= start
        /\ p_index >= db.start /\ p_index < db.start + RtcpWindow
    BY <1>0, <1>1, <2>1, <2>2
  <2> QED BY <2>4, <2>5, <2>6, <2>7 DEF Slides
<1>2. CASE ~ (p_index >= start + RtcpWindow)
  <2>1. p_index >= start /\ p_index - start \notin mask
    BY <1>0, <1>2 DEF srtp_rdb_check
  <2>2. db.start = start /\ db.mask = mask \cup {p_index - start}
    BY <1>0, <1>2, <2>1 DEF srtp_rdb_add_index
  <2>3. db.mask \in SUBSET (0 .. RtcpWindow - 1)
    BY <1>0, <1>2, <2>1, <2>2
  <2>4. p_index \notin RtcpUsed(start, mask)
    BY <2>1 DEF RtcpUsed
  <2>5. ASSUME NEW i \in Int
        PROVE  i \in RtcpUsed(db.start, db.mask)
                 <=> (i \in RtcpUsed(start, mask) \/ i = p_index) /\ i >= db.start
    <3> DEFINE b == i - start
    <3>1. /\ b = p_index - start <=> i = p_index
          /\ b >= 0 <=> i >= start
      OBVIOUS
    <3>2. i \in RtcpUsed(db.start, db.mask) <=> b \in mask \/ b = p_index - start
      BY <2>2 DEF RtcpUsed
    <3>3. b \in mask <=> i \in RtcpUsed(start, mask)
      BY DEF RtcpUsed
    <3>4. b \in mask => b >= 0
      BY <1>0
    <3> HIDE DEF b
    <3> QED BY <1>0, <2>1, <2>2, <3>1, <3>2, <3>3, <3>4
  <2>6. /\ db.start \in Nat /\ db.start >= start
        /\ p_index >= db.start /\ p_index < db.start + RtcpWindow
    BY <1>0, <1>2, <2>1, <2>2
  <2> QED BY <2>3, <2>4, <2>5, <2>6 DEF Slides
<1> QED
  BY <1>1, <1>2

-----------------------------------------------------------------------------
(* One SSRC between two sessions.                                          *)


RtpPacket(key, index) == [kind |-> "rtp", key |-> key, index |-> index]
RtcpPacket(key, index) == [kind |-> "rtcp", key |-> key, index |-> index]

\* f counts the packets that the stream s has protected, or has unprotected.
RtpInv(s, f) ==
  /\ \A p \in Rtp : f[p] > 0 /\ p.key = s.key =>
       /\ p.index <= s.index
       /\ p.index > s.index - Window => p.index \in Used(s.index, s.mask)
  /\ \A i \in Used(s.index, s.mask) :
       i \in 0 .. Top /\ f[RtpPacket(s.key, i)] > 0

KeyInv(s, f) ==
  \A p \in Packets : f[p] > 0 => s.up /\ p.key <= s.key

QuietInv(s) == ~s.up => s = FreshStream(s.key)

SenderRtcpInv(s, f) ==
  /\ \A p \in Rtcp : f[p] > 0 => p.index <= s.start
  /\ \A p, q \in Rtcp : f[p] > 0 /\ f[q] > 0 /\ p.index = q.index => p = q

ReceiverRtcpInv(s, f) ==
  /\ \A p \in Rtcp : f[p] > 0 =>
       /\ p.index < s.start + RtcpWindow
       /\ p.index >= s.start => p.index \in RtcpUsed(s.start, s.rtcpMask)
  /\ \A i \in RtcpUsed(s.start, s.rtcpMask) :
       \E key \in 1 .. Keys : i \in 0 .. RtcpLast /\ f[RtcpPacket(key, i)] > 0

OnceInv ==
  \A p \in Packets : sent[p] <= 1 /\ got[p] <= 1 /\ (got[p] > 0 => sent[p] > 0)

IInv ==
  /\ TypeOK
  /\ QuietInv(snd) /\ KeyInv(snd, sent) /\ RtpInv(snd, sent) /\ SenderRtcpInv(snd, sent)
  /\ QuietInv(rcv) /\ KeyInv(rcv, got) /\ RtpInv(rcv, got) /\ ReceiverRtcpInv(rcv, got)
  /\ OnceInv

(***************************************************************************)
(* Packets and what is counted of them                                     *)
(***************************************************************************)
LEMMA PacketFacts ==
  /\ \A p \in Rtp : /\ p \in Packets /\ p \notin Rtcp /\ p = RtpPacket(p.key, p.index)
                    /\ p.key \in 1 .. Keys /\ p.index \in 0 .. Top
  /\ \A p \in Rtcp : /\ p \in Packets /\ p \notin Rtp /\ p = RtcpPacket(p.key, p.index)
                     /\ p.key \in 1 .. Keys /\ p.index \in 0 .. RtcpLast
  /\ \A p \in Packets : p \in Rtp \/ p \in Rtcp
BY DEF Rtp, Rtcp, Packets, RtpPacket, RtcpPacket

LEMMA RtpPacketIn ==
  ASSUME NEW k \in 1 .. Keys, NEW i \in 0 .. Top
  PROVE  /\ RtpPacket(k, i) \in Rtp /\ RtpPacket(k, i) \in Packets
         /\ RtpPacket(k, i).key = k /\ RtpPacket(k, i).index = i
BY DEF Rtp, Packets, RtpPacket

LEMMA RtcpPacketIn ==
  ASSUME NEW k \in 1 .. Keys, NEW i \in 0 .. RtcpLast
  PROVE  /\ RtcpPacket(k, i) \in Rtcp /\ RtcpPacket(k, i) \in Packets
         /\ RtcpPacket(k, i).key = k /\ RtcpPacket(k, i).index = i
BY DEF Rtcp, Packets, RtcpPacket

LEMMA CountFacts ==
  ASSUME NEW f \in [Packets -> Nat], NEW q \in Packets
  PROVE  /\ Count(f, q) \in [Packets -> Nat]
         /\ Count(f, q)[q] = f[q] + 1
         /\ \A p \in Packets : p # q => Count(f, q)[p] = f[p]
BY DEF Count

LEMMA StreamFacts ==
  ASSUME NEW s \in StreamType
  PROVE  /\ s.up \in BOOLEAN /\ s.key \in 1 .. Keys /\ s.index \in 0 .. Top
         /\ s.mask \in SUBSET (0 .. LastBit) /\ s.pending \in Rocs
         /\ s.start \in 0 .. RtcpLast /\ s.rtcpMask \in SUBSET (0 .. RtcpWindow - 1)
BY DEF StreamType

(***************************************************************************)
(* Accepting an index                                                      *)
(***************************************************************************)
\* What EstimateFacts says of an estimate e for the stream s.
Estimated(s, e) ==
  /\ e.est \in 0 .. Top
  /\ e.delta \in Int /\ e.delta < SeqMax
  /\ e.status = "ok" => e.est = s.index + e.delta
  /\ e.status = "pkt_idx_adv" => e.est > s.index + Median

\* The stream moves to the index if it is ahead, the index is now seen, and
\* nothing else in the window changes, also when the window is cleared.
LEMMA AdvanceFacts ==
  ASSUME NEW s \in StreamType, NEW e, Estimated(s, e), Usable(s, e),
         NEW t, t = Advance(s, e)
  PROVE  /\ t \in StreamType /\ t.up /\ t.key = s.key
         /\ t.start = s.start /\ t.rtcpMask = s.rtcpMask
         /\ t.index = IF e.est > s.index THEN e.est ELSE s.index
         /\ e.est > s.index - Window /\ e.est \notin Used(s.index, s.mask)
         /\ Slides(Used(s.index, s.mask), Used(t.index, t.mask), e.est, t.index - LastBit)
<1> HIDE DEF SeqMax
<1>0. /\ LastBit \in Nat /\ LastBit = Window - 1 /\ Window \in Nat /\ Window <= Median
      /\ Median \in Nat /\ Top \in Nat /\ 0 \in Rocs
  BY WindowAssumption, MedianAssumption, RocAssumption, TopType DEF LastBit, Rocs
<1>1. /\ s.up \in BOOLEAN /\ s.key \in 1 .. Keys /\ s.index \in 0 .. Top
      /\ s.mask \in SUBSET (0 .. LastBit) /\ s.pending \in Rocs
      /\ s.start \in 0 .. RtcpLast /\ s.rtcpMask \in SUBSET (0 .. RtcpWindow - 1)
  BY StreamFacts
<1>2. s.index \in Nat /\ e.est \in Nat /\ e.est \in 0 .. Top
  BY <1>0, <1>1 DEF Estimated
<1> HIDE DEF LastBit
<1>3. CASE e.status = "pkt_idx_adv"
  <2> DEFINE to == srtp_rdbx_set_roc_seq(s.index, s.mask, RocOf(e.est), SeqNumOf(e.est))
             db == srtp_rdbx_add_index(to.index, to.mask, 0)
  <2>1. e.est > s.index + Median
    BY <1>3 DEF Estimated
  <2>2. ~ (RocOf(e.est) < RocOf(s.index))
    <3>1. /\ e.est = (RocOf(e.est) * SeqMax) + SeqNumOf(e.est)
          /\ s.index = (RocOf(s.index) * SeqMax) + SeqNumOf(s.index)
          /\ RocOf(e.est) \in Nat /\ RocOf(s.index) \in Nat
          /\ SeqNumOf(e.est) \in Seqs /\ SeqNumOf(s.index) \in Seqs
      BY <1>2, DivMod
    <3>2. RocOf(e.est) < RocOf(s.index)
            => (RocOf(e.est) * SeqMax) + SeqMax <= RocOf(s.index) * SeqMax
      BY <3>1, RocOrder
    <3>3. \A x \in Seqs : x \in Nat /\ x < SeqMax
      BY SeqMaxType DEF Seqs
    <3>4. RocOf(e.est) * SeqMax \in Int /\ RocOf(s.index) * SeqMax \in Int
      BY <3>1, SeqMaxType, MultStep
    <3> QED BY <1>0, <1>2, <2>1, <3>1, <3>2, <3>3, <3>4, SeqMaxType
  <2>3. to = [index |-> e.est, mask |-> {}]
    BY <1>2, <2>2, DivMod DEF srtp_rdbx_set_roc_seq
  <2>4. db = srtp_rdbx_add_index(e.est, {}, 0)
    BY <2>3
  <2>5. t = [s EXCEPT !.up = TRUE, !.pending = 0, !.index = db.index, !.mask = db.mask]
    BY <1>3 DEF Advance
  <2> HIDE DEF to, db
  <2>6. srtp_rdbx_check({}, 0) = "ok"
    BY <1>0 DEF srtp_rdbx_check
  <2>7. {} \in SUBSET (0 .. LastBit) /\ 0 < SeqMax /\ Used(e.est, {}) = {}
    BY SeqMaxType DEF Used
  <2>8. /\ db.index = e.est /\ db.mask \in SUBSET (0 .. LastBit)
        /\ Slides({}, Used(db.index, db.mask), e.est, db.index - LastBit)
    <3>1. {} \in Masks
      BY DEF Masks
    <3>2. Keeps(e.est, {}, 0, db)
      BY <1>2, <2>4, <2>6, <2>7, <3>1, RdbxKept
    <3>3. /\ 0 <= 0 => db.index = e.est
          /\ db.mask \in SUBSET (0 .. LastBit)
          /\ Slides(Used(e.est, {}), Used(db.index, db.mask), e.est + 0, db.index - LastBit)
      BY <3>2 DEF Keeps
    <3>4. e.est + 0 = e.est /\ 0 <= 0
      BY <1>2
    <3> QED BY <2>7, <3>3, <3>4, Zenon
  <2>9. \A i \in Used(s.index, s.mask) : i \in Int /\ i <= s.index
    BY <1>0, <1>1, <1>2 DEF Used
  <2>10. Slides(Used(s.index, s.mask), Used(t.index, t.mask), e.est, t.index - LastBit)
    <3>1. t.index = e.est /\ t.mask = db.mask /\ db.index = e.est
      BY <2>5, <2>8 DEF StreamType
    <3>2. \A i \in Used(s.index, s.mask) : ~ (i >= e.est - LastBit)
      BY <1>0, <1>2, <2>1, <2>9
    <3> QED BY <2>8, <3>1, <3>2 DEF Slides
  <2>11. /\ t \in StreamType /\ t.up /\ t.key = s.key
         /\ t.start = s.start /\ t.rtcpMask = s.rtcpMask /\ t.index = e.est
    BY <1>0, <1>1, <1>2, <2>5, <2>8 DEF StreamType
  <2>12. e.est > s.index - Window /\ e.est \notin Used(s.index, s.mask) /\ e.est > s.index
    BY <1>0, <1>2, <2>1, <2>9
  <2> QED BY <2>10, <2>11, <2>12
<1>4. CASE e.status = "ok"
  <2> DEFINE db == srtp_rdbx_add_index(s.index, s.mask, e.delta)
  <2>1. /\ e.est = s.index + e.delta /\ e.delta \in Int /\ e.delta < SeqMax
        /\ srtp_rdbx_check(s.mask, e.delta) = "ok"
    BY <1>4 DEF Estimated, Usable
  <2>2. t = [s EXCEPT !.up = TRUE, !.index = db.index, !.mask = db.mask]
    BY <1>4 DEF Advance
  <2>3. /\ e.delta > 0 => db.index = s.index + e.delta
        /\ e.delta <= 0 => db.index = s.index
        /\ db.mask \in SUBSET (0 .. LastBit)
        /\ s.index + e.delta \notin Used(s.index, s.mask)
        /\ Slides(Used(s.index, s.mask), Used(db.index, db.mask),
                  s.index + e.delta, db.index - LastBit)
    <3> DEFINE index == s.index
               mask == s.mask
               delta == e.delta
    <3>1. index \in Int /\ mask \in Masks
      BY <1>1, <1>2 DEF Masks
    <3>2. db = srtp_rdbx_add_index(index, mask, delta)
      OBVIOUS
    <3>3. delta \in Int
      BY <2>1
    <3>4. delta < SeqMax
      BY <2>1
    <3>5. srtp_rdbx_check(mask, delta) = "ok"
      BY <2>1
    <3> HIDE DEF db, index, mask, delta
    <3>6. Keeps(index, mask, delta, db)
      BY <3>1, <3>2, <3>3, <3>4, <3>5, RdbxKept
    <3> QED BY <3>6 DEF Keeps, index, mask, delta
  <2> HIDE DEF db
  <2>4. db.index = (IF e.est > s.index THEN e.est ELSE s.index) /\ db.index \in 0 .. Top
    BY <1>0, <1>1, <1>2, <2>1, <2>3
  <2>5. e.est > s.index - Window
    <3>1. e.delta > 0 \/ LastBit + e.delta >= 0
      BY <1>0, <2>1 DEF srtp_rdbx_check
    <3> QED BY <1>0, <1>2, <2>1, <3>1
  <2>6. /\ t \in StreamType /\ t.up /\ t.key = s.key
        /\ t.start = s.start /\ t.rtcpMask = s.rtcpMask
        /\ t.index = db.index /\ t.mask = db.mask
    BY <1>1, <2>2, <2>3, <2>4 DEF StreamType
  <2> QED BY <2>1, <2>3, <2>4, <2>5, <2>6
<1> QED
  BY <1>3, <1>4 DEF Usable

\* One more packet of the stream: it is a new one, and the invariant goes on.
LEMMA RtpStep ==
  ASSUME NEW s \in StreamType, NEW f \in [Packets -> Nat], RtpInv(s, f), KeyInv(s, f),
         NEW e, Estimated(s, e), Usable(s, e),
         NEW t, t = Advance(s, e),
         NEW q, q = RtpPacket(s.key, e.est),
         NEW g, g = Count(f, q)
  PROVE  /\ q \in Packets /\ f[q] = 0
         /\ g \in [Packets -> Nat]
         /\ RtpInv(t, g) /\ KeyInv(t, g) /\ QuietInv(t)
<1>0. /\ t \in StreamType /\ t.up /\ t.key = s.key
      /\ t.index = IF e.est > s.index THEN e.est ELSE s.index
      /\ e.est > s.index - Window /\ e.est \notin Used(s.index, s.mask)
      /\ Slides(Used(s.index, s.mask), Used(t.index, t.mask), e.est, t.index - LastBit)
  BY AdvanceFacts
<1>1. /\ s.key \in 1 .. Keys /\ s.index \in Nat /\ e.est \in 0 .. Top /\ e.est \in Nat
      /\ Window \in Nat /\ Window > 0 /\ LastBit = Window - 1
  BY StreamFacts, TopType, WindowAssumption, MedianAssumption DEF Estimated, LastBit
<1>2. q \in Rtp /\ q \in Packets /\ q.key = s.key /\ q.index = e.est
  BY <1>1, RtpPacketIn
<1>3. /\ g \in [Packets -> Nat] /\ g[q] = f[q] + 1 /\ f[q] \in Nat
      /\ \A p \in Packets : p # q => g[p] = f[p]
  BY <1>2, CountFacts
<1>4. f[q] = 0
  <2>1. f[q] > 0 => e.est \in Used(s.index, s.mask)
    BY <1>0, <1>2 DEF RtpInv
  <2> QED BY <1>0, <1>3, <2>1
<1>5. \A p \in Packets : g[p] > 0 <=> f[p] > 0 \/ p = q
  BY <1>3, <1>4
<1>6. ASSUME NEW p \in Rtp, g[p] > 0, p.key = t.key
      PROVE  /\ p.index <= t.index
             /\ p.index > t.index - Window => p.index \in Used(t.index, t.mask)
  <2>1. p \in Packets /\ p.index \in Nat
    BY PacketFacts, TopType
  <2>2. CASE p = q
    <3>1. e.est <= t.index /\ t.index \in Nat /\ e.est >= t.index - LastBit
      BY <1>0, <1>1
    <3>2. e.est \in Used(t.index, t.mask)
      BY <1>0, <1>1, <3>1 DEF Slides
    <3>3. p.index = e.est
      BY <1>2, <2>2
    <3>4. p.index <= t.index
      BY <3>1, <3>3
    <3>5. p.index \in Used(t.index, t.mask)
      BY <3>2, <3>3
    <3> QED BY <3>4, <3>5
  <2>3. CASE f[p] > 0
    <3>1. /\ p.index <= s.index
          /\ p.index > s.index - Window => p.index \in Used(s.index, s.mask)
      BY <1>0, <1>6, <2>3 DEF RtpInv
    <3>2. s.index <= t.index /\ t.index \in Nat
      BY <1>0, <1>1
    <3>3. p.index > t.index - Window => p.index > s.index - Window /\ p.index >= t.index - LastBit
      BY <1>1, <2>1, <3>2
    <3>4. p.index > t.index - Window => p.index \in Used(t.index, t.mask)
      BY <1>0, <2>1, <3>1, <3>3 DEF Slides
    <3>5. p.index <= t.index
      BY <1>1, <2>1, <3>1, <3>2
    <3> QED BY <3>4, <3>5
  <2> QED BY <1>5, <1>6, <2>1, <2>2, <2>3
<1>7. ASSUME NEW i \in Used(t.index, t.mask)
      PROVE  i \in 0 .. Top /\ g[RtpPacket(t.key, i)] > 0
  <2>1. CASE i = e.est
    BY <1>0, <1>1, <1>2, <1>5, <2>1
  <2>2. CASE i \in Used(s.index, s.mask)
    <3>1. i \in 0 .. Top /\ f[RtpPacket(s.key, i)] > 0
      BY <2>2 DEF RtpInv
    <3>2. RtpPacket(s.key, i) \in Packets
      BY <1>1, <3>1, RtpPacketIn
    <3> QED BY <1>0, <1>5, <3>1, <3>2
  <2>3. i \in Int
    BY DEF Used
  <2> QED BY <1>0, <2>1, <2>2, <2>3 DEF Slides
<1>8. RtpInv(t, g)
  BY <1>6, <1>7 DEF RtpInv
<1>9. KeyInv(t, g)
  BY <1>0, <1>1, <1>2, <1>5 DEF KeyInv
<1> QED
  BY <1>0, <1>2, <1>3, <1>4, <1>8, <1>9 DEF QuietInv

LEMMA RtcpStep ==
  ASSUME NEW s \in StreamType, NEW f \in [Packets -> Nat], ReceiverRtcpInv(s, f),
         NEW q \in Rtcp,
         srtp_rdb_check(s.start, s.rtcpMask, q.index) = "ok",
         NEW t, t = AdvanceRtcp(s, q.index),
         NEW g, g = Count(f, q)
  PROVE  /\ f[q] = 0
         /\ t \in StreamType /\ t.start >= s.start /\ t.up
         /\ t.key = s.key /\ t.index = s.index /\ t.mask = s.mask
         /\ ReceiverRtcpInv(t, g)
<1> DEFINE db == srtp_rdb_add_index(s.start, s.rtcpMask, q.index)
<1>1. /\ q \in Packets /\ q = RtcpPacket(q.key, q.index) /\ q.key \in 1 .. Keys
      /\ q.index \in 0 .. RtcpLast /\ q.index \in Nat
      /\ s.start \in 0 .. RtcpLast /\ s.start \in Nat
      /\ s.rtcpMask \in SUBSET (0 .. RtcpWindow - 1)
      /\ RtcpWindow \in Nat /\ RtcpLast \in Nat
  BY PacketFacts, StreamFacts, RtcpAssumption
<1>2. /\ db.start \in Nat /\ db.start >= s.start
      /\ db.mask \in SUBSET (0 .. RtcpWindow - 1)
      /\ q.index >= db.start /\ q.index < db.start + RtcpWindow
      /\ q.index \notin RtcpUsed(s.start, s.rtcpMask)
      /\ Slides(RtcpUsed(s.start, s.rtcpMask), RtcpUsed(db.start, db.mask),
                q.index, db.start)
  <2>1. /\ srtp_rdb_check(s.start, s.rtcpMask, q.index) = "ok"
        /\ db = srtp_rdb_add_index(s.start, s.rtcpMask, q.index)
    OBVIOUS
  <2> HIDE DEF db
  <2> QED BY ONLY <1>1, <2>1, RdbKeepsWindow, Zenon
<1>3. /\ g[q] = f[q] + 1 /\ f[q] \in Nat
      /\ \A p \in Packets : p # q => g[p] = f[p]
  BY <1>1, CountFacts
<1>4. db.start \in 0 .. RtcpLast /\ db.start \in Nat /\ db.start >= s.start
  BY <1>1, <1>2
<1>5. f[q] = 0
  <2>1. f[q] > 0 => q.index \in RtcpUsed(s.start, s.rtcpMask)
    BY <1>1, <1>2, <1>4 DEF ReceiverRtcpInv
  <2> QED BY <1>2, <1>3, <2>1
<1>6. \A p \in Packets : g[p] > 0 <=> f[p] > 0 \/ p = q
  BY <1>3, <1>5
<1>7. /\ t \in StreamType /\ t.start = db.start /\ t.rtcpMask = db.mask /\ t.up
      /\ t.key = s.key /\ t.index = s.index /\ t.mask = s.mask
  BY <1>2, <1>4 DEF StreamType, AdvanceRtcp
<1> HIDE DEF db
<1>8. ASSUME NEW p \in Rtcp, g[p] > 0
      PROVE  /\ p.index < db.start + RtcpWindow
             /\ p.index >= db.start => p.index \in RtcpUsed(db.start, db.mask)
  <2>1. p \in Packets /\ p.index \in Nat
    BY PacketFacts, RtcpAssumption
  <2>2. CASE p = q
    BY <1>1, <1>2, <2>2 DEF Slides
  <2>3. CASE f[p] > 0
    <3>1. /\ p.index < s.start + RtcpWindow
          /\ p.index >= s.start => p.index \in RtcpUsed(s.start, s.rtcpMask)
      BY <2>3 DEF ReceiverRtcpInv
    <3>2. p.index < db.start + RtcpWindow
      BY <1>1, <1>4, <2>1, <3>1
    <3>3. p.index >= db.start => p.index >= s.start
      BY <1>1, <1>4, <2>1
    <3>4. p.index >= db.start => p.index \in RtcpUsed(db.start, db.mask)
      BY <1>2, <2>1, <3>1, <3>3 DEF Slides
    <3> QED BY <3>2, <3>4
  <2> QED BY <1>6, <1>8, <2>1, <2>2, <2>3
<1>9. ASSUME NEW i \in RtcpUsed(db.start, db.mask)
      PROVE  \E key \in 1 .. Keys : i \in 0 .. RtcpLast /\ g[RtcpPacket(key, i)] > 0
  <2>1. CASE i = q.index
    BY <1>1, <1>6, <2>1
  <2>2. CASE i \in RtcpUsed(s.start, s.rtcpMask)
    <3>1. PICK key \in 1 .. Keys : i \in 0 .. RtcpLast /\ f[RtcpPacket(key, i)] > 0
      BY <2>2 DEF ReceiverRtcpInv
    <3>2. RtcpPacket(key, i) \in Packets
      BY <3>1, RtcpPacketIn
    <3> QED BY <1>6, <3>1, <3>2
  <2>3. i \in Int
    BY DEF RtcpUsed
  <2> QED BY <1>2, <2>1, <2>2, <2>3 DEF Slides
<1>10. ReceiverRtcpInv(t, g)
  BY <1>7, <1>8, <1>9 DEF ReceiverRtcpInv
<1> QED
  BY <1>4, <1>5, <1>7, <1>10

(***************************************************************************)
(* The invariant                                                           *)
(***************************************************************************)
LEMMA InitInv == Init => IInv
<1> SUFFICES ASSUME Init PROVE IInv
  OBVIOUS
<1> HIDE DEF SeqMax
<1>1. /\ snd = FreshStream(1) /\ rcv = FreshStream(1)
      /\ sent = [p \in Packets |-> 0] /\ got = [p \in Packets |-> 0]
  BY DEF Init
<1>2. FreshStream(1) \in StreamType /\ FreshStream(1).key = 1
  <2>1. /\ 1 \in 1 .. Keys /\ 0 \in 0 .. Top /\ 0 \in Rocs /\ 0 \in 0 .. RtcpLast
    BY KeysAssumption, TopType, RocAssumption, RtcpAssumption DEF Rocs
  <2> QED BY <2>1 DEF FreshStream, StreamType
<1>3. /\ Used(0, {}) = {} /\ RtcpUsed(0, {}) = {}
      /\ FreshStream(1).index = 0 /\ FreshStream(1).mask = {}
      /\ FreshStream(1).start = 0 /\ FreshStream(1).rtcpMask = {}
  BY DEF Used, RtcpUsed, FreshStream
<1>4. \A p \in Packets : sent[p] = 0 /\ got[p] = 0
  BY <1>1
<1>5. \A p \in Packets : ~ (sent[p] > 0) /\ ~ (got[p] > 0)
  BY <1>4
<1>6. TypeOK
  BY <1>1, <1>2 DEF TypeOK
<1>7. OnceInv
  BY <1>4 DEF OnceInv
<1> QED
  BY <1>1, <1>2, <1>3, <1>5, <1>6, <1>7, PacketFacts
     DEF IInv, QuietInv, KeyInv, RtpInv, SenderRtcpInv, ReceiverRtcpInv

\* The facts about a stream that does not take part in a step.
SenderInv == QuietInv(snd) /\ KeyInv(snd, sent) /\ RtpInv(snd, sent) /\ SenderRtcpInv(snd, sent)
ReceiverInv == QuietInv(rcv) /\ KeyInv(rcv, got) /\ RtpInv(rcv, got) /\ ReceiverRtcpInv(rcv, got)

LEMMA SenderStays == SenderInv /\ UNCHANGED <<snd, sent>> => SenderInv'
BY DEF SenderInv, QuietInv, KeyInv, RtpInv, SenderRtcpInv

LEMMA ReceiverStays == ReceiverInv /\ UNCHANGED <<rcv, got>> => ReceiverInv'
BY DEF ReceiverInv, QuietInv, KeyInv, RtpInv, ReceiverRtcpInv

LEMMA SplitInv == IInv <=> TypeOK /\ SenderInv /\ ReceiverInv /\ OnceInv
BY DEF IInv, SenderInv, ReceiverInv

\* Counting a packet of one kind does not touch what is said of the other.
LEMMA OtherKind ==
  ASSUME NEW f \in [Packets -> Nat], NEW q \in Packets, NEW g, g = Count(f, q)
  PROVE  /\ q \in Rtp => \A p \in Rtcp : g[p] = f[p]
         /\ q \in Rtcp => \A p \in Rtp : g[p] = f[p]
<1>1. \A p \in Packets : p # q => g[p] = f[p]
  BY CountFacts
<1> QED
  BY <1>1, PacketFacts

\* What the steps do to the indices and to the counts.
Forward ==
  /\ snd'.index >= snd.index /\ snd'.start >= snd.start
  /\ rcv'.index >= rcv.index /\ rcv'.start >= rcv.start

Sends ==
  \E q \in Packets : sent[q] = 0 /\ sent' = Count(sent, q) /\ UNCHANGED got

Delivers ==
  \E q \in Packets : sent[q] = 1 /\ got[q] = 0 /\ got' = Count(got, q) /\ UNCHANGED sent

LEMMA OneMoves ==
  ASSUME TypeOK,
         \/ snd'.index >= snd.index /\ snd'.start >= snd.start /\ rcv' = rcv
         \/ rcv'.index >= rcv.index /\ rcv'.start >= rcv.start /\ snd' = snd
  PROVE  Forward
<1>1. \A s \in StreamType : s.index \in Int /\ s.start \in Int
  BY StreamFacts
<1>2. snd.index \in Int /\ snd.start \in Int /\ rcv.index \in Int /\ rcv.start \in Int
  BY <1>1 DEF TypeOK
<1>3. /\ snd.index >= snd.index /\ snd.start >= snd.start
      /\ rcv.index >= rcv.index /\ rcv.start >= rcv.start
  BY <1>2
<1> QED
  BY <1>3 DEF Forward

\* The facts depend on nothing else of a stream, and of their own packets only.
LEMMA RtpSame ==
  ASSUME NEW s \in StreamType, NEW t \in StreamType, NEW f, NEW g, RtpInv(s, f),
         t.key = s.key, t.index = s.index, t.mask = s.mask,
         \A p \in Rtp : g[p] = f[p]
  PROVE  RtpInv(t, g)
<1>1. ASSUME NEW i \in Used(t.index, t.mask)
      PROVE  i \in 0 .. Top /\ g[RtpPacket(t.key, i)] > 0
  <2>1. i \in 0 .. Top /\ f[RtpPacket(t.key, i)] > 0
    BY <1>1 DEF RtpInv
  <2>2. RtpPacket(t.key, i) \in Rtp
    BY <2>1, StreamFacts, RtpPacketIn
  <2> QED BY <2>1, <2>2
<1> QED
  BY <1>1 DEF RtpInv

LEMMA RtcpSame ==
  ASSUME NEW s \in StreamType, NEW t \in StreamType, NEW f, NEW g, ReceiverRtcpInv(s, f),
         t.start = s.start, t.rtcpMask = s.rtcpMask,
         \A p \in Rtcp : g[p] = f[p]
  PROVE  ReceiverRtcpInv(t, g)
<1>1. ASSUME NEW i \in RtcpUsed(t.start, t.rtcpMask)
      PROVE  \E key \in 1 .. Keys : i \in 0 .. RtcpLast /\ g[RtcpPacket(key, i)] > 0
  <2>1. PICK key \in 1 .. Keys : i \in 0 .. RtcpLast /\ f[RtcpPacket(key, i)] > 0
    BY <1>1 DEF ReceiverRtcpInv
  <2>2. RtcpPacket(key, i) \in Rtcp
    BY <2>1, RtcpPacketIn
  <2> QED BY <2>1, <2>2
<1> QED
  BY <1>1 DEF ReceiverRtcpInv

LEMMA SenderRtcpSame ==
  ASSUME NEW s, NEW t, NEW f, NEW g, SenderRtcpInv(s, f), t.start = s.start,
         \A p \in Rtcp : g[p] = f[p]
  PROVE  SenderRtcpInv(t, g)
BY DEF SenderRtcpInv

LEMMA KeyStep ==
  ASSUME NEW s \in StreamType, NEW t \in StreamType, NEW f \in [Packets -> Nat], KeyInv(s, f),
         t.up, t.key = s.key, NEW q \in Packets, q.key = s.key, NEW g, g = Count(f, q)
  PROVE  KeyInv(t, g) /\ QuietInv(t)
<1>1. \A p \in Packets : p # q => g[p] = f[p]
  BY CountFacts
<1>2. t.key \in Int
  BY StreamFacts
<1> QED
  BY <1>1, <1>2 DEF KeyInv, QuietInv

LEMMA UpdateStep ==
  ASSUME NEW s \in StreamType, NEW f \in [Packets -> Nat],
         QuietInv(s), KeyInv(s, f), RtpInv(s, f), s.key < Keys,
         NEW t, t = Rekeyed(s)
  PROVE  /\ t \in StreamType /\ QuietInv(t) /\ KeyInv(t, f) /\ RtpInv(t, f)
         /\ t.index = s.index /\ t.start = s.start /\ t.rtcpMask = s.rtcpMask
<1> HIDE DEF SeqMax
<1>1. /\ s.key \in 1 .. Keys /\ s.key + 1 \in 1 .. Keys /\ s.up \in BOOLEAN
      /\ s.index \in 0 .. Top /\ s.start \in 0 .. RtcpLast
      /\ s.rtcpMask \in SUBSET (0 .. RtcpWindow - 1)
  BY StreamFacts, KeysAssumption
<1>2. 0 \in 0 .. Top /\ 0 \in Rocs /\ 0 \in 0 .. RtcpLast
  BY TopType, RocAssumption, RtcpAssumption DEF Rocs
<1>3. CASE s.up
  <2>1. t = [FreshStream(s.key + 1) EXCEPT
               !.up = TRUE, !.index = s.index, !.start = s.start, !.rtcpMask = s.rtcpMask]
    BY <1>3 DEF Rekeyed
  <2>2. /\ t.up /\ t.key = s.key + 1 /\ t.mask = {} /\ t.pending = 0
        /\ t.index = s.index /\ t.start = s.start /\ t.rtcpMask = s.rtcpMask
    BY <2>1 DEF FreshStream
  <2>3. t \in StreamType
    BY <1>1, <1>2, <2>1 DEF FreshStream, StreamType
  <2>4. KeyInv(t, f)
    <3>1. \A k \in 1 .. Keys : k <= s.key => k <= s.key + 1
      BY <1>1
    <3> QED BY <2>2, <3>1, PacketFacts DEF KeyInv
  <2>5. RtpInv(t, f)
    <3>1. Used(t.index, t.mask) = {}
      BY <2>2 DEF Used
    <3>2. ~ (s.key + 1 <= s.key)
      BY <1>1
    <3>3. \A p \in Rtp : ~ (f[p] > 0 /\ p.key = t.key)
      BY <2>2, <3>2, PacketFacts DEF KeyInv
    <3> QED BY <3>1, <3>3 DEF RtpInv
  <2> QED BY <2>2, <2>3, <2>4, <2>5 DEF QuietInv
<1>4. CASE ~ s.up
  <2>1. t = FreshStream(s.key + 1) /\ s = FreshStream(s.key)
    BY <1>4 DEF Rekeyed, QuietInv
  <2>2. /\ ~ t.up /\ t.key = s.key + 1 /\ t.mask = {} /\ t.index = 0
        /\ t.start = 0 /\ t.rtcpMask = {}
    BY <2>1 DEF FreshStream
  <2>3. s.index = 0 /\ s.start = 0 /\ s.rtcpMask = {}
    BY <2>1 DEF FreshStream
  <2>4. t \in StreamType
    BY <1>1, <1>2, <2>1 DEF FreshStream, StreamType
  <2>5. \A p \in Packets : ~ (f[p] > 0)
    BY <1>4 DEF KeyInv
  <2>6. Used(t.index, t.mask) = {}
    BY <2>2 DEF Used
  <2>7. KeyInv(t, f) /\ RtpInv(t, f)
    BY <2>5, <2>6, PacketFacts DEF KeyInv, RtpInv
  <2>8. QuietInv(t)
    BY <2>1, <2>2 DEF QuietInv
  <2> QED BY <2>2, <2>3, <2>4, <2>7, <2>8
<1> QED
  BY <1>1, <1>3, <1>4

LEMMA ProtectInv ==
  ASSUME IInv, NEW seq \in Seqs, srtp_protect(seq)
  PROVE  IInv' /\ Forward /\ (Sends \/ UNCHANGED <<sent, got>>)
<1> DEFINE e == SendEst(seq)
           q == RtpPacket(snd.key, e.est)
<1> HIDE DEF SeqMax, e, q
<1>1. /\ snd \in StreamType /\ sent \in [Packets -> Nat] /\ TypeOK
      /\ SenderInv /\ ReceiverInv /\ OnceInv
  BY SplitInv DEF TypeOK
<1>2. /\ IF Usable(snd, e)
         THEN snd' = Advance(snd, e) /\ sent' = Count(sent, q)
         ELSE snd' = [snd EXCEPT !.up = TRUE] /\ UNCHANGED sent
      /\ snd.index + e.delta <= Top
      /\ UNCHANGED <<rcv, got>>
  BY DEF srtp_protect, BeforeWrap, e, q, RtpPacket
<1>3. snd.index \in 0 .. Top /\ snd.pending \in Rocs /\ snd.start \in Nat /\ snd.index \in Nat
  BY <1>1, StreamFacts, TopType, RtcpAssumption
<1>4. Estimated(snd, e)
  <2>1. e = srtp_get_est_pkt_index(snd.index, snd.pending, seq)
    BY DEF e, SendEst
  <2> QED BY <1>2, <1>3, <2>1, EstimateFacts DEF Estimated
<1>5. ReceiverInv'
  BY <1>1, <1>2, ReceiverStays
<1>6. CASE Usable(snd, e)
  <2>1. /\ q \in Packets /\ sent[q] = 0
        /\ sent' \in [Packets -> Nat]
        /\ RtpInv(snd', sent') /\ KeyInv(snd', sent') /\ QuietInv(snd')
    BY <1>1, <1>2, <1>4, <1>6, RtpStep DEF SenderInv, q
  <2>2. /\ snd' \in StreamType /\ snd'.start = snd.start
        /\ snd'.index = IF e.est > snd.index THEN e.est ELSE snd.index
    BY <1>1, <1>2, <1>4, <1>6, AdvanceFacts
  <2>3. q \in Rtp
    BY <1>1, <1>4, StreamFacts, RtpPacketIn DEF Estimated, q
  <2>4. \A p \in Rtcp : sent'[p] = sent[p]
    BY <1>1, <1>2, <1>6, <2>1, <2>3, OtherKind
  <2>5. SenderRtcpInv(snd', sent')
    BY <1>1, <2>2, <2>4 DEF SenderInv, SenderRtcpInv
  <2>6. SenderInv'
    BY <2>1, <2>5 DEF SenderInv
  <2>7. TypeOK'
    BY <1>1, <1>2, <2>1, <2>2 DEF TypeOK
  <2>8. OnceInv'
    <3>1. sent'[q] = 1 /\ \A p \in Packets : p # q => sent'[p] = sent[p]
      BY <1>1, <1>2, <1>6, <2>1, CountFacts
    <3>2. \A p \in Packets : sent[p] <= 1 /\ got[p] <= 1 /\ (got[p] > 0 => sent[p] > 0)
      BY <1>1 DEF OnceInv
    <3>3. got' = got /\ 1 <= 1 /\ 1 > 0
      BY <1>2
    <3> QED BY <3>1, <3>2, <3>3 DEF OnceInv
  <2>9. snd'.index >= snd.index /\ snd'.start >= snd.start
    BY <1>3, <1>4, <2>2 DEF Estimated
  <2>10. IInv'
    BY <1>5, <2>6, <2>7, <2>8, SplitInv, PTL
  <2>11. q \in Packets /\ sent[q] = 0 /\ sent' = Count(sent, q)
    BY <1>2, <1>6, <2>1
  <2>12. Sends
    BY <1>2, <2>11 DEF Sends
  <2>13. Forward
    BY <1>1, <1>2, <2>9, OneMoves
  <2> QED BY <2>10, <2>12, <2>13
<1>7. CASE ~ Usable(snd, e)
  <2>1. /\ snd' \in StreamType /\ snd'.up /\ sent' = sent
        /\ snd'.key = snd.key /\ snd'.index = snd.index /\ snd'.mask = snd.mask
        /\ snd'.start = snd.start
    BY <1>1, <1>2, <1>7 DEF StreamType
  <2>2. SenderInv'
    BY <1>1, <2>1 DEF SenderInv, QuietInv, KeyInv, RtpInv, SenderRtcpInv
  <2>3. TypeOK' /\ OnceInv'
    BY <1>1, <1>2, <2>1 DEF TypeOK, OnceInv
  <2>4. IInv'
    BY <1>5, <2>2, <2>3, SplitInv, PTL
  <2>5. snd'.index >= snd.index /\ snd'.start >= snd.start
    BY <1>3, <2>1
  <2>6. Forward
    BY <1>1, <1>2, <2>5, OneMoves
  <2>7. UNCHANGED <<sent, got>>
    BY <1>2, <2>1
  <2> QED BY <2>4, <2>6, <2>7
<1> QED
  BY <1>6, <1>7

LEMMA UnprotectInv ==
  ASSUME IInv, NEW p \in net, srtp_unprotect(p)
  PROVE  IInv' /\ Forward /\ Delivers
<1> DEFINE seq == SeqNumOf(p.index)
           e == RecvEst(seq)
<1> HIDE DEF SeqMax, seq, e
<1>1. /\ rcv \in StreamType /\ got \in [Packets -> Nat] /\ TypeOK
      /\ SenderInv /\ ReceiverInv /\ OnceInv
  BY SplitInv DEF TypeOK
<1>2. /\ p \in Rtp /\ p \in Packets /\ sent[p] > 0
      /\ rcv.up => Usable(rcv, e)
      /\ p.key = rcv.key /\ p.index = e.est
      /\ rcv.index + e.delta <= Top
      /\ rcv' = Advance(rcv, e)
      /\ got' = Count(got, p)
      /\ UNCHANGED <<snd, sent>>
  BY DEF srtp_unprotect, Accepts, Authentic, BeforeWrap, net, seq, e
<1>3. /\ rcv.index \in 0 .. Top /\ rcv.pending \in Rocs /\ rcv.start \in Nat
      /\ rcv.index \in Nat /\ rcv.up \in BOOLEAN /\ Top \in Nat
  BY <1>1, StreamFacts, TopType, RtcpAssumption
<1>4. seq \in Seqs /\ seq \in Nat /\ seq < SeqMax
  <2>1. p.index \in Nat
    BY <1>2, <1>3, PacketFacts
  <2>2. seq \in Seqs
    BY <2>1, DivMod DEF seq
  <2> QED BY <2>2, SeqMaxType DEF Seqs
<1>5. ASSUME rcv.up
      PROVE  Estimated(rcv, e) /\ Usable(rcv, e)
  <2>1. e = srtp_get_est_pkt_index(rcv.index, rcv.pending, seq)
    BY <1>5 DEF e, RecvEst
  <2> QED BY <1>2, <1>3, <1>4, <1>5, <2>1, EstimateFacts DEF Estimated
<1>6. ASSUME ~ rcv.up
      PROVE  Estimated(rcv, e) /\ Usable(rcv, e)
  <2>1. e = [est |-> seq, delta |-> seq, status |-> "ok"]
    BY <1>6 DEF e, RecvEst
  <2>2. rcv.index = 0 /\ rcv.mask = {}
    BY <1>1, <1>6 DEF ReceiverInv, QuietInv, FreshStream
  <2>3. srtp_rdbx_check({}, seq) = "ok"
    BY <1>4, WindowAssumption, MedianAssumption DEF srtp_rdbx_check, LastBit
  <2>4. Estimated(rcv, e)
    BY <1>2, <1>3, <1>4, <2>1, <2>2 DEF Estimated
  <2> QED BY <2>1, <2>2, <2>3, <2>4 DEF Usable
<1>7. Estimated(rcv, e) /\ Usable(rcv, e)
  BY <1>3, <1>5, <1>6
<1>8. p = RtpPacket(rcv.key, e.est)
  BY <1>2, PacketFacts
<1>9. /\ got[p] = 0
      /\ got' \in [Packets -> Nat]
      /\ RtpInv(rcv', got') /\ KeyInv(rcv', got') /\ QuietInv(rcv')
  BY <1>1, <1>2, <1>7, <1>8, RtpStep DEF ReceiverInv
<1>10. /\ rcv' \in StreamType /\ rcv'.start = rcv.start /\ rcv'.rtcpMask = rcv.rtcpMask
       /\ rcv'.index = IF e.est > rcv.index THEN e.est ELSE rcv.index
  BY <1>1, <1>2, <1>7, AdvanceFacts
<1>11. \A q \in Rtcp : got'[q] = got[q]
  BY <1>1, <1>2, OtherKind
<1>12. ReceiverRtcpInv(rcv', got')
  BY <1>1, <1>10, <1>11, RtcpSame DEF ReceiverInv
<1>13. ReceiverInv'
  BY <1>9, <1>12 DEF ReceiverInv
<1>14. SenderInv'
  BY <1>1, <1>2, SenderStays
<1>15. TypeOK'
  BY <1>1, <1>2, <1>9, <1>10 DEF TypeOK
<1>16. /\ sent[p] = 1 /\ sent[p] <= 1
  BY <1>1, <1>2 DEF OnceInv, TypeOK
<1>17. OnceInv'
  <2>1. got'[p] = 1 /\ \A q \in Packets : q # p => got'[q] = got[q]
    BY <1>1, <1>2, <1>9, CountFacts
  <2>2. \A q \in Packets : sent[q] <= 1 /\ got[q] <= 1 /\ (got[q] > 0 => sent[q] > 0)
    BY <1>1 DEF OnceInv
  <2>3. sent' = sent /\ 1 <= 1
    BY <1>2
  <2> QED BY <1>2, <2>1, <2>2, <2>3 DEF OnceInv
<1>18. IInv'
  BY <1>13, <1>14, <1>15, <1>17, SplitInv, PTL
<1>19. rcv'.index >= rcv.index /\ rcv'.start >= rcv.start
  BY <1>3, <1>7, <1>10 DEF Estimated
<1>20. Forward
  BY <1>1, <1>2, <1>19, OneMoves
<1>21. Delivers
  BY <1>2, <1>9, <1>16 DEF Delivers
<1> QED
  BY <1>18, <1>20, <1>21

LEMMA ProtectRtcpInv ==
  ASSUME IInv, srtp_protect_rtcp
  PROVE  IInv' /\ Forward /\ (Sends \/ UNCHANGED <<sent, got>>)
<1> DEFINE next == srtp_rdb_increment(snd.start)
           q == RtcpPacket(snd.key, next.start)
<1> HIDE DEF SeqMax, next, q
<1>1. /\ snd \in StreamType /\ sent \in [Packets -> Nat] /\ TypeOK
      /\ SenderInv /\ ReceiverInv /\ OnceInv
  BY SplitInv DEF TypeOK
<1>2. /\ snd' = [snd EXCEPT !.up = TRUE, !.start = next.start]
      /\ sent' = IF next.status = "ok" THEN Count(sent, q) ELSE sent
      /\ UNCHANGED <<rcv, got>>
  BY DEF srtp_protect_rtcp, next, q, RtcpPacket
<1>3. /\ snd.start \in 0 .. RtcpLast /\ snd.start \in Nat /\ RtcpLast \in Nat
      /\ snd.key \in 1 .. Keys
  BY <1>1, StreamFacts, RtcpAssumption
<1>4. /\ next.start \in 0 .. RtcpLast /\ next.start >= snd.start
      /\ next.status = "ok" => next.start = snd.start + 1
      /\ next.status # "ok" => next.start = snd.start
  BY <1>3 DEF next, srtp_rdb_increment
<1>5. /\ snd' \in StreamType /\ snd'.up /\ snd'.key = snd.key
      /\ snd'.index = snd.index /\ snd'.mask = snd.mask /\ snd'.start = next.start
  BY <1>1, <1>2, <1>4 DEF StreamType
<1>6. ReceiverInv'
  BY <1>1, <1>2, ReceiverStays
<1>7. Forward
  <2>1. snd'.start >= snd.start /\ snd'.index >= snd.index
    BY <1>1, <1>4, <1>5, StreamFacts
  <2> QED BY <1>1, <1>2, <2>1, OneMoves
<1>8. CASE next.status = "ok"
  <2>1. q \in Rtcp /\ q \in Packets /\ q.key = snd.key /\ q.index = snd.start + 1
    BY <1>3, <1>4, <1>8, RtcpPacketIn DEF q
  <2>2. sent' = Count(sent, q)
    BY <1>2, <1>8
  <2>3. /\ \A p \in Rtcp : sent[p] > 0 => p.index <= snd.start
        /\ \A p, r \in Rtcp : sent[p] > 0 /\ sent[r] > 0 /\ p.index = r.index => p = r
    BY <1>1 DEF SenderInv, SenderRtcpInv
  <2>4. sent[q] = 0
    <3>1. ~ (sent[q] > 0)
      BY <1>3, <2>1, <2>3
    <3> QED BY <1>1, <2>1, <3>1
  <2>5. /\ sent' \in [Packets -> Nat] /\ sent'[q] = 1
        /\ \A p \in Packets : p # q => sent'[p] = sent[p]
    BY <1>1, <2>1, <2>2, <2>4, CountFacts
  <2>6. RtpInv(snd', sent')
    <3>1. \A p \in Rtp : sent'[p] = sent[p]
      BY <1>1, <2>1, <2>2, OtherKind
    <3> QED BY <1>1, <1>5, <3>1, RtpSame DEF SenderInv
  <2>7. KeyInv(snd', sent') /\ QuietInv(snd')
    BY <1>1, <1>5, <2>1, <2>2, KeyStep DEF SenderInv
  <2>8. SenderRtcpInv(snd', sent')
    <3>1. ASSUME NEW p \in Rtcp, sent'[p] > 0
          PROVE  /\ p.index <= snd.start + 1
                 /\ p # q => sent[p] > 0 /\ p.index <= snd.start
      <4>1. p \in Packets /\ p.index \in Nat
        BY PacketFacts, RtcpAssumption
      <4>2. p # q => sent[p] > 0 /\ p.index <= snd.start
        BY <2>3, <2>5, <3>1, <4>1
      <4> QED BY <1>3, <2>1, <4>1, <4>2
    <3>2. ASSUME NEW p \in Rtcp, NEW r \in Rtcp, sent'[p] > 0, sent'[r] > 0,
                 p.index = r.index
          PROVE  p = r
      <4>1. CASE p = q \/ r = q
        BY <1>3, <2>1, <3>1, <3>2, <4>1
      <4>2. CASE p # q /\ r # q
        BY <2>3, <3>1, <3>2, <4>2
      <4> QED BY <4>1, <4>2
    <3>3. snd'.start = snd.start + 1
      BY <1>4, <1>5, <1>8
    <3> QED BY <3>1, <3>2, <3>3 DEF SenderRtcpInv
  <2>9. SenderInv'
    BY <2>6, <2>7, <2>8 DEF SenderInv
  <2>10. TypeOK'
    BY <1>1, <1>2, <1>5, <2>5 DEF TypeOK
  <2>11. OnceInv'
    <3>1. \A p \in Packets : sent[p] <= 1 /\ got[p] <= 1 /\ (got[p] > 0 => sent[p] > 0)
      BY <1>1 DEF OnceInv
    <3>2. got' = got /\ 1 <= 1 /\ 1 > 0
      BY <1>2
    <3> QED BY <2>5, <3>1, <3>2 DEF OnceInv
  <2>12. IInv'
    BY <1>6, <2>9, <2>10, <2>11, SplitInv, PTL
  <2>13. Sends
    BY <1>2, <2>1, <2>2, <2>4 DEF Sends
  <2> QED BY <1>7, <2>12, <2>13
<1>9. CASE next.status # "ok"
  <2>1. sent' = sent /\ snd'.start = snd.start
    BY <1>2, <1>4, <1>5, <1>9
  <2>2. SenderInv'
    BY <1>1, <1>5, <2>1 DEF SenderInv, QuietInv, KeyInv, RtpInv, SenderRtcpInv
  <2>3. TypeOK' /\ OnceInv'
    BY <1>1, <1>2, <1>5, <2>1 DEF TypeOK, OnceInv
  <2>4. IInv'
    BY <1>6, <2>2, <2>3, SplitInv, PTL
  <2>5. UNCHANGED <<sent, got>>
    BY <1>2, <2>1
  <2> QED BY <1>7, <2>4, <2>5
<1> QED
  BY <1>8, <1>9

LEMMA UnprotectRtcpInv ==
  ASSUME IInv, NEW p \in net, srtp_unprotect_rtcp(p)
  PROVE  IInv' /\ Forward /\ Delivers
<1> HIDE DEF SeqMax
<1>1. /\ rcv \in StreamType /\ got \in [Packets -> Nat] /\ TypeOK
      /\ SenderInv /\ ReceiverInv /\ OnceInv
  BY SplitInv DEF TypeOK
<1>2. /\ p \in Rtcp /\ p \in Packets /\ sent[p] > 0 /\ p.key = rcv.key
      /\ srtp_rdb_check(rcv.start, rcv.rtcpMask, p.index) = "ok"
      /\ rcv' = AdvanceRtcp(rcv, p.index)
      /\ got' = Count(got, p)
      /\ UNCHANGED <<snd, sent>>
  BY DEF srtp_unprotect_rtcp, AcceptsRtcp, net
<1>3. ReceiverRtcpInv(rcv, got) /\ RtpInv(rcv, got) /\ KeyInv(rcv, got)
  BY <1>1 DEF ReceiverInv
<1>4. /\ got[p] = 0
      /\ rcv' \in StreamType /\ rcv'.start >= rcv.start
      /\ ReceiverRtcpInv(rcv', got')
  BY <1>1, <1>2, <1>3, RtcpStep
<1>5. /\ rcv'.up /\ rcv'.key = rcv.key /\ rcv'.index = rcv.index /\ rcv'.mask = rcv.mask
  BY <1>1, <1>2, <1>3, RtcpStep
<1>6. \A q \in Rtp : got'[q] = got[q]
  BY <1>1, <1>2, OtherKind
<1>7. RtpInv(rcv', got')
  BY <1>1, <1>3, <1>4, <1>5, <1>6, RtpSame
<1>8. KeyInv(rcv', got') /\ QuietInv(rcv')
  <2>1. /\ rcv \in StreamType /\ rcv' \in StreamType /\ got \in [Packets -> Nat]
        /\ KeyInv(rcv, got) /\ rcv'.up /\ rcv'.key = rcv.key
        /\ p \in Packets /\ p.key = rcv.key /\ got' = Count(got, p)
    BY <1>1, <1>2, <1>3, <1>4, <1>5
  <2> QED BY <2>1, KeyStep
<1>9. ReceiverInv'
  BY <1>4, <1>7, <1>8 DEF ReceiverInv
<1>10. SenderInv'
  BY <1>1, <1>2, SenderStays
<1>11. /\ got' \in [Packets -> Nat] /\ got'[p] = 1
       /\ \A q \in Packets : q # p => got'[q] = got[q]
  BY <1>1, <1>2, <1>4, CountFacts
<1>12. TypeOK'
  BY <1>1, <1>2, <1>4, <1>11 DEF TypeOK
<1>13. OnceInv'
  <2>1. \A q \in Packets : sent[q] <= 1 /\ got[q] <= 1 /\ (got[q] > 0 => sent[q] > 0)
    BY <1>1 DEF OnceInv
  <2>2. sent' = sent /\ 1 <= 1
    BY <1>2
  <2> QED BY <1>2, <1>11, <2>1, <2>2 DEF OnceInv
<1>14. IInv'
  BY <1>9, <1>10, <1>12, <1>13, SplitInv, PTL
<1>15. Forward
  <2>1. rcv'.index >= rcv.index /\ rcv'.start >= rcv.start
    BY <1>1, <1>4, <1>5, StreamFacts
  <2> QED BY <1>1, <1>2, <2>1, OneMoves
<1>16. Delivers
  <2>1. sent[p] = 1
    BY <1>1, <1>2 DEF OnceInv, TypeOK
  <2> QED BY <1>2, <1>4, <2>1 DEF Delivers
<1> QED
  BY <1>14, <1>15, <1>16

LEMMA SetRocInv ==
  ASSUME IInv, NEW roc \in Rocs, srtp_stream_set_roc(roc)
  PROVE  IInv' /\ Forward /\ UNCHANGED <<sent, got>>
<1> HIDE DEF SeqMax
<1>1. TypeOK /\ SenderInv /\ ReceiverInv /\ OnceInv
  BY SplitInv
<1>2. ASSUME NEW s \in StreamType, NEW t, t = SetRoc(s, roc)
      PROVE  /\ t \in StreamType /\ t.up = s.up /\ t.key = s.key
             /\ t.index = s.index /\ t.mask = s.mask
             /\ t.start = s.start /\ t.rtcpMask = s.rtcpMask
  BY <1>2 DEF SetRoc, StreamType
<1>3. CASE snd.up /\ snd' = SetRoc(snd, roc) /\ UNCHANGED <<rcv, sent, got>>
  <2>1. /\ snd' \in StreamType /\ snd'.up = snd.up /\ snd'.key = snd.key
        /\ snd'.index = snd.index /\ snd'.mask = snd.mask /\ snd'.start = snd.start
    BY <1>1, <1>2, <1>3 DEF TypeOK
  <2>2. SenderInv'
    BY <1>1, <1>3, <2>1 DEF SenderInv, QuietInv, KeyInv, RtpInv, SenderRtcpInv
  <2>3. ReceiverInv'
    BY <1>1, <1>3, ReceiverStays
  <2>4. TypeOK' /\ OnceInv'
    BY <1>1, <1>3, <2>1 DEF TypeOK, OnceInv
  <2>5. IInv'
    BY <2>2, <2>3, <2>4, SplitInv, PTL
  <2>6. snd.index >= snd.index /\ snd.start >= snd.start
    BY <1>1, StreamFacts DEF TypeOK
  <2>7. Forward
    BY <1>1, <1>3, <2>1, <2>6, OneMoves
  <2> QED BY <1>3, <2>5, <2>7
<1>4. CASE rcv.up /\ rcv' = SetRoc(rcv, roc) /\ UNCHANGED <<snd, sent, got>>
  <2>1. /\ rcv' \in StreamType /\ rcv'.up = rcv.up /\ rcv'.key = rcv.key
        /\ rcv'.index = rcv.index /\ rcv'.mask = rcv.mask
        /\ rcv'.start = rcv.start /\ rcv'.rtcpMask = rcv.rtcpMask
    BY <1>1, <1>2, <1>4 DEF TypeOK
  <2>2. ReceiverInv'
    BY <1>1, <1>4, <2>1 DEF ReceiverInv, QuietInv, KeyInv, RtpInv, ReceiverRtcpInv
  <2>3. SenderInv'
    BY <1>1, <1>4, SenderStays
  <2>4. TypeOK' /\ OnceInv'
    BY <1>1, <1>4, <2>1 DEF TypeOK, OnceInv
  <2>5. IInv'
    BY <2>2, <2>3, <2>4, SplitInv, PTL
  <2>6. rcv.index >= rcv.index /\ rcv.start >= rcv.start
    BY <1>1, StreamFacts DEF TypeOK
  <2>7. Forward
    BY <1>1, <1>4, <2>1, <2>6, OneMoves
  <2> QED BY <1>4, <2>5, <2>7
<1> QED
  BY <1>3, <1>4 DEF srtp_stream_set_roc

LEMMA UpdateInv ==
  ASSUME IInv, srtp_update
  PROVE  IInv' /\ Forward /\ UNCHANGED <<sent, got>>
<1> HIDE DEF SeqMax
<1>1. TypeOK /\ SenderInv /\ ReceiverInv /\ OnceInv
  BY SplitInv
<1>2. CASE snd.key < Keys /\ snd' = Rekeyed(snd) /\ UNCHANGED <<rcv, sent, got>>
  <2>1. /\ snd' \in StreamType /\ QuietInv(snd') /\ KeyInv(snd', sent) /\ RtpInv(snd', sent)
        /\ snd'.index = snd.index /\ snd'.start = snd.start
    BY <1>1, <1>2, UpdateStep DEF TypeOK, SenderInv
  <2>2. SenderRtcpInv(snd', sent)
    BY <1>1, <2>1 DEF SenderInv, SenderRtcpInv
  <2>3. SenderInv'
    BY <1>2, <2>1, <2>2 DEF SenderInv
  <2>4. ReceiverInv'
    BY <1>1, <1>2, ReceiverStays
  <2>5. TypeOK' /\ OnceInv'
    BY <1>1, <1>2, <2>1 DEF TypeOK, OnceInv
  <2>6. IInv'
    BY <2>3, <2>4, <2>5, SplitInv, PTL
  <2>7. snd.index >= snd.index /\ snd.start >= snd.start
    BY <1>1, StreamFacts DEF TypeOK
  <2>8. Forward
    BY <1>1, <1>2, <2>1, <2>7, OneMoves
  <2> QED BY <1>2, <2>6, <2>8
<1>3. CASE rcv.key < Keys /\ rcv' = Rekeyed(rcv) /\ UNCHANGED <<snd, sent, got>>
  <2>1. /\ rcv' \in StreamType /\ QuietInv(rcv') /\ KeyInv(rcv', got) /\ RtpInv(rcv', got)
        /\ rcv'.index = rcv.index /\ rcv'.start = rcv.start /\ rcv'.rtcpMask = rcv.rtcpMask
    BY <1>1, <1>3, UpdateStep DEF TypeOK, ReceiverInv
  <2>2. ReceiverRtcpInv(rcv', got)
    BY <1>1, <2>1 DEF ReceiverInv, ReceiverRtcpInv
  <2>3. ReceiverInv'
    BY <1>3, <2>1, <2>2 DEF ReceiverInv
  <2>4. SenderInv'
    BY <1>1, <1>3, SenderStays
  <2>5. TypeOK' /\ OnceInv'
    BY <1>1, <1>3, <2>1 DEF TypeOK, OnceInv
  <2>6. IInv'
    BY <2>3, <2>4, <2>5, SplitInv, PTL
  <2>7. rcv.index >= rcv.index /\ rcv.start >= rcv.start
    BY <1>1, StreamFacts DEF TypeOK
  <2>8. Forward
    BY <1>1, <1>3, <2>1, <2>7, OneMoves
  <2> QED BY <1>3, <2>6, <2>8
<1> QED
  BY <1>2, <1>3 DEF srtp_update

LEMMA NextInv ==
  ASSUME IInv, Next
  PROVE  IInv' /\ Forward /\ (Sends \/ Delivers \/ UNCHANGED <<sent, got>>)
<1>1. CASE \E seq \in Seqs : srtp_protect(seq)
  BY <1>1, ProtectInv
<1>2. CASE \E p \in net : srtp_unprotect(p)
  BY <1>2, UnprotectInv
<1>3. CASE srtp_protect_rtcp
  BY <1>3, ProtectRtcpInv
<1>4. CASE \E p \in net : srtp_unprotect_rtcp(p)
  BY <1>4, UnprotectRtcpInv
<1>5. CASE \E roc \in Rocs : srtp_stream_set_roc(roc)
  BY <1>5, SetRocInv
<1>6. CASE srtp_update
  BY <1>6, UpdateInv
<1> QED
  BY <1>1, <1>2, <1>3, <1>4, <1>5, <1>6 DEF Next

LEMMA StutterInv ==
  ASSUME IInv, UNCHANGED vars
  PROVE  IInv'
<1>1. UNCHANGED <<snd, sent>> /\ UNCHANGED <<rcv, got>>
  BY DEF vars
<1>2. TypeOK /\ SenderInv /\ ReceiverInv /\ OnceInv
  BY SplitInv
<1>3. SenderInv' /\ ReceiverInv'
  BY <1>1, <1>2, SenderStays, ReceiverStays
<1>4. TypeOK' /\ OnceInv'
  BY <1>1, <1>2 DEF TypeOK, OnceInv
<1> QED
  BY <1>3, <1>4, SplitInv, PTL

LEMMA Inductive == Spec => []IInv
<1>1. Init => IInv
  BY InitInv
<1>2. IInv /\ [Next]_vars => IInv'
  BY NextInv, StutterInv
<1> QED
  BY <1>1, <1>2, PTL DEF Spec

\* Whatever the network does: the fields of both streams keep their ranges.
THEOREM TypeCorrect == Spec => []TypeOK
<1>1. IInv => TypeOK
  BY DEF IInv
<1> QED
  BY <1>1, Inductive, PTL

(***************************************************************************)
(* What can be received is received                                        *)
(***************************************************************************)
LEMMA InSyncRtp ==
  ASSUME IInv, NEW p \in net, Missing(p), p \in Rtp,
         \/ ~rcv.up /\ p.index < SeqMax
         \/ /\ rcv.up /\ rcv.pending = 0
            /\ p.index > rcv.index - Window
            /\ p.index < rcv.index + Median
         \/ /\ rcv.up /\ rcv.pending # 0
            /\ rcv.pending = RocOf(p.index)
            /\ p.index > rcv.index
  PROVE  Accepts(p)
<1> HIDE DEF SeqMax
<1> DEFINE e == RecvEst(SeqNumOf(p.index))
<1>1. /\ rcv \in StreamType /\ RtpInv(rcv, got)
      /\ p.key = rcv.key /\ got[p] = 0
  BY DEF IInv, TypeOK, Missing
<1>2. /\ rcv.index \in 0 .. Top /\ rcv.index \in Nat /\ rcv.mask \in SUBSET (0 .. LastBit)
      /\ p.index \in 0 .. Top /\ p.index \in Nat
      /\ LastBit = Window - 1 /\ Window \in Nat /\ Window <= Median /\ Median \in Nat
  BY <1>1, StreamFacts, PacketFacts, TopType, WindowAssumption, MedianAssumption
     DEF LastBit
<1>3. /\ p.index = (RocOf(p.index) * SeqMax) + SeqNumOf(p.index)
      /\ SeqNumOf(p.index) \in Seqs
  BY <1>2, DivMod
<1>4. CASE ~rcv.up /\ p.index < SeqMax
  <2>1. p.index \in Seqs
    BY <1>2, <1>4, SeqMaxType DEF Seqs
  <2>2. SeqNumOf(p.index) = p.index
    BY <2>1, SmallMod DEF SeqNumOf
  <2>3. e.est = p.index
    BY <1>4, <2>2 DEF RecvEst
  <2> QED BY <1>1, <1>4, <2>3 DEF Accepts, Authentic
<1>5. CASE rcv.up /\ rcv.pending = 0 /\ p.index > rcv.index - Window
                  /\ p.index < rcv.index + Median
  <2>1. e = srtp_rdbx_estimate_index(rcv.index, SeqNumOf(p.index))
    BY <1>5 DEF RecvEst, srtp_get_est_pkt_index
  <2>2. rcv.index < p.index + Median
    BY <1>2, <1>5
  <2>3. e = [est |-> p.index, delta |-> p.index - rcv.index, status |-> "ok"]
    BY <1>2, <1>5, <2>1, <2>2, EstimateRight
  <2>4. LastBit + (p.index - rcv.index) \notin rcv.mask
    <3>1. p.index \notin Used(rcv.index, rcv.mask)
      <4>1. p = RtpPacket(rcv.key, p.index)
        BY <1>1, PacketFacts
      <4>2. p.index \in Used(rcv.index, rcv.mask) => got[RtpPacket(rcv.key, p.index)] > 0
        BY <1>1 DEF RtpInv
      <4> QED BY <1>1, <4>1, <4>2
    <3>2. p.index \in Int /\ p.index - rcv.index + LastBit = LastBit + (p.index - rcv.index)
      BY <1>2
    <3> QED BY <3>1, <3>2 DEF Used
  <2>5. ~ (LastBit + (p.index - rcv.index) < 0)
    BY <1>2, <1>5
  <2>6. Usable(rcv, e)
    BY <2>3, <2>4, <2>5 DEF Usable, srtp_rdbx_check
  <2> QED BY <1>1, <2>3, <2>6 DEF Accepts, Authentic
<1>6. CASE rcv.up /\ rcv.pending # 0 /\ rcv.pending = RocOf(p.index)
                  /\ p.index > rcv.index
  <2>1. e = srtp_estimate_index(rcv.index, rcv.pending, SeqNumOf(p.index))
    BY <1>6 DEF RecvEst, srtp_get_est_pkt_index
  <2>2. (rcv.pending * SeqMax) + SeqNumOf(p.index) = p.index
    BY <1>3, <1>6
  <2>3. ~ (rcv.index - p.index > Median)
    BY <1>2, <1>6
  <2>4. /\ e.est = p.index
        /\ \/ e.status = "pkt_idx_adv"
           \/ e.status = "ok" /\ e.delta = p.index - rcv.index
    BY <2>1, <2>2, <2>3 DEF srtp_estimate_index
  <2>5. p.index - rcv.index > 0
    BY <1>2, <1>6
  <2>6. Usable(rcv, e)
    BY <2>4, <2>5 DEF Usable, srtp_rdbx_check
  <2> QED BY <1>1, <2>4, <2>6 DEF Accepts, Authentic
<1> QED
  BY <1>4, <1>5, <1>6

LEMMA InSyncRtcp ==
  ASSUME IInv, NEW p \in net, Missing(p), p \in Rtcp, p.index >= rcv.start
  PROVE  AcceptsRtcp(p)
<1>1. /\ rcv \in StreamType /\ ReceiverRtcpInv(rcv, got) /\ SenderRtcpInv(snd, sent)
      /\ OnceInv /\ p.key = rcv.key /\ got[p] = 0 /\ sent[p] > 0
  BY DEF IInv, TypeOK, Missing, net
<1>2. p.index \notin RtcpUsed(rcv.start, rcv.rtcpMask)
  <2> SUFFICES ASSUME p.index \in RtcpUsed(rcv.start, rcv.rtcpMask)
               PROVE  FALSE
    OBVIOUS
  <2>1. PICK key \in 1 .. Keys : p.index \in 0 .. RtcpLast /\ got[RtcpPacket(key, p.index)] > 0
    BY <1>1 DEF ReceiverRtcpInv
  <2>2. /\ RtcpPacket(key, p.index) \in Rtcp /\ RtcpPacket(key, p.index) \in Packets
        /\ RtcpPacket(key, p.index).index = p.index
    BY <2>1, RtcpPacketIn
  <2>3. sent[RtcpPacket(key, p.index)] > 0
    BY <1>1, <2>1, <2>2 DEF OnceInv
  <2>4. RtcpPacket(key, p.index) = p
    BY <1>1, <2>2, <2>3 DEF SenderRtcpInv
  <2> QED BY <1>1, <2>1, <2>4
<1>3. p.index - rcv.start \notin rcv.rtcpMask /\ ~ (p.index < rcv.start)
  BY <1>1, <1>2, PacketFacts, StreamFacts, RtcpAssumption DEF RtcpUsed
<1> QED
  BY <1>1, <1>3 DEF AcceptsRtcp, srtp_rdb_check

\* A packet that is within reach of the receiver's databases is accepted the
\* first time it arrives, after any history of losses, rollovers and updates.
THEOREM InSyncAlways == Spec => []InSync
<1>1. IInv => InSync
  BY InSyncRtp, InSyncRtcp, PacketFacts DEF InSync, net
<1> QED
  BY <1>1, Inductive, PTL

\* No step of either session takes an index or a window back.
THEOREM NeverBackAlways == Spec => NeverBack
<1>1. IInv /\ [Next]_vars => [Forward]_vars
  BY NextInv
<1>2. [Forward]_vars <=> [/\ snd'.index >= snd.index /\ snd'.start >= snd.start
                          /\ rcv'.index >= rcv.index /\ rcv'.start >= rcv.start]_vars
  BY DEF Forward
<1> QED
  BY <1>1, <1>2, Inductive, PTL DEF Spec, NeverBack

(***************************************************************************)
(* The refinement                                                          *)
(***************************************************************************)
LEMMA ChannelStep ==
  ASSUME IInv, Next
  PROVE  [Channel!Next]_<<sent, got>>
<1>1. sent \in [Packets -> Nat] /\ got \in [Packets -> Nat]
  BY DEF IInv, TypeOK
<1>2. CASE Sends
  <2>1. PICK q \in Packets : sent[q] = 0 /\ sent' = Count(sent, q) /\ UNCHANGED got
    BY <1>2 DEF Sends
  <2>2. sent' = [sent EXCEPT ![q] = 1]
    BY <1>1, <2>1 DEF Count
  <2> QED BY <2>1, <2>2 DEF Channel!Next, Channel!Send
<1>3. CASE Delivers
  <2>1. PICK q \in Packets : sent[q] = 1 /\ got[q] = 0 /\ got' = Count(got, q) /\ UNCHANGED sent
    BY <1>3 DEF Delivers
  <2>2. got' = [got EXCEPT ![q] = 1]
    BY <1>1, <2>1 DEF Count
  <2> QED BY <2>1, <2>2 DEF Channel!Next, Channel!Deliver
<1> QED
  BY <1>2, <1>3, NextInv

\* Two sessions are the channel: no index protects two packets of a key, and
\* a packet is delivered at most once and only if it was sent.
THEOREM Refinement == Spec => ImplementsChannel
<1>1. Init => Channel!Init
  BY DEF Init, Channel!Init
<1>2. IInv /\ [Next]_vars => [Channel!Next]_<<sent, got>>
  BY ChannelStep DEF vars
<1> QED
  BY <1>1, <1>2, Inductive, PTL DEF Spec, ImplementsChannel, Channel!Spec

(***************************************************************************)
(* SrtpSession.  The key material in use is what the entries of the list   *)
(* and the template name.  The inductive invariant says that it is on the  *)
(* heap, that two entries name the same only if it is the template's, that *)
(* nothing else is on the heap - unless an update of the template failed   *)
(* where it leaks - and that an entry that was used against its direction  *)
(* has told so, if what it did before an update does not count.  Each      *)
(* helper of the actions keeps it, on any session and heap; an action is   *)
(* one of them or two.                                                     *)
(***************************************************************************)

LEMMA LeastOf ==
  ASSUME NEW X \in SUBSET Nat, X # {}
  PROVE  \E n \in X : \A m \in X : n <= m
<1>1. PICK n \in X : \A m \in X : <<m, n>> \notin OpToRel(<, Nat)
  BY NatLessThanWellFounded, WFMin
<1>2. \A m \in X : ~ (m < n)
  BY <1>1 DEF OpToRel
<1> QED
  BY <1>2

LEMMA MinOf ==
  ASSUME NEW X \in SUBSET Nat, X # {}
  PROVE  Min(X) \in X
  BY LeastOf DEF Min

Indices == 0 .. MaxIndex

LEMMA ZeroIndex == 0 \in Indices /\ 0 < MaxIndex
  BY SessionAssumption DEF Indices

Entries ==
  {e \in [ssrc : Ssrcs, keys : Blocks, dir : Directions, index : Indices, rtcp : Indices,
          used : SUBSET {"sender", "receiver"}, told : BOOLEAN] :
     AcrossUpdates \/ e.told \/ e.used \subseteq {e.dir}}

\* What goes on to count after an update.
LEMMA CarriedUses ==
  ASSUME NEW e \in Entries
  PROVE  Carried(e) \in SUBSET {"sender", "receiver"} /\ (AcrossUpdates \/ Carried(e) = {})
BY SessionAssumption DEF Carried, Entries

Templates ==
  [ssrc : Wildcards, keys : Blocks, dir : Directions, index : Indices, rtcp : Indices,
   used : {{}}, told : BOOLEAN]

Heaps == [Blocks -> Masters \cup {Unused}]

Sessions(cap) == [template : Templates \cup {None}, list : Seq(Entries), cap : {cap}]

Shared(t) == IF t = None THEN {} ELSE {t.keys}

InUse(s) == {s.list[i].keys : i \in DOMAIN s.list} \cup Shared(s.template)

Apart(s) ==
  \A i, j \in DOMAIN s.list :
    s.list[i].keys = s.list[j].keys => i = j \/ s.list[i].keys \in Shared(s.template)

Leakless == {"update_init", "update_list"} \cap Faults = {}

\* What is used is on the heap, and nothing else is where nothing leaks.
Held(h, used) ==
  \A b \in Blocks : /\ b \in used => h[b] # Unused
                    /\ Leakless /\ h[b] # Unused => b \in used

\* The clones of the template have an SSRC each.
Single(s) ==
  \A i, j \in DOMAIN s.list :
    s.list[i].keys = s.list[j].keys /\ s.list[i].ssrc = s.list[j].ssrc => i = j

\* The list fits its array, whose size is a doubling of the initial one.
Roomy(s) == s.cap \in Capacities /\ Len(s.list) <= s.cap

Good(s, h) ==
  /\ s \in Sessions(s.cap)
  /\ h \in Heaps
  /\ Held(h, InUse(s))
  /\ Apart(s)
  /\ Single(s)
  /\ Roomy(s)

SessionInv ==
  /\ heap \in Heaps
  /\ session = None => Held(heap, {})
  /\ session # None => Good(session, heap)

LEMMA NotNone ==
  /\ \A e \in Templates : e # None
  /\ \A e \in Entries : e # None
  /\ \A cap, s : s \in Sessions(cap) => s # None
<1>1. "keys" \notin DOMAIN None /\ "list" \notin DOMAIN None
  BY DEF None
<1>2. \A e \in Templates : "keys" \in DOMAIN e
  BY DEF Templates
<1>3. \A e \in Entries : "keys" \in DOMAIN e
  BY DEF Entries
<1>4. \A cap, s : s \in Sessions(cap) => "list" \in DOMAIN s
  BY DEF Sessions
<1> QED
  BY <1>1, <1>2, <1>3, <1>4

\* The heap: what Allocated and Freed do to the blocks in use.

LEMMA LowestFacts ==
  ASSUME NEW h, Room(h) # {}
  PROVE  Lowest(Room(h)) \in Blocks /\ h[Lowest(Room(h))] = Unused
<1>1. Room(h) \in SUBSET Nat
  BY SessionAssumption DEF Room
<1>2. \E b \in Room(h) : \A c \in Room(h) : b <= c
  BY <1>1, LeastOf
<1>3. Lowest(Room(h)) \in Room(h)
  BY <1>2 DEF Lowest
<1> QED
  BY <1>3 DEF Room

LEMMA AllocatedFacts ==
  ASSUME NEW h \in Heaps, Room(h) # {}, NEW m \in Masters
  PROVE  /\ Allocated(h, m) \in Heaps
         /\ \A c \in Blocks : Allocated(h, m)[c] # Unused
                                <=> h[c] # Unused \/ c = Lowest(Room(h))
<1>1. Lowest(Room(h)) \in Blocks
  BY LowestFacts
<1>2. m # Unused
  BY TagsAssumption
<1> QED
  BY <1>1, <1>2 DEF Allocated, Heaps

LEMMA FreedFacts ==
  ASSUME NEW h \in Heaps, NEW blocks
  PROVE  /\ Freed(h, blocks) \in Heaps
         /\ \A c \in Blocks : Freed(h, blocks)[c] # Unused
                                <=> h[c] # Unused /\ c \notin blocks
  BY DEF Freed, Heaps

LEMMA RoomFinite == \A h : IsFiniteSet(Room(h)) /\ Room(h) \subseteq Blocks
  BY SessionAssumption, FS_Subset DEF Room

LEMMA FitsOne == Fits(1) => Room(heap) # {}
  BY FS_EmptySet DEF Fits

\* The size of the array of the list.

LEMMA MostStreamsType == MostStreams \in Nat
<1>1. Cardinality(Blocks) \in Nat /\ Cardinality(Ssrcs) \in Nat
  BY SessionAssumption, FS_CardinalityType
<1> QED
  BY <1>1 DEF MostStreams

\* g is Doublings, up to n.
Doubles(g, n) ==
  g = [k \in 0 .. n |-> IF k = 0 THEN InitialCapacity ELSE 2 * g[k - 1]]

LEMMA DoublesLonger ==
  ASSUME NEW n \in Nat, NEW g, Doubles(g, n)
  PROVE  \E h : Doubles(h, n + 1)
<1> DEFINE h == [k \in 0 .. n + 1 |-> IF k = n + 1 THEN 2 * g[n] ELSE g[k]]
<1>1. ASSUME NEW k \in 0 .. n
      PROVE  g[k] = IF k = 0 THEN InitialCapacity ELSE 2 * g[k - 1]
  BY DEF Doubles
<1>2. ASSUME NEW k \in 0 .. n + 1
      PROVE  h[k] = IF k = 0 THEN InitialCapacity ELSE 2 * h[k - 1]
  <2>1. CASE k = n + 1
    BY <2>1
  <2>2. CASE k = 0
    BY <2>2, <1>1
  <2>3. CASE k \in 1 .. n
    <3>1. k \in 0 .. n /\ k - 1 \in 0 .. n + 1 /\ k # n + 1 /\ k - 1 # n + 1 /\ k # 0
      BY <2>3
    <3> QED BY <3>1, <1>1
  <2> QED BY <2>1, <2>2, <2>3
<1>3. h = [k \in 0 .. n + 1 |-> h[k]]
  OBVIOUS
<1> HIDE DEF h
<1>4. Doubles(h, n + 1)
  BY <1>2, <1>3 DEF Doubles
<1> QED
  BY <1>4

LEMMA DoublesExist ==
  ASSUME NEW n \in Nat
  PROVE  \E g : Doubles(g, n)
<1> DEFINE Without == {m \in Nat : ~ \E g : Doubles(g, m)}
<1> SUFFICES ASSUME Without # {}
             PROVE  FALSE
  OBVIOUS
<1>1. Without \in SUBSET Nat
  OBVIOUS
<1>2. PICK m \in Without : \A o \in Without : m <= o
  <2> HIDE DEF Without
  <2> QED BY <1>1, LeastOf
<1>3. m # 0
  <2> DEFINE g == [k \in 0 .. 0 |-> InitialCapacity]
  <2>1. g = [k \in 0 .. 0 |-> IF k = 0 THEN InitialCapacity ELSE 2 * g[k - 1]]
    OBVIOUS
  <2> HIDE DEF g
  <2>2. Doubles(g, 0)
    BY <2>1 DEF Doubles
  <2> QED BY <2>2
<1>4. m - 1 \in Nat /\ m - 1 \notin Without
  BY <1>2, <1>3
<1>5. \E g : Doubles(g, m)
  <2>1. PICK g : Doubles(g, m - 1)
    BY <1>4
  <2>2. (m - 1) + 1 = m
    BY <1>4
  <2> QED BY <1>4, <2>1, <2>2, DoublesLonger
<1> QED
  BY <1>5

\* Doublings is what its definition says, and exceeds its argument.
LEMMA DoublingsFacts ==
  ASSUME NEW k \in 0 .. MostStreams
  PROVE  /\ Doublings[k] = IF k = 0 THEN InitialCapacity ELSE 2 * Doublings[k - 1]
         /\ Doublings[k] \in Nat /\ Doublings[k] > k
<1>1. Doublings = CHOOSE g : Doubles(g, MostStreams)
  BY DEF Doublings, Doubles
<1>2. Doubles(Doublings, MostStreams)
  BY <1>1, MostStreamsType, DoublesExist
<1>3. \A m \in 0 .. MostStreams :
        Doublings[m] = IF m = 0 THEN InitialCapacity ELSE 2 * Doublings[m - 1]
  BY <1>2 DEF Doubles
<1> DEFINE Bad == {m \in 0 .. MostStreams : ~ (Doublings[m] \in Nat /\ Doublings[m] > m)}
<1>4. Bad = {}
  <2> SUFFICES ASSUME Bad # {}
               PROVE  FALSE
    OBVIOUS
  <2>1. Bad \in SUBSET Nat
    BY MostStreamsType
  <2>2. PICK m \in Bad : \A o \in Bad : m <= o
    <3> HIDE DEF Bad
    <3> QED BY <2>1, LeastOf
  <2>3. m # 0
    BY <2>2, <1>3, MostStreamsType, SessionAssumption
  <2>4. m \in 1 .. MostStreams /\ m - 1 \in 0 .. MostStreams /\ m - 1 \notin Bad
    BY <2>2, <2>3, MostStreamsType
  <2>5. Doublings[m - 1] \in Nat /\ Doublings[m - 1] > m - 1
    BY <2>4
  <2>6. Doublings[m] = 2 * Doublings[m - 1]
    BY <2>4, <1>3, MostStreamsType
  <2>7. Doublings[m] \in Nat /\ Doublings[m] > m
    BY <2>4, <2>5, <2>6, MostStreamsType
  <2> QED BY <2>2, <2>7
<1> QED
  BY <1>3, <1>4

LEMMA CapacitiesFacts ==
  /\ InitialCapacity \in Capacities
  /\ Capacities \subseteq Nat
  /\ \A c \in Capacities : c < MostStreams => 2 * c \in Capacities
<1>1. InitialCapacity \in Capacities
  <2>1. 0 \in 0 .. MostStreams
    BY MostStreamsType
  <2> QED BY <2>1, DoublingsFacts DEF Capacities
<1>2. Capacities \subseteq Nat
  BY DoublingsFacts DEF Capacities
<1>3. ASSUME NEW c \in Capacities, c < MostStreams
      PROVE  2 * c \in Capacities
  <2>1. PICK k \in 0 .. MostStreams : c = Doublings[k]
    BY DEF Capacities
  <2>2. k + 1 \in 0 .. MostStreams /\ k + 1 # 0 /\ (k + 1) - 1 = k
    BY <1>3, <2>1, DoublingsFacts, MostStreamsType
  <2>3. Doublings[k + 1] = 2 * c
    BY <2>1, <2>2, DoublingsFacts
  <2> QED BY <2>2, <2>3 DEF Capacities
<1> QED
  BY <1>1, <1>2, <1>3

LEMMA CapacityForFacts ==
  ASSUME NEW n \in 0 .. MostStreams
  PROVE  CapacityFor(n) \in Capacities /\ n <= CapacityFor(n)
<1> DEFINE C == {c \in Capacities : c >= n}
<1>1. C \in SUBSET Nat
  BY CapacitiesFacts
<1>2. C # {}
  <2>1. MostStreams \in 0 .. MostStreams
    BY MostStreamsType
  <2>2. Doublings[MostStreams] \in Nat /\ Doublings[MostStreams] > MostStreams
    BY <2>1, DoublingsFacts
  <2>3. Doublings[MostStreams] \in Capacities
    BY <2>1 DEF Capacities
  <2>4. Doublings[MostStreams] >= n
    BY <2>2, MostStreamsType
  <2> QED BY <2>3, <2>4
<1> HIDE DEF C
<1>3. Min(C) \in C
  BY <1>1, <1>2, MinOf
<1> QED
  BY <1>1, <1>3 DEF C, CapacityFor

\* No list gets longer than there are blocks and SSRCs.
LEMMA ListFits ==
  ASSUME NEW cap, NEW s \in Sessions(cap), Apart(s), Single(s)
  PROVE  Len(s.list) \in 0 .. MostStreams
<1> DEFINE list == s.list
           own == {i \in DOMAIN list : list[i].keys \notin Shared(s.template)}
           clones == {i \in DOMAIN list : list[i].keys \in Shared(s.template)}
           keys == [i \in own |-> list[i].keys]
           ssrcs == [i \in clones |-> list[i].ssrc]
<1>1. list \in Seq(Entries)
  BY DEF Sessions
<1>2. keys \in Injection(own, Blocks)
  <2>1. keys \in [own -> Blocks]
    BY <1>1 DEF Entries
  <2>2. \A i, j \in own : keys[i] = keys[j] => i = j
    BY DEF Apart
  <2> QED BY <2>1, <2>2 DEF Injection, IsInjective
<1>3. ssrcs \in Injection(clones, Ssrcs)
  <2>1. ssrcs \in [clones -> Ssrcs]
    BY <1>1 DEF Entries
  <2>2. \A i, j \in clones : list[i].keys = list[j].keys
    BY DEF Shared
  <2>3. \A i, j \in clones : ssrcs[i] = ssrcs[j] => i = j
    BY <2>2 DEF Single
  <2> QED BY <2>1, <2>3 DEF Injection, IsInjective
<1>4. own \cup clones = 1 .. Len(list) /\ own \cap clones = {} /\ Len(list) \in Nat
  BY <1>1
<1> HIDE DEF own, clones, keys, ssrcs, list
<1>5. IsFiniteSet(own) /\ Cardinality(own) <= Cardinality(Blocks)
  BY <1>2, SessionAssumption, FS_Injection
<1>6. IsFiniteSet(clones) /\ Cardinality(clones) <= Cardinality(Ssrcs)
  BY <1>3, SessionAssumption, FS_Injection
<1>7. Cardinality(own \cup clones) = Cardinality(own) + Cardinality(clones)
  <2>1. Cardinality(own \cup clones)
          = Cardinality(own) + Cardinality(clones) - Cardinality(own \cap clones)
    BY <1>5, <1>6, FS_Union
  <2>2. Cardinality(own \cap clones) = 0
    BY <1>4, FS_EmptySet
  <2>3. Cardinality(own) \in Nat /\ Cardinality(clones) \in Nat
    BY <1>5, <1>6, FS_CardinalityType
  <2> QED BY <2>1, <2>2, <2>3
<1>8. Cardinality(1 .. Len(list)) = Len(list)
  <2> DEFINE n == Len(list)
  <2>1. n \in Int /\ n >= 0 /\ 1 \in Int
    BY <1>4
  <2> HIDE DEF n
  <2>2. Cardinality(1 .. n) = IF 1 > n THEN 0 ELSE n - 1 + 1
    BY <2>1, FS_Interval
  <2>3. Cardinality(1 .. n) = n
    BY <2>1, <2>2
  <2> QED BY <2>3 DEF n
<1>9. /\ Cardinality(own) \in Nat /\ Cardinality(clones) \in Nat
      /\ Cardinality(Blocks) \in Nat /\ Cardinality(Ssrcs) \in Nat
  BY <1>5, <1>6, SessionAssumption, FS_CardinalityType
<1>10. Len(list) \in 0 .. MostStreams
  <2>1. Len(list) = Cardinality(own) + Cardinality(clones)
    BY <1>4, <1>7, <1>8
  <2> QED BY <2>1, <1>4, <1>5, <1>6, <1>9 DEF MostStreams
<1> QED
  BY <1>10 DEF list

\* The list and the template: what becomes of the invariant.

LEMMA PositionFacts ==
  ASSUME NEW list \in Seq(Entries), NEW ssrc, Found(list, ssrc)
  PROVE  /\ Position(list, ssrc) \in DOMAIN list
         /\ list[Position(list, ssrc)].ssrc = ssrc
<1> DEFINE I == {i \in 1 .. Len(list) : list[i].ssrc = ssrc}
<1>1. Position(list, ssrc) = IF I # {} THEN Min(I) ELSE 0
  BY DEF Position, SelectInSeq
<1>2. I # {} /\ Position(list, ssrc) = Min(I)
  BY <1>1 DEF Found
<1>3. Min(I) \in I
  <2>1. I \in SUBSET Nat
    OBVIOUS
  <2> HIDE DEF I
  <2> QED BY <2>1, <1>2, MinOf
<1> QED
  BY <1>2, <1>3

LEMMA FoundWhen ==
  ASSUME NEW list \in Seq(Entries), NEW ssrc
  PROVE  Found(list, ssrc) <=> \E i \in DOMAIN list : list[i].ssrc = ssrc
<1> DEFINE I == {i \in 1 .. Len(list) : list[i].ssrc = ssrc}
<1>1. Position(list, ssrc) = IF I # {} THEN Min(I) ELSE 0
  BY DEF Position, SelectInSeq
<1>2. ASSUME I # {}
      PROVE  Min(I) # 0
  <2>1. I \in SUBSET Nat /\ 0 \notin I
    OBVIOUS
  <2> HIDE DEF I
  <2> QED BY <2>1, <1>2, MinOf
<1>3. I # {} <=> \E i \in DOMAIN list : list[i].ssrc = ssrc
  OBVIOUS
<1> QED
  BY <1>1, <1>2, <1>3 DEF Found

LEMMA InsertedFacts ==
  ASSUME NEW cap, NEW s \in Sessions(cap), NEW e \in Entries
  PROVE  /\ Inserted(s, e) \in Sessions(Inserted(s, e).cap)
         /\ Inserted(s, e).template = s.template
         /\ Inserted(s, e).list = Append(s.list, e)
         /\ Inserted(s, e).cap = IF Full(s) THEN 2 * s.cap ELSE s.cap
<1> DEFINE r == Inserted(s, e)
<1>1. s.list \in Seq(Entries) /\ s.template \in Templates \cup {None}
  BY DEF Sessions
<1>2. Append(s.list, e) \in Seq(Entries)
  BY <1>1
<1>3. PICK c : /\ r = [[s EXCEPT !.list = Append(@, e)] EXCEPT !.cap = c]
               /\ c = IF Full(s) THEN 2 * s.cap ELSE s.cap
  <2> DEFINE c == IF Full(s) THEN 2 * s.cap ELSE s.cap
  <2>1. r = [[s EXCEPT !.list = Append(@, e)] EXCEPT !.cap = c]
    BY DEF Inserted, Sessions
  <2> QED BY <2>1
<1> HIDE DEF r
<1>4. r.template = s.template /\ r.list = Append(s.list, e) /\ r.cap = c
  BY <1>3 DEF Sessions
<1>5. r \in Sessions(c)
  BY <1>1, <1>2, <1>3 DEF Sessions
<1> QED
  BY <1>3, <1>4, <1>5 DEF r

LEMMA InsertedGood ==
  ASSUME NEW s, NEW h, Good(s, h), NEW e \in Entries, NEW g \in Heaps,
         \A b \in Blocks : g[b] # Unused <=> h[b] # Unused \/ b = e.keys,
         h[e.keys] = Unused \/ (e.keys \in Shared(s.template) /\ ~ Found(s.list, e.ssrc))
  PROVE  Good(Inserted(s, e), g)
<1> DEFINE r == Inserted(s, e)
<1>1. s \in Sessions(s.cap) /\ s.list \in Seq(Entries)
  BY DEF Good, Sessions
<1>2. /\ r \in Sessions(r.cap) /\ r.template = s.template /\ r.list = Append(s.list, e)
      /\ r.cap = IF Len(s.list) = s.cap THEN 2 * s.cap ELSE s.cap
  BY <1>1, InsertedFacts DEF Full
<1> HIDE DEF r
<1>3. /\ DOMAIN r.list = 1 .. Len(s.list) + 1
      /\ DOMAIN s.list = 1 .. Len(s.list)
      /\ \A i \in DOMAIN s.list : r.list[i] = s.list[i] /\ s.list[i] \in Entries
      /\ r.list[Len(s.list) + 1] = e
      /\ Len(s.list) \in Nat
  BY <1>1, <1>2
<1>4. InUse(r) = InUse(s) \cup {e.keys}
  BY <1>2, <1>3 DEF InUse
<1>5. Held(g, InUse(r))
  BY <1>4 DEF Good, Held
<1>6. e.keys \in Blocks /\ \A i \in DOMAIN s.list : s.list[i].keys \in Blocks
  BY <1>3 DEF Entries
<1>7. \A i \in DOMAIN s.list : s.list[i].keys = e.keys => e.keys \in Shared(s.template)
  BY <1>6 DEF Good, Held, InUse
<1>8. Apart(r)
  <2> SUFFICES ASSUME NEW i \in DOMAIN r.list, NEW j \in DOMAIN r.list,
                      r.list[i].keys = r.list[j].keys, i # j
               PROVE  r.list[i].keys \in Shared(r.template)
    BY DEF Apart
  <2>1. CASE i \in DOMAIN s.list /\ j \in DOMAIN s.list
    BY <2>1, <1>2, <1>3 DEF Good, Apart
  <2>2. CASE i \notin DOMAIN s.list \/ j \notin DOMAIN s.list
    BY <2>2, <1>2, <1>3, <1>7
  <2> QED BY <2>1, <2>2
<1>9. \A i \in DOMAIN s.list : s.list[i].keys = e.keys => s.list[i].ssrc # e.ssrc
  <2>1. CASE h[e.keys] = Unused
    BY <2>1, <1>6 DEF Good, Held, InUse
  <2>2. CASE ~ Found(s.list, e.ssrc)
    BY <2>2, <1>1, FoundWhen
  <2> QED BY <2>1, <2>2
<1>10. Single(r)
  <2> SUFFICES ASSUME NEW i \in DOMAIN r.list, NEW j \in DOMAIN r.list,
                      r.list[i].keys = r.list[j].keys, r.list[i].ssrc = r.list[j].ssrc
               PROVE  i = j
    BY DEF Single
  <2>1. CASE i \in DOMAIN s.list /\ j \in DOMAIN s.list
    BY <2>1, <1>3 DEF Good, Single
  <2>2. CASE i \in DOMAIN s.list /\ j \notin DOMAIN s.list
    <3>1. r.list[i] = s.list[i] /\ r.list[j] = e
      BY <2>2, <1>3
    <3> QED BY <3>1, <2>2, <1>9
  <2>3. CASE i \notin DOMAIN s.list /\ j \in DOMAIN s.list
    <3>1. r.list[j] = s.list[j] /\ r.list[i] = e
      BY <2>3, <1>3
    <3> QED BY <3>1, <2>3, <1>9
  <2>4. CASE i \notin DOMAIN s.list /\ j \notin DOMAIN s.list
    BY <2>4, <1>3
  <2> QED BY <2>1, <2>2, <2>3, <2>4
<1>11. Roomy(r)
  <2>1. Len(r.list) = Len(s.list) + 1 /\ Len(r.list) \in 0 .. MostStreams
    BY <1>1, <1>2, <1>8, <1>10, ListFits
  <2>2. s.cap \in Capacities /\ s.cap \in Nat /\ Len(s.list) <= s.cap
    BY CapacitiesFacts DEF Good, Roomy
  <2>3. CASE Len(s.list) = s.cap
    <3>1. s.cap < MostStreams
      BY <2>1, <2>3, <1>3, MostStreamsType
    <3>2. r.cap = 2 * s.cap /\ r.cap \in Capacities
      BY <3>1, <2>2, <2>3, <1>2, CapacitiesFacts
    <3>3. s.cap > 0
      BY <2>2, DoublingsFacts, MostStreamsType DEF Capacities
    <3> QED BY <2>1, <2>2, <2>3, <3>2, <3>3 DEF Roomy
  <2>4. CASE Len(s.list) # s.cap
    BY <2>1, <2>2, <2>4, <1>2, <1>3 DEF Roomy
  <2> QED BY <2>3, <2>4
<1> QED
  BY <1>2, <1>5, <1>8, <1>10, <1>11 DEF Good, r

LEMMA TemplateGood ==   \* a template where there is none
  ASSUME NEW s, NEW h, Good(s, h), s.template = None, NEW t \in Templates, NEW g \in Heaps,
         \A b \in Blocks : g[b] # Unused <=> h[b] # Unused \/ b = t.keys
  PROVE  Good([s EXCEPT !.template = t], g)
<1> DEFINE r == [s EXCEPT !.template = t]
<1>1. r \in Sessions(r.cap) /\ r.template = t /\ r.list = s.list /\ r.cap = s.cap
  BY DEF Good, Sessions
<1> HIDE DEF r
<1>2. InUse(r) = InUse(s) \cup {t.keys}
  BY <1>1, NotNone DEF InUse, Shared
<1>3. Apart(r)
  BY <1>1 DEF Good, Apart, Shared
<1>4. Single(r) /\ Roomy(r)
  BY <1>1 DEF Good, Single, Roomy
<1> QED
  BY <1>1, <1>2, <1>3, <1>4 DEF Good, Held, r

LEMMA ChangedGood ==    \* an entry changes, but for its keys and its SSRC
  ASSUME NEW s, NEW h, Good(s, h), NEW at \in DOMAIN s.list, NEW e \in Entries,
         e.keys = s.list[at].keys, e.ssrc = s.list[at].ssrc
  PROVE  Good([s EXCEPT !.list[at] = e], h)
<1> DEFINE r == [s EXCEPT !.list[at] = e]
<1>1. s \in Sessions(s.cap) /\ s.list \in Seq(Entries)
  BY DEF Good, Sessions
<1>2. r.list = [s.list EXCEPT ![at] = e] /\ r.template = s.template /\ r.cap = s.cap
  BY <1>1 DEF Sessions
<1>3. [s.list EXCEPT ![at] = e] \in Seq(Entries)
  BY <1>1
<1>4. r \in Sessions(r.cap)
  BY <1>1, <1>3 DEF Sessions
<1> HIDE DEF r
<1>5. /\ DOMAIN r.list = DOMAIN s.list /\ Len(r.list) = Len(s.list)
      /\ \A i \in DOMAIN s.list : r.list[i].keys = s.list[i].keys /\ r.list[i].ssrc = s.list[i].ssrc
  BY <1>1, <1>2
<1>6. InUse(r) = InUse(s)
  BY <1>2, <1>5 DEF InUse
<1>7. Apart(r)
  BY <1>2, <1>5 DEF Good, Apart
<1>8. Single(r) /\ Roomy(r)
  BY <1>2, <1>5 DEF Good, Single, Roomy
<1> QED
  BY <1>4, <1>6, <1>7, <1>8 DEF Good, r

LEMMA TurnedGood ==     \* the template changes, but for its keys
  ASSUME NEW s, NEW h, Good(s, h), s.template # None, NEW t \in Templates,
         t.keys = s.template.keys
  PROVE  Good([s EXCEPT !.template = t], h)
<1> DEFINE r == [s EXCEPT !.template = t]
<1>1. r \in Sessions(r.cap) /\ r.template = t /\ r.list = s.list /\ r.cap = s.cap
  BY DEF Good, Sessions
<1> HIDE DEF r
<1>2. Shared(r.template) = Shared(s.template)
  BY <1>1, NotNone DEF Shared
<1> QED
  BY <1>1, <1>2 DEF Good, Apart, Single, Roomy, InUse, r

LEMMA RemoveAtFacts ==
  ASSUME NEW S, NEW list \in Seq(S), NEW at \in DOMAIN list
  PROVE  /\ RemoveAt(list, at) \in Seq(S)
         /\ Len(RemoveAt(list, at)) = Len(list) - 1
         /\ \A i \in 1 .. Len(list) - 1 :
              RemoveAt(list, at)[i] = list[IF i < at THEN i ELSE i + 1]
<1> DEFINE before == SubSeq(list, 1, at - 1)
           after == SubSeq(list, at + 1, Len(list))
<1>1. at \in 1 .. Len(list) /\ Len(list) \in Nat
  OBVIOUS
<1>2. before \in Seq(S) /\ Len(before) = at - 1 /\ \A i \in 1 .. at - 1 : before[i] = list[i]
  BY <1>1
<1>3. /\ after \in Seq(S) /\ Len(after) = Len(list) - at
      /\ \A i \in 1 .. Len(list) - at : after[i] = list[at + i]
  BY <1>1
<1> HIDE DEF before, after
<1>4. RemoveAt(list, at) = before \o after
  BY DEF RemoveAt, before, after
<1> DEFINE joined == before \o after
<1>5. /\ joined \in Seq(S) /\ Len(joined) = Len(before) + Len(after)
      /\ \A i \in 1 .. Len(before) + Len(after) :
           joined[i] = IF i <= Len(before) THEN before[i] ELSE after[i - Len(before)]
  BY <1>2, <1>3, ConcatProperties
<1> HIDE DEF joined
<1>6. Len(before) + Len(after) = Len(list) - 1
  BY <1>1, <1>2, <1>3
<1>7. ASSUME NEW i \in 1 .. Len(list) - 1
      PROVE  joined[i] = list[IF i < at THEN i ELSE i + 1]
  <2>1. i \in 1 .. Len(before) + Len(after)
    BY <1>6
  <2>2. CASE i < at
    <3>1. i \in 1 .. at - 1 /\ i <= Len(before)
      BY <1>1, <1>2, <2>2
    <3> QED BY <1>2, <1>5, <2>1, <2>2, <3>1
  <2>3. CASE ~ (i < at)
    <3>1. i - (at - 1) \in 1 .. Len(list) - at /\ ~ (i <= Len(before))
      BY <1>1, <1>2, <2>3
    <3>2. joined[i] = after[i - (at - 1)]
      BY <1>2, <1>5, <2>1, <3>1
    <3>3. after[i - (at - 1)] = list[at + (i - (at - 1))] /\ at + (i - (at - 1)) = i + 1
      BY <1>1, <1>3, <3>1
    <3> QED BY <2>3, <3>2, <3>3
  <2> QED BY <2>2, <2>3
<1>8. RemoveAt(list, at) = joined
  BY <1>4 DEF joined
<1> QED
  BY <1>5, <1>6, <1>7, <1>8

\* The entries of r.list are those of s.list at the places of keep, in that
\* order; the keys of the others are freed if they own them.
LEMMA FewerGood ==
  ASSUME NEW s, NEW h, Good(s, h), NEW r, r \in Sessions(r.cap), r.template = s.template,
         r.cap = s.cap, Len(r.list) <= Len(s.list),
         NEW gone \in SUBSET (DOMAIN s.list), NEW f \in [DOMAIN r.list -> (DOMAIN s.list) \ gone],
         \A i \in DOMAIN r.list : r.list[i] = s.list[f[i]],
         \A i, j \in DOMAIN r.list : f[i] = f[j] => i = j,
         \A k \in (DOMAIN s.list) \ gone : \E i \in DOMAIN r.list : f[i] = k
  PROVE  Good(r, Freed(h, Own({s.list[i] : i \in gone}, s.template)))
<1> DEFINE streams == {s.list[i] : i \in gone}
           own == Own(streams, s.template)
           g == Freed(h, own)
<1>1. own = {s.list[i].keys : i \in gone} \ Shared(s.template)
  <2>1. {x.keys : x \in streams} = {s.list[i].keys : i \in gone}
    OBVIOUS
  <2> QED BY <2>1 DEF Own, Shared
<1> HIDE DEF own
<1>2. g \in Heaps /\ \A c \in Blocks : g[c] # Unused <=> h[c] # Unused /\ c \notin own
  BY FreedFacts DEF Good
<1> HIDE DEF g, streams
<1>3. InUse(r) = InUse(s) \ own
  <2>1. {r.list[i].keys : i \in DOMAIN r.list} = {s.list[k].keys : k \in (DOMAIN s.list) \ gone}
    OBVIOUS
  <2>2. ASSUME NEW k \in (DOMAIN s.list) \ gone, s.list[k].keys \in own
        PROVE  FALSE
    <3>1. PICK i \in gone : s.list[k].keys = s.list[i].keys
      BY <1>1, <2>2
    <3>2. i # k /\ s.list[k].keys \notin Shared(s.template)
      BY <1>1, <2>2
    <3>3. Apart(s)
      BY DEF Good
    <3> QED BY <3>1, <3>2, <3>3 DEF Apart
  <2> QED BY <2>1, <2>2, <1>1 DEF InUse
<1>4. Apart(r)
  <2> SUFFICES ASSUME NEW i \in DOMAIN r.list, NEW j \in DOMAIN r.list,
                      r.list[i].keys = r.list[j].keys, i # j
               PROVE  r.list[i].keys \in Shared(r.template)
    BY DEF Apart
  <2>1. f[i] \in DOMAIN s.list /\ f[j] \in DOMAIN s.list /\ f[i] # f[j]
    OBVIOUS
  <2> QED BY <2>1 DEF Good, Apart
<1>5. Single(r)
  <2> SUFFICES ASSUME NEW i \in DOMAIN r.list, NEW j \in DOMAIN r.list,
                      r.list[i].keys = r.list[j].keys, r.list[i].ssrc = r.list[j].ssrc
               PROVE  i = j
    BY DEF Single
  <2>1. f[i] \in DOMAIN s.list /\ f[j] \in DOMAIN s.list
    OBVIOUS
  <2>2. f[i] = f[j]
    BY <2>1 DEF Good, Single
  <2> QED BY <2>2
<1>6. Roomy(r)
  <2>1. s.cap \in Nat /\ Len(s.list) \in Nat /\ Len(r.list) \in Nat
    BY CapacitiesFacts DEF Good, Roomy, Sessions
  <2> QED BY <2>1 DEF Good, Roomy
<1> QED
  BY <1>2, <1>3, <1>4, <1>5, <1>6 DEF Good, Held, g, own, streams

LEMMA RemovedGood ==
  ASSUME NEW st, Good(st.session, st.heap), NEW ssrc, Found(st.session.list, ssrc),
         st \in [session : {st.session}, heap : {st.heap}, ok : {TRUE}]
  PROVE  /\ Good(Removed(st, ssrc).session, Removed(st, ssrc).heap)
         /\ Removed(st, ssrc) \in [session : {Removed(st, ssrc).session},
                                   heap : {Removed(st, ssrc).heap}, ok : {TRUE}]
         /\ Room(st.heap) \subseteq Room(Removed(st, ssrc).heap)
<1> DEFINE s == st.session
           at == Position(s.list, ssrc)
           list == RemoveAt(s.list, at)
           r == [s EXCEPT !.list = list]
           own == Own({s.list[at]}, s.template)
           g == Freed(st.heap, own)
<1>1. s \in Sessions(s.cap) /\ s.list \in Seq(Entries) /\ st.heap \in Heaps
  BY DEF Good, Sessions
<1>2. at \in DOMAIN s.list
  BY <1>1, PositionFacts
<1>3. /\ list \in Seq(Entries) /\ Len(list) = Len(s.list) - 1 /\ Len(s.list) \in Nat
      /\ \A i \in 1 .. Len(s.list) - 1 : list[i] = s.list[IF i < at THEN i ELSE i + 1]
  <2>1. at \in DOMAIN s.list /\ s.list \in Seq(Entries)
    BY <1>1, <1>2
  <2> HIDE DEF at, s
  <2>2. /\ RemoveAt(s.list, at) \in Seq(Entries)
        /\ Len(RemoveAt(s.list, at)) = Len(s.list) - 1
        /\ \A i \in 1 .. Len(s.list) - 1 :
             RemoveAt(s.list, at)[i] = s.list[IF i < at THEN i ELSE i + 1]
    BY <2>1, RemoveAtFacts
  <2>3. Len(s.list) \in Nat
    BY <2>1
  <2> QED BY <2>2, <2>3
<1>4. Removed(st, ssrc) = [st EXCEPT !.session = r, !.heap = g]
  BY DEF Removed
<1> HIDE DEF at, list
<1>5. r \in Sessions(r.cap) /\ r.template = s.template /\ r.list = list /\ r.cap = s.cap
  BY <1>1, <1>3 DEF Sessions
<1> HIDE DEF r
<1>6. Good(r, g)
  <2> DEFINE f == [i \in DOMAIN r.list |-> IF i < at THEN i ELSE i + 1]
  <2>1. DOMAIN s.list = 1 .. Len(s.list) /\ DOMAIN r.list = 1 .. Len(s.list) - 1
    BY <1>1, <1>3, <1>5
  <2>2. f \in [DOMAIN r.list -> (DOMAIN s.list) \ {at}]
    BY <2>1, <1>2, <1>3
  <2>3. \A i \in DOMAIN r.list : r.list[i] = s.list[f[i]]
    BY <2>1, <1>3, <1>5
  <2>4. \A i, j \in DOMAIN r.list : f[i] = f[j] => i = j
    BY <2>1, <1>2, <1>3
  <2>5. ASSUME NEW k \in (DOMAIN s.list) \ {at}
        PROVE  \E i \in DOMAIN r.list : f[i] = k
    <3>1. CASE k < at
      BY <3>1, <2>1, <1>2, <1>3
    <3>2. CASE k > at
      <4>1. k - 1 \in DOMAIN r.list /\ f[k - 1] = k
        BY <3>2, <2>1, <1>2, <1>3
      <4> QED BY <4>1
    <3> QED BY <3>1, <3>2, <2>1, <1>2
  <2> HIDE DEF f
  <2> DEFINE gone == {at}
  <2>8. gone \in SUBSET DOMAIN s.list /\ Good(s, st.heap)
    BY <1>2
  <2>7. {s.list[i] : i \in gone} = {s.list[at]}
    OBVIOUS
  <2>9. f \in [DOMAIN r.list -> (DOMAIN s.list) \ gone]
    BY <2>2
  <2>10. \A k \in (DOMAIN s.list) \ gone : \E i \in DOMAIN r.list : f[i] = k
    BY <2>5
  <2>11. Len(r.list) <= Len(s.list)
    BY <1>3, <1>5
  <2> HIDE DEF gone, s
  <2>6. Good(r, Freed(st.heap, Own({s.list[i] : i \in gone}, s.template)))
    BY <1>5, <2>3, <2>4, <2>8, <2>9, <2>10, <2>11, FewerGood
  <2> QED BY <2>6, <2>7
<1>7. Room(st.heap) \subseteq Room(g)
  BY <1>1 DEF Room, Freed, Heaps
<1> HIDE DEF g, s
<1> QED
  BY <1>4, <1>6, <1>7

LEMMA RestGood ==       \* GivesUpAt: the rest of the list stays
  ASSUME NEW s, NEW h, Good(s, h), NEW n \in DOMAIN s.list
  PROVE  Good([s EXCEPT !.list = SubSeq(s.list, n + 1, Len(s.list))],
              Freed(h, Own(ToSet(SubSeq(s.list, 1, n)), s.template)))
<1> DEFINE list == SubSeq(s.list, n + 1, Len(s.list))
           r == [s EXCEPT !.list = list]
           first == SubSeq(s.list, 1, n)
<1>1. s \in Sessions(s.cap) /\ s.list \in Seq(Entries)
  BY DEF Good, Sessions
<1>2. Len(s.list) \in Nat /\ DOMAIN s.list = 1 .. Len(s.list) /\ n \in 1 .. Len(s.list)
  BY <1>1
<1>3. /\ list \in Seq(Entries) /\ DOMAIN list = 1 .. Len(s.list) - n
      /\ \A i \in 1 .. Len(s.list) - n : list[i] = s.list[n + i]
  BY <1>1, <1>2
<1>4. DOMAIN first = 1 .. n /\ \A i \in 1 .. n : first[i] = s.list[i]
  BY <1>1, <1>2
<1> HIDE DEF list, first
<1>5. r \in Sessions(r.cap) /\ r.template = s.template /\ r.list = list /\ r.cap = s.cap
  BY <1>1, <1>3 DEF Sessions
<1> HIDE DEF r
<1>6. ToSet(first) = {s.list[i] : i \in 1 .. n}
  BY <1>4 DEF ToSet
<1> DEFINE f == [i \in DOMAIN r.list |-> n + i]
<1>7. f \in [DOMAIN r.list -> (DOMAIN s.list) \ (1 .. n)]
  BY <1>2, <1>3, <1>5
<1>8. \A i \in DOMAIN r.list : r.list[i] = s.list[f[i]]
  BY <1>3, <1>5
<1>9. \A i, j \in DOMAIN r.list : f[i] = f[j] => i = j
  BY <1>2, <1>3, <1>5
<1>10. ASSUME NEW k \in (DOMAIN s.list) \ (1 .. n)
       PROVE  \E i \in DOMAIN r.list : f[i] = k
  <2>1. k - n \in DOMAIN r.list /\ f[k - n] = k
    BY <1>2, <1>3, <1>5
  <2> QED BY <2>1
<1>11. (1 .. n) \in SUBSET DOMAIN s.list
  BY <1>2
<1> HIDE DEF f
<1>12. Len(r.list) <= Len(s.list)
  BY <1>2, <1>3, <1>5
<1>13. Good(r, Freed(h, Own({s.list[i] : i \in 1 .. n}, s.template)))
  BY <1>5, <1>7, <1>8, <1>9, <1>10, <1>11, <1>12, FewerGood
<1> QED
  BY <1>6, <1>13 DEF r, list, first

\* Own streams stay, the others are made anew from a new template.
\* The entries of more are those of list, with new keys where these were old.
HasNewKeys(list, more, old, new) ==
  /\ DOMAIN more = DOMAIN list
  /\ \A i \in DOMAIN list :
       /\ more[i].keys = IF list[i].keys # old THEN list[i].keys ELSE new
       /\ more[i].ssrc = list[i].ssrc

LEMMA RenewedGood ==
  ASSUME NEW s, NEW h, Good(s, h), s.template # None, NEW t \in Templates,
         NEW r, r \in Sessions(r.cap), r.template = t,
         HasNewKeys(s.list, r.list, s.template.keys, t.keys),
         r.cap = CapacityFor(Len(s.list)),
         NEW g \in Heaps, h[t.keys] = Unused,
         \A b \in Blocks : g[b] # Unused <=> h[b] # Unused \/ b = t.keys
  PROVE  Good(r, Freed(g, {s.template.keys}))
<1>0. /\ DOMAIN r.list = DOMAIN s.list
      /\ \A i \in DOMAIN s.list :
           /\ r.list[i].keys = IF s.list[i].keys # s.template.keys THEN s.list[i].keys ELSE t.keys
           /\ r.list[i].ssrc = s.list[i].ssrc
  BY DEF HasNewKeys
<1>1. s \in Sessions(s.cap) /\ s.list \in Seq(Entries) /\ s.template \in Templates
  BY DEF Good, Sessions
<1>2. /\ \A i \in DOMAIN s.list : s.list[i].keys \in Blocks
      /\ s.template.keys \in Blocks /\ t.keys \in Blocks
  BY <1>1 DEF Entries, Templates
<1>3. Shared(s.template) = {s.template.keys} /\ Shared(t) = {t.keys}
  BY NotNone DEF Shared
<1>4. t.keys # s.template.keys /\ \A i \in DOMAIN s.list : s.list[i].keys # t.keys
  BY <1>2, <1>3 DEF Good, Held, InUse
<1>5. /\ Freed(g, {s.template.keys}) \in Heaps
      /\ \A c \in Blocks : Freed(g, {s.template.keys})[c] # Unused
                             <=> g[c] # Unused /\ c \notin {s.template.keys}
  BY FreedFacts
<1>6. InUse(r) = (InUse(s) \ {s.template.keys}) \cup {t.keys}
  BY <1>0, <1>3, <1>4 DEF InUse
<1>7. Apart(r)
  BY <1>0, <1>3, <1>4 DEF Good, Apart
<1>8. Single(r)
  BY <1>0, <1>4 DEF Good, Single
<1>9. Roomy(r)
  <2>1. r.list \in Seq(Entries)
    BY DEF Sessions
  <2>2. Len(r.list) = Len(s.list)
    BY <1>0, <1>1, <2>1
  <2>3. Len(s.list) \in 0 .. MostStreams
    BY <1>1, ListFits DEF Good
  <2> QED BY <2>2, <2>3, CapacityForFacts DEF Roomy
<1> QED
  BY <1>2, <1>4, <1>5, <1>6, <1>7, <1>8, <1>9 DEF Good, Held

Whole(st) == st \in [session : {st.session}, heap : {st.heap}, ok : BOOLEAN]

StateGood(st) == Whole(st) /\ Good(st.session, st.heap)

LEMMA AddGood ==
  ASSUME NEW st, Whole(st), NEW policy \in Policies, NEW luck, Room(st.heap) # {},
         Good(st.session, st.heap)
  PROVE  /\ StateGood(srtp_stream_add(st, policy, luck))
         /\ Room(st.heap) \ {Lowest(Room(st.heap))}
              \subseteq Room(srtp_stream_add(st, policy, luck).heap)
         /\ srtp_stream_add(st, policy, luck).ok /\ policy.ssrc \notin Wildcards =>
              Found(srtp_stream_add(st, policy, luck).session.list, policy.ssrc)
<1> DEFINE b == Lowest(Room(st.heap))
           g == Allocated(st.heap, policy.master)
           new == NewStream(policy.ssrc, b, "unknown")
           dir == IF policy.ssrc = "any_outbound" THEN "sender" ELSE "receiver"
           t == [new EXCEPT !.dir = dir]
           to == [st EXCEPT !.heap = g]
           r == srtp_stream_add(st, policy, luck)
<1>1. st.heap \in Heaps /\ b \in Blocks /\ st.heap[b] = Unused /\ policy.master \in Masters
  BY LowestFacts DEF Good, Policies
<1>2. /\ g \in Heaps
      /\ \A c \in Blocks : g[c] # Unused <=> st.heap[c] # Unused \/ c = b
  BY <1>1, AllocatedFacts
<1>3. Room(st.heap) \ {b} \subseteq Room(g)
  BY <1>2 DEF Room
<1>4. \/ r = [st EXCEPT !.ok = FALSE]
      \/ policy.ssrc \in Wildcards /\ st.session.template = None
           /\ r = [to EXCEPT !.session.template = t]
      \/ policy.ssrc \notin Wildcards /\ r = [to EXCEPT !.session = Inserted(@, new)]
  BY DEF srtp_stream_add, Refused
<1>5. CASE r = [st EXCEPT !.ok = FALSE]
  <2> HIDE DEF r
  <2>1. r.session = st.session /\ r.heap = st.heap /\ Whole(r) /\ ~ r.ok
    BY <1>5 DEF Whole
  <2> QED BY <2>1, <1>1 DEF StateGood, r
<1>6. CASE policy.ssrc \in Wildcards /\ st.session.template = None
             /\ r = [to EXCEPT !.session.template = t]
  <2>1. t \in Templates /\ t.keys = b
    BY <1>6, <1>1, ZeroIndex DEF NewStream, Templates, Directions
  <2> HIDE DEF r, g, t
  <2>2. r.session = [st.session EXCEPT !.template = t] /\ r.heap = g /\ Whole(r)
    BY <1>6 DEF Whole
  <2>3. Good([st.session EXCEPT !.template = t], g)
    BY <1>2, <1>6, <2>1, TemplateGood
  <2> QED BY <2>2, <2>3, <1>3, <1>6 DEF StateGood, r
<1>7. CASE policy.ssrc \notin Wildcards /\ r = [to EXCEPT !.session = Inserted(@, new)]
  <2>1. policy.ssrc \in Ssrcs
    BY <1>7 DEF Policies
  <2>2. new \in Entries /\ new.keys = b
    BY <2>1, <1>1, ZeroIndex DEF NewStream, Entries, Directions
  <2> HIDE DEF r, g, new
  <2>3. r.session = Inserted(st.session, new) /\ r.heap = g /\ Whole(r)
    BY <1>7 DEF Whole
  <2>4. Good(Inserted(st.session, new), g)
    BY <1>1, <1>2, <2>2, InsertedGood
  <2>5. st.session \in Sessions(st.session.cap) /\ st.session.list \in Seq(Entries)
    BY DEF Good, Sessions
  <2>6. r.session.list = Append(st.session.list, new)
    BY <2>2, <2>3, <2>5, InsertedFacts
  <2>7. new.ssrc = policy.ssrc
    BY DEF new, NewStream
  <2>8. Found(r.session.list, policy.ssrc)
    <3>1. r.session.list \in Seq(Entries)
      BY <2>2, <2>5, <2>6
    <3>2. /\ Len(st.session.list) + 1 \in DOMAIN r.session.list
          /\ r.session.list[Len(st.session.list) + 1] = new
      BY <2>2, <2>5, <2>6
    <3> QED BY <3>1, <3>2, <2>7, FoundWhen
  <2> QED BY <2>3, <2>4, <2>8, <1>3 DEF StateGood, r
<1> QED
  BY <1>4, <1>5, <1>6, <1>7

LEMMA AddList ==
  ASSUME NEW st, Whole(st), NEW policy \in Policies, NEW luck, Room(st.heap) # {},
         Good(st.session, st.heap)
  PROVE  LET new == NewStream(policy.ssrc, Lowest(Room(st.heap)), "unknown")
             r == srtp_stream_add(st, policy, luck)
         IN  /\ policy.ssrc \notin Wildcards => new \in Entries
             /\ \/ r.session.list = st.session.list
                \/ policy.ssrc \notin Wildcards /\ r.session.list = Append(st.session.list, new)
             /\ policy.ssrc \notin Wildcards /\ st.ok /\ kernel.secure /\ luck = "none" =>
                  /\ r.ok
                  /\ r.session = Inserted(st.session, new)
                  /\ r.session.list = Append(st.session.list, new)
                  /\ r.heap = Allocated(st.heap, policy.master)
<1> DEFINE b == Lowest(Room(st.heap))
           g == Allocated(st.heap, policy.master)
           new == NewStream(policy.ssrc, b, "unknown")
           dir == IF policy.ssrc = "any_outbound" THEN "sender" ELSE "receiver"
           t == [new EXCEPT !.dir = dir]
           to == [st EXCEPT !.heap = g]
           r == srtp_stream_add(st, policy, luck)
<1>1. b \in Blocks /\ st.session \in Sessions(st.session.cap)
  BY LowestFacts DEF Good
<1>2. policy.ssrc \notin Wildcards => new \in Entries
  BY <1>1, ZeroIndex DEF Policies, NewStream, Entries, Directions
<1>3. \/ r = [st EXCEPT !.ok = FALSE]
      \/ r = [to EXCEPT !.session.template = t]
      \/ policy.ssrc \notin Wildcards /\ r = [to EXCEPT !.session = Inserted(@, new)]
  BY DEF srtp_stream_add, Refused
<1>4. policy.ssrc \notin Wildcards /\ st.ok /\ kernel.secure /\ luck = "none" =>
        r = [to EXCEPT !.session = Inserted(@, new)]
  BY DEF srtp_stream_add
<1> HIDE DEF r, g, new, t
<1>5. policy.ssrc \notin Wildcards =>
        Inserted(st.session, new).list = Append(st.session.list, new)
  BY <1>1, <1>2, InsertedFacts
<1>6. r = [st EXCEPT !.ok = FALSE] => r.session = st.session
  BY DEF Whole
<1>7. r = [to EXCEPT !.session.template = t] => r.session.list = st.session.list
  BY <1>1 DEF Whole, Sessions
<1>8. r = [to EXCEPT !.session = Inserted(@, new)] =>
        r.session = Inserted(st.session, new) /\ r.heap = g /\ r.ok = st.ok
  BY DEF Whole
<1> QED
  BY <1>2, <1>3, <1>4, <1>5, <1>6, <1>7, <1>8 DEF r, g, new

LEMMA StateNow ==
  SessionInv /\ session # None =>
    /\ StateGood(State) /\ State.session = session /\ State.heap = heap /\ State.ok
    /\ State \in [session : {State.session}, heap : {State.heap}, ok : {TRUE}]
  BY DEF SessionInv, StateGood, State, Whole

LEMMA GoodLater ==
  ASSUME NEW s, NEW h, Good(s, h), session' = s, heap' = h
  PROVE  SessionInv'
<1>1. session' = s /\ heap' = h /\ Good(s, h)
  OBVIOUS
<1>2. session' # None /\ heap' \in Heaps
  BY <1>1, NotNone DEF Good
<1>3. Good(session', heap') <=> Good(session, heap)'
  BY DEF Good, Held, Leakless, Heaps, Sessions, InUse, Apart, Shared, Templates, Entries,
         Directions, None, Unused, Wildcards, Single, Roomy, Capacities, Doublings, MostStreams
<1> QED
  BY <1>1, <1>2, <1>3 DEF SessionInv, Heaps, Unused

LEMMA BecomesGood ==
  ASSUME NEW st, StateGood(st), Becomes(st)
  PROVE  SessionInv'
<1> DEFINE s == st.session
           h == st.heap
<1>1. Good(s, h) /\ session' = s /\ heap' = h
  BY DEF Becomes, StateGood
<1> HIDE DEF s, h
<1> QED
  BY <1>1, GoodLater

LEMMA SameGood ==
  ASSUME SessionInv, UNCHANGED <<session, heap>>
  PROVE  SessionInv'
<1>1. session' = session /\ heap' = heap
  OBVIOUS
<1>2. CASE session = None
  BY <1>1, <1>2 DEF SessionInv, Held, Leakless, Heaps, Unused, None
<1>3. CASE session # None
  BY <1>1, <1>3, GoodLater DEF SessionInv
<1> QED
  BY <1>2, <1>3

-----------------------------------------------------------------------------

\* Each SSRC has one stream, unless the application gives it two policies.
Distinct(list) == \A i, j \in DOMAIN list : list[i].ssrc = list[j].ssrc => i = j

OneEach == session # None => Distinct(session.list)

LEMMA DistinctFound ==
  ASSUME NEW list \in Seq(Entries), Distinct(list), NEW i \in DOMAIN list
  PROVE  Found(list, list[i].ssrc) /\ Position(list, list[i].ssrc) = i
<1>1. Found(list, list[i].ssrc)
  BY FoundWhen
<1>2. /\ Position(list, list[i].ssrc) \in DOMAIN list
      /\ list[Position(list, list[i].ssrc)].ssrc = list[i].ssrc
  BY <1>1, PositionFacts
<1> QED
  BY <1>1, <1>2 DEF Distinct

LEMMA AppendDistinct ==
  ASSUME NEW list \in Seq(Entries), Distinct(list), NEW e \in Entries, ~ Found(list, e.ssrc)
  PROVE  Distinct(Append(list, e))
<1> DEFINE more == Append(list, e)
<1>1. /\ DOMAIN more = 1 .. Len(list) + 1 /\ Len(list) \in Nat /\ DOMAIN list = 1 .. Len(list)
      /\ \A i \in 1 .. Len(list) : more[i] = list[i]
      /\ more[Len(list) + 1] = e
  OBVIOUS
<1>2. \A i \in DOMAIN list : list[i].ssrc # e.ssrc
  BY FoundWhen
<1> HIDE DEF more
<1>3. Distinct(more)
  BY <1>1, <1>2 DEF Distinct
<1> QED
  BY <1>3 DEF more

LEMMA RemoveDistinct ==
  ASSUME NEW list \in Seq(Entries), Distinct(list), NEW at \in DOMAIN list
  PROVE  Distinct(RemoveAt(list, at)) /\ ~ Found(RemoveAt(list, at), list[at].ssrc)
<1> DEFINE less == RemoveAt(list, at)
<1>1. /\ less \in Seq(Entries) /\ Len(less) = Len(list) - 1
      /\ \A i \in 1 .. Len(list) - 1 : less[i] = list[IF i < at THEN i ELSE i + 1]
  BY RemoveAtFacts
<1>2. Len(list) \in Nat /\ DOMAIN list = 1 .. Len(list) /\ at \in 1 .. Len(list)
  OBVIOUS
<1> HIDE DEF less
<1>3. DOMAIN less = 1 .. Len(list) - 1
  BY <1>1, <1>2
<1>4. Distinct(less)
  <2> SUFFICES ASSUME NEW i \in DOMAIN less, NEW j \in DOMAIN less, less[i].ssrc = less[j].ssrc
               PROVE  i = j
    BY DEF Distinct
  <2> DEFINE f(k) == IF k < at THEN k ELSE k + 1
  <2>1. /\ f(i) \in DOMAIN list /\ f(j) \in DOMAIN list
        /\ less[i] = list[f(i)] /\ less[j] = list[f(j)]
    BY <1>1, <1>2, <1>3
  <2>2. f(i) = f(j)
    BY <2>1 DEF Distinct
  <2> QED BY <2>2, <1>2, <1>3
<1>5. \A i \in DOMAIN less : less[i].ssrc # list[at].ssrc
  <2> SUFFICES ASSUME NEW i \in DOMAIN less, less[i].ssrc = list[at].ssrc
               PROVE  FALSE
    OBVIOUS
  <2> DEFINE k == IF i < at THEN i ELSE i + 1
  <2>1. k \in DOMAIN list /\ less[i] = list[k] /\ k # at
    BY <1>1, <1>2, <1>3
  <2> QED BY <2>1 DEF Distinct
<1>6. ~ Found(less, list[at].ssrc)
  BY <1>1, <1>5, FoundWhen
<1> QED
  BY <1>4, <1>6 DEF less

\* srtp_stream_add to a list that has no stream of that SSRC.
LEMMA AddedDistinct ==
  ASSUME NEW st, StateGood(st), NEW policy \in Policies, NEW luck, Room(st.heap) # {},
         Distinct(st.session.list), ~ Found(st.session.list, policy.ssrc)
  PROVE  /\ Distinct(srtp_stream_add(st, policy, luck).session.list)
         /\ \A ssrc : Found(srtp_stream_add(st, policy, luck).session.list, ssrc) =>
                        Found(st.session.list, ssrc) \/ ssrc = policy.ssrc
<1> DEFINE new == NewStream(policy.ssrc, Lowest(Room(st.heap)), "unknown")
           r == srtp_stream_add(st, policy, luck)
           list == st.session.list
<1>1. /\ policy.ssrc \notin Wildcards => new \in Entries
      /\ \/ r.session.list = list
         \/ policy.ssrc \notin Wildcards /\ r.session.list = Append(list, new)
  BY AddList DEF StateGood
<1>2. new.ssrc = policy.ssrc
  BY DEF NewStream
<1>3. list \in Seq(Entries)
  BY DEF StateGood, Good, Sessions
<1> HIDE DEF r, new
<1>4. CASE r.session.list = list
  BY <1>4 DEF r
<1>5. CASE policy.ssrc \notin Wildcards /\ r.session.list = Append(list, new)
  <2> HIDE DEF list
  <2>1. Distinct(Append(list, new)) /\ Append(list, new) \in Seq(Entries)
    BY <1>1, <1>2, <1>3, <1>5, AppendDistinct DEF list
  <2>2. ASSUME NEW ssrc, Found(Append(list, new), ssrc)
        PROVE  Found(list, ssrc) \/ ssrc = policy.ssrc
    <3>1. PICK i \in DOMAIN Append(list, new) : Append(list, new)[i].ssrc = ssrc
      BY <2>1, <2>2, FoundWhen
    <3>2. CASE i \in DOMAIN list
      <4>1. list[i].ssrc = ssrc
        BY <1>3, <3>1, <3>2
      <4> QED BY <1>3, <3>2, <4>1, FoundWhen
    <3>3. CASE i \notin DOMAIN list
      <4>1. Append(list, new)[i] = new
        BY <1>3, <3>1, <3>3
      <4> QED BY <3>1, <4>1, <1>2
    <3> QED BY <3>2, <3>3
  <2> QED BY <1>5, <2>1, <2>2 DEF r, list
<1> QED
  BY <1>1, <1>4, <1>5

\* A step that changes entries, but for their SSRCs, or drops some of them.
LEMMA DistinctStays ==
  ASSUME NEW s, NEW list, Distinct(list), NEW f \in [DOMAIN s -> DOMAIN list],
         \A i, j \in DOMAIN s : f[i] = f[j] => i = j,
         \A i \in DOMAIN s : s[i].ssrc = list[f[i]].ssrc
  PROVE  Distinct(s)
  BY DEF Distinct

LEMMA DistinctChanged ==
  ASSUME NEW s, NEW list, Distinct(list), DOMAIN s = DOMAIN list,
         \A i \in DOMAIN s : s[i].ssrc = list[i].ssrc
  PROVE  Distinct(s)
  BY DEF Distinct

LEMMA OneLater ==
  ASSUME NEW list, Distinct(list), session'.list = list
  PROVE  OneEach'
  BY DEF OneEach, Distinct, None

LEMMA OneSame ==
  ASSUME OneEach, UNCHANGED session
  PROVE  OneEach'
  BY DEF OneEach, Distinct, None

LEMMA RemovedList ==
  ASSUME NEW st, Whole(st), Good(st.session, st.heap), NEW ssrc, Found(st.session.list, ssrc),
         Distinct(st.session.list)
  PROVE  LET at == Position(st.session.list, ssrc)
             list == RemoveAt(st.session.list, at)
         IN  /\ at \in DOMAIN st.session.list /\ st.session.list[at].ssrc = ssrc
             /\ Removed(st, ssrc).session.list = list
             /\ list \in Seq(Entries) /\ Distinct(list) /\ ~ Found(list, ssrc)
<1> DEFINE at == Position(st.session.list, ssrc)
           list == RemoveAt(st.session.list, at)
<1>1. st.session \in Sessions(st.session.cap) /\ st.session.list \in Seq(Entries)
  BY DEF Good, Sessions
<1>2. at \in DOMAIN st.session.list /\ st.session.list[at].ssrc = ssrc
  BY <1>1, PositionFacts
<1>3. Removed(st, ssrc).session.list = list
  BY <1>1 DEF Removed, Whole, Sessions
<1> HIDE DEF at
<1>4. list \in Seq(Entries)
  BY <1>1, <1>2, RemoveAtFacts
<1>5. Distinct(list) /\ ~ Found(list, ssrc)
  BY <1>1, <1>2, RemoveDistinct
<1> HIDE DEF list
<1> QED
  BY <1>2, <1>3, <1>4, <1>5 DEF at, list

\* What every step keeps.
Kept == SessionInv' /\ (OneEach => OneEach')

\* A step that changes an entry of a state, but for its keys and its SSRC.
LEMMA EntryStep ==
  ASSUME NEW st, StateGood(st), OneEach => Distinct(st.session.list),
         NEW at \in DOMAIN st.session.list, NEW e \in Entries,
         e.keys = st.session.list[at].keys, e.ssrc = st.session.list[at].ssrc,
         Becomes([st EXCEPT !.session.list[at] = e])
  PROVE  Kept
<1> DEFINE s == [st.session EXCEPT !.list[at] = e]
           h == st.heap
           list == [st.session.list EXCEPT ![at] = e]
<1>1. session' = s /\ heap' = h
  BY DEF Becomes, StateGood, Whole
<1>2. Good(s, h)
  BY ChangedGood DEF StateGood
<1>3. s.list = list
  BY DEF StateGood, Good, Sessions
<1> HIDE DEF s, h
<1>4. SessionInv'
  BY <1>1, <1>2, GoodLater
<1>5. /\ DOMAIN list = DOMAIN st.session.list
      /\ \A i \in DOMAIN st.session.list : list[i].ssrc = st.session.list[i].ssrc
  OBVIOUS
<1> HIDE DEF list
<1>6. OneEach => Distinct(list)
  BY <1>5, DistinctChanged
<1>7. session'.list = list
  BY <1>1, <1>3
<1> QED
  BY <1>4, <1>6, <1>7, OneLater DEF Kept

LEMMA StateStep ==
  ASSUME NEW st, StateGood(st), OneEach => Distinct(st.session.list), Becomes(st)
  PROVE  Kept
<1> DEFINE list == st.session.list
<1>1. session'.list = list /\ (OneEach => Distinct(list))
  BY DEF Becomes
<1> HIDE DEF list
<1>2. OneEach => OneEach'
  BY <1>1, OneLater
<1> QED
  BY <1>2, BecomesGood DEF Kept

LEMMA SameStep ==
  ASSUME SessionInv, UNCHANGED <<session, heap>>
  PROVE  Kept
  BY SameGood, OneSame DEF Kept

-----------------------------------------------------------------------------
\* The calls of the application.

LEMMA AddStreamInv ==
  ASSUME SessionInv, NEW policy \in Policies, AddStream(policy)
  PROVE  SessionInv'
<1>1. PICK luck \in Luck : Becomes(srtp_stream_add(State, policy, luck))
  BY DEF AddStream
<1>2. StateGood(State) /\ State.heap = heap /\ Room(heap) # {}
  BY StateNow, FitsOne DEF AddStream
<1>3. StateGood(srtp_stream_add(State, policy, luck))
  BY <1>2, AddGood DEF StateGood
<1> QED
  BY <1>1, <1>3, BecomesGood

LEMMA AddStreamOne ==
  ASSUME SessionInv, OneEach, ~ AddTwice, NEW policy \in Policies, AddStream(policy)
  PROVE  OneEach'
<1>1. PICK luck \in Luck : Becomes(srtp_stream_add(State, policy, luck))
  BY DEF AddStream
<1>2. /\ Whole(State) /\ Good(State.session, State.heap)
      /\ State.session = session /\ State.heap = heap /\ Room(heap) # {}
  BY StateNow, FitsOne DEF AddStream, StateGood
<1>3. /\ session.list \in Seq(Entries) /\ Distinct(session.list) /\ ~ Found(session.list, policy.ssrc)
  BY <1>2 DEF Good, Sessions, OneEach, AddStream
<1> DEFINE new == NewStream(policy.ssrc, Lowest(Room(heap)), "unknown")
           r == srtp_stream_add(State, policy, luck)
<1>4. /\ policy.ssrc \notin Wildcards => new \in Entries
      /\ \/ r.session.list = session.list
         \/ policy.ssrc \notin Wildcards /\ r.session.list = Append(session.list, new)
  BY <1>2, AddList
<1>5. new.ssrc = policy.ssrc
  BY DEF NewStream
<1>6. session' = r.session
  BY <1>1 DEF Becomes
<1> HIDE DEF new, r
<1>7. Distinct(r.session.list)
  BY <1>3, <1>4, <1>5, AppendDistinct
<1> QED
  BY <1>6, <1>7, OneLater

LEMMA RemoveKept ==
  ASSUME SessionInv, NEW ssrc \in Ssrcs, srtp_stream_remove(ssrc)
  PROVE  Kept
<1>1. /\ Whole(State) /\ Good(State.session, State.heap) /\ State.session = session
      /\ Found(session.list, ssrc) /\ session # None
  BY StateNow DEF StateGood, srtp_stream_remove
<1>2. StateGood(Removed(State, ssrc))
  BY StateNow, RemovedGood DEF srtp_stream_remove, StateGood, Whole
<1>3. OneEach => Distinct(Removed(State, ssrc).session.list)
  BY <1>1, RemovedList DEF OneEach
<1> QED
  BY <1>2, <1>3, StateStep DEF srtp_stream_remove

LEMMA DeallocInv ==
  ASSUME SessionInv, srtp_dealloc
  PROVE  SessionInv'
<1> DEFINE own == Own(ToSet(session.list), session.template)
           shared == IF session.template = None THEN {} ELSE {session.template.keys}
<1>1. Good(session, heap) /\ session' = None /\ heap' = Freed(heap, own \cup shared)
  BY DEF SessionInv, srtp_dealloc
<1>2. own \cup shared = InUse(session)
  <2>1. {x.keys : x \in ToSet(session.list)} = {session.list[i].keys : i \in DOMAIN session.list}
    BY DEF ToSet
  <2> QED BY <2>1 DEF Own, InUse, Shared
<1>3. heap' \in Heaps /\ \A c \in Blocks : Leakless => heap'[c] = Unused
  BY <1>1, <1>2, FreedFacts DEF Good, Held
<1> QED
  BY <1>1, <1>3 DEF SessionInv, Held, Leakless, Heaps, Unused, None

LEMMA RemovedNow ==
  ASSUME SessionInv, session # None, NEW ssrc, Found(session.list, ssrc), Fits(1)
  PROVE  LET removed == Removed(State, ssrc)
         IN  /\ StateGood(removed) /\ Whole(removed) /\ removed.ok
             /\ Good(removed.session, removed.heap)
             /\ Room(heap) \subseteq Room(removed.heap) /\ Room(removed.heap) # {}
<1> DEFINE removed == Removed(State, ssrc)
<1>1. /\ StateGood(removed) /\ Whole(removed) /\ Room(heap) \subseteq Room(removed.heap)
      /\ removed.ok
  BY StateNow, RemovedGood DEF StateGood, Whole
<1> HIDE DEF removed
<1>2. Room(removed.heap) # {}
  BY <1>1, FitsOne
<1> QED
  BY <1>1, <1>2 DEF removed, StateGood

LEMMA UpdateStreamKept ==
  ASSUME SessionInv, NEW policy \in Policies, policy.ssrc \notin Wildcards,
         NEW luck \in Luck, srtp_stream_update(policy, luck)
  PROVE  Kept
<1> DEFINE removed == Removed(State, policy.ssrc)
           added == srtp_stream_add(removed, policy, luck)
           new == NewStream(policy.ssrc, Lowest(Room(removed.heap)), "unknown")
           at == Position(added.session.list, policy.ssrc)
           old == Stream(policy.ssrc)
           st == [added EXCEPT !.session.list[at] =
                       [@ EXCEPT !.index = old.index, !.rtcp = old.rtcp, !.used = Carried(old)]]
<1>1. /\ session # None /\ Fits(1) /\ Found(session.list, policy.ssrc)
      /\ Becomes(IF added.ok THEN st ELSE added)
  BY DEF srtp_stream_update, stream_update
<1>2. /\ Whole(State) /\ Good(State.session, State.heap) /\ State.session = session
      /\ State.heap = heap
  BY <1>1, StateNow DEF StateGood
<1>3. /\ Good(removed.session, removed.heap) /\ Whole(removed) /\ Room(removed.heap) # {}
  BY <1>1, RemovedNow
<1>4. /\ removed.session.list \in Seq(Entries)
      /\ OneEach => /\ Distinct(removed.session.list)
                    /\ ~ Found(removed.session.list, policy.ssrc)
  <2>1. removed.session.list \in Seq(Entries)
    BY <1>3 DEF Good, Sessions
  <2>2. ASSUME OneEach
        PROVE  Distinct(removed.session.list) /\ ~ Found(removed.session.list, policy.ssrc)
    <3>1. Distinct(State.session.list)
      BY <1>1, <1>2, <2>2 DEF OneEach
    <3>2. Found(State.session.list, policy.ssrc)
      BY <1>1, <1>2
    <3> QED BY <1>2, <3>1, <3>2, RemovedList
  <2> QED BY <2>1, <2>2
<1> HIDE DEF removed
<1>5. /\ new \in Entries
      /\ \/ added.session.list = removed.session.list
         \/ added.session.list = Append(removed.session.list, new)
  BY <1>3, AddList
<1>6. new.ssrc = policy.ssrc
  BY DEF NewStream
<1>7. StateGood(added) /\ (added.ok => Found(added.session.list, policy.ssrc))
  BY <1>3, AddGood DEF StateGood
<1> HIDE DEF added, new
<1>8. added.session.list \in Seq(Entries) /\ (OneEach => Distinct(added.session.list))
  <2> DEFINE list == removed.session.list
  <2>1. list \in Seq(Entries) /\ (OneEach => Distinct(list) /\ ~ Found(list, new.ssrc))
    BY <1>4, <1>6
  <2>2. added.session.list = list \/ added.session.list = Append(list, new)
    BY <1>5
  <2> HIDE DEF list
  <2>3. OneEach => Distinct(Append(list, new))
    BY <1>5, <2>1, AppendDistinct
  <2> QED BY <1>7, <2>1, <2>2, <2>3 DEF StateGood, Good, Sessions
<1>9. CASE added.ok
  <2>1. at \in DOMAIN added.session.list
    BY <1>7, <1>8, <1>9, PositionFacts
  <2>2. session.list \in Seq(Entries) /\ old \in Entries
    <3>1. session.list \in Seq(Entries)
      BY <1>2 DEF Good, Sessions
    <3>2. Position(session.list, policy.ssrc) \in DOMAIN session.list
      BY <1>1, <3>1, PositionFacts
    <3> QED BY <3>1, <3>2 DEF Stream
  <2> HIDE DEF at, old
  <2> DEFINE a == added.session.list[at]
             uses == Carried(old)
             e == [a EXCEPT !.index = old.index, !.rtcp = old.rtcp, !.used = uses]
  <2>3. a \in Entries /\ old.index \in Indices /\ old.rtcp \in Indices
    BY <2>1, <2>2, <1>8 DEF Entries
  <2>7. uses \in SUBSET {"sender", "receiver"} /\ (AcrossUpdates \/ uses = {})
    BY <2>2, CarriedUses
  <2>4. st = [added EXCEPT !.session.list[at] = e]
    BY Zenon
  <2>5. Becomes([added EXCEPT !.session.list[at] = e])
    BY <1>1, <1>9, <2>4
  <2> HIDE DEF a, uses
  <2>6. e \in Entries /\ e.keys = a.keys /\ e.ssrc = a.ssrc
    BY <2>3, <2>7 DEF Entries
  <2> HIDE DEF e
  <2> QED BY <1>7, <1>8, <2>1, <2>5, <2>6, EntryStep DEF a
<1>10. CASE ~ added.ok
  BY <1>1, <1>7, <1>8, <1>10, StateStep
<1> QED
  BY <1>9, <1>10

LEMMA UpdateTemplateInv ==
  ASSUME SessionInv, NEW policy \in Policies, policy.ssrc \in Wildcards, NEW luck \in Luck,
         srtp_stream_update(policy, luck)
  PROVE  SessionInv'
<1> DEFINE b == Lowest(Room(heap))
           t == NewStream(policy.ssrc, b, "unknown")
           g == Allocated(heap, policy.master)
           list == session.list
           stops == {n \in DOMAIN list : StopsAt(n, luck)}
           all == [template |-> t, list |-> [i \in DOMAIN list |-> Renewed(list[i], t)],
                   cap |-> CapacityFor(Len(list))]
<1>1. /\ session # None /\ session.template # None /\ Room(heap) # {} /\ Good(session, heap)
      /\ policy.master \in Masters
  BY FitsOne DEF srtp_stream_update, update_template_streams, SessionInv, Policies
<1>2. luck \in {"update_init", "update_list"} => ~ Leakless
  BY DEF Luck, Leakless
<1>3. \/ UNCHANGED <<session, heap>>
      \/ ~ Leakless /\ session' = session /\ heap' = g
      \/ stops # {} /\ GivesUpAt(Min(stops))
      \/ session' = all /\ heap' = Freed(g, {session.template.keys})
  BY <1>2 DEF srtp_stream_update, update_template_streams
<1>4. list \in Seq(Entries) /\ session.template \in Templates
  BY <1>1 DEF Good, Sessions
<1>5. CASE stops # {} /\ GivesUpAt(Min(stops))
  <2>1. Min(stops) \in DOMAIN list
    <3>1. stops \in SUBSET Nat /\ stops \subseteq DOMAIN list
      BY <1>4
    <3> HIDE DEF stops
    <3> QED BY <1>5, <3>1, MinOf
  <2> DEFINE n == Min(stops)
             s == [session EXCEPT !.list = SubSeq(@, n + 1, Len(@))]
             h == Freed(heap, Own(ToSet(SubSeq(session.list, 1, n)), session.template))
  <2>2. session' = s /\ heap' = h
    BY <1>5 DEF GivesUpAt
  <2>3. n \in DOMAIN session.list
    BY <2>1
  <2> HIDE DEF stops, n
  <2>4. Good(s, h)
    BY <1>1, <2>3, RestGood
  <2> HIDE DEF s, h
  <2> QED BY <2>2, <2>4, GoodLater
<1>6. CASE session' = all /\ heap' = Freed(g, {session.template.keys})
  <2>1. b \in Blocks /\ heap[b] = Unused
    BY <1>1, LowestFacts
  <2>2. g \in Heaps /\ \A c \in Blocks : g[c] # Unused <=> heap[c] # Unused \/ c = b
    BY <1>1, AllocatedFacts DEF Good
  <2>3. t \in Templates /\ t.keys = b
    BY <2>1, ZeroIndex DEF NewStream, Templates, Directions
  <2>4. \A i \in DOMAIN list :
          /\ Renewed(list[i], t) \in Entries
          /\ Renewed(list[i], t).keys =
               IF list[i].keys # session.template.keys THEN list[i].keys ELSE t.keys
          /\ Renewed(list[i], t).ssrc = list[i].ssrc
    <3> SUFFICES ASSUME NEW i \in DOMAIN list
                 PROVE  /\ Renewed(list[i], t) \in Entries
                        /\ Renewed(list[i], t).keys =
                             IF list[i].keys # session.template.keys THEN list[i].keys ELSE t.keys
                        /\ Renewed(list[i], t).ssrc = list[i].ssrc
      OBVIOUS
    <3> DEFINE e == list[i]
    <3>1. e \in Entries
      BY <1>4
    <3>2. t.keys \in Blocks /\ t.dir \in Directions
      BY <2>3 DEF Templates
    <3>4. Carried(e) \in SUBSET {"sender", "receiver"} /\ (AcrossUpdates \/ Carried(e) = {})
      BY <3>1, CarriedUses
    <3> HIDE DEF e, t
    <3>3. /\ Renewed(e, t) \in Entries
          /\ Renewed(e, t).keys = IF e.keys # session.template.keys THEN e.keys ELSE t.keys
          /\ Renewed(e, t).ssrc = e.ssrc
      BY <3>1, <3>2, <3>4, ZeroIndex DEF Renewed, IsOwn, Clone, NewStream, Entries
    <3> QED BY <3>3 DEF e
  <2> HIDE DEF t, g, b
  <2>5. all \in Sessions(all.cap) /\ all.template = t /\ DOMAIN all.list = DOMAIN list
    <3> DEFINE renewed == [i \in DOMAIN list |-> Renewed(list[i], t)]
    <3>1. DOMAIN list = 1 .. Len(list) /\ Len(list) \in Nat
      BY <1>4
    <3>2. renewed \in [1 .. Len(list) -> Entries]
      BY <3>1, <2>4
    <3>3. renewed \in Seq(Entries)
      BY <3>1, <3>2
    <3> QED BY <3>3, <2>3 DEF Sessions
  <2>6. HasNewKeys(list, all.list, session.template.keys, t.keys)
        /\ all.cap = CapacityFor(Len(list))
    BY <2>4, <2>5 DEF HasNewKeys
  <2> HIDE DEF all
  <2>7. Good(all, Freed(g, {session.template.keys}))
    BY <1>1, <2>1, <2>2, <2>3, <2>5, <2>6, RenewedGood
  <2> QED BY <2>7, <1>6, GoodLater
<1>7. CASE ~ Leakless /\ session' = session /\ heap' = g
  <2>1. g \in Heaps /\ \A c \in Blocks : g[c] # Unused <=> heap[c] # Unused \/ c = b
    BY <1>1, AllocatedFacts DEF Good
  <2> HIDE DEF g
  <2>2. Good(session, g)
    BY <1>1, <1>7, <2>1 DEF Good, Held
  <2> QED BY <1>7, <2>2, GoodLater
<1> QED
  BY <1>3, <1>5, <1>6, <1>7, SameGood

LEMMA UpdateTemplateOne ==
  ASSUME SessionInv, OneEach, NEW policy \in Policies, policy.ssrc \in Wildcards,
         NEW luck \in Luck, srtp_stream_update(policy, luck)
  PROVE  OneEach'
<1> DEFINE t == NewStream(policy.ssrc, Lowest(Room(heap)), "unknown")
           list == session.list
           stops == {n \in DOMAIN list : StopsAt(n, luck)}
           renewed == [i \in DOMAIN list |-> Renewed(list[i], t)]
<1>1. session # None /\ Good(session, heap) /\ Distinct(list)
  BY DEF srtp_stream_update, SessionInv, OneEach
<1>2. \/ UNCHANGED session
      \/ stops # {} /\ session' = [session EXCEPT !.list = SubSeq(@, Min(stops) + 1, Len(@))]
      \/ session'.list = renewed
  BY DEF srtp_stream_update, update_template_streams, GivesUpAt
<1>3. list \in Seq(Entries) /\ session \in Sessions(session.cap)
  BY <1>1 DEF Good, Sessions
<1>4. CASE stops # {} /\ session' = [session EXCEPT !.list = SubSeq(@, Min(stops) + 1, Len(@))]
  <2>1. Min(stops) \in DOMAIN list
    <3>1. stops \in SUBSET Nat /\ stops \subseteq DOMAIN list
      BY <1>3
    <3> HIDE DEF stops
    <3> QED BY <1>4, <3>1, MinOf
  <2> DEFINE n == Min(stops)
             rest == SubSeq(list, n + 1, Len(list))
             f == [i \in DOMAIN rest |-> n + i]
  <2>2. session'.list = rest
    BY <1>3, <1>4 DEF Sessions
  <2>3. n \in 1 .. Len(list) /\ Len(list) \in Nat /\ DOMAIN list = 1 .. Len(list)
    BY <2>1, <1>3
  <2> HIDE DEF n, stops
  <2>4. DOMAIN rest = 1 .. Len(list) - n /\ \A i \in DOMAIN rest : rest[i] = list[n + i]
    BY <1>3, <2>3
  <2> HIDE DEF rest
  <2>5. /\ f \in [DOMAIN rest -> DOMAIN list]
        /\ \A i, j \in DOMAIN rest : f[i] = f[j] => i = j
        /\ \A i \in DOMAIN rest : rest[i].ssrc = list[f[i]].ssrc
    BY <2>3, <2>4
  <2> HIDE DEF f, list
  <2>6. Distinct(rest)
    BY <1>1, <2>5, DistinctStays
  <2> QED BY <2>2, <2>6, OneLater
<1>5. CASE session'.list = renewed
  <2>1. DOMAIN renewed = DOMAIN list /\ \A i \in DOMAIN list : renewed[i].ssrc = list[i].ssrc
    <3> SUFFICES ASSUME NEW i \in DOMAIN list
                 PROVE  Renewed(list[i], t).ssrc = list[i].ssrc
      OBVIOUS
    <3> HIDE DEF t
    <3> QED BY DEF Renewed, Clone, NewStream
  <2> HIDE DEF renewed, list
  <2>2. Distinct(renewed)
    BY <1>1, <2>1, DistinctChanged
  <2> QED BY <2>2, <1>5, OneLater
<1> QED
  BY <1>2, <1>4, <1>5, OneSame

-----------------------------------------------------------------------------
\* The packets.

\* The packets
\* The fields of an entry or a template that Turned leaves alone.
Fields(e) ==
  [ssrc : {e.ssrc}, keys : {e.keys}, dir : Directions, index : {e.index}, rtcp : {e.rtcp},
   used : SUBSET {"sender", "receiver"}, told : BOOLEAN]

LEMMA TurnedFacts ==
  ASSUME NEW e, e \in Fields(e), NEW dir \in {"sender", "receiver"},
         AcrossUpdates \/ e.told \/ e.used \subseteq {e.dir}
  PROVE  /\ Turned(e, dir) \in Fields(e)
         /\ AcrossUpdates \/ Turned(e, dir).told \/ Turned(e, dir).used \subseteq {Turned(e, dir).dir}
<1> DEFINE t == Turned(e, dir)
<1>1. /\ t.told <=> (e.told \/ e.dir \notin {"unknown", dir})
      /\ t.dir = IF e.dir = "unknown" THEN dir ELSE e.dir
      /\ t.used = e.used \cup {dir}
  BY DEF Turned, Fields
<1>2. t \in Fields(e)
  BY DEF Turned, Fields, Directions
<1> HIDE DEF t
<1>3. AcrossUpdates \/ t.told \/ t.used \subseteq {t.dir}
  <2>1. CASE e.dir \notin {"unknown", dir} \/ e.told
    BY <2>1, <1>1
  <2>2. CASE e.dir = "unknown" /\ ~ e.told /\ ~ AcrossUpdates
    <3>1. e.used \subseteq {"unknown"} /\ e.used \subseteq {"sender", "receiver"}
      BY <2>2 DEF Fields
    <3>2. e.used = {}
      BY <3>1
    <3> QED BY <3>2, <2>2, <1>1
  <2>3. CASE e.dir = dir /\ ~ e.told
    BY <2>3, <1>1
  <2>4. CASE AcrossUpdates
    BY <2>4
  <2> QED BY <2>1, <2>2, <2>3, <2>4
<1> QED
  BY <1>2, <1>3 DEF t

LEMMA TurnedEntry ==
  ASSUME NEW e \in Entries, NEW dir \in {"sender", "receiver"}
  PROVE  /\ Turned(e, dir) \in Entries
         /\ Turned(e, dir).keys = e.keys /\ Turned(e, dir).ssrc = e.ssrc
         /\ Turned(e, dir).index = e.index /\ Turned(e, dir).rtcp = e.rtcp
<1>1. /\ e \in Fields(e) /\ (AcrossUpdates \/ e.told \/ e.used \subseteq {e.dir})
      /\ e.ssrc \in Ssrcs /\ e.keys \in Blocks
      /\ e.index \in Indices /\ e.rtcp \in Indices
  BY DEF Entries, Fields
<1>2. /\ Turned(e, dir) \in Fields(e)
      /\ AcrossUpdates \/ Turned(e, dir).told \/ Turned(e, dir).used \subseteq {Turned(e, dir).dir}
  BY <1>1, TurnedFacts
<1> QED
  BY <1>1, <1>2 DEF Entries, Fields

LEMMA CountedEntry ==
  ASSUME NEW e \in Entries
  PROVE  /\ e.index < MaxIndex => [e EXCEPT !.index = @ + 1] \in Entries
         /\ [e EXCEPT !.index = @ + 1].keys = e.keys /\ [e EXCEPT !.index = @ + 1].ssrc = e.ssrc
         /\ e.rtcp < MaxIndex => [e EXCEPT !.rtcp = @ + 1] \in Entries
         /\ [e EXCEPT !.rtcp = @ + 1].keys = e.keys /\ [e EXCEPT !.rtcp = @ + 1].ssrc = e.ssrc
<1>1. e.index \in Indices /\ e.rtcp \in Indices /\ MaxIndex \in Nat
  BY SessionAssumption DEF Entries
<1>2. /\ e.index < MaxIndex => e.index + 1 \in Indices
      /\ e.rtcp < MaxIndex => e.rtcp + 1 \in Indices
  BY <1>1 DEF Indices
<1> QED
  BY <1>2 DEF Entries

\* The entry that a packet adds is the one that its SSRC is found at.
LEMMA AppendedFound ==
  ASSUME NEW list \in Seq(Entries), NEW e \in Entries, ~ Found(list, e.ssrc)
  PROVE  /\ Found(Append(list, e), e.ssrc)
         /\ Append(list, e)[Position(Append(list, e), e.ssrc)] = e
<1> DEFINE more == Append(list, e)
<1>1. /\ more \in Seq(Entries) /\ DOMAIN more = 1 .. Len(list) + 1 /\ Len(list) \in Nat
      /\ DOMAIN list = 1 .. Len(list) /\ \A i \in 1 .. Len(list) : more[i] = list[i]
      /\ more[Len(list) + 1] = e
  OBVIOUS
<1> HIDE DEF more
<1>2. Found(more, e.ssrc)
  <2>1. Len(list) + 1 \in DOMAIN more
    BY <1>1
  <2> QED BY <1>1, <2>1, FoundWhen
<1>3. Position(more, e.ssrc) \in DOMAIN more /\ more[Position(more, e.ssrc)].ssrc = e.ssrc
  BY <1>1, <1>2, PositionFacts
<1>4. \A i \in DOMAIN list : list[i].ssrc # e.ssrc
  BY FoundWhen
<1> QED
  BY <1>1, <1>2, <1>3, <1>4 DEF more

\* The stream of a packet: found, or made from the template.
LEMMA WithCloneGood ==
  ASSUME NEW st, StateGood(st), st.ok, NEW ssrc \in Ssrcs, ~ Found(st.session.list, ssrc),
         NEW dir \in Directions, NEW luck
  PROVE  /\ StateGood(WithClone(st, ssrc, dir, luck))
         /\ WithClone(st, ssrc, dir, luck).heap = st.heap
         /\ st.session.template = None => ~ WithClone(st, ssrc, dir, luck).ok
         /\ WithClone(st, ssrc, dir, luck).ok =>
              /\ Found(WithClone(st, ssrc, dir, luck).session.list, ssrc)
              /\ WithClone(st, ssrc, dir, luck).session.list =
                   Append(st.session.list, [Clone(st.session.template, ssrc) EXCEPT !.dir = dir])
         /\ ~ WithClone(st, ssrc, dir, luck).ok =>
              WithClone(st, ssrc, dir, luck).session = st.session
<1> DEFINE t == st.session.template
           new == [Clone(t, ssrc) EXCEPT !.dir = dir]
           r == WithClone(st, ssrc, dir, luck)
<1>1. \/ r = [st EXCEPT !.ok = FALSE]
      \/ t # None /\ r = [st EXCEPT !.session = Inserted(@, new)]
  BY DEF WithClone, Refused
<1>2. t = None => r = [st EXCEPT !.ok = FALSE]
  BY DEF WithClone, Refused
<1>3. CASE r = [st EXCEPT !.ok = FALSE]
  <2> HIDE DEF r
  <2>1. r.session = st.session /\ r.heap = st.heap /\ Whole(r) /\ ~ r.ok
    BY <1>3 DEF Whole, StateGood
  <2> QED BY <2>1 DEF StateGood, r
<1>4. CASE t # None /\ r = [st EXCEPT !.session = Inserted(@, new)]
  <2>1. st.session \in Sessions(st.session.cap) /\ st.session.list \in Seq(Entries) /\ t \in Templates
    BY <1>4 DEF StateGood, Good, Sessions
  <2>2. t.keys \in Blocks
    BY <2>1 DEF Templates
  <2>3. new \in Entries /\ new.keys = t.keys /\ new.ssrc = ssrc
    BY <2>2, ZeroIndex DEF Clone, NewStream, Entries
  <2>4. t.keys \in Shared(t) /\ st.heap[t.keys] # Unused /\ st.heap \in Heaps
    BY <1>4, <2>2 DEF Shared, StateGood, Good, Held, InUse
  <2> HIDE DEF r, new, t
  <2>5. r.session = Inserted(st.session, new) /\ r.heap = st.heap /\ Whole(r)
    BY <1>4 DEF Whole, StateGood
  <2>6. Good(Inserted(st.session, new), st.heap)
    <3>1. \A b \in Blocks : st.heap[b] # Unused <=> st.heap[b] # Unused \/ b = new.keys
      BY <2>3, <2>4
    <3>2. new.keys \in Shared(st.session.template) /\ ~ Found(st.session.list, new.ssrc)
      BY <2>3, <2>4 DEF t
    <3>3. Good(st.session, st.heap)
      BY DEF StateGood
    <3> QED BY <2>3, <2>4, <3>1, <3>2, <3>3, InsertedGood
  <2>7. r.session.list = Append(st.session.list, new)
    BY <2>1, <2>3, <2>5, InsertedFacts
  <2>8. Found(r.session.list, ssrc)
    <3>1. r.session.list \in Seq(Entries)
      BY <2>1, <2>3, <2>7
    <3>2. /\ Len(st.session.list) + 1 \in DOMAIN r.session.list
          /\ r.session.list[Len(st.session.list) + 1] = new
      BY <2>1, <2>3, <2>7
    <3> QED BY <3>1, <3>2, <2>3, FoundWhen
  <2>9. r.ok
    BY <1>4 DEF StateGood, Whole
  <2> QED BY <1>4, <2>5, <2>6, <2>7, <2>8, <2>9 DEF StateGood, r, new, t
<1> QED
  BY <1>1, <1>2, <1>3, <1>4

LEMMA WithStreamGood ==
  ASSUME SessionInv, session # None, NEW ssrc \in Ssrcs, NEW dir \in Directions, NEW luck
  PROVE  /\ StateGood(WithStream(ssrc, dir, luck))
         /\ WithStream(ssrc, dir, luck).ok => Found(WithStream(ssrc, dir, luck).session.list, ssrc)
<1>1. StateGood(State) /\ State.ok /\ State.session = session
  BY StateNow
<1>2. ~ Found(session.list, ssrc) =>
        /\ StateGood(WithClone(State, ssrc, dir, luck))
        /\ WithClone(State, ssrc, dir, luck).ok =>
             Found(WithClone(State, ssrc, dir, luck).session.list, ssrc)
  BY <1>1, WithCloneGood
<1> QED
  BY <1>1, <1>2 DEF WithStream

LEMMA WithStreamOne ==
  ASSUME SessionInv, OneEach, session # None, NEW ssrc \in Ssrcs, NEW dir \in Directions, NEW luck
  PROVE  Distinct(WithStream(ssrc, dir, luck).session.list)
<1>1. StateGood(State) /\ State.ok /\ State.session = session /\ session.list \in Seq(Entries)
  BY StateNow DEF StateGood, Good, Sessions
<1> DEFINE r == WithClone(State, ssrc, dir, luck)
           new == [Clone(session.template, ssrc) EXCEPT !.dir = dir]
<1>2. Distinct(session.list)
  BY DEF OneEach
<1>3. CASE Found(session.list, ssrc)
  BY <1>1, <1>2, <1>3 DEF WithStream
<1>4. CASE ~ Found(session.list, ssrc)
  <2>1. /\ r.ok => /\ r.session.list = Append(session.list, new)
                   /\ session.template # None
        /\ ~ r.ok => r.session = session
    BY <1>1, <1>4, WithCloneGood
  <2>2. r.ok => new \in Entries /\ new.ssrc = ssrc
    <3> SUFFICES ASSUME session.template # None
                 PROVE  new \in Entries /\ new.ssrc = ssrc
      BY <2>1
    <3>1. session.template \in Templates
      BY <1>1 DEF StateGood, Good, Sessions
    <3> QED BY <3>1, ZeroIndex DEF Templates, Clone, NewStream, Entries
  <2> HIDE DEF r, new
  <2>3. Distinct(r.session.list)
    BY <1>1, <1>2, <1>4, <2>1, <2>2, AppendDistinct
  <2> QED BY <1>4, <2>3 DEF WithStream, r
<1> QED
  BY <1>3, <1>4

\* The bound on the packets holds of the stream that a packet finds or makes.
LEMMA WithStreamBounded ==
  ASSUME SessionInv, session # None, NEW ssrc \in Ssrcs, NEW dir \in Directions, NEW luck,
         WithStream(ssrc, dir, luck).ok
  PROVE  LET list == WithStream(ssrc, dir, luck).session.list
             e == list[Position(list, ssrc)]
         IN  /\ Bounded("index", ssrc) => e.index < MaxIndex
             /\ Bounded("rtcp", ssrc) => e.rtcp < MaxIndex
<1>1. StateGood(State) /\ State.ok /\ State.session = session /\ session.list \in Seq(Entries)
  BY StateNow DEF StateGood, Good, Sessions
<1> DEFINE r == WithClone(State, ssrc, dir, luck)
           new == [Clone(session.template, ssrc) EXCEPT !.dir = dir]
<1>2. CASE Found(session.list, ssrc)
  BY <1>1, <1>2 DEF WithStream, Bounded, Stream
<1>3. CASE ~ Found(session.list, ssrc)
  <2>1. r = WithStream(ssrc, dir, luck)
    BY <1>3 DEF WithStream
  <2>2. r.session.list = Append(session.list, new) /\ session.template # None
    BY <1>1, <1>3, <2>1, WithCloneGood
  <2>3. session.template \in Templates
    BY <1>1, <2>2 DEF StateGood, Good, Sessions
  <2>4. new \in Entries /\ new.ssrc = ssrc /\ new.index = 0 /\ new.rtcp = 0
    BY <2>3, ZeroIndex DEF Templates, Clone, NewStream, Entries
  <2> HIDE DEF r, new
  <2>5. r.session.list[Position(r.session.list, ssrc)] = new
    BY <1>1, <1>3, <2>2, <2>4, AppendedFound
  <2> QED BY <2>1, <2>4, <2>5, ZeroIndex
<1> QED
  BY <1>2, <1>3

LEMMA FoundEntry ==
  ASSUME NEW st, StateGood(st), NEW ssrc, Found(st.session.list, ssrc)
  PROVE  /\ Position(st.session.list, ssrc) \in DOMAIN st.session.list
         /\ st.session.list[Position(st.session.list, ssrc)] \in Entries
<1>1. st.session.list \in Seq(Entries)
  BY DEF StateGood, Good, Sessions
<1> QED
  BY <1>1, PositionFacts

LEMMA SessionProtectKept ==
  ASSUME SessionInv, NEW ssrc \in Ssrcs, NEW accepted \in BOOLEAN, SessionProtect(ssrc, accepted)
  PROVE  Kept
<1>1. PICK luck \in LuckOf(ssrc) :
        LET st == WithStream(ssrc, "sender", luck)
            at == Position(st.session.list, ssrc)
            s == Turned(st.session.list[at], "sender")
        IN  IF st.ok
            THEN Becomes([st EXCEPT !.session.list[at] =
                                      IF accepted THEN [s EXCEPT !.index = @ + 1] ELSE s])
            ELSE UNCHANGED <<session, heap>>
  BY DEF SessionProtect
<1> DEFINE st == WithStream(ssrc, "sender", luck)
           at == Position(st.session.list, ssrc)
           s == Turned(st.session.list[at], "sender")
           e == IF accepted THEN [s EXCEPT !.index = @ + 1] ELSE s
<1>2. /\ StateGood(st) /\ (st.ok => Found(st.session.list, ssrc))
      /\ OneEach => Distinct(st.session.list)
  BY WithStreamGood, WithStreamOne DEF SessionProtect, Directions
<1>3. CASE st.ok
  <2>1. Becomes([st EXCEPT !.session.list[at] = e])
    BY <1>1, <1>3
  <2>5. st.session.list[at].index < MaxIndex
    BY <1>3, WithStreamBounded DEF SessionProtect, Directions
  <2> HIDE DEF st
  <2>2. at \in DOMAIN st.session.list /\ st.session.list[at] \in Entries
    BY <1>2, <1>3, FoundEntry
  <2> HIDE DEF at
  <2>3. /\ s \in Entries /\ s.keys = st.session.list[at].keys /\ s.ssrc = st.session.list[at].ssrc
        /\ s.index < MaxIndex
    BY <2>2, <2>5, TurnedEntry
  <2> HIDE DEF s
  <2>4. e \in Entries /\ e.keys = st.session.list[at].keys /\ e.ssrc = st.session.list[at].ssrc
    BY <2>3, CountedEntry
  <2> HIDE DEF e
  <2> QED BY <1>2, <2>1, <2>2, <2>4, EntryStep
<1>4. CASE ~ st.ok
  BY <1>1, <1>4, SameStep
<1> QED
  BY <1>3, <1>4

LEMMA SessionProtectRtcpKept ==
  ASSUME SessionInv, NEW ssrc \in Ssrcs, SessionProtectRtcp(ssrc)
  PROVE  Kept
<1> DEFINE dir == IF session.template = None THEN "unknown" ELSE session.template.dir
<1>1. PICK luck \in LuckOf(ssrc) :
        LET st == WithStream(ssrc, dir, luck)
            at == Position(st.session.list, ssrc)
            s == [Turned(st.session.list[at], "sender") EXCEPT !.rtcp = @ + 1]
        IN  IF st.ok
            THEN Becomes([st EXCEPT !.session.list[at] = s])
            ELSE UNCHANGED <<session, heap>>
  BY DEF SessionProtectRtcp
<1>2. dir \in Directions
  BY DEF SessionProtectRtcp, SessionInv, Good, Sessions, Templates, Directions
<1> HIDE DEF dir
<1> DEFINE st == WithStream(ssrc, dir, luck)
           at == Position(st.session.list, ssrc)
           s == Turned(st.session.list[at], "sender")
           e == [s EXCEPT !.rtcp = @ + 1]
<1>3. /\ StateGood(st) /\ (st.ok => Found(st.session.list, ssrc))
      /\ OneEach => Distinct(st.session.list)
  BY <1>2, WithStreamGood, WithStreamOne DEF SessionProtectRtcp
<1>4. CASE st.ok
  <2>1. Becomes([st EXCEPT !.session.list[at] = e])
    BY <1>1, <1>4
  <2>5. st.session.list[at].rtcp < MaxIndex
    BY <1>2, <1>4, WithStreamBounded DEF SessionProtectRtcp
  <2> HIDE DEF st
  <2>2. at \in DOMAIN st.session.list /\ st.session.list[at] \in Entries
    BY <1>3, <1>4, FoundEntry
  <2> HIDE DEF at
  <2>3. /\ s \in Entries /\ s.keys = st.session.list[at].keys /\ s.ssrc = st.session.list[at].ssrc
        /\ s.rtcp < MaxIndex
    BY <2>2, <2>5, TurnedEntry
  <2> HIDE DEF s
  <2>4. e \in Entries /\ e.keys = st.session.list[at].keys /\ e.ssrc = st.session.list[at].ssrc
    BY <2>3, CountedEntry
  <2> HIDE DEF e
  <2> QED BY <1>3, <2>1, <2>2, <2>4, EntryStep
<1>5. CASE ~ st.ok
  BY <1>1, <1>5, SameStep
<1> QED
  BY <1>4, <1>5

\* The template takes a direction from the packet that is received.
LEMMA TurnedNow ==
  ASSUME SessionInv, session # None, session.template # None
  PROVE  LET t == Turned(session.template, "receiver")
             turned == [State EXCEPT !.session.template.dir = t.dir]
         IN  /\ t.dir \in Directions /\ t.used \in SUBSET {"sender", "receiver"}
             /\ t.told \in BOOLEAN /\ (AcrossUpdates \/ t.told \/ t.used \subseteq {t.dir})
             /\ StateGood(turned) /\ turned.ok /\ turned.heap = heap
             /\ turned.session.list = session.list /\ turned.session.template \in Templates
<1> DEFINE t == Turned(session.template, "receiver")
           u == [session.template EXCEPT !.dir = t.dir]
           turned == [State EXCEPT !.session.template.dir = t.dir]
<1>1. /\ Good(session, heap) /\ session \in Sessions(session.cap)
      /\ session.template \in Templates
  BY DEF SessionInv, Good, Sessions
<1>2. /\ session.template \in Fields(session.template)
      /\ AcrossUpdates \/ session.template.told \/ session.template.used \subseteq {session.template.dir}
  BY <1>1 DEF Templates, Fields
<1>3. t \in Fields(session.template) /\ (AcrossUpdates \/ t.told \/ t.used \subseteq {t.dir})
  BY <1>2, TurnedFacts
<1> HIDE DEF t
<1>4. u \in Templates /\ u.keys = session.template.keys
  BY <1>1, <1>3 DEF Templates, Fields
<1>5. /\ turned.session = [session EXCEPT !.template = u] /\ turned.heap = heap /\ turned.ok
      /\ Whole(turned)
  BY DEF State, Whole
<1>6. Good([session EXCEPT !.template = u], heap)
  BY <1>1, <1>4, TurnedGood
<1>7. /\ [session EXCEPT !.template = u].list = session.list
      /\ [session EXCEPT !.template = u].template = u
  BY <1>1 DEF Sessions
<1>8. t.dir \in Directions /\ t.used \in SUBSET {"sender", "receiver"} /\ t.told \in BOOLEAN
  BY <1>3 DEF Fields
<1> HIDE DEF u, turned
<1> QED
  BY <1>3, <1>4, <1>5, <1>6, <1>7, <1>8 DEF StateGood, t, turned

LEMMA ReceivesKept ==
  ASSUME SessionInv, session # None, NEW ssrc \in Ssrcs, Known(ssrc),
         NEW field \in {"index", "rtcp"}, Bounded(field, ssrc), Receives(ssrc, field),
         UNCHANGED heap
  PROVE  Kept
<1>1. /\ session.list \in Seq(Entries) /\ session.template \in Templates \cup {None}
      /\ OneEach => Distinct(session.list)
  BY DEF SessionInv, Good, Sessions, OneEach
<1>2. CASE Found(session.list, ssrc)
  <2> DEFINE at == Position(session.list, ssrc)
             s == Turned(session.list[at], "receiver")
             e == [s EXCEPT ![field] = @ + 1]
  <2>1. session' = [session EXCEPT !.list[at] = e]
    BY <1>2 DEF Receives
  <2>2. at \in DOMAIN session.list /\ session.list[at] \in Entries
    BY <1>1, <1>2, PositionFacts
  <2>7. session.list[at][field] < MaxIndex
    BY <1>2 DEF Bounded, Stream
  <2> HIDE DEF at
  <2>3. /\ s \in Entries /\ s.keys = session.list[at].keys /\ s.ssrc = session.list[at].ssrc
        /\ field = "index" => s.index < MaxIndex
        /\ field = "rtcp" => s.rtcp < MaxIndex
    BY <2>2, <2>7, TurnedEntry
  <2> HIDE DEF s
  <2>4. e \in Entries /\ e.keys = session.list[at].keys /\ e.ssrc = session.list[at].ssrc
    BY <2>3, CountedEntry
  <2> HIDE DEF e
  <2>5. StateGood(State) /\ State.session = session
    BY StateNow
  <2>6. Becomes([State EXCEPT !.session.list[at] = e])
    BY <2>1, <2>5 DEF Becomes, State
  <2> QED BY <1>1, <2>2, <2>4, <2>5, <2>6, EntryStep
<1>3. CASE ~ Found(session.list, ssrc)
  <2> DEFINE t == Turned(session.template, "receiver")
             turned == [State EXCEPT !.session.template.dir = t.dir]
  <2>1. PICK luck \in Luck :
          LET st == WithClone(turned, ssrc, t.dir, luck)
              at == Len(st.session.list)
          IN  session' =
                IF st.ok
                THEN [st.session EXCEPT !.list[at].used = t.used, !.list[at].told = t.told,
                                        !.list[at][field] = @ + 1]
                ELSE st.session
    BY <1>3 DEF Receives
  <2>2. /\ t.dir \in Directions /\ t.used \in SUBSET {"sender", "receiver"}
        /\ t.told \in BOOLEAN /\ (AcrossUpdates \/ t.told \/ t.used \subseteq {t.dir})
        /\ StateGood(turned) /\ turned.ok /\ turned.heap = heap
        /\ turned.session.list = session.list /\ turned.session.template \in Templates
    BY <1>3, TurnedNow DEF Known
  <2> DEFINE dir == t.dir
             used == t.used
             told == t.told
             st == WithClone(turned, ssrc, dir, luck)
             new == [Clone(turned.session.template, ssrc) EXCEPT !.dir = dir]
             at == Len(st.session.list)
             e == [new EXCEPT !.used = used, !.told = told, ![field] = @ + 1]
  <2>3. session' = IF st.ok THEN [st.session EXCEPT !.list[at].used = used,
                                    !.list[at].told = told, !.list[at][field] = @ + 1]
                   ELSE st.session
    BY <2>1
  <2> HIDE DEF t, turned, dir, used, told
  <2>4. /\ StateGood(st) /\ st.heap = heap
        /\ st.ok => st.session.list = Append(session.list, new)
        /\ ~ st.ok => st.session = turned.session
    BY <1>3, <2>2, WithCloneGood DEF dir
  <2>5. /\ new \in Entries /\ new.ssrc = ssrc /\ new.dir = dir
        /\ new.index = 0 /\ new.rtcp = 0
    BY <2>2, ZeroIndex DEF Clone, NewStream, Entries, Templates, dir
  <2> HIDE DEF st, new
  <2>6. OneEach => Distinct(st.session.list)
    <3>1. OneEach => Distinct(Append(session.list, new))
      BY <1>1, <1>3, <2>5, AppendDistinct
    <3> QED BY <1>1, <2>2, <2>4, <3>1
  <2>7. CASE st.ok
    <3>1. at \in DOMAIN st.session.list /\ st.session.list[at] = new
      BY <1>1, <2>4, <2>5, <2>7
    <3> HIDE DEF at
    <3>2. session' = [st.session EXCEPT !.list[at] = e]
      BY <2>3, <2>4, <2>7, <3>1 DEF StateGood, Good, Sessions
    <3>3. used \in SUBSET {"sender", "receiver"} /\ told \in BOOLEAN
          /\ (AcrossUpdates \/ told \/ used \subseteq {new.dir})
      BY <2>2, <2>5 DEF used, told, dir
    <3>4. e \in Entries /\ e.keys = new.keys /\ e.ssrc = new.ssrc
      <4> DEFINE b == [new EXCEPT !.used = used, !.told = told]
      <4>1. /\ b \in Entries /\ b.keys = new.keys /\ b.ssrc = new.ssrc
            /\ b.index = 0 /\ b.rtcp = 0
        BY <2>5, <3>3 DEF Entries
      <4>2. e = [b EXCEPT !.index = @ + 1] \/ e = [b EXCEPT !.rtcp = @ + 1]
        OBVIOUS
      <4> HIDE DEF b, e
      <4> QED BY <4>1, <4>2, ZeroIndex, CountedEntry
    <3> HIDE DEF e
    <3>5. Becomes([st EXCEPT !.session.list[at] = e])
      BY <2>4, <3>2 DEF Becomes, StateGood, Whole
    <3> QED BY <2>4, <2>6, <3>1, <3>4, <3>5, EntryStep
  <2>8. CASE ~ st.ok
    <3>1. Becomes(st)
      BY <2>3, <2>4, <2>8 DEF Becomes
    <3> QED BY <2>4, <2>6, <3>1, StateStep
  <2> QED BY <2>7, <2>8
<1> QED
  BY <1>2, <1>3

-----------------------------------------------------------------------------
\* srtp_create: a fold over at most two policies.

\* g is what the fold of srtp_create builds: the state after some of the policies.
AddsAll(g, begin, policies, luck) ==
  g = [s \in SUBSET DOMAIN policies |->
         IF s = {} THEN begin
         ELSE srtp_stream_add(g[s \ {Max(s)}], policies[Max(s)], luck)]

Created(policies, luck) ==
  FoldLeft(LAMBDA st, p : srtp_stream_add(st, p, luck),
           [State EXCEPT !.session = NewSession], policies)

LEMMA FoldIs ==
  ASSUME NEW policies, NEW luck
  PROVE  Created(policies, luck)
           = (CHOOSE g : AddsAll(g, [State EXCEPT !.session = NewSession], policies, luck))
               [DOMAIN policies]
BY DEF Created, FoldLeft, MapThenFoldSet, AddsAll

LEMMA MaxFew == Max({1}) = 1 /\ Max({2}) = 2 /\ Max({1, 2}) = 2
<1>1. Max({1}) = 1
  BY DEF Max
<1>2. Max({2}) = 2
  BY DEF Max
<1>3. \E x \in {1, 2} : \A y \in {1, 2} : x >= y
  OBVIOUS
<1>4. Max({1, 2}) = 2
  BY <1>3 DEF Max
<1> QED
  BY <1>1, <1>2, <1>4

LEMMA SubsetsFew ==
  ASSUME NEW s \in SUBSET (1 .. 2)
  PROVE  s \in {{}, {1}, {2}, {1, 2}}
<1>1. \A x \in s : x = 1 \/ x = 2
  OBVIOUS
<1>2. CASE 1 \in s /\ 2 \in s
  <2>1. s = {1, 2}
    BY <1>1, <1>2
  <2> QED BY <2>1
<1>3. CASE 1 \in s /\ 2 \notin s
  <2>1. s = {1}
    BY <1>1, <1>3
  <2> QED BY <2>1
<1>4. CASE 1 \notin s /\ 2 \in s
  <2>1. s = {2}
    BY <1>1, <1>4
  <2> QED BY <2>1
<1>5. CASE 1 \notin s /\ 2 \notin s
  <2>1. s = {}
    BY <1>1, <1>5
  <2> QED BY <2>1
<1> QED
  BY <1>2, <1>3, <1>4, <1>5

LEMMA CreatedIs ==
  ASSUME NEW policies \in BoundedSeq(Policies, 2), NEW luck
  PROVE  LET begin == [State EXCEPT !.session = NewSession]
             one == srtp_stream_add(begin, policies[1], luck)
         IN  Created(policies, luck) =
               IF Len(policies) = 0 THEN begin
               ELSE IF Len(policies) = 1 THEN one
               ELSE srtp_stream_add(one, policies[2], luck)
<1> DEFINE begin == [State EXCEPT !.session = NewSession]
           one == srtp_stream_add(begin, policies[1], luck)
           two == srtp_stream_add(one, policies[2], luck)
           other == srtp_stream_add(begin, policies[2], luck)
           w == [s \in SUBSET DOMAIN policies |->
                   IF s = {} THEN begin
                   ELSE IF s = {1} THEN one
                   ELSE IF s = {2} THEN other ELSE two]
<1>1. PICK m \in 0 .. 2 : policies \in [1 .. m -> Policies]
  BY DEF BoundedSeq, SeqOf
<1>2. DOMAIN policies = 1 .. m /\ m \in {0, 1, 2} /\ Len(policies) = m
  BY <1>1
<1>3. \A s \in SUBSET DOMAIN policies : s \in {{}, {1}, {2}, {1, 2}}
  <2>1. \A s \in SUBSET DOMAIN policies : s \in SUBSET (1 .. 2)
    BY <1>2
  <2> QED BY <2>1, SubsetsFew
<1>4. {1} # {} /\ {2} # {} /\ {1, 2} # {} /\ {1} # {2} /\ {1, 2} # {1} /\ {1, 2} # {2}
      /\ {1} \ {1} = {} /\ {2} \ {2} = {} /\ {1, 2} \ {2} = {1}
  OBVIOUS
<1>5. AddsAll(w, begin, policies, luck)
  <2> HIDE DEF begin
  <2>1. ASSUME NEW s \in SUBSET DOMAIN policies
        PROVE  w[s] = IF s = {} THEN begin
                      ELSE srtp_stream_add(w[s \ {Max(s)}], policies[Max(s)], luck)
    <3>1. CASE s = {}
      BY <3>1
    <3>2. CASE s = {1}
      <4>1. w[s] = one /\ w[s \ {Max(s)}] = begin /\ Max(s) = 1
        BY <3>2, <1>4, MaxFew
      <4> QED BY <3>2, <4>1, <1>4
    <3>3. CASE s = {2}
      <4>1. w[s] = other /\ w[s \ {Max(s)}] = begin /\ Max(s) = 2
        BY <3>3, <1>4, MaxFew
      <4> QED BY <3>3, <4>1, <1>4
    <3>4. CASE s = {1, 2}
      <4>1. s \ {Max(s)} = {1} /\ {1} \in SUBSET DOMAIN policies /\ Max(s) = 2
        BY <3>4, <1>4, MaxFew
      <4>2. w[s] = two /\ w[s \ {Max(s)}] = one
        BY <3>4, <4>1, <1>4
      <4> QED BY <3>4, <4>1, <4>2, <1>4
    <3> QED BY <1>3, <3>1, <3>2, <3>3, <3>4
  <2> QED BY <2>1 DEF AddsAll
<1> DEFINE g == CHOOSE g : AddsAll(g, begin, policies, luck)
<1>6. AddsAll(g, begin, policies, luck)
  BY <1>5
<1>7. Created(policies, luck) = g[DOMAIN policies]
  BY FoldIs
<1> HIDE DEF g, begin
<1>8. \A s \in SUBSET DOMAIN policies :
        g[s] = IF s = {} THEN begin
               ELSE srtp_stream_add(g[s \ {Max(s)}], policies[Max(s)], luck)
  BY <1>6 DEF AddsAll
<1>9. g[{}] = begin
  BY <1>8
<1>10. CASE m = 0
  <2>1. DOMAIN policies = {}
    BY <1>2, <1>10
  <2> QED BY <2>1, <1>2, <1>7, <1>9, <1>10 DEF begin
<1>11. CASE m = 1
  <2>1. DOMAIN policies = {1}
    BY <1>2, <1>11
  <2>2. g[{1}] = srtp_stream_add(g[{}], policies[1], luck)
    BY <2>1, <1>4, <1>8, MaxFew
  <2> QED BY <2>1, <2>2, <1>2, <1>7, <1>9, <1>11 DEF begin
<1>12. CASE m = 2
  <2>1. DOMAIN policies = {1, 2}
    BY <1>2, <1>12
  <2>2. {1} \in SUBSET DOMAIN policies
    BY <2>1
  <2>3. g[{1}] = srtp_stream_add(g[{}], policies[1], luck)
    BY <2>2, <1>4, <1>8, MaxFew
  <2>4. g[{1, 2}] = srtp_stream_add(g[{1}], policies[2], luck)
    BY <2>1, <1>4, <1>8, MaxFew
  <2> QED BY <2>1, <2>3, <2>4, <1>2, <1>7, <1>9, <1>12 DEF begin
<1> QED
  BY <1>2, <1>10, <1>11, <1>12

LEMMA CreatedGood ==
  ASSUME SessionInv, session = None, NEW policies \in BoundedSeq(Policies, 2), NEW luck,
         Fits(Len(policies))
  PROVE  LET begin == [State EXCEPT !.session = NewSession]
             one == srtp_stream_add(begin, policies[1], luck)
             two == srtp_stream_add(one, policies[2], luck)
         IN  /\ StateGood(begin) /\ begin.heap = heap /\ begin.session.list = <<>>
             /\ Len(policies) >= 1 => /\ StateGood(one) /\ policies[1] \in Policies
                                      /\ Room(heap) # {}
             /\ Len(policies) = 2 => /\ StateGood(two) /\ policies[2] \in Policies
                                     /\ Room(one.heap) # {}
             /\ StateGood(Created(policies, luck))
             /\ Created(policies, luck) =
                  IF Len(policies) = 0 THEN begin ELSE IF Len(policies) = 1 THEN one ELSE two
<1> DEFINE begin == [State EXCEPT !.session = NewSession]
<1>2. PICK m \in 0 .. 2 : policies \in [1 .. m -> Policies]
  BY DEF BoundedSeq, SeqOf
<1>3. Len(policies) = m /\ m \in {0, 1, 2}
  BY <1>2
<1>4. StateGood(begin) /\ begin.heap = heap /\ begin.session.list = <<>>
  <2>1. begin.session = NewSession /\ begin.heap = heap /\ Whole(begin)
    BY DEF State, Whole
  <2>2. NewSession \in Sessions(NewSession.cap) /\ NewSession.template = None /\ NewSession.list = <<>>
    BY DEF NewSession, Sessions
  <2>3. InUse(NewSession) = {} /\ Apart(NewSession) /\ Single(NewSession)
    BY <2>2 DEF InUse, Apart, Single, Shared
  <2>4. heap \in Heaps /\ Held(heap, {})
    BY DEF SessionInv
  <2>5. Roomy(NewSession)
    <3>1. NewSession.cap = InitialCapacity /\ Len(NewSession.list) = 0
      BY DEF NewSession
    <3> QED BY <3>1, CapacitiesFacts, SessionAssumption DEF Roomy
  <2> HIDE DEF begin
  <2> QED BY <2>1, <2>2, <2>3, <2>4, <2>5 DEF StateGood, Good
<1> HIDE DEF begin
<1> DEFINE one == srtp_stream_add(begin, policies[1], luck)
           two == srtp_stream_add(one, policies[2], luck)
<1>5. Created(policies, luck) = IF m = 0 THEN begin ELSE IF m = 1 THEN one ELSE two
  BY <1>3, CreatedIs DEF begin
<1>6. IsFiniteSet(Room(heap)) /\ Cardinality(Room(heap)) \in Nat /\ Cardinality(Room(heap)) >= m
  BY <1>3, RoomFinite, FS_CardinalityType DEF Fits
<1> DEFINE b == Lowest(Room(heap))
<1>7. m >= 1 => /\ Room(heap) # {} /\ b \in Room(heap)
                /\ StateGood(one) /\ Room(heap) \ {b} \subseteq Room(one.heap)
  <2> SUFFICES ASSUME m >= 1
               PROVE  /\ Room(heap) # {} /\ b \in Room(heap)
                      /\ StateGood(one) /\ Room(heap) \ {b} \subseteq Room(one.heap)
    OBVIOUS
  <2>1. Room(heap) # {}
    BY <1>6, FS_EmptySet
  <2>2. b \in Room(heap)
    BY <2>1, LowestFacts DEF Room
  <2>3. policies[1] \in Policies
    BY <1>2
  <2> QED BY <2>1, <2>2, <2>3, <1>4, AddGood DEF StateGood
<1>8. m = 2 => StateGood(two) /\ Room(one.heap) # {}
  <2> SUFFICES ASSUME m = 2
               PROVE  StateGood(two) /\ Room(one.heap) # {}
    OBVIOUS
  <2> DEFINE room == Room(heap)
  <2>5. b \in room /\ IsFiniteSet(room)
    BY <1>6, <1>7
  <2> HIDE DEF b, room
  <2>6. Cardinality(room \ {b}) = Cardinality(room) - 1
    BY <2>5, FS_RemoveElement
  <2>1. Cardinality(Room(heap) \ {b}) = Cardinality(Room(heap)) - 1
    BY <2>6 DEF room
  <2>7. Cardinality(Room(heap) \ {b}) >= 1
    BY <2>1, <1>6
  <2>2. Room(heap) \ {b} # {}
    BY <2>7, FS_EmptySet
  <2>3. Room(one.heap) # {}
    BY <2>2, <1>7
  <2>4. policies[2] \in Policies
    BY <1>2
  <2>8. Whole(one) /\ Good(one.session, one.heap)
    BY <1>7 DEF StateGood
  <2> HIDE DEF one
  <2>9. StateGood(two)
    BY <2>3, <2>4, <2>8, AddGood
  <2> QED BY <2>3, <2>9
<1> HIDE DEF two
<1>9. /\ m >= 1 => policies[1] \in Policies
      /\ m = 2 => policies[2] \in Policies
  BY <1>2
<1> HIDE DEF one
<1> QED
  BY <1>3, <1>4, <1>5, <1>7, <1>8, <1>9 DEF begin, one, two

LEMMA CreateInv ==
  ASSUME SessionInv, NEW policies \in BoundedSeq(Policies, 2), srtp_create(policies)
  PROVE  SessionInv'
<1>1. PICK luck \in Luck : IF Created(policies, luck).ok THEN Becomes(Created(policies, luck))
                           ELSE UNCHANGED <<session, heap>>
  BY DEF srtp_create, Created
<1>2. StateGood(Created(policies, luck))
  BY CreatedGood DEF srtp_create
<1> QED
  BY <1>1, <1>2, BecomesGood, SameGood

LEMMA CreateOne ==
  ASSUME SessionInv, ~ AddTwice, NEW policies \in BoundedSeq(Policies, 2), srtp_create(policies)
  PROVE  OneEach'
<1> DEFINE begin == [State EXCEPT !.session = NewSession]
<1>1. PICK luck \in Luck : IF Created(policies, luck).ok THEN Becomes(Created(policies, luck))
                           ELSE UNCHANGED <<session, heap>>
  BY DEF srtp_create, Created
<1> DEFINE one == srtp_stream_add(begin, policies[1], luck)
           two == srtp_stream_add(one, policies[2], luck)
           end == Created(policies, luck)
<1>2. /\ StateGood(begin) /\ begin.heap = heap /\ begin.session.list = <<>>
      /\ Len(policies) >= 1 => /\ StateGood(one) /\ policies[1] \in Policies
                               /\ Room(heap) # {}
      /\ Len(policies) = 2 => /\ StateGood(two) /\ policies[2] \in Policies
                              /\ Room(one.heap) # {}
      /\ end = IF Len(policies) = 0 THEN begin ELSE IF Len(policies) = 1 THEN one ELSE two
  BY CreatedGood DEF srtp_create
<1>3. Len(policies) \in {0, 1, 2} /\ DOMAIN policies = 1 .. Len(policies)
  <2>1. PICK m \in 0 .. 2 : policies \in [1 .. m -> Policies]
    BY DEF BoundedSeq, SeqOf
  <2> QED BY <2>1
<1>4. Len(policies) = 2 => policies[1].ssrc # policies[2].ssrc
  <2>1. \A i, j \in DOMAIN policies : policies[i].ssrc = policies[j].ssrc => i = j
    BY DEF srtp_create
  <2> QED BY <1>3, <2>1
<1> HIDE DEF begin, one, two, end
<1>5. Distinct(begin.session.list) /\ \A ssrc : ~ Found(begin.session.list, ssrc)
  <2> DEFINE list == begin.session.list
  <2>1. list \in Seq(Entries) /\ DOMAIN list = {}
    BY <1>2
  <2> HIDE DEF list
  <2>2. Distinct(list)
    BY <2>1 DEF Distinct
  <2>3. ASSUME NEW ssrc PROVE ~ Found(list, ssrc)
    BY <2>1, FoundWhen
  <2> QED BY <2>2, <2>3 DEF list
<1>6. session = None
  BY DEF srtp_create
<1>7. Len(policies) >= 1 =>
        /\ Distinct(one.session.list)
        /\ \A ssrc : Found(one.session.list, ssrc) => ssrc = policies[1].ssrc
  BY <1>2, <1>5, AddedDistinct DEF one
<1>8. Len(policies) = 2 => Distinct(two.session.list)
  BY <1>2, <1>3, <1>4, <1>7, AddedDistinct DEF two
<1>9. Distinct(end.session.list)
  BY <1>2, <1>3, <1>5, <1>7, <1>8
<1>10. CASE end.ok
  <2> DEFINE list == end.session.list
  <2>1. session'.list = list /\ Distinct(list)
    BY <1>1, <1>9, <1>10 DEF Becomes, end
  <2> HIDE DEF list
  <2> QED BY <2>1, OneLater
<1>11. CASE ~ end.ok
  <2>1. UNCHANGED session
    BY <1>1, <1>11 DEF end
  <2> QED BY <1>6, <2>1, OneSame DEF OneEach
<1> QED
  BY <1>10, <1>11

-----------------------------------------------------------------------------

LEMMA InitSessionInv == SessionInit => SessionInv
  BY DEF SessionInit, SessionInv, Held, Heaps

LEMMA NextSessionInv ==
  ASSUME SessionInv, [SessionNext]_sessionVars
  PROVE  SessionInv'
<1>1. CASE UNCHANGED sessionVars
  BY <1>1, SameGood DEF sessionVars
<1>2. CASE KernelStep
  BY <1>2, SameGood DEF KernelStep
<1>3. CASE SessionStep
  <2>1. CASE \E policies \in BoundedSeq(Policies, 2) : srtp_create(policies)
    BY <2>1, CreateInv
  <2>2. CASE srtp_dealloc
    BY <2>2, DeallocInv
  <2>3. CASE \E policy \in Policies : AddStream(policy)
    BY <2>3, AddStreamInv
  <2>4. CASE \E ssrc \in Ssrcs : srtp_stream_remove(ssrc)
    BY <2>4, RemoveKept DEF Kept
  <2>5. CASE \E policy \in Policies, luck \in Luck : srtp_stream_update(policy, luck)
    BY <2>5, UpdateStreamKept, UpdateTemplateInv DEF Kept
  <2>6. ASSUME NEW ssrc \in Ssrcs, NEW accepted \in BOOLEAN, SessionProtect(ssrc, accepted)
        PROVE  SessionInv'
    BY <2>6, SessionProtectKept DEF Kept
  <2>7. ASSUME NEW ssrc \in Ssrcs, SessionProtectRtcp(ssrc)
        PROVE  SessionInv'
    BY <2>7, SessionProtectRtcpKept DEF Kept
  <2>8. ASSUME NEW ssrc \in Ssrcs, SessionUnprotect(ssrc)
        PROVE  SessionInv'
    BY <2>8, ReceivesKept DEF Kept, SessionUnprotect
  <2>9. ASSUME NEW ssrc \in Ssrcs, SessionUnprotectRtcp(ssrc)
        PROVE  SessionInv'
    BY <2>9, ReceivesKept DEF Kept, SessionUnprotectRtcp
  <2> QED BY <1>3, <2>1, <2>2, <2>3, <2>4, <2>5, <2>6, <2>7, <2>8, <2>9 DEF SessionStep
<1> QED
  BY <1>1, <1>2, <1>3 DEF SessionNext

LEMMA NextOne ==
  ASSUME SessionInv, OneEach, ~ AddTwice, [SessionNext]_sessionVars
  PROVE  OneEach'
<1>1. CASE UNCHANGED sessionVars
  BY <1>1, OneSame DEF sessionVars
<1>2. CASE KernelStep
  BY <1>2, OneSame DEF KernelStep
<1>3. CASE SessionStep
  <2>1. CASE \E policies \in BoundedSeq(Policies, 2) : srtp_create(policies)
    BY <2>1, CreateOne
  <2>2. CASE srtp_dealloc
    BY <2>2 DEF srtp_dealloc, OneEach, None
  <2>3. CASE \E policy \in Policies : AddStream(policy)
    BY <2>3, AddStreamOne
  <2>4. CASE \E ssrc \in Ssrcs : srtp_stream_remove(ssrc)
    BY <2>4, RemoveKept DEF Kept
  <2>5. CASE \E policy \in Policies, luck \in Luck : srtp_stream_update(policy, luck)
    BY <2>5, UpdateStreamKept, UpdateTemplateOne DEF Kept
  <2>6. ASSUME NEW ssrc \in Ssrcs, NEW accepted \in BOOLEAN, SessionProtect(ssrc, accepted)
        PROVE  OneEach'
    BY <2>6, SessionProtectKept DEF Kept
  <2>7. ASSUME NEW ssrc \in Ssrcs, SessionProtectRtcp(ssrc)
        PROVE  OneEach'
    BY <2>7, SessionProtectRtcpKept DEF Kept
  <2>8. ASSUME NEW ssrc \in Ssrcs, SessionUnprotect(ssrc)
        PROVE  OneEach'
    BY <2>8, ReceivesKept DEF Kept, SessionUnprotect
  <2>9. ASSUME NEW ssrc \in Ssrcs, SessionUnprotectRtcp(ssrc)
        PROVE  OneEach'
    BY <2>9, ReceivesKept DEF Kept, SessionUnprotectRtcp
  <2> QED BY <1>3, <2>1, <2>2, <2>3, <2>4, <2>5, <2>6, <2>7, <2>8, <2>9 DEF SessionStep
<1> QED
  BY <1>1, <1>2, <1>3 DEF SessionNext

LEMMA SessionInductive == SessionSpec => []SessionInv
<1>1. SessionInv /\ [SessionNext]_sessionVars => SessionInv'
  BY NextSessionInv
<1> QED
  BY <1>1, InitSessionInv, PTL DEF SessionSpec

LEMMA OneInductive ==
  ASSUME ~ AddTwice
  PROVE  SessionSpec => [](SessionInv /\ OneEach)
<1>1. SessionInit => OneEach
  BY DEF SessionInit, OneEach
<1>2. SessionInv /\ OneEach /\ [SessionNext]_sessionVars => OneEach'
  BY NextOne
<1> QED
  BY <1>1, <1>2, SessionInductive, PTL DEF SessionSpec

LEMMA InvOwned == Leakless /\ SessionInv => KeysOwned
<1> SUFFICES ASSUME Leakless, SessionInv
             PROVE  KeysOwned
  OBVIOUS
<1>1. CASE session = None
  BY <1>1 DEF SessionInv, Held, KeysOwned
<1>2. CASE session # None
  <2> DEFINE owners == {i \in DOMAIN session.list : session.template = None
                                 \/ session.list[i].keys # session.template.keys}
             shared == IF session.template = None THEN {} ELSE {session.template.keys}
  <2>1. Good(session, heap) /\ shared = Shared(session.template)
    BY <1>2 DEF SessionInv, Shared
  <2>2. InUse(session) \subseteq Blocks
    <3>1. session.list \in Seq(Entries) /\ session.template \in Templates \cup {None}
      BY <2>1 DEF Good, Sessions
    <3>2. \A i \in DOMAIN session.list : session.list[i].keys \in Blocks
      BY <3>1 DEF Entries
    <3>3. Shared(session.template) \subseteq Blocks
      BY <3>1 DEF Shared, Templates
    <3> QED BY <3>2, <3>3 DEF InUse
  <2>3. {b \in Blocks : heap[b] # Unused} = InUse(session)
    BY <2>1, <2>2 DEF Good, Held
  <2>4. InUse(session) = {session.list[i].keys : i \in owners} \cup shared
    BY <2>1 DEF InUse, Shared
  <2>5. \A i, j \in owners : session.list[i].keys = session.list[j].keys => i = j
    BY <2>1 DEF Good, Apart, Shared
  <2> QED BY <1>2, <2>3, <2>4, <2>5 DEF KeysOwned
<1> QED
  BY <1>1, <1>2

LEMMA InvReported == ASSUME ~AcrossUpdates PROVE SessionInv => CollisionsReported
<1> SUFFICES ASSUME SessionInv, session # None, NEW i \in DOMAIN session.list,
                    session.list[i].used = {"sender", "receiver"}
             PROVE  session.list[i].told
  BY DEF CollisionsReported
<1>1. session.list \in Seq(Entries)
  BY DEF SessionInv, Good, Sessions
<1>2. session.list[i] \in Entries
  BY <1>1
<1>3. AcrossUpdates \/ session.list[i].told \/ session.list[i].used \subseteq {session.list[i].dir}
  BY <1>2 DEF Entries
<1> QED
  BY <1>3

LEMMA NextKernel ==
  ASSUME kernel \in KernelType, [SessionNext]_sessionVars
  PROVE  kernel' \in KernelType
<1>1. ASSUME NEW n \in 0 .. Loads
      PROVE  srtp_crypto_kernel_init(n) \in KernelType
  BY DEF srtp_crypto_kernel_init, KernelType
<1>2. CASE KernelStep
  <2>1. CASE srtp_init
    <3>1. Loads \in 0 .. Loads
      BY LoadsAssumption
    <3>2. PICK n \in 0 .. Loads : kernel' = srtp_crypto_kernel_init(n)
      BY <2>1, <3>1 DEF srtp_init
    <3> QED BY <3>2, <1>1
  <2>2. CASE srtp_shutdown
    BY <2>2, LoadsAssumption DEF srtp_shutdown, Insecure, KernelType
  <2> QED BY <1>2, <2>1, <2>2 DEF KernelStep
<1>3. CASE UNCHANGED kernel
  BY <1>3
<1> QED
  BY <1>2, <1>3 DEF SessionNext, sessionVars

LEMMA InvSessionType == kernel \in KernelType /\ SessionInv => SessionTypeOK
<1> SUFFICES ASSUME kernel \in KernelType, SessionInv
             PROVE  SessionTypeOK
  OBVIOUS
<1>1. heap \in [Blocks -> Masters \cup {Unused}]
  BY DEF SessionInv, Heaps
<1>2. ASSUME session # None
      PROVE  /\ session.template \in EntryType(Wildcards) \cup {None}
             /\ session.list \in Seq(EntryType(Ssrcs))
             /\ session.cap \in Capacities
             /\ Len(session.list) <= session.cap
  <2>1. session.template \in Templates \cup {None} /\ session.list \in Seq(Entries)
    BY <1>2 DEF SessionInv, Good, Sessions
  <2>2. Templates \subseteq EntryType(Wildcards) /\ Entries \subseteq EntryType(Ssrcs)
    BY DEF Templates, Entries, EntryType, Indices
  <2>3. session.list \in Seq(EntryType(Ssrcs))
    BY <2>1, <2>2
  <2> QED BY <1>2, <2>1, <2>2, <2>3 DEF SessionInv, Good, Roomy
<1> QED
  BY <1>1, <1>2 DEF SessionTypeOK

\* The streams of a session always fit the array of the list, and the array
\* only ever doubles (srtp_stream_list_insert, also for the second list of an
\* update of the template), whatever is added, cloned, removed, updated or
\* fails: a list has at most a stream for each block and a clone for each SSRC.
THEOREM SessionTypeCorrect == SessionSpec => []SessionTypeOK
<1>1. SessionInit => kernel \in KernelType
  BY LoadsAssumption DEF SessionInit, Insecure, KernelType
<1>2. kernel \in KernelType /\ [SessionNext]_sessionVars => (kernel \in KernelType)'
  BY NextKernel
<1>3. SessionSpec => [](kernel \in KernelType)
  BY <1>1, <1>2, PTL DEF SessionSpec
<1> QED
  BY <1>3, InvSessionType, SessionInductive, PTL

\* The key material on the heap is what the streams of the session name, each
\* block by one stream or by the clones of the template, after any calls and
\* faults but the two that make srtp_update_template_streams leave a session
\* behind (srtp.c: srtp_stream_dealloc, srtp_dealloc, srtp_update).
THEOREM KeysAreOwned ==
  ASSUME Leakless
  PROVE  SessionSpec => []KeysOwned
<1>1. SessionInv => KeysOwned
  BY InvOwned
<1> QED
  BY <1>1, SessionInductive, PTL

\* What the streams name is allocated, and a block has one owner: a stream, or
\* the template with its clones.
KeysInUseHeld ==
  session # None =>
    /\ \A b \in InUse(session) : b \in Blocks /\ heap[b] # Unused
    /\ \A i, j \in DOMAIN session.list :
         i # j /\ session.list[i].keys = session.list[j].keys =>
           session.template # None /\ session.list[i].keys = session.template.keys

\* Nothing is used after it was freed and nothing is freed with another stream
\* still on it, also when an update leaves keys behind (srtp_stream_dealloc:
\* a clone's keys are the template's; stream_update, update_template_streams).
THEOREM KeysInUseAreHeld == SessionSpec => []KeysInUseHeld
<1>1. SessionInv => KeysInUseHeld
  <2> SUFFICES ASSUME SessionInv, session # None
               PROVE  KeysInUseHeld
    BY DEF KeysInUseHeld
  <2>1. Good(session, heap)
    BY DEF SessionInv
  <2>2. InUse(session) \subseteq Blocks
    <3>1. session.list \in Seq(Entries) /\ session.template \in Templates \cup {None}
      BY <2>1 DEF Good, Sessions
    <3>2. \A i \in DOMAIN session.list : session.list[i].keys \in Blocks
      BY <3>1 DEF Entries
    <3>3. Shared(session.template) \subseteq Blocks
      BY <3>1 DEF Shared, Templates
    <3> QED BY <3>2, <3>3 DEF InUse
  <2>3. \A b \in InUse(session) : heap[b] # Unused
    BY <2>1, <2>2 DEF Good, Held
  <2>4. ASSUME NEW i \in DOMAIN session.list, NEW j \in DOMAIN session.list,
               i # j, session.list[i].keys = session.list[j].keys
        PROVE  session.template # None /\ session.list[i].keys = session.template.keys
    BY <2>1, <2>4 DEF Good, Apart, Shared
  <2> QED BY <2>2, <2>3, <2>4 DEF KeysInUseHeld
<1> QED
  BY <1>1, SessionInductive, PTL

\* A stream that has protected and unprotected since it was made, or since an
\* update last made it anew, has reported it (event_ssrc_collision of srtp_protect
\* and srtp_unprotect), whatever fails.  What it did before an update is left out:
\* the update forgets the direction (srtp_stream_init), and with AcrossUpdates
\* TLC shows the collision that nobody is told of.
THEOREM CollisionsAreReported ==
  ASSUME ~ AcrossUpdates
  PROVE  SessionSpec => []CollisionsReported
<1>1. SessionInv => CollisionsReported
  BY InvReported
<1> QED
  BY <1>1, SessionInductive, PTL

-----------------------------------------------------------------------------
\* What an update does when nothing fails.
LEMMA StreamUpdated ==
  ASSUME SessionInv, OneEach, NEW policy \in Policies, policy.ssrc \notin Wildcards,
         srtp_stream_update(policy, "none"), kernel.secure,
         NEW ssrc \in Ssrcs, Found(session.list, ssrc)
  PROVE  "list" \in DOMAIN session' /\
         \E i \in DOMAIN session'.list :
           LET e == session'.list[i]
           IN  /\ e.ssrc = ssrc
               /\ e.index = Stream(ssrc).index /\ e.rtcp = Stream(ssrc).rtcp
               /\ heap'[e.keys] = IF policy.ssrc = ssrc THEN policy.master ELSE MasterOf(ssrc)
<1> DEFINE removed == Removed(State, policy.ssrc)
           added == srtp_stream_add(removed, policy, "none")
           b == Lowest(Room(removed.heap))
           new == NewStream(policy.ssrc, b, "unknown")
           list == session.list
           at == Position(list, policy.ssrc)
           less == RemoveAt(list, at)
           own == Own({list[at]}, session.template)
           last == Position(added.session.list, policy.ssrc)
           old == Stream(policy.ssrc)
           st == [added EXCEPT !.session.list[last] =
                       [@ EXCEPT !.index = old.index, !.rtcp = old.rtcp, !.used = Carried(old)]]
<1>1. /\ session # None /\ Fits(1) /\ Found(list, policy.ssrc)
      /\ Becomes(IF added.ok THEN st ELSE added)
  BY DEF srtp_stream_update, stream_update
<1>2. /\ Whole(State) /\ Good(State.session, State.heap) /\ State.session = session
      /\ Good(session, heap) /\ Distinct(list) /\ State.heap = heap
  BY <1>1, StateNow DEF StateGood, OneEach
<1>3. list \in Seq(Entries) /\ session.template \in Templates \cup {None} /\ heap \in Heaps
  BY <1>2 DEF Good, Sessions
<1>4. /\ Good(removed.session, removed.heap) /\ Whole(removed) /\ Room(removed.heap) # {}
      /\ removed.ok
  BY <1>1, RemovedNow
<1>5. /\ at \in DOMAIN list /\ list[at].ssrc = policy.ssrc
      /\ removed.session.list = less /\ less \in Seq(Entries) /\ Distinct(less)
      /\ ~ Found(less, policy.ssrc)
  BY <1>1, <1>2, RemovedList
<1>6. removed.heap = Freed(heap, own)
  BY <1>2 DEF Removed, Whole
<1> HIDE DEF removed
<1>7. /\ new \in Entries /\ added.ok /\ added.session.list = Append(less, new)
      /\ added.heap = Allocated(removed.heap, policy.master)
  <2>1. /\ new \in Entries /\ added.ok
        /\ added.session.list = Append(removed.session.list, new)
        /\ added.heap = Allocated(removed.heap, policy.master)
    BY <1>4, AddList
  <2> HIDE DEF less, added, new
  <2> QED BY <2>1, <1>5
<1>8. StateGood(added)
  BY <1>4, AddGood
<1> HIDE DEF at, added
<1>9. /\ Len(less) = Len(list) - 1 /\ Len(list) \in Nat /\ DOMAIN list = 1 .. Len(list)
      /\ \A i \in 1 .. Len(list) - 1 : less[i] = list[IF i < at THEN i ELSE i + 1]
  BY <1>3, <1>5, RemoveAtFacts
<1> HIDE DEF less
<1>10. new.ssrc = policy.ssrc /\ new.keys = b
  BY DEF NewStream
<1> HIDE DEF new
<1>11. /\ DOMAIN added.session.list = 1 .. Len(list)
       /\ \A i \in 1 .. Len(list) - 1 :
            added.session.list[i] = list[IF i < at THEN i ELSE i + 1]
       /\ added.session.list[Len(list)] = new /\ added.session.list \in Seq(Entries)
  <2>1. /\ Append(less, new) \in Seq(Entries) /\ Len(less) = Len(list) - 1
        /\ DOMAIN Append(less, new) = 1 .. Len(less) + 1
        /\ \A i \in 1 .. Len(less) : Append(less, new)[i] = less[i]
        /\ Append(less, new)[Len(less) + 1] = new
    BY <1>5, <1>7, <1>9
  <2> QED BY <2>1, <1>7, <1>9
<1>12. last = Len(list)
  <2>1. Distinct(Append(less, new))
    BY <1>5, <1>7, <1>10, AppendDistinct
  <2> DEFINE more == added.session.list
  <2>2. /\ more \in Seq(Entries) /\ Distinct(more) /\ Len(list) \in DOMAIN more
        /\ more[Len(list)].ssrc = policy.ssrc
    BY <2>1, <1>5, <1>7, <1>9, <1>10, <1>11
  <2> HIDE DEF more
  <2>3. Position(more, policy.ssrc) = Len(list)
    BY <2>2, DistinctFound
  <2> QED BY <2>3 DEF more
<1>13. session' = st.session /\ heap' = added.heap
  BY <1>1, <1>7, <1>8 DEF Becomes, StateGood, Whole
<1>21. "list" \in DOMAIN session'
  BY <1>8, <1>13 DEF StateGood, Whole, Good, Sessions
<1> HIDE DEF last
<1>14. /\ \A i \in 1 .. Len(list) - 1 : session'.list[i] = list[IF i < at THEN i ELSE i + 1]
       /\ session'.list[Len(list)] = [new EXCEPT !.index = old.index, !.rtcp = old.rtcp,
                                                 !.used = Carried(old)]
       /\ DOMAIN session'.list = 1 .. Len(list)
  <2>1. at \in 1 .. Len(list) /\ Len(list) \in 1 .. Len(list)
    BY <1>5, <1>9
  <2> DEFINE more == added.session.list
             e == [new EXCEPT !.index = old.index, !.rtcp = old.rtcp, !.used = Carried(old)]
  <2>2. st.session.list = [more EXCEPT ![Len(list)] = e]
    BY <2>1, <1>8, <1>11, <1>12 DEF StateGood, Whole, Good, Sessions
  <2>3. DOMAIN more = 1 .. Len(list) /\ \A i \in 1 .. Len(list) - 1 : more[i] = list[IF i < at THEN i ELSE i + 1]
    BY <1>11
  <2> HIDE DEF more, e, st
  <2> QED BY <1>13, <2>1, <2>2, <2>3, <1>9 DEF e
<1> HIDE DEF st, old
<1>15. own = {list[at].keys} \ Shared(session.template)
  BY DEF Own, Shared
<1> HIDE DEF own
<1>16. /\ removed.heap \in Heaps /\ b \in Blocks /\ removed.heap[b] = Unused
       /\ heap'[b] = policy.master
       /\ \A c \in Blocks : c # b => heap'[c] = removed.heap[c]
  <2>1. removed.heap \in Heaps /\ b \in Blocks /\ removed.heap[b] = Unused
    BY <1>4, LowestFacts DEF Good
  <2> QED BY <2>1, <1>7, <1>13 DEF Allocated, Heaps
<1>17. \A c \in Blocks : c \notin own => removed.heap[c] = heap[c]
  BY <1>6 DEF Freed
<1> HIDE DEF b
<1> DEFINE j == Position(list, ssrc)
<1>18. j \in DOMAIN list /\ list[j].ssrc = ssrc /\ Stream(ssrc) = list[j]
  BY <1>3, PositionFacts DEF Stream
<1> HIDE DEF j
<1>19. CASE policy.ssrc = ssrc
  <2>1. old = Stream(ssrc)
    BY <1>19 DEF old
  <2> DEFINE e == session'.list[Len(list)]
  <2>2. e.ssrc = ssrc /\ e.index = old.index /\ e.rtcp = old.rtcp /\ e.keys = b
    BY <1>7, <1>10, <1>14, <1>19 DEF Entries
  <2>3. Len(list) \in DOMAIN session'.list
    BY <1>5, <1>9, <1>14
  <2> QED BY <2>1, <2>2, <2>3, <1>16, <1>19, <1>21
<1>20. CASE policy.ssrc # ssrc
  <2>1. j # at
    BY <1>5, <1>18, <1>20
  <2> DEFINE i == IF j < at THEN j ELSE j - 1
  <2>2. i \in DOMAIN session'.list /\ session'.list[i] = list[j]
    <3>1. j \in 1 .. Len(list) /\ at \in 1 .. Len(list) /\ Len(list) \in Nat
      BY <1>5, <1>9, <1>18
    <3>2. i \in 1 .. Len(list) - 1 /\ (IF i < at THEN i ELSE i + 1) = j
      BY <2>1, <3>1
    <3> HIDE DEF i
    <3> QED BY <3>1, <3>2, <1>14
  <2>3. list[j].keys \in Blocks
    BY <1>3, <1>18 DEF Entries
  <2>4. heap[list[j].keys] # Unused
    BY <2>3, <1>2, <1>18 DEF Good, Held, InUse
  <2>5. list[j].keys \notin own
    BY <2>1, <1>2, <1>5, <1>15, <1>18 DEF Good, Apart
  <2>6. heap'[list[j].keys] = heap[list[j].keys]
    BY <2>3, <2>4, <2>5, <1>16, <1>17
  <2> HIDE DEF i
  <2> QED BY <2>2, <2>6, <1>18, <1>20, <1>21 DEF MasterOf
<1> QED
  BY <1>19, <1>20, <1>21

LEMMA TemplateUpdated ==
  ASSUME SessionInv, OneEach, NEW policy \in Policies, policy.ssrc \in Wildcards,
         srtp_stream_update(policy, "none"), kernel.secure,
         NEW ssrc \in Ssrcs, Found(session.list, ssrc)
  PROVE  "list" \in DOMAIN session' /\
         \E i \in DOMAIN session'.list :
           LET e == session'.list[i]
           IN  /\ e.ssrc = ssrc
               /\ e.index = Stream(ssrc).index /\ e.rtcp = Stream(ssrc).rtcp
               /\ heap'[e.keys] = IF IsOwn(Stream(ssrc)) THEN MasterOf(ssrc) ELSE policy.master
<1> DEFINE b == Lowest(Room(heap))
           t == NewStream(policy.ssrc, b, "unknown")
           g == Allocated(heap, policy.master)
           list == session.list
           stops == {n \in DOMAIN list : StopsAt(n, "none")}
           renewed == [i \in DOMAIN list |-> Renewed(list[i], t)]
<1>1. stops = {}
  BY DEF StopsAt
<1>2. /\ session # None /\ session.template # None /\ Room(heap) # {} /\ Good(session, heap)
      /\ policy.master \in Masters
  BY FitsOne DEF srtp_stream_update, update_template_streams, SessionInv, Policies
<1>3. /\ session'.list = renewed /\ heap' = Freed(g, {session.template.keys})
      /\ "list" \in DOMAIN session'
  BY <1>1 DEF srtp_stream_update, update_template_streams
<1>4. list \in Seq(Entries) /\ session.template \in Templates /\ heap \in Heaps
  BY <1>2 DEF Good, Sessions
<1> DEFINE i == Position(list, ssrc)
           s == list[i]
<1>5. i \in DOMAIN list /\ s.ssrc = ssrc /\ Stream(ssrc) = s
  BY <1>4, PositionFacts DEF Stream
<1> HIDE DEF i
<1>6. s \in Entries /\ s.keys \in Blocks
  BY <1>4, <1>5 DEF Entries
<1>7. b \in Blocks /\ heap[b] = Unused
  BY <1>2, LowestFacts
<1>8. s.keys # b /\ session.template.keys # b /\ session.template.keys \in Blocks
  <2>1. session.template.keys \in Blocks /\ Shared(session.template) = {session.template.keys}
    BY <1>2, <1>4 DEF Templates, Shared
  <2> QED BY <2>1, <1>2, <1>5, <1>6, <1>7 DEF Good, Held, InUse
<1>9. g[b] = policy.master /\ \A c \in Blocks : c # b => g[c] = heap[c]
  BY <1>4, <1>7 DEF Allocated, Heaps
<1>10. \A c \in Blocks : c # session.template.keys => heap'[c] = g[c]
  BY <1>3 DEF Freed
<1>11. t.keys = b
  BY DEF NewStream
<1> HIDE DEF b, g, t
<1> DEFINE e == Renewed(s, t)
<1>12. i \in DOMAIN session'.list /\ session'.list[i] = e
  BY <1>3, <1>5
<1> HIDE DEF s, renewed
<1>13. /\ e.ssrc = s.ssrc /\ e.index = s.index /\ e.rtcp = s.rtcp
       /\ e.keys = IF IsOwn(s) THEN s.keys ELSE b
  BY <1>6, <1>11 DEF Renewed, Clone, NewStream, Entries
<1>14. heap'[e.keys] = IF IsOwn(s) THEN heap[s.keys] ELSE policy.master
  BY <1>6, <1>7, <1>8, <1>9, <1>10, <1>13 DEF IsOwn
<1> HIDE DEF e
<1> QED
  BY <1>3, <1>5, <1>12, <1>13, <1>14 DEF MasterOf

LEMMA UpdateKeepsPromise ==
  ASSUME SessionInv, OneEach, SessionInv', OneEach', NEW policy \in Policies,
         srtp_stream_update(policy, "none"), kernel.secure,
         NEW ssrc \in Ssrcs, Found(session.list, ssrc)
  PROVE  /\ Found(session'.list, ssrc)
         /\ Stream(ssrc)'.index = Stream(ssrc).index
         /\ Stream(ssrc)'.rtcp = Stream(ssrc).rtcp
         /\ MasterOf(ssrc)' =
              IF \/ policy.ssrc = ssrc
                 \/ policy.ssrc \in Wildcards /\ ~IsOwn(Stream(ssrc))
              THEN policy.master ELSE MasterOf(ssrc)
<1>1. "list" \in DOMAIN session' /\
      \E i \in DOMAIN session'.list :
        LET e == session'.list[i]
        IN  /\ e.ssrc = ssrc
            /\ e.index = Stream(ssrc).index /\ e.rtcp = Stream(ssrc).rtcp
            /\ heap'[e.keys] =
                 IF \/ policy.ssrc = ssrc
                    \/ policy.ssrc \in Wildcards /\ ~IsOwn(Stream(ssrc))
                 THEN policy.master ELSE MasterOf(ssrc)
  <2>1. CASE policy.ssrc \in Wildcards
    <3>1. policy.ssrc # ssrc
      BY <2>1, TagsAssumption
    <3> QED BY <2>1, <3>1, TemplateUpdated
  <2>2. CASE policy.ssrc \notin Wildcards
    BY <2>2, StreamUpdated
  <2> QED BY <2>1, <2>2
<1>2. PICK i \in DOMAIN session'.list :
        LET e == session'.list[i]
        IN  /\ e.ssrc = ssrc
            /\ e.index = Stream(ssrc).index /\ e.rtcp = Stream(ssrc).rtcp
            /\ heap'[e.keys] =
                 IF \/ policy.ssrc = ssrc
                    \/ policy.ssrc \in Wildcards /\ ~IsOwn(Stream(ssrc))
                 THEN policy.master ELSE MasterOf(ssrc)
  BY <1>1
<1>3. session' # None
  BY <1>1 DEF None
<1>4. session'.list \in Seq(Entries) /\ Distinct(session'.list)
  BY <1>3 DEF SessionInv, OneEach, Good, Sessions
<1>5. Found(session'.list, ssrc) /\ Stream(ssrc)' = session'.list[i]
  <2> DEFINE list == session'.list
  <2>1. list \in Seq(Entries) /\ Distinct(list) /\ i \in DOMAIN list /\ list[i].ssrc = ssrc
    BY <1>2, <1>4
  <2> HIDE DEF list
  <2>2. Found(list, ssrc) /\ Position(list, ssrc) = i
    BY <2>1, DistinctFound
  <2>3. Stream(ssrc)' = session'.list[Position(session'.list, ssrc)]
    BY DEF Stream
  <2> QED BY <2>2, <2>3 DEF list
<1>6. MasterOf(ssrc)' = heap'[Stream(ssrc)'.keys]
  BY DEF MasterOf
<1> QED
  BY <1>2, <1>5, <1>6

\* An srtp_update that succeeds leaves every stream its policy is about with the
\* key of the policy, if a stream is not added a second time for its SSRC: of
\* two entries of one SSRC, srtp_stream_update removes and srtp_get_stream finds
\* the first.
THEOREM UpdateAppliesAlways ==
  ASSUME ~ AddTwice
  PROVE  SessionSpec => UpdateApplies
<1>1. (SessionInv /\ OneEach) /\ (SessionInv /\ OneEach)' /\ [SessionNext]_sessionVars =>
        [\A policy \in Policies :
           srtp_stream_update(policy, "none") /\ kernel.secure =>
             \A ssrc \in {s \in Ssrcs : Found(session.list, s)} :
               /\ Found(session'.list, ssrc)
               /\ Stream(ssrc)'.index = Stream(ssrc).index
               /\ Stream(ssrc)'.rtcp = Stream(ssrc).rtcp
               /\ MasterOf(ssrc)' =
                    IF \/ policy.ssrc = ssrc
                       \/ policy.ssrc \in Wildcards /\ ~IsOwn(Stream(ssrc))
                    THEN policy.master ELSE MasterOf(ssrc)]_sessionVars
  BY UpdateKeepsPromise
<1> QED
  BY <1>1, OneInductive, PTL DEF SessionSpec, UpdateApplies
=============================================================================
