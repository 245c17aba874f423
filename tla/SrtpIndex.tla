------------------------------ MODULE SrtpIndex ------------------------------
(***************************************************************************)
(* The packet index arithmetic of libsrtp: how a 48 bit index is guessed   *)
(* from the 16 bit sequence number of a packet (rdbx.c, srtp.c), and the   *)
(* two replay databases, the bit vector of RTP that hangs below the        *)
(* highest index (rdbx.c) and the one of RTCP that stands on the lowest    *)
(* index still in the window (rdb.c).  A bit vector is the set of the      *)
(* positions whose bit is 1.                                               *)
(***************************************************************************)
EXTENDS Integers

CONSTANTS Median,      \* seq_num_median, half of the sequence numbers
          RocMod,      \* how many values a rollover counter has (uint32_t)
          Window,      \* length of the RTP bit vector
          RtcpWindow,  \* rdb_bits_in_bitmask
          RtcpLast     \* window_start at which rdb_increment gives up

(***************************************************************************)
(* srtp_stream_init refuses a window of 0x8000 and more, and               *)
(* bitvector_alloc rounds it up to whole words: at most the median.        *)
(***************************************************************************)
ASSUME MedianAssumption == Median \in Nat \ {0}
ASSUME RocAssumption == RocMod \in Nat \ {0, 1}
ASSUME WindowAssumption == Window \in 1 .. Median
ASSUME RtcpAssumption == RtcpWindow \in Nat \ {0} /\ RtcpLast \in Nat

SeqMax == 2 * Median
Top == RocMod * SeqMax - 1

Seqs == 0 .. SeqMax - 1
Rocs == 0 .. RocMod - 1

RocOf(index) == index \div SeqMax
SeqNumOf(index) == index % SeqMax

(***************************************************************************)
(* Guessing the index of a packet with sequence number s                   *)
(***************************************************************************)
\* Mutant: a packet of the rollover before is not looked for.
GuessRocForward(local, s) ==
  IF SeqNumOf(local) >= Median /\ SeqNumOf(local) - Median > s
  THEN RocOf(local) + 1 ELSE RocOf(local)

\* The rollover counter whose index for s is closest to local; a uint32_t.
GuessRoc(local, s) ==
  IF SeqNumOf(local) < Median
  THEN IF s - SeqNumOf(local) > Median THEN RocOf(local) - 1 ELSE RocOf(local)
  ELSE IF SeqNumOf(local) - Median > s THEN RocOf(local) + 1 ELSE RocOf(local)

srtp_index_guess(local, s) ==
  [est    |-> (GuessRoc(local, s) % RocMod) * SeqMax + s,
   delta  |-> (GuessRoc(local, s) - RocOf(local)) * SeqMax + s - SeqNumOf(local),
   status |-> "ok"]

srtp_rdbx_estimate_index(local, s) ==
  IF local > Median
  THEN srtp_index_guess(local, s)
  ELSE [est |-> s, delta |-> s - local, status |-> "ok"]

\* The rollover counter is known: it was set with srtp_stream_set_roc.
srtp_estimate_index(local, roc, s) ==
  LET est == roc * SeqMax + s
  IN  IF est - local > Median THEN [est |-> est, delta |-> 0, status |-> "pkt_idx_adv"]
      ELSE IF local - est > Median THEN [est |-> est, delta |-> 0, status |-> "pkt_idx_old"]
      ELSE [est |-> est, delta |-> est - local, status |-> "ok"]

\* A pending rollover counter of 0 is none.
srtp_get_est_pkt_index(local, pending, s) ==
  IF pending # 0
  THEN srtp_estimate_index(local, pending, s)
  ELSE srtp_rdbx_estimate_index(local, s)

(***************************************************************************)
(* The RTP replay database: the last bit is the highest index              *)
(***************************************************************************)
LastBit == Window - 1

\* Mutant: what is shifted out at the bottom stays.
LeftShiftWrapped(mask, shift) == {b - shift : b \in mask}

bitvector_left_shift(mask, shift) == {b - shift : b \in {c \in mask : c >= shift}}

srtp_rdbx_check(mask, delta) ==
  IF delta > 0 THEN "ok"
  ELSE IF LastBit + delta < 0 THEN "replay_old"
  ELSE IF LastBit + delta \in mask THEN "replay_fail"
  ELSE "ok"

\* Mutant: the bit of a late packet is not set.
AddIndexAhead(index, mask, delta) ==
  IF delta > 0
  THEN [index |-> index + (delta % SeqMax),
        mask  |-> bitvector_left_shift(mask, delta) \cup {LastBit}]
  ELSE [index |-> index, mask |-> mask]

\* The index advances by the delta, cast to a uint16_t.
srtp_rdbx_add_index(index, mask, delta) ==
  IF delta > 0
  THEN [index |-> index + (delta % SeqMax),
        mask  |-> bitvector_left_shift(mask, delta) \cup {LastBit}]
  ELSE [index |-> index, mask |-> mask \cup {LastBit + delta}]

\* Moving to an index of another rollover counter forgets the window.
srtp_rdbx_set_roc_seq(index, mask, roc, seq) ==
  IF roc < RocOf(index)
  THEN [index |-> index, mask |-> mask]
  ELSE [index |-> roc * SeqMax + seq, mask |-> {}]

(***************************************************************************)
(* The RTCP replay database: the first bit is the index start              *)
(***************************************************************************)
srtp_rdb_check(start, mask, p_index) ==
  IF p_index >= start + RtcpWindow THEN "ok"
  ELSE IF p_index < start THEN "replay_old"
  ELSE IF p_index - start \in mask THEN "replay_fail"
  ELSE "ok"

srtp_rdb_add_index(start, mask, p_index) ==
  LET delta == p_index - start
      shift == delta - (RtcpWindow - 1)
  IN  IF p_index < start THEN [start |-> start, mask |-> mask]
      ELSE IF delta < RtcpWindow THEN [start |-> start, mask |-> mask \cup {delta}]
      ELSE [start |-> start + shift,
            mask  |-> bitvector_left_shift(mask, shift) \cup {RtcpWindow - 1}]

\* The sender of RTCP only counts: "ok" with the next start, or the key is done.
srtp_rdb_increment(start) ==
  IF start >= RtcpLast
  THEN [start |-> start, status |-> "key_expired"]
  ELSE [start |-> start + 1, status |-> "ok"]
=============================================================================
