----------------------------- MODULE SrtpStream -----------------------------
(***************************************************************************)
(* One SSRC, from the session that protects its RTP and RTCP packets to    *)
(* the session that unprotects them (srtp.c), over a network that loses,   *)
(* repeats and reorders: a packet once sent may arrive at any later time,  *)
(* any number of times, or never.                                          *)
(*                                                                         *)
(* A packet is its kind, the master key it was protected with and its      *)
(* index; on the wire an RTP packet carries the sequence number only, and  *)
(* the rollover counter enters its tag.  The tag of a packet verifies when *)
(* the receiver uses the same key and arrives at the same index.           *)
(***************************************************************************)
EXTENDS SrtpIndex, FiniteSets

CONSTANTS Keys,        \* how many master keys the two sides may go through
          MaxPackets   \* bound: packets on the network

ASSUME KeysAssumption == Keys \in Nat \ {0}

VARIABLES snd,   \* stream of the sending session
          rcv,   \* stream of the receiving session
          sent,  \* [Packets -> Nat]: how often a packet was protected
          got    \* [Packets -> Nat]: how often it was unprotected

vars == <<snd, rcv, sent, got>>

Rtp == [kind : {"rtp"}, key : 1 .. Keys, index : 0 .. Top]
Rtcp == [kind : {"rtcp"}, key : 1 .. Keys, index : 0 .. RtcpLast]
Packets == Rtp \cup Rtcp

net == {p \in Packets : sent[p] > 0}

\* What of srtp_stream_ctx_t the index depends on.  A stream of a template is
\* there only when its first packet has been protected or unprotected.
FreshStream(key) ==
  [up |-> FALSE, key |-> key, index |-> 0, mask |-> {}, pending |-> 0,
   start |-> 0, rtcpMask |-> {}]

Init ==
  /\ snd = FreshStream(1)
  /\ rcv = FreshStream(1)
  /\ sent = [p \in Packets |-> 0]
  /\ got = [p \in Packets |-> 0]

Count(f, p) == [f EXCEPT ![p] = @ + 1]

(***************************************************************************)
(* The index of a packet is accepted: it enters the replay database.  Only *)
(* an index far ahead clears the pending rollover counter.                 *)
(***************************************************************************)
Advance(s, e) ==
  IF e.status = "pkt_idx_adv"
  THEN LET to == srtp_rdbx_set_roc_seq(s.index, s.mask, RocOf(e.est), SeqNumOf(e.est))
           db == srtp_rdbx_add_index(to.index, to.mask, 0)
       IN  [s EXCEPT !.up = TRUE, !.pending = 0, !.index = db.index, !.mask = db.mask]
  ELSE LET db == srtp_rdbx_add_index(s.index, s.mask, e.delta)
       IN  [s EXCEPT !.up = TRUE, !.index = db.index, !.mask = db.mask]

\* bound: no stream runs through all the indices there are; at the end of
\* them the rollover counter would begin again at 0, and the code goes on.
BeforeWrap(s, e) == s.index + e.delta <= Top

Usable(s, e) ==
  \/ e.status = "pkt_idx_adv"
  \/ e.status = "ok" /\ srtp_rdbx_check(s.mask, e.delta) = "ok"

(***************************************************************************)
(* srtp_protect: the application hands over any sequence number.  A call   *)
(* that is refused leaves the stream, new or not, where it was.            *)
(***************************************************************************)
SendEst(seq) == srtp_get_est_pkt_index(snd.index, snd.pending, seq)

srtp_protect(seq) ==
  LET e == SendEst(seq)
      p == [kind |-> "rtp", key |-> snd.key, index |-> e.est]
  IN  /\ Cardinality(net) < MaxPackets
      /\ BeforeWrap(snd, e)
      /\ IF Usable(snd, e)
         THEN snd' = Advance(snd, e) /\ sent' = Count(sent, p)
         ELSE snd' = [snd EXCEPT !.up = TRUE] /\ UNCHANGED sent
      /\ UNCHANGED <<rcv, got>>

(***************************************************************************)
(* srtp_unprotect: without a stream the template stands in, with the       *)
(* sequence number as index and as delta, and no check for a replay.       *)
(***************************************************************************)
RecvEst(seq) ==
  IF rcv.up
  THEN srtp_get_est_pkt_index(rcv.index, rcv.pending, seq)
  ELSE [est |-> seq, delta |-> seq, status |-> "ok"]

Authentic(p, est) == p.key = rcv.key /\ p.index = est

Accepts(p) ==
  LET e == RecvEst(SeqNumOf(p.index))
  IN  (rcv.up => Usable(rcv, e)) /\ Authentic(p, e.est)

srtp_unprotect(p) ==
  /\ p \in net \cap Rtp
  /\ Accepts(p)
  /\ BeforeWrap(rcv, RecvEst(SeqNumOf(p.index)))
  /\ rcv' = Advance(rcv, RecvEst(SeqNumOf(p.index)))
  /\ got' = Count(got, p)
  /\ UNCHANGED <<snd, sent>>

(***************************************************************************)
(* srtp_protect_rtcp and srtp_unprotect_rtcp: the index is in the packet   *)
(***************************************************************************)
srtp_protect_rtcp ==
  LET next == srtp_rdb_increment(snd.start)
      p == [kind |-> "rtcp", key |-> snd.key, index |-> next.start]
  IN  /\ Cardinality(net) < MaxPackets
      /\ snd' = [snd EXCEPT !.up = TRUE, !.start = next.start]
      /\ sent' = IF next.status = "ok" THEN Count(sent, p) ELSE sent
      /\ UNCHANGED <<rcv, got>>

AcceptsRtcp(p) ==
  /\ srtp_rdb_check(rcv.start, rcv.rtcpMask, p.index) = "ok"
  /\ p.key = rcv.key

AdvanceRtcp(s, index) ==
  LET db == srtp_rdb_add_index(s.start, s.rtcpMask, index)
  IN  [s EXCEPT !.up = TRUE, !.start = db.start, !.rtcpMask = db.mask]

srtp_unprotect_rtcp(p) ==
  /\ p \in net \cap Rtcp
  /\ AcceptsRtcp(p)
  /\ rcv' = AdvanceRtcp(rcv, p.index)
  /\ got' = Count(got, p)
  /\ UNCHANGED <<snd, sent>>

(***************************************************************************)
(* srtp_stream_set_roc: only a stream that is there can be told            *)
(***************************************************************************)
SetRoc(s, roc) == [s EXCEPT !.pending = roc]

srtp_stream_set_roc(roc) ==
  \/ snd.up /\ snd' = SetRoc(snd, roc) /\ UNCHANGED <<rcv, sent, got>>
  \/ rcv.up /\ rcv' = SetRoc(rcv, roc) /\ UNCHANGED <<snd, sent, got>>

(***************************************************************************)
(* srtp_update: the stream is made anew with the next master key, and      *)
(* keeps its index and its RTCP database; the RTP window and the pending   *)
(* rollover counter are gone.  A stream of the template that is not there  *)
(* yet has the template's new key.  The sides update when they please.     *)
(***************************************************************************)
\* Mutant: an updated stream begins again.
RekeyedAnew(s) == [FreshStream(s.key + 1) EXCEPT !.up = s.up]

Rekeyed(s) ==
  IF s.up
  THEN [FreshStream(s.key + 1) EXCEPT
          !.up = TRUE, !.index = s.index, !.start = s.start, !.rtcpMask = s.rtcpMask]
  ELSE FreshStream(s.key + 1)

srtp_update ==
  \/ snd.key < Keys /\ snd' = Rekeyed(snd) /\ UNCHANGED <<rcv, sent, got>>
  \/ rcv.key < Keys /\ rcv' = Rekeyed(rcv) /\ UNCHANGED <<snd, sent, got>>

Next ==
  \/ \E seq \in Seqs : srtp_protect(seq)
  \/ \E p \in net : srtp_unprotect(p)
  \/ srtp_protect_rtcp
  \/ \E p \in net : srtp_unprotect_rtcp(p)
  \/ \E roc \in Rocs : srtp_stream_set_roc(roc)
  \/ srtp_update

Spec == Init /\ [][Next]_vars

-----------------------------------------------------------------------------
StreamType ==
  [up : BOOLEAN, key : 1 .. Keys, index : 0 .. Top, mask : SUBSET (0 .. LastBit),
   pending : Rocs, start : 0 .. RtcpLast, rtcpMask : SUBSET (0 .. RtcpWindow - 1)]

\* The streams have the fields of srtp_stream_ctx_t within their ranges: no
\* index beyond 48 bits, no bit outside of its bit vector.
TypeOK ==
  /\ snd \in StreamType
  /\ rcv \in StreamType
  /\ sent \in [Packets -> Nat]
  /\ got \in [Packets -> Nat]

Missing(p) == p \in net /\ got[p] = 0 /\ p.key = rcv.key

\* Both databases together, over rollovers, jumps and updates of either side:
\* no packet that should be playable is refused.  A packet the receiver still
\* misses is accepted if its stream is new and the packet is of the first
\* rollover; if it is inside the window or less than half of the sequence
\* numbers ahead; if the application has set its rollover counter and it is
\* ahead at all; and, for RTCP, unless it lies before the window.
InSync ==
  \A p \in net : Missing(p) =>
    IF p \in Rtp
    THEN (\/ ~rcv.up /\ p.index < SeqMax
          \/ /\ rcv.up /\ rcv.pending = 0
             /\ p.index > rcv.index - Window
             /\ p.index < rcv.index + Median
          \/ /\ rcv.up /\ rcv.pending # 0
             /\ rcv.pending = RocOf(p.index)
             /\ p.index > rcv.index) => Accepts(p)
    ELSE p.index >= rcv.start => AcceptsRtcp(p)

\* The index of a stream and the start of its RTCP window never go back, not
\* by a late packet, a set rollover counter or an update with a new key.
NeverBack ==
  [][/\ snd'.index >= snd.index /\ snd'.start >= snd.start
     /\ rcv'.index >= rcv.index /\ rcv'.start >= rcv.start]_vars

\* The channel that the two sessions promise to be: every index is used for
\* one packet of a key, and what arrives was sent and arrives once.
Channel == INSTANCE SrtpChannel
ImplementsChannel == Channel!Spec
=============================================================================
