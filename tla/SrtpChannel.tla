----------------------------- MODULE SrtpChannel -----------------------------
(***************************************************************************)
(* What two libsrtp sessions promise about the packets of an SSRC: an      *)
(* index protects one packet of a master key, so no keystream is used      *)
(* twice, and a packet comes out of the receiver only if the sender made   *)
(* it, and at most once.  Packets may be lost and may overtake each other. *)
(***************************************************************************)
EXTENDS Naturals

CONSTANTS Packets

VARIABLES sent, got

Init ==
  /\ sent = [p \in Packets |-> 0]
  /\ got = [p \in Packets |-> 0]

Send(p) ==
  /\ sent[p] = 0
  /\ sent' = [sent EXCEPT ![p] = 1]
  /\ UNCHANGED got

Deliver(p) ==
  /\ sent[p] = 1
  /\ got[p] = 0
  /\ got' = [got EXCEPT ![p] = 1]
  /\ UNCHANGED sent

Next == \E p \in Packets : Send(p) \/ Deliver(p)

Spec == Init /\ [][Next]_<<sent, got>>
=============================================================================
