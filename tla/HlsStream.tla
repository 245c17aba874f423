----------------------------- MODULE HlsStream ------------------------------
(***************************************************************************)
(* What the GMF reader of esp_hls_stream promises (README.md:45,           *)
(* "applications read a continuous byte stream through the GMF I/O         *)
(* interface"): from the place of the last open or seek the bytes come in  *)
(* order, none twice and none left out, whatever segments and frames they  *)
(* arrived in, and the end is reported only when all have been given.      *)
(* A byte is named by its place in the stream.                             *)
(***************************************************************************)
EXTENDS Naturals, Sequences

CONSTANTS
  Total,   \* bytes of the stream
  SeekTo   \* places a seek can lead to

VARIABLES
  from,    \* where reading began
  given,   \* the bytes given since
  ended    \* the end was reported

streamVars == <<from, given, ended>>

Init == from = 0 /\ given = <<>> /\ ended = FALSE

\* A read gives the next bytes; the last ones may come with the end.
Give ==
  /\ Len(given') \in Len(given) + 1 .. Total - from
  /\ given' = [i \in 1 .. Len(given') |-> from + i - 1]
  /\ ended' \in {ended, from + Len(given') = Total}
  /\ UNCHANGED from

\* A read gives none, as there are none.
End ==
  /\ from + Len(given) = Total
  /\ ended' = TRUE
  /\ UNCHANGED <<from, given>>

Restart == from' \in SeekTo \cup {0} /\ given' = <<>> /\ ended' = FALSE

Next == Give \/ End \/ Restart
Spec == Init /\ [][Next]_streamVars
=============================================================================
