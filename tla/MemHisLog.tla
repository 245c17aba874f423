----------------------------- MODULE MemHisLog ------------------------------
(***************************************************************************)
(* What the memory history (mem_trace/media_lib_mem_his.c) promises: the   *)
(* file receives the accepted bytes in their order, none twice, none left  *)
(* out, and it is closed only when it holds them all.  A byte is named by  *)
(* its place in the stream of accepted bytes.                              *)
(***************************************************************************)
EXTENDS Naturals, Sequences

VARIABLES
  accepted,  \* how many bytes the writers have handed over
  file,      \* the bytes in the file
  closed     \* the file is closed

logVars == <<accepted, file, closed>>

Init == accepted = 0 /\ file = <<>> /\ closed = FALSE

Accept ==
  /\ ~ closed
  /\ accepted' \in Nat /\ accepted' > accepted
  /\ UNCHANGED <<file, closed>>

\* The next bytes, as many as the implementation likes to write at once.
Sync ==
  /\ ~ closed
  /\ Len(file') \in Len(file) + 1 .. accepted
  /\ file' = [i \in 1 .. Len(file') |-> i]
  /\ UNCHANGED <<accepted, closed>>

Close ==
  /\ ~ closed /\ Len(file) = accepted
  /\ closed' = TRUE
  /\ UNCHANGED <<accepted, file>>

Next == Accept \/ Sync \/ Close
Spec == Init /\ [][Next]_logVars
=============================================================================
