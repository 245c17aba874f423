----------------------------- MODULE MCMemTrace -----------------------------
(* Instances of MemTrace for TLC. *)
EXTENDS MemTrace, TLC

\* Tasks are interchangeable and so are addresses (safety runs only).
Symmetry == Permutations(Task) \cup Permutations(Addr)
=============================================================================
