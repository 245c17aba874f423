------------------------------ MODULE MCMemHis ------------------------------
(* Instances of MemHis for TLC: slices of SliceSize bytes, small records. *)
EXTENDS MemHis
=============================================================================
