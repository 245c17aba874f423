------------------------------ MODULE MCHlsRead -----------------------------
(* Instances of HlsRead for TLC: a stream of two segments and odd sizes.   *)
EXTENDS HlsRead
=============================================================================
