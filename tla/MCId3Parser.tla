---------------------------- MODULE MCId3Parser -----------------------------
(* Tags for TLC. *)
EXTENDS Id3Parser

Id(first, all, text) == [first |-> first, all |-> all, text |-> text]

\* Title and genre as they are in the versions, a text that is no field, a
\* picture, and a frame that is not kept.
MCIds ==
  {Id("TIT", "TIT2", TRUE), Id("TT2", "", TRUE), Id("TCO", "TCON", TRUE),
   Id("TXX", "TXXX", TRUE), Id("API", "APIC", FALSE), Id("PIC", "", FALSE),
   Id("PRI", "PRIV", FALSE)}
=============================================================================
