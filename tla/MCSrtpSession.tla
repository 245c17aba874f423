---- MODULE MCSrtpSession ----
EXTENDS SrtpSession, TLC
Alike == Permutations(Ssrcs) \cup Permutations(Masters)
====
