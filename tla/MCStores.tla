------------------------------ MODULE MCStores ------------------------------
(* An instance of Stores for TLC. *)
EXTENDS Stores, TLC

CONSTANTS t1, t2, s1, s2, c1, c2

MCThreads  == {t1, t2}
MCSids     == {s1, s2}
MCScheduleIds == {c1, c2}
MCSymmetry ==
  Permutations(MCThreads) \cup Permutations(MCSids) \cup Permutations(MCScheduleIds)
=============================================================================
