---------------------------- MODULE MCRetention -----------------------------
(* Instances of Retention for TLC. *)
EXTENDS Retention, TLC

CONSTANTS w1, w2, w3

MCWorkers  == {w1, w2, w3}
MCSymmetry == Permutations(MCWorkers)
=============================================================================
