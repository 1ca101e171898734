---------------------------- MODULE MCSchedules -----------------------------
(* Instances of Schedules for TLC: one schedule that is due at every instant *)
(* and one that is due at every other.                                       *)
EXTENDS Schedules

CONSTANTS w1, w2, often, seldom

MCWorkers == {w1, w2}
MCIds     == {often, seldom}
MCEvery   == [s \in MCIds |-> IF s = often THEN 1 ELSE 2]
=============================================================================
