--------------------------- MODULE MCThreadSession ---------------------------
(* Instances of ThreadSession for TLC. *)
EXTENDS ThreadSession, TLC

CONSTANTS w1, w2, w3, none, plan, auto

MCWorkers == {w1, w2}
MCWorkers3 == {w1, w2, w3}
MCModes1  == {none}
MCModes   == {none, plan}
MCModes3  == {none, plan, auto}

\* Workers are interchangeable: no action or safety property tells them apart.
MCSymmetry  == Permutations(MCWorkers)
MCSymmetry3 == Permutations(MCWorkers3)

\* A state constraint that picks out the schedule on which a refused resume makes a
\* divergent branch look current (README.md, "Other divergences"): who takes each turn,
\* with no sweep in between.
TakenBy == <<w1, w1, w2, w3, w1, w2, w1>>

OnSchedule ==
  \A w \in Workers : /\ pc[w] # "idle" => TakenBy[cur[w]] = w
                     /\ ~idle[w] /\ spc[w] = "idle"
=============================================================================
