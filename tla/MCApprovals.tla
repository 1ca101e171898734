----------------------------- MODULE MCApprovals -----------------------------
(* Instances of Approvals for TLC. *)
EXTENDS Approvals, TLC

CONSTANTS w1, w2, r1, r2, c1, c2, c3, boss, ops, deploy

MCWorkers1  == {w1}
MCWorkers   == {w1, w2}
MCRequests1 == {r1}
MCRequests  == {r1, r2}
MCClicks1   == {c1}
MCClicks    == {c1, c2}
MCClicks3   == {c1, c2, c3}
MCUsers     == {boss, ops}
MCTopics    == {deploy}

\* An approver for deploys with a manager behind, and a soul that failed to parse.
MCSouls == {[approvers |-> {[user |-> ops, scope |-> {deploy}, catchall |-> FALSE]},
             manager   |-> {boss}],
            [approvers |-> {}, manager |-> {}]}

\* Requests, clicks and workers are interchangeable.
MCSymmetry == Permutations(MCWorkers) \cup Permutations(MCRequests)
              \cup Permutations(MCClicks3)
=============================================================================
