SPECIFICATION Spec
CONSTANTS
  w1 = w1
  w2 = w2
  r1 = r1
  r2 = r2
  c1 = c1
  c2 = c2
  c3 = c3
  boss = boss
  ops = ops
  deploy = deploy
  Workers <- MCWorkers
  Requests <- MCRequests
  Clicks <- MCClicks1
  Users <- MCUsers
  Topics <- MCTopics
  Souls <- MCSouls
  EnvApprovers = {}
  System = system
  Faults = {"raise", "ack", "update", "drop", "crash"}
  MaxFaults = 2
\* Everything may be decided, and every click used up.
CHECK_DEADLOCK FALSE
SYMMETRY MCSymmetry
INVARIANTS
  RunsOnApproval
  ButtonsWork
  NoLostWakeup
  RetiredIsDecided
  PendingCountsWaits
