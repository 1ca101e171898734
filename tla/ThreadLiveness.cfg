SPECIFICATION FairSpec
CONSTANTS
  w1 = w1
  w2 = w2
  w3 = w3
  none = none
  plan = plan
  auto = auto
  Workers <- MCWorkers
  Modes <- MCModes1
  NoMode = none
  MaxTurns = 2
  Faults = {"raise", "load", "refuse", "query", "silent", "post", "bumpack", "settle", "cap", "save", "saveack", "crash", "replace", "unlock"}
  MaxFaults = 1
\* The bounds on turns and failures stop the system.
CHECK_DEADLOCK FALSE
PROPERTIES
  IdleSessionsAreSwept
  TurnsEnd
