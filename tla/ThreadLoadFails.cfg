SPECIFICATION Spec
CONSTANTS
  w1 = w1
  w2 = w2
  w3 = w3
  none = none
  plan = plan
  auto = auto
  Workers <- MCWorkers
  Modes <- MCModes
  NoMode = none
  MaxTurns = 5
  Faults = {"save", "load"}
  MaxFaults = 2
\* The bounds on turns and failures stop the system.
CHECK_DEADLOCK FALSE
SYMMETRY MCSymmetry
PROPERTIES
  StoreNeverRewinds
