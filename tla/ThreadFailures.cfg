SPECIFICATION Spec
CONSTANTS
  w1 = w1
  w2 = w2
  w3 = w3
  none = none
  plan = plan
  auto = auto
  Workers <- MCWorkers
  Modes <- MCModes
  NoMode = none
  MaxTurns = 4
  Faults = {"raise", "refuse", "query", "post", "bumpack", "cap", "save", "saveack", "crash", "replace"}
  MaxFaults = 1
\* The bounds on turns and failures stop the system.
CHECK_DEADLOCK FALSE
SYMMETRY MCSymmetry
INVARIANTS
  OneAtATime
  AnswersFromTheStoresHistory
  ArchivedMeansSaved
  LiveFileOnDisk
  AnswersInTheThreadsMode
  AnswersDurable
PROPERTIES
  StoreNeverRewinds
  ImplementsThreadMemory
