SPECIFICATION Spec
CONSTANTS
  w1 = w1
  w2 = w2
  often = often
  seldom = seldom
  Workers <- MCWorkers
  Ids <- MCIds
  Every <- MCEvery
  Grace = 0
  MaxTime = 2
  MaxFaults = 2
INVARIANTS
  FiredOnce
  NoneForgotten
PROPERTIES
  DueIsTaken
