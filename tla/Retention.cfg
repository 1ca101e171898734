SPECIFICATION Spec
CONSTANTS
  w1 = w1
  w2 = w2
  w3 = w3
  Workers <- MCWorkers
  Interval = 2
  MaxTime = 5
  MaxFaults = 2
SYMMETRY MCSymmetry
PROPERTY
  OnePrunePerInterval
