SPECIFICATION Spec
CONSTANTS
  LowSize = 4
  Headroom = 2
  DefaultDelay = 2
  Interval = 3
  MaxExcess = 1
  Estimates = {0, 1, 3}
  Reports = {0, 4}
  Estimators = {FALSE, TRUE}
  MaxLead = 3
INVARIANTS
  TypeOK
  DistancesTrue
  RingsMirrored
  DelayApplied
