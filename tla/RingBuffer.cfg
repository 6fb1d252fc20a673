SPECIFICATION FairSpec
CONSTANTS
  Capacity = 2
  Threads = {t1, t2, t3}
  Observed = {t1}
  Values = {a, b}
  Raw = Raw
INVARIANTS Occupancy NoLostWakeup
PROPERTIES ImplementsBoundedQueue CloseWakesAll WaitEnds
