SPECIFICATION Spec
CONSTANTS
  Capacity = 2
  Threads = {t1, t2, t3}
  Values = {a, b}
  Raw = Raw
  MaxCalls = 6
  Stalled = Stalled
SYMMETRY Symmetry
INVARIANTS TypeOK ExclusiveCell ObjectLifetime NeverOverfull DestroyedClean StatsBalance
PROPERTY ImplementsBoundedQueue
