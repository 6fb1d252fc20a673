SPECIFICATION Spec
CONSTANTS
  Capacity = 1
  Threads = {t1}
  Values = {a}
  Raw = Raw
  MaxCalls = 4
  Stalled = Stalled
INVARIANT NeverOverfull
