SPECIFICATION FairSpec
CONSTANTS
  Capacity = 2
  Threads = {t1, t2, t3}
  Values = {a}
  Raw = Raw
  MaxCalls = 4
  Stalled = t3
PROPERTY NonBlocking
