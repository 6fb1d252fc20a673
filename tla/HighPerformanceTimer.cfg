SPECIFICATION FairSpec
CONSTANTS
  Clients = {c1}
  Workers = {w1, w2}
  Scheduler = Scheduler
  Shutters = {c1, w1}
  Intervals = {1}
  Never = Never
  MaxTimers = 2
  MaxDelay = 1
  MaxLag = 1
  Horizon = 2
INVARIANTS HeapTracksTimers NoOversleep ShutdownDrains
PROPERTIES CancelIsFinal ShutdownReturns DueFires QueuedRun
