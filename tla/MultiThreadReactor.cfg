SPECIFICATION FairSpec
CONSTANTS
  Workers = 2
  Users = {u1}
  Fds = {f1}
  None = None
  Stoppers = {u1, 0}
  SerialCalls = TRUE
INVARIANTS OwnersAgree StopJoinsWorkers
PROPERTY StopReturns
