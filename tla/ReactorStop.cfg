SPECIFICATION FairSpec
CONSTANTS
  Workers = 2
  Users = {u1}
  Fds = {f1}
  None = None
  Stoppers = {u1, 0}
  SerialCalls = FALSE
PROPERTY StopReturns
CHECK_DEADLOCK FALSE
