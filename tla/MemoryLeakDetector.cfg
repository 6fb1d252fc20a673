SPECIFICATION FairSpec
CONSTANTS
  Threads = {t1, t2}
  Observed = {t1}
  Addrs = {1, 2}
  Requests <- MCRequests
  MaxNew = 2
  MaxResets = 1
  MaxScopes = 2
  NoThread = NoThread
  NoRecord = NoRecord
CHECK_DEADLOCK FALSE
INVARIANTS RecordsLive StatsAgree ScopeSeesLeaks
PROPERTY CallsReturn
