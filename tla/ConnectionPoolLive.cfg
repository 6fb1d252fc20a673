SPECIFICATION FairSpec
CONSTANTS
  Clients = {a, b, c}
  Cleaner = Cleaner
  Closer = Closer
  Connections = {c1, c2}
  min_idle = 1
  max_size = 1
  MaxCreated = 2
PROPERTIES ShutdownReturns ShutdownEndsCalls
