SPECIFICATION Spec
CONSTANTS
  Clients = {a, b, c, d}
  Cleaner = Cleaner
  Closer = Closer
  Connections = {c1, c2, c3, c4}
  min_idle = 1
  max_size = 2
  MaxCreated = 3
SYMMETRY Symmetry
INVARIANTS Accounting SoleOwner NoLostWakeup ShutdownFinal
