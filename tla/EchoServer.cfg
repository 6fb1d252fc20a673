SPECIFICATION FairSpec
CONSTANTS
  Fds = {0, 1, 2}
  max_events = 2
  NoClient = NoClient
  NConns = 2
  MaxBytes = 3
  SndBuf = 1
  Chunk = 1
CHECK_DEADLOCK FALSE
INVARIANTS EchoInOrder WriteInterestExact TablesAgree
PROPERTIES Delivered StopWakesLoop
