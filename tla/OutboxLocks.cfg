CONSTANTS
  N = 2
  NStates = 2
  Callers = {c1, c2}
  Free = free
  BatchSize = 2
  BufferSize = 1
  Sends <- NoSend
  Requests <- Pairs
  Closers = {"federation"}
  MaxEvents = 1
SPECIFICATION FairSpec
INVARIANTS OrderedLocks
PROPERTIES CallsEnd
CHECK_DEADLOCK FALSE
