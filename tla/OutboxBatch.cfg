CONSTANTS
  N = 1
  NStates = 1
  Callers = {c1}
  Free = free
  BatchSize = 3
  BufferSize = 2
  Sends <- EverySend
  Requests <- EveryBatch
  Closers = {"cancel", "unbind"}
  MaxEvents = 4
SPECIFICATION FairSpec
INVARIANTS TypeOK NothingStranded ReservationHolds InOrder
PROPERTIES EventsArrive
CHECK_DEADLOCK FALSE
