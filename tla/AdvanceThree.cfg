CONSTANTS
  N = 3
  MaxTime = 2
  Profiles <- Threes
  Lookaheads = {0}
  AdvanceModes <- NextOrFlush
  Services = {"retract"}
  Unregulated = {}
  Slow = {}
  Capacity = 4
  MaxMsgs = 1
  MaxFaults = 0
  MaxOwed = 2
SPECIFICATION Spec
INVARIANTS HorizonCoversFrontier NoGridlock NoLostWakeup
PROPERTIES LoopTerminates
CHECK_DEADLOCK FALSE
