CONSTANTS
  N = 3
  MaxTime = 2
  Profiles <- LateRegulator
  Lookaheads = {0}
  AdvanceModes <- LateModes
  Services = {"enable"}
  Unregulated = {}
  Slow = {}
  Capacity = 4
  MaxMsgs = 2
  MaxFaults = 0
  MaxOwed = 1
SPECIFICATION Spec
INVARIANTS NoPastTSO
CHECK_DEADLOCK FALSE
