CONSTANTS
  N = 2
  MaxTime = 2
  Profiles <- AllEngaged02
  Lookaheads = {0, 1}
  AdvanceModes <- MixedModes
  Services = {"modifyLookahead"}
  Unregulated = {}
  Slow = {}
  Capacity = 4
  MaxMsgs = 1
  MaxFaults = 0
  MaxOwed = 1
SPECIFICATION Spec
INVARIANTS TypeOK NoPastTSO NoLostWakeup
CHECK_DEADLOCK FALSE
