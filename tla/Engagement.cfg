CONSTANTS
  N = 2
  MaxTime = 1
  Profiles <- Unengaged
  Lookaheads = {0, 1}
  AdvanceModes <- TARModes
  Services = {"enable", "disable", "resign"}
  Unregulated = {2}
  Slow = {}
  Capacity = 4
  MaxMsgs = 1
  MaxFaults = 0
  MaxOwed = 2
SPECIFICATION Spec
INVARIANTS NoPastTSO NoLostWakeup
PROPERTIES TimeNeverRegresses
CHECK_DEADLOCK FALSE
