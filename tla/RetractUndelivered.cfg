CONSTANTS
  N = 2
  MaxTime = 2
  Profiles <- OneWay
  Lookaheads = {0}
  AdvanceModes <- TARModes
  Services = {"retract", "subscribe", "disableConstrained"}
  Unregulated = {}
  Slow = {}
  Capacity = 4
  MaxMsgs = 1
  MaxFaults = 0
  MaxOwed = 1
SPECIFICATION Spec
INVARIANTS AskedWasHanded
CHECK_DEADLOCK FALSE
