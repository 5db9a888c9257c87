CONSTANTS
  N = 2
  MaxTime = 1
  Profiles <- OneWay
  Lookaheads = {0}
  AdvanceModes <- SenderModes
  Services = {"stall", "retract", "subscribe", "disableConstrained"}
  Unregulated = {}
  Slow = {2}
  Capacity = 1
  MaxMsgs = 2
  MaxFaults = 1
  MaxOwed = 1
SPECIFICATION Spec
INVARIANTS Conserved RetractionReachesAll
PROPERTIES HaltWindsDown
CHECK_DEADLOCK FALSE
