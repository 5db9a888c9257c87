CONSTANTS
  N = 2
  MaxTime = 1
  Profiles <- OneWay
  Lookaheads = {0}
  AdvanceModes <- ReceiverModes
  Services = {"ro", "enableAsync", "disableAsync"}
  Unregulated = {}
  Slow = {2}
  Capacity = 1
  MaxMsgs = 2
  MaxFaults = 1
  MaxOwed = 1
SPECIFICATION Spec
INVARIANTS Conserved OrderedDelivery
PROPERTIES GrantCarriesMessages
CHECK_DEADLOCK FALSE
