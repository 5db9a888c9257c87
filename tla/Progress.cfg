CONSTANTS
  N = 3
  MaxTime = 1
  Profiles <- LastRegulates
  Lookaheads = {0}
  AdvanceModes <- OthersAdvance
  Services = {"disableConstrained"}
  Unregulated = {}
  Slow = {1, 2}
  Capacity = 1
  MaxMsgs = 1
  MaxFaults = 1
  MaxOwed = 1
SPECIFICATION FairSpec
PROPERTIES RequestsResolved HeldMessagesLeave
CHECK_DEADLOCK FALSE
