CONSTANTS
  Names = {a, b}
  Labels = {1}
  MaxWork = 1
  Limits <- SavesAndRestarts
SPECIFICATION FairSpec
INVARIANTS TypeOK ConsistentCut InStep SavedIsStored TimeHeldBySave NobodyLeftWaiting MembersFixed
PROPERTIES SaveEnds RestoreEnds Resumes
CHECK_DEADLOCK FALSE
