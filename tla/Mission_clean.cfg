SPECIFICATION FairSpec
CONSTANTS
  MaxFix = 1
  MaxReplans = 1
  MaxRevisions = 2
  HumanGate = TRUE
  HasVerifyCmd = FALSE
  WorkersLinger = FALSE
  MaxPlan = 2
  MaxResumes = 0
  MaxSaveFails = 0
CHECK_DEADLOCK FALSE
INVARIANT NothingLeftBehind
PROPERTY RunEnds
