SPECIFICATION Spec
CONSTANTS
  MaxFix = 0
  MaxReplans = 1
  MaxRevisions = 1
  HumanGate = FALSE
  HasVerifyCmd = FALSE
  WorkersLinger = TRUE
  MaxPlan = 1
  MaxResumes = 1
  MaxSaveFails = 0
CHECK_DEADLOCK FALSE
INVARIANT FailedIsReplacedOrFatal
