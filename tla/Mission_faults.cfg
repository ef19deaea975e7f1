SPECIFICATION Spec
CONSTANTS
  MaxFix = 1
  MaxReplans = 1
  MaxRevisions = 2
  HumanGate = FALSE
  HasVerifyCmd = TRUE
  WorkersLinger = TRUE
  MaxPlan = 1
  MaxResumes = 1
  MaxSaveFails = 2
CHECK_DEADLOCK FALSE
INVARIANT TypeOK
INVARIANT DoneIsMeasured
INVARIANT AttemptsBounded
PROPERTY DoneIsVerified
PROPERTY LedgerPromise
