SPECIFICATION Spec
CONSTANTS
  MaxSteps = 3
  MaxStuckSteps = 2
  MaxExploratorySteps = 3
  SkipVerify = TRUE
  VerifyOnZeroWrites = TRUE
  HasVerify = FALSE
  MaxZeroWriteRefusals = 1
  MaxIdenticalAttempts = 3
  MaxSameToolSteps = 3
  Calls <- BatchCalls
  MaxCalls = 2
  Replies = {"text"}
  Usages = {0}
CHECK_DEADLOCK FALSE
INVARIANT ToldChangesEndRefusals
INVARIANT RepeatsAreRefused
