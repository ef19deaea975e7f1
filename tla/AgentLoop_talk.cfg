SPECIFICATION Spec
CONSTANTS
  MaxSteps = 5
  MaxStuckSteps = 2
  MaxExploratorySteps = 3
  SkipVerify = FALSE
  VerifyOnZeroWrites = TRUE
  HasVerify = TRUE
  MaxZeroWriteRefusals = 1
  MaxIdenticalAttempts = 3
  MaxSameToolSteps = 3
  Calls <- EditCalls
  MaxCalls = 1
  Replies = {"text", "empty", "truncated", "leaked"}
  Usages = {0, 75, 90}
CHECK_DEADLOCK FALSE
INVARIANT AdvisoriesOnce
INVARIANT StuckIsSaid
INVARIANT FinishIsEarned
PROPERTY PendingSurvives
