SPECIFICATION FairSpec
CONSTANTS
  MaxCalls = 3
  MaxConcurrent = 2
  SubSteps = 1
CHECK_DEADLOCK FALSE
PROPERTY StepPromised
PROPERTY StepEnds
