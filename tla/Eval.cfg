SPECIFICATION Spec
CONSTANTS
  j1 = j1
  j2 = j2
  j3 = j3
  Jobs = {j1, j2, j3}
  Exclusive = {j1}
  Missions = {j2}
  JobsN = 2
  Kinds = {"write"}
  ProbeOf <- SomeProbes
  Subagents = {"s1", "s2"}
  Sizes <- SomeSizes
  MaxRequests <- SomeRequests
CHECK_DEADLOCK FALSE
INVARIANT ExclusiveRunsAlone
INVARIANT SummaryCoversAll
INVARIANT ScoreIsHonest
INVARIANT PromptRangeIsExact
