SPECIFICATION FairSpec
CONSTANTS
  Calls = {c1, c2}
  Stops = {s1}
  Teardowns = {"deferred", "signal"}
CHECK_DEADLOCK FALSE
INVARIANT StoppedMeansGone
INVARIANT ReturnLeavesNothing
PROPERTY ExitIsLearnt
PROPERTY TeardownEnds
