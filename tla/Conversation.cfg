SPECIFICATION Spec
CONSTANTS
  KeepSteps = 2
  Limit = 10
  CompactAt = 6
  MaxTokens = 4
  FirstEstimate = 3
  Margin = 1
  Least = 1
  LargeResult = 4
  MaxCalls = 1
  MaxResponses = 4
  MaxStops = 1
  MaxSaveFails = 1
CHECK_DEADLOCK FALSE
PROPERTY RecentIsKept
INVARIANT FullIsCompacted
INVARIANT ResponseIsOnDisk
INVARIANT HistoryIsWhole
