SPECIFICATION FilesSpec
CONSTANTS
  Root <- TheRoot
  Nodes <- SomeNodes
  Rels <- SomeRels
  Texts <- SomeTexts
  Snippets <- SomeSnippets
  Ranges <- SomeRanges
  MaxRead = 3
  MaxShown = 2
  MaxChecked = 2
  MinRewriteLines = 2
  Subtasks <- SomeSubtasks
  MaxCalls = 2
  MaxFaults = 1
CHECK_DEADLOCK FALSE
INVARIANT MoveLosesNothing
INVARIANT OnlyTheTargetChanges
INVARIANT AnswersAreTrue
INVARIANT LineNumbersAgree
INVARIANT PassedMeansProduced
