SPECIFICATION Spec
CONSTANTS
  Answers <- SmallAnswers
  Candidates = 2
  MaxSubtasks = 2
  Norm <- Normalized
  Needle <- Unquote
  Existing = {"old"}
  Dirs = {"dir"}
  Distinctive = {"func"}
  Vacuous = {"echo"}
  Mutating = {"touch"}
  Unsatisfiable = {"go test x_test.go"}
  Missing = {"grep"}
  Strong = {"go build"}
CHECK_DEADLOCK FALSE
INVARIANT BestIsKept
INVARIANT NothingIsWasted
INVARIANT NoBlindChecks
INVARIANT ChecksDiffer
INVARIANT ChangesAreAnnounced
