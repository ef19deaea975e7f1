SPECIFICATION Spec
CONSTANTS
  Procs = {p1, p2}
  Pids = {n1, n2}
  Flags <- SomeFlags
  Servers <- SomeServers
  MaxStarts = 3
  MaxChanges = 1
  NoPid = NoPid
  NoFile = NoFile
  NoStamp = NoStamp
  NoFlag = NoFlag
CHECK_DEADLOCK FALSE
INVARIANT OneAtATime
INVARIANT MeasuredAsMeant
INVARIANT RecordNamesNoOther
