CONSTANTS
  source = "a.c"
  free = "a.s"
  locked = "locked"
  Files <- MCFiles
  Sources <- MCSources
  Locked <- MCLocked
  Absent = Absent
  SourceText = SourceText
  stdin = stdin
  stdout = stdout
  NULL = NULL
  MaxArguments = 4
  MaxFunctions = 3
SPECIFICATION Spec
INVARIANTS
  TypeOK SuccessMeansWholeOutput FailureLeavesEmptyFiles ErrorsMissed
  CrashesExplained SourceLostNeverCompiled
PROPERTY EndsUnlessEndless
CHECK_DEADLOCK FALSE
