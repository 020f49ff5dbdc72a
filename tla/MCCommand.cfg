SPECIFICATION MCSpec
CONSTANTS
  Argvs <- MCArgvs
  Digits <- MCDigits
  Kilo = 4
  MaxU32 = 30
  MaxU64 = 60
  DefaultMemory = 16
  Capacity = 2
  MaxLines = 2
  MaxHostCalls = 4
INVARIANTS AcceptedFits ConfigMeansArguments InOrder NothingLost FailureReported
CHECK_DEADLOCK FALSE
