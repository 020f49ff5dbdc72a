SPECIFICATION MCSpec
CONSTANTS
  p1 = p1
  p2 = p2
  Programs <- MCPrograms
  Batchings <- MCBatchings
  ExpectedToDiverge <- MCExpectedToDiverge
  Jobs = 2
  MaxInvocations = 2
  Regs <- MCRegs
  CRegs <- MCCRegs
  Mixes <- MCMixes
  MaxItems = 2
  MaxBody = 2
  MaxTrips = 2
  MaxWindow = 2
  TraceRegs <- MCTraceRegs
  Width = 3
  MaxAligned = 3
INVARIANTS ProgramsAgree VerdictSound TraceSound
PROPERTIES ScriptsEnd
CHECK_DEADLOCK FALSE
