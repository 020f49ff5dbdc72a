SPECIFICATION X0Spec
CONSTANTS
  BYTE = 4
  MemSize = 12
  NumRegs = 3
  CountMod = 6
  CacheEntries = 0
  Decode <- MCDecode
  Alu <- MCAlu
  Programs <- X0Programs
  HostWrites = {}
  HostRegs <- X0Regs
  HostPcs = {}
  Limits = {}
  StepCounts = {}
  Images = {}
  ReadLengths = {}
PROPERTY FaultChangesNothing
CHECK_DEADLOCK FALSE
