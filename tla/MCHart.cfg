SPECIFICATION HartSpec
CONSTANTS
  BYTE = 4
  MemSize = 12
  NumRegs = 3
  CountMod = 6
  CacheEntries = 2
  Decode <- MCDecode
  Alu <- MCAlu
  Programs <- RunPrograms
  HostWrites <- IsaWrites
  HostRegs <- IsaRegs
  HostPcs = {4, 5}
  Limits <- RunLimits
  StepCounts = {0, 1, 3, 7}
  Images <- IsaImages
  ReadLengths <- IsaLengths
  Guests <- IsaGuests
  MaxCalls = 6
INVARIANTS RunWithinLimit
PROPERTIES ImplementsHart RunReturns
CHECK_DEADLOCK FALSE
