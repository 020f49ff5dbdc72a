SPECIFICATION MCSpec
CONSTANTS
  BYTE = 4
  MemSize = 12
  NumRegs = 3
  CountMod = 600
  CacheEntries = 2
  Decode <- MCDecode
  Alu <- MCAlu
  Programs <- Patches
  HostWrites <- MemWrites
  HostRegs <- MemRegs
  HostPcs <- MemPcs
  Limits = {}
  StepCounts = {}
  Images <- MemImages
  ReadLengths <- MemLengths
  Guests <- MemGuests
  MaxCalls = 6
INVARIANTS TypeOK ReservationValid X0Zero CacheCoherent ImageRestorable StopPcNamesTheStop FaultExplained
PROPERTIES FaultChangesNothing ReservedWordStable GuestPcEven
CHECK_DEADLOCK FALSE
