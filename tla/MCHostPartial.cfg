SPECIFICATION MCSpec
CONSTANTS
  BYTE = 4
  MemSize = 16
  NumRegs = 6
  CountMod = 600
  CacheEntries = 2
  Decode <- MCDecode
  Alu <- MCAlu
  Programs = {}
  HostWrites = {}
  HostRegs <- ArgRegs
  HostPcs = {}
  Limits <- RunLimits
  StepCounts = {}
  Images <- UsedImages
  ReadLengths <- AllRead
  elf_header_len = 4
  program_header_len = 2
  Files <- ElfFiles
  A0 = 3
  A1 = 2
  A2 = 4
  A7 = 5
  ReadCall = 63
  WriteCall = 64
  ExitCalls = {93, 94}
  Ebadf = 247
  Efault = 242
  Input <- ThreeBytes
  MaxCalls = 12
PROPERTIES WriteAllOrNothing
CHECK_DEADLOCK FALSE
