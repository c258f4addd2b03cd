SPECIFICATION ProgramSpec
CONSTANTS
  AP_COL_SIZE = 2
  ByteMod = 4
  Alu <- MCAlu
  InitMemories <- MCInitMemories
  Callable <- ProgramFns
  Commands = {0, 4, 6, 9}
  Columns = {0, 7}
  Selectors = {0, 3, 7}
  Vectors <- MCVectors
  MaxCalls = 4
  MAX_RESULTS = 1
  Programs = {"left", "both", "sequence"}
INVARIANTS
  CpuWaitsForEngine
  InterfaceLockedWhileBusy
PROPERTIES
  PromiseKept
  CallsReturn
