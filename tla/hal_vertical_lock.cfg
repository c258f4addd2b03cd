SPECIFICATION ProgramSpec
CONSTANTS
  AP_COL_SIZE = 2
  ByteMod = 4
  Alu <- MCAlu
  InitMemories <- MCInitMemories
  Callable <- ProgramFns
  Commands = {4}
  Columns = {0, 7}
  Selectors = {3}
  Vectors <- MCVectors
  MaxCalls = 3
  MAX_RESULTS = 1
  Programs = {"vertical"}
INVARIANT
  InterfaceLockedWhileBusy
