SPECIFICATION SpecKernels
CONSTANTS
  AP_COL_SIZE = 6
  ByteMod = 8
  Alu <- MCAlu
  InitMemories <- MCInitMemories
  Kernels <- MCKernels
  Dims <- MCDims
  Entries = {2, 3}
  MaxRuns = 2
  Functions <- MCFunctions
  Ops <- MCOps
  Sizes = {0, 1, 6, 7, 11, 12, 18, 24, 48}
  Fills <- MCFills
  MONITOR = 1
  MaxCalls = 2
  N = 4
  Reach = {1, 4}
  KeyRow = 2
  Key = 5
  Other = 3
  MaxSums = 3
INVARIANTS
  PartialSums
  ProductIsGolden
  NewestSlice
  VectorsAreGolden
PROPERTY
  KernelsEnd
