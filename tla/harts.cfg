SPECIFICATION Spec
CONSTANTS
  MAX_HARTS = 6
  BootHart = 3
INVARIANTS
  NoneBeforeInitialised
  AllArrived
PROPERTY
  AllStart
