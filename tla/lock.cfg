SPECIFICATION Spec
CONSTANTS
  Hart = {h1, h2, h3}
  Initialiser = h1
  MaxBackoff = 2
  Exponent = 2
  Versions = 3
INVARIANTS MutualExclusion NoUpdateLost
PROPERTY SomeoneProgresses

