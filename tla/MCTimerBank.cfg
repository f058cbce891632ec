SPECIFICATION Spec
CONSTANTS
  Wrap = 3
  Modulus = 9
  MaxTime = 10
  MaxBoots = 2
INVARIANT BanksOnlyElapsedTime
CHECK_DEADLOCK FALSE
