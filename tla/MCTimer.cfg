SPECIFICATION Spec
CONSTANTS
  Wrap = 3
  Modulus = 9
  MaxTime = 10
  MaxBoots = 2
INVARIANTS
  TypeOK
  ReadsTheTime
  BankedToTheTick
CHECK_DEADLOCK FALSE
