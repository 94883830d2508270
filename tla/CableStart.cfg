CONSTANTS
  Tries = 2
  MaxAirs = 2
  MaxPlugs = 2
SPECIFICATION Spec
INVARIANTS TypeOK ResetOnce
PROPERTIES StartsOnlyForLeft LeftHearsStart
CHECK_DEADLOCK FALSE
