SPECIFICATION Spec
CONSTANTS
  HelperKeys = {"wireless"}
  OtherKeys = {"volume"}
  Values = {0, 1}
  Default = 0
  Clients = {c1, c2}
  Phones = {p}
  MaxRestarts = 1
  Budget <- MCBudget
INVARIANTS Kept HelperFollows WakesUp
PROPERTIES NotUnderPhone GoesLive
CHECK_DEADLOCK FALSE
