CONSTANTS
  CpPhones = {"iPhone"}
  AaPhones = {"pixel"}
  MaxHasty = 6
  MaxPatient = 9
SPECIFICATION Spec
INVARIANTS ShownIsFrontMain AttentionHasCause AgreeAtRest
PROPERTY Settles
CHECK_DEADLOCK FALSE
