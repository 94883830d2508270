CONSTANTS
  CpPhones = {"iPhone"}
  AaPhones = {"pixel"}
  MaxHasty = 4
  MaxPatient = 0
SPECIFICATION Spec
PROPERTY LastRequestWins
CHECK_DEADLOCK FALSE
