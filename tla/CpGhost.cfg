CONSTANTS
  AirLinks = {"air"}
  CableLinks = {"cable"}
  Metas = {"meta"}
  Phones = {"iPhone"}
  PhoneOf <- MCPhoneOf
  MaxSessions = 2
  MaxQueue = 2
SPECIFICATION Spec
INVARIANT NoGhosts
CHECK_DEADLOCK FALSE
