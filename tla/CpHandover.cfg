CONSTANTS
  AirLinks = {"air"}
  CableLinks = {"cable"}
  Metas = {"meta"}
  Phones = {"iPhone"}
  PhoneOf <- MCPhoneOf
  MaxSessions = 2
  MaxQueue = 2
SPECIFICATION Spec
INVARIANTS TypeOK LeavingIsOnCable EndsAreTold AgreeAtRest
PROPERTY RefinesSessions
CHECK_DEADLOCK FALSE
