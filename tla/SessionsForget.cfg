CONSTANTS
  CpLinks = {"cpWifi", "cpUsb"}
  AaLinks = {}
  Phones <- MCPhones
  PhoneOf <- MCPhoneOf
  Cable <- MCCable
  Scenes <- MCOnlyIPhone
  Outrun = {}
  Forgettable = {"cpWifi"}
SPECIFICATION Spec
PROPERTY ForgottenEnds
CHECK_DEADLOCK FALSE
