CONSTANTS
  CpLinks = {"cpWifi", "cpUsb"}
  AaLinks = {"aaWifi", "aaUsb", "aaAgain"}
  Phones <- MCPhones
  PhoneOf <- MCPhoneOf
  Cable <- MCCable
  Scenes <- MCScenes
  Outrun = {}
  Forgettable = {"aaUsb", "aaAgain"}
SPECIFICATION Spec
INVARIANTS OneInFront OnlyTheFrontStreams DuckFollowsFront NoGhosts AnnouncedIsListed
CHECK_DEADLOCK FALSE
