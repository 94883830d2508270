CONSTANTS
  Lsp <- TwoLsp
  FirstPsn = 254
  MaxOut = 5
  MaxIn = 2
  MaxFaults = 1
  Cap = 3
SPECIFICATION Spec
INVARIANTS TypeOK Watched Kept AckedIsDelivered WindowBound Undisturbed InOrder
PROPERTIES Arrives
CHECK_DEADLOCK FALSE
