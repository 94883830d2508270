CONSTANTS
  Lsp <- TwoLsp
  FirstPsn = 254
  MaxOut = 5
  MaxIn = 0
  MaxFaults = 0
  Cap = 3
SPECIFICATION Spec
INVARIANT HeardInOrder
CHECK_DEADLOCK FALSE
