SPECIFICATION Spec
CONSTANTS
  Budget <- MCBudget
INVARIANTS LastWord PictureFollows
PROPERTIES SetsUp CloseEnds AwayEnds
CHECK_DEADLOCK FALSE
