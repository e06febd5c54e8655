CONSTANTS
  MaxSeq = 1
  MaxMessages = 1
SPECIFICATION Spec
INVARIANTS
  PauseIsShown
CHECK_DEADLOCK FALSE
