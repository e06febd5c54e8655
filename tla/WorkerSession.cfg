CONSTANTS
  MaxSeq = 2
  MaxMessages = 5
SPECIFICATION Spec
INVARIANTS
  TypeOK
  OneWakeQueued
  ChangeNotLost
  CheckpointHolds
PROPERTIES
  ChangeReachesCycle
  SessionEnds
CHECK_DEADLOCK FALSE
