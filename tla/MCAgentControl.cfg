CONSTANTS
  r1 = r1
  r2 = r2
  Op <- Requests
  Status = {"idle"}
  MaxConn = 2
  Scopes <- Pairs
SPECIFICATION Spec
INVARIANTS
  TypeOK
  LiveIsReachable
  RecordedWasServed
PROPERTIES
  CommandsEnd
CHECK_DEADLOCK FALSE
