CONSTANTS
  c1 = c1
  c2 = c2
  w1 = w1
  k1 = k1
  k2 = k2
  k3 = k3
  r1 = r1
  None = None
  Client = {c1, c2}
  Worker = {w1}
  Key = {k1, k2, k3}
  Artifact = {}
  Question = {}
  Reader = {r1}
  PageSize = 2
  Requests <- ReaderRequests
  MaxDialogue = 2
SPECIFICATION ReadersSpec
INVARIANTS
  ReadersTypeOK
  ReaderMissesNothing
  ShortPageReachesLatest
  StreamInOrder
PROPERTIES
  StreamCatchesUp
