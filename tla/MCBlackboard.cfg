CONSTANTS
  c1 = c1
  c2 = c2
  w1 = w1
  w2 = w2
  k1 = k1
  k2 = k2
  a1 = a1
  q1 = q1
  None = None
  Client = {c1, c2}
  Worker = {w1, w2}
  Key = {k1, k2}
  Artifact = {a1}
  Question = {q1}
  Requests <- SharedRequests
  MaxDialogue = 1
SPECIFICATION FairSpec
INVARIANTS
  TypeOK
  GaplessSequences
  OneEntryPerKey
  GroundedEntries
  AnsweredOnce
  PublishInsertable
  AckedWritesStand
PROPERTIES
  AppendOnly
  
  CallsEnd
  ImplementsSharedLog
