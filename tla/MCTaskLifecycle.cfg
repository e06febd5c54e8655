CONSTANTS
  w1 = w1
  w2 = w2
  h1 = h1
  h2 = h2
  q1 = q1
  q2 = q2
  Worker = {w1, w2}
  Handler = {h1, h2}
  Advice = {q1}
  Request = {q2}
  Scopes <- ReportOrStops
SPECIFICATION Spec
INVARIANTS
  TypeOK
  ReportIsFixed
  CompletedIsReported
  ContainersAreReclaimed
PROPERTIES
  ConclusionIsReported
CHECK_DEADLOCK FALSE
