CONSTANTS
  Published = {"intel", "finding"}
  Debounce = 1
  IntelWait = 2
  Silence = 1
  Interval = 2
  PageSize = 4
  MaxEntries = 4
  MaxCalls = 2
  MaxQuestions = 0
  MaxStops = 0
SPECIFICATION Spec
INVARIANTS
  TypeOK
  NoChangeForgotten
  DueIsTaken
PROPERTIES
  AdviceSpaced
CHECK_DEADLOCK FALSE
