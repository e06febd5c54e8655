CONSTANTS
  Published = {"intel", "finding"}
  Debounce = 1
  IntelWait = 2
  Silence = 2
  Interval = 2
  PageSize = 2
  MaxEntries = 2
  MaxCalls = 2
  MaxQuestions = 1
  MaxStops = 1
SPECIFICATION Spec
PROPERTIES
  ChangeIsReviewed
  JobsEnd
CHECK_DEADLOCK FALSE
