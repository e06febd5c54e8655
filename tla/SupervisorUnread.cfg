CONSTANTS
  Published = {"intel", "finding", "user_prompt"}
  Debounce = 1
  IntelWait = 2
  Silence = 3
  Interval = 2
  PageSize = 1
  MaxEntries = 2
  MaxCalls = 2
  MaxQuestions = 1
  MaxStops = 0
SPECIFICATION Spec
INVARIANTS
  ReviewedWasShown
CHECK_DEADLOCK FALSE
