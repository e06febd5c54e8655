CONSTANTS
  Provider = {"custom", "openai"}
  BuiltIn = {"openai"}
  Url = {"u1", "u2"}
  ModelLists <- Lists
  Remote <- Answers
  Agent = {"worker", "reporter"}
  Worker = {"worker"}
  Prompt = {"prompt"}
  Discovery = {"d1"}
SPECIFICATION Spec
INVARIANTS
  TypeOK
  SavedOrUntouched
PROPERTIES
  DiscoveryIsCurrent
CHECK_DEADLOCK FALSE
