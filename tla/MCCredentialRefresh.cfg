SPECIFICATION Spec
CONSTANTS
  c1 = c1
  c2 = c2
  Callers <- MCCallers
  Retries = 2
  Scenes <- MCScenes
  MaxTokens = 3
INVARIANTS
  SingleFlight
  ReplacedNotPresented
  RejectedNotReturned
  TableBounded
PROPERTIES
  CallsEnd
CHECK_DEADLOCK FALSE
