SPECIFICATION Spec
CONSTANTS
  r1 = r1
  r2 = r2
  Requests = {r1, r2}
  NoRequest = none
  Client = client
  Scenes <- MCScenes
  MaxTokens = 2
  MaxReloads = 1
INVARIANTS
  SentIsCurrent
  LastAnswerShown
  RefusalsHeeded
PROPERTIES
  RepeatsProgress
  RequestEnds
CHECK_DEADLOCK FALSE
