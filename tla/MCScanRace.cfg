SPECIFICATION Spec
CONSTANTS
  c1 = c1
  c2 = c2
  Callers <- MCCallers
  Retries = 2
  Scenes <- MCRace
  MaxTokens = 3
INVARIANTS
  RefreshesSerialised
CHECK_DEADLOCK FALSE
