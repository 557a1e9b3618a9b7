SPECIFICATION Spec
CONSTANTS
  MaxPieces = 2
  MaxItems = 1
  Protocols <- OnlyResponses
  Habits <- RepeatingHabits
INVARIANT
  TextShownOnce
CHECK_DEADLOCK FALSE
