SPECIFICATION Spec
CONSTANTS
  MaxPieces = 3
  MaxItems = 2
  Protocols <- AllProtocols
  Habits <- PlainHabits
INVARIANTS
  SentIsShown
  ToolUseReason
  IndexesDense
  SignaturesBelong
PROPERTIES
  ImplementsAnthropicStream
  StreamEnds
CHECK_DEADLOCK FALSE
