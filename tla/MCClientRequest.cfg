SPECIFICATION ClientSpec
CONSTANTS
  MaxMessages <- MCMaxMessages
  MaxMarked <- MCMaxMarked
  Marks <- MCMarks
  MaxLines <- MCMaxLines
  LineKinds <- MCLineKinds
  MaxTools <- MCMaxTools
  ToolNamesUsed <- MCToolNamesUsed
  Questions <- MCQuestions
  Capabilities <- MCCapabilities
  MaxKeywords <- MCMaxKeywords
  MaxInlined <- MCMaxInlined
  UnionThreshold <- MCUnionThreshold
  Requests <- MCRequests
  MaxDrift <- MCMaxDrift
INVARIANTS
  CallsPaired
  ConversationKept
  SignaturesKept
  ToolsKept
  InstructionsKept
PROPERTIES
  PrefixStable
CHECK_DEADLOCK FALSE
