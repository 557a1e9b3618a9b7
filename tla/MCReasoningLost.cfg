SPECIFICATION Spec
CONSTANTS
  c1 = c1
  c2 = c2
  s1 = s1
  s2 = s2
  Answers <- MCAnswers
  Declared <- MCDeclared
  Questions <- MCQuestions
  MaxTurns = 5
  MaxAnswers = 3
  MaxTampered = 1
  MaxItems = 6
  Conversations <- MCConversations
  Streams <- MCStreams
  Topics <- MCTopics
  MaxReplies = 3
  MaxMishaps = 1
  MaxKept = 2
  Chats <- MCChats
  Sessions <- MCSessions
  Models <- MCModels
  KimiStreams <- MCKimiStreams
  Capacity = 2
  EvictBatch = 1
  MaxBlocks = 3
  MaxReturned = 3
  MaxHitches = 1
  Apis <- MCApis
  Bodies <- MCDriftBodies
  Senders <- MCSenders
  Usages <- MCUsages
  Capacities = {1, 2}
  MaxSent = 3
INVARIANT
  ReasoningReturns
CHECK_DEADLOCK FALSE
