SPECIFICATION ChatFairSpec
CONSTANTS
  Chats = {c1, c2, c3}
  FirstChats = {c1, c2}
  ToolChats = {c1}
  Turns <- MCTurns
  MaxRounds = 2
  MaxCalls = 2
  MaxTrims = 1
  MaxToolFiles = 1
  MaxFaults = 1
  MaxOps = 2
INVARIANTS
  PromptWellFormed
  AttachedWhereUploaded
  PageShowsOneChat
PROPERTIES
  NoBareQuestion
  ComposerFrees
CHECK_DEADLOCK FALSE
