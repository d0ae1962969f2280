SPECIFICATION FairSpec
CONSTANTS
  FIFO_DEPTH = 8
  NUM_MOD = 8
  Unwritten <- MCUnwritten
  MEM_BYTES = 16
  Descriptors <- MCDescriptors
  Habits = {}
  MaxPrograms = 3
INVARIANTS
  FetchesDescriptors
  CopiesExact
  AnswersTrue
  AbortPrompt
PROPERTIES
  TransfersEnd
