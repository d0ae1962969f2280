SPECIFICATION Spec
CONSTANTS
  FIFO_DEPTH = 8
  NUM_MOD = 8
  Unwritten <- MCUnwritten
  MEM_BYTES = 16
  Descriptors <- MCDescriptors
  Habits = {"chain"}
  MaxPrograms = 2
INVARIANTS
  FetchesDescriptors
