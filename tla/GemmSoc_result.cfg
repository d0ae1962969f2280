SPECIFICATION FairSpec
CONSTANTS
  LANES = 2
  WORD_BYTES = 2
  INDEX_ROWS = 16
  NUM_WORDS = 16
  BYTE_MOD = 8
  Byte <- MCByte
  PerfValue <- MCPerfValue
  MaxResets = 1
  Jobs <- MCAllJobs
  Disturbed <- MCOneJob
  OtherReqs <- MCOtherReqs
INVARIANTS
  ResultCorrect
  FrameIntact
  AccumulatorsPartial
PROPERTIES
  RegsStableWhileBusy
  Handshake
  DmaPortProtocol
  Terminates
