SPECIFICATION FairSpec
CONSTANTS
  Image <- MCImage
  WORD_BYTES = 1
  Byte = {0, 1}
  LANES = 2
  INDEX_ROWS = 4
  NUM_WORDS = 4
  TAGS = 2
  NUM_BLOCKS = 2
  BLOCK_WORDS = 2
  UC_BEGIN = 2
  Generics <- MCSingle
  HostReqs <- MCHostReqs
  Dmem = dmem
  NoPort = none
  Ports <- MCPorts
  PortTmo <- MCPortTmo
  MaxTmo = 4
  DmaReqs <- MCDmaReqs
INVARIANTS
  ReadsCurrent
  NothingLost
  KeeperReadyForBlock
PROPERTY HostAnswered
