SPECIFICATION Spec
CONSTANTS
  Image <- MCImage
  WORD_BYTES = 1
  Byte = {0, 1}
  LANES = 2
  INDEX_ROWS = 8
  NUM_WORDS = 8
  TAGS = 2
  NUM_BLOCKS = 2
  BLOCK_WORDS = 4
  UC_BEGIN = 2
  Generics <- MCBurst
  HostReqs <- MCBurstReqs
  Dmem = dmem
  NoPort = none
  Ports <- MCPorts
  PortTmo <- MCPortTmo
  MaxTmo = 4
  DmaReqs = {}
INVARIANTS
  ReadsCurrent
