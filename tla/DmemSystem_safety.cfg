SPECIFICATION FairSpec
CONSTANTS
  LANES = 2
  WORD_BYTES = 1
  NUM_WORDS = 2
  INDEX_ROWS = 3
  Byte = {0, 1}
  Dmem = Dmem
  NoPort = NoPort
  Ports <- MCPorts
  PortTmo <- MCPortTmo
  MaxTmo = 2
  HostPorts <- MCHostPorts
  CpuReqs <- MCCpuReqs
  DmaReqs <- MCDmaReqs
INVARIANTS
  DmaAckTruthful
  CpuAckTruthful
  KeeperTracksHost
  IInv
PROPERTIES
  ImplementsSharedMemory
  RequestsEnd
