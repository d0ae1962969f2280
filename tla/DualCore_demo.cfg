SPECIFICATION FairSpec
CONSTANTS
  WORD_MOD = 5
  Addr <- CodeAddr
  Granule <- CodeGranule
  Flavours <- Flavour
  DmaReqs <- MCDmaReqs
  MaxErrs <- MCMaxErrs
  Slack = TRUE
INVARIANTS
  OneAccessAtATime
  NotOvertaken
  MutualExclusion
  CountExact
  LaunchTruthful
PROPERTIES
  ImplementsSpinLock
  AccessEnds
  BothReturn
