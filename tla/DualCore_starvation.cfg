SPECIFICATION FairSpec
CONSTANTS
  WORD_MOD = 5
  Addr <- CodeAddr
  Granule <- CodeGranule
  Flavours = {"lrsc"}
  DmaReqs <- MCNoDma
  MaxErrs <- MCNoErrs
  Slack = FALSE
PROPERTY NoStarvation
