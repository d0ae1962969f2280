SPECIFICATION Spec
CONSTANTS
  WORD_BYTES = 1
  Byte = {0, 1}
  TAGS = 3
  NUM_BLOCKS = 2
  BLOCK_WORDS = 2
  UC_BEGIN = 2
  Generics <- MCGenerics
  HostReqs <- MCHostReqs
  ErrAddrs <- MCErrAddrs
  OtherAddrs <- MCOtherAddrs
  OtherWords <- MCWords
INVARIANTS
  ReadsCurrent
  NothingLost
  ErrorsReported
  FenceBeforeBypass
  LockCoversTransfer
