SPECIFICATION FairSpec
CONSTANTS
  HALF_MOD = 256
  Cleared <- MCCleared
  SIGNATURE = 8527
  SECTOR_SIZE = 4
  RAM_WORDS = 5
  FLASH_WORDS = 12
  Images <- MCImages
  SdFile <- Long
  Factory <- MCFactory
  MaxUploads = 1
  MaxStores = 1
  MaxFaults = 1
  MaxCuts = 1
INVARIANTS
  OnlyWholeImagesBoot
  CrashConsistent
  StoredLoads
PROPERTIES
  AutoBoots
  LoadsWhole
