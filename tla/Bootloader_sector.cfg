SPECIFICATION FairSpec
CONSTANTS
  HALF_MOD = 256
  Cleared <- MCCleared
  SIGNATURE = 8527
  SECTOR_SIZE = 4
  RAM_WORDS = 5
  FLASH_WORDS = 12
  Images <- MCImages
  SdFile <- Long
  Factory <- MCFactory
  MaxUploads = 1
  MaxStores = 1
  MaxFaults = 0
  MaxCuts = 0
INVARIANT OkMeansStored
