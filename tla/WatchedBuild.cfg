\* One command, two files edited once each and coming and going as they like.
CONSTANTS
  None = None
  Watched <- MCWatched
  Configs <- MCConfigs
  WatchMaxFiles = 1
  Attempts = 2
  Owner = "me"
  Stores <- MCStores
  MaxVersion = 1
SPECIFICATION FairSpec
INVARIANTS TypeOK VerifiedIsBuilt
PROPERTIES PrunedIsSuperseded BuildEnds
CHECK_DEADLOCK FALSE
