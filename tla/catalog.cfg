\* One caller besides the cron loop, two ids, two versions (0 without templates), one restart.
CONSTANTS
  Callers = {j1}
  Cron = cron
  primary = primary
  fallback = fallback
  Urls = {primary, fallback}
  DefaultUrls <- MCDefaultUrls
  Etagged = {fallback}
  Steady = {fallback}
  Versions = {0, 1}
  Empty = {0}
  None = None
  MaxId = 2
  MaxEdits = 3
  MaxCrashes = 1
SPECIFICATION FairSpec
INVARIANTS
  OwnAddressesOnly
  EtagVouchesUnlessClash
PROPERTIES
  CatalogKept
  SourceRecovers
CHECK_DEADLOCK FALSE
