CONSTANTS
  a = a
  b = b
  c = c
  platform = platform
  raster1 = raster1
  raster2 = raster2
  Mergers = {a, b, c}
  Queues = {platform, raster1, raster2}
  PlatformOf <- MCPlatformOf
  RasterOf <- MCRasterOf
  Unconfined = {c}
  MaxLease = 2
SPECIFICATION FairSpec
INVARIANTS TypeOK LeaseAgreesWithQueues ChecksStillHold CheckFailures
PROPERTIES MergeEndsWait
CHECK_DEADLOCK FALSE
