CONSTANTS
  Threads = 3
  Dir <- SmallDir
  File <- SmallFile
  Roots <- SmallRoots
  Listing <- SmallListing
  Worlds <- Rough
  BatchSize = 2
  Stride = 2
  QueueFloor = 1
  WorkFloor = 3
  ListingFloor = 100
  DirectoryWeight = 1
SPECIFICATION FairSpec
PROPERTY Returns
