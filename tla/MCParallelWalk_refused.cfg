CONSTANTS
  Threads = 4
  Dir <- SmallDir
  File <- SmallFile
  Roots <- SmallRoots
  Listing <- SmallListing
  Worlds <- Refusing
  BatchSize = 2
  Stride = 2
  QueueFloor = 1
  WorkFloor = 1
  ListingFloor = 100
  DirectoryWeight = 1
SPECIFICATION Spec
INVARIANT RefusedOnce
