CONSTANTS
  Threads = 2
  Dir <- FlatDir
  File <- FlatFile
  Roots <- FlatRoots
  Listing <- FlatListing
  Worlds <- Calm
  BatchSize = 2
  Stride = 2
  QueueFloor = 1
  WorkFloor = 1
  ListingFloor = 2
  DirectoryWeight = 1
SPECIFICATION Spec
INVARIANT FrontierBounded
