CONSTANTS
  Threads = 3
  Dir <- SmallDir
  File <- SmallFile
  Roots <- SmallRoots
  Listing <- SmallListing
  Worlds <- Ordinary
  BatchSize = 2
  Stride = 1
  QueueFloor = 2
  WorkFloor = 3
  ListingFloor = 100
  DirectoryWeight = 1
SPECIFICATION Spec
INVARIANTS
  TypeOK
  Complete
  Sound
  StaysInBudget
  StopsPromptly
