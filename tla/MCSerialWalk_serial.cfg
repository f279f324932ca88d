CONSTANTS
  Ascending <- TreeBytes
  WordBits = 3
  Dir <- TreeDir
  File <- TreeFile
  Roots <- TreeRoots
  Listing <- TreeListing
  Target <- TreeTarget
  Worlds <- Filtering
  Stride = 2
  Limit = 4
  Plans <- AllPlans
  NoPlan = NoPlan
  Spelling <- TreeSpelling
  IgnoreFile = "f"
  GitDir = "e"
  Chosen <- TreeChosen
SPECIFICATION Spec
INVARIANTS
  TypeOK
  WithinBudget
  OneTree
  StopsByStride
  Delivers
  LostIsReported
  SelectsAll
