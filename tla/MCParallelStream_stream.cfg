CONSTANTS
  Worker = {d, h}
  Driver = d
  Item = {r, i1, i2}
  Root = r
  Worlds <- Everything
  Capacity = 1
SPECIFICATION FairSpec
INVARIANTS
  TypeOK
  EndsComplete
  AbortErrorLast
  NoThreadOutlives
  CloseReachesWalk
PROPERTY CallsReturn
