CONSTANTS
  None = None
  Worker = {w0, w1, w2}
  Caller = w0
  Task = {r, t1, t2}
  Roots = {r}
  Cancellable = TRUE
SPECIFICATION FairEitherSpec
VIEW View
PROPERTIES
  WalkEnds
  CancelEnds
