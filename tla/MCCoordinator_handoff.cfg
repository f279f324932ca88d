CONSTANTS
  None = None
  Worker = {w0, w1, w2}
  Caller = w0
  Task = {r, t1, t2, t3, t4, t5}
  Roots = {r}
  Cancellable = FALSE
SPECIFICATION FannedOutSpec
SYMMETRY Symmetry
VIEW View
INVARIANT HandOffNotified
