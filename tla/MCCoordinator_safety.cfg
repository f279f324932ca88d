CONSTANTS
  None = None
  Worker = {w0, w1, w2}
  Caller = w0
  Task = {r, t1, t2, t3, t4}
  Roots = {r}
  Cancellable = TRUE
SPECIFICATION Spec
SYMMETRY Symmetry
VIEW View
INVARIANTS
  TypeOK
  CountersTrue
  NoSleepThroughWork
  NoStrandedTask
  NotLeftBehind
PROPERTY PoolImplemented
