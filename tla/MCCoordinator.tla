--------------------------- MODULE MCCoordinator ---------------------------
(* Constants and the view for the model-checking runs of Coordinator.       *)
EXTENDS Coordinator, TLC

\* Helpers are interchangeable, and so are the tasks that are not roots.
Symmetry == Permutations(Worker \ {Caller}) \cup Permutations(Task \ Roots)

\* No step reads the epoch but Register, which compares it with the one the
\* same worker observed in this round of its loop: two states that agree on
\* these comparisons, and on the victims of the workers that still scan, have
\* the same future.
View ==
  <<pending, sleepers, wakeLock, lone, flags, flushed, tasks, pc,
    [w \in Worker |-> IF pc[w] \in {"announce", "notify", "notifyAll"} THEN ret[w] ELSE "none"],
    [w \in Worker |-> /\ pc[w] \in {"own", "inject", "scan", "lock", "recheck", "recheckStop", "register"}
                      /\ epoch = observed[w]],
    [w \in Worker |-> IF pc[w] = "scan" THEN victims[w] ELSE {}]>>

\* A state the walk reaches when the only root lists five directories and the
\* caller has just started every helper: the tasks are flushed and announced
\* to nobody, and each worker is about to look for one.
FannedOut ==
  /\ pending = Cardinality(Task \ Roots) /\ epoch = 0 /\ sleepers = 0
  /\ lone = FALSE /\ flushed = TRUE
  /\ stopped = FALSE /\ cancelled = FALSE /\ panicked = FALSE
  /\ wakeLock = None
  /\ place = [t \in Task |-> IF t \in Roots THEN "done" ELSE "injector"]
  /\ owner = [t \in Task |-> None]
  /\ pc = [w \in Worker |-> "check"]
  /\ ret = [w \in Worker |-> "root"]
  /\ observed = [w \in Worker |-> 0]
  /\ victims = [w \in Worker |-> {}]

FannedOutSpec == FannedOut /\ [][Next]_vars

\* A state in the middle of a larger tree, whose other directories are done and
\* left out of Task: helpers are looking for work and the caller, inside the last
\* directory, has just counted one below it.  Two tasks never start two helpers
\* on their own.
Underway ==
  LET last == CHOOSE t \in Task \ Roots : TRUE IN
    /\ pending = 2 /\ epoch = 0 /\ sleepers = 0
    /\ lone = FALSE /\ flushed = TRUE
    /\ stopped = FALSE /\ cancelled = FALSE /\ panicked = FALSE
    /\ wakeLock = None
    /\ place = [t \in Task |-> CASE t = last -> "held" [] t \in Roots -> "done" [] OTHER -> "fresh"]
    /\ owner = [t \in Task |-> IF t \in Roots THEN None ELSE Caller]
    /\ pc = [w \in Worker |-> IF w = Caller THEN "publish" ELSE "check"]
    /\ ret = [w \in Worker |-> "root"]
    /\ observed = [w \in Worker |-> 0]
    /\ victims = [w \in Worker |-> {}]

FairEitherSpec == (Init \/ Underway) /\ [][Next]_vars /\ Fairness
=============================================================================
