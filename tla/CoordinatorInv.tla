--------------------------- MODULE CoordinatorInv ---------------------------
(***************************************************************************)
(* The inductive invariant of Coordinator: what each property needs to     *)
(* know about the rest of the state to survive every step.                 *)
(***************************************************************************)
EXTENDS Coordinator

\* Steps taken while wake_lock is held, steps of a worker that has probed at
\* least one queue for the epoch it observed, and calls that return to ret.
LockLabels == {"recheck", "recheckStop", "register", "park", "unregister"}
ProbeLabels == {"own", "inject", "scan", "lock", "recheck", "recheckStop", "register"}
AloneLabels ==
  {"root", "drain", "run", "work", "publish", "notifyAll", "release", "abandon",
   "unwind", "panicked", "leave", "left"}

LockInv == \A w \in Worker : wakeLock = w <=> pc[w] \in LockLabels

\* A task in somebody's queue or hands has an owner, any other has none.
OwnerInv ==
  \A t \in Task : owner[t] = None <=> place[t] \in {"unborn", "injector", "done"}

\* A caller that is alone is in run() or drain_alone and owns every queue;
\* once it has widened it never returns there.
AloneInv ==
  /\ lone => /\ \A w \in Worker : IF w = Caller THEN pc[w] \in AloneLabels
                                                ELSE pc[w] = "unborn"
             /\ \A t \in Task : place[t] = "own" => owner[t] = Caller
  /\ pc[Caller] \in {"root", "drain"} => lone
  /\ \A w \in Worker : pc[w] = "abandon" => Stopping

ReturnInv ==
  \A w \in Worker :
    /\ pc[w] \in {"announce", "notify"} => ret[w] \in {"work", "run"}
    /\ pc[w] = "notifyAll" =>
         /\ ret[w] \in {"work", "check", "root", "drain", "leave", "panicked"}
         /\ ret[w] \in {"root", "drain"} => lone /\ w = Caller
         /\ ret[w] = "check" => ~lone
         /\ ret[w] = "leave" => Stopping

\* The producer or thief that made t visible has its announcement to come.
Owed(t) ==
  \/ \E v \in Worker : pc[v] = "announce"
  \/ place[t] = "own" /\ pc[owner[t]] = "landed"

\* Task t is in a queue that w has already found empty.
Probed(w, t) ==
  \/ place[t] = "injector" /\ pc[w] \notin {"own", "inject"}
  \/ place[t] = "own" /\ owner[t] = w /\ pc[w] # "own"
  \/ place[t] = "own" /\ owner[t] # w /\ pc[w] = "scan" /\ owner[t] \notin victims[w]
  \/ place[t] = "own" /\ pc[w] \in {"lock", "recheck", "recheckStop", "register"}

\* Why the epoch works: as long as it has not moved, what a preparing waiter
\* missed is still to be announced.
ProbeInv ==
  \A w \in Worker :
    /\ observed[w] <= epoch
    /\ pc[w] \in ProbeLabels /\ epoch = observed[w] =>
         \A t \in Task : Probed(w, t) => Owed(t)

ParkInv ==
  \A w \in Worker : \A t \in Queued :
    pc[w] = "park" => Owed(t) \/ \E v \in Worker : pc[v] = "notify"

AwakeInv ==
  ~Stopping => \A t \in Queued :
    \E w \in Worker : pc[w] \notin {"unborn", "parked", "leave", "left"}

WakeInv ==
  /\ panicked => stopped
  /\ \A w \in Worker :
       \/ pc[w] \in {"recheckStop", "register", "park", "parked"} /\ pending = 0
       \/ pc[w] \in {"register", "park", "parked"} /\ stopped
       => \E v \in Worker : pc[v] = "notifyAll"

\* The part without queues and wakeups, and the whole.
CountInv == TypeOK /\ CountersTrue
Shape == CountInv /\ OwnerInv /\ LockInv /\ AloneInv /\ ReturnInv
IInv == Shape /\ ProbeInv /\ ParkInv /\ AwakeInv /\ WakeInv
=============================================================================
