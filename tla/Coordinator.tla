---------------------------- MODULE Coordinator ----------------------------
(***************************************************************************)
(* The worker protocol of the parallel walk: scheduler.rs (Coordinator,    *)
(* Scheduler) and the worker loops of parallel.rs that drive it (run,      *)
(* drain_alone, run_worker, try_take).  One step is one access to shared   *)
(* state: an atomic, the condvar, or one queue operation.                  *)
(*                                                                         *)
(* Abstracted: a task is a directory or a listing continuation, and what   *)
(* it lists is chosen freely; a deque is the set of its tasks, because no  *)
(* property here depends on the order a queue hands them out; whether the  *)
(* tree is worth helpers (the floors) is a free choice, ParallelWalk has   *)
(* the floors.                                                             *)
(***************************************************************************)
EXTENDS Naturals, FiniteSets

CONSTANTS Worker,       \* the caller and every helper slot (the thread budget)
          Caller,       \* the thread that called collect() or drives a stream
          Task,         \* the tasks the tree can produce
          Roots,        \* the roots, processed by the caller without queueing
          None,         \* no worker
          Cancellable   \* whether an outside CancellationToken may be set

ASSUME WorkerAssumption == Caller \in Worker /\ None \notin Worker
ASSUME FiniteAssumption == IsFiniteSet(Worker) /\ IsFiniteSet(Task)
ASSUME RootAssumption == Roots \subseteq Task /\ Cancellable \in BOOLEAN

VARIABLES
  pending,    \* Coordinator.pending
  epoch,      \* wake_state, high bits
  sleepers,   \* wake_state, low bits
  lone,       \* Coordinator.lone
  wakeLock,   \* the holder of wake_lock, or None
  stopped,    \* Shared.stopped
  cancelled,  \* the outside CancellationToken
  panicked,   \* Shared.panic is Some
  flushed,    \* run() is past flush_into
  place,      \* place[t]: where task t is
  owner,      \* owner[t]: the worker whose queue or hands hold t, or None
  pc,         \* pc[w]: the next step of worker w
  ret,        \* ret[w]: where an announcement or wake_waiters returns to
  observed,   \* observed[w]: observed_epoch of wait_for_task
  victims     \* victims[w]: stealers try_take has not probed yet

wakeState == <<epoch, sleepers, wakeLock>>
flags == <<stopped, cancelled, panicked>>
tasks == <<place, owner>>
scan == <<observed, victims>>
vars == <<pending, wakeState, lone, flags, flushed, tasks, pc, ret, scan>>

Place == {"unborn", "fresh", "injector", "own", "moving", "held", "done"}

Label ==
  {"unborn", "root", "drain", "spawn", "run", "work", "publish", "announce",
   "notify", "notifyAll", "release", "abandon", "unwind", "panicked",
   "check", "observe", "own", "inject", "scan", "land", "landed", "lock",
   "recheck", "recheckStop", "register", "park", "parked", "woken",
   "unregister", "leave", "left"}

\* Where a call that may notify returns to.
ReturnLabel == {"root", "drain", "check", "work", "run", "panicked", "leave"}

TypeOK ==
  /\ pending \in Nat /\ epoch \in Nat /\ sleepers \in Nat
  /\ lone \in BOOLEAN /\ flushed \in BOOLEAN
  /\ stopped \in BOOLEAN /\ cancelled \in BOOLEAN /\ panicked \in BOOLEAN
  /\ wakeLock \in Worker \cup {None}
  /\ place \in [Task -> Place]
  /\ owner \in [Task -> Worker \cup {None}]
  /\ pc \in [Worker -> Label]
  /\ ret \in [Worker -> ReturnLabel]
  /\ observed \in [Worker -> Nat]
  /\ victims \in [Worker -> SUBSET Worker]

\* Shared::should_stop.
Stopping == stopped \/ cancelled

\* The mutant is a worker that never looks at the shared queue.
InjectorUnseen == {}
Injector == {t \in Task : place[t] = "injector"}
Own(w) == {t \in Task : place[t] = "own" /\ owner[t] = w}
Moving(w) == {t \in Task : place[t] = "moving" /\ owner[t] = w}
Queued == {t \in Task : place[t] \in {"injector", "own"}}
Running == {w \in Worker : pc[w] \notin {"unborn", "left"}}

Goto(w, label) == pc' = [pc EXCEPT ![w] = label]

\* begin_task.  The mutant is a task nobody counted.
UncountedTask == pending
BeginCount == pending + 1

\* The loop a worker returns to once its task is released.
Loop == IF ~lone THEN "check" ELSE IF flushed THEN "drain" ELSE "root"

Hold(w, t) ==
  /\ place' = [place EXCEPT ![t] = "held"]
  /\ owner' = [owner EXCEPT ![t] = w]

Init ==
  /\ pending = 0 /\ epoch = 0 /\ sleepers = 0
  /\ lone = TRUE /\ flushed = FALSE
  /\ stopped = FALSE /\ cancelled = FALSE /\ panicked = FALSE
  /\ wakeLock = None
  /\ place = [t \in Task |-> "unborn"]
  /\ owner = [t \in Task |-> None]
  /\ pc = [w \in Worker |-> IF w = Caller THEN "root" ELSE "unborn"]
  /\ ret = [w \in Worker |-> "root"]
  /\ observed = [w \in Worker |-> 0]
  /\ victims = [w \in Worker |-> {}]

-----------------------------------------------------------------------------
(* The caller, alone: run() and drain_alone.                               *)

\* begin_task and claim_task for one root; nothing is queued.
BeginRoot(t) ==
  /\ pc[Caller] = "root" /\ ~Stopping
  /\ t \in Roots /\ place[t] = "unborn"
  /\ pending' = BeginCount
  /\ Hold(Caller, t)
  /\ Goto(Caller, "run")
  /\ UNCHANGED <<wakeState, lone, flags, flushed, ret, scan>>

RootsStopped ==
  /\ pc[Caller] = "root" /\ Stopping
  /\ Goto(Caller, "leave")
  /\ UNCHANGED <<pending, wakeState, lone, flags, flushed, tasks, ret, scan>>

\* flush_into: what the roots uncovered moves to the shared queue.
RootsDone ==
  /\ pc[Caller] = "root" /\ ~Stopping
  /\ \A t \in Roots : place[t] # "unborn"
  /\ place' = [t \in Task |-> IF t \in Own(Caller) THEN "injector" ELSE place[t]]
  /\ owner' = [t \in Task |-> IF t \in Own(Caller) THEN None ELSE owner[t]]
  /\ flushed' = TRUE
  /\ Goto(Caller, "drain")
  /\ UNCHANGED <<pending, wakeState, lone, flags, ret, scan>>

\* Something is queued and the tree is worth helpers: Coordinator::widen.
Widen ==
  /\ pc[Caller] = "drain"
  /\ Own(Caller) \cup Injector # {}
  /\ lone' = FALSE
  /\ Goto(Caller, "spawn")
  /\ UNCHANGED <<pending, wakeState, flags, flushed, tasks, ret, scan>>

\* The part of a source a steal leaves with the thief besides the task it
\* returns: steal_batch_and_pop takes about half of what it finds.
Batch(t, source) ==
  {rest \in SUBSET (source \ {t}) : 2 * Cardinality(rest) < Cardinality(source)}

\* pop, or the shared queue once the own one is empty.  Nobody else runs, so
\* the batch a steal moves is in the own queue at once.
DrainTake(t) ==
  /\ pc[Caller] = "drain"
  /\ \/ /\ t \in Own(Caller)
        /\ Hold(Caller, t)
     \/ /\ Own(Caller) = {} /\ t \in Injector
        /\ \E rest \in Batch(t, Injector) :
             /\ place' = [u \in Task |-> IF u = t THEN "held"
                                         ELSE IF u \in rest THEN "own" ELSE place[u]]
             /\ owner' = [u \in Task |-> IF u \in rest \cup {t} THEN Caller ELSE owner[u]]
  /\ Goto(Caller, "run")
  /\ UNCHANGED <<pending, wakeState, lone, flags, flushed, ret, scan>>

DrainEmpty ==
  /\ pc[Caller] = "drain"
  /\ Own(Caller) \cup Injector = {}
  /\ Goto(Caller, "leave")
  /\ UNCHANGED <<pending, wakeState, lone, flags, flushed, tasks, ret, scan>>

AloneStep ==
  \/ \E t \in Task : BeginRoot(t) \/ DrainTake(t)
  \/ RootsStopped \/ RootsDone \/ Widen \/ DrainEmpty

-----------------------------------------------------------------------------
(* Growing the pool: grow() before the worker loop, at the strides of a    *)
(* listing and after a directory.                                          *)

StartHelper(w, h) ==
  /\ pc[w] \in {"spawn", "work"} /\ ~lone /\ ~Stopping
  /\ pc[h] = "unborn"
  /\ pending > Cardinality(Running)
  /\ Goto(h, "check")
  /\ UNCHANGED <<pending, wakeState, lone, flags, flushed, tasks, ret, scan>>

GrownOnce(w) ==
  /\ pc[w] = "spawn"
  /\ Goto(w, "check")
  /\ UNCHANGED <<pending, wakeState, lone, flags, flushed, tasks, ret, scan>>

-----------------------------------------------------------------------------
(* One task: process_directory between claim_task and the guard's drop.    *)

BeginWork(w) ==
  /\ pc[w] = "run"
  /\ Goto(w, IF ~Stopping THEN "work" ELSE IF lone THEN "abandon" ELSE "release")
  /\ UNCHANGED <<pending, wakeState, lone, flags, flushed, tasks, ret, scan>>

\* Coordinator::schedule, first access: begin_task counts the new task.
BeginTask(w, t) ==
  /\ pc[w] = "work"
  /\ t \in Task \ Roots /\ place[t] = "unborn"
  /\ pending' = BeginCount
  /\ place' = [place EXCEPT ![t] = "fresh"]
  /\ owner' = [owner EXCEPT ![t] = w]
  /\ Goto(w, "publish")
  /\ UNCHANGED <<wakeState, lone, flags, flushed, ret, scan>>

\* publish() pushes it: a directory to the own queue (schedule), a listing
\* continuation to the shared one (schedule_shared).  Only a widened walk
\* announces it.
Publish(w, t) ==
  /\ pc[w] = "publish" /\ place[t] = "fresh" /\ owner[t] = w
  /\ \/ /\ place' = [place EXCEPT ![t] = "own"]
        /\ UNCHANGED owner
     \/ /\ place' = [place EXCEPT ![t] = "injector"]
        /\ owner' = [owner EXCEPT ![t] = None]
  /\ Goto(w, IF lone THEN "work" ELSE "announce")
  /\ ret' = [ret EXCEPT ![w] = "work"]
  /\ UNCHANGED <<pending, wakeState, lone, flags, flushed, scan>>

\* announce_one: one read-modify-write bumps the epoch and reads the sleepers.
Announce(w) ==
  /\ pc[w] = "announce"
  /\ epoch' = epoch + 1
  /\ Goto(w, IF sleepers = 0 THEN ret[w] ELSE "notify")
  /\ UNCHANGED <<pending, sleepers, wakeLock, lone, flags, flushed, tasks, ret, scan>>

\* lock, notify_one, unlock.
NotifyOne(w) ==
  /\ pc[w] = "notify" /\ wakeLock = None
  /\ \/ /\ \A v \in Worker : pc[v] # "parked"
        /\ Goto(w, ret[w])
     \/ \E v \in Worker :
          /\ pc[v] = "parked"
          /\ pc' = [pc EXCEPT ![v] = "woken", ![w] = ret[w]]
  /\ UNCHANGED <<pending, wakeState, lone, flags, flushed, tasks, ret, scan>>

\* wake_waiters: lock, notify_all, unlock.
NotifyAll(w) ==
  /\ pc[w] = "notifyAll" /\ wakeLock = None
  /\ pc' = [v \in Worker |-> IF v = w THEN ret[w]
                             ELSE IF pc[v] = "parked" THEN "woken" ELSE pc[v]]
  /\ UNCHANGED <<pending, wakeState, lone, flags, flushed, tasks, ret, scan>>

\* Shared::stop from inside a task: an abort, Verdict::Stop, a lost consumer.
\* A repeated stop only notifies again, so it is left out.
Stop(w) ==
  /\ pc[w] = "work" /\ ~stopped
  /\ stopped' = TRUE
  /\ ret' = [ret EXCEPT ![w] = "work"]
  /\ Goto(w, "notifyAll")
  /\ UNCHANGED <<pending, wakeState, lone, cancelled, panicked, flushed, tasks, scan>>

EndWork(w) ==
  /\ pc[w] = "work"
  /\ \E how \in {"release", "unwind"} : Goto(w, how)
  /\ UNCHANGED <<pending, wakeState, lone, flags, flushed, tasks, ret, scan>>

\* finish_task: whether fetch_sub returned 1.  The mutant wakes nobody.
NeverLast == FALSE
LastTask == pending = 1

AfterRelease(w) ==
  CASE pc[w] = "release" -> Loop
    [] pc[w] = "abandon" -> "leave"
    [] OTHER             -> "panicked"

\* TaskGuard::drop, finish_task: the last task wakes every waiter.
FinishTask(w, t) ==
  /\ pc[w] \in {"release", "abandon", "unwind"}
  /\ place[t] = "held" /\ owner[t] = w
  /\ pending' = pending - 1
  /\ place' = [place EXCEPT ![t] = "done"]
  /\ owner' = [owner EXCEPT ![t] = None]
  /\ ret' = [ret EXCEPT ![w] = AfterRelease(w)]
  /\ Goto(w, IF LastTask THEN "notifyAll" ELSE AfterRelease(w))
  /\ UNCHANGED <<wakeState, lone, flags, flushed, scan>>

\* record_panic: only the first panic stops the walk; either way the worker ends.
RecordPanic(w) ==
  /\ pc[w] = "panicked"
  /\ panicked' = TRUE
  /\ stopped' = TRUE
  /\ ret' = [ret EXCEPT ![w] = "leave"]
  /\ Goto(w, IF panicked THEN "leave" ELSE "notifyAll")
  /\ UNCHANGED <<pending, wakeState, lone, cancelled, flushed, tasks, scan>>

WorkStep(w) ==
  \/ \E t \in Task : BeginTask(w, t) \/ Publish(w, t) \/ FinishTask(w, t)
  \/ BeginWork(w) \/ Announce(w) \/ NotifyOne(w) \/ NotifyAll(w)
  \/ Stop(w) \/ EndWork(w) \/ RecordPanic(w)

-----------------------------------------------------------------------------
(* wait_for_task and the try_take it calls.                                *)

CheckStop(w) ==
  /\ pc[w] = "check"
  /\ Goto(w, IF Stopping THEN "leave" ELSE "observe")
  /\ UNCHANGED <<pending, wakeState, lone, flags, flushed, tasks, ret, scan>>

Observe(w) ==
  /\ pc[w] = "observe"
  /\ observed' = [observed EXCEPT ![w] = epoch]
  /\ Goto(w, "own")
  /\ UNCHANGED <<pending, wakeState, lone, flags, flushed, tasks, ret, victims>>

PopOwn(w) ==
  /\ pc[w] = "own"
  /\ \/ \E t \in Own(w) : Hold(w, t) /\ Goto(w, "run")
     \/ Own(w) = {} /\ Goto(w, "inject") /\ UNCHANGED tasks
  /\ UNCHANGED <<pending, wakeState, lone, flags, flushed, ret, scan>>

\* The task a steal returns is in the thief's hands at once; the rest of the
\* batch is in nobody's queue until the thief's own queue shows it (Land).
Steal(w, source) ==
  \E t \in source : \E rest \in Batch(t, source) :
    /\ place' = [u \in Task |-> IF u = t THEN "held"
                                ELSE IF u \in rest THEN "moving" ELSE place[u]]
    /\ owner' = [u \in Task |-> IF u \in rest \cup {t} THEN w ELSE owner[u]]
    /\ Goto(w, IF rest = {} THEN "run" ELSE "land")

StealInjector(w) ==
  /\ pc[w] = "inject"
  /\ \/ /\ Steal(w, Injector)
        /\ UNCHANGED victims
     \/ /\ Injector = {}
        /\ victims' = [victims EXCEPT ![w] = Worker \ {w}]
        /\ Goto(w, "scan")
        /\ UNCHANGED tasks
  /\ UNCHANGED <<pending, wakeState, lone, flags, flushed, ret, observed>>

\* The code probes next door first; any order is allowed here.
StealVictim(w) ==
  /\ pc[w] = "scan"
  /\ \E v \in victims[w] :
       \/ /\ Steal(w, Own(v))
          /\ UNCHANGED victims
       \/ /\ Own(v) = {}
          /\ victims' = [victims EXCEPT ![w] = @ \ {v}]
          /\ UNCHANGED <<pc, tasks>>
  /\ UNCHANGED <<pending, wakeState, lone, flags, flushed, ret, observed>>

NothingFound(w) ==
  /\ pc[w] = "scan" /\ victims[w] = {}
  /\ Goto(w, "lock")
  /\ UNCHANGED <<pending, wakeState, lone, flags, flushed, tasks, ret, scan>>

Land(w) ==
  /\ pc[w] = "land"
  /\ place' = [t \in Task |-> IF t \in Moving(w) THEN "own" ELSE place[t]]
  /\ Goto(w, "landed")
  /\ UNCHANGED <<pending, wakeState, lone, flags, flushed, owner, ret, scan>>

\* Whether a steal left something to hand off.
Leftover(w) == Own(w) # {}

\* announce_batch_handoff, unless the own queue is empty (again).
HandOff(w) ==
  /\ pc[w] = "landed"
  /\ ret' = [ret EXCEPT ![w] = "run"]
  /\ Goto(w, IF Leftover(w) THEN "announce" ELSE "run")
  /\ UNCHANGED <<pending, wakeState, lone, flags, flushed, tasks, scan>>

Lock(w) ==
  /\ pc[w] \in {"lock", "woken"} /\ wakeLock = None
  /\ wakeLock' = w
  /\ Goto(w, IF pc[w] = "lock" THEN "recheck" ELSE "unregister")
  /\ UNCHANGED <<pending, epoch, sleepers, lone, flags, flushed, tasks, ret, scan>>

\* The mutants: the check under the lock is missing, or counts the own task.
NotRechecked == FALSE
NearlyDrained == pending <= 1
Drained == pending = 0

RecheckPending(w) ==
  /\ pc[w] = "recheck"
  /\ \/ /\ Drained
        /\ wakeLock' = None
        /\ Goto(w, "leave")
     \/ /\ ~Drained
        /\ Goto(w, "recheckStop")
        /\ UNCHANGED wakeLock
  /\ UNCHANGED <<pending, epoch, sleepers, lone, flags, flushed, tasks, ret, scan>>

RecheckStop(w) ==
  /\ pc[w] = "recheckStop"
  /\ \/ /\ Stopping
        /\ wakeLock' = None
        /\ Goto(w, "leave")
     \/ /\ ~Stopping
        /\ Goto(w, "register")
        /\ UNCHANGED wakeLock
  /\ UNCHANGED <<pending, epoch, sleepers, lone, flags, flushed, tasks, ret, scan>>

\* Whether nothing was announced since observed_epoch was read.  The mutant
\* parks without looking.
EpochIgnored(w) == TRUE
EpochUnchanged(w) == epoch = observed[w]

\* One read-modify-write registers the sleeper and reads the epoch.
Register(w) ==
  /\ pc[w] = "register"
  /\ sleepers' = sleepers + 1
  /\ Goto(w, IF EpochUnchanged(w) THEN "park" ELSE "unregister")
  /\ UNCHANGED <<pending, epoch, wakeLock, lone, flags, flushed, tasks, ret, scan>>

\* wait_timeout releases the lock and enters the condvar in one step.
Park(w) ==
  /\ pc[w] = "park"
  /\ wakeLock' = None
  /\ Goto(w, "parked")
  /\ UNCHANGED <<pending, epoch, sleepers, lone, flags, flushed, tasks, ret, scan>>

\* The mutant leaks the registration.
SleeperLeaked == sleepers
SleeperRetired == sleepers - 1

\* The sleeper is retired and the lock released, after a wait or instead of one.
Unregister(w) ==
  /\ pc[w] = "unregister"
  /\ sleepers' = SleeperRetired
  /\ wakeLock' = None
  /\ Goto(w, "check")
  /\ UNCHANGED <<pending, epoch, lone, flags, flushed, tasks, ret, scan>>

\* WorkerSlot::drop: the worker is gone from active_workers.
DropSlot(w) ==
  /\ pc[w] = "leave"
  /\ Goto(w, "left")
  /\ UNCHANGED <<pending, wakeState, lone, flags, flushed, tasks, ret, scan>>

WaitStep(w) ==
  \/ CheckStop(w) \/ Observe(w) \/ PopOwn(w) \/ StealInjector(w) \/ StealVictim(w)
  \/ NothingFound(w) \/ Land(w) \/ HandOff(w) \/ Lock(w) \/ RecheckPending(w)
  \/ RecheckStop(w) \/ Register(w) \/ Park(w) \/ Unregister(w) \/ DropSlot(w)

\* CANCELLATION_POLL_INTERVAL elapsed, or the condvar woke spuriously.  The
\* mutant goes back to sleep.
WaitsForever(w) == pc[w] = "parked" /\ UNCHANGED vars
TimeOut(w) ==
  /\ pc[w] = "parked"
  /\ Goto(w, "woken")
  /\ UNCHANGED <<pending, wakeState, lone, flags, flushed, tasks, ret, scan>>

\* The owner of the token sets it; nobody is notified.
Cancel ==
  /\ Cancellable /\ ~cancelled
  /\ cancelled' = TRUE
  /\ UNCHANGED <<pending, wakeState, lone, stopped, panicked, flushed, tasks, pc, ret, scan>>

-----------------------------------------------------------------------------
AllLeft == \A w \in Worker : pc[w] \in {"unborn", "left"}

\* The scope has joined every helper: the walk is over.
Finished == AllLeft /\ UNCHANGED vars

Grow(w) == GrownOnce(w) \/ \E h \in Worker : StartHelper(w, h)

Next ==
  \/ AloneStep
  \/ \E w \in Worker : Grow(w) \/ WorkStep(w) \/ WaitStep(w) \/ TimeOut(w)
  \/ Cancel
  \/ Finished

Spec == Init /\ [][Next]_vars

\* A thread that can take a step takes one, and a thread that waits for
\* wake_lock gets it: the sections it protects are a few instructions.  The
\* timer and the outside token owe nothing.
LockStep(w) == Lock(w) \/ NotifyOne(w) \/ NotifyAll(w)

Fairness ==
  /\ WF_vars(AloneStep)
  /\ \A w \in Worker : /\ WF_vars(GrownOnce(w) \/ WorkStep(w) \/ WaitStep(w))
                       /\ SF_vars(LockStep(w))

FairSpec == Spec /\ Fairness
-----------------------------------------------------------------------------
(* Properties.                                                             *)

Outstanding == {t \in Task : place[t] \notin {"unborn", "done"}}
Registered == {w \in Worker : pc[w] \in {"park", "parked", "woken", "unregister"}}

\* The two counters tell the truth between any two accesses, on every path
\* through a task (release, abandoned, unwound) and through the wait: a task
\* counted twice keeps everyone waiting, one not counted ends the walk early,
\* and a sleeper that never retires runs into the epoch bits.
CountersTrue ==
  /\ pending = Cardinality(Outstanding)
  /\ sleepers = Cardinality(Registered)

\* announce_one, wait_for_task: a worker about to enter the condvar does not
\* sleep through work published while it was preparing to: whatever is queued
\* by then has a producer or thief whose announcement is still to come and
\* will find the registration (the epoch and the sleepers are one word).
NoSleepThroughWork ==
  (\E w \in Worker : pc[w] = "park") /\ Queued # {} =>
    \E v \in Worker : \/ pc[v] \in {"announce", "notify"}
                      \/ pc[v] = "landed" /\ Own(v) # {}

\* schedule, try_take, wait_for_task: work that sits in a queue
\* is never left to threads that are all asleep or gone.
NoStrandedTask ==
  Queued # {} /\ ~Stopping =>
    \E w \in Worker : pc[w] \notin {"unborn", "parked", "leave", "left"}

\* finish_task, stop, wait_for_task: a worker that sleeps although the walk
\* has drained or was stopped from inside is about to be woken; neither
\* outcome is left to the timer.
NotLeftBehind ==
  \A w \in Worker :
    pc[w] = "parked" /\ (pending = 0 \/ stopped) =>
      \E v \in Worker : pc[v] = "notifyAll"

\* Each worker that leaves an uninterrupted walk leaves nothing unfinished,
\* a task is begun only by a running one, and no task is taken twice.
Pool == INSTANCE TaskPool WITH
  phase <- [t \in Task |-> IF place[t] \in {"fresh", "injector", "own", "moving"} THEN "queued"
                           ELSE IF place[t] = "held" THEN "running" ELSE place[t]],
  halted <- Stopping,
  gone <- {w \in Worker : pc[w] = "left"}

PoolImplemented == Pool!PoolSpec

\* Without an outside token every walk ends, whatever the timer does.
WalkEnds == [](~cancelled) => <>[]AllLeft

\* An outside token ends the walk although its owner notifies nobody: a timer
\* that fires releases the sleepers.
CancelEnds == (\A w \in Worker : WF_vars(TimeOut(w))) => (cancelled ~> AllLeft)

\* "Progress never depends on [the timer]: hand-off and termination are driven
\* by notifications" (scheduler.rs:25-27): a queued task and a sleeping worker
\* do not coexist while everyone else is inside a directory and no
\* notification is on its way.
HandOffNotified ==
  Queued # {} /\ (\E w \in Worker : pc[w] = "parked") /\ ~Stopping =>
    \E w \in Worker : pc[w] \notin {"unborn", "parked", "work", "leave", "left"}
=============================================================================
