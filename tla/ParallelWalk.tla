---------------------------- MODULE ParallelWalk ----------------------------
(***************************************************************************)
(* One walk on the worker pool: parallel.rs (run, drain_alone, run_worker, *)
(* HelperPool, walk_directory, act, the error policy, finish) over a tree  *)
(* that the constants and the initial state fix.  A step is one stage of a *)
(* directory, one entry, or one operation on a queue or on the pool.       *)
(*                                                                         *)
(* Abstracted: sleeping and waking (Coordinator has them), so a worker     *)
(* that finds nothing simply stays idle; what classify_entry decides about *)
(* a name, what the visitor answers and which calls fail are given by the  *)
(* world the walk starts in; a stage reports at most one ignore error, and *)
(* a failed cycle key counts as a failed read.  Results are bags, so the   *)
(* sort that ends a sorted walk leaves them alone.                         *)
(***************************************************************************)
EXTENDS SequencesExt

CONSTANTS
  Threads,        \* Walker.threads, the budget of workers
  Dir, File,      \* the names of the tree
  Roots,          \* the walk's roots, in the order they were added
  Listing,        \* Listing[d]: the names in directory d, in listing order
  Worlds,         \* what classification, the visitor and the system may answer
  BatchSize,      \* LISTING_BATCH_SIZE
  Stride,         \* CANCELLATION_STRIDE
  QueueFloor, WorkFloor, ListingFloor, DirectoryWeight    \* the HELPER_ floors

Name == Dir \cup File
Worker == 0 .. Threads - 1
Caller == 0

ASSUME BudgetAssumption == Threads \in Nat \ {0}

\* A name stands for one place in the walk: a directory that is added twice, or
\* met below two others, has as many names.  No root is listed, no name twice,
\* and nothing lies below itself.
ASSUME TreeAssumption ==
  /\ Roots \in Seq(Dir) /\ Roots # <<>> /\ Listing \in [Dir -> Seq(Name)]
  /\ \A i, j \in DOMAIN Roots : Roots[i] = Roots[j] => i = j
  /\ \A d, e \in Dir : \A j \in DOMAIN Listing[d], k \in DOMAIN Listing[e] :
       Listing[d][j] = Listing[e][k] => d = e /\ j = k
  /\ \A d \in Dir : ToSet(Listing[d]) \cap ToSet(Roots) = {}
  /\ \A S \in SUBSET Dir : S # {} => \E d \in S : \A up \in S : d \notin ToSet(Listing[up])
ASSUME StrideAssumption ==
  /\ Stride \in Nat \ {0} /\ BatchSize \in Nat \ {0} /\ BatchSize % Stride = 0
  /\ {QueueFloor, WorkFloor, ListingFloor, DirectoryWeight} \subseteq Nat

\* The action classification gives each name, the verdict of the visitor on it,
\* the faults of each directory, Walker.error_policy, and what else may happen:
\* the caller sets its token, a visitor or backend panics, the system refuses
\* to start a thread.
World ==
  [action : [Name -> {"skip", "emit", "descend", "both", "fail", "failDescend"}],
   verdict : [Name -> {"keep", "skip", "prune", "stop"}],
   fault : [Dir -> SUBSET {"carried", "loop", "read", "rules", "deferred"}],
   policy : {"abort", "skip", "collect"},
   may : SUBSET {"cancel", "panic", "refuse"}]

\* Only a directory is descended into, and only a root carries errors from
\* where its task was built.
ASSUME WorldAssumption ==
  /\ Worlds \subseteq World
  /\ \A w \in Worlds : \A n \in Name \ Dir : w.action[n] \in {"skip", "emit", "fail"}
  /\ \A w \in Worlds : \A d \in Dir \ ToSet(Roots) : "carried" \notin w.fault[d]

VARIABLES
  world,      \* the world this walk meets, chosen once
  phase,      \* "roots", "alone" (drain_alone) or "pool"
  pc,         \* pc[w]: the next step of worker w
  back,       \* back[w]: where grow() returns to
  task,       \* task[w]: the directory w works on and the entry it starts at
  at,         \* at[w]: entries of that listing behind w
  queue,      \* queue[w]: the own deque, newest task last
  injector,   \* the shared queue
  pending,    \* Coordinator.pending
  active,     \* Coordinator.active_workers
  idle,       \* the scratches no helper has taken
  capped,     \* Shared.helpers_capped
  workSeen,   \* Shared.work_seen
  stopped,    \* Shared.stopped
  cancelled,  \* the caller's CancellationToken
  panic,      \* Shared.panic is Some
  abort,      \* Shared.abort_error
  errors,     \* Shared.errors, a bag
  found,      \* found[w]: the entries worker w retains, a bag
  shards,     \* what the helpers that ended handed in
  nextRoot,   \* the next root to read
  opened,     \* the directories read so far, a bag
  late,       \* late[w]: entries w classified since the walk was to stop
  result      \* what finish() returned

queues == <<queue, injector, pending>>
pool == <<active, idle, capped>>
flags == <<stopped, cancelled, panic>>
report == <<abort, errors>>
kept == <<found, shards>>
job == <<task, at>>
vars == <<world, phase, pc, back, job, queues, pool, workSeen, flags, report, kept,
          nextRoot, opened, late, result>>

Task == [dir : Dir, next : Nat]
NoError == <<"none", Roots[1]>>
NoResult == [kind |-> "none"]
Stages == {"begin", "carried", "read", "ruled", "list", "entry"}
Label == Stages \cup {"unborn", "roots", "alone", "idle", "grow", "slot", "refused", "release",
                      "abandon", "unwind", "unwound", "leave", "join", "left"}

TypeOK ==
  /\ world \in Worlds /\ phase \in {"roots", "alone", "pool"}
  /\ pc \in [Worker -> Label] /\ back \in [Worker -> {"idle", "entry", "release"}]
  /\ task \in [Worker -> Task] /\ at \in [Worker -> Nat]
  /\ queue \in [Worker -> Seq(Task)] /\ injector \in Seq(Task) /\ pending \in Nat
  /\ active \in Nat /\ idle \subseteq Worker \ {Caller}
  /\ {capped, stopped, cancelled, panic} \subseteq BOOLEAN /\ workSeen \in Nat
  /\ IsABag(errors) /\ IsABag(shards) /\ IsABag(opened)
  /\ DOMAIN found = Worker /\ \A w \in Worker : IsABag(found[w])
  /\ nextRoot \in 1 .. Len(Roots) + 1 /\ late \in [Worker -> Nat]

Goto(w, label) == pc' = [pc EXCEPT ![w] = label]
Stopping == stopped \/ cancelled
Is(d, fault) == fault \in world.fault[d]
DirectoryTask(d) == [dir |-> d, next |-> 0]
IsRoot(d) == d \in ToSet(Roots)

\* The batch of the listing that worker w has in hand.
Names(w) == Listing[task[w].dir]
BatchEnd(w) == IF task[w].next + BatchSize < Len(Names(w)) THEN task[w].next + BatchSize
                                                          ELSE Len(Names(w))

Init ==
  /\ world \in Worlds /\ phase = "roots"
  /\ pc = [w \in Worker |-> IF w = Caller THEN "roots" ELSE "unborn"]
  /\ back = [w \in Worker |-> "idle"]
  /\ task = [w \in Worker |-> DirectoryTask(Roots[1])] /\ at = [w \in Worker |-> 0]
  /\ queue = [w \in Worker |-> <<>>] /\ injector = <<>> /\ pending = 0
  /\ active = 1 /\ idle = Worker \ {Caller} /\ capped = FALSE
  /\ workSeen = 0
  /\ stopped = FALSE /\ cancelled = FALSE /\ panic = FALSE
  /\ abort = NoError /\ errors = EmptyBag
  /\ found = [w \in Worker |-> EmptyBag] /\ shards = EmptyBag
  /\ nextRoot = 1 /\ opened = EmptyBag /\ late = [w \in Worker |-> 0]
  /\ result = NoResult

-----------------------------------------------------------------------------
(* Accounting, errors and the evidence for helpers.                        *)

\* Coordinator::begin_task, TaskGuard and WorkerSlot.
\* (Mutants: not counted, counted twice.)
Uncounted == UNCHANGED pending
CountedTwice == pending' = pending + 2
Schedule == pending' = pending + 1
CompleteTask == pending' = pending - 1
DropSlot == active' = active - 1

\* Which errors a walk that goes on keeps.
Kept(isRoot) == world.policy = "collect" \/ (world.policy = "skip" /\ isRoot)

\* record_error.  Under Abort the first error stays, and every one stops the
\* walk (a repeated stop changes nothing).
RecordError(error, isRoot) ==
  /\ abort' = IF world.policy = "abort" /\ abort = NoError THEN error ELSE abort
  /\ stopped' = (stopped \/ world.policy = "abort")
  /\ errors' = IF Kept(isRoot) THEN errors (+) SetToBag({error}) ELSE errors
  /\ UNCHANGED <<cancelled, panic>>

\* tree_is_worth_helpers.
WorthHelpers ==
  \/ (workSeen >= WorkFloor /\ pending >= QueueFloor)
  \/ workSeen >= ListingFloor

-----------------------------------------------------------------------------
(* The caller, alone: run() and drain_alone.                               *)

\* Nothing is left to read for the caller, or nothing may be.
Join == Goto(Caller, "join")

NextRoot ==
  /\ pc[Caller] = "roots" /\ nextRoot <= Len(Roots) /\ ~Stopping
  /\ Schedule
  /\ task' = [task EXCEPT ![Caller] = DirectoryTask(Roots[nextRoot])]
  /\ nextRoot' = nextRoot + 1
  /\ Goto(Caller, "begin")
  /\ UNCHANGED <<world, phase, back, at, queue, injector, pool, workSeen, flags, report, kept,
                 opened, late, result>>

RootsStopped ==
  /\ pc[Caller] = "roots" /\ Stopping
  /\ Join
  /\ UNCHANGED <<world, phase, back, job, queues, pool, workSeen, flags, report, kept, nextRoot,
                 opened, late, result>>

\* flush_into pops the own deque, so its newest task goes first.
RootsDone ==
  /\ pc[Caller] = "roots" /\ nextRoot > Len(Roots) /\ ~Stopping
  /\ injector' = injector \o Reverse(queue[Caller])
  /\ queue' = [queue EXCEPT ![Caller] = <<>>]
  /\ phase' = "alone"
  /\ Goto(Caller, "alone")
  /\ UNCHANGED <<world, back, job, pending, pool, workSeen, flags, report, kept, nextRoot, opened,
                 late, result>>

\* The first grow() of the pool comes before the caller's worker loop.
WidenPool ==
  /\ pc[Caller] = "alone"
  /\ queue[Caller] \o injector # <<>> /\ WorthHelpers
  /\ phase' = "pool"
  /\ Goto(Caller, "grow")
  /\ back' = [back EXCEPT ![Caller] = "idle"]
  /\ UNCHANGED <<world, job, queues, pool, workSeen, flags, report, kept, nextRoot, opened, late,
                 result>>

\* Both queues of a caller that is alone, and its exit.
PopOwn(w) ==
  /\ queue[w] # <<>>
  /\ task' = [task EXCEPT ![w] = Last(queue[w])]
  /\ queue' = [queue EXCEPT ![w] = Front(@)]
  /\ UNCHANGED injector

\* steal_batch_and_pop: the oldest task is returned, and up to half of what
\* was there moves to the thief's empty deque, the oldest to be popped first.
Taken(source) == 1 .. (Len(source) + 1) \div 2
Remainder(source, n) == Reverse(SubSeq(source, 2, n))

StealInjector(w) ==
  /\ queue[w] = <<>> /\ injector # <<>>
  /\ task' = [task EXCEPT ![w] = Head(injector)]
  /\ \E n \in Taken(injector) :
       /\ queue' = [queue EXCEPT ![w] = Remainder(injector, n)]
       /\ injector' = SubSeq(injector, n + 1, Len(injector))

DrainTake ==
  /\ pc[Caller] = "alone" /\ ~WorthHelpers
  /\ PopOwn(Caller) \/ StealInjector(Caller)
  /\ Goto(Caller, IF Stopping THEN "abandon" ELSE "begin")
  /\ UNCHANGED <<world, phase, back, at, pending, pool, workSeen, flags, report, kept, nextRoot,
                 opened, late, result>>

DrainEmpty ==
  /\ pc[Caller] = "alone" /\ queue[Caller] \o injector = <<>>
  /\ Join
  /\ UNCHANGED <<world, phase, back, job, queues, pool, workSeen, flags, report, kept, nextRoot,
                 opened, late, result>>

AloneStep ==
  NextRoot \/ RootsStopped \/ RootsDone \/ WidenPool \/ DrainTake \/ DrainEmpty

-----------------------------------------------------------------------------
(* One task: walk_directory, act and what surrounds them in the loops.     *)

\* A listing worth a thread is worth one while it is read, so grow() runs at
\* every stride and after the directory, before its task is released.
Return(w) ==
  IF phase = "pool" THEN Goto(w, "grow") /\ back' = [back EXCEPT ![w] = "release"]
                    ELSE Goto(w, "release") /\ UNCHANGED back

\* The errors found while the root task was built are reported before the
\* directory is read.
Begin(w) ==
  /\ pc[w] = "begin"
  /\ at' = [at EXCEPT ![w] = task[w].next]
  /\ IF Stopping
     THEN Goto(w, "release") /\ UNCHANGED <<flags, report>>
     ELSE IF task[w].next > 0
     THEN Goto(w, "list") /\ UNCHANGED <<flags, report>>
     ELSE IF Is(task[w].dir, "carried")
     THEN Goto(w, "carried") /\ RecordError(<<"ignore", task[w].dir>>, FALSE)
     ELSE Goto(w, "read") /\ UNCHANGED <<flags, report>>
  /\ UNCHANGED <<world, phase, back, task, queues, pool, workSeen, kept, nextRoot, opened, late,
                 result>>

\* should_stop after a reported ignore error.
CheckStop(w) ==
  /\ pc[w] \in {"carried", "ruled"}
  /\ IF Stopping THEN Return(w)
     ELSE Goto(w, IF pc[w] = "carried" THEN "read" ELSE "list") /\ UNCHANGED back
  /\ UNCHANGED <<world, phase, job, queues, pool, workSeen, flags, report, kept, nextRoot, opened,
                 late, result>>

\* A directory that closes a symlink cycle is left alone without an error.
ReadFails(w) ==
  /\ pc[w] = "read"
  /\ \/ Is(task[w].dir, "loop") /\ UNCHANGED <<flags, report>>
     \/ /\ Is(task[w].dir, "read") /\ ~Is(task[w].dir, "loop")
        /\ RecordError(<<"read", task[w].dir>>, IsRoot(task[w].dir))
  /\ Return(w)
  /\ UNCHANGED <<world, phase, job, queues, pool, workSeen, kept, nextRoot, opened, late, result>>

Read(w) ==
  /\ pc[w] = "read" /\ ~Is(task[w].dir, "loop") /\ ~Is(task[w].dir, "read")
  /\ opened' = opened (+) SetToBag({task[w].dir})
  /\ workSeen' = workSeen + Len(Names(w)) + DirectoryWeight
  /\ IF Is(task[w].dir, "rules")
     THEN Goto(w, "ruled") /\ RecordError(<<"rules", task[w].dir>>, FALSE)
     ELSE Goto(w, "list") /\ UNCHANGED <<flags, report>>
  /\ UNCHANGED <<world, phase, back, job, queues, pool, kept, nextRoot, late, result>>

\* Every CANCELLATION_STRIDE entries.  (Mutant: once in a batch.)
BatchStart(w) == at[w] = task[w].next
Boundary(w) == at[w] % Stride = 0

List(w) ==
  /\ pc[w] = "list" /\ at[w] < BatchEnd(w) /\ Boundary(w)
  /\ IF Stopping THEN Return(w)
     ELSE IF phase = "pool" THEN Goto(w, "grow") /\ back' = [back EXCEPT ![w] = "entry"]
     ELSE Goto(w, "entry") /\ UNCHANGED back
  /\ UNCHANGED <<world, phase, job, queues, pool, workSeen, flags, report, kept, nextRoot, opened,
                 late, result>>

\* act: what classification decided about name n, and the visitor where it is
\* asked.  The visitor's verdict comes before the directory is scheduled.
Asked(n) == world.action[n] \in {"emit", "both"}
Emits(n) == Asked(n) /\ world.verdict[n] = "keep"
Stops(n) == Asked(n) /\ world.verdict[n] = "stop"
\* (Mutant: a prune that keeps the entry out and lets its subtree in.)
PruneAsSkip(n) == world.action[n] \in {"descend", "failDescend", "both"} /\ ~Stops(n)
Fails(n) == world.action[n] \in {"fail", "failDescend"}
Schedules(n) ==
  \/ world.action[n] \in {"descend", "failDescend"}
  \/ world.action[n] = "both" /\ world.verdict[n] \in {"keep", "skip"}

AtEntry(w) ==
  \/ pc[w] = "entry"
  \/ pc[w] = "list" /\ at[w] < BatchEnd(w) /\ ~Boundary(w)

Entry(w) ==
  /\ AtEntry(w)
  /\ LET n == Names(w)[at[w] + 1] IN
       /\ found' = IF Emits(n) THEN [found EXCEPT ![w] = @ (+) SetToBag({n})] ELSE found
       /\ IF Schedules(n)
          THEN queue' = [queue EXCEPT ![w] = Append(@, DirectoryTask(n))] /\ Schedule
          ELSE UNCHANGED <<queue, pending>>
       /\ IF Fails(n)
          THEN RecordError(<<"entry", n>>, FALSE)
          ELSE stopped' = (stopped \/ Stops(n)) /\ UNCHANGED <<cancelled, panic, report>>
  /\ at' = [at EXCEPT ![w] = @ + 1]
  /\ late' = IF Stopping THEN [late EXCEPT ![w] = @ + 1] ELSE late
  /\ Goto(w, "list")
  /\ UNCHANGED <<world, phase, back, task, injector, pool, workSeen, shards, nextRoot, opened,
                 result>>

\* The unvisited tail goes to the shared queue.  (Mutant: off by one.)
SkipsOne(w) == [dir |-> task[w].dir, next |-> at[w] + 1]
Continuation(w) == [dir |-> task[w].dir, next |-> at[w]]

Continue(w) ==
  /\ pc[w] = "list" /\ at[w] = BatchEnd(w)
  /\ at[w] < Len(Names(w)) /\ ~Stopping
  /\ injector' = Append(injector, Continuation(w)) /\ Schedule
  /\ Return(w)
  /\ UNCHANGED <<world, phase, job, queue, pool, workSeen, flags, report, kept, nextRoot, opened,
                 late, result>>

EndListing(w) ==
  /\ pc[w] = "list" /\ at[w] = BatchEnd(w)
  /\ at[w] = Len(Names(w)) \/ Stopping
  /\ IF Is(task[w].dir, "deferred")
     THEN RecordError(<<"deferred", task[w].dir>>, FALSE)
     ELSE UNCHANGED <<flags, report>>
  /\ Return(w)
  /\ UNCHANGED <<world, phase, job, queues, pool, workSeen, kept, nextRoot, opened, late, result>>

\* The task guard is dropped: at the end of the loop body, by drain_alone's
\* early return, or by a panic.
Loop == CASE phase = "roots" -> "roots" [] phase = "alone" -> "alone" [] OTHER -> "idle"

Release(w) ==
  /\ pc[w] \in {"release", "abandon", "unwind"}
  /\ CompleteTask
  /\ Goto(w, CASE pc[w] = "release" -> Loop [] pc[w] = "abandon" -> "join" [] OTHER -> "unwound")
  /\ UNCHANGED <<world, phase, back, job, queue, injector, pool, workSeen, flags, report, kept,
                 nextRoot, opened, late, result>>

\* The visitor or the backend panics.
Panic(w) ==
  /\ "panic" \in world.may /\ (pc[w] = "read" \/ AtEntry(w))
  /\ Goto(w, "unwind")
  /\ UNCHANGED <<world, phase, back, job, queues, pool, workSeen, flags, report, kept, nextRoot,
                 opened, late, result>>

RecordPanic(w) ==
  /\ pc[w] = "unwound"
  /\ panic' = TRUE /\ stopped' = TRUE
  /\ Goto(w, IF w = Caller THEN "join" ELSE "leave")
  /\ UNCHANGED <<world, phase, back, job, queues, pool, workSeen, cancelled, report, kept,
                 nextRoot, opened, late, result>>

TaskStep(w) ==
  \/ Begin(w) \/ CheckStop(w) \/ ReadFails(w) \/ Read(w) \/ List(w) \/ Entry(w) \/ Continue(w)
  \/ EndListing(w) \/ Release(w) \/ RecordPanic(w)

-----------------------------------------------------------------------------
(* The pool: grow, spawn, the worker loop and its end.                     *)

\* claim_worker_slot: the compare-exchange makes test and claim one step.
\* (Mutant: the budget is left to the spare scratches.)
WorkWaits == pending > active
SlotFree == active < Threads /\ pending > active
MayGrow == ~Stopping /\ ~capped /\ WorthHelpers /\ SlotFree

GrowDone(w) ==
  /\ pc[w] = "grow" /\ ~MayGrow
  /\ Goto(w, back[w])
  /\ UNCHANGED <<world, phase, back, job, queues, pool, workSeen, flags, report, kept, nextRoot,
                 opened, late, result>>

ClaimSlot(w) ==
  /\ pc[w] = "grow" /\ MayGrow
  /\ active' = active + 1
  /\ Goto(w, "slot")
  /\ UNCHANGED <<world, phase, back, job, queues, idle, capped, workSeen, flags, report, kept,
                 nextRoot, opened, late, result>>

\* Every scratch is in use or lost: the slot is dropped.
NoScratch(w) ==
  /\ pc[w] = "slot" /\ idle = {}
  /\ DropSlot
  /\ Goto(w, back[w])
  /\ UNCHANGED <<world, phase, back, job, queues, idle, capped, workSeen, flags, report, kept,
                 nextRoot, opened, late, result>>

\* spawn: the scratch leaves the list either way; a thread that could not be
\* started takes it along with the slot.
Spawn(w) ==
  /\ pc[w] = "slot"
  /\ \E h \in idle :
       /\ \A other \in idle : other <= h
       /\ idle' = idle \ {h}
       /\ \/ /\ pc' = [pc EXCEPT ![w] = "grow", ![h] = "idle"]
             /\ UNCHANGED active
          \/ /\ "refuse" \in world.may
             /\ DropSlot
             /\ Goto(w, "refused")
  /\ UNCHANGED <<world, phase, back, job, queues, capped, workSeen, flags, report, kept, nextRoot,
                 opened, late, result>>

\* record_spawn_failure: not the walk's failure, unless the policy says so.
Refused(w) ==
  /\ pc[w] = "refused"
  /\ capped' = TRUE
  /\ RecordError(<<"spawn", Roots[1]>>, FALSE)
  /\ Goto(w, back[w])
  /\ UNCHANGED <<world, phase, back, job, queues, active, idle, workSeen, kept, nextRoot, opened,
                 late, result>>

\* A thief looks at the other deques once it has found the shared one empty;
\* by the time it steals, that may have changed.
StealVictim(w) ==
  /\ queue[w] = <<>>
  /\ \E v \in Worker \ {w} :
       /\ queue[v] # <<>>
       /\ task' = [task EXCEPT ![w] = Head(queue[v])]
       /\ \E n \in Taken(queue[v]) :
            queue' = [queue EXCEPT ![w] = Remainder(queue[v], n),
                                   ![v] = SubSeq(queue[v], n + 1, Len(queue[v]))]
  /\ UNCHANGED injector

TakeTask(w) ==
  /\ pc[w] = "idle"
  /\ PopOwn(w) \/ StealInjector(w) \/ StealVictim(w)
  /\ Goto(w, "begin")
  /\ UNCHANGED <<world, phase, back, at, pending, pool, workSeen, flags, report, kept, nextRoot,
                 opened, late, result>>

\* wait_for_task returns nothing.
NoMoreTasks(w) ==
  /\ pc[w] = "idle" /\ (pending = 0 \/ Stopping)
  /\ Goto(w, IF w = Caller THEN "join" ELSE "leave")
  /\ UNCHANGED <<world, phase, back, job, queues, pool, workSeen, flags, report, kept, nextRoot,
                 opened, late, result>>

\* A helper hands in its shard and drops its slot.
EndHelper(w) ==
  /\ pc[w] = "leave"
  /\ shards' = shards (+) found[w]
  /\ found' = [found EXCEPT ![w] = EmptyBag]
  /\ DropSlot
  /\ Goto(w, "left")
  /\ UNCHANGED <<world, phase, back, job, queues, idle, capped, workSeen, flags, report, nextRoot,
                 opened, late, result>>

PoolStep(w) ==
  \/ GrowDone(w) \/ ClaimSlot(w) \/ NoScratch(w) \/ Spawn(w) \/ Refused(w)
  \/ TakeTask(w) \/ NoMoreTasks(w) \/ EndHelper(w)

\* finish(), after the scope has joined every helper: a panic outranks the
\* error that ended the walk, and that one the result.
Outcome ==
  IF panic THEN [kind |-> "panic"]
  ELSE IF abort # NoError THEN [kind |-> "error", error |-> abort]
  ELSE [kind |-> "ok", entries |-> shards (+) found[Caller], errors |-> errors,
        cancelled |-> Stopping]
Finish ==
  /\ pc[Caller] = "join" /\ \A h \in Worker \ {Caller} : pc[h] \in {"unborn", "left"}
  /\ result' = Outcome
  /\ DropSlot
  /\ Goto(Caller, "left")
  /\ UNCHANGED <<world, phase, back, job, queues, idle, capped, workSeen, flags, report, kept,
                 nextRoot, opened, late>>

Cancel ==
  /\ "cancel" \in world.may /\ ~cancelled /\ result = NoResult
  /\ cancelled' = TRUE
  /\ UNCHANGED <<world, phase, pc, back, job, queues, pool, workSeen, stopped, panic, report, kept,
                 nextRoot, opened, late, result>>

Done == result # NoResult /\ UNCHANGED vars

Next ==
  \/ AloneStep \/ Finish \/ Cancel \/ Done
  \/ \E w \in Worker : TaskStep(w) \/ PoolStep(w) \/ Panic(w)

Spec == Init /\ [][Next]_vars

\* Every thread that can take a step takes one; nobody owes a cancellation,
\* a panic or a refusal.
FairSpec ==
  /\ Spec /\ WF_vars(AloneStep \/ Finish)
  /\ \A w \in Worker : WF_vars(TaskStep(w) \/ PoolStep(w))

-----------------------------------------------------------------------------
(* What the walk should report, from the tree and the world alone.         *)

Opens(d) == {"loop", "read"} \cap world.fault[d] = {}
Holds(d) == ToSet(Listing[d])

\* What the visitor says counts only where it is asked.
Offered(n) == world.action[n] \in {"emit", "both"}
Leads(n) ==
  /\ world.action[n] \in {"descend", "both", "failDescend"}
  /\ Offered(n) => world.verdict[n] \in {"keep", "skip"}

Reached ==
  LET reached[d \in Dir] ==
        \/ IsRoot(d)
        \/ Leads(d) /\ \E up \in Dir : d \in Holds(up) /\ Opens(up) /\ reached[up]
  IN  {d \in Dir : reached[d]}

Openable == {d \in Reached : Opens(d)}
Listed == UNION {Holds(d) : d \in Openable}
Wanted == {n \in Listed : Offered(n) /\ world.verdict[n] = "keep"}

RootFailures == {<<"read", d>> : d \in {r \in ToSet(Roots) : Is(r, "read") /\ ~Is(r, "loop")}}
Failures ==
  RootFailures
  \cup {<<"ignore", d>> : d \in {r \in ToSet(Roots) : Is(r, "carried")}}
  \cup {<<"read", d>> : d \in {u \in Reached : Is(u, "read") /\ ~Is(u, "loop")}}
  \cup (UNION {{<<fault, d>> : d \in {u \in Openable : Is(u, fault)}} : fault \in {"rules", "deferred"}})
  \cup {<<"entry", n>> : n \in {m \in Listed : world.action[m] \in {"fail", "failDescend"}}}

\* The table of ErrorPolicy (lib.rs:676-695).
Reported == CASE world.policy = "collect" -> Failures
              [] world.policy = "skip" -> RootFailures
              [] world.policy = "abort" -> {}

-----------------------------------------------------------------------------
(* Properties.                                                             *)

Copies(e, bag) == IF e \in DOMAIN bag THEN bag[e] ELSE 0

\* ADR-0009: "single- vs multi-thread result equality" and "a lossless error
\* channel".  Whatever the schedule, the pool and the refused helpers, a walk
\* that returns a result and does not call it cancelled reports each entry
\* and each error of the tree exactly once.
Complete ==
  result.kind = "ok" /\ ~result.cancelled =>
    /\ result.entries = SetToBag(Wanted)
    /\ \A e \in Failures \cup BagToSet(result.errors) :
         e[1] # "spawn" => Copies(e, result.errors) = IF e \in Reported THEN 1 ELSE 0
    /\ world.policy = "abort" => Failures = {}

\* A result that was cut short holds nothing the whole tree would not have:
\* no entry twice, none below a pruned or unreadable directory.
Sound ==
  /\ opened \sqsubseteq SetToBag(Openable)
  /\ result.kind = "ok" =>
       /\ result.entries \sqsubseteq SetToBag(Wanted)
       /\ \A e \in BagToSet(result.errors) : e[1] # "spawn" =>
            e \in Reported /\ Copies(e, result.errors) = 1
  /\ result.kind = "error" => result.error \in Failures \cup {<<"spawn", Roots[1]>>}

\* claim_worker_slot, WorkerSlot: concurrent growth, refused starts and workers
\* that end never let the pool pass the budget, and every slot in use belongs
\* to a running worker or to a start in progress.
StaysInBudget ==
  /\ active <= Threads
  /\ active = Cardinality({w \in Worker : pc[w] \notin {"unborn", "left"}})
              + Cardinality({w \in Worker : pc[w] = "slot"})

\* CancellationToken::cancel: once the walk is to stop, no worker classifies
\* more than a stride of further entries.
StopsPromptly == \A w \in Worker : late[w] <= Stride

\* Every walk returns, with any helper refused, panicking or stopped.
Returns == <>(result # NoResult)

\* usage.md:554-556: a start the system refuses "is reported as one recoverable
\* spawn_worker error".
RefusedOnce == Copies(<<"spawn", Roots[1]>>, errors) <= 1

\* LISTING_BATCH_SIZE (parallel.rs:255-258, usage.md:561-563): pending traversal
\* work, the directories queued, is bounded "by one batch per active worker".
Waiting(q) == Len(SelectSeq(q, LAMBDA t : t.next = 0))
Frontier == Waiting(injector) + FoldFunction(LAMBDA q, n : Waiting(q) + n, 0, queue)
FrontierBounded == Frontier <= BatchSize * active
=============================================================================
