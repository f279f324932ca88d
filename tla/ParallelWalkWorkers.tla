-------------------------- MODULE ParallelWalkWorkers --------------------------
(***************************************************************************)
(* What every step of ParallelWalk does to the workers and to the types.   *)
(***************************************************************************)
EXTENDS ParallelWalkQueues

-----------------------------------------------------------------------------
(* Types.                                                                  *)

LEMMA TypesOf ==
  ASSUME TypeOK
  PROVE  /\ world \in Worlds /\ phase \in {"roots", "alone", "pool"}
         /\ pc \in [Worker -> Label] /\ back \in [Worker -> {"idle", "entry", "release"}]
         /\ task \in [Worker -> Task] /\ at \in [Worker -> Nat] /\ late \in [Worker -> Nat]
         /\ queue \in [Worker -> Seq(Task)] /\ injector \in Seq(Task) /\ pending \in Nat
         /\ active \in Nat /\ idle \subseteq Worker \ {Caller} /\ workSeen \in Nat
         /\ capped \in BOOLEAN /\ stopped \in BOOLEAN /\ cancelled \in BOOLEAN /\ panic \in BOOLEAN
         /\ IsABag(errors) /\ IsABag(shards) /\ IsABag(opened)
         /\ DOMAIN found = Worker /\ \A w \in Worker : IsABag(found[w])
         /\ nextRoot \in Nat /\ nextRoot \in 1 .. Len(Roots) + 1 /\ Len(Roots) \in Nat
         /\ \A w \in Worker : /\ task[w] \in Task /\ task[w].dir \in Dir /\ task[w].next \in Nat
                              /\ task[w] = [dir |-> task[w].dir, next |-> task[w].next]
                              /\ at[w] \in Nat /\ queue[w] \in Seq(Task)
                              /\ Names(w) \in Seq(Name) /\ Len(Names(w)) \in Nat
                              /\ \A k \in 1 .. Len(Names(w)) : Names(w)[k] \in Name
<1>1. \A w \in Worker : task[w] \in Task /\ at[w] \in Nat /\ queue[w] \in Seq(Task)
  BY DEF TypeOK
<1>2. \A t \in Task : t.dir \in Dir /\ t.next \in Nat /\ t = [dir |-> t.dir, next |-> t.next]
  BY DEF Task
<1>3. nextRoot \in Nat /\ Len(Roots) \in Nat
  BY Constants DEF TypeOK
<1>4. \A w \in Worker : /\ Names(w) \in Seq(Name) /\ Len(Names(w)) \in Nat
                        /\ \A k \in 1 .. Len(Names(w)) : Names(w)[k] \in Name
  BY <1>1, <1>2, Constants DEF Names
<1> QED
  BY <1>1, <1>2, <1>3, <1>4 DEF TypeOK

\* What a report leaves behind.
LEMMA ErrorTypes ==
  ASSUME TypeOK, NEW e, NEW isRoot,
         RecordError(e, isRoot) \/ UNCHANGED <<flags, report>>
  PROVE  /\ stopped' \in BOOLEAN /\ cancelled' \in BOOLEAN /\ panic' \in BOOLEAN /\ IsABag(errors')
         /\ cancelled' = cancelled /\ panic' = panic /\ (stopped => stopped') /\ (Stopping => Stopping')
<1>1. /\ stopped \in BOOLEAN /\ cancelled \in BOOLEAN /\ panic \in BOOLEAN /\ IsABag(errors)
      /\ IsABag(errors (+) SetToBag({e}))
  BY TypesOf, AddOne
<1>2. CASE RecordError(e, isRoot)
  <2>1. /\ stopped' = (stopped \/ world.policy = "abort") /\ cancelled' = cancelled /\ panic' = panic
        /\ errors' \in {errors, errors (+) SetToBag({e})}
    BY <1>2 DEF RecordError
  <2> QED
    BY <1>1, <2>1 DEF Stopping
<1>3. CASE UNCHANGED <<flags, report>>
  BY <1>1, <1>3 DEF flags, report, Stopping
<1> QED
  BY <1>2, <1>3

\* A name that is scheduled is a directory.
LEMMA ScheduledName ==
  ASSUME TypeOK, NEW n \in Name, Schedules(n)
  PROVE  n \in Dir /\ Leads(n) /\ DirectoryTask(n) \in Task
<1>1. n \in Dir
  BY WorldFields DEF Schedules, TypeOK
<1>2. Leads(n)
  BY DEF Schedules, Leads, Offered
<1> QED
  BY <1>1, <1>2 DEF DirectoryTask, Task

\* Where in its listing a worker is when it looks at an entry.
LEMMA BatchOf ==
  ASSUME TypeOK, PositionInv, NEW w \in Worker
  PROVE  /\ BatchEnd(w) \in Nat /\ BatchEnd(w) <= Len(Names(w)) /\ BatchEnd(w) <= task[w].next + BatchSize
         /\ AtEntry(w) => /\ at[w] < BatchEnd(w) /\ at[w] + 1 \in 1 .. Len(Names(w))
                          /\ Names(w)[at[w] + 1] \in Name /\ Place(w) \in {"list", "entry"}
<1>1. /\ task[w].next \in Nat /\ at[w] \in Nat /\ Len(Names(w)) \in Nat /\ BatchSize \in Nat
      /\ \A k \in 1 .. Len(Names(w)) : Names(w)[k] \in Name
  BY TypesOf, Constants
<1>2. BatchEnd(w) \in Nat /\ BatchEnd(w) <= Len(Names(w)) /\ BatchEnd(w) <= task[w].next + BatchSize
  BY <1>1 DEF BatchEnd
<1>3. ASSUME AtEntry(w)
      PROVE  at[w] < BatchEnd(w) /\ Place(w) \in {"list", "entry"}
  <2>1. CASE pc[w] = "entry"
    <3>1. Place(w) = "entry"
      BY <2>1 DEF Place, Growing
    <3>2. at[w] \in task[w].next .. BatchEnd(w) - 1
      BY <3>1 DEF PositionInv
    <3> QED
      BY <1>1, <1>2, <3>1, <3>2
  <2>2. CASE pc[w] = "list" /\ at[w] < BatchEnd(w)
    BY <2>2 DEF Place, Growing
  <2> QED
    BY <1>3, <2>1, <2>2 DEF AtEntry
<1> QED
  BY <1>1, <1>2, <1>3

\* A worker that releases a task holds one that is counted.
LEMMA HoldersCount ==
  ASSUME CountInv
  PROVE  /\ IsFiniteSet({v \in Worker : Holding(v)}) /\ Cardinality({v \in Worker : Holding(v)}) \in Nat
         /\ Cardinality(Queued) \in Nat
         /\ \A w \in Worker : Holding(w) => pending \in Nat \ {0}
<1> DEFINE H == {v \in Worker : Holding(v)}
<1>1. IsFiniteSet(Worker)
  BY Constants, FS_Interval DEF Worker
<1>2. IsFiniteSet(H)
  BY <1>1, FS_Subset
<1>3. Cardinality(H) \in Nat /\ Cardinality(Queued) \in Nat
  BY <1>2, FS_CardinalityType DEF CountInv
<1>4. ASSUME NEW w \in Worker, Holding(w) PROVE Cardinality(H) # 0
  BY <1>2, <1>4, FS_EmptySet
<1> QED
  BY <1>2, <1>3, <1>4 DEF CountInv

\* Slots: those of running workers, and one more for each start in progress.
Running == {w \in Worker : pc[w] \notin {"unborn", "left"}}
Starting == {w \in Worker : pc[w] = "slot"}

LEMMA Slots ==
  /\ IsFiniteSet(Worker) /\ Cardinality(Worker) = Threads
  /\ \A S \in SUBSET Worker : IsFiniteSet(S) /\ Cardinality(S) \in Nat
<1>1. 0 \in Int /\ Threads - 1 \in Int /\ Threads \in Nat \ {0}
  BY Constants
<1>2. IsFiniteSet(Worker) /\ Cardinality(Worker) = Threads
  <2>1. IsFiniteSet(0 .. Threads - 1)
        /\ Cardinality(0 .. Threads - 1) = IF 0 > Threads - 1 THEN 0 ELSE Threads - 1 - 0 + 1
    BY <1>1, FS_Interval
  <2> QED
    BY <1>1, <2>1 DEF Worker
<1> QED
  BY <1>2, FS_Subset, FS_CardinalityType

LEMMA PositiveActive ==
  ASSUME StaysInBudget, NEW w \in Worker, pc[w] \notin {"unborn", "left"}
  PROVE  active # 0
<1>1. Running \subseteq Worker /\ Starting \subseteq Worker /\ w \in Running
  BY DEF Running, Starting
<1>2. Cardinality(Running) \in Nat /\ Cardinality(Starting) \in Nat /\ IsFiniteSet(Running)
  BY <1>1, Slots
<1>3. Cardinality(Running) # 0
  BY <1>1, <1>2, FS_EmptySet
<1>4. active = Cardinality(Running) + Cardinality(Starting)
  BY DEF StaysInBudget, Running, Starting
<1> QED
  BY <1>2, <1>3, <1>4

\* A step leaves every worker at a label.
LEMMA ControlTypes ==
  ASSUME TypeOK, [Next]_vars
  PROVE  pc' \in [Worker -> Label] /\ back' \in [Worker -> {"idle", "entry", "release"}]
<1>1. /\ pc \in [Worker -> Label] /\ back \in [Worker -> {"idle", "entry", "release"}] /\ Caller \in Worker
      /\ idle \subseteq Worker
  BY Constants DEF TypeOK
<1> USE DEF Goto, Label, Stages
<1>2. ASSUME NEW w \in Worker, Begin(w)
      PROVE  pc' \in [Worker -> Label] /\ back' \in [Worker -> {"idle", "entry", "release"}]
  BY <1>1, <1>2 DEF Begin
<1>3. ASSUME NEW w \in Worker, CheckStop(w)
      PROVE  pc' \in [Worker -> Label] /\ back' \in [Worker -> {"idle", "entry", "release"}]
  BY <1>1, <1>3 DEF CheckStop, Return
<1>4. ASSUME NEW w \in Worker, ReadFails(w)
      PROVE  pc' \in [Worker -> Label] /\ back' \in [Worker -> {"idle", "entry", "release"}]
  BY <1>1, <1>4 DEF ReadFails, Return
<1>5. ASSUME NEW w \in Worker, Read(w)
      PROVE  pc' \in [Worker -> Label] /\ back' \in [Worker -> {"idle", "entry", "release"}]
  BY <1>1, <1>5 DEF Read
<1>6. ASSUME NEW w \in Worker, List(w)
      PROVE  pc' \in [Worker -> Label] /\ back' \in [Worker -> {"idle", "entry", "release"}]
  BY <1>1, <1>6 DEF List, Return
<1>7. ASSUME NEW w \in Worker, Entry(w)
      PROVE  pc' \in [Worker -> Label] /\ back' \in [Worker -> {"idle", "entry", "release"}]
  BY <1>1, <1>7 DEF Entry
<1>8. ASSUME NEW w \in Worker, Continue(w)
      PROVE  pc' \in [Worker -> Label] /\ back' \in [Worker -> {"idle", "entry", "release"}]
  BY <1>1, <1>8 DEF Continue, Return
<1>9. ASSUME NEW w \in Worker, EndListing(w)
      PROVE  pc' \in [Worker -> Label] /\ back' \in [Worker -> {"idle", "entry", "release"}]
  BY <1>1, <1>9 DEF EndListing, Return
<1>10. ASSUME NEW w \in Worker, Release(w)
      PROVE  pc' \in [Worker -> Label] /\ back' \in [Worker -> {"idle", "entry", "release"}]
  BY <1>1, <1>10 DEF Release, Loop
<1>11. ASSUME NEW w \in Worker, RecordPanic(w)
      PROVE  pc' \in [Worker -> Label] /\ back' \in [Worker -> {"idle", "entry", "release"}]
  BY <1>1, <1>11 DEF RecordPanic
<1>12. ASSUME NEW w \in Worker, Panic(w)
      PROVE  pc' \in [Worker -> Label] /\ back' \in [Worker -> {"idle", "entry", "release"}]
  BY <1>1, <1>12 DEF Panic
<1>13. ASSUME NEW w \in Worker, GrowDone(w)
      PROVE  pc' \in [Worker -> Label] /\ back' \in [Worker -> {"idle", "entry", "release"}]
  BY <1>1, <1>13 DEF GrowDone
<1>14. ASSUME NEW w \in Worker, ClaimSlot(w)
      PROVE  pc' \in [Worker -> Label] /\ back' \in [Worker -> {"idle", "entry", "release"}]
  BY <1>1, <1>14 DEF ClaimSlot
<1>15. ASSUME NEW w \in Worker, NoScratch(w)
      PROVE  pc' \in [Worker -> Label] /\ back' \in [Worker -> {"idle", "entry", "release"}]
  BY <1>1, <1>15 DEF NoScratch
<1>16. ASSUME NEW w \in Worker, Spawn(w)
      PROVE  pc' \in [Worker -> Label] /\ back' \in [Worker -> {"idle", "entry", "release"}]
  BY <1>1, <1>16 DEF Spawn
<1>17. ASSUME NEW w \in Worker, Refused(w)
      PROVE  pc' \in [Worker -> Label] /\ back' \in [Worker -> {"idle", "entry", "release"}]
  BY <1>1, <1>17 DEF Refused
<1>18. ASSUME NEW w \in Worker, TakeTask(w)
      PROVE  pc' \in [Worker -> Label] /\ back' \in [Worker -> {"idle", "entry", "release"}]
  BY <1>1, <1>18 DEF TakeTask
<1>19. ASSUME NEW w \in Worker, NoMoreTasks(w)
      PROVE  pc' \in [Worker -> Label] /\ back' \in [Worker -> {"idle", "entry", "release"}]
  BY <1>1, <1>19 DEF NoMoreTasks
<1>20. ASSUME NEW w \in Worker, EndHelper(w)
      PROVE  pc' \in [Worker -> Label] /\ back' \in [Worker -> {"idle", "entry", "release"}]
  BY <1>1, <1>20 DEF EndHelper
<1>21. ASSUME NextRoot
      PROVE  pc' \in [Worker -> Label] /\ back' \in [Worker -> {"idle", "entry", "release"}]
  BY <1>1, <1>21 DEF NextRoot
<1>22. ASSUME RootsStopped
      PROVE  pc' \in [Worker -> Label] /\ back' \in [Worker -> {"idle", "entry", "release"}]
  BY <1>1, <1>22 DEF RootsStopped, Join
<1>23. ASSUME RootsDone
      PROVE  pc' \in [Worker -> Label] /\ back' \in [Worker -> {"idle", "entry", "release"}]
  BY <1>1, <1>23 DEF RootsDone
<1>24. ASSUME WidenPool
      PROVE  pc' \in [Worker -> Label] /\ back' \in [Worker -> {"idle", "entry", "release"}]
  BY <1>1, <1>24 DEF WidenPool
<1>25. ASSUME DrainTake
      PROVE  pc' \in [Worker -> Label] /\ back' \in [Worker -> {"idle", "entry", "release"}]
  BY <1>1, <1>25 DEF DrainTake
<1>26. ASSUME DrainEmpty
      PROVE  pc' \in [Worker -> Label] /\ back' \in [Worker -> {"idle", "entry", "release"}]
  BY <1>1, <1>26 DEF DrainEmpty, Join
<1>27. ASSUME Finish
      PROVE  pc' \in [Worker -> Label] /\ back' \in [Worker -> {"idle", "entry", "release"}]
  BY <1>1, <1>27 DEF Finish
<1>28. CASE Cancel \/ UNCHANGED vars
  BY <1>1, <1>28 DEF Cancel, vars
<1> QED
  BY <1>2, <1>3, <1>4, <1>5, <1>6, <1>7, <1>8, <1>9, <1>10, <1>11, <1>12, <1>13, <1>14, <1>15, <1>16, <1>17, <1>18, <1>19, <1>20, <1>21, <1>22, <1>23, <1>24, <1>25, <1>26, <1>27, <1>28
  DEF Next, Done, AloneStep, TaskStep, PoolStep

LEMMA TaskTypes ==
  ASSUME TypeOK, PositionInv, CountInv, NEW w \in Worker, TaskStep(w) \/ Panic(w)
  PROVE  TypeOK'
<1> USE DEF queues, pool, flags, report, kept, job
<1>0. pc' \in [Worker -> Label] /\ back' \in [Worker -> {"idle", "entry", "release"}]
  BY ControlTypes DEF Next
<1>1. CASE Begin(w)
  <2>1. /\ stopped' \in BOOLEAN /\ cancelled' \in BOOLEAN /\ panic' \in BOOLEAN /\ IsABag(errors')
    BY <1>1, ErrorTypes DEF Begin
  <2>2. at' \in [Worker -> Nat]
    BY <1>1, TypesOf DEF Begin
  <2> QED
    BY <1>0, <1>1, <2>1, <2>2 DEF TypeOK, Begin
<1>2. CASE CheckStop(w)
  BY <1>0, <1>2 DEF TypeOK, CheckStop
<1>3. CASE ReadFails(w)
  <2>1. /\ stopped' \in BOOLEAN /\ cancelled' \in BOOLEAN /\ panic' \in BOOLEAN /\ IsABag(errors')
    BY <1>3, ErrorTypes DEF ReadFails
  <2> QED
    BY <1>0, <1>3, <2>1 DEF TypeOK, ReadFails
<1>4. CASE Read(w)
  <2>1. /\ stopped' \in BOOLEAN /\ cancelled' \in BOOLEAN /\ panic' \in BOOLEAN /\ IsABag(errors')
    BY <1>4, ErrorTypes DEF Read
  <2>2. IsABag(opened')
    BY <1>4, TypesOf, AddOne DEF Read
  <2>3. workSeen' \in Nat
    <3>1. workSeen \in Nat /\ Len(Names(w)) \in Nat /\ DirectoryWeight \in Nat
      BY TypesOf, Constants
    <3>2. workSeen' = workSeen + Len(Names(w)) + DirectoryWeight
      BY <1>4 DEF Read
    <3> QED
      BY <3>1, <3>2
  <2> QED
    BY <1>0, <1>4, <2>1, <2>2, <2>3 DEF TypeOK, Read
<1>5. CASE List(w)
  BY <1>0, <1>5 DEF TypeOK, List
<1>6. CASE Entry(w)
  <2> DEFINE n == Names(w)[at[w] + 1]
  <2>1. n \in Name /\ at[w] \in Nat
    BY <1>6, BatchOf, TypesOf DEF Entry
  <2>2. /\ stopped' \in BOOLEAN /\ cancelled' \in BOOLEAN /\ panic' \in BOOLEAN /\ IsABag(errors')
    <3>1. CASE Fails(n)
      BY <1>6, <3>1, ErrorTypes DEF Entry
    <3>2. CASE ~Fails(n)
      BY <1>6, <3>2, TypesOf DEF Entry, Stops
    <3> QED
      BY <3>1, <3>2
  <2>3. queue' \in [Worker -> Seq(Task)] /\ pending' \in Nat
    <3>0. queue \in [Worker -> Seq(Task)] /\ pending \in Nat
      BY TypesOf
    <3>1. CASE Schedules(n)
      <4>1. Append(queue[w], DirectoryTask(n)) \in Seq(Task)
        BY <2>1, <3>1, ScheduledName, TypesOf, AppendProperties
      <4>2. queue' = [queue EXCEPT ![w] = Append(queue[w], DirectoryTask(n))] /\ pending' = pending + 1
        BY <1>6, <3>1 DEF Entry, Schedule
      <4> QED
        BY <3>0, <4>1, <4>2
    <3>2. CASE ~Schedules(n)
      BY <1>6, <3>0, <3>2 DEF Entry
    <3> QED
      BY <3>1, <3>2
  <2>4. DOMAIN found' = Worker /\ \A v \in Worker : IsABag(found'[v])
    <3>1. /\ DOMAIN found = Worker
          /\ \A v \in Worker : IsABag(found[v]) /\ IsABag(found[v] (+) SetToBag({n}))
      BY TypesOf, AddOne
    <3>2. found' = found \/ found' = [found EXCEPT ![w] = found[w] (+) SetToBag({n})]
      BY <1>6 DEF Entry
    <3> QED
      BY <3>1, <3>2
  <2>5. at' \in [Worker -> Nat] /\ late' \in [Worker -> Nat]
    <3>1. at \in [Worker -> Nat] /\ late \in [Worker -> Nat]
      BY TypesOf
    <3>2. at' = [at EXCEPT ![w] = at[w] + 1] /\ (late' = late \/ late' = [late EXCEPT ![w] = late[w] + 1])
      BY <1>6 DEF Entry
    <3> QED
      BY <3>1, <3>2
  <2> QED
    BY <1>0, <1>6, <2>2, <2>3, <2>4, <2>5 DEF TypeOK, Entry
<1>7. CASE Continue(w)
  <2>1. Continuation(w) \in Task
    BY TypesOf DEF Continuation, Task
  <2>2. injector' \in Seq(Task) /\ pending' \in Nat
    BY <1>7, <2>1, TypesOf, AppendProperties DEF Continue, Schedule
  <2> QED
    BY <1>0, <1>7, <2>2 DEF TypeOK, Continue
<1>8. CASE EndListing(w)
  <2>1. /\ stopped' \in BOOLEAN /\ cancelled' \in BOOLEAN /\ panic' \in BOOLEAN /\ IsABag(errors')
    BY <1>8, ErrorTypes DEF EndListing
  <2> QED
    BY <1>0, <1>8, <2>1 DEF TypeOK, EndListing
<1>9. CASE Release(w)
  <2>1. Holding(w)
    BY <1>9 DEF Release, Holding, Place, Growing
  <2>2. pending' \in Nat
    BY <1>9, <2>1, HoldersCount DEF Release, CompleteTask
  <2> QED
    BY <1>0, <1>9, <2>2 DEF TypeOK, Release
<1>10. CASE RecordPanic(w)
  BY <1>0, <1>10 DEF TypeOK, RecordPanic
<1>11. CASE Panic(w)
  BY <1>0, <1>11 DEF TypeOK, Panic
<1> QED
  BY <1>1, <1>2, <1>3, <1>4, <1>5, <1>6, <1>7, <1>8, <1>9, <1>10, <1>11 DEF TaskStep

\* What taking a task does, whichever queue it comes from.
LEMMA TakeAny ==
  ASSUME TypeOK, OnceIn(Line), NEW w \in Worker, PopOwn(w) \/ StealInjector(w) \/ StealVictim(w)
  PROVE  /\ queue' \in [Worker -> Seq(Task)] /\ injector' \in Seq(Task) /\ OnceIn(Line')
         /\ task' \in [Worker -> Task]
         /\ \E t \in Queued : t \in Task /\ task' = [task EXCEPT ![w] = t] /\ Queued' = Queued \ {t}
<1>1. /\ queue' \in [Worker -> Seq(Task)] /\ injector' \in Seq(Task) /\ OnceIn(Line')
      /\ \E t \in Queued : t \in Task /\ task' = [task EXCEPT ![w] = t] /\ Queued' = Queued \ {t}
  BY PopTask, InjectorTask, VictimTask
<1>2. task \in [Worker -> Task]
  BY DEF TypeOK
<1> QED
  BY <1>1, <1>2

LEMMA PoolTypes ==
  ASSUME TypeOK, StaysInBudget, OnceIn(Line), NEW w \in Worker, PoolStep(w)
  PROVE  TypeOK'
<1> USE DEF queues, pool, flags, report, kept, job
<1>0. pc' \in [Worker -> Label] /\ back' \in [Worker -> {"idle", "entry", "release"}]
  BY ControlTypes DEF Next
<1>00. ASSUME pc[w] \in {"slot", "leave"} PROVE active - 1 \in Nat
  <2>1. active # 0
    BY <1>00, PositiveActive
  <2> QED
    BY <2>1, TypesOf
<1>1. CASE GrowDone(w)
  BY <1>0, <1>1 DEF TypeOK, GrowDone
<1>2. CASE ClaimSlot(w)
  BY <1>0, <1>2 DEF TypeOK, ClaimSlot
<1>3. CASE NoScratch(w)
  BY <1>0, <1>00, <1>3 DEF TypeOK, NoScratch, DropSlot
<1>4. CASE Spawn(w)
  <2>1. active' \in Nat
    BY <1>00, <1>4, TypesOf DEF Spawn, DropSlot
  <2> QED
    BY <1>0, <1>4, <2>1 DEF TypeOK, Spawn
<1>5. CASE Refused(w)
  <2>1. /\ stopped' \in BOOLEAN /\ cancelled' \in BOOLEAN /\ panic' \in BOOLEAN /\ IsABag(errors')
    BY <1>5, ErrorTypes DEF Refused
  <2> QED
    BY <1>0, <1>5, <2>1 DEF TypeOK, Refused
<1>6. CASE TakeTask(w)
  <2>1. queue' \in [Worker -> Seq(Task)] /\ injector' \in Seq(Task) /\ task' \in [Worker -> Task]
    BY <1>6, TakeAny DEF TakeTask
  <2> QED
    BY <1>0, <1>6, <2>1 DEF TypeOK, TakeTask
<1>7. CASE NoMoreTasks(w)
  BY <1>0, <1>7 DEF TypeOK, NoMoreTasks
<1>8. CASE EndHelper(w)
  <2>1. IsABag(shards')
    BY <1>8, TypesOf, AddBags DEF EndHelper
  <2>2. DOMAIN found' = Worker /\ \A v \in Worker : IsABag(found'[v])
    BY <1>8, TypesOf, NoCopies DEF EndHelper
  <2> QED
    BY <1>0, <1>00, <1>8, <2>1, <2>2 DEF TypeOK, EndHelper, DropSlot
<1> QED
  BY <1>1, <1>2, <1>3, <1>4, <1>5, <1>6, <1>7, <1>8 DEF PoolStep

LEMMA AloneTypes ==
  ASSUME TypeOK, StaysInBudget, OnceIn(Line), AloneStep \/ Finish \/ Cancel \/ UNCHANGED vars
  PROVE  TypeOK'
<1> USE DEF queues, pool, flags, report, kept, job
<1>0. pc' \in [Worker -> Label] /\ back' \in [Worker -> {"idle", "entry", "release"}]
  BY ControlTypes DEF Next
<1>1. CASE NextRoot
  <2>1. DirectoryTask(Roots[nextRoot]) \in Task /\ nextRoot' \in 1 .. Len(Roots) + 1
    <3>1. nextRoot \in 1 .. Len(Roots) /\ Len(Roots) \in Nat
      BY <1>1, TypesOf DEF NextRoot
    <3>2. Roots[nextRoot] \in Dir
      BY <3>1, Constants
    <3> QED
      BY <1>1, <3>1, <3>2 DEF NextRoot, DirectoryTask, Task
  <2>2. task' \in [Worker -> Task] /\ pending' \in Nat
    <3>1. task \in [Worker -> Task] /\ pending \in Nat
      BY DEF TypeOK
    <3>2. /\ pending' = pending + 1
          /\ task' = [task EXCEPT ![Caller] = DirectoryTask(Roots[nextRoot])]
      BY <1>1 DEF NextRoot, Schedule
    <3> DEFINE t == DirectoryTask(Roots[nextRoot])
    <3>3. t \in Task /\ task' = [task EXCEPT ![Caller] = t]
      BY <2>1, <3>2
    <3> HIDE DEF t
    <3>4. task' \in [Worker -> Task]
      BY <3>1, <3>3
    <3> QED
      BY <3>1, <3>2, <3>4
  <2> QED
    BY <1>0, <1>1, <2>1, <2>2 DEF TypeOK, NextRoot
<1>2. CASE RootsStopped
  BY <1>0, <1>2 DEF TypeOK, RootsStopped
<1>3. CASE RootsDone
  <2>1. queue' \in [Worker -> Seq(Task)] /\ injector' \in Seq(Task)
    BY <1>3, FlushTasks, Constants DEF RootsDone
  <2> QED
    BY <1>0, <1>3, <2>1 DEF TypeOK, RootsDone
<1>4. CASE WidenPool
  BY <1>0, <1>4 DEF TypeOK, WidenPool
<1>5. CASE DrainTake
  <2>1. queue' \in [Worker -> Seq(Task)] /\ injector' \in Seq(Task) /\ task' \in [Worker -> Task]
    BY <1>5, TakeAny, Constants DEF DrainTake
  <2> QED
    BY <1>0, <1>5, <2>1 DEF TypeOK, DrainTake
<1>6. CASE DrainEmpty
  BY <1>0, <1>6 DEF TypeOK, DrainEmpty
<1>7. CASE Finish
  <2>1. active - 1 \in Nat
    <3>1. pc[Caller] = "join" /\ Caller \in Worker /\ active \in Nat
      BY <1>7, Constants DEF Finish, TypeOK
    <3>2. active # 0
      BY <3>1, PositiveActive
    <3> QED
      BY <3>1, <3>2
  <2> QED
    BY <1>0, <1>7, <2>1 DEF TypeOK, Finish, DropSlot
<1>8. CASE Cancel
  BY <1>0, <1>8 DEF TypeOK, Cancel
<1>9. CASE UNCHANGED vars
  BY <1>9 DEF TypeOK, vars
<1> QED
  BY <1>1, <1>2, <1>3, <1>4, <1>5, <1>6, <1>7, <1>8, <1>9 DEF AloneStep

-----------------------------------------------------------------------------
(* The budget of workers.                                                  *)

\* Worker w goes from one label of a running worker to another.
Quiet == {"unborn", "left", "slot"}
Walks(w) == /\ pc[w] \notin Quiet /\ pc'[w] \notin Quiet /\ active' = active
            /\ \A v \in Worker \ {w} : pc'[v] = pc[v]

LEMMA WalkingSteps ==
  ASSUME TypeOK
  PROVE  /\ \A w \in Worker : TaskStep(w) \/ Panic(w) => Walks(w)
         /\ \A w \in Worker : GrowDone(w) \/ Refused(w) \/ TakeTask(w) \/ NoMoreTasks(w) => Walks(w)
         /\ AloneStep => Walks(Caller)
<1>1. /\ pc \in [Worker -> Label] /\ back \in [Worker -> {"idle", "entry", "release"}] /\ Caller \in Worker
  BY Constants DEF TypeOK
<1> USE DEF Goto, Walks, Quiet, pool
<1>2. ASSUME NEW w \in Worker, Begin(w) PROVE Walks(w)
  BY <1>1, <1>2 DEF Begin
<1>3. ASSUME NEW w \in Worker, CheckStop(w) PROVE Walks(w)
  BY <1>1, <1>3 DEF CheckStop, Return
<1>4. ASSUME NEW w \in Worker, ReadFails(w) PROVE Walks(w)
  BY <1>1, <1>4 DEF ReadFails, Return
<1>5. ASSUME NEW w \in Worker, Read(w) PROVE Walks(w)
  BY <1>1, <1>5 DEF Read
<1>6. ASSUME NEW w \in Worker, List(w) PROVE Walks(w)
  BY <1>1, <1>6 DEF List, Return
<1>7. ASSUME NEW w \in Worker, Entry(w) PROVE Walks(w)
  BY <1>1, <1>7 DEF Entry, AtEntry
<1>8. ASSUME NEW w \in Worker, Continue(w) PROVE Walks(w)
  BY <1>1, <1>8 DEF Continue, Return
<1>9. ASSUME NEW w \in Worker, EndListing(w) PROVE Walks(w)
  BY <1>1, <1>9 DEF EndListing, Return
<1>10. ASSUME NEW w \in Worker, Release(w) PROVE Walks(w)
  BY <1>1, <1>10 DEF Release, Loop
<1>11. ASSUME NEW w \in Worker, RecordPanic(w) PROVE Walks(w)
  BY <1>1, <1>11 DEF RecordPanic
<1>12. ASSUME NEW w \in Worker, Panic(w) PROVE Walks(w)
  BY <1>1, <1>12 DEF Panic, AtEntry
<1>13. ASSUME NEW w \in Worker, GrowDone(w) PROVE Walks(w)
  BY <1>1, <1>13 DEF GrowDone
<1>14. ASSUME NEW w \in Worker, Refused(w) PROVE Walks(w)
  BY <1>1, <1>14 DEF Refused
<1>15. ASSUME NEW w \in Worker, TakeTask(w) PROVE Walks(w)
  BY <1>1, <1>15 DEF TakeTask
<1>16. ASSUME NEW w \in Worker, NoMoreTasks(w) PROVE Walks(w)
  BY <1>1, <1>16 DEF NoMoreTasks
<1>17. ASSUME NextRoot PROVE Walks(Caller)
  BY <1>1, <1>17 DEF NextRoot
<1>18. ASSUME RootsStopped PROVE Walks(Caller)
  BY <1>1, <1>18 DEF RootsStopped, Join
<1>19. ASSUME RootsDone PROVE Walks(Caller)
  BY <1>1, <1>19 DEF RootsDone
<1>20. ASSUME WidenPool PROVE Walks(Caller)
  BY <1>1, <1>20 DEF WidenPool
<1>21. ASSUME DrainTake PROVE Walks(Caller)
  BY <1>1, <1>21 DEF DrainTake
<1>22. ASSUME DrainEmpty PROVE Walks(Caller)
  BY <1>1, <1>22 DEF DrainEmpty, Join
<1> QED
  BY <1>2, <1>3, <1>4, <1>5, <1>6, <1>7, <1>8, <1>9, <1>10, <1>11, <1>12, <1>13, <1>14, <1>15, <1>16, <1>17, <1>18, <1>19, <1>20, <1>21, <1>22
  DEF AloneStep, TaskStep

LEMMA BudgetStep ==
  ASSUME TypeOK, HelperInv, StaysInBudget, [Next]_vars
  PROVE  StaysInBudget'
<1> DEFINE R == Running
           S == Starting
           Rn == {w \in Worker : pc'[w] \notin {"unborn", "left"}}
           Sn == {w \in Worker : pc'[w] = "slot"}
<1>1. /\ active = Cardinality(R) + Cardinality(S) /\ active <= Threads /\ active \in Nat /\ Threads \in Nat
      /\ IsFiniteSet(R) /\ IsFiniteSet(S) /\ Cardinality(R) \in Nat /\ Cardinality(S) \in Nat
      /\ R \subseteq Worker /\ S \subseteq Worker
  <2>1. R \subseteq Worker /\ S \subseteq Worker
    BY DEF Running, Starting
  <2> QED
    BY <2>1, Slots, Constants DEF TypeOK, StaysInBudget, Running, Starting
<1>2. active' <= Threads /\ active' = Cardinality(Rn) + Cardinality(Sn) => StaysInBudget'
  BY DEF StaysInBudget
<1>3. \A v \in Worker : (v \in R <=> pc[v] \notin {"unborn", "left"}) /\ (v \in S <=> pc[v] = "slot")
  BY DEF Running, Starting
<1>4. \A v \in Worker : (v \in Rn <=> pc'[v] \notin {"unborn", "left"}) /\ (v \in Sn <=> pc'[v] = "slot")
  OBVIOUS
<1>5. Rn \subseteq Worker /\ Sn \subseteq Worker
  OBVIOUS
<1>6. pc \in [Worker -> Label] /\ back \in [Worker -> {"idle", "entry", "release"}] /\ Caller \in Worker
      /\ idle \subseteq Worker
  BY Constants DEF TypeOK
<1> HIDE DEF R, S, Rn, Sn
<1>7. ASSUME NEW w \in Worker, Walks(w) PROVE StaysInBudget'
  <2>1. Rn = R /\ Sn = S
    BY <1>1, <1>3, <1>4, <1>5, <1>7 DEF Walks, Quiet
  <2> QED
    BY <1>1, <1>2, <1>7, <2>1 DEF Walks
<1>8. ASSUME pc' = pc, active' = active PROVE StaysInBudget'
  <2>1. Rn = R /\ Sn = S
    BY <1>1, <1>3, <1>4, <1>5, <1>8
  <2> QED
    BY <1>1, <1>2, <1>8, <2>1
<1>9. ASSUME NEW w \in Worker, w \in S, active' = active - 1, pc'[w] \notin Quiet,
             \A v \in Worker \ {w} : pc'[v] = pc[v]
      PROVE  StaysInBudget'
  <2>1. Rn = R /\ Sn = S \ {w}
    BY <1>1, <1>3, <1>4, <1>5, <1>9 DEF Quiet
  <2>2. Cardinality(S \ {w}) = Cardinality(S) - 1
    BY <1>1, <1>9, FS_RemoveElement
  <2> QED
    BY <1>1, <1>2, <1>9, <2>1, <2>2
<1>10. ASSUME NEW w \in Worker, w \in R, w \notin S, active' = active - 1, pc'[w] = "left",
              \A v \in Worker \ {w} : pc'[v] = pc[v]
       PROVE  StaysInBudget'
  <2>1. Rn = R \ {w} /\ Sn = S
    BY <1>1, <1>3, <1>4, <1>5, <1>10
  <2>2. Cardinality(R \ {w}) = Cardinality(R) - 1
    BY <1>1, <1>10, FS_RemoveElement
  <2> QED
    BY <1>1, <1>2, <1>10, <2>1, <2>2
<1>11. ASSUME NEW w \in Worker, ClaimSlot(w) PROVE StaysInBudget'
  <2>1. /\ pc[w] = "grow" /\ pc' = [pc EXCEPT ![w] = "slot"] /\ active' = active + 1 /\ active < Threads
    BY <1>11 DEF ClaimSlot, Goto, MayGrow, SlotFree
  <2>2. Rn = R /\ Sn = S \cup {w} /\ w \notin S
    BY <1>1, <1>3, <1>4, <1>5, <1>6, <2>1
  <2>3. Cardinality(S \cup {w}) = Cardinality(S) + 1
    BY <1>1, <2>2, FS_AddElement
  <2> QED
    BY <1>1, <1>2, <2>1, <2>2, <2>3
<1>12. ASSUME NEW w \in Worker, NoScratch(w) PROVE StaysInBudget'
  <2>1. /\ pc[w] = "slot" /\ pc' = [pc EXCEPT ![w] = back[w]] /\ active' = active - 1
    BY <1>12 DEF NoScratch, Goto, DropSlot
  <2>2. pc'[w] \notin Quiet /\ w \in S
    BY <1>3, <1>6, <2>1 DEF Quiet
  <2> QED
    BY <1>6, <1>9, <2>1, <2>2
<1>13. ASSUME NEW w \in Worker, Spawn(w) PROVE StaysInBudget'
  <2>1. PICK h \in idle :
          \/ pc' = [pc EXCEPT ![w] = "grow", ![h] = "idle"] /\ active' = active
          \/ pc' = [pc EXCEPT ![w] = "refused"] /\ active' = active - 1
    BY <1>13 DEF Spawn, Goto, DropSlot
  <2>2. h \in Worker /\ pc[h] = "unborn" /\ pc[w] = "slot" /\ w # h
    BY <1>6, <1>13 DEF Spawn, HelperInv
  <2>3. CASE pc' = [pc EXCEPT ![w] = "grow", ![h] = "idle"] /\ active' = active
    <3>1. Rn = R \cup {h} /\ Sn = S \ {w} /\ h \notin R /\ w \in S
      BY <1>1, <1>3, <1>4, <1>5, <1>6, <2>2, <2>3
    <3>2. Cardinality(R \cup {h}) = Cardinality(R) + 1 /\ Cardinality(S \ {w}) = Cardinality(S) - 1
      BY <1>1, <3>1, FS_AddElement, FS_RemoveElement
    <3> QED
      BY <1>1, <1>2, <2>3, <3>1, <3>2
  <2>4. CASE pc' = [pc EXCEPT ![w] = "refused"] /\ active' = active - 1
    <3>1. pc'[w] \notin Quiet /\ w \in S /\ \A v \in Worker \ {w} : pc'[v] = pc[v]
      BY <1>3, <1>6, <2>2, <2>4 DEF Quiet
    <3> QED
      BY <1>9, <2>4, <3>1
  <2> QED
    BY <2>1, <2>3, <2>4
<1>14. ASSUME NEW w \in Worker, EndHelper(w) PROVE StaysInBudget'
  <2>1. pc[w] = "leave" /\ pc' = [pc EXCEPT ![w] = "left"] /\ active' = active - 1
    BY <1>14 DEF EndHelper, Goto, DropSlot
  <2> QED
    BY <1>3, <1>6, <1>10, <2>1
<1>15. ASSUME Finish PROVE StaysInBudget'
  <2>1. pc[Caller] = "join" /\ pc' = [pc EXCEPT ![Caller] = "left"] /\ active' = active - 1
    BY <1>15 DEF Finish, Goto, DropSlot
  <2> QED
    BY <1>3, <1>6, <1>10, <2>1
<1>16. ASSUME Cancel \/ UNCHANGED vars PROVE StaysInBudget'
  BY <1>8, <1>16 DEF Cancel, vars, pool
<1> QED
  BY <1>6, <1>7, <1>11, <1>12, <1>13, <1>14, <1>15, <1>16, WalkingSteps DEF Next, Done, PoolStep

-----------------------------------------------------------------------------
(* Where a step takes its worker.                                          *)

Others(w) == \A v \in Worker \ {w} :
  pc'[v] = pc[v] /\ Place(v)' = Place(v) /\ task'[v] = task[v] /\ at'[v] = at[v]
Goes(w, from, to) ==
  Others(w) /\ Place(w) = from /\ pc[w] = from /\ Place(w)' = to /\ (Growing(w)' => phase' = "pool")
  /\ pc'[w] # "unborn"
Stays == \A v \in Worker :
  /\ Place(v)' = Place(v) /\ task'[v] = task[v] /\ at'[v] = at[v]
  /\ pc'[v] = pc[v] \/ (pc[v] # "unborn" /\ pc[v] # "left" /\ pc'[v] # "unborn" /\ pc'[v] # "left")

LEMMA TaskPlaces ==
  ASSUME TypeOK, NEW w \in Worker
  PROVE  /\ Begin(w) => /\ task' = task /\ at' = [at EXCEPT ![w] = task[w].next]
                        /\ Goes(w, "begin", IF Stopping THEN "release" ELSE IF task[w].next > 0 THEN "list"
                                            ELSE IF Is(task[w].dir, "carried") THEN "carried" ELSE "read")
         /\ CheckStop(w) => /\ task' = task /\ at' = at
                            /\ \/ Goes(w, "carried", IF Stopping THEN "release" ELSE "read")
                               \/ Goes(w, "ruled", IF Stopping THEN "release" ELSE "list")
         /\ ReadFails(w) => task' = task /\ at' = at /\ Goes(w, "read", "release")
         /\ Read(w) => /\ task' = task /\ at' = at
                       /\ Goes(w, "read", IF Is(task[w].dir, "rules") THEN "ruled" ELSE "list")
         /\ List(w) => task' = task /\ at' = at /\ Goes(w, "list", IF Stopping THEN "release" ELSE "entry")
         /\ Entry(w) => /\ task' = task /\ at' = [at EXCEPT ![w] = at[w] + 1]
                        /\ Goes(w, "list", "list") \/ Goes(w, "entry", "list")
         /\ Continue(w) \/ EndListing(w) => task' = task /\ at' = at /\ Goes(w, "list", "release")
         /\ Release(w) => /\ task' = task /\ at' = at
                          /\ \/ Goes(w, "release", Loop)
                             \/ Goes(w, "abandon", "join")
                             \/ Goes(w, "unwind", "unwound")
         /\ RecordPanic(w) => task' = task /\ at' = at /\ Goes(w, "unwound", IF w = Caller THEN "join" ELSE "leave")
         /\ Panic(w) => /\ task' = task /\ at' = at
                        /\ \E from \in {"read", "list", "entry"} : Goes(w, from, "unwind")
<1>0. /\ pc \in [Worker -> Label] /\ back \in [Worker -> {"idle", "entry", "release"}]
      /\ task \in [Worker -> Task] /\ at \in [Worker -> Nat]
  BY DEF TypeOK
<1> USE DEF Goto, Goes, Others, Place, Growing, job
<1>1. ASSUME Begin(w)
      PROVE  /\ task' = task /\ at' = [at EXCEPT ![w] = task[w].next]
             /\ Goes(w, "begin", IF Stopping THEN "release" ELSE IF task[w].next > 0 THEN "list"
                                 ELSE IF Is(task[w].dir, "carried") THEN "carried" ELSE "read")
  BY <1>0, <1>1 DEF Begin
<1>2. ASSUME CheckStop(w)
      PROVE  /\ task' = task /\ at' = at
             /\ \/ Goes(w, "carried", IF Stopping THEN "release" ELSE "read")
                \/ Goes(w, "ruled", IF Stopping THEN "release" ELSE "list")
  BY <1>0, <1>2 DEF CheckStop, Return
<1>3. ASSUME ReadFails(w)
      PROVE  task' = task /\ at' = at /\ Goes(w, "read", "release")
  BY <1>0, <1>3 DEF ReadFails, Return
<1>4. ASSUME Read(w)
      PROVE  /\ task' = task /\ at' = at
             /\ Goes(w, "read", IF Is(task[w].dir, "rules") THEN "ruled" ELSE "list")
  BY <1>0, <1>4 DEF Read
<1>5. ASSUME List(w)
      PROVE  task' = task /\ at' = at /\ Goes(w, "list", IF Stopping THEN "release" ELSE "entry")
  BY <1>0, <1>5 DEF List, Return
<1>6. ASSUME Entry(w)
      PROVE  /\ task' = task /\ at' = [at EXCEPT ![w] = at[w] + 1]
             /\ Goes(w, "list", "list") \/ Goes(w, "entry", "list")
  BY <1>0, <1>6 DEF Entry, AtEntry
<1>7. ASSUME Continue(w) \/ EndListing(w)
      PROVE  task' = task /\ at' = at /\ Goes(w, "list", "release")
  BY <1>0, <1>7 DEF Continue, EndListing, Return
<1>8. ASSUME Release(w)
      PROVE  /\ task' = task /\ at' = at
             /\ \/ Goes(w, "release", Loop)
                \/ Goes(w, "abandon", "join")
                \/ Goes(w, "unwind", "unwound")
  BY <1>0, <1>8 DEF Release, Loop
<1>9. ASSUME RecordPanic(w)
      PROVE  task' = task /\ at' = at /\ Goes(w, "unwound", IF w = Caller THEN "join" ELSE "leave")
  BY <1>0, <1>9 DEF RecordPanic
<1>10. ASSUME Panic(w)
       PROVE  task' = task /\ at' = at /\ \E from \in {"read", "list", "entry"} : Goes(w, from, "unwind")
  BY <1>0, <1>10 DEF Panic, AtEntry
<1> HIDE DEF Goto, Goes, Others, Place, Growing, job
<1> QED
  BY <1>1, <1>2, <1>3, <1>4, <1>5, <1>6, <1>7, <1>8, <1>9, <1>10

LEMMA PoolPlaces ==
  ASSUME TypeOK, HelperInv, NEW w \in Worker
  PROVE  /\ GrowDone(w) \/ ClaimSlot(w) \/ NoScratch(w) \/ Refused(w) => Stays
         /\ Spawn(w) => /\ task' = task /\ at' = at
                        /\ Stays \/ \E h \in idle : /\ Place(h) = "unborn" /\ Place(h)' = "idle" /\ pc'[h] = "idle"
                                                    /\ pc[h] = "unborn" /\ idle' = idle \ {h}
                                                    /\ \A v \in Worker \ {h} :
                                                         /\ Place(v)' = Place(v) /\ (pc'[v] = "unborn" <=> pc[v] = "unborn")
                                                         /\ (pc'[v] = "left" <=> pc[v] = "left")
         /\ TakeTask(w) => at' = at /\ Place(w) = "idle" /\ pc[w] = "idle" /\ Place(w)' = "begin" /\ pc'[w] = "begin"
                           /\ \A v \in Worker \ {w} : pc'[v] = pc[v] /\ Place(v)' = Place(v)
         /\ NoMoreTasks(w) => task' = task /\ at' = at /\ Goes(w, "idle", IF w = Caller THEN "join" ELSE "leave")
         /\ EndHelper(w) => task' = task /\ at' = at /\ Goes(w, "leave", "left")
<1>0. /\ pc \in [Worker -> Label] /\ back \in [Worker -> {"idle", "entry", "release"}]
      /\ task \in [Worker -> Task] /\ at \in [Worker -> Nat]
      /\ idle \subseteq Worker /\ \A h \in idle : pc[h] = "unborn"
  BY DEF TypeOK, HelperInv
<1> USE DEF Goto, Goes, Others, Place, Growing, job
<1>1. ASSUME GrowDone(w) PROVE Stays
  BY <1>0, <1>1 DEF GrowDone, Stays
<1>2. ASSUME ClaimSlot(w) PROVE Stays
  BY <1>0, <1>2 DEF ClaimSlot, Stays
<1>3. ASSUME NoScratch(w) PROVE Stays
  BY <1>0, <1>3 DEF NoScratch, Stays
<1>4. ASSUME Refused(w) PROVE Stays
  BY <1>0, <1>4 DEF Refused, Stays
<1>5. ASSUME Spawn(w)
      PROVE  /\ task' = task /\ at' = at
             /\ Stays \/ \E h \in idle : /\ Place(h) = "unborn" /\ Place(h)' = "idle" /\ pc'[h] = "idle"
                                         /\ pc[h] = "unborn" /\ idle' = idle \ {h}
                                         /\ \A v \in Worker \ {h} :
                                              /\ Place(v)' = Place(v) /\ (pc'[v] = "unborn" <=> pc[v] = "unborn")
                                              /\ (pc'[v] = "left" <=> pc[v] = "left")
  <2>1. PICK h \in idle : /\ idle' = idle \ {h}
                          /\ \/ pc' = [pc EXCEPT ![w] = "grow", ![h] = "idle"]
                             \/ pc' = [pc EXCEPT ![w] = "refused"]
    BY <1>5 DEF Spawn
  <2>2. task' = task /\ at' = at /\ back' = back /\ pc[w] = "slot" /\ pc[h] = "unborn" /\ w # h /\ h \in Worker
    BY <1>0, <1>5 DEF Spawn
  <2>3. CASE pc' = [pc EXCEPT ![w] = "refused"]
    BY <1>0, <2>2, <2>3 DEF Stays
  <2>4. CASE pc' = [pc EXCEPT ![w] = "grow", ![h] = "idle"]
    BY <1>0, <2>1, <2>2, <2>4
  <2> QED
    BY <2>1, <2>2, <2>3, <2>4
<1>6. ASSUME TakeTask(w)
      PROVE  at' = at /\ Place(w) = "idle" /\ pc[w] = "idle" /\ Place(w)' = "begin" /\ pc'[w] = "begin"
             /\ \A v \in Worker \ {w} : pc'[v] = pc[v] /\ Place(v)' = Place(v)
  BY <1>0, <1>6 DEF TakeTask
<1>7. ASSUME NoMoreTasks(w)
      PROVE  task' = task /\ at' = at /\ Goes(w, "idle", IF w = Caller THEN "join" ELSE "leave")
  BY <1>0, <1>7 DEF NoMoreTasks
<1>8. ASSUME EndHelper(w) PROVE task' = task /\ at' = at /\ Goes(w, "leave", "left")
  BY <1>0, <1>8 DEF EndHelper
<1> HIDE DEF Goto, Goes, Others, Place, Growing, job
<1> QED
  BY <1>1, <1>2, <1>3, <1>4, <1>5, <1>6, <1>7, <1>8

LEMMA AlonePlaces ==
  ASSUME TypeOK
  PROVE  /\ NextRoot => /\ at' = at /\ Goes(Caller, "roots", "begin")
                        /\ task' = [task EXCEPT ![Caller] = DirectoryTask(Roots[nextRoot])]
         /\ RootsStopped => task' = task /\ at' = at /\ Goes(Caller, "roots", "join")
         /\ RootsDone => task' = task /\ at' = at /\ Goes(Caller, "roots", "alone")
         /\ WidenPool => task' = task /\ at' = at /\ Goes(Caller, "alone", "idle")
         /\ DrainTake => /\ at' = at /\ Place(Caller) = "alone" /\ pc[Caller] = "alone"
                         /\ Place(Caller)' = (IF Stopping THEN "abandon" ELSE "begin") /\ pc'[Caller] = Place(Caller)'
                         /\ \A v \in Worker \ {Caller} : pc'[v] = pc[v] /\ Place(v)' = Place(v)
         /\ DrainEmpty => task' = task /\ at' = at /\ Goes(Caller, "alone", "join")
         /\ Finish => task' = task /\ at' = at /\ Goes(Caller, "join", "left")
         /\ Cancel \/ UNCHANGED vars => Stays /\ task' = task /\ at' = at /\ pc' = pc
<1>0. /\ pc \in [Worker -> Label] /\ back \in [Worker -> {"idle", "entry", "release"}]
      /\ task \in [Worker -> Task] /\ at \in [Worker -> Nat] /\ Caller \in Worker
  BY Constants DEF TypeOK
<1> USE DEF Goto, Goes, Others, Place, Growing, job
<1>1. ASSUME NextRoot
      PROVE  /\ at' = at /\ Goes(Caller, "roots", "begin")
             /\ task' = [task EXCEPT ![Caller] = DirectoryTask(Roots[nextRoot])]
  BY <1>0, <1>1 DEF NextRoot
<1>2. ASSUME RootsStopped PROVE task' = task /\ at' = at /\ Goes(Caller, "roots", "join")
  BY <1>0, <1>2 DEF RootsStopped, Join
<1>3. ASSUME RootsDone PROVE task' = task /\ at' = at /\ Goes(Caller, "roots", "alone")
  BY <1>0, <1>3 DEF RootsDone
<1>4. ASSUME WidenPool PROVE task' = task /\ at' = at /\ Goes(Caller, "alone", "idle")
  BY <1>0, <1>4 DEF WidenPool
<1>5. ASSUME DrainTake
      PROVE  /\ at' = at /\ Place(Caller) = "alone" /\ pc[Caller] = "alone"
             /\ Place(Caller)' = (IF Stopping THEN "abandon" ELSE "begin") /\ pc'[Caller] = Place(Caller)'
             /\ \A v \in Worker \ {Caller} : pc'[v] = pc[v] /\ Place(v)' = Place(v)
  BY <1>0, <1>5 DEF DrainTake
<1>6. ASSUME DrainEmpty PROVE task' = task /\ at' = at /\ Goes(Caller, "alone", "join")
  BY <1>0, <1>6 DEF DrainEmpty, Join
<1>7. ASSUME Finish PROVE task' = task /\ at' = at /\ Goes(Caller, "join", "left")
  BY <1>0, <1>7 DEF Finish
<1>8. ASSUME Cancel \/ UNCHANGED vars PROVE Stays /\ task' = task /\ at' = at /\ pc' = pc
  BY <1>0, <1>8 DEF Cancel, vars, Stays
<1> HIDE DEF Goto, Goes, Others, Place, Growing, job
<1> QED
  BY <1>1, <1>2, <1>3, <1>4, <1>5, <1>6, <1>7, <1>8

-----------------------------------------------------------------------------
(* Stations, helpers and the result.                                       *)

\* Where worker w may be.
Stationed(w) ==
  \/ Place(w) \in Stages \cup {"release", "unwind", "unwound", "left"}
  \/ w = Caller /\ Place(w) \in {Loop, "join"}
  \/ w = Caller /\ Place(w) = "abandon" /\ phase = "alone" /\ Stopping
  \/ w # Caller /\ Place(w) \in {"unborn", "idle", "leave"}

\* No step takes back a stop.
LEMMA StopsStay ==
  ASSUME TypeOK, [Next]_vars
  PROVE  Stopping => Stopping'
<1>0. stopped \in BOOLEAN /\ cancelled \in BOOLEAN
  BY DEF TypeOK
<1> USE DEF flags, report, Stopping
<1>1. ASSUME NEW w \in Worker, TaskStep(w) PROVE Stopping => Stopping'
  <2>1. \A e, b : RecordError(e, b) => (Stopping => Stopping')
    BY <1>0 DEF RecordError
  <2> QED
    BY <1>0, <1>1, <2>1
    DEF TaskStep, Begin, CheckStop, ReadFails, Read, List, Entry, Continue, EndListing, Release, RecordPanic
<1>2. ASSUME NEW w \in Worker, PoolStep(w) PROVE Stopping => Stopping'
  <2>1. \A e, b : RecordError(e, b) => (Stopping => Stopping')
    BY <1>0 DEF RecordError
  <2> QED
    BY <1>0, <1>2, <2>1
    DEF PoolStep, GrowDone, ClaimSlot, NoScratch, Spawn, Refused, TakeTask, NoMoreTasks, EndHelper
<1>3. ASSUME AloneStep PROVE Stopping => Stopping'
  BY <1>0, <1>3 DEF AloneStep, NextRoot, RootsStopped, RootsDone, WidenPool, DrainTake, DrainEmpty
<1> QED
  BY <1>0, <1>1, <1>2, <1>3 DEF Next, Done, Panic, Finish, Cancel, vars

\* The phase and the roots that were begun, and when they change.
LEMMA PhaseSteps ==
  ASSUME TypeOK, [Next]_vars
  PROVE  /\ phase' = phase \/ RootsDone \/ WidenPool
         /\ nextRoot' = nextRoot \/ NextRoot
         /\ world' = world
<1> USE DEF kept
<1>1. ASSUME NEW w \in Worker, TaskStep(w) \/ Panic(w)
      PROVE  phase' = phase /\ nextRoot' = nextRoot /\ world' = world
  BY <1>1 DEF TaskStep, Panic, Begin, CheckStop, ReadFails, Read, List, Entry, Continue, EndListing, Release,
              RecordPanic
<1>2. ASSUME NEW w \in Worker, PoolStep(w)
      PROVE  phase' = phase /\ nextRoot' = nextRoot /\ world' = world
  BY <1>2 DEF PoolStep, GrowDone, ClaimSlot, NoScratch, Spawn, Refused, TakeTask, NoMoreTasks, EndHelper
<1>3. ASSUME AloneStep
      PROVE  /\ phase' = phase \/ RootsDone \/ WidenPool
             /\ nextRoot' = nextRoot \/ NextRoot
             /\ world' = world
  BY <1>3 DEF AloneStep, NextRoot, RootsStopped, RootsDone, WidenPool, DrainTake, DrainEmpty
<1> QED
  BY <1>1, <1>2, <1>3 DEF Next, Done, Finish, Cancel, vars

LEMMA StationStep ==
  ASSUME TypeOK, HelperInv, StationInv, [Next]_vars
  PROVE  StationInv'
<1>1. /\ \A v \in Worker : (Growing(v) => phase = "pool") /\ Stationed(v)
      /\ phase # "pool" => \A h \in Worker \ {Caller} : pc[h] = "unborn"
      /\ phase # "roots" => nextRoot = Len(Roots) + 1
      /\ Caller \in Worker /\ phase \in {"roots", "alone", "pool"} /\ (Stopping => Stopping')
      /\ nextRoot \in Nat /\ Len(Roots) \in Nat /\ nextRoot <= Len(Roots) + 1
  <2>1. nextRoot \in Nat /\ Len(Roots) \in Nat /\ nextRoot <= Len(Roots) + 1 /\ Caller \in Worker
    BY Constants, TypesOf
  <2>2. phase \in {"roots", "alone", "pool"} /\ (Stopping => Stopping')
    BY StopsStay DEF TypeOK
  <2> QED
    BY <2>1, <2>2 DEF StationInv, Stationed
<1>2. ASSUME /\ \A v \in Worker : (Growing(v)' => phase' = "pool") /\ Stationed(v)'
             /\ phase' # "pool" => \A h \in Worker \ {Caller} : pc'[h] = "unborn"
             /\ phase' # "roots" => nextRoot' = Len(Roots) + 1
      PROVE  StationInv'
  BY <1>2 DEF StationInv, Stationed
<1>3. \A v \in Worker : Place(v)' = Place(v) /\ pc'[v] = pc[v] => (Growing(v)' <=> Growing(v))
  BY DEF Growing
<1>4. ASSUME NEW w \in Worker, NEW from, NEW to, Goes(w, from, to), phase' = phase, nextRoot' = nextRoot,
             from # "unborn",
             \/ to \in Stages \cup {"release", "unwind", "unwound", "left"}
             \/ w = Caller /\ to \in {Loop, "join"}
             \/ w # Caller /\ to \in {"idle", "leave"}
      PROVE  StationInv'
  <2>1. Loop' = Loop
    BY <1>4 DEF Loop
  <2>2. Stationed(w)'
    BY <1>4, <2>1 DEF Stationed, Goes
  <2>3. \A v \in Worker \ {w} : Stationed(v)' /\ pc'[v] = pc[v] /\ Growing(v)' = Growing(v)
    BY <1>1, <1>4, <2>1 DEF Stationed, Goes, Others, Growing
  <2>4. phase # "pool" => w = Caller
    BY <1>1, <1>4 DEF Goes
  <2> QED
    BY <1>1, <1>2, <1>4, <2>2, <2>3, <2>4 DEF Goes
<1>5. ASSUME NEW w \in Worker, TaskStep(w) \/ Panic(w) PROVE StationInv'
  <2>1. phase' = phase /\ nextRoot' = nextRoot
    BY <1>5, PhaseSteps DEF TaskStep, Panic, Begin, CheckStop, ReadFails, Read, List, Entry, Continue, EndListing,
                            Release, RecordPanic
  <2>2. \E from, to : /\ Goes(w, from, to) /\ from # "unborn"
                      /\ \/ to \in Stages \cup {"release", "unwind", "unwound", "left"}
                         \/ w = Caller /\ to \in {Loop, "join"}
                         \/ w # Caller /\ to \in {"idle", "leave"}
    <3>1. CASE Release(w)
      <4>1. \/ Goes(w, "release", Loop)
            \/ Goes(w, "abandon", "join") /\ w = Caller
            \/ Goes(w, "unwind", "unwound")
        BY <1>1, <3>1, TaskPlaces DEF Stationed, Goes, Stages
      <4>2. w # Caller => Loop = "idle"
        <5>1. pc[w] # "unborn"
          BY <3>1 DEF Release
        <5> QED
          BY <1>1, <5>1 DEF Loop
      <4> QED
        BY <4>1, <4>2
    <3>2. CASE RecordPanic(w)
      BY <3>2, TaskPlaces
    <3>3. CASE ~Release(w) /\ ~RecordPanic(w)
      BY <1>5, <3>3, TaskPlaces DEF TaskStep, Stages
    <3> QED
      BY <3>1, <3>2, <3>3
  <2> QED
    BY <1>4, <2>1, <2>2
<1>6. ASSUME Stays, phase' = phase, nextRoot' = nextRoot,
             \A v \in Worker : Growing(v)' => Growing(v) \/ phase = "pool"
      PROVE  StationInv'
  <2>1. Loop' = Loop
    BY <1>6 DEF Loop
  <2>2. \A v \in Worker : Stationed(v)'
    BY <1>1, <1>6, <2>1 DEF Stationed, Stays
  <2>3. phase # "pool" => \A h \in Worker \ {Caller} : pc'[h] = "unborn"
    BY <1>1, <1>6 DEF Stays
  <2> QED
    BY <1>1, <1>2, <1>6, <2>2, <2>3
<1>7. ASSUME NEW w \in Worker, PoolStep(w) PROVE StationInv'
  <2>1. phase' = phase /\ nextRoot' = nextRoot
    BY <1>7, PhaseSteps DEF PoolStep, GrowDone, ClaimSlot, NoScratch, Spawn, Refused, TakeTask, NoMoreTasks,
                            EndHelper, kept
  <2>2. CASE GrowDone(w) \/ ClaimSlot(w) \/ NoScratch(w) \/ Refused(w)
    <3>1. Growing(w)
      BY <2>2 DEF GrowDone, ClaimSlot, NoScratch, Refused, Growing
    <3> QED
      BY <1>1, <1>6, <2>1, <2>2, <3>1, PoolPlaces
  <2>3. CASE Spawn(w)
    <3>1. phase = "pool"
      BY <1>1, <2>3 DEF Spawn, Growing
    <3>2. CASE Stays
      BY <1>6, <2>1, <3>1, <3>2
    <3>3. CASE ~Stays
      <4>1. PICK h \in idle : /\ Place(h) = "unborn" /\ Place(h)' = "idle" /\ pc'[h] = "idle"
                              /\ \A v \in Worker \ {h} : Place(v)' = Place(v)
        BY <2>3, <3>3, PoolPlaces
      <4>2. h # Caller
        BY DEF TypeOK
      <4>3. \A v \in Worker : Stationed(v)'
        BY <1>1, <2>1, <4>1, <4>2 DEF Stationed, Loop
      <4> QED
        BY <1>1, <1>2, <2>1, <3>1, <4>3
    <3> QED
      BY <3>2, <3>3
  <2>4. CASE TakeTask(w)
    <3>1. /\ pc[w] = "idle" /\ Place(w)' = "begin" /\ pc'[w] = "begin"
          /\ \A v \in Worker \ {w} : pc'[v] = pc[v] /\ Place(v)' = Place(v)
      BY <2>4, PoolPlaces
    <3>2. \A v \in Worker : Stationed(v)'
      BY <1>1, <2>1, <3>1 DEF Stationed, Loop, Stages
    <3>3. \A v \in Worker : Growing(v)' => Growing(v)
      BY <3>1 DEF Growing
    <3>4. phase # "pool" => w = Caller
      BY <1>1, <3>1
    <3> QED
      BY <1>1, <1>2, <2>1, <3>1, <3>2, <3>3, <3>4
  <2>5. CASE NoMoreTasks(w)
    <3>1. Goes(w, "idle", IF w = Caller THEN "join" ELSE "leave")
      BY <2>5, PoolPlaces
    <3> QED
      BY <1>4, <2>1, <3>1
  <2>6. CASE EndHelper(w)
    <3>1. Goes(w, "leave", "left")
      BY <2>6, PoolPlaces
    <3> QED
      BY <1>4, <2>1, <3>1
  <2> QED
    BY <1>7, <2>2, <2>3, <2>4, <2>5, <2>6 DEF PoolStep
<1>8. ASSUME AloneStep \/ Finish PROVE StationInv'
  <2>1. CASE NextRoot
    <3>1. Goes(Caller, "roots", "begin") /\ phase = "roots" /\ phase' = phase
      <4>1. Goes(Caller, "roots", "begin") /\ phase' = phase
        BY <2>1, AlonePlaces DEF NextRoot
      <4> QED
        BY <1>1, <4>1 DEF Stationed, Goes, Stages, Loop
    <3>2. \A v \in Worker \ {Caller} : pc'[v] = pc[v] /\ Place(v)' = Place(v) /\ pc[v] = "unborn"
      BY <1>1, <3>1 DEF Goes, Others
    <3>3. \A v \in Worker : Stationed(v)'
      BY <1>1, <3>1, <3>2 DEF Stationed, Goes, Stages, Loop
    <3>4. \A v \in Worker : ~Growing(v)'
      BY <3>1, <3>2 DEF Goes, Growing
    <3> QED
      BY <1>2, <3>1, <3>2, <3>3, <3>4
  <2>2. CASE RootsDone
    <3>1. Goes(Caller, "roots", "alone") /\ phase' = "alone" /\ nextRoot' = nextRoot /\ nextRoot > Len(Roots)
      BY <2>2, AlonePlaces DEF RootsDone
    <3>2. phase = "roots" /\ nextRoot = Len(Roots) + 1
      BY <1>1, <3>1 DEF Stationed, Goes, Stages, Loop
    <3>3. \A v \in Worker \ {Caller} : pc'[v] = pc[v] /\ Place(v)' = Place(v) /\ pc[v] = "unborn"
      BY <1>1, <3>1, <3>2 DEF Goes, Others
    <3>4. \A v \in Worker : Stationed(v)'
      BY <1>1, <3>1, <3>3 DEF Stationed, Goes, Stages, Loop
    <3>5. \A v \in Worker : ~Growing(v)'
      BY <3>1, <3>3 DEF Goes, Growing
    <3> QED
      BY <1>2, <3>1, <3>2, <3>3, <3>4, <3>5
  <2>3. CASE WidenPool
    <3>1. Goes(Caller, "alone", "idle") /\ phase' = "pool" /\ nextRoot' = nextRoot
      BY <2>3, AlonePlaces DEF WidenPool
    <3>2. phase = "alone"
      BY <1>1, <3>1 DEF Stationed, Goes, Stages, Loop
    <3>3. \A v \in Worker \ {Caller} : Place(v)' = Place(v) /\ pc[v] = "unborn" /\ Place(v) = "unborn"
      BY <1>1, <3>1, <3>2 DEF Goes, Others, Place, Growing
    <3>4. \A v \in Worker : Stationed(v)'
      BY <1>1, <3>1, <3>3 DEF Stationed, Goes, Stages, Loop
    <3> QED
      BY <1>1, <1>2, <3>1, <3>2, <3>4
  <2>4. CASE DrainTake
    <3>1. /\ phase' = phase /\ nextRoot' = nextRoot /\ pc[Caller] = "alone" /\ Place(Caller) = "alone"
          /\ Place(Caller)' = (IF Stopping THEN "abandon" ELSE "begin") /\ pc'[Caller] = Place(Caller)'
          /\ \A v \in Worker \ {Caller} : pc'[v] = pc[v] /\ Place(v)' = Place(v)
      BY <2>4, AlonePlaces DEF DrainTake
    <3>2. phase = "alone"
      BY <1>1, <3>1 DEF Stationed, Stages, Loop
    <3>3. \A v \in Worker : Stationed(v)'
      BY <1>1, <3>1, <3>2 DEF Stationed, Stages, Loop
    <3>4. \A v \in Worker : Growing(v)' => Growing(v)
      BY <3>1 DEF Growing
    <3> QED
      BY <1>1, <1>2, <3>1, <3>3, <3>4
  <2>5. CASE RootsStopped \/ DrainEmpty \/ Finish
    <3>1. phase' = phase /\ nextRoot' = nextRoot
      BY <2>5 DEF RootsStopped, DrainEmpty, Finish
    <3>2. Goes(Caller, "roots", "join") \/ Goes(Caller, "alone", "join") \/ Goes(Caller, "join", "left")
      BY <2>5, AlonePlaces
    <3> QED
      BY <1>1, <1>4, <3>1, <3>2
  <2> QED
    BY <1>8, <2>1, <2>2, <2>3, <2>4, <2>5 DEF AloneStep
<1>9. ASSUME Cancel \/ UNCHANGED vars PROVE StationInv'
  <2>1. Stays /\ phase' = phase /\ nextRoot' = nextRoot /\ pc' = pc
    BY <1>9, AlonePlaces DEF Cancel, vars
  <2>2. \A v \in Worker : Growing(v)' => Growing(v)
    BY <2>1 DEF Growing
  <2> QED
    BY <1>6, <2>1, <2>2
<1> QED
  BY <1>5, <1>7, <1>8, <1>9 DEF Next, Done

\* What a step may do to the queues and the entries of other workers.
LEMMA OwnSteps ==
  ASSUME TypeOK, NEW w \in Worker
  PROVE  /\ TaskStep(w) \/ Panic(w) \/ PoolStep(w) =>
              /\ \A v \in Worker \ {w} : queue[v] = <<>> => queue'[v] = <<>>
              /\ \A v \in Worker \ {w} : found'[v] = found[v]
         /\ AloneStep =>
              /\ \A v \in Worker \ {Caller} : queue[v] = <<>> => queue'[v] = <<>>
              /\ \A v \in Worker \ {Caller} : found'[v] = found[v]
<1>0. queue \in [Worker -> Seq(Task)] /\ DOMAIN found = Worker
  BY DEF TypeOK
<1> USE DEF queues, kept
<1>1. ASSUME TaskStep(w) \/ Panic(w)
      PROVE  /\ \A v \in Worker \ {w} : queue[v] = <<>> => queue'[v] = <<>>
             /\ \A v \in Worker \ {w} : found'[v] = found[v]
  BY <1>0, <1>1 DEF TaskStep, Panic, Begin, CheckStop, ReadFails, Read, List, Entry, Continue, EndListing, Release,
                    RecordPanic
<1>2. ASSUME PoolStep(w)
      PROVE  /\ \A v \in Worker \ {w} : queue[v] = <<>> => queue'[v] = <<>>
             /\ \A v \in Worker \ {w} : found'[v] = found[v]
  <2>1. CASE TakeTask(w)
    <3>1. CASE PopOwn(w) \/ StealInjector(w)
      BY <1>0, <2>1, <3>1 DEF TakeTask, PopOwn, StealInjector
    <3>2. CASE StealVictim(w)
      <4>1. PICK i \in Worker \ {w} : queue[i] # <<>> /\ \E n \in Taken(queue[i]) :
              queue' = [queue EXCEPT ![w] = Remainder(queue[i], n), ![i] = SubSeq(queue[i], n + 1, Len(queue[i]))]
        BY <3>2 DEF StealVictim
      <4> QED
        BY <1>0, <2>1, <4>1 DEF TakeTask
    <3> QED
      BY <2>1, <3>1, <3>2 DEF TakeTask
  <2>2. CASE ~TakeTask(w)
    BY <1>0, <1>2, <2>2 DEF PoolStep, GrowDone, ClaimSlot, NoScratch, Spawn, Refused, NoMoreTasks, EndHelper
  <2> QED
    BY <2>1, <2>2
<1>3. ASSUME AloneStep
      PROVE  /\ \A v \in Worker \ {Caller} : queue[v] = <<>> => queue'[v] = <<>>
             /\ \A v \in Worker \ {Caller} : found'[v] = found[v]
  BY <1>0, <1>3 DEF AloneStep, NextRoot, RootsStopped, RootsDone, WidenPool, DrainTake, DrainEmpty, PopOwn,
                    StealInjector
<1> QED
  BY <1>1, <1>2, <1>3

LEMMA HelperStep ==
  ASSUME TypeOK, HelperInv, [Next]_vars
  PROVE  HelperInv'
<1>0. /\ pc \in [Worker -> Label] /\ back \in [Worker -> {"idle", "entry", "release"}] /\ Caller \in Worker
      /\ idle \subseteq Worker \ {Caller} /\ DOMAIN found = Worker
  BY Constants DEF TypeOK
<1>1. ASSUME NEW w \in Worker, pc[w] \notin {"unborn", "left"}, pc'[w] # "unborn", pc'[w] # "left" \/ w = Caller,
             \A v \in Worker \ {w} : pc'[v] = pc[v], idle' = idle,
             \A v \in Worker \ {w} : queue[v] = <<>> => queue'[v] = <<>>,
             \A v \in Worker \ {w} : found'[v] = found[v]
      PROVE  HelperInv'
  BY <1>0, <1>1 DEF HelperInv
<1>2. ASSUME NEW w \in Worker, TaskStep(w) \/ Panic(w) PROVE HelperInv'
  <2>1. Walks(w)
    BY <1>2, WalkingSteps
  <2>2. idle' = idle
    BY <1>2 DEF TaskStep, Panic, Begin, CheckStop, ReadFails, Read, List, Entry, Continue, EndListing, Release,
                RecordPanic, pool
  <2> QED
    BY <1>1, <1>2, <2>1, <2>2, OwnSteps DEF Walks, Quiet
<1>3. ASSUME AloneStep PROVE HelperInv'
  <2>1. Walks(Caller)
    BY <1>3, WalkingSteps
  <2>2. idle' = idle
    BY <1>3 DEF AloneStep, NextRoot, RootsStopped, RootsDone, WidenPool, DrainTake, DrainEmpty, pool
  <2> QED
    BY <1>0, <1>1, <1>3, <2>1, <2>2, OwnSteps DEF Walks, Quiet
<1>4. ASSUME NEW w \in Worker, GrowDone(w) \/ ClaimSlot(w) \/ NoScratch(w) \/ Refused(w) \/ TakeTask(w) \/ NoMoreTasks(w)
      PROVE  HelperInv'
  <2>1. /\ pc[w] \notin {"unborn", "left"} /\ pc'[w] \notin {"unborn", "left"}
        /\ \A v \in Worker \ {w} : pc'[v] = pc[v]
    <3>1. CASE ClaimSlot(w) \/ NoScratch(w)
      BY <1>0, <3>1 DEF ClaimSlot, NoScratch, Goto
    <3>2. CASE ~(ClaimSlot(w) \/ NoScratch(w))
      BY <1>4, <3>2, WalkingSteps DEF Walks, Quiet
    <3> QED
      BY <3>1, <3>2
  <2>2. idle' = idle
    BY <1>4 DEF GrowDone, ClaimSlot, NoScratch, Refused, TakeTask, NoMoreTasks, pool
  <2>3. PoolStep(w)
    BY <1>4 DEF PoolStep
  <2> QED
    BY <1>1, <2>1, <2>2, <2>3, OwnSteps
<1>5. ASSUME NEW w \in Worker, Spawn(w) PROVE HelperInv'
  <2>1. PICK h \in idle : /\ idle' = idle \ {h}
                          /\ \/ pc' = [pc EXCEPT ![w] = "grow", ![h] = "idle"]
                             \/ pc' = [pc EXCEPT ![w] = "refused"]
    BY <1>5 DEF Spawn, Goto
  <2>2. queue' = queue /\ found' = found /\ pc[w] = "slot"
    BY <1>5 DEF Spawn, queues, kept
  <2>3. pc[h] = "unborn"
    BY DEF HelperInv
  <2> QED
    BY <1>0, <2>1, <2>2, <2>3 DEF HelperInv
<1>6. ASSUME NEW w \in Worker, EndHelper(w) PROVE HelperInv'
  <2>1. /\ pc[w] = "leave" /\ pc' = [pc EXCEPT ![w] = "left"] /\ idle' = idle /\ queue' = queue
        /\ found' = [found EXCEPT ![w] = EmptyBag]
    BY <1>6 DEF EndHelper, Goto, queues
  <2> QED
    BY <1>0, <2>1 DEF HelperInv
<1>7. ASSUME Finish PROVE HelperInv'
  <2>1. /\ pc[Caller] = "join" /\ pc' = [pc EXCEPT ![Caller] = "left"] /\ idle' = idle /\ queue' = queue
        /\ found' = found
    BY <1>7 DEF Finish, Goto, queues, kept
  <2> QED
    BY <1>0, <2>1 DEF HelperInv
<1>8. ASSUME Cancel \/ UNCHANGED vars PROVE HelperInv'
  BY <1>8 DEF Cancel, vars, queues, kept, pool, HelperInv
<1> QED
  BY <1>2, <1>3, <1>4, <1>5, <1>6, <1>7, <1>8 DEF Next, Done, PoolStep

\* Once there is a result, the walk is over.
LEMMA Ended ==
  ASSUME ResultInv, result # NoResult, [Next]_vars
  PROVE  UNCHANGED vars
<1>1. \A w \in Worker : pc[w] \in {"unborn", "left"}
  BY DEF ResultInv
<1>2. ASSUME NEW w \in Worker PROVE ~TaskStep(w) /\ ~PoolStep(w) /\ ~Panic(w)
  <2>1. pc[w] \in {"unborn", "left"}
    BY <1>1
  <2>2. ~TaskStep(w) /\ ~Panic(w)
    BY <2>1 DEF TaskStep, Panic, Begin, CheckStop, ReadFails, Read, List, Entry, AtEntry, Continue, EndListing,
                Release, RecordPanic
  <2>3. ~PoolStep(w)
    BY <2>1 DEF PoolStep, GrowDone, ClaimSlot, NoScratch, Spawn, Refused, TakeTask, NoMoreTasks, EndHelper
  <2> QED
    BY <2>2, <2>3
<1>3. pc[Caller] = "left"
  BY DEF ResultInv
<1>4. ~AloneStep /\ ~Finish /\ ~Cancel
  BY <1>3 DEF AloneStep, NextRoot, RootsStopped, RootsDone, WidenPool, DrainTake, DrainEmpty, Finish, Cancel
<1> QED
  BY <1>2, <1>4 DEF Next, Done

LEMMA ResultStep ==
  ASSUME TypeOK, StationInv, ResultInv, [Next]_vars
  PROVE  ResultInv'
<1>0. pc \in [Worker -> Label] /\ back \in [Worker -> {"idle", "entry", "release"}] /\ Caller \in Worker
      /\ idle \subseteq Worker \ {Caller}
  BY Constants DEF TypeOK
<1>1. CASE result # NoResult
  <2>1. UNCHANGED vars
    BY <1>1, Ended
  <2>2. UNCHANGED <<pc, result, panic, abort, shards, found, errors, stopped, cancelled>>
    BY <2>1 DEF vars, flags, report, kept
  <2>3. Outcome' = Outcome
    BY <2>2 DEF Outcome, Stopping
  <2> QED
    BY <2>2, <2>3 DEF ResultInv
<1>2. CASE result = NoResult
  <2>0. pc[Caller] # "left"
    BY <1>2 DEF ResultInv
  <2>1. ASSUME result' = result, pc'[Caller] # "left" PROVE ResultInv'
    BY <1>2, <2>1 DEF ResultInv
  <2>2. ASSUME NEW w \in Worker, TaskStep(w) \/ Panic(w) PROVE ResultInv'
    <3>1. result' = result
      BY <2>2 DEF TaskStep, Panic, Begin, CheckStop, ReadFails, Read, List, Entry, Continue, EndListing, Release,
                  RecordPanic
    <3>2. Walks(w)
      BY <2>2, WalkingSteps
    <3> QED
      BY <1>0, <2>0, <2>1, <3>1, <3>2 DEF Walks, Quiet
  <2>3. ASSUME AloneStep PROVE ResultInv'
    <3>1. result' = result
      BY <2>3 DEF AloneStep, NextRoot, RootsStopped, RootsDone, WidenPool, DrainTake, DrainEmpty
    <3>2. Walks(Caller)
      BY <2>3, WalkingSteps
    <3> QED
      BY <2>1, <3>1, <3>2 DEF Walks, Quiet
  <2>4. ASSUME NEW w \in Worker, PoolStep(w) PROVE ResultInv'
    <3>1. result' = result
      BY <2>4 DEF PoolStep, GrowDone, ClaimSlot, NoScratch, Spawn, Refused, TakeTask, NoMoreTasks, EndHelper
    <3>2. pc'[Caller] # "left"
      <4>1. CASE GrowDone(w) \/ Refused(w) \/ TakeTask(w) \/ NoMoreTasks(w)
        BY <1>0, <2>0, <4>1, WalkingSteps DEF Walks, Quiet
      <4>2. CASE ClaimSlot(w) \/ NoScratch(w) \/ Spawn(w)
        BY <1>0, <2>0, <4>2 DEF ClaimSlot, NoScratch, Spawn, Goto
      <4>3. CASE EndHelper(w)
        <5>1. pc[w] = "leave" /\ pc' = [pc EXCEPT ![w] = "left"]
          BY <4>3 DEF EndHelper, Goto
        <5>2. w # Caller
          <6>1. Place(w) = "leave"
            BY <5>1 DEF Place, Growing
          <6> QED
            BY <6>1 DEF StationInv, Stages, Loop
        <5> QED
          BY <1>0, <2>0, <5>1, <5>2
      <4> QED
        BY <2>4, <4>1, <4>2, <4>3 DEF PoolStep
    <3> QED
      BY <2>1, <3>1, <3>2
  <2>5. ASSUME Finish PROVE ResultInv'
    <3>1. /\ pc[Caller] = "join" /\ pc' = [pc EXCEPT ![Caller] = "left"] /\ result' = Outcome
          /\ \A h \in Worker \ {Caller} : pc[h] \in {"unborn", "left"}
          /\ UNCHANGED <<panic, abort, shards, found, errors, stopped, cancelled>>
      BY <2>5 DEF Finish, Goto, flags, report, kept
    <3>2. Outcome' = Outcome
      BY <3>1 DEF Outcome, Stopping
    <3>3. Outcome # NoResult
      <4>1. Outcome.kind \in {"panic", "error", "ok"} /\ NoResult.kind = "none"
        BY DEF Outcome, NoResult
      <4> QED
        BY <4>1
    <3> QED
      BY <1>0, <3>1, <3>2, <3>3 DEF ResultInv
  <2>6. ASSUME Cancel \/ UNCHANGED vars PROVE ResultInv'
    BY <2>0, <2>1, <2>6 DEF Cancel, vars
  <2> QED
    BY <2>2, <2>3, <2>4, <2>5, <2>6 DEF Next, Done
<1> QED
  BY <1>1, <1>2
=============================================================================
