------------------------- MODULE CoordinatorProofs -------------------------
(***************************************************************************)
(* Proofs about Coordinator for any number of workers, tasks and roots.    *)
(***************************************************************************)
EXTENDS CoordinatorInv, FiniteSetTheorems, TLAPS

-----------------------------------------------------------------------------
(* Type correctness and the two counters.                                  *)

LEMMA CountedSetsFinite ==
  TypeOK => /\ IsFiniteSet(Outstanding) /\ Cardinality(Outstanding) \in Nat
            /\ IsFiniteSet(Registered) /\ Cardinality(Registered) \in Nat
  BY FiniteAssumption, FS_Subset, FS_CardinalityType DEF Outstanding, Registered

\* A counter moves with the set it counts.
LEMMA CountAdded ==
  ASSUME NEW S, IsFiniteSet(S), NEW x, x \notin S
  PROVE  Cardinality(S \cup {x}) = Cardinality(S) + 1
  BY FS_AddElement

LEMMA CountRemoved ==
  ASSUME NEW S, IsFiniteSet(S), NEW x \in S
  PROVE  /\ Cardinality(S \ {x}) = Cardinality(S) - 1
         /\ Cardinality(S) - 1 \in Nat
<1>1. IsFiniteSet(S \ {x}) /\ Cardinality(S \ {x}) = Cardinality(S) - 1
  BY FS_RemoveElement
<1>2. Cardinality(S \ {x}) \in Nat
  BY <1>1, FS_CardinalityType
<1> QED
  BY <1>1, <1>2

LEMMA CountInit == Init => CountInv
<1> SUFFICES ASSUME Init PROVE CountInv
  OBVIOUS
<1>1. TypeOK
  BY WorkerAssumption DEF Init, TypeOK, Place, Label, ReturnLabel
<1>2. Outstanding = {} /\ Registered = {}
  BY DEF Init, Outstanding, Registered
<1> QED
  BY <1>1, <1>2, FS_EmptySet DEF Init, CountInv, CountersTrue

\* A step that moves no task in or out of the outstanding ones and registers or
\* retires no sleeper leaves the counters true.
LEMMA CountersKept ==
  ASSUME CountersTrue, UNCHANGED <<pending, sleepers>>,
         Outstanding' = Outstanding, Registered' = Registered
  PROVE  CountersTrue'
  BY DEF CountersTrue

LEMMA AloneCounts == CountInv /\ AloneStep => CountInv'
<1> SUFFICES ASSUME CountInv, AloneStep PROVE CountInv'
  OBVIOUS
<1> USE WorkerAssumption, RootAssumption DEF CountInv
<1>1. ASSUME NEW t \in Task, BeginRoot(t) PROVE CountInv'
  <2>1. TypeOK'
    BY <1>1 DEF BeginRoot, BeginCount, Hold, Goto, TypeOK, Place, Label, ReturnLabel, flags, wakeState, scan
  <2>2. Outstanding' = Outstanding \cup {t} /\ t \notin Outstanding
    BY <1>1 DEF BeginRoot, Hold, Outstanding, TypeOK
  <2>3. Registered' = Registered
    BY <1>1 DEF BeginRoot, Goto, Registered, TypeOK
  <2> QED
    BY <1>1, <2>1, <2>2, <2>3, CountedSetsFinite, CountAdded
       DEF CountersTrue, BeginRoot, BeginCount, wakeState
<1>2. ASSUME NEW t \in Task, DrainTake(t) PROVE CountInv'
  <2>1. TypeOK'
    BY <1>2 DEF DrainTake, Hold, Goto, TypeOK, Place, Label, ReturnLabel, flags, wakeState, scan, Own
  <2>2. Outstanding' = Outstanding
    <3>1. CASE Hold(Caller, t) /\ t \in Own(Caller)
      BY <3>1 DEF Hold, Outstanding, TypeOK, Own
    <3>2. ASSUME NEW rest \in SUBSET Injector, t \in Injector,
                 place' = [u \in Task |-> IF u = t THEN "held"
                                          ELSE IF u \in rest THEN "own" ELSE place[u]]
          PROVE  Outstanding' = Outstanding
      BY <3>2 DEF Outstanding, TypeOK, Injector
    <3> QED
      BY <1>2, <3>1, <3>2 DEF DrainTake, Batch
  <2>3. Registered' = Registered
    BY <1>2 DEF DrainTake, Goto, Registered, TypeOK
  <2> QED
    BY <1>2, <2>1, <2>2, <2>3, CountersKept DEF DrainTake, wakeState
<1>3. CASE RootsDone
  <2>1. TypeOK'
    BY <1>3 DEF RootsDone, Goto, TypeOK, Place, Label, ReturnLabel, flags, wakeState, scan
  <2>2. Outstanding' = Outstanding
    BY <1>3 DEF RootsDone, Outstanding, TypeOK, Own
  <2>3. Registered' = Registered
    BY <1>3 DEF RootsDone, Goto, Registered, TypeOK
  <2> QED
    BY <1>3, <2>1, <2>2, <2>3, CountersKept DEF RootsDone, wakeState
<1>4. CASE RootsStopped \/ Widen \/ DrainEmpty
  <2> USE DEF RootsStopped, Widen, DrainEmpty
  <2>1. TypeOK'
    <3>1. CASE RootsStopped
      BY <3>1 DEF Goto, TypeOK, Place, Label, ReturnLabel, flags, wakeState, scan, tasks
    <3>2. CASE Widen
      BY <3>2 DEF Goto, TypeOK, Place, Label, ReturnLabel, flags, wakeState, scan, tasks
    <3>3. CASE DrainEmpty
      BY <3>3 DEF Goto, TypeOK, Place, Label, ReturnLabel, flags, wakeState, scan, tasks
    <3> QED
      BY <1>4, <3>1, <3>2, <3>3
  <2>2. Outstanding' = Outstanding
    BY <1>4 DEF Outstanding, tasks
  <2>3. Registered' = Registered
    BY <1>4 DEF Goto, Registered, TypeOK
  <2> QED
    BY <1>4, <2>1, <2>2, <2>3, CountersKept DEF wakeState
<1> QED
  BY <1>1, <1>2, <1>3, <1>4 DEF AloneStep

\* A step that only moves program counters, and between labels that agree on
\* whether the sleeper is registered.
LEMMA PcOnlyCounts ==
  ASSUME CountInv, UNCHANGED <<pending, wakeState, lone, flags, flushed, tasks, ret, scan>>,
         pc' \in [Worker -> Label], Registered' = Registered
  PROVE  CountInv'
<1>1. TypeOK'
  BY DEF CountInv, TypeOK, wakeState, flags, tasks, scan
<1>2. Outstanding' = Outstanding
  BY DEF Outstanding, tasks
<1> QED
  BY <1>1, <1>2, CountersKept DEF CountInv, wakeState

LEMMA GrowCounts == \A w \in Worker : CountInv /\ Grow(w) => CountInv'
<1> SUFFICES ASSUME NEW w \in Worker, CountInv, Grow(w) PROVE CountInv'
  OBVIOUS
<1>1. ASSUME NEW h \in Worker, StartHelper(w, h) PROVE CountInv'
  <2>1. pc' \in [Worker -> Label] /\ Registered' = Registered
    BY <1>1 DEF StartHelper, Goto, CountInv, TypeOK, Label, Registered
  <2> QED
    BY <1>1, <2>1, PcOnlyCounts DEF StartHelper
<1>2. CASE GrownOnce(w)
  <2>1. pc' \in [Worker -> Label] /\ Registered' = Registered
    BY <1>2 DEF GrownOnce, Goto, CountInv, TypeOK, Label, Registered
  <2> QED
    BY <1>2, <2>1, PcOnlyCounts DEF GrownOnce
<1> QED
  BY <1>1, <1>2 DEF Grow

LEMMA WorkCounts == \A w \in Worker : CountInv /\ WorkStep(w) => CountInv'
<1> SUFFICES ASSUME NEW w \in Worker, CountInv, WorkStep(w) PROVE CountInv'
  OBVIOUS
<1> USE WorkerAssumption, RootAssumption DEF CountInv
<1>1. ASSUME NEW t \in Task, BeginTask(w, t) PROVE CountInv'
  <2>1. TypeOK'
    BY <1>1 DEF BeginTask, BeginCount, Goto, TypeOK, Place, Label, flags, wakeState, scan
  <2>2. Outstanding' = Outstanding \cup {t} /\ t \notin Outstanding
    BY <1>1 DEF BeginTask, Outstanding, TypeOK
  <2>3. Registered' = Registered
    BY <1>1 DEF BeginTask, Goto, Registered, TypeOK
  <2> QED
    BY <1>1, <2>1, <2>2, <2>3, CountedSetsFinite, CountAdded
       DEF CountersTrue, BeginTask, BeginCount, wakeState
<1>2. ASSUME NEW t \in Task, Publish(w, t) PROVE CountInv'
  <2>1. TypeOK'
    BY <1>2 DEF Publish, Goto, TypeOK, Place, Label, ReturnLabel, flags, wakeState, scan
  <2>2. Outstanding' = Outstanding
    BY <1>2 DEF Publish, Outstanding, TypeOK
  <2>3. Registered' = Registered
    BY <1>2 DEF Publish, Goto, Registered, TypeOK
  <2> QED
    BY <1>2, <2>1, <2>2, <2>3, CountersKept DEF Publish, wakeState
<1>3. ASSUME NEW t \in Task, FinishTask(w, t) PROVE CountInv'
  <2>1. t \in Outstanding /\ Outstanding' = Outstanding \ {t}
    BY <1>3 DEF FinishTask, Outstanding, TypeOK
  <2>2. pending' = Cardinality(Outstanding') /\ pending' \in Nat
    BY <1>3, <2>1, CountedSetsFinite, CountRemoved DEF FinishTask, CountersTrue
  <2>3. AfterRelease(w) \in ReturnLabel
    BY DEF AfterRelease, Loop, ReturnLabel
  <2>4. pc' \in [Worker -> Label] /\ ret' \in [Worker -> ReturnLabel]
    BY <1>3, <2>3 DEF FinishTask, Goto, TypeOK, Label, ReturnLabel
  <2>5. TypeOK'
    BY <1>3, <2>2, <2>4 DEF FinishTask, TypeOK, Place, flags, wakeState, scan
  <2>6. Registered' = Registered
    BY <1>3, <2>3 DEF FinishTask, Goto, Registered, TypeOK, ReturnLabel
  <2> QED
    BY <1>3, <2>2, <2>5, <2>6 DEF CountersTrue, FinishTask, wakeState
<1>4. CASE Announce(w)
  <2>1. TypeOK'
    BY <1>4 DEF Announce, Goto, TypeOK, Place, Label, ReturnLabel, flags, tasks, scan
  <2>2. Outstanding' = Outstanding
    BY <1>4 DEF Announce, Outstanding, tasks
  <2>3. Registered' = Registered
    BY <1>4 DEF Announce, Goto, Registered, TypeOK, ReturnLabel
  <2> QED
    BY <1>4, <2>1, <2>2, <2>3, CountersKept DEF Announce
<1>5. CASE BeginWork(w) \/ EndWork(w)
  <2>1. pc' \in [Worker -> Label] /\ Registered' = Registered
    BY <1>5 DEF BeginWork, EndWork, Goto, TypeOK, Label, Registered
  <2> QED
    BY <1>5, <2>1, PcOnlyCounts DEF BeginWork, EndWork
<1>6. CASE NotifyOne(w)
  <2>1. pc' \in [Worker -> Label] /\ Registered' = Registered
    BY <1>6 DEF NotifyOne, Goto, TypeOK, Label, ReturnLabel, Registered
  <2> QED
    BY <1>6, <2>1, PcOnlyCounts DEF NotifyOne
<1>7. CASE NotifyAll(w)
  <2>1. pc' \in [Worker -> Label] /\ Registered' = Registered
    BY <1>7 DEF NotifyAll, TypeOK, Label, ReturnLabel, Registered
  <2> QED
    BY <1>7, <2>1, PcOnlyCounts DEF NotifyAll
<1>8. CASE Stop(w) \/ RecordPanic(w)
  <2>1. TypeOK'
    <3>1. CASE Stop(w)
      BY <3>1 DEF Stop, Goto, TypeOK, Place, Label, ReturnLabel, wakeState, tasks, scan
    <3>2. CASE RecordPanic(w)
      BY <3>2 DEF RecordPanic, Goto, TypeOK, Place, Label, ReturnLabel, wakeState, tasks, scan
    <3> QED
      BY <1>8, <3>1, <3>2
  <2>2. Outstanding' = Outstanding
    BY <1>8 DEF Stop, RecordPanic, Outstanding, tasks
  <2>3. Registered' = Registered
    BY <1>8 DEF Stop, RecordPanic, Goto, Registered, TypeOK
  <2> QED
    BY <1>8, <2>1, <2>2, <2>3, CountersKept DEF Stop, RecordPanic, wakeState
<1> QED
  BY <1>1, <1>2, <1>3, <1>4, <1>5, <1>6, <1>7, <1>8 DEF WorkStep

LEMMA WaitCounts == \A w \in Worker : CountInv /\ WaitStep(w) => CountInv'
<1> SUFFICES ASSUME NEW w \in Worker, CountInv, WaitStep(w) PROVE CountInv'
  OBVIOUS
<1> USE WorkerAssumption DEF CountInv
<1>1. CASE CheckStop(w) \/ NothingFound(w) \/ DropSlot(w)
  <2>1. pc' \in [Worker -> Label] /\ Registered' = Registered
    BY <1>1 DEF CheckStop, NothingFound, DropSlot, Goto, TypeOK, Label, Registered
  <2> QED
    BY <1>1, <2>1, PcOnlyCounts DEF CheckStop, NothingFound, DropSlot
<1>2. CASE Observe(w)
  <2>1. TypeOK'
    BY <1>2 DEF Observe, Goto, TypeOK, Place, Label, flags, wakeState, tasks
  <2>2. Outstanding' = Outstanding /\ Registered' = Registered
    BY <1>2 DEF Observe, Outstanding, tasks, Goto, Registered, TypeOK
  <2> QED
    BY <1>2, <2>1, <2>2, CountersKept DEF Observe, wakeState
<1>3. CASE PopOwn(w)
  <2>1. TypeOK'
    BY <1>3 DEF PopOwn, Hold, Own, Goto, TypeOK, Place, Label, flags, wakeState, tasks, scan
  <2>2. Outstanding' = Outstanding
    BY <1>3 DEF PopOwn, Hold, Own, Outstanding, TypeOK, tasks
  <2>3. Registered' = Registered
    BY <1>3 DEF PopOwn, Goto, Registered, TypeOK
  <2> QED
    BY <1>3, <2>1, <2>2, <2>3, CountersKept DEF PopOwn, wakeState
<1>4. ASSUME NEW source \in SUBSET Queued, Steal(w, source), pc[w] \in {"inject", "scan"}
      PROVE  /\ place' \in [Task -> Place] /\ owner' \in [Task -> Worker \cup {None}]
             /\ pc' \in [Worker -> Label]
             /\ Outstanding' = Outstanding /\ Registered' = Registered
  <2> USE DEF Steal, Batch, Queued
  <2>1. place' \in [Task -> Place] /\ owner' \in [Task -> Worker \cup {None}]
    BY <1>4 DEF TypeOK, Place
  <2>2. pc' \in [Worker -> Label] /\ Registered' = Registered
    BY <1>4 DEF Goto, TypeOK, Label, Registered
  <2>3. Outstanding' = Outstanding
    BY <1>4 DEF TypeOK, Outstanding
  <2> QED
    BY <2>1, <2>2, <2>3
<1>5. CASE StealInjector(w)
  <2>1. CASE Steal(w, Injector) /\ UNCHANGED victims
    <3>1. Injector \in SUBSET Queued
      BY DEF Injector, Queued
    <3>2. TypeOK'
      BY <1>5, <2>1, <1>4, <3>1 DEF StealInjector, TypeOK, flags, wakeState
    <3> QED
      BY <1>5, <2>1, <1>4, <3>1, <3>2, CountersKept DEF StealInjector, wakeState
  <2>2. CASE UNCHANGED tasks /\ Goto(w, "scan") /\ victims' = [victims EXCEPT ![w] = Worker \ {w}]
    <3>1. TypeOK'
      BY <1>5, <2>2 DEF StealInjector, Goto, TypeOK, Label, flags, wakeState, tasks
    <3>2. Outstanding' = Outstanding /\ Registered' = Registered
      BY <1>5, <2>2 DEF StealInjector, Goto, TypeOK, Outstanding, Registered, tasks
    <3> QED
      BY <1>5, <3>1, <3>2, CountersKept DEF StealInjector, wakeState
  <2> QED
    BY <1>5, <2>1, <2>2 DEF StealInjector
<1>6. CASE StealVictim(w)
  <2>1. ASSUME NEW v \in Worker, Steal(w, Own(v)), UNCHANGED victims PROVE CountInv'
    <3>1. Own(v) \in SUBSET Queued
      BY DEF Own, Queued
    <3>2. TypeOK'
      BY <1>6, <2>1, <1>4, <3>1 DEF StealVictim, TypeOK, flags, wakeState
    <3> QED
      BY <1>6, <2>1, <1>4, <3>1, <3>2, CountersKept DEF StealVictim, wakeState
  <2>2. ASSUME NEW v \in Worker, UNCHANGED <<pc, tasks>>,
               victims' = [victims EXCEPT ![w] = @ \ {v}]
        PROVE  CountInv'
    <3>1. TypeOK'
      BY <1>6, <2>2 DEF StealVictim, TypeOK, flags, wakeState, tasks
    <3>2. Outstanding' = Outstanding /\ Registered' = Registered
      BY <2>2 DEF Outstanding, Registered, tasks
    <3> QED
      BY <1>6, <3>1, <3>2, CountersKept DEF StealVictim, wakeState
  <2> QED
    BY <1>6, <2>1, <2>2 DEF StealVictim, TypeOK
<1>7. CASE Land(w)
  <2>1. TypeOK'
    BY <1>7 DEF Land, Moving, Goto, TypeOK, Place, Label, flags, wakeState, scan
  <2>2. Outstanding' = Outstanding
    BY <1>7 DEF Land, Moving, Outstanding, TypeOK
  <2>3. Registered' = Registered
    BY <1>7 DEF Land, Goto, Registered, TypeOK
  <2> QED
    BY <1>7, <2>1, <2>2, <2>3, CountersKept DEF Land, wakeState
<1>8. CASE HandOff(w)
  <2>1. TypeOK'
    BY <1>8 DEF HandOff, Goto, TypeOK, Label, ReturnLabel, flags, wakeState, tasks, scan
  <2>2. Outstanding' = Outstanding /\ Registered' = Registered
    BY <1>8 DEF HandOff, Goto, TypeOK, Outstanding, Registered, tasks
  <2> QED
    BY <1>8, <2>1, <2>2, CountersKept DEF HandOff, wakeState
<1>9. CASE Lock(w) \/ RecheckPending(w) \/ RecheckStop(w) \/ Park(w)
  <2> USE DEF Lock, RecheckPending, RecheckStop, Park
  <2>1. /\ pc' \in [Worker -> Label] /\ Registered' = Registered
        /\ wakeLock' \in Worker \cup {None}
    BY <1>9 DEF Goto, TypeOK, Label, Registered
  <2>2. TypeOK'
    BY <1>9, <2>1 DEF TypeOK, flags, tasks, scan
  <2>3. Outstanding' = Outstanding
    BY <1>9 DEF Outstanding, tasks
  <2> QED
    BY <1>9, <2>1, <2>2, <2>3, CountersKept
<1>10. CASE Register(w)
  <2>1. TypeOK'
    BY <1>10 DEF Register, Goto, TypeOK, Label, flags, tasks, scan
  <2>2. Outstanding' = Outstanding
    BY <1>10 DEF Register, Outstanding, tasks
  <2>3. Registered' = Registered \cup {w} /\ w \notin Registered
    BY <1>10 DEF Register, Goto, TypeOK, Registered
  <2> QED
    BY <1>10, <2>1, <2>2, <2>3, CountedSetsFinite, CountAdded DEF Register, CountersTrue
<1>11. CASE Unregister(w)
  <2>1. w \in Registered /\ Registered' = Registered \ {w}
    BY <1>11 DEF Unregister, Goto, TypeOK, Registered
  <2>2. sleepers' = Cardinality(Registered') /\ sleepers' \in Nat
    BY <1>11, <2>1, CountedSetsFinite, CountRemoved DEF Unregister, SleeperRetired, CountersTrue
  <2>3. TypeOK'
    BY <1>11, <2>2 DEF Unregister, Goto, TypeOK, Label, flags, tasks, scan
  <2>4. Outstanding' = Outstanding
    BY <1>11 DEF Unregister, Outstanding, tasks
  <2> QED
    BY <1>11, <2>2, <2>3, <2>4 DEF Unregister, CountersTrue
<1> QED
  BY <1>1, <1>2, <1>3, <1>5, <1>6, <1>7, <1>8, <1>9, <1>10, <1>11 DEF WaitStep

LEMMA CountNext == CountInv /\ [Next]_vars => CountInv'
<1> SUFFICES ASSUME CountInv, [Next]_vars PROVE CountInv'
  OBVIOUS
<1>1. ASSUME NEW w \in Worker, TimeOut(w) PROVE CountInv'
  <2>1. pc' \in [Worker -> Label] /\ Registered' = Registered
    BY <1>1 DEF TimeOut, Goto, CountInv, TypeOK, Label, Registered
  <2> QED
    BY <1>1, <2>1, PcOnlyCounts DEF TimeOut
<1>2. CASE Cancel
  <2>1. TypeOK'
    BY <1>2 DEF Cancel, CountInv, TypeOK, wakeState, tasks, scan
  <2>2. Outstanding' = Outstanding /\ Registered' = Registered
    BY <1>2 DEF Cancel, Outstanding, Registered, tasks
  <2> QED
    BY <1>2, <2>1, <2>2, CountersKept DEF Cancel, CountInv, wakeState
<1>3. CASE UNCHANGED vars
  <2>1. UNCHANGED <<pending, wakeState, lone, flags, flushed, tasks, ret, scan>> /\ UNCHANGED pc
    BY <1>3 DEF vars
  <2>2. pc' \in [Worker -> Label] /\ Registered' = Registered
    BY <2>1 DEF CountInv, TypeOK, Registered
  <2> QED
    BY <2>1, <2>2, PcOnlyCounts
<1> QED
  BY <1>1, <1>2, <1>3, AloneCounts, GrowCounts, WorkCounts, WaitCounts DEF Next, Finished

\* The variables keep their types: in particular pending and sleepers, which
\* the code decrements without looking, never pass zero.
THEOREM TypeCorrect == Spec => []TypeOK
<1>1. CountInv => TypeOK
  BY DEF CountInv
<1> QED
  BY CountInit, CountNext, <1>1, PTL DEF Spec

\* begin_task, finish_task and the two fetch_sub of wait_for_task balance on
\* every path: the counters equal what they count between any two accesses.
THEOREM CountersCorrect == Spec => []CountersTrue
<1>1. CountInv => CountersTrue
  BY DEF CountInv
<1> QED
  BY CountInit, CountNext, <1>1, PTL DEF Spec

-----------------------------------------------------------------------------
(* Who owns a task, who holds the lock, who is alone, who returns where.   *)

LEMMA OwnerNext == CountInv /\ OwnerInv /\ [Next]_vars => OwnerInv'
<1> SUFFICES ASSUME CountInv, OwnerInv, [Next]_vars PROVE OwnerInv'
  OBVIOUS
<1> USE WorkerAssumption DEF CountInv
<1>1. ASSUME UNCHANGED tasks PROVE OwnerInv'
  BY <1>1 DEF OwnerInv, tasks
<1>2. CASE AloneStep
  <2>1. ASSUME NEW t \in Task, BeginRoot(t) PROVE OwnerInv'
    BY <2>1 DEF BeginRoot, Hold, OwnerInv, TypeOK
  <2>2. ASSUME NEW t \in Task, DrainTake(t) PROVE OwnerInv'
    BY <2>2 DEF DrainTake, Batch, Hold, OwnerInv, TypeOK
  <2>3. CASE RootsDone
    BY <2>3 DEF RootsDone, Own, OwnerInv, TypeOK
  <2>4. CASE RootsStopped \/ Widen \/ DrainEmpty
    BY <2>4, <1>1 DEF RootsStopped, Widen, DrainEmpty
  <2> QED
    BY <1>2, <2>1, <2>2, <2>3, <2>4 DEF AloneStep
<1>3. ASSUME NEW w \in Worker, Grow(w) \/ TimeOut(w) PROVE OwnerInv'
  BY <1>3, <1>1 DEF Grow, GrownOnce, StartHelper, TimeOut
<1>4. ASSUME NEW w \in Worker, WorkStep(w) PROVE OwnerInv'
  <2>1. ASSUME NEW t \in Task, BeginTask(w, t) \/ FinishTask(w, t) PROVE OwnerInv'
    BY <2>1 DEF BeginTask, FinishTask, OwnerInv, TypeOK
  <2>2. ASSUME NEW t \in Task, Publish(w, t) PROVE OwnerInv'
    BY <2>2 DEF Publish, OwnerInv, TypeOK
  <2>3. CASE \/ BeginWork(w) \/ Announce(w) \/ NotifyOne(w) \/ NotifyAll(w)
             \/ Stop(w) \/ EndWork(w) \/ RecordPanic(w)
    BY <2>3, <1>1 DEF BeginWork, Announce, NotifyOne, NotifyAll, Stop, EndWork, RecordPanic
  <2> QED
    BY <1>4, <2>1, <2>2, <2>3 DEF WorkStep
<1>5. ASSUME NEW w \in Worker, WaitStep(w) PROVE OwnerInv'
  <2>1. CASE PopOwn(w)
    BY <2>1, <1>1 DEF PopOwn, Hold, OwnerInv, TypeOK
  <2>2. ASSUME NEW source, Steal(w, source) PROVE OwnerInv'
    BY <2>2 DEF Steal, Batch, OwnerInv, TypeOK
  <2>3. CASE StealInjector(w) \/ StealVictim(w)
    BY <2>3, <2>2, <1>1 DEF StealInjector, StealVictim
  <2>4. CASE Land(w)
    BY <2>4 DEF Land, Moving, OwnerInv, TypeOK
  <2>5. CASE \/ CheckStop(w) \/ Observe(w) \/ NothingFound(w) \/ HandOff(w) \/ Lock(w)
             \/ RecheckPending(w) \/ RecheckStop(w) \/ Register(w) \/ Park(w)
             \/ Unregister(w) \/ DropSlot(w)
    BY <2>5, <1>1 DEF CheckStop, Observe, NothingFound, HandOff, Lock, RecheckPending,
                      RecheckStop, Register, Park, Unregister, DropSlot
  <2> QED
    BY <1>5, <2>1, <2>3, <2>4, <2>5 DEF WaitStep
<1>6. CASE Cancel \/ UNCHANGED vars
  BY <1>6, <1>1 DEF Cancel, vars
<1> QED
  BY <1>2, <1>3, <1>4, <1>5, <1>6 DEF Next, Finished

LEMMA ShapeInit == Init => Shape
<1> SUFFICES ASSUME Init PROVE Shape
  OBVIOUS
<1> USE WorkerAssumption DEF Init
<1>1. CountInv
  BY CountInit
<1>2. OwnerInv /\ LockInv
  BY DEF OwnerInv, LockInv, LockLabels
<1>3. AloneInv /\ ReturnInv
  BY DEF AloneInv, AloneLabels, ReturnInv
<1> QED
  BY <1>1, <1>2, <1>3 DEF Shape

\* What only moves program counters, outside the labels that hold the lock.
LEMMA LockKept ==
  ASSUME LockInv, UNCHANGED wakeLock,
         \A v \in Worker : pc'[v] \in LockLabels <=> pc[v] \in LockLabels
  PROVE  LockInv'
  BY DEF LockInv

LEMMA LockNext == Shape /\ [Next]_vars => LockInv'
<1> SUFFICES ASSUME Shape, [Next]_vars PROVE LockInv'
  OBVIOUS
<1> USE WorkerAssumption DEF Shape, CountInv, TypeOK, Goto, LockLabels
<1>1. CASE AloneStep
  BY <1>1, LockKept DEF AloneStep, BeginRoot, RootsStopped, RootsDone, Widen, DrainTake,
                        DrainEmpty, wakeState
<1>2. ASSUME NEW w \in Worker, Grow(w) \/ TimeOut(w) PROVE LockInv'
  BY <1>2, LockKept DEF Grow, GrownOnce, StartHelper, TimeOut, wakeState
<1>3. ASSUME NEW w \in Worker, WorkStep(w) PROVE LockInv'
  <2>1. ASSUME NEW t \in Task, BeginTask(w, t) \/ Publish(w, t) PROVE LockInv'
    BY <2>1, LockKept DEF BeginTask, Publish, wakeState
  <2>2. ASSUME NEW t \in Task, FinishTask(w, t) PROVE LockInv'
    BY <2>2, LockKept DEF FinishTask, AfterRelease, Loop, wakeState
  <2>3. CASE NotifyOne(w)
    BY <2>3, LockKept DEF NotifyOne, ReturnLabel, wakeState
  <2>4. CASE NotifyAll(w)
    BY <2>4, LockKept DEF NotifyAll, ReturnLabel, wakeState
  <2>5. CASE Announce(w)
    BY <2>5, LockKept DEF Announce, ReturnLabel
  <2>6. CASE BeginWork(w) \/ Stop(w) \/ EndWork(w) \/ RecordPanic(w)
    BY <2>6, LockKept DEF BeginWork, Stop, EndWork, RecordPanic, wakeState
  <2> QED
    BY <1>3, <2>1, <2>2, <2>3, <2>4, <2>5, <2>6 DEF WorkStep
<1>4. ASSUME NEW w \in Worker, WaitStep(w) PROVE LockInv'
  <2>1. CASE Lock(w)
    BY <2>1 DEF Lock, LockInv
  <2>2. CASE RecheckPending(w) \/ RecheckStop(w)
    BY <2>2 DEF RecheckPending, RecheckStop, LockInv
  <2>3. CASE Park(w) \/ Unregister(w)
    BY <2>3 DEF Park, Unregister, LockInv
  <2>4. CASE Register(w)
    BY <2>4, LockKept DEF Register
  <2>5. ASSUME NEW source, Steal(w, source), pc[w] \in {"inject", "scan"}, UNCHANGED wakeState
        PROVE  LockInv'
    BY <2>5, LockKept DEF Steal, wakeState
  <2>6. CASE StealInjector(w) \/ StealVictim(w)
    BY <2>6, <2>5, LockKept DEF StealInjector, StealVictim, wakeState
  <2>7. CASE \/ CheckStop(w) \/ Observe(w) \/ PopOwn(w) \/ NothingFound(w) \/ Land(w)
             \/ HandOff(w) \/ DropSlot(w)
    BY <2>7, LockKept DEF CheckStop, Observe, PopOwn, NothingFound, Land, HandOff, DropSlot,
                          wakeState
  <2> QED
    BY <1>4, <2>1, <2>2, <2>3, <2>4, <2>6, <2>7 DEF WaitStep
<1>5. CASE Cancel \/ UNCHANGED vars
  BY <1>5, LockKept DEF Cancel, vars, wakeState
<1> QED
  BY <1>1, <1>2, <1>3, <1>4, <1>5 DEF Next, Finished

LEMMA AloneNext == Shape /\ [Next]_vars => AloneInv'
<1> SUFFICES ASSUME Shape, [Next]_vars PROVE AloneInv'
  OBVIOUS
<1> USE WorkerAssumption DEF Shape, CountInv, TypeOK, AloneInv, AloneLabels, Goto, Stopping
<1>1. CASE AloneStep
  <2>1. ASSUME NEW t \in Task, BeginRoot(t) PROVE AloneInv'
    BY <2>1 DEF BeginRoot, Hold, flags
  <2>2. ASSUME NEW t \in Task, DrainTake(t) PROVE AloneInv'
    BY <2>2 DEF DrainTake, Batch, Hold, flags
  <2>3. CASE RootsDone
    BY <2>3 DEF RootsDone, flags
  <2>4. CASE RootsStopped \/ Widen \/ DrainEmpty
    BY <2>4 DEF RootsStopped, Widen, DrainEmpty, flags, tasks
  <2> QED
    BY <1>1, <2>1, <2>2, <2>3, <2>4 DEF AloneStep
<1>2. ASSUME NEW w \in Worker, Grow(w) \/ TimeOut(w) PROVE AloneInv'
  BY <1>2 DEF Grow, GrownOnce, StartHelper, TimeOut, flags, tasks
<1>3. ASSUME NEW w \in Worker, WorkStep(w) PROVE AloneInv'
  <2>0. lone /\ pc[w] # "unborn" => w = Caller
    OBVIOUS
  <2>1. ASSUME NEW t \in Task, BeginTask(w, t) PROVE AloneInv'
    BY <2>0, <2>1 DEF BeginTask, flags
  <2>2. ASSUME NEW t \in Task, Publish(w, t) PROVE AloneInv'
    BY <2>0, <2>2 DEF Publish, flags
  <2>3. ASSUME NEW t \in Task, FinishTask(w, t) PROVE AloneInv'
    BY <2>0, <2>3 DEF FinishTask, AfterRelease, Loop, flags
  <2>4. CASE NotifyOne(w)
    BY <2>0, <2>4 DEF NotifyOne, ReturnInv, flags, tasks
  <2>5. CASE NotifyAll(w)
    BY <2>0, <2>5 DEF NotifyAll, ReturnInv, flags, tasks
  <2>6. CASE Announce(w)
    BY <2>0, <2>6 DEF Announce, ReturnInv, flags, tasks
  <2>7. CASE BeginWork(w) \/ EndWork(w)
    BY <2>0, <2>7 DEF BeginWork, EndWork, flags, tasks
  <2>8. CASE Stop(w) \/ RecordPanic(w)
    BY <2>0, <2>8 DEF Stop, RecordPanic, tasks
  <2> QED
    BY <1>3, <2>1, <2>2, <2>3, <2>4, <2>5, <2>6, <2>7, <2>8 DEF WorkStep
<1>4. ASSUME NEW w \in Worker, WaitStep(w) PROVE AloneInv'
  <2>0. ~lone \/ DropSlot(w)
    BY <1>4 DEF WaitStep, CheckStop, Observe, PopOwn, StealInjector, StealVictim, NothingFound,
                Land, HandOff, Lock, RecheckPending, RecheckStop, Register, Park, Unregister
  <2>1. CASE DropSlot(w)
    BY <2>1 DEF DropSlot, flags, tasks
  <2>2. CASE ~DropSlot(w)
    <3>1. ~lone /\ UNCHANGED <<lone, flags>>
      BY <1>4, <2>0, <2>2
         DEF WaitStep, CheckStop, Observe, PopOwn, StealInjector, StealVictim, NothingFound,
             Land, HandOff, Lock, RecheckPending, RecheckStop, Register, Park, Unregister
    <3>2. \E label \in {"leave", "observe", "own", "run", "inject", "landed", "land", "scan",
                        "lock", "announce", "recheck", "unregister", "recheckStop",
                        "register", "park", "parked", "check"} : Goto(w, label) \/ UNCHANGED pc
      BY <1>4, <2>2
         DEF WaitStep, CheckStop, Observe, PopOwn, StealInjector, StealVictim, NothingFound,
             Land, HandOff, Lock, RecheckPending, RecheckStop, Register, Park, Unregister, Steal
    <3> QED
      BY <3>1, <3>2 DEF flags
  <2> QED
    BY <2>1, <2>2
<1>5. CASE Cancel \/ UNCHANGED vars
  BY <1>5 DEF Cancel, vars, flags, tasks
<1> QED
  BY <1>1, <1>2, <1>3, <1>4, <1>5 DEF Next, Finished

LEMMA ReturnNext == Shape /\ [Next]_vars => ReturnInv'
<1> SUFFICES ASSUME Shape, [Next]_vars PROVE ReturnInv'
  OBVIOUS
<1> USE WorkerAssumption DEF Shape, CountInv, TypeOK, ReturnInv, Goto, Stopping
<1>1. CASE AloneStep
  <2>1. ASSUME NEW t \in Task, BeginRoot(t) \/ DrainTake(t) PROVE ReturnInv'
    BY <2>1 DEF BeginRoot, DrainTake, flags
  <2>2. CASE RootsDone \/ RootsStopped \/ DrainEmpty
    BY <2>2 DEF RootsDone, RootsStopped, DrainEmpty, flags
  <2>3. CASE Widen
    BY <2>3 DEF Widen, flags, AloneInv
  <2> QED
    BY <1>1, <2>1, <2>2, <2>3 DEF AloneStep
<1>2. ASSUME NEW w \in Worker, Grow(w) \/ TimeOut(w) PROVE ReturnInv'
  BY <1>2 DEF Grow, GrownOnce, StartHelper, TimeOut, flags
<1>3. ASSUME NEW w \in Worker, WorkStep(w) PROVE ReturnInv'
  <2>1. ASSUME NEW t \in Task, BeginTask(w, t) PROVE ReturnInv'
    BY <2>1 DEF BeginTask, flags
  <2>2. ASSUME NEW t \in Task, Publish(w, t) PROVE ReturnInv'
    BY <2>2 DEF Publish, flags
  <2>3. ASSUME NEW t \in Task, FinishTask(w, t) PROVE ReturnInv'
    <3>1. lone => w = Caller
      BY <2>3 DEF FinishTask, AloneInv
    <3>2. /\ AfterRelease(w) \in {"check", "root", "drain", "leave", "panicked"}
          /\ AfterRelease(w) \in {"root", "drain"} => lone
          /\ AfterRelease(w) = "check" => ~lone
          /\ AfterRelease(w) = "leave" => pc[w] = "abandon"
      BY DEF AfterRelease, Loop
    <3>3. AfterRelease(w) = "leave" => Stopping
      BY <3>2 DEF AloneInv
    <3> QED
      BY <2>3, <3>1, <3>2, <3>3 DEF FinishTask, flags
  <2>4. CASE NotifyOne(w)
    BY <2>4 DEF NotifyOne, flags
  <2>5. CASE NotifyAll(w)
    BY <2>5 DEF NotifyAll, flags
  <2>6. CASE Announce(w)
    BY <2>6 DEF Announce, flags
  <2>7. CASE BeginWork(w) \/ EndWork(w)
    BY <2>7 DEF BeginWork, EndWork, flags
  <2>8. CASE Stop(w)
    BY <2>8 DEF Stop
  <2>9. CASE RecordPanic(w)
    BY <2>9 DEF RecordPanic
  <2> QED
    BY <1>3, <2>1, <2>2, <2>3, <2>4, <2>5, <2>6, <2>7, <2>8, <2>9 DEF WorkStep
<1>4. ASSUME NEW w \in Worker, WaitStep(w) PROVE ReturnInv'
  <2>1. CASE HandOff(w)
    BY <2>1 DEF HandOff, flags
  <2>2. CASE ~HandOff(w)
    <3>1. UNCHANGED <<lone, flags, ret>>
      BY <1>4, <2>2
         DEF WaitStep, CheckStop, Observe, PopOwn, StealInjector, StealVictim, NothingFound,
             Land, Lock, RecheckPending, RecheckStop, Register, Park, Unregister, DropSlot
    <3>2. \E label \in {"leave", "left", "observe", "own", "run", "inject", "landed", "land",
                        "scan", "lock", "recheck", "unregister", "recheckStop",
                        "register", "park", "parked", "check"} : Goto(w, label) \/ UNCHANGED pc
      BY <1>4, <2>2
         DEF WaitStep, CheckStop, Observe, PopOwn, StealInjector, StealVictim, NothingFound,
             Land, Lock, RecheckPending, RecheckStop, Register, Park, Unregister, DropSlot, Steal
    <3> QED
      BY <3>1, <3>2 DEF flags
  <2> QED
    BY <2>1, <2>2
<1>5. CASE Cancel \/ UNCHANGED vars
  BY <1>5 DEF Cancel, vars, flags
<1> QED
  BY <1>1, <1>2, <1>3, <1>4, <1>5 DEF Next, Finished

LEMMA ShapeNext == Shape /\ [Next]_vars => Shape'
  BY CountNext, OwnerNext, LockNext, AloneNext, ReturnNext DEF Shape

-----------------------------------------------------------------------------
(* Termination: nobody sleeps past the end of the walk.                    *)

\* A step that notifies nobody keeps WakeInv if it makes no worker join those
\* that are past a check whose outcome has changed since.
LEMMA WakeKept ==
  ASSUME Shape, WakeInv, UNCHANGED <<pending, stopped, panicked>>,
         \A v \in Worker : pc[v] = "notifyAll" => pc'[v] = "notifyAll",
         \A v \in Worker : pc'[v] \in {"recheckStop", "register", "park", "parked"} =>
                             \/ pc[v] \in {"recheckStop", "register", "park", "parked"}
                             \/ pending # 0,
         \A v \in Worker : pc'[v] \in {"register", "park", "parked"} =>
                             \/ pc[v] \in {"register", "park", "parked"}
                             \/ ~stopped
  PROVE  WakeInv'
  BY DEF WakeInv

LEMMA WakeNext == Shape /\ WakeInv /\ [Next]_vars => WakeInv'
<1> SUFFICES ASSUME Shape, WakeInv, [Next]_vars PROVE WakeInv'
  OBVIOUS
<1> USE WorkerAssumption DEF Shape, CountInv, TypeOK, Goto, Stopping
<1>1. CASE AloneStep
  <2>1. ASSUME NEW t \in Task, BeginRoot(t) PROVE WakeInv'
    BY <2>1 DEF BeginRoot, BeginCount, WakeInv, flags, AloneInv
  <2>2. ASSUME NEW t \in Task, DrainTake(t) PROVE WakeInv'
    BY <2>2, WakeKept DEF DrainTake, flags
  <2>3. CASE RootsDone \/ RootsStopped \/ Widen \/ DrainEmpty
    BY <2>3, WakeKept DEF RootsDone, RootsStopped, Widen, DrainEmpty, flags
  <2> QED
    BY <1>1, <2>1, <2>2, <2>3 DEF AloneStep
<1>2. ASSUME NEW w \in Worker, Grow(w) \/ TimeOut(w) PROVE WakeInv'
  BY <1>2, WakeKept DEF Grow, GrownOnce, StartHelper, TimeOut, flags
<1>3. ASSUME NEW w \in Worker, WorkStep(w) PROVE WakeInv'
  <2>1. ASSUME NEW t \in Task, BeginTask(w, t) PROVE WakeInv'
    BY <2>1 DEF BeginTask, BeginCount, WakeInv, flags
  <2>2. ASSUME NEW t \in Task, Publish(w, t) PROVE WakeInv'
    BY <2>2, WakeKept DEF Publish, flags
  \* The last task: its worker is the one about to wake everybody.
  <2>3. ASSUME NEW t \in Task, FinishTask(w, t) PROVE WakeInv'
    <3>1. CASE pending = 1
      BY <2>3, <3>1 DEF FinishTask, LastTask, WakeInv, flags
    <3>2. CASE pending # 1
      BY <2>3, <3>2 DEF FinishTask, LastTask, AfterRelease, Loop, WakeInv, flags
    <3> QED
      BY <3>1, <3>2
  <2>4. CASE NotifyOne(w)
    BY <2>4, WakeKept DEF NotifyOne, ReturnInv, flags
  \* The lock is free, so nobody is between the checks and the condvar.
  <2>5. CASE NotifyAll(w)
    <3>1. \A v \in Worker : pc[v] \notin LockLabels
      BY <2>5 DEF NotifyAll, LockInv
    <3>2. \A v \in Worker : pc'[v] \notin {"recheckStop", "register", "park", "parked"}
      BY <2>5, <3>1 DEF NotifyAll, LockLabels, ReturnInv
    <3> QED
      BY <2>5, <3>2 DEF NotifyAll, WakeInv, flags
  <2>6. CASE Announce(w)
    BY <2>6, WakeKept DEF Announce, ReturnInv, flags
  <2>7. CASE BeginWork(w) \/ EndWork(w)
    BY <2>7, WakeKept DEF BeginWork, EndWork, flags
  <2>8. CASE Stop(w)
    BY <2>8 DEF Stop, WakeInv
  <2>9. CASE RecordPanic(w)
    BY <2>9 DEF RecordPanic, WakeInv
  <2> QED
    BY <1>3, <2>1, <2>2, <2>3, <2>4, <2>5, <2>6, <2>7, <2>8, <2>9 DEF WorkStep
<1>4. ASSUME NEW w \in Worker, WaitStep(w) PROVE WakeInv'
  <2>1. CASE RecheckPending(w)
    BY <2>1, WakeKept DEF RecheckPending, Drained, flags
  <2>2. CASE RecheckStop(w)
    BY <2>2, WakeKept DEF RecheckStop, flags
  <2>3. CASE Register(w)
    BY <2>3, WakeKept DEF Register, flags
  <2>4. CASE Park(w) \/ Unregister(w) \/ Lock(w)
    BY <2>4, WakeKept DEF Park, Unregister, Lock, flags
  <2>5. CASE \/ CheckStop(w) \/ Observe(w) \/ PopOwn(w) \/ StealInjector(w) \/ StealVictim(w)
             \/ NothingFound(w) \/ Land(w) \/ HandOff(w) \/ DropSlot(w)
    BY <2>5, WakeKept
       DEF CheckStop, Observe, PopOwn, StealInjector, StealVictim, Steal, NothingFound, Land,
           HandOff, DropSlot, flags
  <2> QED
    BY <1>4, <2>1, <2>2, <2>3, <2>4, <2>5 DEF WaitStep
<1>5. CASE Cancel \/ UNCHANGED vars
  BY <1>5, WakeKept DEF Cancel, vars, flags
<1> QED
  BY <1>1, <1>2, <1>3, <1>4, <1>5 DEF Next, Finished

-----------------------------------------------------------------------------
(* Queued work: what a preparing waiter missed is still to be announced.   *)

\* A caller that is alone shares the walk with nobody who could be waiting.
LEMMA NobodyWaitsAlone ==
  ASSUME Shape, lone
  PROVE  \A v \in Worker : pc[v] \notin ProbeLabels \cup {"park"}
  BY DEF Shape, AloneInv, AloneLabels, ProbeLabels

\* A step that shows nobody a new task, lets no worker probe further and
\* drops no announcement keeps ProbeInv.
LEMMA ProbeKept ==
  ASSUME Shape, ProbeInv, UNCHANGED <<epoch, observed>>,
         \A v \in Worker : pc'[v] \in ProbeLabels => pc'[v] = pc[v] /\ victims'[v] = victims[v],
         \A v \in Worker : pc[v] \in {"announce", "landed"} => pc'[v] = pc[v],
         \A t \in Task : place'[t] \in {"injector", "own"} =>
                           place'[t] = place[t] /\ owner'[t] = owner[t]
  PROVE  ProbeInv'
<1>1. ASSUME NEW t \in Task, Owed(t), place'[t] \in {"injector", "own"} PROVE Owed(t)'
  BY <1>1, WorkerAssumption DEF Owed, Shape, OwnerInv, CountInv, TypeOK
<1>2. ASSUME NEW v \in Worker, pc'[v] \in ProbeLabels, epoch' = observed'[v],
             NEW t \in Task, Probed(v, t)'
      PROVE  Owed(t)'
  <2>1. place'[t] \in {"injector", "own"}
    BY <1>2 DEF Probed
  <2>2. Probed(v, t)
    BY <1>2, <2>1 DEF Probed
  <2> QED
    BY <1>1, <1>2, <2>1, <2>2 DEF ProbeInv
<1> QED
  BY <1>2 DEF ProbeInv

LEMMA ProbeNext == Shape /\ ProbeInv /\ [Next]_vars => ProbeInv'
<1> SUFFICES ASSUME Shape, ProbeInv, [Next]_vars PROVE ProbeInv'
  OBVIOUS
<1> USE WorkerAssumption DEF Goto
<1>0. TypeOK /\ OwnerInv /\ AloneInv /\ ReturnInv
  BY DEF Shape, CountInv
<1>1. CASE AloneStep
  <2>1. lone /\ UNCHANGED <<epoch, observed>>
    BY <1>0, <1>1 DEF AloneStep, BeginRoot, RootsStopped, RootsDone, Widen, DrainTake, DrainEmpty,
                      AloneInv, wakeState, scan
  <2>2. \A v \in Worker : pc'[v] \notin ProbeLabels
    BY <1>0, <1>1, <2>1, NobodyWaitsAlone
       DEF AloneStep, BeginRoot, RootsStopped, RootsDone, Widen, DrainTake, DrainEmpty,
           TypeOK, ProbeLabels
  <2> QED
    BY <2>1, <2>2 DEF ProbeInv
<1>2. ASSUME NEW w \in Worker, Grow(w) \/ TimeOut(w) PROVE ProbeInv'
  BY <1>0, <1>2, ProbeKept
     DEF Grow, GrownOnce, StartHelper, TimeOut, wakeState, scan, tasks, TypeOK, ProbeLabels
<1>3. ASSUME NEW w \in Worker, WorkStep(w) PROVE ProbeInv'
  <2>1. ASSUME NEW t \in Task, BeginTask(w, t) \/ FinishTask(w, t) PROVE ProbeInv'
    BY <1>0, <2>1, ProbeKept
       DEF BeginTask, FinishTask, AfterRelease, Loop, wakeState, scan, TypeOK, ProbeLabels
  <2>2. ASSUME NEW t \in Task, Publish(w, t) PROVE ProbeInv'
    <3>1. UNCHANGED <<epoch, observed, victims>>
      BY <2>2 DEF Publish, wakeState, scan
    <3>2. CASE lone
      <4>1. \A v \in Worker : pc'[v] \notin ProbeLabels
        BY <1>0, <2>2, <3>2, NobodyWaitsAlone DEF Publish, TypeOK, ProbeLabels
      <4> QED
        BY <3>1, <4>1 DEF ProbeInv
    <3>3. CASE ~lone
      <4>1. pc'[w] = "announce"
        BY <1>0, <2>2, <3>3 DEF Publish, TypeOK
      <4> QED
        BY <3>1, <4>1 DEF ProbeInv, Owed
    <3> QED
      BY <3>2, <3>3
  \* The epoch moves past what every waiter observed.
  <2>3. CASE Announce(w)
    <3>1. \A v \in Worker : observed'[v] < epoch'
      BY <1>0, <2>3 DEF Announce, ProbeInv, TypeOK, scan
    <3> QED
      BY <1>0, <2>3, <3>1 DEF Announce, ProbeInv, TypeOK, scan
  <2>4. CASE NotifyOne(w)
    BY <1>0, <2>4, ProbeKept DEF NotifyOne, wakeState, scan, tasks, TypeOK, ProbeLabels, ReturnInv
  <2>5. CASE NotifyAll(w)
    BY <1>0, <2>5, ProbeKept DEF NotifyAll, wakeState, scan, tasks, TypeOK, ProbeLabels, ReturnInv
  <2>6. CASE BeginWork(w) \/ EndWork(w) \/ Stop(w) \/ RecordPanic(w)
    BY <1>0, <2>6, ProbeKept
       DEF BeginWork, EndWork, Stop, RecordPanic, wakeState, scan, tasks, TypeOK, ProbeLabels
  <2> QED
    BY <1>3, <2>1, <2>2, <2>3, <2>4, <2>5, <2>6 DEF WorkStep
<1>4. ASSUME NEW w \in Worker, WaitStep(w) PROVE ProbeInv'
  <2>0. \A v \in Worker : observed[v] <= epoch
    BY DEF ProbeInv
  \* What a step of w's own scan adds to Probed(w, t) is what w found empty.
  <2>1. ASSUME UNCHANGED <<epoch, observed, tasks>>, pc[w] \in ProbeLabels,
               pc'[w] \in ProbeLabels, \A v \in Worker \ {w} : victims'[v] = victims[v],
               Goto(w, pc'[w]),
               \A t \in Task : Probed(w, t)' => Probed(w, t)
        PROVE  ProbeInv'
    <3>1. \A t \in Task : Owed(t) => Owed(t)'
      BY <1>0, <2>1 DEF Owed, OwnerInv, TypeOK, tasks, ProbeLabels
    <3>2. \A v \in Worker \ {w} : pc'[v] = pc[v]
      BY <1>0, <2>1 DEF TypeOK
    <3>3. \A v \in Worker \ {w} : \A t \in Task : Probed(v, t)' => Probed(v, t)
      BY <2>1, <3>2 DEF Probed, tasks
    <3>4. \A v \in Worker : pc'[v] \in ProbeLabels => pc[v] \in ProbeLabels
      BY <2>1, <3>2
    <3> QED
      BY <2>1, <3>1, <3>3, <3>4 DEF ProbeInv
  <2>2. CASE Observe(w)
    <3>1. \A t \in Task : ~Probed(w, t)'
      BY <1>0, <2>2 DEF Observe, Probed, TypeOK
    <3>2. \A t \in Task : Owed(t) => Owed(t)'
      BY <1>0, <2>2 DEF Observe, Owed, OwnerInv, TypeOK, tasks
    <3>3. \A v \in Worker \ {w} : /\ pc'[v] = pc[v] /\ observed'[v] = observed[v]
                                  /\ \A t \in Task : Probed(v, t)' => Probed(v, t)
      BY <1>0, <2>2 DEF Observe, Probed, TypeOK, tasks
    <3> QED
      BY <1>0, <2>2, <3>1, <3>2, <3>3 DEF Observe, ProbeInv, wakeState, TypeOK
  <2>3. CASE PopOwn(w)
    <3>1. ASSUME NEW t \in Own(w), Hold(w, t), Goto(w, "run") PROVE ProbeInv'
      BY <1>0, <2>3, <3>1, ProbeKept DEF PopOwn, Hold, Own, wakeState, scan, TypeOK, ProbeLabels
    <3>2. CASE Own(w) = {} /\ Goto(w, "inject") /\ UNCHANGED tasks
      <4>1. \A t \in Task : Probed(w, t)' => Probed(w, t)
        BY <1>0, <2>3, <3>2 DEF PopOwn, Own, Probed, TypeOK, tasks
      <4> QED
        BY <1>0, <2>3, <3>2, <4>1, <2>1 DEF PopOwn, wakeState, scan, TypeOK, ProbeLabels
    <3> QED
      BY <2>3, <3>1, <3>2 DEF PopOwn
  <2>4. ASSUME NEW source, Steal(w, source), pc[w] \in {"inject", "scan"},
               UNCHANGED <<epoch, observed, victims>>
        PROVE  ProbeInv'
    BY <1>0, <2>4, ProbeKept DEF Steal, Batch, TypeOK, ProbeLabels
  <2>5. CASE StealInjector(w)
    <3>1. CASE Injector = {} /\ Goto(w, "scan") /\ UNCHANGED tasks
               /\ victims' = [victims EXCEPT ![w] = Worker \ {w}]
      <4>1. \A t \in Task : Probed(w, t)' => Probed(w, t)
        BY <1>0, <2>5, <3>1 DEF StealInjector, Injector, Probed, TypeOK, OwnerInv, tasks
      <4> QED
        BY <1>0, <2>5, <3>1, <4>1, <2>1 DEF StealInjector, wakeState, TypeOK, ProbeLabels
    <3> QED
      BY <2>4, <2>5, <3>1 DEF StealInjector, wakeState
  <2>6. CASE StealVictim(w)
    <3>1. ASSUME NEW v \in Worker, Own(v) = {}, UNCHANGED <<pc, tasks>>,
                 victims' = [victims EXCEPT ![w] = @ \ {v}]
          PROVE  ProbeInv'
      <4>1. \A t \in Task : Probed(w, t)' => Probed(w, t)
        BY <1>0, <2>6, <3>1 DEF StealVictim, Own, Probed, TypeOK, tasks
      <4> QED
        BY <1>0, <2>6, <3>1, <4>1, <2>1 DEF StealVictim, wakeState, TypeOK, ProbeLabels
    <3> QED
      BY <1>0, <2>4, <2>6, <3>1 DEF StealVictim, wakeState, TypeOK
  <2>7. CASE NothingFound(w)
    <3>1. \A t \in Task : Probed(w, t)' => Probed(w, t)
      BY <1>0, <2>7 DEF NothingFound, Probed, TypeOK, tasks
    <3> QED
      BY <1>0, <2>7, <3>1, <2>1 DEF NothingFound, wakeState, scan, TypeOK, ProbeLabels
  <2>8. CASE /\ \/ Lock(w) /\ pc[w] = "lock"
                \/ RecheckPending(w) /\ pc'[w] = "recheckStop"
                \/ RecheckStop(w) /\ pc'[w] = "register"
    <3>1. \A t \in Task : Probed(w, t)' => Probed(w, t)
      BY <1>0, <2>8 DEF Lock, RecheckPending, RecheckStop, Probed, TypeOK, tasks
    <3> QED
      BY <1>0, <2>8, <3>1, <2>1
         DEF Lock, RecheckPending, RecheckStop, wakeState, scan, TypeOK, ProbeLabels
  \* What lands is owed by the thief until its HandOff, which announces it.
  <2>9. CASE Land(w)
    <3>1. \A t \in Task : Owed(t) => Owed(t)'
      BY <1>0, <2>9 DEF Land, Moving, Owed, TypeOK
    <3>2. \A t \in Task : t \in Moving(w) => Owed(t)'
      BY <1>0, <2>9 DEF Land, Moving, Owed, TypeOK
    <3>3. \A v \in Worker : pc'[v] \in ProbeLabels => v # w /\ pc'[v] = pc[v]
      BY <1>0, <2>9 DEF Land, TypeOK, ProbeLabels
    <3>4. ASSUME NEW v \in Worker, pc'[v] \in ProbeLabels,
                 NEW t \in Task, t \notin Moving(w), Probed(v, t)'
          PROVE  Probed(v, t)
      BY <1>0, <2>9, <3>3, <3>4 DEF Land, Moving, Probed, TypeOK, scan
    <3> QED
      BY <1>0, <2>9, <3>1, <3>2, <3>3, <3>4 DEF Land, ProbeInv, wakeState, scan
  <2>10. CASE HandOff(w)
    <3>1. \A t \in Task : Owed(t) => Owed(t)'
      BY <1>0, <2>10 DEF HandOff, Leftover, Own, Owed, TypeOK, OwnerInv, tasks
    <3>2. \A v \in Worker : pc'[v] \in ProbeLabels => v # w /\ pc'[v] = pc[v]
      BY <1>0, <2>10 DEF HandOff, TypeOK, ProbeLabels
    <3>3. ASSUME NEW v \in Worker, pc'[v] \in ProbeLabels, NEW t \in Task, Probed(v, t)'
          PROVE  Probed(v, t)
      BY <1>0, <2>10, <3>2, <3>3 DEF HandOff, Probed, tasks, scan
    <3> QED
      BY <1>0, <2>10, <3>1, <3>2, <3>3 DEF HandOff, ProbeInv, wakeState, scan
  <2>11. CASE \/ CheckStop(w) \/ Register(w) \/ Park(w) \/ Unregister(w) \/ DropSlot(w)
              \/ Lock(w) /\ pc[w] = "woken"
              \/ RecheckPending(w) /\ pc'[w] = "leave"
              \/ RecheckStop(w) /\ pc'[w] = "leave"
    BY <1>0, <2>11, ProbeKept
       DEF CheckStop, Register, Park, Unregister, DropSlot, Lock, RecheckPending, RecheckStop,
           wakeState, scan, tasks, TypeOK, ProbeLabels
  <2>12. Lock(w) => pc[w] \in {"lock", "woken"}
    BY DEF Lock
  <2>13. RecheckPending(w) => pc'[w] \in {"recheckStop", "leave"}
    BY <1>0 DEF RecheckPending, TypeOK
  <2>14. RecheckStop(w) => pc'[w] \in {"register", "leave"}
    BY <1>0 DEF RecheckStop, TypeOK
  <2> QED
    BY <1>4, <2>2, <2>3, <2>5, <2>6, <2>7, <2>8, <2>9, <2>10, <2>11, <2>12, <2>13, <2>14
       DEF WaitStep
<1>5. CASE Cancel \/ UNCHANGED vars
  BY <1>5, ProbeKept DEF Cancel, vars, wakeState, scan, tasks
<1> QED
  BY <1>1, <1>2, <1>3, <1>4, <1>5 DEF Next, Finished

\* A step that lets nobody reach the condvar's door, shows nobody a new task and
\* completes no announcement keeps ParkInv.
LEMMA ParkKept ==
  ASSUME Shape, ParkInv,
         \A v \in Worker : pc'[v] = "park" => pc[v] = "park",
         \A v \in Worker : pc[v] \in {"announce", "notify", "landed"} => pc'[v] = pc[v],
         \A t \in Task : place'[t] \in {"injector", "own"} =>
                           place'[t] = place[t] /\ owner'[t] = owner[t]
  PROVE  ParkInv'
<1> SUFFICES ASSUME NEW w \in Worker, NEW t \in Queued', pc'[w] = "park"
             PROVE  (Owed(t) \/ \E v \in Worker : pc[v] = "notify")'
  BY DEF ParkInv
<1>1. t \in Queued /\ place'[t] = place[t] /\ owner'[t] = owner[t]
  BY DEF Queued
<1>2. Owed(t) \/ \E v \in Worker : pc[v] = "notify"
  BY <1>1 DEF ParkInv
<1>3. place[t] = "own" => owner[t] \in Worker
  BY <1>1 DEF Queued, Shape, OwnerInv, CountInv, TypeOK
<1> QED
  BY <1>1, <1>2, <1>3 DEF Owed

LEMMA ParkNext == Shape /\ ProbeInv /\ ParkInv /\ [Next]_vars => ParkInv'
<1> SUFFICES ASSUME Shape, ProbeInv, ParkInv, [Next]_vars PROVE ParkInv'
  OBVIOUS
<1> USE WorkerAssumption DEF Goto
<1>0. TypeOK /\ OwnerInv /\ AloneInv /\ ReturnInv /\ LockInv
  BY DEF Shape, CountInv
<1>1. CASE AloneStep
  <2>1. lone
    BY <1>0, <1>1 DEF AloneStep, BeginRoot, RootsStopped, RootsDone, Widen, DrainTake, DrainEmpty,
                      AloneInv
  <2>2. \A v \in Worker : pc'[v] # "park"
    BY <1>0, <1>1, <2>1, NobodyWaitsAlone
       DEF AloneStep, BeginRoot, RootsStopped, RootsDone, Widen, DrainTake, DrainEmpty, TypeOK
  <2> QED
    BY <2>2 DEF ParkInv
<1>2. ASSUME NEW w \in Worker, Grow(w) \/ TimeOut(w) PROVE ParkInv'
  BY <1>0, <1>2, ParkKept DEF Grow, GrownOnce, StartHelper, TimeOut, tasks, TypeOK
<1>3. ASSUME NEW w \in Worker, WorkStep(w) PROVE ParkInv'
  <2>1. ASSUME NEW t \in Task, BeginTask(w, t) \/ FinishTask(w, t) PROVE ParkInv'
    BY <1>0, <2>1, ParkKept DEF BeginTask, FinishTask, AfterRelease, Loop, TypeOK
  <2>2. ASSUME NEW t \in Task, Publish(w, t) PROVE ParkInv'
    <3>1. CASE lone
      <4>1. \A v \in Worker : pc'[v] # "park"
        BY <1>0, <2>2, <3>1, NobodyWaitsAlone DEF Publish, TypeOK
      <4> QED
        BY <4>1 DEF ParkInv
    <3>2. CASE ~lone
      <4>1. pc'[w] = "announce"
        BY <1>0, <2>2, <3>2 DEF Publish, TypeOK
      <4> QED
        BY <4>1 DEF ParkInv, Owed
    <3> QED
      BY <3>1, <3>2
  \* A registered sleeper is seen by the announcement, which goes on to notify.
  <2>3. CASE Announce(w)
    <3>1. ASSUME NEW u \in Worker, pc'[u] = "park" PROVE pc'[w] = "notify"
      <4>1. pc[u] = "park"
        BY <1>0, <2>3, <3>1 DEF Announce, TypeOK, ReturnInv
      <4>2. u \in Registered
        BY <4>1 DEF Registered
      <4>3. sleepers # 0
        BY <1>0, <4>2, CountedSetsFinite, FS_EmptySet DEF Shape, CountInv, CountersTrue
      <4> QED
        BY <1>0, <2>3, <4>3 DEF Announce, TypeOK
    <3> QED
      BY <3>1 DEF ParkInv
  \* The lock is free, so nobody is at the condvar's door.
  <2>4. CASE NotifyOne(w) \/ NotifyAll(w)
    <3>1. \A v \in Worker : pc[v] # "park"
      BY <1>0, <2>4 DEF NotifyOne, NotifyAll, LockInv, LockLabels
    <3>2. \A v \in Worker : pc'[v] # "park"
      BY <1>0, <2>4, <3>1 DEF NotifyOne, NotifyAll, TypeOK, ReturnLabel
    <3> QED
      BY <3>2 DEF ParkInv
  <2>5. CASE BeginWork(w) \/ EndWork(w) \/ Stop(w) \/ RecordPanic(w)
    BY <1>0, <2>5, ParkKept DEF BeginWork, EndWork, Stop, RecordPanic, tasks, TypeOK
  <2> QED
    BY <1>3, <2>1, <2>2, <2>3, <2>4, <2>5 DEF WorkStep
<1>4. ASSUME NEW w \in Worker, WaitStep(w) PROVE ParkInv'
  \* The epoch is still the one w observed, so whatever w missed is owed.
  <2>1. CASE Register(w)
    <3>1. CASE epoch = observed[w]
      <4>1. \A t \in Queued : Probed(w, t)
        BY <2>1 DEF Register, Queued, Probed
      <4>2. \A t \in Queued : Owed(t)
        BY <2>1, <3>1, <4>1 DEF Register, ProbeInv, ProbeLabels, Queued
      <4>3. \A t \in Queued : Owed(t)'
        BY <1>0, <2>1, <4>2 DEF Register, Owed, Queued, OwnerInv, TypeOK, tasks
      <4>4. Queued' = Queued
        BY <2>1 DEF Register, Queued, tasks
      <4> QED
        BY <4>3, <4>4 DEF ParkInv
    <3>2. CASE epoch # observed[w]
      BY <1>0, <2>1, <3>2, ParkKept DEF Register, EpochUnchanged, tasks, TypeOK
    <3> QED
      BY <3>1, <3>2
  <2>2. ASSUME NEW source, Steal(w, source), pc[w] \in {"inject", "scan"} PROVE ParkInv'
    BY <1>0, <2>2, ParkKept DEF Steal, Batch, TypeOK
  <2>3. CASE PopOwn(w)
    BY <1>0, <2>3, ParkKept DEF PopOwn, Hold, tasks, TypeOK
  <2>4. CASE StealInjector(w)
    BY <1>0, <2>2, <2>4, ParkKept DEF StealInjector, tasks, TypeOK
  <2>5. CASE StealVictim(w)
    BY <1>0, <2>2, <2>5, ParkKept DEF StealVictim, tasks, TypeOK
  \* w holds no lock, so what another worker at the door was owed stays owed.
  <2>6. CASE Land(w)
    <3>1. \A t \in Task : Owed(t) => Owed(t)'
      BY <1>0, <2>6 DEF Land, Moving, Owed, TypeOK
    <3>2. \A t \in Queued' : t \in Queued \/ Owed(t)'
      BY <1>0, <2>6 DEF Land, Moving, Queued, Owed, TypeOK
    <3>3. \A v \in Worker : v # w => pc'[v] = pc[v]
      BY <1>0, <2>6 DEF Land, TypeOK
    <3>4. pc[w] = "land" /\ pc'[w] = "landed"
      BY <1>0, <2>6 DEF Land, TypeOK
    <3> QED
      BY <3>1, <3>2, <3>3, <3>4 DEF ParkInv, Queued
  <2>7. CASE HandOff(w)
    <3>1. \A t \in Task : Owed(t) => Owed(t)'
      BY <1>0, <2>7 DEF HandOff, Leftover, Own, Owed, TypeOK, OwnerInv, tasks
    <3>2. Queued' = Queued
      BY <2>7 DEF HandOff, Queued, tasks
    <3>3. \A v \in Worker : v # w => pc'[v] = pc[v]
      BY <1>0, <2>7 DEF HandOff, TypeOK
    <3>4. pc[w] = "landed" /\ pc'[w] \in {"announce", "run"}
      BY <1>0, <2>7 DEF HandOff, TypeOK
    <3> QED
      BY <3>1, <3>2, <3>3, <3>4 DEF ParkInv, Queued
  <2>8. CASE \/ CheckStop(w) \/ Observe(w) \/ NothingFound(w) \/ Lock(w) \/ RecheckPending(w)
             \/ RecheckStop(w) \/ Park(w) \/ Unregister(w) \/ DropSlot(w)
    BY <1>0, <2>8, ParkKept
       DEF CheckStop, Observe, NothingFound, Lock, RecheckPending, RecheckStop, Park, Unregister,
           DropSlot, tasks, TypeOK
  <2> QED
    BY <1>4, <2>1, <2>3, <2>4, <2>5, <2>6, <2>7, <2>8 DEF WaitStep
<1>5. CASE Cancel \/ UNCHANGED vars
  BY <1>5, ParkKept DEF Cancel, vars, tasks
<1> QED
  BY <1>1, <1>2, <1>3, <1>4, <1>5 DEF Next, Finished

-----------------------------------------------------------------------------
(* No stranded work: a worker only sleeps or leaves when it may.           *)

\* A worker that is awake after the step is the witness for every task.
LEMMA AwakeAfter ==
  ASSUME NEW w \in Worker, pc'[w] \notin {"unborn", "parked", "leave", "left"}
  PROVE  AwakeInv'
  BY DEF AwakeInv

LEMMA DrainedIsEmpty ==
  ASSUME Shape, pending = 0
  PROVE  Queued = {}
<1>1. Outstanding = {}
  BY CountedSetsFinite, FS_EmptySet DEF Shape, CountInv, CountersTrue
<1> QED
  BY <1>1 DEF Outstanding, Queued

LEMMA AwakeNext == Shape /\ ParkInv /\ AwakeInv /\ [Next]_vars => AwakeInv'
<1> SUFFICES ASSUME Shape, ParkInv, AwakeInv, [Next]_vars PROVE AwakeInv'
  OBVIOUS
<1> USE WorkerAssumption DEF Goto
<1>0. TypeOK /\ OwnerInv /\ AloneInv /\ ReturnInv
  BY DEF Shape, CountInv
<1>1. CASE AloneStep
  <2>1. ASSUME NEW t \in Task, BeginRoot(t) \/ DrainTake(t) PROVE AwakeInv'
    BY <1>0, <2>1, AwakeAfter DEF BeginRoot, DrainTake, TypeOK
  <2>2. CASE RootsDone \/ Widen
    BY <1>0, <2>2, AwakeAfter DEF RootsDone, Widen, TypeOK
  <2>3. CASE RootsStopped
    BY <2>3 DEF RootsStopped, AwakeInv, Stopping, flags
  \* The queues of a caller that is alone are all the queues there are.
  <2>4. CASE DrainEmpty
    <3>1. Queued = {}
      BY <1>0, <2>4 DEF DrainEmpty, AloneInv, Queued, Own, Injector
    <3>2. Queued' = Queued
      BY <2>4 DEF DrainEmpty, Queued, tasks
    <3> QED
      BY <3>1, <3>2 DEF AwakeInv
  <2> QED
    BY <1>1, <2>1, <2>2, <2>3, <2>4 DEF AloneStep
<1>2. ASSUME NEW w \in Worker, Grow(w) \/ TimeOut(w) PROVE AwakeInv'
  BY <1>0, <1>2, AwakeAfter DEF Grow, GrownOnce, StartHelper, TimeOut, TypeOK
<1>3. ASSUME NEW w \in Worker, WorkStep(w) PROVE AwakeInv'
  <2>1. ASSUME NEW t \in Task, BeginTask(w, t) \/ Publish(w, t) PROVE AwakeInv'
    BY <1>0, <2>1, AwakeAfter DEF BeginTask, Publish, TypeOK
  <2>2. ASSUME NEW t \in Task, FinishTask(w, t) PROVE AwakeInv'
    <3>1. CASE pc[w] = "abandon"
      BY <1>0, <2>2, <3>1 DEF FinishTask, AloneInv, AwakeInv, Stopping, flags
    <3>2. CASE pc[w] # "abandon"
      BY <1>0, <2>2, <3>2, AwakeAfter DEF FinishTask, AfterRelease, Loop, TypeOK
    <3> QED
      BY <3>1, <3>2
  <2>3. CASE BeginWork(w) \/ EndWork(w) \/ Stop(w)
    BY <1>0, <2>3, AwakeAfter DEF BeginWork, EndWork, Stop, TypeOK
  <2>4. CASE Announce(w) \/ NotifyOne(w)
    BY <1>0, <2>4, AwakeAfter DEF Announce, NotifyOne, ReturnInv, TypeOK
  <2>5. CASE NotifyAll(w)
    <3>1. CASE ret[w] = "leave"
      BY <1>0, <2>5, <3>1 DEF NotifyAll, ReturnInv, AwakeInv, Stopping, flags
    <3>2. CASE ret[w] # "leave"
      BY <1>0, <2>5, <3>2, AwakeAfter DEF NotifyAll, ReturnInv, TypeOK
    <3> QED
      BY <3>1, <3>2
  <2>6. CASE RecordPanic(w)
    BY <2>6 DEF RecordPanic, AwakeInv, Stopping
  <2> QED
    BY <1>3, <2>1, <2>2, <2>3, <2>4, <2>5, <2>6 DEF WorkStep
<1>4. ASSUME NEW w \in Worker, WaitStep(w) PROVE AwakeInv'
  <2>1. CASE CheckStop(w) \/ RecheckStop(w)
    <3>1. CASE Stopping
      BY <2>1, <3>1 DEF CheckStop, RecheckStop, AwakeInv, Stopping, flags
    <3>2. CASE ~Stopping
      BY <1>0, <2>1, <3>2, AwakeAfter DEF CheckStop, RecheckStop, TypeOK
    <3> QED
      BY <3>1, <3>2
  <2>2. CASE RecheckPending(w)
    <3>1. CASE pending = 0
      <4>1. Queued' = Queued
        BY <2>2 DEF RecheckPending, Queued, tasks
      <4> QED
        BY <3>1, <4>1, DrainedIsEmpty DEF AwakeInv
    <3>2. CASE pending # 0
      BY <1>0, <2>2, <3>2, AwakeAfter DEF RecheckPending, Drained, TypeOK
    <3> QED
      BY <3>1, <3>2
  \* Somebody else owes the announcement, or is sending it.
  <2>3. CASE Park(w)
    <3> SUFFICES ASSUME NEW t \in Queued'
                 PROVE  \E v \in Worker : pc'[v] \notin {"unborn", "parked", "leave", "left"}
      BY DEF AwakeInv
    <3>1. t \in Queued /\ pc[w] = "park"
      BY <2>3 DEF Park, Queued, tasks
    <3>2. PICK v \in Worker : pc[v] \in {"announce", "landed", "notify"}
      <4>1. Owed(t) \/ \E v \in Worker : pc[v] = "notify"
        BY <3>1 DEF ParkInv
      <4>2. place[t] = "own" => owner[t] \in Worker
        BY <1>0, <3>1 DEF Queued, OwnerInv, TypeOK
      <4> QED
        BY <4>1, <4>2 DEF Owed
    <3>3. pc'[v] = pc[v]
      BY <1>0, <2>3, <3>1, <3>2 DEF Park, TypeOK
    <3> QED
      BY <3>2, <3>3
  <2>4. CASE DropSlot(w)
    <3>1. Queued' = Queued /\ pc[w] = "leave"
      BY <2>4 DEF DropSlot, Queued, tasks
    <3>2. \A v \in Worker : v # w => pc'[v] = pc[v]
      BY <1>0, <2>4 DEF DropSlot, TypeOK
    <3>3. Stopping' = Stopping
      BY <2>4 DEF DropSlot, Stopping, flags
    <3> QED
      BY <3>1, <3>2, <3>3 DEF AwakeInv
  <2>5. CASE \/ Observe(w) \/ PopOwn(w) \/ StealInjector(w) \/ StealVictim(w) \/ NothingFound(w)
             \/ Land(w) \/ HandOff(w) \/ Lock(w) \/ Register(w) \/ Unregister(w)
    BY <1>0, <2>5, AwakeAfter
       DEF Observe, PopOwn, StealInjector, StealVictim, Steal, NothingFound, Land, HandOff, Lock,
           Register, Unregister, TypeOK
  <2> QED
    BY <1>4, <2>1, <2>2, <2>3, <2>4, <2>5 DEF WaitStep
<1>5. CASE Cancel
  BY <1>5 DEF Cancel, AwakeInv, Stopping
<1>6. CASE UNCHANGED vars
  BY <1>6 DEF AwakeInv, Stopping, Queued, vars, flags, tasks
<1> QED
  BY <1>1, <1>2, <1>3, <1>4, <1>5, <1>6 DEF Next, Finished

-----------------------------------------------------------------------------
(* The inductive invariant and what follows from it.                       *)

LEMMA InvInit == Init => IInv
<1> SUFFICES ASSUME Init PROVE IInv
  OBVIOUS
<1> USE WorkerAssumption DEF Init
<1>1. Shape
  BY CountInit, ShapeInit
<1>2. Queued = {}
  BY DEF Queued
<1>3. ProbeInv /\ ParkInv /\ AwakeInv /\ WakeInv
  BY <1>2 DEF ProbeInv, ProbeLabels, ParkInv, AwakeInv, WakeInv
<1> QED
  BY <1>1, <1>3 DEF IInv

LEMMA InvNext == IInv /\ [Next]_vars => IInv'
  BY ShapeNext, ProbeNext, ParkNext, AwakeNext, WakeNext DEF IInv

\* The inductive invariant holds in every state of every walk.
THEOREM Invariance == Spec => []IInv
<1>1. Init => IInv
  BY InvInit
<1>2. IInv /\ [Next]_vars => IInv'
  BY InvNext
<1> QED
  BY <1>1, <1>2, PTL DEF Spec

\* wait_for_task, announce_one: no worker enters the condvar while queued work
\* has no announcement to come, however many workers and tasks there are.
THEOREM NoLostWakeup == Spec => []NoSleepThroughWork
<1>1. IInv => NoSleepThroughWork
  <2> SUFFICES ASSUME IInv, NEW w \in Worker, pc[w] = "park", NEW t \in Queued
               PROVE  \E v \in Worker : \/ pc[v] \in {"announce", "notify"}
                                        \/ pc[v] = "landed" /\ Own(v) # {}
    BY DEF NoSleepThroughWork
  <2>1. Owed(t) \/ \E v \in Worker : pc[v] = "notify"
    BY DEF IInv, ParkInv
  <2>2. ASSUME place[t] = "own", pc[owner[t]] = "landed"
        PROVE  owner[t] \in Worker /\ t \in Own(owner[t])
    BY <2>2 DEF IInv, Shape, CountInv, TypeOK, OwnerInv, Own, Queued
  <2> QED
    BY <2>1, <2>2 DEF Owed
<1> QED
  BY <1>1, Invariance, PTL

\* schedule, try_take, wait_for_task: queued work of a walk nobody stopped always
\* has a worker that is awake.
THEOREM WorkNotStranded == Spec => []NoStrandedTask
<1>1. IInv => NoStrandedTask
  BY DEF IInv, AwakeInv, NoStrandedTask
<1> QED
  BY <1>1, Invariance, PTL

\* finish_task, stop: nobody sleeps past the end of the walk with no
\* notification on its way.
THEOREM NobodyLeftBehind == Spec => []NotLeftBehind
<1>1. IInv => NotLeftBehind
  BY DEF IInv, WakeInv, NotLeftBehind
<1> QED
  BY <1>1, Invariance, PTL

-----------------------------------------------------------------------------
(* Coordinator implements TaskPool: every step of the protocol is a step   *)
(* of the abstract pool or changes nothing it can see.  Two more           *)
(* invariants are needed for it: who has a task in hands, and what a       *)
(* worker that leaves knows.                                               *)

\* Inside a directory, from taking the task to releasing it.
Inside(w) ==
  \/ pc[w] \in {"run", "work", "publish", "release", "abandon", "unwind", "land", "landed"}
  \/ pc[w] \in {"announce", "notify", "notifyAll"} /\ ret[w] \in {"work", "run"}

\* A worker inside a directory has one task in hands, and nobody else has one;
\* a task on its way into a queue belongs to the step that puts it there.
HeldInv == \A t \in Task : place[t] = "held" => Inside(owner[t])
TransitInv ==
  \A t \in Task : /\ place[t] = "fresh" => pc[owner[t]] = "publish"
                  /\ place[t] = "moving" => pc[owner[t]] = "land"
InsideInv == \A w \in Worker : Inside(w) => \E t \in Task : place[t] = "held" /\ owner[t] = w
OnceInv ==
  \A s, t \in Task :
    place[s] \in {"held", "fresh"} /\ place[t] = place[s] /\ owner[t] = owner[s] => s = t
HandsInv == HeldInv /\ TransitInv /\ InsideInv /\ OnceInv

\* Behind flush_into every root has been begun, and a worker leaves because
\* the walk stops or because nothing is left behind it.
FlushedInv ==
  /\ flushed => \A t \in Roots : place[t] # "unborn"
  /\ ~lone \/ pc[Caller] = "drain" => flushed
  /\ \A w \in Worker : pc[w] = "notifyAll" /\ ret[w] = "drain" => flushed
LeaveInv == \A w \in Worker : pc[w] = "leave" => Stopping \/ (pending = 0 /\ flushed)

RefineInv == HandsInv /\ FlushedInv /\ LeaveInv
-----------------------------------------------------------------------------
(* Who has a task in hands.                                                *)

\* Before the first root nobody has anything in hands.
LEMMA HandsInit == Init => HandsInv
  BY DEF Init, HandsInv, HeldInv, TransitInv, InsideInv, OnceInv, Inside

\* Whoever owns a task that is in hands or in transit is a worker.
LEMMA OwnedByWorker ==
  ASSUME TypeOK, OwnerInv, NEW t \in Task, place[t] \notin {"unborn", "injector", "done"}
  PROVE  owner[t] \in Worker
  BY DEF TypeOK, OwnerInv

\* A step that moves no task, takes nobody into or out of a directory, and
\* leaves those alone that are putting a task into a queue.
LEMMA HandsKept ==
  ASSUME TypeOK, OwnerInv, HandsInv, UNCHANGED tasks,
         \A v \in Worker : /\ Inside(v)' <=> Inside(v)
                           /\ pc[v] \in {"publish", "land"} => pc'[v] = pc[v]
  PROVE  HandsInv'
<1> USE OwnedByWorker DEF HandsInv, tasks
<1>1. HeldInv' /\ TransitInv'
  BY DEF HeldInv, TransitInv
<1>2. InsideInv' /\ OnceInv'
  BY DEF InsideInv, OnceInv
<1> QED
  BY <1>1, <1>2

\* A worker outside every directory that takes a queued task.
LEMMA HandsTake ==
  ASSUME TypeOK, TypeOK', OwnerInv, HandsInv, NEW w \in Worker, ~Inside(w), NEW t \in Task,
         place[t] \in {"unborn", "injector", "own"}, place'[t] = "held", owner'[t] = w,
         \A u \in Task \ {t} :
           \/ place'[u] = place[u] /\ owner'[u] = owner[u]
           \/ place[u] \in {"injector", "own"} /\ place'[u] = "own"
           \/ place[u] \in {"injector", "own"} /\ place'[u] = "moving" /\ owner'[u] = w /\ pc'[w] = "land",
         pc'[w] \in {"run", "land"}, \A v \in Worker \ {w} : pc'[v] = pc[v] /\ ret'[v] = ret[v]
  PROVE  HandsInv'
<1> USE OwnedByWorker DEF HandsInv
<1>1. \A u \in Task : place[u] \in {"held", "fresh", "moving"} => owner[u] # w
  BY DEF HeldInv, TransitInv, Inside
<1>2. \A v \in Worker \ {w} : Inside(v)' <=> Inside(v)
  BY DEF Inside
<1>3. Inside(w)'
  BY DEF Inside
<1>4. HeldInv'
  BY <1>2, <1>3 DEF HeldInv
<1>5. TransitInv'
  BY <1>1 DEF TransitInv
<1>6. InsideInv'
  BY <1>1, <1>2 DEF InsideInv
<1>7. OnceInv'
  BY <1>1 DEF OnceInv
<1> QED
  BY <1>4, <1>5, <1>6, <1>7

\* Every step keeps it: a worker has one task in hands exactly while it is inside
\* a directory, and one that is landing a batch holds the task it took.
LEMMA HandsNext == Shape /\ HandsInv /\ [Next]_vars => HandsInv'
<1> SUFFICES ASSUME Shape, HandsInv, [Next]_vars PROVE HandsInv'
  OBVIOUS
<1>0. TypeOK /\ TypeOK' /\ OwnerInv
  BY CountNext DEF Shape, CountInv
<1> USE <1>0, WorkerAssumption DEF Goto
<1>1. CASE AloneStep
  <2>1. ASSUME NEW t \in Task, BeginRoot(t) \/ DrainTake(t) PROVE HandsInv'
    <3>1. ~Inside(Caller)
      BY <2>1 DEF BeginRoot, DrainTake, Inside
    <3>2. CASE BeginRoot(t)
      BY <3>1, <3>2, HandsTake DEF BeginRoot, Hold, TypeOK
    <3>3. CASE DrainTake(t)
      <4>1. CASE t \in Own(Caller) /\ Hold(Caller, t)
        BY <3>1, <3>3, <4>1, HandsTake DEF DrainTake, Hold, Own, TypeOK
      <4>2. ASSUME NEW rest \in Batch(t, Injector), t \in Injector,
                   place' = [u \in Task |-> IF u = t THEN "held"
                                            ELSE IF u \in rest THEN "own" ELSE place[u]],
                   owner' = [u \in Task |-> IF u \in rest \cup {t} THEN Caller ELSE owner[u]]
            PROVE  HandsInv'
        <5>1. rest \subseteq Injector
          BY <4>2 DEF Batch
        <5> QED
          BY <3>1, <3>3, <4>2, <5>1, HandsTake DEF DrainTake, Injector, TypeOK
      <4> QED
        BY <3>3, <4>1, <4>2 DEF DrainTake
    <3> QED
      BY <2>1, <3>2, <3>3
  <2>2. CASE RootsDone
    BY <2>2, OwnedByWorker
       DEF RootsDone, Own, HandsInv, HeldInv, TransitInv, InsideInv, OnceInv, Inside, TypeOK
  <2>3. CASE RootsStopped \/ Widen \/ DrainEmpty
    BY <2>3, HandsKept DEF RootsStopped, Widen, DrainEmpty, Inside, TypeOK
  <2> QED
    BY <1>1, <2>1, <2>2, <2>3 DEF AloneStep
<1>2. ASSUME NEW w \in Worker, Grow(w) \/ TimeOut(w) PROVE HandsInv'
  BY <1>2, HandsKept DEF Grow, GrownOnce, StartHelper, TimeOut, Inside, TypeOK
<1>3. ASSUME NEW w \in Worker, WorkStep(w) PROVE HandsInv'
  <2>1. ASSUME NEW t \in Task, BeginTask(w, t) PROVE HandsInv'
    BY <2>1, OwnedByWorker
       DEF BeginTask, HandsInv, HeldInv, TransitInv, InsideInv, OnceInv, Inside, TypeOK
  <2>2. ASSUME NEW t \in Task, Publish(w, t) PROVE HandsInv'
    BY <2>2, OwnedByWorker
       DEF Publish, HandsInv, HeldInv, TransitInv, InsideInv, OnceInv, Inside, TypeOK
  <2>3. ASSUME NEW t \in Task, FinishTask(w, t) PROVE HandsInv'
    BY <2>3, OwnedByWorker
       DEF FinishTask, AfterRelease, Loop, HandsInv, HeldInv, TransitInv, InsideInv, OnceInv, Inside, TypeOK
  <2>4. CASE NotifyOne(w)
    BY <2>4, HandsKept DEF NotifyOne, Shape, ReturnInv, Inside, TypeOK
  <2>5. CASE NotifyAll(w)
    BY <2>5, HandsKept DEF NotifyAll, Shape, ReturnInv, Inside, TypeOK
  <2>6. CASE Announce(w)
    BY <2>6, HandsKept DEF Announce, Shape, ReturnInv, Inside, TypeOK
  <2>7. CASE BeginWork(w) \/ EndWork(w)
    BY <2>7, HandsKept DEF BeginWork, EndWork, Inside, TypeOK
  <2>8. CASE Stop(w) \/ RecordPanic(w)
    BY <2>8, HandsKept DEF Stop, RecordPanic, Inside, TypeOK
  <2> QED
    BY <1>3, <2>1, <2>2, <2>3, <2>4, <2>5, <2>6, <2>7, <2>8 DEF WorkStep
<1>4. ASSUME NEW w \in Worker, WaitStep(w) PROVE HandsInv'
  <2>1. CASE PopOwn(w)
    <3>1. CASE UNCHANGED tasks
      BY <2>1, <3>1, HandsKept DEF PopOwn, Hold, Own, Inside, TypeOK, tasks
    <3>2. ASSUME NEW t \in Own(w), Hold(w, t), pc' = [pc EXCEPT ![w] = "run"] PROVE HandsInv'
      BY <2>1, <3>2, HandsTake DEF PopOwn, Hold, Own, Inside, TypeOK
    <3> QED
      BY <2>1, <3>1, <3>2 DEF PopOwn
  <2>2. ASSUME NEW source \in SUBSET Queued, Steal(w, source), pc[w] \in {"inject", "scan"},
               UNCHANGED ret
        PROVE  HandsInv'
    BY <2>2, HandsTake DEF Steal, Batch, Queued, Inside, TypeOK
  <2>3. CASE StealInjector(w)
    <3>1. CASE UNCHANGED tasks /\ Goto(w, "scan")
      BY <2>3, <3>1, HandsKept DEF StealInjector, Inside, TypeOK
    <3> QED
      BY <2>3, <2>2, <3>1 DEF StealInjector, Injector, Queued
  <2>4. CASE StealVictim(w)
    <3>1. CASE UNCHANGED <<pc, tasks>>
      BY <2>4, <3>1, HandsKept DEF StealVictim, Inside
    <3> QED
      BY <2>4, <2>2, <3>1 DEF StealVictim, Own, Queued
  <2>5. CASE Land(w)
    BY <2>5, OwnedByWorker
       DEF Land, Moving, HandsInv, HeldInv, TransitInv, InsideInv, OnceInv, Inside, TypeOK
  <2>6. CASE HandOff(w)
    BY <2>6, HandsKept DEF HandOff, Inside, TypeOK
  <2>7. CASE \/ CheckStop(w) \/ Observe(w) \/ NothingFound(w) \/ Lock(w) \/ RecheckPending(w)
             \/ RecheckStop(w) \/ Register(w) \/ Park(w) \/ Unregister(w) \/ DropSlot(w)
    BY <2>7, HandsKept DEF CheckStop, Observe, NothingFound, Lock, RecheckPending, RecheckStop,
                           Register, Park, Unregister, DropSlot, Inside, TypeOK
  <2> QED
    BY <1>4, <2>1, <2>3, <2>4, <2>5, <2>6, <2>7 DEF WaitStep
<1>5. CASE Cancel \/ UNCHANGED vars
  BY <1>5, HandsKept DEF Cancel, vars, Inside
<1> QED
  BY <1>1, <1>2, <1>3, <1>4, <1>5 DEF Next, Finished

-----------------------------------------------------------------------------
(* What a worker that leaves knows.                                        *)

\* Every step keeps it: helpers, the drain and its notification come only after
\* the last root has been begun.
LEMMA FlushedNext == Shape /\ FlushedInv /\ [Next]_vars => FlushedInv'
<1> SUFFICES ASSUME Shape, FlushedInv, [Next]_vars PROVE FlushedInv'
  OBVIOUS
<1> USE WorkerAssumption, RootAssumption DEF Shape, CountInv, TypeOK, FlushedInv, Goto
<1>1. CASE AloneStep
  <2>1. ASSUME NEW t \in Task, BeginRoot(t) PROVE FlushedInv'
    BY <2>1 DEF BeginRoot, Hold
  <2>2. ASSUME NEW t \in Task, DrainTake(t) PROVE FlushedInv'
    BY <2>2 DEF DrainTake, Hold, Batch
  <2>3. CASE RootsDone
    BY <2>3 DEF RootsDone
  <2>4. CASE RootsStopped \/ Widen \/ DrainEmpty
    BY <2>4 DEF RootsStopped, Widen, DrainEmpty, tasks
  <2> QED
    BY <1>1, <2>1, <2>2, <2>3, <2>4 DEF AloneStep
<1>2. ASSUME NEW w \in Worker, Grow(w) \/ TimeOut(w) PROVE FlushedInv'
  BY <1>2 DEF Grow, GrownOnce, StartHelper, TimeOut, tasks
<1>3. ASSUME NEW w \in Worker, WorkStep(w) PROVE FlushedInv'
  <2>1. ASSUME NEW t \in Task, BeginTask(w, t) \/ Publish(w, t) PROVE FlushedInv'
    BY <2>1 DEF BeginTask, Publish
  <2>2. ASSUME NEW t \in Task, FinishTask(w, t) PROVE FlushedInv'
    <3>1. AfterRelease(w) = "drain" => flushed
      BY DEF AfterRelease, Loop
    <3> QED
      BY <2>2, <3>1 DEF FinishTask
  <2>3. CASE NotifyOne(w) \/ NotifyAll(w) \/ Announce(w)
    BY <2>3 DEF NotifyOne, NotifyAll, Announce, ReturnInv, tasks
  <2>4. CASE BeginWork(w) \/ EndWork(w) \/ Stop(w) \/ RecordPanic(w)
    BY <2>4 DEF BeginWork, EndWork, Stop, RecordPanic, tasks
  <2> QED
    BY <1>3, <2>1, <2>2, <2>3, <2>4 DEF WorkStep
<1>4. ASSUME NEW w \in Worker, WaitStep(w) PROVE FlushedInv'
  <2>1. CASE PopOwn(w)
    BY <2>1 DEF PopOwn, Hold, tasks
  <2>2. ASSUME NEW source, Steal(w, source), UNCHANGED <<ret, lone, flushed>> PROVE FlushedInv'
    BY <2>2 DEF Steal
  <2>3. CASE StealInjector(w) \/ StealVictim(w)
    BY <2>3, <2>2 DEF StealInjector, StealVictim, tasks
  <2>4. CASE Land(w)
    BY <2>4 DEF Land
  <2>5. CASE HandOff(w)
    BY <2>5 DEF HandOff, tasks
  <2>6. CASE \/ CheckStop(w) \/ Observe(w) \/ NothingFound(w) \/ Lock(w) \/ RecheckPending(w)
             \/ RecheckStop(w) \/ Register(w) \/ Park(w) \/ Unregister(w) \/ DropSlot(w)
    BY <2>6 DEF CheckStop, Observe, NothingFound, Lock, RecheckPending, RecheckStop,
                Register, Park, Unregister, DropSlot, tasks
  <2> QED
    BY <1>4, <2>1, <2>3, <2>4, <2>5, <2>6 DEF WaitStep
<1>5. CASE Cancel \/ UNCHANGED vars
  BY <1>5 DEF Cancel, vars, tasks
<1> QED
  BY <1>1, <1>2, <1>3, <1>4, <1>5 DEF Next, Finished

\* Whoever is inside a directory keeps the count above zero.
LEMMA InsideCounts ==
  ASSUME Shape, HandsInv, NEW w \in Worker, Inside(w)
  PROVE  pending # 0
<1>1. PICK t \in Task : place[t] = "held"
  BY DEF HandsInv, InsideInv
<1>2. t \in Outstanding
  BY <1>1 DEF Outstanding
<1> QED
  BY <1>2, CountedSetsFinite, FS_EmptySet DEF Shape, CountInv, CountersTrue

\* Nothing is counted that is not outstanding.
LEMMA ZeroIsEmpty ==
  ASSUME Shape, pending = 0
  PROVE  Outstanding = {}
  BY CountedSetsFinite, FS_EmptySet DEF Shape, CountInv, CountersTrue

\* A caller that finds its queues empty while it is alone has finished.
LEMMA DrainedAlone ==
  ASSUME Shape, HandsInv, pc[Caller] = "drain", Own(Caller) \cup Injector = {}
  PROVE  pending = 0
<1> USE WorkerAssumption DEF Shape, CountInv
<1>1. \A w \in Worker : ~Inside(w)
  BY DEF AloneInv, Inside
<1>2. \A t \in Task : place[t] \notin {"held", "fresh", "moving"}
  BY <1>1, OwnedByWorker DEF HandsInv, HeldInv, TransitInv, Inside
<1>3. \A t \in Task : place[t] \notin {"own", "injector"}
  BY DEF AloneInv, Own, Injector
<1>4. Outstanding = {}
  BY <1>2, <1>3 DEF Outstanding, TypeOK, Place
<1> QED
  BY <1>4, FS_EmptySet DEF CountersTrue

\* Every step keeps it: a worker about to leave has seen the walk stop or every
\* root started and the count at zero, and neither is undone afterwards.
LEMMA LeaveNext == Shape /\ HandsInv /\ FlushedInv /\ LeaveInv /\ [Next]_vars => LeaveInv'
<1> SUFFICES ASSUME Shape, HandsInv, FlushedInv, LeaveInv, [Next]_vars PROVE LeaveInv'
  OBVIOUS
<1> USE WorkerAssumption DEF Shape, CountInv, TypeOK, LeaveInv, Goto, Stopping
<1>1. CASE AloneStep
  <2>1. ASSUME NEW t \in Task, BeginRoot(t) PROVE LeaveInv'
    BY <2>1 DEF BeginRoot, AloneInv, flags
  <2>2. ASSUME NEW t \in Task, DrainTake(t) PROVE LeaveInv'
    BY <2>2 DEF DrainTake, flags
  <2>3. CASE RootsDone \/ RootsStopped \/ Widen
    BY <2>3 DEF RootsDone, RootsStopped, Widen, flags
  <2>4. CASE DrainEmpty
    BY <2>4, DrainedAlone DEF DrainEmpty, FlushedInv, flags
  <2> QED
    BY <1>1, <2>1, <2>2, <2>3, <2>4 DEF AloneStep
<1>2. ASSUME NEW w \in Worker, Grow(w) \/ TimeOut(w) PROVE LeaveInv'
  BY <1>2 DEF Grow, GrownOnce, StartHelper, TimeOut, flags
<1>3. ASSUME NEW w \in Worker, WorkStep(w) PROVE LeaveInv'
  <2>1. ASSUME NEW t \in Task, BeginTask(w, t) PROVE LeaveInv'
    BY <2>1, InsideCounts DEF BeginTask, Inside, flags
  <2>2. ASSUME NEW t \in Task, Publish(w, t) PROVE LeaveInv'
    BY <2>2 DEF Publish, flags
  <2>3. ASSUME NEW t \in Task, FinishTask(w, t) PROVE LeaveInv'
    <3>1. AfterRelease(w) = "leave" => Stopping
      BY DEF AfterRelease, Loop, AloneInv
    <3>2. pending # 0
      BY <2>3, InsideCounts DEF FinishTask, Inside
    <3> QED
      BY <2>3, <3>1, <3>2 DEF FinishTask, flags
  <2>4. CASE NotifyOne(w) \/ NotifyAll(w) \/ Announce(w)
    BY <2>4 DEF NotifyOne, NotifyAll, Announce, ReturnInv, flags
  <2>5. CASE BeginWork(w) \/ EndWork(w)
    BY <2>5 DEF BeginWork, EndWork, flags
  <2>6. CASE Stop(w) \/ RecordPanic(w)
    BY <2>6 DEF Stop, RecordPanic
  <2> QED
    BY <1>3, <2>1, <2>2, <2>3, <2>4, <2>5, <2>6 DEF WorkStep
<1>4. ASSUME NEW w \in Worker, WaitStep(w) PROVE LeaveInv'
  <2>1. CASE CheckStop(w)
    BY <2>1 DEF CheckStop, flags
  <2>2. CASE RecheckPending(w)
    BY <2>2 DEF RecheckPending, Drained, FlushedInv, AloneInv, AloneLabels, flags
  <2>3. CASE RecheckStop(w)
    BY <2>3 DEF RecheckStop, flags
  <2>4. CASE PopOwn(w) \/ StealInjector(w) \/ StealVictim(w)
    BY <2>4 DEF PopOwn, StealInjector, StealVictim, Steal, flags
  <2>5. CASE \/ Observe(w) \/ NothingFound(w) \/ Land(w) \/ HandOff(w) \/ Lock(w)
             \/ Register(w) \/ Park(w) \/ Unregister(w) \/ DropSlot(w)
    BY <2>5 DEF Observe, NothingFound, Land, HandOff, Lock, Register, Park, Unregister, DropSlot, flags
  <2> QED
    BY <1>4, <2>1, <2>2, <2>3, <2>4, <2>5 DEF WaitStep
<1>5. CASE Cancel \/ UNCHANGED vars
  BY <1>5 DEF Cancel, vars, flags
<1> QED
  BY <1>1, <1>2, <1>3, <1>4, <1>5 DEF Next, Finished

\* The parts together hold at the start ...
LEMMA RefineInit == Init => RefineInv
<1> SUFFICES ASSUME Init PROVE RefineInv
  OBVIOUS
<1>1. FlushedInv /\ LeaveInv
  BY WorkerAssumption DEF Init, FlushedInv, LeaveInv
<1> QED
  BY <1>1, HandsInit DEF RefineInv

\* ... and every step keeps them.
LEMMA RefineNext == Shape /\ RefineInv /\ [Next]_vars => RefineInv'
  BY HandsNext, FlushedNext, LeaveNext DEF RefineInv

-----------------------------------------------------------------------------
(* The refinement.                                                         *)

\* What the abstract pool sees of a task and of the walk.
Phase(t) ==
  IF place[t] \in {"fresh", "injector", "own", "moving"} THEN "queued"
  ELSE IF place[t] = "held" THEN "running" ELSE place[t]
Gone == {w \in Worker : pc[w] = "left"}
PhaseOf == [t \in Task |-> Phase(t)]

\* A step that changes no phase, sets no stop and lets nobody leave is no step
\* of the pool.
LEMMA Unseen ==
  ASSUME \A t \in Task : Phase(t)' = Phase(t), Gone' = Gone, Stopping' = Stopping
  PROVE  UNCHANGED Pool!poolVars
  BY DEF Pool!poolVars, Phase, Gone

\* A step that changes the phase of one task is one about that task.
LEMMA OneTask ==
  ASSUME NEW t \in Task, \A u \in Task \ {t} : Phase(u)' = Phase(u), Gone' = Gone, Stopping' = Stopping,
         \/ Phase(t) = "queued" /\ Phase(t)' = "running"
         \/ Phase(t) = "running" /\ Phase(t)' = "done"
         \/ /\ t \notin Roots /\ \E parent \in Task : Phase(parent) = "running"
            /\ Phase(t) = "unborn" /\ Phase(t)' = "queued"
         \/ /\ t \in Roots /\ Gone = {} /\ ~Stopping
            /\ Phase(t) = "unborn" /\ Phase(t)' = "running"
  PROVE  Pool!PoolNext
<1>1. /\ PhaseOf' = [PhaseOf EXCEPT ![t] = Phase(t)']
      /\ \A u \in Task : PhaseOf[u] = Phase(u)
  BY DEF PhaseOf
<1>2. Pool!StartRoot(t) \/ Pool!Announced(t) \/ Pool!Taken(t) \/ Pool!Finished(t)
  BY <1>1 DEF Pool!StartRoot, Pool!Announced, Pool!Taken, Pool!Finished, PhaseOf, Phase, Gone
<1> QED
  BY <1>2 DEF Pool!PoolNext

\* Every step of the protocol is a step of the pool or invisible to it.
LEMMA PoolStep == Shape /\ RefineInv /\ [Next]_vars => [Pool!PoolNext]_(Pool!poolVars)
<1> SUFFICES ASSUME Shape, RefineInv, [Next]_vars
             PROVE  Pool!PoolNext \/ UNCHANGED Pool!poolVars
  OBVIOUS
<1> USE WorkerAssumption DEF Shape, CountInv, TypeOK, Goto, Stopping
<1>1. CASE AloneStep
  <2>1. ASSUME NEW t \in Task, BeginRoot(t) PROVE Pool!PoolNext
    <3>1. Gone = {}
      BY <2>1 DEF BeginRoot, AloneInv, Gone
    <3> QED
      BY <2>1, <3>1, OneTask DEF BeginRoot, Hold, Phase, Gone, flags
  <2>2. ASSUME NEW t \in Task, DrainTake(t) PROVE Pool!PoolNext
    BY <2>2, OneTask DEF DrainTake, Hold, Batch, Own, Injector, Phase, Gone, flags
  <2>3. CASE RootsDone
    BY <2>3, Unseen DEF RootsDone, Own, Phase, Gone, flags
  <2>4. CASE RootsStopped \/ Widen \/ DrainEmpty
    BY <2>4, Unseen DEF RootsStopped, Widen, DrainEmpty, Phase, Gone, flags, tasks
  <2> QED
    BY <1>1, <2>1, <2>2, <2>3, <2>4 DEF AloneStep
<1>2. ASSUME NEW w \in Worker, Grow(w) \/ TimeOut(w) PROVE UNCHANGED Pool!poolVars
  BY <1>2, Unseen DEF Grow, GrownOnce, StartHelper, TimeOut, Phase, Gone, flags, tasks
<1>3. ASSUME NEW w \in Worker, WorkStep(w) PROVE Pool!PoolNext \/ UNCHANGED Pool!poolVars
  <2>1. ASSUME NEW t \in Task, BeginTask(w, t) PROVE Pool!PoolNext
    <3>1. \E parent \in Task : Phase(parent) = "running"
      BY <2>1 DEF BeginTask, RefineInv, HandsInv, InsideInv, Inside, Phase
    <3> QED
      BY <2>1, <3>1, OneTask DEF BeginTask, Phase, Gone, flags
  <2>2. ASSUME NEW t \in Task, Publish(w, t) PROVE UNCHANGED Pool!poolVars
    BY <2>2, Unseen DEF Publish, Phase, Gone, flags
  <2>3. ASSUME NEW t \in Task, FinishTask(w, t) PROVE Pool!PoolNext
    <3>1. AfterRelease(w) # "left"
      BY DEF AfterRelease, Loop
    <3> QED
      BY <2>3, <3>1, OneTask DEF FinishTask, Phase, Gone, flags
  <2>4. CASE NotifyOne(w) \/ NotifyAll(w) \/ Announce(w)
    BY <2>4, Unseen DEF NotifyOne, NotifyAll, Announce, ReturnLabel, Phase, Gone, flags, tasks
  <2>5. CASE BeginWork(w) \/ EndWork(w)
    BY <2>5, Unseen DEF BeginWork, EndWork, Phase, Gone, flags, tasks
  <2>6. CASE Stop(w) \/ RecordPanic(w)
    <3>1. Pool!Halt
      BY <2>6 DEF Stop, RecordPanic, Pool!Halt, tasks
    <3> QED
      BY <3>1 DEF Pool!PoolNext
  <2> QED
    BY <1>3, <2>1, <2>2, <2>3, <2>4, <2>5, <2>6 DEF WorkStep
<1>4. ASSUME NEW w \in Worker, WaitStep(w) PROVE Pool!PoolNext \/ UNCHANGED Pool!poolVars
  <2>1. CASE PopOwn(w) \/ StealInjector(w) \/ StealVictim(w)
    <3>1. ASSUME NEW t \in Own(w), Hold(w, t), Goto(w, "run"), UNCHANGED flags PROVE Pool!PoolNext
      BY <2>1, <3>1, OneTask DEF PopOwn, StealInjector, StealVictim, Hold, Own, Phase, Gone, flags
    <3>2. ASSUME NEW source \in SUBSET Queued, Steal(w, source), UNCHANGED flags PROVE Pool!PoolNext
      <4>0. PICK t \in source :
              \E rest \in Batch(t, source) :
                /\ place' = [u \in Task |-> IF u = t THEN "held" ELSE IF u \in rest THEN "moving" ELSE place[u]]
                /\ Goto(w, IF rest = {} THEN "run" ELSE "land")
        BY <3>2 DEF Steal
      <4>1. PICK rest \in Batch(t, source) :
              /\ place' = [u \in Task |-> IF u = t THEN "held" ELSE IF u \in rest THEN "moving" ELSE place[u]]
              /\ Goto(w, IF rest = {} THEN "run" ELSE "land")
        BY <4>0
      <4>2. rest \subseteq Queued /\ t \in Task /\ t \notin rest /\ Phase(t) = "queued"
        BY DEF Batch, Queued, Phase
      <4>3. \A u \in Task \ {t} : Phase(u)' = Phase(u)
        BY <4>1, <4>2 DEF Phase, Queued
      <4>4. pc[w] # "left" /\ Gone' = Gone
        BY <2>1, <4>1 DEF PopOwn, StealInjector, StealVictim, Gone
      <4> QED
        BY <3>2, <4>1, <4>2, <4>3, <4>4, OneTask DEF Phase, flags
    <3>3. ASSUME UNCHANGED <<flags, tasks>>, UNCHANGED pc \/ Goto(w, "inject") \/ Goto(w, "scan")
          PROVE  UNCHANGED Pool!poolVars
      BY <2>1, <3>3, Unseen DEF PopOwn, StealInjector, StealVictim, Phase, Gone, flags, tasks
    <3> QED
      BY <2>1, <3>1, <3>2, <3>3 DEF PopOwn, StealInjector, StealVictim, Injector, Own, Queued
  <2>2. CASE Land(w)
    BY <2>2, Unseen DEF Land, Moving, Phase, Gone, flags
  <2>3. CASE DropSlot(w)
    <3>1. Stopping \/ (Pool!Outstanding = {} /\ \A t \in Roots : PhaseOf[t] = "done")
      <4>1. Stopping \/ (Outstanding = {} /\ \A t \in Roots : place[t] # "unborn")
        BY <2>3, ZeroIsEmpty DEF DropSlot, RefineInv, LeaveInv, FlushedInv
      <4>2. Outstanding = {} => Pool!Outstanding = {}
        BY DEF Outstanding, Pool!Outstanding
      <4> QED
        BY <4>1, <4>2, RootAssumption DEF Outstanding, PhaseOf, Phase
    <3>2. w \notin Gone /\ Gone' = Gone \cup {w} /\ PhaseOf' = PhaseOf
      BY <2>3 DEF DropSlot, Gone, PhaseOf, Phase, tasks
    <3>3. Pool!Leave(w)
      BY <2>3, <3>1, <3>2 DEF DropSlot, Pool!Leave, Gone, PhaseOf, Phase, flags
    <3> QED
      BY <3>3 DEF Pool!PoolNext
  <2>4. CASE \/ CheckStop(w) \/ Observe(w) \/ NothingFound(w) \/ HandOff(w) \/ Lock(w)
             \/ RecheckPending(w) \/ RecheckStop(w) \/ Register(w) \/ Park(w) \/ Unregister(w)
    BY <2>4, Unseen DEF CheckStop, Observe, NothingFound, HandOff, Lock, RecheckPending,
                        RecheckStop, Register, Park, Unregister, Phase, Gone, flags, tasks
  <2> QED
    BY <1>4, <2>1, <2>2, <2>3, <2>4 DEF WaitStep
<1>5. CASE Cancel
  BY <1>5 DEF Cancel, Pool!PoolNext, Pool!Halt, tasks
<1>6. CASE UNCHANGED vars
  BY <1>6, Unseen DEF vars, Phase, Gone, flags, tasks
<1> QED
  BY <1>1, <1>2, <1>3, <1>4, <1>5, <1>6 DEF Next, Finished

\* The protocol implements the abstract pool: a task is begun only by a worker
\* inside another one, taken once, and a worker leaves an uninterrupted walk
\* only when nothing is left - for every number of workers and tasks.
THEOREM Refinement == Spec => PoolImplemented
<1>1. Init => Pool!PoolInit
  BY DEF Init, Pool!PoolInit, Stopping
<1>2. Shape /\ RefineInv /\ [Next]_vars => Shape' /\ RefineInv'
  BY ShapeNext, RefineNext
<1>3. Init => Shape /\ RefineInv
  BY ShapeInit, RefineInit
<1> QED
  BY <1>1, <1>2, <1>3, PoolStep, PTL DEF Spec, PoolImplemented, Pool!PoolSpec
=============================================================================
