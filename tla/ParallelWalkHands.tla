-------------------------- MODULE ParallelWalkHands ---------------------------
(***************************************************************************)
(* Which directories ParallelWalk has under way, in queues and in hands;   *)
(* how every step moves them; and that the walk only goes forward.         *)
(***************************************************************************)
EXTENDS ParallelWalkWorkers

-----------------------------------------------------------------------------
(* Strides.                                                                *)

LEMMA Divided ==
  ASSUME NEW s \in Int, s > 0, NEW a \in Int
  PROVE  a = s * (a \div s) + (a % s) /\ a % s \in 0 .. s - 1 /\ a \div s \in Int
<1>1. a = (a \div s) * s + (a % s)
  BY Z3
<1>2. a % s \in 0 .. s - 1 /\ a \div s \in Int
  OBVIOUS
<1> QED
  BY <1>1, <1>2

LEMMA RestOf ==
  ASSUME NEW s \in Int, s > 0, NEW q \in Int, NEW r \in 0 .. s - 1
  PROVE  (s * q + r) % s = r
  OBVIOUS

LEMMA NextRest ==
  ASSUME NEW s \in Int, s > 0, NEW a \in Int
  PROVE  (a + 1) % s = 0 \/ ((a + 1) % s = (a % s) + 1 /\ (a % s) + 1 < s)
<1> DEFINE q == a \div s
           r == a % s
<1>1. a = s * q + r /\ r \in 0 .. s - 1 /\ q \in Int
  BY Divided
<1> HIDE DEF q, r
<1>2. CASE r = s - 1
  <2>1. a + 1 = s * (q + 1) + 0
    BY <1>1, <1>2
  <2>2. (s * (q + 1) + 0) % s = 0
    BY <1>1, RestOf
  <2> QED
    BY <2>1, <2>2
<1>3. CASE r # s - 1
  <2>1. a + 1 = s * q + (r + 1) /\ r + 1 \in 0 .. s - 1
    BY <1>1, <1>3
  <2>2. (s * q + (r + 1)) % s = r + 1
    BY <1>1, <2>1, RestOf
  <2> QED
    BY <2>1, <2>2 DEF r
<1> QED
  BY <1>2, <1>3

LEMMA SumRest ==
  ASSUME NEW s \in Int, s > 0, NEW a \in Int, NEW b \in Int, a % s = 0, b % s = 0
  PROVE  (a + b) % s = 0
<1> DEFINE p == a \div s
           q == b \div s
<1>1. a = s * p + 0 /\ b = s * q + 0 /\ p \in Int /\ q \in Int
  BY Divided
<1> HIDE DEF p, q
<1>2. a + b = s * (p + q) + 0
  BY <1>1
<1>3. (s * (p + q) + 0) % s = 0
  BY <1>1, RestOf
<1> QED
  BY <1>2, <1>3

-----------------------------------------------------------------------------
(* What is under way.                                                      *)

LEMMA Tokens ==
  /\ \A x : x \in Underway <=> \/ \E t \in Queued : x = OfTask(t)
                               \/ \E v \in Worker : Inside(v) /\ x = OfHand(v)
  /\ \A t : OfTask(t).dir = t.dir
  /\ \A v : OfHand(v).dir = task[v].dir
  /\ \A d, s, n : On(d, s, n).dir = d /\ On(d, s, n).stage = s /\ On(d, s, n).next = n
<1>1. \A d, s, n : On(d, s, n).dir = d /\ On(d, s, n).stage = s /\ On(d, s, n).next = n
  BY DEF On
<1>2. \A t : OfTask(t).dir = t.dir
  BY <1>1 DEF OfTask
<1>3. \A v : OfHand(v).dir = task[v].dir
  BY <1>1, <1>2 DEF OfHand
<1>4. \A x : x \in Underway <=> \/ \E t \in Queued : x = OfTask(t)
                                \/ \E v \in Worker : Inside(v) /\ x = OfHand(v)
  BY DEF Underway
<1> QED
  BY <1>1, <1>2, <1>3, <1>4

LEMMA TokensAfter ==
  /\ \A x : x \in Underway' <=> \/ \E t \in Queued' : x = OfTask(t)
                                \/ \E v \in Worker : Inside(v)' /\ x = OfHand(v)'
  /\ \A v : OfHand(v)'.dir = task'[v].dir
<1>1. \A d, s, n : On(d, s, n).dir = d
  BY DEF On
<1>2. \A t : OfTask(t).dir = t.dir
  BY <1>1 DEF OfTask
<1>3. \A v : OfHand(v)'.dir = task'[v].dir
  BY <1>1, <1>2 DEF OfHand
<1>4. \A x : x \in Underway' <=> \/ \E t \in Queued' : x = OfTask(t)
                                 \/ \E v \in Worker : Inside(v)' /\ x = OfHand(v)'
  BY DEF Underway
<1> QED
  BY <1>3, <1>4

\* A place in the tree belongs to one listing.
LEMMA OnePlace ==
  /\ \A d, e \in Dir : \A j \in 1 .. Len(Listing[d]), k \in 1 .. Len(Listing[e]) :
       Listing[d][j] = Listing[e][k] => d = e /\ j = k
  /\ \A d \in Dir : \A k \in 1 .. Len(Listing[d]) : ~IsRoot(Listing[d][k])
<1>1. \A d \in Dir : DOMAIN Listing[d] = 1 .. Len(Listing[d])
  BY Constants, LenProperties
<1>2. \A d \in Dir : \A k \in 1 .. Len(Listing[d]) : Listing[d][k] \in ToSet(Listing[d])
  BY <1>1 DEF ToSet
<1>3. \A d \in Dir : ToSet(Listing[d]) \cap ToSet(Roots) = {}
  BY TreeAssumption
<1> QED
  BY <1>1, <1>2, <1>3, TreeAssumption DEF IsRoot

\* What a worker finds at an entry was not behind the walk.
LEMMA EntryAhead ==
  ASSUME TypeOK, PositionInv, NEW w \in Worker, AtEntry(w)
  PROVE  /\ Names(w)[at[w] + 1] \in Name /\ at[w] + 1 \in 1 .. Len(Listing[task[w].dir])
         /\ task[w].dir \in Dir /\ Inside(w) /\ OfHand(w) = On(task[w].dir, "going", at[w])
         /\ OfHand(w) \in Underway
         /\ ~Behind(Names(w)[at[w] + 1]) /\ ~Met(Names(w)[at[w] + 1])
<1> DEFINE n == Names(w)[at[w] + 1]
           d == task[w].dir
<1>1. /\ n \in Name /\ at[w] + 1 \in 1 .. Len(Listing[d]) /\ d \in Dir /\ n = Listing[d][at[w] + 1]
      /\ Place(w) \in {"list", "entry"} /\ at[w] \in Nat
  <2>1. d \in Dir /\ at[w] \in Nat
    BY TypesOf
  <2> QED
    BY <2>1, BatchOf DEF Names
<1>2. Inside(w) /\ OfHand(w) = On(d, "going", at[w])
  BY <1>1 DEF Inside, Stages, OfHand
<1>3. OfHand(w) \in Underway
  BY <1>2, Tokens
<1>4. ~Passed(d, at[w] + 1)
  <2>1. OfHand(w).dir = d /\ OfHand(w).next = at[w] /\ ~(at[w] + 1 <= at[w])
    BY <1>1, <1>2, Tokens
  <2> QED
    BY <1>3, <2>1 DEF Passed
<1>5. ~Behind(n)
  <2> SUFFICES ASSUME NEW up \in Dir, NEW k \in 1 .. Len(Listing[up]), Listing[up][k] = n, Passed(up, k)
               PROVE  FALSE
    BY DEF Behind
  <2>1. up = d /\ k = at[w] + 1
    BY <1>1, OnePlace
  <2> QED
    BY <1>4, <2>1
<1>6. ~Met(n)
  BY <1>1, <1>5, OnePlace DEF Met
<1> QED
  BY <1>1, <1>2, <1>3, <1>5, <1>6

-----------------------------------------------------------------------------
(* What each step does to the queues.                                      *)

LEMMA EntryQueues ==
  ASSUME TypeOK, PositionInv, OnceIn(Line), DirectoryInv, NEW w \in Worker, Entry(w)
  PROVE  LET n == Names(w)[at[w] + 1] IN
         /\ OnceIn(Line')
         /\ IF Schedules(n) THEN /\ Queued' = Queued \cup {DirectoryTask(n)} /\ DirectoryTask(n) \in Task
                                 /\ \A x \in Underway : x.dir # n
                                 /\ pending' = pending + 1
                            ELSE Queued' = Queued /\ pending' = pending
<1> DEFINE n == Names(w)[at[w] + 1]
           t == DirectoryTask(n)
<1>1. n \in Name /\ ~Met(n)
  BY EntryAhead DEF Entry
<1>2. \A x \in Underway : x.dir # n
  BY <1>1 DEF DirectoryInv
<1>3. CASE Schedules(n)
  <2>1. t \in Task /\ t.dir = n
    BY <1>1, <1>3, ScheduledName DEF DirectoryTask
  <2>2. \A u \in Queued : u.dir # t.dir
    BY <1>2, <2>1, Tokens
  <2>3. queue' = [queue EXCEPT ![w] = Append(queue[w], t)] /\ injector' = injector /\ pending' = pending + 1
    BY <1>3 DEF Entry, Schedule
  <2>4. OnceIn(Line') /\ Queued' = Queued \cup {t}
    BY <2>1, <2>2, <2>3, PushOwn
  <2> QED
    BY <1>2, <1>3, <2>1, <2>3, <2>4
<1>4. CASE ~Schedules(n)
  <2>1. queue' = queue /\ injector' = injector /\ pending' = pending
    BY <1>4 DEF Entry
  <2> QED
    BY <1>4, <2>1, SameQueues
<1> QED
  BY <1>3, <1>4

LEMMA ContinueQueues ==
  ASSUME TypeOK, HandInv, NEW w \in Worker, Continue(w)
  PROVE  /\ OnceIn(Line') /\ Queued' = Queued \cup {Continuation(w)} /\ Continuation(w) \in Task
         /\ Continuation(w) \notin Queued /\ pending' = pending + 1
<1>1. Inside(w)
  BY DEF Continue, Inside, Place, Growing, Stages
<1>2. Continuation(w) \in Task /\ Continuation(w).dir = task[w].dir
  BY TypesOf DEF Continuation, Task
<1>3. \A u \in Queued : u.dir # Continuation(w).dir
  BY <1>1, <1>2 DEF HandInv
<1>4. injector' = Append(injector, Continuation(w)) /\ queue' = queue /\ pending' = pending + 1
  BY DEF Continue, Schedule
<1> QED
  BY <1>2, <1>3, <1>4, PushShared DEF HandInv

LEMMA TakeQueues ==
  ASSUME TypeOK, OnceIn(Line)
  PROVE  /\ DrainTake => /\ OnceIn(Line') /\ pending' = pending
                         /\ \E t \in Queued : /\ t \in Task /\ task' = [task EXCEPT ![Caller] = t]
                                              /\ Queued' = Queued \ {t}
         /\ \A w \in Worker : TakeTask(w) =>
              /\ OnceIn(Line') /\ pending' = pending
              /\ \E t \in Queued : t \in Task /\ task' = [task EXCEPT ![w] = t] /\ Queued' = Queued \ {t}
<1>1. ASSUME DrainTake
      PROVE  /\ OnceIn(Line') /\ pending' = pending
             /\ \E t \in Queued : t \in Task /\ task' = [task EXCEPT ![Caller] = t] /\ Queued' = Queued \ {t}
  BY <1>1, TakeAny, Constants DEF DrainTake
<1>2. ASSUME NEW w \in Worker, TakeTask(w)
      PROVE  /\ OnceIn(Line') /\ pending' = pending
             /\ \E t \in Queued : t \in Task /\ task' = [task EXCEPT ![w] = t] /\ Queued' = Queued \ {t}
  BY <1>2, TakeAny DEF TakeTask
<1> QED
  BY <1>1, <1>2

\* No other step moves a task.
LEMMA OtherQueues ==
  ASSUME TypeOK, OnceIn(Line), NEW w \in Worker,
         \/ TaskStep(w) /\ ~Entry(w) /\ ~Continue(w)
         \/ Panic(w)
         \/ PoolStep(w) /\ ~TakeTask(w)
         \/ AloneStep /\ ~DrainTake
         \/ Finish \/ Cancel \/ UNCHANGED vars
  PROVE  OnceIn(Line') /\ Queued' = Queued
<1> USE DEF queues
<1>1. CASE TaskStep(w) /\ ~Entry(w) /\ ~Continue(w)
  BY <1>1, SameQueues DEF TaskStep, Begin, CheckStop, ReadFails, Read, List, EndListing, Release, RecordPanic
<1>2. CASE Panic(w)
  BY <1>2, SameQueues DEF Panic
<1>3. CASE PoolStep(w) /\ ~TakeTask(w)
  BY <1>3, SameQueues DEF PoolStep, GrowDone, ClaimSlot, NoScratch, Spawn, Refused, NoMoreTasks, EndHelper
<1>4. CASE AloneStep /\ ~DrainTake
  <2>1. CASE RootsDone
    BY <2>1, FlushTasks, Constants DEF RootsDone
  <2> QED
    BY <1>4, <2>1, SameQueues DEF AloneStep, NextRoot, RootsStopped, WidenPool, DrainEmpty
<1>5. CASE Finish \/ Cancel \/ UNCHANGED vars
  BY <1>5, SameQueues DEF Finish, Cancel, vars
<1> QED
  BY <1>1, <1>2, <1>3, <1>4, <1>5

-----------------------------------------------------------------------------
(* The forms of a step, as far as tasks and the workers that hold them go.  *)

\* Worker v goes on with what it has.
Keeps(v) ==
  /\ Inside(v)' = Inside(v) /\ Holding(v)' = Holding(v)
  /\ Inside(v) => Place(v)' = Place(v) /\ task'[v] = task[v] /\ at'[v] = at[v]
OthersKeep(w) == \A v \in Worker \ {w} : Keeps(v)
SameTasks == OnceIn(Line') /\ Queued' = Queued /\ pending' = pending

\* Nothing moves; w gets on with a directory; w is done with one that it still
\* has to release; w releases it.
Rests == SameTasks /\ \A v \in Worker : Keeps(v)
Advances(w) == /\ SameTasks /\ OthersKeep(w) /\ Inside(w) /\ Inside(w)' /\ task'[w] = task[w]
Drops(w) == SameTasks /\ OthersKeep(w) /\ Inside(w) /\ ~Inside(w)' /\ Holding(w)'
Releases(w) == /\ OnceIn(Line') /\ Queued' = Queued /\ pending' = pending - 1
               /\ OthersKeep(w) /\ ~Inside(w) /\ Holding(w) /\ ~Holding(w)'
\* w takes task t from a queue, to read on or to abandon it.
Takes(w, t) ==
  /\ OnceIn(Line') /\ t \in Queued /\ Queued' = Queued \ {t} /\ pending' = pending /\ OthersKeep(w)
  /\ ~Holding(w) /\ task'[w] = t /\ Holding(w)' /\ (Place(w)' = "begin" \/ (~Inside(w)' /\ Stopping))

LEMMA GoesKeeps ==
  ASSUME NEW w, NEW from, NEW to, Goes(w, from, to)
  PROVE  OthersKeep(w) /\ Place(w) = from /\ Place(w)' = to
<1>1. \A v \in Worker \ {w} : Keeps(v)
  BY DEF Goes, Others, Keeps, Inside, Holding
<1> QED
  BY <1>1 DEF OthersKeep, Goes

LEMMA HoldsInside == \A w : /\ Inside(w) => Holding(w)
                            /\ Inside(w)' => Holding(w)'
  BY DEF Inside, Holding

LEMMA TaskForms ==
  ASSUME TypeOK, HandInv, NEW w \in Worker, TaskStep(w) \/ Panic(w), ~Entry(w), ~Continue(w)
  PROVE  Rests \/ Advances(w) \/ Drops(w) \/ Releases(w)
<1>1. OnceIn(Line') /\ Queued' = Queued
  <2>1. OnceIn(Line)
    BY DEF HandInv
  <2> QED
    BY <2>1, OtherQueues
<1>2. CASE Release(w)
  <2>1. pending' = pending - 1
    BY <1>2 DEF Release, CompleteTask
  <2>2. \E from \in {"release", "abandon", "unwind"}, to \in {"roots", "alone", "idle", "join", "unwound"} : Goes(w, from, to)
    BY <1>2, TaskPlaces DEF Loop
  <2> QED
    BY <1>1, <2>1, <2>2, GoesKeeps DEF Releases, Inside, Holding, Stages
<1>3. CASE ~Release(w)
  <2>1. pending' = pending
    BY <1>3 DEF TaskStep, Panic, Begin, CheckStop, ReadFails, Read, List, EndListing, RecordPanic, queues
  <2>2. SameTasks
    BY <1>1, <2>1 DEF SameTasks
  <2>3. CASE RecordPanic(w)
    <3>1. \E to \in {"join", "leave"} : Goes(w, "unwound", to)
      BY <2>3, TaskPlaces
    <3>2. OthersKeep(w) /\ Keeps(w)
      BY <3>1, GoesKeeps DEF Keeps, Inside, Holding, Stages
    <3> QED
      BY <2>2, <3>2 DEF Rests, OthersKeep
  <2>4. CASE ~RecordPanic(w)
    <3>1. task' = task
      BY <1>3, <2>4, TaskPlaces DEF TaskStep
    <3>2. \E from \in Stages, to \in Stages \cup {"release", "unwind"} : Goes(w, from, to)
      BY <1>3, <2>4, TaskPlaces DEF TaskStep, Stages
    <3> QED
      BY <2>2, <3>1, <3>2, GoesKeeps DEF Advances, Drops, Inside, Holding, Stages
  <2> QED
    BY <2>3, <2>4
<1> QED
  BY <1>2, <1>3

LEMMA PoolForms ==
  ASSUME TypeOK, HelperInv, HandInv, NEW w \in Worker, PoolStep(w)
  PROVE  Rests \/ \E t \in Queued : t \in Task /\ Takes(w, t) /\ at' = at
<1>0. OnceIn(Line)
  BY DEF HandInv
<1>1. CASE TakeTask(w)
  <2>1. PICK t \in Queued : t \in Task /\ task' = [task EXCEPT ![w] = t] /\ Queued' = Queued \ {t}
    BY <1>0, <1>1, TakeQueues
  <2>2. task'[w] = t /\ \A v \in Worker \ {w} : task'[v] = task[v]
    BY <2>1 DEF TypeOK
  <2>3. OnceIn(Line') /\ pending' = pending
    BY <1>0, <1>1, TakeQueues
  <2>4. /\ at' = at /\ Place(w) = "idle" /\ Place(w)' = "begin"
        /\ \A v \in Worker \ {w} : pc'[v] = pc[v] /\ Place(v)' = Place(v)
    BY <1>1, PoolPlaces
  <2>5. OthersKeep(w) /\ ~Holding(w) /\ Holding(w)'
    BY <2>2, <2>4 DEF OthersKeep, Keeps, Inside, Holding, Stages
  <2> QED
    BY <2>1, <2>2, <2>3, <2>4, <2>5 DEF Takes
<1>2. CASE ~TakeTask(w)
  <2>1. OnceIn(Line') /\ Queued' = Queued
    BY <1>0, <1>2, OtherQueues
  <2>2. pending' = pending
    BY <1>2 DEF PoolStep, GrowDone, ClaimSlot, NoScratch, Spawn, Refused, NoMoreTasks, EndHelper, queues
  <2>3. CASE Stays
    <3>1. \A v \in Worker : Keeps(v)
      BY <2>3 DEF Stays, Keeps, Inside, Holding
    <3> QED
      BY <2>1, <2>2, <3>1 DEF Rests, SameTasks
  <2>4. CASE Spawn(w) /\ ~Stays
    <3>1. task' = task /\ at' = at
      BY <2>4, PoolPlaces
    <3>2. PICK h \in idle : /\ Place(h) = "unborn" /\ Place(h)' = "idle"
                            /\ \A v \in Worker \ {h} : Place(v)' = Place(v)
      BY <2>4, PoolPlaces
    <3>3. \A v \in Worker : Keeps(v)
      BY <3>1, <3>2 DEF Keeps, Inside, Holding, Stages
    <3> QED
      BY <2>1, <2>2, <3>3 DEF Rests, SameTasks
  <2>5. CASE NoMoreTasks(w) \/ EndHelper(w)
    <3>1. \E from \in {"idle", "leave"}, to \in {"join", "leave", "left"} : Goes(w, from, to)
      BY <2>5, PoolPlaces
    <3>2. OthersKeep(w) /\ Keeps(w)
      BY <3>1, GoesKeeps DEF Keeps, Inside, Holding, Stages
    <3> QED
      BY <2>1, <2>2, <3>2 DEF Rests, SameTasks, OthersKeep
  <2>6. GrowDone(w) \/ ClaimSlot(w) \/ NoScratch(w) \/ Refused(w) => Stays
    BY PoolPlaces
  <2> QED
    BY <1>2, <2>3, <2>4, <2>5, <2>6 DEF PoolStep
<1> QED
  BY <1>1, <1>2

LEMMA AloneForms ==
  ASSUME TypeOK, HandInv, AloneStep \/ Finish \/ Cancel \/ UNCHANGED vars, ~NextRoot
  PROVE  Rests \/ \E t \in Queued : t \in Task /\ Takes(Caller, t) /\ at' = at
<1>0. OnceIn(Line) /\ Caller \in Worker
  BY Constants DEF HandInv
<1>1. CASE DrainTake
  <2>1. PICK t \in Queued : t \in Task /\ task' = [task EXCEPT ![Caller] = t] /\ Queued' = Queued \ {t}
    BY <1>0, <1>1, TakeQueues
  <2>2. task'[Caller] = t /\ \A v \in Worker \ {Caller} : task'[v] = task[v]
    BY <1>0, <2>1 DEF TypeOK
  <2>3. OnceIn(Line') /\ pending' = pending
    BY <1>0, <1>1, TakeQueues
  <2>4. /\ at' = at /\ Place(Caller) = "alone" /\ Place(Caller)' = (IF Stopping THEN "abandon" ELSE "begin")
        /\ \A v \in Worker \ {Caller} : pc'[v] = pc[v] /\ Place(v)' = Place(v)
    BY <1>1, AlonePlaces
  <2>5. OthersKeep(Caller) /\ ~Holding(Caller) /\ Holding(Caller)' /\ (Stopping => ~Inside(Caller)')
    BY <2>2, <2>4 DEF OthersKeep, Keeps, Inside, Holding, Stages
  <2> QED
    BY <2>1, <2>2, <2>3, <2>4, <2>5 DEF Takes
<1>2. CASE ~DrainTake
  <2>1. OnceIn(Line') /\ Queued' = Queued
    BY <1>0, <1>2, OtherQueues
  <2>2. pending' = pending
    BY <1>2 DEF AloneStep, RootsStopped, RootsDone, WidenPool, DrainEmpty, Finish, Cancel, queues, vars
  <2>3. CASE Stays
    <3>1. \A v \in Worker : Keeps(v)
      BY <2>3 DEF Stays, Keeps, Inside, Holding
    <3> QED
      BY <2>1, <2>2, <3>1 DEF Rests, SameTasks
  <2>4. CASE ~Stays
    <3>1. \E from \in {"roots", "alone", "join"}, to \in {"join", "alone", "idle", "left"} : Goes(Caller, from, to)
      BY <1>2, <2>4, AlonePlaces DEF AloneStep
    <3>2. OthersKeep(Caller) /\ Keeps(Caller)
      BY <3>1, GoesKeeps DEF Keeps, Inside, Holding, Stages
    <3> QED
      BY <2>1, <2>2, <3>2 DEF Rests, SameTasks, OthersKeep
  <2> QED
    BY <2>3, <2>4
<1> QED
  BY <1>1, <1>2

\* The three steps that schedule a task.
LEMMA EntryForm ==
  ASSUME TypeOK, NEW w \in Worker, Entry(w)
  PROVE  /\ OthersKeep(w) /\ Inside(w) /\ Inside(w)' /\ task' = task /\ Holding(w) /\ Holding(w)'
         /\ at'[w] = at[w] + 1 /\ Place(w)' = "list"
<1>1. task' = task /\ at' = [at EXCEPT ![w] = at[w] + 1] /\ \E from \in {"list", "entry"} : Goes(w, from, "list")
  BY TaskPlaces
<1> QED
  BY <1>1, GoesKeeps DEF Inside, Holding, Stages, TypeOK

LEMMA ContinueForm ==
  ASSUME TypeOK, NEW w \in Worker, Continue(w)
  PROVE  /\ OthersKeep(w) /\ Inside(w) /\ ~Inside(w)' /\ task' = task /\ Holding(w) /\ Holding(w)'
         /\ Place(w) = "list" /\ at' = at
<1>1. task' = task /\ at' = at /\ Goes(w, "list", "release")
  BY TaskPlaces
<1> QED
  BY <1>1, GoesKeeps DEF Inside, Holding, Stages

LEMMA RootForm ==
  ASSUME TypeOK, OnceIn(Line), NextRoot
  PROVE  /\ OthersKeep(Caller) /\ ~Inside(Caller) /\ Inside(Caller)' /\ ~Holding(Caller) /\ Holding(Caller)'
         /\ OnceIn(Line') /\ Queued' = Queued /\ pending' = pending + 1
         /\ task'[Caller] = DirectoryTask(Roots[nextRoot]) /\ Place(Caller)' = "begin"
         /\ nextRoot \in 1 .. Len(Roots) /\ nextRoot' = nextRoot + 1
<1>0. Caller \in Worker /\ nextRoot \in Nat
  BY Constants, TypesOf
<1>1. at' = at /\ Goes(Caller, "roots", "begin") /\ task' = [task EXCEPT ![Caller] = DirectoryTask(Roots[nextRoot])]
  BY AlonePlaces
<1>2. OthersKeep(Caller) /\ Place(Caller) = "roots" /\ Place(Caller)' = "begin"
  BY <1>1, GoesKeeps
<1>3. task'[Caller] = DirectoryTask(Roots[nextRoot])
  BY <1>0, <1>1 DEF TypeOK
<1>4. OnceIn(Line') /\ Queued' = Queued
  BY SameQueues DEF NextRoot
<1>5. nextRoot \in 1 .. Len(Roots) /\ nextRoot' = nextRoot + 1 /\ pending' = pending + 1
  BY TypesOf DEF NextRoot, Schedule
<1> QED
  BY <1>2, <1>3, <1>4, <1>5 DEF Inside, Holding, Stages

-----------------------------------------------------------------------------
(* Every directory stays in one place, and every task is counted.          *)

\* What a worker has in hand, if it has not moved, is what it had.
LEMMA OthersHands ==
  ASSUME NEW w, OthersKeep(w), NEW v \in Worker \ {w}
  PROVE  /\ Inside(v)' = Inside(v) /\ Holding(v)' = Holding(v)
         /\ Inside(v) => task'[v] = task[v] /\ OfHand(v)' = OfHand(v)
  BY DEF OthersKeep, Keeps, OfHand

\* Worker w is the only one whose hand changes.
LEMMA OneHand ==
  ASSUME HandInv, NEW w \in Worker, OthersKeep(w), OnceIn(Line'),
         \A t \in Queued' \ Queued : \A v \in Worker \ {w} : Inside(v) => t.dir # task[v].dir,
         Inside(w)' => /\ \A t \in Queued' : t.dir # task'[w].dir
                       /\ \A v \in Worker \ {w} : Inside(v) => task[v].dir # task'[w].dir
  PROVE  HandInv'
<1>1. \A v \in Worker \ {w} : /\ Inside(v)' = Inside(v)
                              /\ Inside(v) => task'[v] = task[v] /\ \A t \in Queued : t.dir # task[v].dir
  BY OthersHands DEF HandInv
<1>2. \A v \in Worker : Inside(v)' => \A t \in Queued' : t.dir # task'[v].dir
  BY <1>1
<1>3. ASSUME NEW u \in Worker, NEW v \in Worker, Inside(u)', Inside(v)', task'[u].dir = task'[v].dir
      PROVE  u = v
  BY <1>1, <1>3 DEF HandInv
<1> QED
  BY <1>2, <1>3 DEF HandInv

\* A root that was not begun is nowhere yet.
LEMMA RootAhead ==
  ASSUME TypeOK, nextRoot \in 1 .. Len(Roots)
  PROVE  Roots[nextRoot] \in Dir /\ IsRoot(Roots[nextRoot]) /\ ~Met(Roots[nextRoot])
<1>1. DOMAIN Roots = 1 .. Len(Roots) /\ Roots[nextRoot] \in Dir /\ nextRoot \in Nat /\ Len(Roots) \in Nat
  BY Constants, TreeAssumption, LenProperties
<1>2. IsRoot(Roots[nextRoot])
  BY <1>1 DEF IsRoot, ToSet
<1>3. \A i \in 1 .. nextRoot - 1 : Roots[i] # Roots[nextRoot]
  <2>1. \A i, j \in DOMAIN Roots : Roots[i] = Roots[j] => i = j
    BY TreeAssumption
  <2>2. \A i \in 1 .. nextRoot - 1 : i \in DOMAIN Roots /\ nextRoot \in DOMAIN Roots /\ i # nextRoot
    BY <1>1
  <2> QED
    BY <2>1, <2>2
<1> QED
  BY <1>1, <1>2, <1>3 DEF Met

LEMMA HandStep ==
  ASSUME TypeOK, HelperInv, PositionInv, HandInv, DirectoryInv, [Next]_vars
  PROVE  HandInv'
<1>0. OnceIn(Line) /\ Caller \in Worker
  BY Constants DEF HandInv
<1>1. ASSUME Rests PROVE HandInv'
  <2>1. \A v \in Worker : OthersKeep(v) /\ Inside(v)' = Inside(v) /\ (Inside(v) => task'[v] = task[v])
    BY <1>1 DEF Rests, OthersKeep, Keeps
  <2> QED
    BY <1>0, <1>1, <2>1 DEF Rests, SameTasks, HandInv
<1>2. ASSUME NEW w \in Worker, Advances(w) \/ Drops(w) \/ Releases(w) PROVE HandInv'
  <2>1. OthersKeep(w) /\ OnceIn(Line') /\ Queued' = Queued
    BY <1>2 DEF Advances, Drops, Releases, SameTasks
  <2>2. Inside(w)' => (Inside(w) /\ task'[w] = task[w]) \/ (~Inside(w) /\ Holding(w) /\ ~Holding(w)')
    BY <1>2 DEF Advances, Drops, Releases
  <2>3. Inside(w)' => Inside(w) /\ task'[w] = task[w]
    BY <2>2, HoldsInside
  <2>4. /\ Inside(w)' => \A t \in Queued' : t.dir # task'[w].dir
        /\ \A v \in Worker \ {w} : Inside(w)' /\ Inside(v) => task[v].dir # task'[w].dir
    BY <2>1, <2>3 DEF HandInv
  <2> QED
    BY <2>1, <2>4, OneHand
<1>3. ASSUME NEW w \in Worker, NEW t \in Queued, t \in Task, Takes(w, t) PROVE HandInv'
  <2>1. OthersKeep(w) /\ OnceIn(Line') /\ Queued' = Queued \ {t} /\ task'[w] = t
    BY <1>3 DEF Takes
  <2>2. \A u \in Queued \ {t} : u.dir # t.dir
    BY <1>0 DEF Queued, TasksIn, OnceIn, Distinct, Apart, ToSet
  <2>3. \A v \in Worker : Inside(v) => task[v].dir # t.dir
    BY DEF HandInv
  <2> QED
    BY <2>1, <2>2, <2>3, OneHand
<1>4. ASSUME NEW w \in Worker, Entry(w) PROVE HandInv'
  <2> DEFINE n == Names(w)[at[w] + 1]
  <2>1. OthersKeep(w) /\ Inside(w) /\ task' = task
    BY <1>4, EntryForm
  <2>2. OnceIn(Line')
    BY <1>0, <1>4, EntryQueues
  <2>3. Queued' = Queued \/ (Queued' = Queued \cup {DirectoryTask(n)} /\ \A x \in Underway : x.dir # n)
    BY <1>0, <1>4, EntryQueues
  <2>4. \A t \in Queued' \ Queued : \A v \in Worker : Inside(v) => t.dir # task[v].dir
    BY <2>3, Tokens DEF DirectoryTask
  <2>5. \A v \in Worker \ {w} : Inside(v) => task[v].dir # task[w].dir
    BY <2>1 DEF HandInv
  <2>6. \A t \in Queued : t.dir # task[w].dir
    BY <2>1 DEF HandInv
  <2>7. \A t \in Queued' : t.dir # task[w].dir
    BY <2>1, <2>4, <2>6
  <2> QED
    BY <2>1, <2>2, <2>4, <2>5, <2>7, OneHand
<1>5. ASSUME NEW w \in Worker, Continue(w) PROVE HandInv'
  <2>1. OthersKeep(w) /\ Inside(w) /\ ~Inside(w)'
    BY <1>5, ContinueForm
  <2>2. OnceIn(Line') /\ Queued' = Queued \cup {Continuation(w)}
    BY <1>5, ContinueQueues
  <2>3. \A v \in Worker \ {w} : Inside(v) => Continuation(w).dir # task[v].dir
    BY <2>1 DEF HandInv, Continuation
  <2> QED
    BY <2>1, <2>2, <2>3, OneHand
<1>6. ASSUME NextRoot PROVE HandInv'
  <2> DEFINE r == Roots[nextRoot]
  <2>1. /\ OthersKeep(Caller) /\ OnceIn(Line') /\ Queued' = Queued /\ nextRoot \in 1 .. Len(Roots)
        /\ task'[Caller] = DirectoryTask(r)
    BY <1>0, <1>6, RootForm
  <2>2. \A x \in Underway : x.dir # r
    BY <2>1, RootAhead DEF DirectoryInv
  <2>3. (\A t \in Queued : t.dir # r) /\ \A v \in Worker : Inside(v) => task[v].dir # r
    BY <2>2, Tokens
  <2>4. DirectoryTask(r).dir = r
    BY DEF DirectoryTask
  <2> QED
    BY <1>0, <2>1, <2>3, <2>4, OneHand
<1>7. ASSUME NEW w \in Worker, TaskStep(w) \/ Panic(w) PROVE HandInv'
  BY <1>1, <1>2, <1>4, <1>5, <1>7, TaskForms
<1>8. ASSUME NEW w \in Worker, PoolStep(w) PROVE HandInv'
  BY <1>1, <1>3, <1>8, PoolForms
<1>9. ASSUME AloneStep \/ Finish \/ Cancel \/ UNCHANGED vars PROVE HandInv'
  BY <1>0, <1>1, <1>3, <1>6, <1>9, AloneForms
<1> QED
  BY <1>7, <1>8, <1>9 DEF Next, Done

\* The workers that hold a task.
Holders == {w \in Worker : Holding(w)}

LEMMA HoldersAfter ==
  ASSUME NEW w \in Worker, OthersKeep(w)
  PROVE  Holders' = IF Holding(w)' THEN Holders \cup {w} ELSE Holders \ {w}
<1>1. \A v \in Worker \ {w} : Holding(v)' = Holding(v)
  BY OthersHands
<1> QED
  BY <1>1 DEF Holders

\* Counting one more, and one less.
LEMMA CountOne ==
  ASSUME NEW S, IsFiniteSet(S), NEW x
  PROVE  /\ IsFiniteSet(S \cup {x}) /\ IsFiniteSet(S \ {x}) /\ Cardinality(S) \in Nat
         /\ Cardinality(S \cup {x}) = Cardinality(S) + (IF x \in S THEN 0 ELSE 1)
         /\ Cardinality(S \ {x}) = Cardinality(S) - (IF x \in S THEN 1 ELSE 0)
  BY FS_AddElement, FS_RemoveElement, FS_CardinalityType

LEMMA CountStep ==
  ASSUME TypeOK, HelperInv, PositionInv, HandInv, CountInv, DirectoryInv, [Next]_vars
  PROVE  CountInv'
<1>0. /\ IsFiniteSet(Queued) /\ IsFiniteSet(Holders) /\ pending = Cardinality(Queued) + Cardinality(Holders)
      /\ Caller \in Worker /\ OnceIn(Line) /\ Cardinality(Queued) \in Nat /\ Cardinality(Holders) \in Nat
  BY Constants, HoldersCount DEF CountInv, Holders, HandInv
<1>a. ASSUME IsFiniteSet(Queued'), pending' = Cardinality(Queued') + Cardinality(Holders') PROVE CountInv'
  BY <1>a DEF CountInv, Holders
<1>1. ASSUME Rests PROVE CountInv'
  <2>1. Holders' = Holders
    BY <1>1 DEF Rests, Keeps, Holders
  <2> QED
    BY <1>0, <1>a, <1>1, <2>1 DEF Rests, SameTasks
<1>2. ASSUME NEW w \in Worker, Advances(w) \/ Drops(w) PROVE CountInv'
  <2>1. OthersKeep(w) /\ SameTasks /\ Holding(w) /\ Holding(w)'
    BY <1>2, HoldsInside DEF Advances, Drops
  <2>2. Holders' = Holders
    BY <2>1, HoldersAfter DEF Holders
  <2> QED
    BY <1>0, <1>a, <2>1, <2>2 DEF SameTasks
<1>3. ASSUME NEW w \in Worker, Releases(w) PROVE CountInv'
  <2>1. Holders' = Holders \ {w} /\ w \in Holders
    BY <1>3, HoldersAfter DEF Releases, Holders
  <2>2. Cardinality(Holders') = Cardinality(Holders) - 1
    BY <1>0, <2>1, CountOne
  <2>3. Queued' = Queued /\ pending' = pending - 1
    BY <1>3 DEF Releases
  <2> QED
    BY <1>0, <1>a, <2>2, <2>3
<1>4. ASSUME NEW w \in Worker, NEW t \in Queued, Takes(w, t) PROVE CountInv'
  <2>1. Holders' = Holders \cup {w} /\ w \notin Holders
    BY <1>4, HoldersAfter DEF Takes, Holders
  <2>2. Cardinality(Holders') = Cardinality(Holders) + 1
    BY <1>0, <2>1, CountOne
  <2>3. Queued' = Queued \ {t} /\ pending' = pending
    BY <1>4 DEF Takes
  <2>4. Cardinality(Queued') = Cardinality(Queued) - 1 /\ IsFiniteSet(Queued')
    BY <1>0, <2>3, CountOne
  <2> QED
    BY <1>0, <1>a, <2>2, <2>3, <2>4
<1>5. ASSUME NEW w \in Worker, NEW t, OthersKeep(w), Holding(w), Holding(w)', t \notin Queued,
             Queued' = Queued \cup {t}, pending' = pending + 1
      PROVE  CountInv'
  <2>1. Holders' = Holders
    BY <1>5, HoldersAfter DEF Holders
  <2>2. Cardinality(Queued') = Cardinality(Queued) + 1 /\ IsFiniteSet(Queued')
    BY <1>0, <1>5, CountOne
  <2> QED
    BY <1>0, <1>a, <1>5, <2>1, <2>2
<1>6. ASSUME NEW w \in Worker, Entry(w) PROVE CountInv'
  <2> DEFINE n == Names(w)[at[w] + 1]
  <2>1. OthersKeep(w) /\ Holding(w) /\ Holding(w)'
    BY <1>6, EntryForm
  <2>2. CASE Schedules(n)
    <3>1. Queued' = Queued \cup {DirectoryTask(n)} /\ pending' = pending + 1 /\ \A x \in Underway : x.dir # n
      BY <1>0, <1>6, <2>2, EntryQueues
    <3>2. DirectoryTask(n) \notin Queued
      BY <3>1, Tokens DEF DirectoryTask
    <3> QED
      BY <1>5, <2>1, <3>1, <3>2
  <2>3. CASE ~Schedules(n)
    <3>1. Queued' = Queued /\ pending' = pending
      BY <1>0, <1>6, <2>3, EntryQueues
    <3>2. Holders' = Holders
      BY <2>1, HoldersAfter DEF Holders
    <3> QED
      BY <1>0, <1>a, <3>1, <3>2
  <2> QED
    BY <2>2, <2>3
<1>7. ASSUME NEW w \in Worker, Continue(w) PROVE CountInv'
  BY <1>5, <1>7, ContinueForm, ContinueQueues
<1>8. ASSUME NextRoot PROVE CountInv'
  <2>1. OthersKeep(Caller) /\ ~Holding(Caller) /\ Holding(Caller)' /\ Queued' = Queued /\ pending' = pending + 1
    BY <1>0, <1>8, RootForm
  <2>2. Holders' = Holders \cup {Caller} /\ Caller \notin Holders
    BY <1>0, <2>1, HoldersAfter DEF Holders
  <2>3. Cardinality(Holders') = Cardinality(Holders) + 1
    BY <1>0, <2>2, CountOne
  <2> QED
    BY <1>0, <1>a, <2>1, <2>3
<1>9. ASSUME NEW w \in Worker, TaskStep(w) \/ Panic(w) PROVE CountInv'
  BY <1>1, <1>2, <1>3, <1>6, <1>7, <1>9, TaskForms
<1>10. ASSUME NEW w \in Worker, PoolStep(w) PROVE CountInv'
  BY <1>1, <1>4, <1>10, PoolForms
<1>11. ASSUME AloneStep \/ Finish \/ Cancel \/ UNCHANGED vars PROVE CountInv'
  BY <1>0, <1>1, <1>4, <1>8, <1>11, AloneForms
<1> QED
  BY <1>9, <1>10, <1>11 DEF Next, Done

-----------------------------------------------------------------------------
(* Every task starts on a stride, and nobody is late by more than one.     *)

\* The position of worker w, and how late it may be.
PositionAt(w) ==
  /\ Inside(w) => Aligned(task[w])
  /\ Place(w) \in {"carried", "read", "ruled"} => task[w].next = 0 /\ at[w] = 0
  /\ Place(w) = "list" => at[w] \in task[w].next .. BatchEnd(w)
  /\ Place(w) = "entry" => at[w] \in task[w].next .. BatchEnd(w) - 1 /\ Boundary(w)
LateAt(w) ==
  /\ late[w] <= Stride
  /\ late[w] > 0 => Stopping
  /\ Place(w) \in {"carried", "read", "ruled", "entry"} => late[w] = 0
  /\ Place(w) = "list" /\ ~Boundary(w) => late[w] <= at[w] % Stride

LEMMA Positions ==
  /\ PositionInv <=> (\A t \in Queued : Aligned(t)) /\ \A w \in Worker : PositionAt(w)
  /\ PositionInv' <=> (\A t \in Queued' : Aligned(t)) /\ \A w \in Worker : PositionAt(w)'
  /\ LateInv <=> \A w \in Worker : LateAt(w)
  /\ LateInv' <=> \A w \in Worker : LateAt(w)'
<1>1. PositionInv <=> (\A t \in Queued : Aligned(t)) /\ \A w \in Worker : PositionAt(w)
  BY DEF PositionInv, PositionAt
<1>2. PositionInv' <=> (\A t \in Queued' : Aligned(t)) /\ \A w \in Worker : PositionAt(w)'
  BY DEF PositionInv, PositionAt, Aligned
<1>3. LateInv <=> \A w \in Worker : LateAt(w)
  BY DEF LateInv, LateAt
<1>4. LateInv' <=> \A w \in Worker : LateAt(w)'
  BY DEF LateInv, LateAt
<1> QED
  BY <1>1, <1>2, <1>3, <1>4

LEMMA OthersPosition ==
  ASSUME PositionInv, NEW w, OthersKeep(w), NEW v \in Worker \ {w}
  PROVE  PositionAt(v)'
<1>1. PositionAt(v)
  BY Positions
<1>2. CASE Inside(v)
  <2>1. Place(v)' = Place(v) /\ task'[v] = task[v] /\ at'[v] = at[v] /\ Inside(v)' = Inside(v)
    BY <1>2 DEF OthersKeep, Keeps
  <2>2. BatchEnd(v)' = BatchEnd(v) /\ Boundary(v)' = Boundary(v)
    BY <2>1 DEF BatchEnd, Names, Boundary
  <2> QED
    BY <1>1, <2>1, <2>2 DEF PositionAt, Aligned
<1>3. CASE ~Inside(v)
  <2>1. ~Inside(v)'
    BY <1>3 DEF OthersKeep, Keeps
  <2> QED
    BY <2>1 DEF PositionAt, Inside, Stages
<1> QED
  BY <1>2, <1>3

\* Worker w is the only one that moves.
LEMMA OnePosition ==
  ASSUME PositionInv, NEW w, OthersKeep(w), \A t \in Queued' : t \in Queued \/ Aligned(t), PositionAt(w)'
  PROVE  PositionInv'
<1>1. \A v \in Worker \ {w} : PositionAt(v)'
  BY OthersPosition
<1>2. \A t \in Queued' : Aligned(t)
  BY Positions
<1> QED
  BY <1>1, <1>2, Positions

\* A task that starts a directory is in place.
LEMMA StartAligned ==
  /\ \A t \in Task : t.next = 0 => Aligned(t)
  /\ \A d \in Dir : Aligned(DirectoryTask(d))
<1>1. 0 % Stride = 0 /\ \A d \in Dir : 0 <= Len(Listing[d])
  BY Constants
<1>2. \A t \in Task : t.dir \in Dir
  BY DEF Task
<1> QED
  BY <1>1, <1>2 DEF Aligned, DirectoryTask

\* Worker w stays in its directory, and its task is the one it had.
LEMMA TaskPosition ==
  ASSUME TypeOK, PositionInv, NEW w \in Worker, TaskStep(w), ~Entry(w), Inside(w)'
  PROVE  PositionAt(w)'
<1>1. /\ PositionAt(w) /\ task[w].next \in Nat /\ task[w].dir \in Dir /\ at[w] \in Nat /\ task[w] \in Task
      /\ BatchEnd(w) \in Nat /\ task \in [Worker -> Task] /\ at \in [Worker -> Nat] /\ Len(Names(w)) \in Nat
  BY TypesOf, BatchOf, Positions
<1>2. task' = task => BatchEnd(w)' = BatchEnd(w)
  BY DEF BatchEnd, Names
<1>3. Aligned(task[w]) => task[w].next <= BatchEnd(w)
  BY <1>1, Constants DEF Aligned, BatchEnd, Names
<1>4. CASE Begin(w)
  <2>1. /\ task' = task /\ at'[w] = task[w].next /\ Place(w) = "begin"
        /\ Place(w)' = (IF Stopping THEN "release" ELSE IF task[w].next > 0 THEN "list"
                        ELSE IF Is(task[w].dir, "carried") THEN "carried" ELSE "read")
    BY <1>1, <1>4, TaskPlaces DEF Goes
  <2>2. Aligned(task[w])
    BY <1>1, <2>1 DEF PositionAt, Inside, Stages
  <2> QED
    BY <1>1, <1>2, <1>3, <2>1, <2>2 DEF PositionAt, Aligned
<1>5. CASE CheckStop(w)
  <2>1. /\ task' = task /\ at' = at /\ Place(w) \in {"carried", "ruled"}
        /\ Place(w)' \in {"release", "read", "list"}
    BY <1>5, TaskPlaces DEF Goes
  <2>2. Aligned(task[w])
    BY <1>1, <2>1 DEF PositionAt, Inside, Stages
  <2> QED
    BY <1>1, <1>2, <1>3, <2>1, <2>2 DEF PositionAt, Aligned
<1>6. CASE Read(w)
  <2>1. task' = task /\ at' = at /\ Place(w) = "read" /\ Place(w)' \in {"ruled", "list"}
    BY <1>6, TaskPlaces DEF Goes
  <2>2. Aligned(task[w])
    BY <1>1, <2>1 DEF PositionAt, Inside, Stages
  <2> QED
    BY <1>1, <1>2, <1>3, <2>1, <2>2 DEF PositionAt, Aligned
<1>7. CASE List(w)
  <2>1. task' = task /\ at' = at /\ Place(w) = "list" /\ Place(w)' \in {"release", "entry"}
    BY <1>7, TaskPlaces DEF Goes
  <2>2. at[w] < BatchEnd(w) /\ Boundary(w) /\ Boundary(w)' = Boundary(w)
    BY <1>7, <2>1 DEF List, Boundary
  <2>3. Aligned(task[w]) /\ at[w] \in task[w].next .. BatchEnd(w)
    BY <1>1, <2>1 DEF PositionAt, Inside, Stages
  <2> QED
    BY <1>1, <1>2, <2>1, <2>2, <2>3 DEF PositionAt, Aligned
<1>8. ASSUME \E from \in {"read", "list", "release", "abandon", "unwind", "unwound"} :
                \E to \in {"release", "roots", "alone", "idle", "join", "unwound", "leave"} : Goes(w, from, to)
      PROVE  FALSE
  BY <1>8, GoesKeeps DEF Inside, Stages
<1>9. CASE ReadFails(w) \/ Continue(w) \/ EndListing(w)
  BY <1>8, <1>9, TaskPlaces
<1>10. CASE Release(w) \/ RecordPanic(w)
  BY <1>8, <1>10, TaskPlaces DEF Loop
<1> QED
  BY <1>4, <1>5, <1>6, <1>7, <1>9, <1>10 DEF TaskStep

LEMMA EntryPosition ==
  ASSUME TypeOK, PositionInv, NEW w \in Worker, Entry(w)
  PROVE  PositionAt(w)' /\ Place(w)' = "list" /\ at'[w] = at[w] + 1
<1>1. /\ PositionAt(w) /\ at[w] \in Nat /\ task[w].next \in Nat /\ BatchEnd(w) \in Nat
      /\ at[w] < BatchEnd(w) /\ Place(w) \in {"list", "entry"}
  BY TypesOf, BatchOf, Positions DEF Entry
<1>2. Inside(w) /\ Inside(w)' /\ task' = task /\ at'[w] = at[w] + 1 /\ Place(w)' = "list"
  BY EntryForm
<1>3. BatchEnd(w)' = BatchEnd(w)
  BY <1>2 DEF BatchEnd, Names
<1>4. task[w].next <= at[w] /\ Aligned(task[w])
  BY <1>1, <1>2 DEF PositionAt
<1> QED
  BY <1>1, <1>2, <1>3, <1>4 DEF PositionAt, Aligned

LEMMA PositionStep ==
  ASSUME TypeOK, HelperInv, PositionInv, HandInv, DirectoryInv, [Next]_vars
  PROVE  PositionInv'
<1>0. OnceIn(Line) /\ Caller \in Worker
  BY Constants DEF HandInv
<1>1. ASSUME Rests PROVE PositionInv'
  <2>1. Queued' = Queued
    BY <1>1 DEF Rests, SameTasks
  <2>2. OthersKeep(Shared)
    BY <1>1 DEF Rests, OthersKeep
  <2>3. \A v \in Worker : PositionAt(v)'
    BY <2>2, OthersPosition, Constants
  <2> QED
    BY <2>1, <2>3, Positions
<1>2. ASSUME NEW w \in Worker, NEW t \in Queued, t \in Task, Takes(w, t), at' = at PROVE PositionInv'
  <2>1. OthersKeep(w) /\ Queued' \subseteq Queued /\ task'[w] = t /\ (Place(w)' = "begin" \/ ~Inside(w)')
    BY <1>2 DEF Takes
  <2>2. Aligned(t)
    BY Positions
  <2>3. PositionAt(w)'
    BY <2>1, <2>2 DEF PositionAt, Inside, Stages, Aligned
  <2> QED
    BY <2>1, <2>3, OnePosition
<1>3. ASSUME NEW w \in Worker, Entry(w) PROVE PositionInv'
  <2> DEFINE n == Names(w)[at[w] + 1]
  <2>1. OthersKeep(w)
    BY <1>3, EntryForm
  <2>2. n \in Name
    BY <1>3, EntryAhead DEF Entry
  <2>3. \A t \in Queued' : t \in Queued \/ (t = DirectoryTask(n) /\ n \in Dir)
    BY <1>0, <1>3, <2>2, EntryQueues, ScheduledName
  <2>4. \A t \in Queued' : t \in Queued \/ Aligned(t)
    BY <2>3, StartAligned
  <2> QED
    BY <1>3, <2>1, <2>4, EntryPosition, OnePosition
<1>4. ASSUME NEW w \in Worker, Continue(w) PROVE PositionInv'
  <2>1. OthersKeep(w) /\ ~Inside(w)' /\ Place(w) = "list" /\ Inside(w)
    BY <1>4, ContinueForm
  <2>2. Queued' = Queued \cup {Continuation(w)}
    BY <1>4, ContinueQueues
  <2>3. Aligned(task[w]) /\ task[w].next \in Nat /\ Len(Names(w)) \in Nat /\ at[w] = BatchEnd(w) /\ at[w] < Len(Names(w))
    BY <1>4, <2>1, Positions, TypesOf DEF PositionAt, Continue
  <2>4. at[w] = task[w].next + BatchSize
    BY <2>3, Constants DEF BatchEnd
  <2>5. (task[w].next + BatchSize) % Stride = 0
    <3>1. task[w].next % Stride = 0 /\ BatchSize % Stride = 0
      BY <2>3, StrideAssumption DEF Aligned
    <3>2. Stride \in Int /\ Stride > 0 /\ BatchSize \in Int /\ task[w].next \in Int
      BY <2>3, Constants
    <3> QED
      BY <3>1, <3>2, SumRest
  <2>6. Aligned(Continuation(w))
    BY <2>3, <2>4, <2>5, TypesOf DEF Aligned, Continuation, Names
  <2>7. PositionAt(w)'
    BY <2>1 DEF PositionAt, Inside, Stages
  <2> QED
    BY <2>1, <2>2, <2>6, <2>7, OnePosition
<1>5. ASSUME NextRoot PROVE PositionInv'
  <2>1. /\ OthersKeep(Caller) /\ Queued' = Queued /\ nextRoot \in 1 .. Len(Roots)
        /\ task'[Caller] = DirectoryTask(Roots[nextRoot]) /\ Place(Caller)' = "begin"
    BY <1>0, <1>5, RootForm
  <2>2. Aligned(DirectoryTask(Roots[nextRoot]))
    BY <2>1, Constants, StartAligned
  <2>3. PositionAt(Caller)'
    BY <2>1, <2>2 DEF PositionAt, Inside, Stages, Aligned
  <2> QED
    BY <2>1, <2>3, OnePosition
<1>6. ASSUME NEW w \in Worker, TaskStep(w) \/ Panic(w), ~Entry(w), ~Continue(w) PROVE PositionInv'
  <2>1. Rests \/ (OthersKeep(w) /\ Queued' = Queued)
    BY <1>6, TaskForms DEF Advances, Drops, Releases, SameTasks
  <2>2. PositionAt(w)'
    <3>1. CASE Inside(w)'
      <4>1. ~Panic(w)
        <5>1. Panic(w) => \E from \in {"read", "list", "entry"} : Goes(w, from, "unwind")
          BY TaskPlaces
        <5> QED
          BY <3>1, <5>1, GoesKeeps DEF Inside, Stages
      <4> QED
        BY <1>6, <3>1, <4>1, TaskPosition
    <3>2. CASE ~Inside(w)'
      BY <3>2 DEF PositionAt, Inside, Stages
    <3> QED
      BY <3>1, <3>2
  <2> QED
    BY <1>1, <2>1, <2>2, OnePosition
<1>7. ASSUME NEW w \in Worker, PoolStep(w) PROVE PositionInv'
  BY <1>1, <1>2, <1>7, PoolForms
<1>8. ASSUME AloneStep \/ Finish \/ Cancel \/ UNCHANGED vars PROVE PositionInv'
  BY <1>0, <1>1, <1>2, <1>5, <1>8, AloneForms
<1> QED
  BY <1>3, <1>4, <1>6, <1>7, <1>8 DEF Next, Done

\* Only an entry makes a worker later.
LEMMA SameLate ==
  ASSUME TypeOK, [Next]_vars, \A w \in Worker : ~Entry(w)
  PROVE  late' = late
<1>1. \A w \in Worker : TaskStep(w) \/ Panic(w) => late' = late
  BY DEF TaskStep, Panic, Begin, CheckStop, ReadFails, Read, List, Continue, EndListing, Release, RecordPanic
<1>2. \A w \in Worker : PoolStep(w) => late' = late
  BY DEF PoolStep, GrowDone, ClaimSlot, NoScratch, Spawn, Refused, TakeTask, NoMoreTasks, EndHelper
<1>3. AloneStep => late' = late
  BY DEF AloneStep, NextRoot, RootsStopped, RootsDone, WidenPool, DrainTake, DrainEmpty
<1>4. Finish \/ Cancel \/ UNCHANGED vars => late' = late
  BY DEF Finish, Cancel, vars
<1> QED
  BY <1>1, <1>2, <1>3, <1>4 DEF Next, Done

\* A worker that passes a test for the stop is not late.
LEMMA OnTime ==
  ASSUME TypeOK, LateInv, NEW w \in Worker, TaskStep(w) \/ Panic(w), ~Entry(w),
         Place(w)' \in {"carried", "read", "ruled", "list", "entry"}
  PROVE  late[w] = 0
<1>1. late[w] \in Nat /\ LateAt(w)
  BY Positions, TypesOf
<1>2. ~Stopping => late[w] = 0
  BY <1>1 DEF LateAt
<1>3. CASE Begin(w) \/ CheckStop(w) \/ List(w)
  <2>1. Stopping => Place(w)' = "release"
    BY <1>3, TaskPlaces DEF Goes
  <2> QED
    BY <1>2, <2>1
<1>4. CASE Read(w)
  <2>1. Place(w) = "read"
    BY <1>4, TaskPlaces DEF Goes
  <2> QED
    BY <1>1, <2>1 DEF LateAt
<1>5. CASE ReadFails(w) \/ Continue(w) \/ EndListing(w) \/ RecordPanic(w) \/ Panic(w)
  BY <1>5, TaskPlaces DEF Goes
<1>6. CASE Release(w)
  BY <1>6, TaskPlaces DEF Goes, Loop
<1> QED
  BY <1>3, <1>4, <1>5, <1>6 DEF TaskStep

LEMMA EntryLate ==
  ASSUME TypeOK, PositionInv, LateInv, NEW w \in Worker, Entry(w)
  PROVE  LateAt(w)'
<1>1. /\ late[w] \in Nat /\ at[w] \in Nat /\ Stride \in Int /\ Stride > 0 /\ late \in [Worker -> Nat]
      /\ LateAt(w) /\ PositionAt(w)
  BY TypesOf, Positions, Constants
<1>2. at'[w] = at[w] + 1 /\ Place(w)' = "list"
  BY EntryForm
<1>3. late'[w] = (IF Stopping THEN late[w] + 1 ELSE late[w]) /\ (Stopping => Stopping')
  <2>1. [Next]_vars
    BY DEF Next, TaskStep
  <2> QED
    BY <1>1, <2>1, StopsStay DEF Entry
<1>4. late[w] <= at[w] % Stride
  <2>1. at[w] % Stride \in Nat
    BY <1>1, Divided
  <2>2. Place(w) = "entry" \/ (Place(w) = "list" /\ ~Boundary(w))
    BY DEF Entry, AtEntry, Place, Growing
  <2> QED
    BY <1>1, <2>1, <2>2 DEF LateAt
<1>5. (at[w] + 1) % Stride = 0 \/ ((at[w] + 1) % Stride = (at[w] % Stride) + 1 /\ (at[w] % Stride) + 1 < Stride)
  <2>1. Stride \in Int /\ Stride > 0 /\ at[w] \in Int
    BY <1>1
  <2> QED
    BY <2>1, NextRest, Zenon
<1>6. at[w] % Stride \in 0 .. Stride - 1
  BY <1>1, Divided
<1>7. CASE Stopping
  <2>1. late'[w] = late[w] + 1 /\ Stopping'
    BY <1>3, <1>7
  <2>2. Boundary(w)' <=> (at[w] + 1) % Stride = 0
    BY <1>2 DEF Boundary
  <2>3. late'[w] <= Stride
    BY <1>1, <1>4, <1>6, <2>1
  <2>4. ~Boundary(w)' => late'[w] <= at'[w] % Stride
    BY <1>1, <1>2, <1>4, <1>5, <1>6, <2>1, <2>2
  <2> QED
    BY <1>2, <2>1, <2>3, <2>4 DEF LateAt
<1>8. CASE ~Stopping
  <2>1. late'[w] = 0
    BY <1>1, <1>3, <1>8 DEF LateAt
  <2>2. (at[w] + 1) % Stride \in 0 .. Stride - 1
    BY <1>1, Divided
  <2> QED
    BY <1>1, <1>2, <2>1, <2>2 DEF LateAt
<1> QED
  BY <1>7, <1>8

LEMMA LateStep ==
  ASSUME TypeOK, TypeOK', HelperInv, PositionInv, HandInv, LateInv, [Next]_vars
  PROVE  LateInv'
<1>0. Stopping => Stopping'
  BY StopsStay
<1>1. ASSUME NEW w, OthersKeep(w), NEW v \in Worker \ {w}, late'[v] = late[v] PROVE LateAt(v)'
  <2>1. LateAt(v)
    BY Positions
  <2>2. CASE Inside(v)
    <3>1. Place(v)' = Place(v) /\ at'[v] = at[v]
      BY <1>1, <2>2 DEF OthersKeep, Keeps
    <3>2. Boundary(v)' = Boundary(v)
      BY <3>1 DEF Boundary
    <3> QED
      BY <1>0, <1>1, <2>1, <3>1, <3>2 DEF LateAt
  <2>3. CASE ~Inside(v)
    <3>1. ~Inside(v)'
      BY <1>1, <2>3 DEF OthersKeep, Keeps
    <3> QED
      BY <1>0, <1>1, <2>1, <3>1 DEF LateAt, Inside, Stages
  <2> QED
    BY <2>2, <2>3
<1>2. ASSUME NEW w \in Worker, Entry(w) PROVE LateInv'
  <2>1. OthersKeep(w)
    BY <1>2, EntryForm
  <2>2. \A v \in Worker \ {w} : late'[v] = late[v]
    BY <1>2 DEF Entry, TypeOK
  <2>3. LateAt(w)'
    BY <1>2, EntryLate
  <2> QED
    BY <1>1, <2>1, <2>2, <2>3, Positions
<1>3. CASE \A w \in Worker : ~Entry(w)
  <2>1. late' = late
    BY <1>3, SameLate
  <2>2. ASSUME NEW w, OthersKeep(w), w \in Worker => Place(w)' \notin {"carried", "read", "ruled", "list", "entry"} \/ late[w] = 0
        PROVE  LateInv'
    <3>1. ASSUME w \in Worker PROVE LateAt(w)'
      <4>1. LateAt(w) /\ late[w] \in Nat /\ Stride \in Nat \ {0}
        BY <3>1, Positions, TypesOf, Constants
      <4>2. at'[w] % Stride \in 0 .. Stride - 1
        <5>1. at'[w] \in Nat
          BY <3>1 DEF TypeOK
        <5> QED
          BY <4>1, <5>1, Divided
      <4> QED
        BY <1>0, <2>1, <2>2, <3>1, <4>1, <4>2 DEF LateAt
    <3> QED
      BY <1>1, <2>1, <2>2, <3>1, Positions
  <2>3. CASE Rests
    BY <2>2, <2>3, Constants DEF Rests, OthersKeep
  <2>4. ASSUME NEW w \in Worker, TaskStep(w) \/ Panic(w) PROVE LateInv'
    <3>1. Rests \/ OthersKeep(w)
      BY <1>3, <2>4, TaskForms, ContinueForm DEF Advances, Drops, Releases
    <3> QED
      BY <1>3, <2>2, <2>3, <2>4, <3>1, OnTime
  <2>5. ASSUME NEW w \in Worker, NEW t \in Queued, Takes(w, t) PROVE LateInv'
    BY <2>2, <2>5 DEF Takes, Inside, Stages
  <2>6. ASSUME NextRoot PROVE LateInv'
    BY <2>2, <2>6, RootForm DEF HandInv
  <2>7. ASSUME NEW w \in Worker, PoolStep(w) PROVE LateInv'
    BY <2>3, <2>5, <2>7, PoolForms
  <2>8. ASSUME AloneStep \/ Finish \/ Cancel \/ UNCHANGED vars PROVE LateInv'
    BY <2>3, <2>5, <2>6, <2>8, AloneForms, Constants
  <2> QED
    BY <2>4, <2>7, <2>8 DEF Next, Done
<1> QED
  BY <1>2, <1>3

-----------------------------------------------------------------------------
(* The directories under way, step by step.                                *)

LEMMA OneToken ==
  ASSUME HandInv, NEW x \in Underway, NEW y \in Underway, x.dir = y.dir
  PROVE  x = y
<1>1. OnceIn(Line)
  BY DEF HandInv
<1>2. \A t, u \in Queued : t.dir = u.dir => t = u
  BY <1>1 DEF Queued, TasksIn, OnceIn, Distinct, Apart, ToSet
<1>3. \A t \in Queued : \A v \in Worker : Inside(v) => t.dir # task[v].dir
  BY DEF HandInv
<1>4. \A u, v \in Worker : Inside(u) /\ Inside(v) /\ task[u].dir = task[v].dir => u = v
  BY DEF HandInv
<1>5. \/ \E t \in Queued : x = OfTask(t) /\ x.dir = t.dir
      \/ \E v \in Worker : Inside(v) /\ x = OfHand(v) /\ x.dir = task[v].dir
  BY Tokens
<1>6. \/ \E t \in Queued : y = OfTask(t) /\ y.dir = t.dir
      \/ \E v \in Worker : Inside(v) /\ y = OfHand(v) /\ y.dir = task[v].dir
  BY Tokens
<1> QED
  BY <1>2, <1>3, <1>4, <1>5, <1>6

LEMMA RestTokens ==
  ASSUME Rests
  PROVE  Underway' = Underway
<1>1. Queued' = Queued
  BY DEF Rests, SameTasks
<1>2. \A v \in Worker : Inside(v)' = Inside(v) /\ (Inside(v) => OfHand(v)' = OfHand(v))
  BY DEF Rests, Keeps, OfHand
<1>3. \A x : x \in Underway' <=> x \in Underway
  BY <1>1, <1>2, Tokens, TokensAfter
<1> QED
  BY <1>3

\* Worker w gets on with a directory or is done with it.
LEMMA HandTokens ==
  ASSUME HandInv, NEW w \in Worker, OthersKeep(w), Queued' = Queued, Inside(w)
  PROVE  /\ OfHand(w) \in Underway
         /\ Underway' = (Underway \ {OfHand(w)}) \cup (IF Inside(w)' THEN {OfHand(w)'} ELSE {})
<1>1. \A v \in Worker \ {w} : Inside(v)' = Inside(v) /\ (Inside(v) => OfHand(v)' = OfHand(v))
  BY OthersHands
<1>2. OfHand(w) \in Underway /\ OfHand(w).dir = task[w].dir
  BY Tokens
<1>3. \A v \in Worker \ {w} : Inside(v) => OfHand(v) # OfHand(w)
  <2>1. \A v \in Worker \ {w} : Inside(v) => OfHand(v).dir # OfHand(w).dir
    BY Tokens DEF HandInv
  <2> QED
    BY <2>1
<1>4. \A t \in Queued : OfTask(t) # OfHand(w)
  <2>1. \A t \in Queued : OfTask(t).dir # OfHand(w).dir
    BY Tokens DEF HandInv
  <2> QED
    BY <2>1
<1>5. \A x : x \in Underway' <=> (x \in Underway /\ x # OfHand(w)) \/ (Inside(w)' /\ x = OfHand(w)')
  <2>1. ASSUME NEW x, x \in Underway'
        PROVE  (x \in Underway /\ x # OfHand(w)) \/ (Inside(w)' /\ x = OfHand(w)')
    BY <1>1, <1>3, <1>4, <2>1, Tokens, TokensAfter
  <2>2. ASSUME NEW x, (x \in Underway /\ x # OfHand(w)) \/ (Inside(w)' /\ x = OfHand(w)')
        PROVE  x \in Underway'
    BY <1>1, <2>2, Tokens, TokensAfter
  <2> QED
    BY <2>1, <2>2
<1> QED
  BY <1>2, <1>5

\* A directory that is taken from a queue stays under way, unless it is
\* abandoned.
LEMMA TakeTokens ==
  ASSUME HandInv, NEW w \in Worker, NEW t \in Queued, Takes(w, t)
  PROVE  \/ Underway' = Underway
         \/ Stopping /\ OfTask(t) \in Underway /\ Underway' = Underway \ {OfTask(t)}
<1>1. /\ Queued' = Queued \ {t} /\ task'[w] = t /\ ~Inside(w) /\ OthersKeep(w)
      /\ Place(w)' = "begin" \/ (~Inside(w)' /\ Stopping)
  BY HoldsInside DEF Takes
<1>2. \A v \in Worker \ {w} : Inside(v)' = Inside(v) /\ (Inside(v) => OfHand(v)' = OfHand(v))
  BY <1>1, OthersHands
<1>3. CASE Place(w)' = "begin"
  <2>1. Inside(w)' /\ OfHand(w)' = OfTask(t)
    BY <1>1, <1>3 DEF Inside, Stages, OfHand
  <2>2. \A x : x \in Underway' <=> x \in Underway
    <3>1. ASSUME NEW x, x \in Underway' PROVE x \in Underway
      BY <1>1, <1>2, <2>1, <3>1, Tokens, TokensAfter
    <3>2. ASSUME NEW x, x \in Underway PROVE x \in Underway'
      BY <1>1, <1>2, <2>1, <3>2, Tokens, TokensAfter
    <3> QED
      BY <3>1, <3>2
  <2> QED
    BY <2>2
<1>4. CASE ~Inside(w)' /\ Stopping
  <2>1. \A u \in Queued \ {t} : OfTask(u) # OfTask(t)
    <3>1. \A u \in Queued \ {t} : u.dir # t.dir
      BY DEF Queued, TasksIn, OnceIn, Distinct, Apart, ToSet, HandInv
    <3> QED
      BY <3>1, Tokens
  <2>2. \A v \in Worker : Inside(v) => OfHand(v) # OfTask(t)
    <3>1. \A v \in Worker : Inside(v) => t.dir # task[v].dir
      BY DEF HandInv
    <3> QED
      BY <3>1, Tokens
  <2>3. \A x : x \in Underway' <=> x \in Underway /\ x # OfTask(t)
    <3>1. ASSUME NEW x, x \in Underway' PROVE x \in Underway /\ x # OfTask(t)
      BY <1>1, <1>2, <1>4, <2>1, <2>2, <3>1, Tokens, TokensAfter
    <3>2. ASSUME NEW x, x \in Underway, x # OfTask(t) PROVE x \in Underway'
      BY <1>1, <1>2, <3>2, Tokens, TokensAfter
    <3> QED
      BY <3>1, <3>2
  <2>4. OfTask(t) \in Underway
    BY Tokens
  <2> QED
    BY <1>4, <2>3, <2>4
<1> QED
  BY <1>1, <1>3, <1>4

LEMMA EntryTokens ==
  ASSUME TypeOK, PositionInv, HandInv, DirectoryInv, NEW w \in Worker, Entry(w)
  PROVE  LET n == Names(w)[at[w] + 1]
             x == OfHand(w) IN
         /\ x \in Underway /\ x = On(task[w].dir, "going", at[w])
         /\ Underway' = (Underway \ {x}) \cup {On(task[w].dir, "going", at[w] + 1)}
                        \cup (IF Schedules(n) THEN {On(n, "waiting", 0)} ELSE {})
<1> DEFINE n == Names(w)[at[w] + 1]
           x == OfHand(w)
           y == On(task[w].dir, "going", at[w] + 1)
<1>0. OnceIn(Line)
  BY DEF HandInv
<1>1. x \in Underway /\ x = On(task[w].dir, "going", at[w]) /\ Inside(w) /\ task[w].dir \in Dir /\ x.dir = task[w].dir
  BY EntryAhead, Tokens DEF Entry
<1>2. /\ OthersKeep(w) /\ Inside(w)' /\ task' = task /\ at'[w] = at[w] + 1 /\ Place(w)' = "list"
  BY EntryForm
<1>3. OfHand(w)' = y
  BY <1>2 DEF OfHand
<1>4. \A v \in Worker \ {w} : Inside(v)' = Inside(v) /\ (Inside(v) => OfHand(v)' = OfHand(v) /\ OfHand(v) # x)
  <2>1. \A v \in Worker \ {w} : Inside(v) => OfHand(v).dir # OfHand(w).dir
    BY <1>1, Tokens DEF HandInv
  <2> QED
    BY <1>2, <2>1, OthersHands
<1>5. \A t \in Queued : OfTask(t) # x
  <2>1. \A t \in Queued : OfTask(t).dir # x.dir
    BY <1>1, Tokens DEF HandInv
  <2> QED
    BY <2>1
<1>6. CASE Schedules(n)
  <2>1. Queued' = Queued \cup {DirectoryTask(n)}
    BY <1>0, <1>6, EntryQueues
  <2>2. OfTask(DirectoryTask(n)) = On(n, "waiting", 0)
    BY DEF OfTask, DirectoryTask
  <2>3. On(n, "waiting", 0) # x
    BY <1>1, Tokens
  <2>4. ASSUME NEW z, z \in Underway' PROVE (z \in Underway /\ z # x) \/ z = y \/ z = On(n, "waiting", 0)
    BY <1>3, <1>4, <1>5, <2>1, <2>2, <2>4, Tokens, TokensAfter
  <2>5. ASSUME NEW z, (z \in Underway /\ z # x) \/ z = y \/ z = On(n, "waiting", 0) PROVE z \in Underway'
    BY <1>2, <1>3, <1>4, <2>1, <2>2, <2>5, Tokens, TokensAfter
  <2>6. Underway' = (Underway \ {x}) \cup {y} \cup {On(n, "waiting", 0)}
    BY <2>4, <2>5
  <2> QED
    BY <1>1, <1>6, <2>6
<1>7. CASE ~Schedules(n)
  <2>1. Queued' = Queued
    BY <1>0, <1>7, EntryQueues
  <2>2. Underway' = (Underway \ {x}) \cup {y}
    BY <1>1, <1>2, <1>3, <2>1, HandTokens
  <2> QED
    BY <1>1, <1>7, <2>2
<1> QED
  BY <1>6, <1>7

LEMMA ContinueTokens ==
  ASSUME TypeOK, PositionInv, HandInv, NEW w \in Worker, Continue(w)
  PROVE  Underway' = Underway
<1>1. /\ OthersKeep(w) /\ Inside(w) /\ ~Inside(w)' /\ Place(w) = "list"
      /\ Queued' = Queued \cup {Continuation(w)}
  BY ContinueForm, ContinueQueues
<1>2. OfTask(Continuation(w)) = OfHand(w)
  <2>1. at[w] \in Nat /\ task[w].next \in Nat /\ at[w] = BatchEnd(w) /\ at[w] < Len(Names(w)) /\ Len(Names(w)) \in Nat
    BY TypesOf DEF Continue
  <2>2. at[w] # 0
    BY <2>1, Constants DEF BatchEnd
  <2> QED
    BY <1>1, <2>2 DEF OfTask, OfHand, Continuation
<1>3. \A v \in Worker \ {w} : Inside(v)' = Inside(v) /\ (Inside(v) => OfHand(v)' = OfHand(v))
  BY <1>1, OthersHands
<1>4. ASSUME NEW x, x \in Underway' PROVE x \in Underway
  BY <1>1, <1>2, <1>3, <1>4, Tokens, TokensAfter
<1>5. ASSUME NEW x, x \in Underway PROVE x \in Underway'
  BY <1>1, <1>2, <1>3, <1>5, Tokens, TokensAfter
<1> QED
  BY <1>4, <1>5

LEMMA RootTokens ==
  ASSUME TypeOK, HandInv, NextRoot
  PROVE  Underway' = Underway \cup {On(Roots[nextRoot], "waiting", 0)}
<1>1. /\ OthersKeep(Caller) /\ ~Inside(Caller) /\ Inside(Caller)' /\ Queued' = Queued
      /\ task'[Caller] = DirectoryTask(Roots[nextRoot]) /\ Place(Caller)' = "begin"
  BY RootForm DEF HandInv
<1>2. OfHand(Caller)' = On(Roots[nextRoot], "waiting", 0)
  BY <1>1 DEF OfHand, OfTask, DirectoryTask
<1>3. \A v \in Worker \ {Caller} : Inside(v)' = Inside(v) /\ (Inside(v) => OfHand(v)' = OfHand(v))
  BY <1>1, OthersHands
<1>4. ASSUME NEW x, x \in Underway' PROVE x \in Underway \/ x = On(Roots[nextRoot], "waiting", 0)
  BY <1>1, <1>2, <1>3, <1>4, Tokens, TokensAfter
<1>5. ASSUME NEW x, x \in Underway \/ x = On(Roots[nextRoot], "waiting", 0) PROVE x \in Underway'
  BY <1>1, <1>2, <1>3, <1>5, Tokens, TokensAfter, Constants
<1> QED
  BY <1>4, <1>5

\* What a step does to the directories under way: nothing; directory x is begun,
\* read, or goes past entry n; x is no longer under way; the next root is.
SameReach == opened' = opened /\ nextRoot' = nextRoot
Unmoved == SameReach /\ Underway' = Underway
Turns(x, stage) == /\ x \in Underway /\ nextRoot' = nextRoot
                   /\ Underway' = (Underway \ {x}) \cup {On(x.dir, stage, 0)}
Begins(x) == Turns(x, "begun") /\ x.stage = "waiting" /\ opened' = opened
Reads(x) == /\ Turns(x, "going") /\ x.stage = "begun" /\ Opens(x.dir)
            /\ opened' = opened (+) SetToBag({x.dir})
Leaves(x) == SameReach /\ x \in Underway /\ Underway' = Underway \ {x}
Passes(x, n) ==
  /\ SameReach /\ x \in Underway /\ x.dir \in Dir /\ x.next \in Nat /\ x.stage = "going"
  /\ x.next + 1 \in 1 .. Len(Listing[x.dir]) /\ n = Listing[x.dir][x.next + 1] /\ n \in Name
  /\ Underway' = (Underway \ {x}) \cup {On(x.dir, "going", x.next + 1)}
                 \cup (IF Schedules(n) THEN {On(n, "waiting", 0)} ELSE {})
AddsRoot == /\ nextRoot \in 1 .. Len(Roots) /\ nextRoot' = nextRoot + 1 /\ opened' = opened
            /\ Underway' = Underway \cup {On(Roots[nextRoot], "waiting", 0)}

\* Which of these an operation on a directory is.
LEMMA TaskFlows ==
  ASSUME TypeOK, PositionInv, HandInv, DirectoryInv, NEW w \in Worker
  PROVE  LET x == OfHand(w) IN
         /\ Begin(w) => x.dir = task[w].dir /\ IF Stopping THEN Leaves(x) ELSE IF task[w].next > 0 THEN Unmoved ELSE Begins(x)
         /\ CheckStop(w) => IF Stopping THEN Leaves(x) ELSE Unmoved
         /\ ReadFails(w) => x.dir = task[w].dir /\ x.stage = "begun" /\ Leaves(x)
         /\ Read(w) => x.dir = task[w].dir /\ Reads(x)
         /\ List(w) => IF Stopping THEN Leaves(x) ELSE Unmoved
         /\ Entry(w) => x.dir = task[w].dir /\ x.next = at[w] /\ Passes(x, Names(w)[at[w] + 1])
         /\ Continue(w) => Unmoved
         /\ EndListing(w) => x = On(task[w].dir, "going", at[w]) /\ Leaves(x)
         /\ Release(w) \/ RecordPanic(w) => Unmoved
         /\ Panic(w) => Leaves(x)
<1> DEFINE x == OfHand(w)
<1>0. /\ x.dir = task[w].dir /\ OnceIn(Line)
      /\ \A d, s, n : On(d, s, n).dir = d /\ On(d, s, n).stage = s /\ On(d, s, n).next = n
      /\ at[w] \in Nat /\ task[w].next \in Nat /\ at \in [Worker -> Nat]
  BY Tokens, TypesOf DEF HandInv
<1>1. ASSUME NEW from \in Stages, NEW to, Goes(w, from, to), TaskStep(w) \/ Panic(w), ~Entry(w), ~Continue(w)
      PROVE  /\ x \in Underway /\ Inside(w)' = (to \in Stages) /\ Place(w) = from /\ Place(w)' = to
             /\ Underway' = (Underway \ {x}) \cup (IF to \in Stages THEN {OfHand(w)'} ELSE {})
  <2>1. OthersKeep(w) /\ Place(w) = from /\ Place(w)' = to
    BY <1>1, GoesKeeps
  <2>2. Inside(w) /\ Inside(w)' = (to \in Stages)
    BY <1>1, <2>1 DEF Inside
  <2>3. Queued' = Queued
    BY <1>0, <1>1, OtherQueues
  <2> QED
    BY <2>1, <2>2, <2>3, HandTokens
<1> DEFINE Drop == x \in Underway /\ Underway' = Underway \ {x}
<1>2. ASSUME \E from \in Stages, to \in {"release", "unwind"} : Goes(w, from, to),
             TaskStep(w) \/ Panic(w), ~Entry(w), ~Continue(w)
      PROVE  Drop
  <2>1. PICK from \in Stages, to \in {"release", "unwind"} : Goes(w, from, to)
    BY <1>2
  <2>2. to \notin Stages
    BY <2>1 DEF Stages
  <2>3. x \in Underway /\ Underway' = (Underway \ {x}) \cup {}
    BY <1>1, <1>2, <2>1, <2>2
  <2> QED
    BY <2>3
<1>3. ASSUME Begin(w)
      PROVE  x.dir = task[w].dir /\ IF Stopping THEN Leaves(x) ELSE IF task[w].next > 0 THEN Unmoved ELSE Begins(x)
  <2>1. /\ at' = [at EXCEPT ![w] = task[w].next] /\ task' = task /\ SameReach /\ TaskStep(w) /\ ~Entry(w) /\ ~Continue(w)
        /\ Goes(w, "begin", IF Stopping THEN "release" ELSE IF task[w].next > 0 THEN "list"
                            ELSE IF Is(task[w].dir, "carried") THEN "carried" ELSE "read")
    BY <1>3, TaskPlaces DEF Begin, TaskStep, SameReach, Entry, AtEntry, Continue
  <2>2. x = OfTask(task[w]) /\ at'[w] = task[w].next
    BY <1>0, <2>1, GoesKeeps DEF OfHand
  <2>3. CASE Stopping
    BY <1>0, <1>2, <2>1, <2>3 DEF Stages, Leaves
  <2>4. CASE ~Stopping /\ task[w].next > 0
    <3>1. Goes(w, "begin", "list")
      BY <2>1, <2>4
    <3>2. x \in Underway /\ Underway' = (Underway \ {x}) \cup {OfHand(w)'} /\ Place(w)' = "list"
      BY <1>1, <2>1, <3>1 DEF Stages
    <3>3. OfHand(w)' = x
      BY <2>1, <2>2, <2>4, <3>2 DEF OfHand, OfTask
    <3>4. Unmoved
      BY <2>1, <3>2, <3>3 DEF Unmoved
    <3> QED
      BY <1>0, <2>4, <3>4
  <2>5. CASE ~Stopping /\ ~(task[w].next > 0)
    <3>1. PICK to \in {"carried", "read"} : Goes(w, "begin", to)
      BY <2>1, <2>5
    <3>2. x \in Underway /\ Underway' = (Underway \ {x}) \cup {OfHand(w)'} /\ Place(w)' \in {"carried", "read"}
      BY <1>1, <2>1, <3>1 DEF Stages
    <3>3. OfHand(w)' = On(task[w].dir, "begun", 0) /\ x = On(task[w].dir, "waiting", 0)
      BY <1>0, <2>1, <2>2, <2>5, <3>2 DEF OfHand, OfTask
    <3>4. Begins(x)
      BY <1>0, <2>1, <3>2, <3>3 DEF Begins, Turns, SameReach
    <3> QED
      BY <1>0, <2>5, <3>4
  <2> QED
    BY <2>3, <2>4, <2>5
<1>4. ASSUME CheckStop(w)
      PROVE  IF Stopping THEN Leaves(x) ELSE Unmoved
  <2>1. /\ at' = at /\ task' = task /\ SameReach /\ TaskStep(w) /\ ~Entry(w) /\ ~Continue(w)
        /\ \/ Goes(w, "carried", IF Stopping THEN "release" ELSE "read")
           \/ Goes(w, "ruled", IF Stopping THEN "release" ELSE "list")
    BY <1>4, TaskPlaces DEF CheckStop, TaskStep, SameReach, Entry, AtEntry, Continue
  <2>2. CASE Stopping
    BY <1>2, <2>1, <2>2 DEF Stages, Leaves
  <2>3. CASE ~Stopping
    <3>1. \/ Goes(w, "carried", "read")
          \/ Goes(w, "ruled", "list")
      BY <2>1, <2>3
    <3>2. /\ x \in Underway /\ Underway' = (Underway \ {x}) \cup {OfHand(w)'}
          /\ \/ Place(w) = "carried" /\ Place(w)' = "read"
             \/ Place(w) = "ruled" /\ Place(w)' = "list"
      BY <1>1, <2>1, <3>1 DEF Stages
    <3>3. OfHand(w)' = x
      BY <2>1, <3>2 DEF OfHand
    <3> QED
      BY <2>1, <2>3, <3>2, <3>3 DEF Unmoved
  <2> QED
    BY <2>2, <2>3
<1>5. ASSUME ReadFails(w)
      PROVE  x.dir = task[w].dir /\ x.stage = "begun" /\ Leaves(x)
  <2>1. SameReach /\ TaskStep(w) /\ ~Entry(w) /\ ~Continue(w) /\ Goes(w, "read", "release")
    BY <1>5, TaskPlaces DEF ReadFails, TaskStep, SameReach, Entry, AtEntry, Continue
  <2>2. x = On(task[w].dir, "begun", 0)
    BY <2>1, GoesKeeps DEF OfHand
  <2> QED
    BY <1>0, <1>2, <2>1, <2>2 DEF Stages, Leaves
<1>6. ASSUME Read(w)
      PROVE  x.dir = task[w].dir /\ Reads(x)
  <2>1. /\ TaskStep(w) /\ ~Entry(w) /\ ~Continue(w) /\ nextRoot' = nextRoot /\ task' = task /\ at' = at
        /\ opened' = opened (+) SetToBag({task[w].dir}) /\ Opens(task[w].dir)
        /\ Goes(w, "read", IF Is(task[w].dir, "rules") THEN "ruled" ELSE "list")
    BY <1>6, TaskPlaces DEF Read, TaskStep, Entry, AtEntry, Continue, Opens, Is
  <2>2. PICK to \in {"ruled", "list"} : Goes(w, "read", to)
    BY <2>1
  <2>3. /\ x \in Underway /\ Underway' = (Underway \ {x}) \cup {OfHand(w)'}
        /\ Place(w) = "read" /\ Place(w)' \in {"ruled", "list"}
    BY <1>1, <2>1, <2>2 DEF Stages
  <2>4. x = On(task[w].dir, "begun", 0)
    BY <2>3 DEF OfHand
  <2>5. OfHand(w)' = On(task[w].dir, "going", 0)
    <3>1. at[w] = 0
      BY <2>3, Positions DEF PositionAt
    <3> QED
      BY <2>1, <2>3, <3>1 DEF OfHand
  <2> QED
    BY <1>0, <2>1, <2>3, <2>4, <2>5 DEF Reads, Turns
<1>7. ASSUME List(w)
      PROVE  IF Stopping THEN Leaves(x) ELSE Unmoved
  <2>1. /\ at' = at /\ task' = task /\ SameReach /\ TaskStep(w) /\ ~Entry(w) /\ ~Continue(w)
        /\ Goes(w, "list", IF Stopping THEN "release" ELSE "entry")
    <3>1. ~Continue(w)
      <4>1. ~(BatchEnd(w) < BatchEnd(w))
        BY BatchOf
      <4> QED
        BY <1>7, <4>1 DEF List, Continue
    <3> QED
      BY <1>7, <3>1, TaskPlaces DEF List, TaskStep, SameReach, Entry, AtEntry
  <2>2. CASE Stopping
    BY <1>2, <2>1, <2>2 DEF Stages, Leaves
  <2>3. CASE ~Stopping
    <3>1. Goes(w, "list", "entry")
      BY <2>1, <2>3
    <3>2. /\ x \in Underway /\ Underway' = (Underway \ {x}) \cup {OfHand(w)'}
          /\ Place(w) = "list" /\ Place(w)' = "entry"
      BY <1>1, <2>1, <3>1 DEF Stages
    <3>3. OfHand(w)' = x
      BY <2>1, <3>2 DEF OfHand
    <3> QED
      BY <2>1, <2>3, <3>2, <3>3 DEF Unmoved
  <2> QED
    BY <2>2, <2>3
<1>8. ASSUME Entry(w)
      PROVE  x.dir = task[w].dir /\ x.next = at[w] /\ Passes(x, Names(w)[at[w] + 1])
  <2> DEFINE n == Names(w)[at[w] + 1]
  <2>1. SameReach
    BY <1>8 DEF Entry, SameReach
  <2>2. n \in Name /\ at[w] + 1 \in 1 .. Len(Listing[task[w].dir]) /\ task[w].dir \in Dir /\ n = Listing[task[w].dir][at[w] + 1]
    BY <1>8, EntryAhead DEF Entry, Names
  <2>3. /\ x \in Underway /\ x = On(task[w].dir, "going", at[w])
        /\ Underway' = (Underway \ {x}) \cup {On(task[w].dir, "going", at[w] + 1)}
                       \cup (IF Schedules(n) THEN {On(n, "waiting", 0)} ELSE {})
    BY <1>8, EntryTokens
  <2>4. x.dir = task[w].dir /\ x.stage = "going" /\ x.next = at[w]
    BY <1>0, <2>3
  <2> QED
    BY <1>0, <2>1, <2>2, <2>3, <2>4 DEF Passes
<1>9. ASSUME Continue(w)
      PROVE  Unmoved
  BY <1>9, ContinueTokens DEF Continue, Unmoved, SameReach
<1>10. ASSUME EndListing(w)
       PROVE  x = On(task[w].dir, "going", at[w]) /\ Leaves(x)
  <2>1. SameReach /\ TaskStep(w) /\ ~Entry(w) /\ ~Continue(w) /\ Goes(w, "list", "release")
    <3>1. ~Continue(w) /\ ~Entry(w)
      <4>1. at[w] = BatchEnd(w) /\ ~(BatchEnd(w) < BatchEnd(w))
        BY <1>10, BatchOf DEF EndListing
      <4> QED
        BY <1>10, <4>1 DEF EndListing, Continue, Entry, AtEntry
    <3> QED
      BY <1>10, <3>1, TaskPlaces DEF EndListing, TaskStep, SameReach
  <2>2. x = On(task[w].dir, "going", at[w])
    BY <2>1, GoesKeeps DEF OfHand
  <2> QED
    BY <1>0, <1>2, <2>1, <2>2 DEF Stages, Leaves
<1>11. ASSUME Release(w) \/ RecordPanic(w)
       PROVE  Unmoved
  <2>1. SameReach /\ TaskStep(w) /\ ~Entry(w) /\ ~Continue(w)
    BY <1>11 DEF Release, RecordPanic, TaskStep, SameReach, Entry, AtEntry, Continue
  <2>2. Place(w) \notin Stages
    BY <1>11 DEF Release, RecordPanic, Place, Growing, Stages
  <2>3. Rests \/ Releases(w)
    BY <2>1, <2>2, TaskForms DEF Advances, Drops, Inside
  <2>4. CASE Rests
    BY <2>1, <2>4, RestTokens DEF Unmoved
  <2>5. CASE Releases(w)
    <3>1. Queued' = Queued /\ OthersKeep(w) /\ ~Inside(w) /\ ~Inside(w)'
      BY <2>5, HoldsInside DEF Releases
    <3>2. \A v \in Worker \ {w} : Inside(v)' = Inside(v) /\ (Inside(v) => OfHand(v)' = OfHand(v))
      BY <3>1, OthersHands
    <3>3. \A y : y \in Underway' <=> y \in Underway
      BY <3>1, <3>2, Tokens, TokensAfter
    <3> QED
      BY <2>1, <3>3 DEF Unmoved
  <2> QED
    BY <2>3, <2>4, <2>5
<1>12. ASSUME Panic(w)
       PROVE  Leaves(x)
  <2>1. SameReach /\ \E from \in {"read", "list", "entry"} : Goes(w, from, "unwind")
    BY <1>12, TaskPlaces DEF Panic, SameReach
  <2>2. ~Entry(w) /\ ~Continue(w)
    <3>1. pc'[w] = "unwind"
      BY <1>12 DEF Panic, Goto, TypeOK
    <3>2. Entry(w) => pc'[w] = "list"
      BY DEF Entry, Goto, TypeOK
    <3>3. Continue(w) => pc'[w] # "unwind"
      BY DEF Continue, Return, Goto, TypeOK
    <3> QED
      BY <3>1, <3>2, <3>3
  <2> QED
    BY <1>2, <1>12, <2>1, <2>2 DEF Stages, Leaves
<1> QED
  BY <1>3, <1>4, <1>5, <1>6, <1>7, <1>8, <1>9, <1>10, <1>11, <1>12

LEMMA OtherFlows ==
  ASSUME TypeOK, HelperInv, HandInv
  PROVE  /\ \A w \in Worker : PoolStep(w) => Unmoved \/ (Stopping /\ \E x \in Underway : Leaves(x))
         /\ AloneStep \/ Finish \/ Cancel \/ UNCHANGED vars =>
              Unmoved \/ (Stopping /\ \E x \in Underway : Leaves(x)) \/ (NextRoot /\ AddsRoot)
<1>1. ASSUME NEW w \in Worker, NEW t \in Queued, Takes(w, t), SameReach
      PROVE  Unmoved \/ (Stopping /\ \E x \in Underway : Leaves(x))
  BY <1>1, TakeTokens DEF Unmoved, Leaves
<1>2. ASSUME NEW w \in Worker, PoolStep(w)
      PROVE  Unmoved \/ (Stopping /\ \E x \in Underway : Leaves(x))
  <2>1. SameReach
    BY <1>2 DEF SameReach, PoolStep, GrowDone, ClaimSlot, NoScratch, Spawn, Refused, TakeTask, NoMoreTasks, EndHelper
  <2>2. CASE Rests
    BY <2>1, <2>2, RestTokens DEF Unmoved
  <2> QED
    BY <1>1, <1>2, <2>1, <2>2, PoolForms
<1>3. ASSUME AloneStep \/ Finish \/ Cancel \/ UNCHANGED vars, ~NextRoot
      PROVE  Unmoved \/ (Stopping /\ \E x \in Underway : Leaves(x))
  <2>1. SameReach
    BY <1>3 DEF SameReach, AloneStep, RootsStopped, RootsDone, WidenPool, DrainTake, DrainEmpty, Finish, Cancel, vars
  <2>2. CASE Rests
    BY <2>1, <2>2, RestTokens DEF Unmoved
  <2> QED
    BY <1>1, <1>3, <2>1, <2>2, AloneForms, Constants
<1>4. ASSUME NextRoot
      PROVE  AddsRoot
  <2>1. nextRoot \in 1 .. Len(Roots) /\ nextRoot' = nextRoot + 1
    BY <1>4, RootForm DEF HandInv
  <2> QED
    BY <1>4, <2>1, RootTokens DEF NextRoot, AddsRoot
<1> QED
  BY <1>2, <1>3, <1>4

\* Every step is one of these.
LEMMA Flows ==
  ASSUME TypeOK, HelperInv, PositionInv, HandInv, DirectoryInv, [Next]_vars
  PROVE  \/ Unmoved
         \/ \E x \in Underway : Begins(x) \/ Reads(x) \/ Leaves(x) \/ \E n \in Name : Passes(x, n)
         \/ AddsRoot
<1>1. ASSUME NEW w \in Worker, TaskStep(w) \/ Panic(w)
      PROVE  Unmoved \/ \E x \in Underway : Begins(x) \/ Reads(x) \/ Leaves(x) \/ \E n \in Name : Passes(x, n)
  BY <1>1, TaskFlows DEF TaskStep, Leaves, Reads, Begins, Turns, Passes
<1> QED
  BY <1>1, OtherFlows DEF Next, Done

-----------------------------------------------------------------------------
(* The walk goes forward.                                                  *)

\* What comes of directory x under way: it is where it was, or further on.
Onward(x, y) ==
  /\ y.dir = x.dir
  /\ \/ y = x
     \/ x.stage = "waiting"
     \/ x.stage = "begun" /\ y.stage # "waiting"
     \/ x.stage = "going" /\ y.stage = "going" /\ x.next \in Nat /\ y.next = x.next + 1

LEMMA Forward ==
  ASSUME TypeOK, HelperInv, PositionInv, HandInv, DirectoryInv, [Next]_vars
  PROVE  /\ \A y \in Underway' : (\E x \in Underway : Onward(x, y)) \/ (y.stage = "waiting" /\ ~Met(y.dir))
         /\ DOMAIN opened \subseteq DOMAIN opened' /\ 1 .. nextRoot - 1 \subseteq 1 .. nextRoot' - 1
<1>0. /\ \A d, s, n : On(d, s, n).dir = d /\ On(d, s, n).stage = s /\ On(d, s, n).next = n
      /\ nextRoot \in Nat /\ IsABag(opened)
  BY Tokens, TypesOf
<1> DEFINE Onwards == \A y \in Underway' : (\E x \in Underway : Onward(x, y)) \/ (y.stage = "waiting" /\ ~Met(y.dir))
           Grows == DOMAIN opened \subseteq DOMAIN opened' /\ 1 .. nextRoot - 1 \subseteq 1 .. nextRoot' - 1
<1>1. CASE Unmoved
  BY <1>1 DEF Unmoved, SameReach, Onward
<1>2. ASSUME NEW x \in Underway, Begins(x) PROVE Onwards /\ Grows
  BY <1>0, <1>2 DEF Begins, Turns, Onward
<1>3. ASSUME NEW x \in Underway, Reads(x) PROVE Onwards /\ Grows
  <2>1. Onwards
    BY <1>0, <1>3 DEF Reads, Turns, Onward
  <2>2. DOMAIN opened' = DOMAIN opened \cup {x.dir}
    BY <1>0, <1>3, AddOne DEF Reads
  <2> QED
    BY <1>3, <2>1, <2>2 DEF Reads, Turns
<1>4. ASSUME NEW x \in Underway, Leaves(x) PROVE Onwards /\ Grows
  BY <1>4 DEF Leaves, SameReach, Onward
<1>5. ASSUME NEW x \in Underway, NEW n \in Name, Passes(x, n) PROVE Onwards /\ Grows
  <2>1. ~Met(n)
    <3>1. x.dir \in Dir /\ x.next + 1 \in 1 .. Len(Listing[x.dir]) /\ n = Listing[x.dir][x.next + 1] /\ x.next \in Nat
      BY <1>5 DEF Passes
    <3>2. ~Passed(x.dir, x.next + 1)
      <4>1. ~(x.next + 1 <= x.next)
        BY <3>1
      <4> QED
        BY <4>1 DEF Passed
    <3>3. ~Behind(n)
      <4> SUFFICES ASSUME NEW up \in Dir, NEW k \in 1 .. Len(Listing[up]), Listing[up][k] = n, Passed(up, k)
                   PROVE  FALSE
        BY DEF Behind
      <4>1. up = x.dir /\ k = x.next + 1
        BY <3>1, OnePlace
      <4> QED
        BY <3>2, <4>1
    <3> QED
      BY <3>1, <3>3, OnePlace DEF Met
  <2>2. Grows
    BY <1>5 DEF Passes, SameReach
  <2>3. ASSUME NEW y \in Underway'
        PROVE  (\E z \in Underway : Onward(z, y)) \/ (y.stage = "waiting" /\ ~Met(y.dir))
    <3>1. y \in Underway \/ y = On(x.dir, "going", x.next + 1) \/ y = On(n, "waiting", 0)
      BY <1>5 DEF Passes
    <3>2. CASE y = On(x.dir, "going", x.next + 1)
      BY <1>0, <1>5, <3>2 DEF Passes, Onward
    <3> QED
      BY <1>0, <2>1, <3>1, <3>2 DEF Onward
  <2> QED
    BY <2>2, <2>3
<1>6. CASE AddsRoot
  <2>1. ~Met(Roots[nextRoot])
    BY <1>6, RootAhead DEF AddsRoot
  <2>2. Onwards
    BY <1>0, <1>6, <2>1 DEF AddsRoot, Onward
  <2> QED
    BY <1>0, <1>6, <2>2 DEF AddsRoot
<1> QED
  BY <1>1, <1>2, <1>3, <1>4, <1>5, <1>6, Flows

\* What is behind the walk stays behind it.
LEMMA Monotone ==
  ASSUME TypeOK, HelperInv, PositionInv, HandInv, DirectoryInv, [Next]_vars
  PROVE  /\ \A d : Open(d) => Open(d)'
         /\ \A d \in Dir : \A k \in 1 .. Len(Listing[d]) : Passed(d, k) => Passed(d, k)'
         /\ \A n : Behind(n) => Behind(n)'
         /\ \A d : Met(d) => Met(d)'
         /\ \A d : Met(d) /\ Begun(d) => Begun(d)'
         /\ \A d : Met(d) /\ Gone(d) => Gone(d)'
         /\ \A e : Happened(e) => Happened(e)'
         /\ world' = world
<1>0. world' = world
  BY PhaseSteps
<1>1. \A d : Open(d) => Open(d)'
  BY Forward DEF Open
<1>2. ASSUME NEW y \in Underway', Met(y.dir) PROVE \E x \in Underway : Onward(x, y)
  BY <1>2, Forward
<1>3. ASSUME NEW d \in Dir, NEW k \in 1 .. Len(Listing[d]), Passed(d, k) PROVE Passed(d, k)'
  <2>1. Open(d) /\ Met(d)
    BY <1>3 DEF Passed, Open, DirectoryInv
  <2>2. ASSUME NEW y \in Underway', y.dir = d PROVE y.stage = "going" /\ k <= y.next
    <3>1. PICK x \in Underway : Onward(x, y)
      BY <1>2, <2>1, <2>2
    <3>2. x.dir = d /\ x.stage = "going" /\ k <= x.next
      BY <1>3, <2>2, <3>1 DEF Onward, Passed
    <3>3. y = x \/ (y.stage = "going" /\ x.next \in Nat /\ y.next = x.next + 1)
      BY <3>1, <3>2 DEF Onward
    <3>4. CASE y = x
      BY <3>2, <3>4
    <3>5. CASE y.stage = "going" /\ x.next \in Nat /\ y.next = x.next + 1
      <4>1. k \in Int
        OBVIOUS
      <4> QED
        BY <3>2, <3>5, <4>1
    <3> QED
      BY <3>3, <3>4, <3>5
  <2> QED
    BY <1>1, <2>1, <2>2 DEF Passed
<1>4. \A n : Behind(n) => Behind(n)'
  BY <1>3 DEF Behind
<1>5. \A d : Met(d) => Met(d)'
  <2>1. \A d : Leads(d)' = Leads(d)
    BY <1>0 DEF Leads, Offered
  <2> QED
    BY <1>4, <2>1, Forward DEF Met
<1>6. \A d : Met(d) /\ Begun(d) => Begun(d)'
  <2>1. ASSUME NEW d, Met(d), Begun(d), NEW y \in Underway', y.dir = d PROVE y.stage # "waiting"
    <3>1. PICK x \in Underway : Onward(x, y)
      BY <1>2, <2>1
    <3>2. x.dir = d /\ x.stage # "waiting"
      BY <2>1, <3>1 DEF Onward, Begun
    <3> QED
      BY <3>1, <3>2 DEF Onward
  <2> QED
    BY <2>1 DEF Begun
<1>7. \A d : Met(d) /\ Gone(d) => Gone(d)'
  <2>1. ASSUME NEW d, Met(d), Gone(d), NEW y \in Underway', y.dir = d PROVE FALSE
    BY <1>2, <2>1 DEF Onward, Gone
  <2> QED
    BY <2>1 DEF Gone
<1>8. ASSUME NEW e, Happened(e) PROVE Happened(e)'
  <2>1. \A d, f : Is(d, f)' = Is(d, f)
    BY <1>0 DEF Is
  <2>2. \A n : Fails(n)' = Fails(n)
    BY <1>0 DEF Fails
  <2>3. \A d \in Dir : Open(d) => Met(d)
    BY DEF Open, DirectoryInv
  <2>4. CASE \E d \in Dir : e = <<"ignore", d>> /\ IsRoot(d) /\ Is(d, "carried") /\ Met(d) /\ Begun(d)
    BY <1>5, <1>6, <2>1, <2>4 DEF Happened
  <2>5. CASE \E d \in Dir : e = <<"read", d>> /\ Is(d, "read") /\ ~Is(d, "loop") /\ Met(d) /\ Gone(d)
    BY <1>5, <1>7, <2>1, <2>5 DEF Happened
  <2>6. CASE \E d \in Dir : e = <<"rules", d>> /\ Is(d, "rules") /\ Open(d)
    BY <1>1, <2>1, <2>6 DEF Happened
  <2>7. CASE \E d \in Dir : e = <<"deferred", d>> /\ Is(d, "deferred") /\ Open(d) /\ Gone(d)
    BY <1>1, <1>7, <2>1, <2>3, <2>7 DEF Happened
  <2>8. CASE \E n \in Name : e = <<"entry", n>> /\ Fails(n) /\ Behind(n)
    BY <1>4, <2>2, <2>8 DEF Happened
  <2> QED
    BY <1>8, <2>4, <2>5, <2>6, <2>7, <2>8 DEF Happened
<1> QED
  BY <1>0, <1>1, <1>3, <1>4, <1>5, <1>6, <1>7, <1>8

LEMMA TokenTypes ==
  ASSUME TypeOK, PositionInv, NEW x \in Underway
  PROVE  x.dir \in Dir /\ x.next \in Nat
<1>1. CASE \E t \in Queued : x = OfTask(t)
  <2>1. PICK t \in Queued : x = OfTask(t)
    BY <1>1
  <2>2. t \in Task
    BY OldLines
  <2> QED
    BY <2>1, <2>2 DEF OfTask, On, Task
<1>2. CASE \E v \in Worker : x = OfHand(v)
  <2>1. PICK v \in Worker : x = OfHand(v)
    BY <1>2
  <2>2. task[v].dir \in Dir /\ task[v].next \in Nat /\ at[v] \in Nat
    BY TypesOf
  <2>3. x.dir = task[v].dir /\ x.next \in {0, at[v], task[v].next}
    BY <2>1 DEF OfHand, OfTask, On
  <2> QED
    BY <2>2, <2>3
<1> QED
  BY <1>1, <1>2, Tokens

\* An entry that the walk passes was ahead, is behind now, and is the only one.
LEMMA PassedOne ==
  ASSUME TypeOK, PositionInv, HandInv, DirectoryInv, NEW x, NEW n, Passes(x, n)
  PROVE  /\ ~Behind(n) /\ Behind(n)' /\ ~Met(n) /\ ~IsRoot(n)
         /\ \A d \in Dir : \A k \in 1 .. Len(Listing[d]) :
              Passed(d, k)' => Passed(d, k) \/ Listing[d][k] = n
<1>0. \A d, s, k : On(d, s, k).dir = d /\ On(d, s, k).stage = s /\ On(d, s, k).next = k
  BY Tokens
<1>1. /\ x \in Underway /\ x.dir \in Dir /\ x.next \in Nat /\ x.stage = "going" /\ n \in Name
      /\ x.next + 1 \in 1 .. Len(Listing[x.dir]) /\ n = Listing[x.dir][x.next + 1]
      /\ opened' = opened
      /\ \A y : y \in Underway' <=> \/ y \in Underway \ {x}
                                    \/ y = On(x.dir, "going", x.next + 1)
                                    \/ Schedules(n) /\ y = On(n, "waiting", 0)
  BY DEF Passes, SameReach
<1>2. ~Passed(x.dir, x.next + 1)
  <2>1. ~(x.next + 1 <= x.next)
    BY <1>1
  <2> QED
    BY <1>1, <2>1 DEF Passed
<1>3. ~Behind(n)
  <2> SUFFICES ASSUME NEW up \in Dir, NEW k \in 1 .. Len(Listing[up]), Listing[up][k] = n, Passed(up, k)
               PROVE  FALSE
    BY DEF Behind
  <2>1. up = x.dir /\ k = x.next + 1
    BY <1>1, OnePlace
  <2> QED
    BY <1>2, <2>1
<1>4. ~IsRoot(n)
  BY <1>1, OnePlace
<1>5. ~Met(n)
  BY <1>3, <1>4 DEF Met
<1>6. n # x.dir
  BY <1>1, <1>5 DEF DirectoryInv
<1>7. Passed(x.dir, x.next + 1)'
  <2>1. Open(x.dir)'
    BY <1>1 DEF Open, DirectoryInv
  <2>2. \A y \in Underway \ {x} : y.dir # x.dir
    BY <1>1, OneToken
  <2>3. ASSUME NEW y \in Underway', y.dir = x.dir PROVE y = On(x.dir, "going", x.next + 1)
    BY <1>0, <1>1, <1>6, <2>2, <2>3
  <2>4. On(x.dir, "going", x.next + 1).next = x.next + 1 /\ x.next + 1 <= x.next + 1
    BY <1>0, <1>1
  <2> QED
    BY <1>0, <2>1, <2>3, <2>4 DEF Passed
<1>8. Behind(n)'
  BY <1>1, <1>7 DEF Behind
<1>9. ASSUME NEW d \in Dir, NEW k \in 1 .. Len(Listing[d]), Passed(d, k)', ~Passed(d, k)
      PROVE  Listing[d][k] = n
  <2>1. Open(d)
    BY <1>1, <1>9 DEF Passed, Open
  <2>2. PICK z \in Underway : z.dir = d /\ ~(z.stage = "going" /\ k <= z.next)
    BY <1>9, <2>1 DEF Passed
  <2>3. z = x
    <3>1. z \in Underway' => z.stage = "going" /\ k <= z.next
      BY <1>9, <2>2 DEF Passed
    <3> QED
      BY <1>1, <2>2, <3>1
  <2>4. k <= x.next + 1
    <3>1. On(x.dir, "going", x.next + 1) \in Underway'
      BY <1>1
    <3> QED
      BY <1>0, <1>9, <2>2, <2>3, <3>1 DEF Passed
  <2>5. k = x.next + 1
    BY <1>1, <2>2, <2>3, <2>4
  <2> QED
    BY <1>1, <2>2, <2>3, <2>5
<1> QED
  BY <1>3, <1>4, <1>5, <1>8, <1>9

\* Nothing else passes an entry, unless it ends the directory.
LEMMA PassedNone ==
  ASSUME TypeOK, PositionInv, HandInv, DirectoryInv, NEW d \in Dir, NEW k \in 1 .. Len(Listing[d]), Passed(d, k)'
  PROVE  /\ Unmoved \/ AddsRoot \/ (\E x \in Underway : Begins(x) \/ Reads(x)) => Passed(d, k)
         /\ \A x \in Underway : Leaves(x) => Passed(d, k) \/ (x.dir = d /\ x.stage = "going" /\ ~(k <= x.next))
<1>0. /\ \A e, s, j : On(e, s, j).dir = e /\ On(e, s, j).stage = s /\ On(e, s, j).next = j
      /\ Open(d)' /\ \A y \in Underway' : y.dir = d => y.stage = "going" /\ k <= y.next
      /\ k \in Nat /\ k >= 1 /\ IsABag(opened)
  <2>1. k \in Nat /\ k >= 1
    BY Constants
  <2> QED
    BY <2>1, Tokens, TypesOf DEF Passed
<1>1. ASSUME Open(d), \A y \in Underway : y.dir = d => y \in Underway' PROVE Passed(d, k)
  BY <1>0, <1>1 DEF Passed
<1>2. CASE Unmoved \/ AddsRoot
  BY <1>0, <1>1, <1>2 DEF Unmoved, SameReach, AddsRoot, Open
<1>3. ASSUME NEW x \in Underway, Begins(x) \/ Reads(x) PROVE Passed(d, k)
  <2>1. \E s \in {"begun", "going"} : On(x.dir, s, 0) \in Underway' /\ (s = "begun" <=> Begins(x))
    BY <1>3 DEF Begins, Reads, Turns
  <2>2. x.dir # d
    <3>1. ~(k <= 0)
      BY <1>0
    <3> QED
      BY <1>0, <2>1, <3>1
  <2>3. Open(d)
    <3>1. CASE Begins(x)
      BY <1>0, <3>1 DEF Begins, Open
    <3>2. CASE Reads(x)
      <4>1. DOMAIN opened' = DOMAIN opened \cup {x.dir}
        BY <1>0, <3>2, AddOne DEF Reads
      <4> QED
        BY <1>0, <2>2, <4>1 DEF Open
    <3> QED
      BY <1>3, <3>1, <3>2
  <2>4. \A y \in Underway : y # x => y \in Underway'
    BY <1>3 DEF Begins, Reads, Turns
  <2> QED
    BY <1>1, <2>2, <2>3, <2>4
<1>4. ASSUME NEW x \in Underway, Leaves(x), ~Passed(d, k)
      PROVE  x.dir = d /\ x.stage = "going" /\ ~(k <= x.next)
  <2>1. Open(d)
    BY <1>0, <1>4 DEF Leaves, SameReach, Open
  <2>2. PICK z \in Underway : z.dir = d /\ ~(z.stage = "going" /\ k <= z.next)
    BY <1>4, <2>1 DEF Passed
  <2>3. z = x
    <3>1. z \notin Underway'
      BY <1>0, <2>2
    <3> QED
      BY <1>4, <2>2, <3>1 DEF Leaves
  <2>4. x.stage = "going"
    BY <2>1, <2>2, <2>3 DEF DirectoryInv
  <2> QED
    BY <2>2, <2>3, <2>4
<1> QED
  BY <1>2, <1>3, <1>4

LEMMA DirectoryStep ==
  ASSUME TypeOK, HelperInv, PositionInv, HandInv, DirectoryInv, [Next]_vars
  PROVE  DirectoryInv'
<1>0. /\ \A d, s, n : On(d, s, n).dir = d /\ On(d, s, n).stage = s /\ On(d, s, n).next = n
      /\ IsABag(opened) /\ \A d : Opens(d)' = Opens(d)
  BY Tokens, TypesOf, Monotone DEF Opens
<1>1. /\ \A x \in Underway : Met(x.dir) /\ Met(x.dir)' /\ (x.stage = "going" <=> Open(x.dir))
      /\ \A d \in DOMAIN opened : d \in Dir /\ Met(d)' /\ Opens(d)' /\ opened[d] = 1
  BY <1>0, Monotone DEF DirectoryInv
<1>2. ASSUME \A y \in Underway' : Met(y.dir)' /\ (y.stage = "going" <=> Open(y.dir)'),
             \A d \in DOMAIN opened' : d \in Dir /\ Met(d)' /\ Opens(d)' /\ opened'[d] = 1
      PROVE  DirectoryInv'
  BY <1>2 DEF DirectoryInv
<1>3. CASE Unmoved
  BY <1>1, <1>2, <1>3 DEF Unmoved, SameReach, Open
<1>4. ASSUME NEW x \in Underway, Leaves(x) PROVE DirectoryInv'
  BY <1>1, <1>2, <1>4 DEF Leaves, SameReach, Open
<1>5. ASSUME NEW x \in Underway, Begins(x) PROVE DirectoryInv'
  <2>1. opened' = opened /\ \A y \in Underway' : y \in Underway \/ y = On(x.dir, "begun", 0)
    BY <1>5 DEF Begins, Turns
  <2>2. ~Open(x.dir)
    BY <1>1, <1>5 DEF Begins
  <2>3. \A y \in Underway' : Met(y.dir)' /\ (y.stage = "going" <=> Open(y.dir)')
    BY <1>0, <1>1, <2>1, <2>2 DEF Open
  <2> QED
    BY <1>1, <1>2, <2>1, <2>3
<1>6. ASSUME NEW x \in Underway, Reads(x) PROVE DirectoryInv'
  <2>1. \A y \in Underway' : (y \in Underway /\ y.dir # x.dir) \/ y = On(x.dir, "going", 0)
    BY <1>6, OneToken DEF Reads, Turns
  <2>2. ~Open(x.dir) /\ Opens(x.dir)
    BY <1>1, <1>6 DEF Reads
  <2>3. /\ DOMAIN opened' = DOMAIN opened \cup {x.dir} /\ opened'[x.dir] = 1
        /\ \A d \in DOMAIN opened \ {x.dir} : opened'[d] = opened[d]
    <3>1. x.dir \notin DOMAIN opened /\ opened' = opened (+) SetToBag({x.dir})
      BY <1>6, <2>2 DEF Reads, Open
    <3>2. \A e : LET B == opened (+) SetToBag({e}) IN
                 /\ DOMAIN B = DOMAIN opened \cup {e} /\ (e \notin DOMAIN opened => B[e] = 1)
                 /\ \A d \in DOMAIN opened \ {e} : B[d] = opened[d]
      BY <1>0, AddOne, Zenon
    <3> QED
      BY <3>1, <3>2
  <2>4. \A y \in Underway' : Met(y.dir)' /\ (y.stage = "going" <=> Open(y.dir)')
    BY <1>0, <1>1, <2>1, <2>3 DEF Open
  <2>5. x.dir \in Dir
    BY TokenTypes
  <2>6. \A d \in DOMAIN opened' : d \in Dir /\ Met(d)' /\ Opens(d)' /\ opened'[d] = 1
    BY <1>0, <1>1, <2>2, <2>3, <2>5 DEF Open
  <2> QED
    BY <1>2, <2>4, <2>6
<1>7. ASSUME NEW x \in Underway, NEW n \in Name, Passes(x, n) PROVE DirectoryInv'
  <2>1. ~Behind(n) /\ Behind(n)' /\ ~Met(n) /\ ~IsRoot(n)
    BY <1>7, PassedOne
  <2>2. Schedules(n) => Met(n)'
    <3>1. Schedules(n) => Leads(n)'
      BY ScheduledName, Monotone DEF Leads, Offered
    <3> QED
      BY <2>1, <3>1 DEF Met
  <2>3. ~Open(n)
    BY <2>1 DEF DirectoryInv, Open
  <2>4. /\ opened' = opened
        /\ \A y \in Underway' : y \in Underway \/ y = On(x.dir, "going", x.next + 1) \/ (Schedules(n) /\ y = On(n, "waiting", 0))
    BY <1>7 DEF Passes, SameReach
  <2>5. Open(x.dir)
    BY <1>1, <1>7 DEF Passes
  <2>6. \A y \in Underway' : Met(y.dir)' /\ (y.stage = "going" <=> Open(y.dir)')
    BY <1>0, <1>1, <2>2, <2>3, <2>4, <2>5 DEF Open
  <2> QED
    BY <1>1, <1>2, <2>4, <2>6
<1>8. CASE AddsRoot
  <2>0. PICK r \in Dir : r = Roots[nextRoot]
    BY <1>8, RootAhead DEF AddsRoot
  <2>1. opened' = opened /\ \A y \in Underway' : y \in Underway \/ y = On(r, "waiting", 0)
    BY <1>8, <2>0 DEF AddsRoot
  <2>2. IsRoot(r) /\ ~Met(r)
    BY <1>8, <2>0, RootAhead DEF AddsRoot
  <2>3. Met(r)'
    <3>1. nextRoot \in 1 .. nextRoot' - 1
      BY <1>8, TypesOf DEF AddsRoot
    <3>2. \E i \in 1 .. nextRoot' - 1 : Roots[i] = r
      BY <2>0, <3>1
    <3> QED
      BY <2>2, <3>2 DEF Met
  <2>4. ~Open(r)
    BY <2>2 DEF DirectoryInv, Open
  <2>5. \A y \in Underway' : Met(y.dir)' /\ (y.stage = "going" <=> Open(y.dir)')
    BY <1>0, <1>1, <2>1, <2>3, <2>4 DEF Open
  <2> QED
    BY <1>1, <1>2, <2>1, <2>5
<1> QED
  BY <1>3, <1>4, <1>5, <1>6, <1>7, <1>8, Flows
=============================================================================
