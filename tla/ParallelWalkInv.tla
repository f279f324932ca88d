--------------------------- MODULE ParallelWalkInv ---------------------------
(***************************************************************************)
(* The inductive invariant behind the properties of ParallelWalk: where    *)
(* each worker may be, where each directory is on its way through the      *)
(* walk, and what that says about everything reported so far.              *)
(***************************************************************************)
EXTENDS ParallelWalk

\* What worker w goes on with, once it is done with growing the pool.
Growing(w) == pc[w] \in {"grow", "slot", "refused"}
Place(w) == IF Growing(w) THEN back[w] ELSE pc[w]

\* In a directory, and with a task that is still counted.
Inside(w) == Place(w) \in Stages
Holding(w) == Place(w) \in Stages \cup {"release", "abandon", "unwind"}

-----------------------------------------------------------------------------
(* The workers.                                                            *)

\* Only the caller is anywhere until the pool widens; an error path of the
\* caller alone needs a stop.
StationInv ==
  /\ \A w \in Worker :
       /\ Growing(w) => phase = "pool"
       /\ \/ Place(w) \in Stages \cup {"release", "unwind", "unwound", "left"}
          \/ w = Caller /\ Place(w) \in {Loop, "join"}
          \/ w = Caller /\ Place(w) = "abandon" /\ phase = "alone" /\ Stopping
          \/ w # Caller /\ Place(w) \in {"unborn", "idle", "leave"}
  /\ phase # "pool" => \A h \in Worker \ {Caller} : pc[h] = "unborn"
  /\ phase # "roots" => nextRoot = Len(Roots) + 1

\* A helper that has not started is in the list of spare scratches or lost,
\* and has nothing; one that has ended has handed in what it found.
HelperInv ==
  /\ \A h \in idle : pc[h] = "unborn"
  /\ \A h \in Worker : pc[h] = "unborn" => queue[h] = <<>> /\ found[h] = EmptyBag
  /\ \A h \in Worker \ {Caller} : pc[h] = "left" => found[h] = EmptyBag

\* After the result nothing happens.
ResultInv ==
  /\ pc[Caller] = "left" <=> result # NoResult
  /\ result # NoResult =>
       result = Outcome /\ \A h \in Worker \ {Caller} : pc[h] \in {"unborn", "left"}

-----------------------------------------------------------------------------
(* Positions in a listing, and the stride.                                 *)

Aligned(t) == t.next % Stride = 0 /\ t.next <= Len(Listing[t.dir])

\* All queues as one function, what waits in them, and that no directory waits
\* in two places.
Shared == -1
Lines == Worker \cup {Shared}
LineOf(q, shared) == [p \in Lines |-> IF p = Shared THEN shared ELSE q[p]]
Line == LineOf(queue, injector)
TasksIn(L) == UNION {ToSet(L[p]) : p \in Lines}
Distinct(s) == \A j, k \in DOMAIN s : s[j].dir = s[k].dir => j = k
Apart(r, s) == \A t \in ToSet(r), u \in ToSet(s) : t.dir # u.dir
OnceIn(L) == /\ \A p \in Lines : Distinct(L[p])
             /\ \A p, q \in Lines : p # q => Apart(L[p], L[q])
Queued == TasksIn(Line)

\* A listing is begun and resumed on a stride.
PositionInv ==
  /\ \A t \in Queued : Aligned(t)
  /\ \A w \in Worker :
       /\ Inside(w) => Aligned(task[w])
       /\ Place(w) \in {"carried", "read", "ruled"} => task[w].next = 0 /\ at[w] = 0
       /\ Place(w) = "list" => at[w] \in task[w].next .. BatchEnd(w)
       /\ Place(w) = "entry" => at[w] \in task[w].next .. BatchEnd(w) - 1 /\ Boundary(w)

\* A worker that goes on classifying after the stop has tested for it at the
\* last boundary behind it.
LateInv ==
  \A w \in Worker :
    /\ late[w] <= Stride
    /\ late[w] > 0 => Stopping
    /\ Place(w) \in {"carried", "read", "ruled", "entry"} => late[w] = 0
    /\ Place(w) = "list" /\ ~Boundary(w) => late[w] <= at[w] % Stride

-----------------------------------------------------------------------------
(* Where a directory is.                                                   *)

\* A directory is in one queue, once, or in one worker's hands.
HandInv ==
  /\ OnceIn(Line)
  /\ \A w \in Worker : Inside(w) => \A t \in Queued : t.dir # task[w].dir
  /\ \A v, w \in Worker : Inside(v) /\ Inside(w) /\ task[v].dir = task[w].dir => v = w

\* The pending count is the tasks in queues and those not yet released.
CountInv ==
  /\ IsFiniteSet(Queued)
  /\ pending = Cardinality(Queued) + Cardinality({w \in Worker : Holding(w)})

\* The directories under way: waiting to be begun, begun, or going on at an
\* entry of a listing that was read.
On(d, stage, next) == [dir |-> d, stage |-> stage, next |-> next]
OfTask(t) == On(t.dir, IF t.next = 0 THEN "waiting" ELSE "going", t.next)
OfHand(w) ==
  CASE Place(w) = "begin" -> OfTask(task[w])
    [] Place(w) \in {"carried", "read"} -> On(task[w].dir, "begun", 0)
    [] OTHER -> On(task[w].dir, "going", at[w])
Underway == {OfTask(t) : t \in Queued} \cup {OfHand(w) : w \in {v \in Worker : Inside(v)}}

Open(d) == d \in DOMAIN opened
Gone(d) == \A x \in Underway : x.dir # d
Begun(d) == \A x \in Underway : x.dir = d => x.stage # "waiting"

\* Entry k of directory d is behind the walk; a directory has been met.
Passed(d, k) ==
  Open(d) /\ \A x \in Underway : x.dir = d => x.stage = "going" /\ k <= x.next
Behind(n) == \E up \in Dir : \E k \in 1 .. Len(Listing[up]) : Listing[up][k] = n /\ Passed(up, k)
Met(d) == IF IsRoot(d) THEN \E i \in 1 .. nextRoot - 1 : Roots[i] = d ELSE Leads(d) /\ Behind(d)

\* A directory under way has been met; it is read once, and then goes on.
DirectoryInv ==
  /\ \A x \in Underway : Met(x.dir) /\ (x.stage = "going" <=> Open(x.dir))
  /\ \A d \in DOMAIN opened : d \in Dir /\ Met(d) /\ Opens(d) /\ opened[d] = 1

-----------------------------------------------------------------------------
(* What was reported.                                                      *)

Retained(n) == n \in DOMAIN shards \/ \E w \in Worker : n \in DOMAIN found[w]

\* An entry is retained once, by one worker, when it is behind.
FoundInv ==
  /\ \A n \in DOMAIN shards : shards[n] = 1 /\ \A w \in Worker : n \notin DOMAIN found[w]
  /\ \A w \in Worker : \A n \in DOMAIN found[w] :
       found[w][n] = 1 /\ \A v \in Worker : n \in DOMAIN found[v] => v = w
  /\ \A B \in {shards} \cup {found[w] : w \in Worker} : \A n \in DOMAIN B :
       n \in Name /\ Emits(n) /\ Behind(n)

\* An error is reported once, when what fails is behind.
Happened(e) ==
  \/ \E d \in Dir : e = <<"ignore", d>> /\ IsRoot(d) /\ Is(d, "carried") /\ Met(d) /\ Begun(d)
  \/ \E d \in Dir : e = <<"read", d>> /\ Is(d, "read") /\ ~Is(d, "loop") /\ Met(d) /\ Gone(d)
  \/ \E d \in Dir : e = <<"rules", d>> /\ Is(d, "rules") /\ Open(d)
  \/ \E d \in Dir : e = <<"deferred", d>> /\ Is(d, "deferred") /\ Open(d) /\ Gone(d)
  \/ \E n \in Name : e = <<"entry", n>> /\ Fails(n) /\ Behind(n)
SpawnError == <<"spawn", Roots[1]>>
RootRead(e) == \E d \in Dir : e = <<"read", d>> /\ IsRoot(d)
ErrorInv ==
  /\ \A e \in DOMAIN errors :
       e # SpawnError => errors[e] = 1 /\ Happened(e) /\ Kept(RootRead(e))
  /\ \A e \in {abort} \ {NoError, SpawnError} : Happened(e)

-----------------------------------------------------------------------------
(* What is not lost.                                                       *)

Intact == ~Stopping /\ \A w \in Worker : pc[w] \notin {"unwind", "unwound"}
Recorded(e, isRoot) == world.policy # "abort" /\ (Kept(isRoot) => e \in DOMAIN errors)

\* Until something stops the walk, a directory that was met is under way, was
\* read, or failed; what is behind was reported; and nobody leaves before all
\* roots were begun and nothing is pending.
Accounted(d) ==
  /\ ~Gone(d) \/ Open(d) \/ Is(d, "loop") \/ (Is(d, "read") /\ Recorded(<<"read", d>>, IsRoot(d)))
  /\ Is(d, "carried") => ~Begun(d) \/ Recorded(<<"ignore", d>>, FALSE)
  /\ Is(d, "rules") => ~Open(d) \/ Recorded(<<"rules", d>>, FALSE)
  /\ Is(d, "deferred") => ~Open(d) \/ ~Gone(d) \/ Recorded(<<"deferred", d>>, FALSE)
KeepsDirectories == \A d \in Dir : Met(d) => Accounted(d)
KeepsEntries ==
  \A n \in Name : Behind(n) =>
    (Emits(n) => Retained(n)) /\ (Fails(n) => Recorded(<<"entry", n>>, FALSE))
Leaving(w) == Place(w) \in {"join", "leave", "left"}
NobodyLeaves == \A w \in Worker : Leaving(w) => pending = 0 /\ nextRoot > Len(Roots)
LossInv == Intact => KeepsDirectories /\ KeepsEntries /\ NobodyLeaves

IInv ==
  /\ TypeOK /\ StaysInBudget /\ StationInv /\ HelperInv /\ ResultInv
  /\ PositionInv /\ LateInv /\ HandInv /\ CountInv
  /\ DirectoryInv /\ FoundInv /\ ErrorInv /\ LossInv
=============================================================================
