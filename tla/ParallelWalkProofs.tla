------------------------- MODULE ParallelWalkProofs --------------------------
(***************************************************************************)
(* Proofs of the properties of ParallelWalk for every tree, every world    *)
(* and every budget: what is reported and what is not lost, that the       *)
(* invariant of ParallelWalkInv is inductive, and what it says about the   *)
(* walk and its result.                                                    *)
(***************************************************************************)
EXTENDS ParallelWalkHands

-----------------------------------------------------------------------------
(* What is reported.                                                       *)

\* One more copy, and a bag that shares nothing.
Adds(A, x, B) == IsABag(A) /\ B = A (+) SetToBag({x})
Merges(A, D, B) == IsABag(A) /\ IsABag(D) /\ DOMAIN A \cap DOMAIN D = {} /\ B = A (+) D

LEMMA AddFresh ==
  ASSUME NEW A, NEW x, NEW B, Adds(A, x, B)
  PROVE  /\ IsABag(B) /\ \A e : e \in DOMAIN B <=> e \in DOMAIN A \/ e = x
         /\ x \notin DOMAIN A => B[x] = 1
         /\ \A e : e \in DOMAIN A /\ e # x => B[e] = A[e]
<1>0. IsABag(A) /\ B = A (+) SetToBag({x})
  BY DEF Adds
<1>1. IsABag(B) /\ DOMAIN B = DOMAIN A \cup {x} /\ (x \notin DOMAIN A => B[x] = 1)
  BY <1>0, AddOne
<1>2. \A e \in DOMAIN A \ {x} : B[e] = A[e]
  BY <1>0, AddOne
<1> QED
  BY <1>0, <1>1, <1>2

LEMMA AddApart ==
  ASSUME NEW A, NEW D, NEW B, Merges(A, D, B)
  PROVE  /\ IsABag(B) /\ \A e : e \in DOMAIN B <=> e \in DOMAIN A \/ e \in DOMAIN D
         /\ \A e : e \in DOMAIN A => B[e] = A[e]
         /\ \A e : e \in DOMAIN D => B[e] = D[e]
<1>0. IsABag(A) /\ IsABag(D) /\ DOMAIN A \cap DOMAIN D = {} /\ B = A (+) D
  BY DEF Merges
<1>1. IsABag(B) /\ DOMAIN B = DOMAIN A \cup DOMAIN D
  BY <1>0, AddBags
<1>2. \A e \in DOMAIN A \ DOMAIN D : (A (+) D)[e] = A[e]
  BY <1>0, AddBags
<1>3. \A e \in DOMAIN D \ DOMAIN A : (A (+) D)[e] = D[e]
  BY <1>0, AddBags
<1> QED
  BY <1>0, <1>1, <1>2, <1>3

LEMMA SameFound ==
  ASSUME TypeOK, [Next]_vars, \A w \in Worker : ~Entry(w) /\ ~EndHelper(w)
  PROVE  found' = found /\ shards' = shards
<1> USE DEF kept
<1>1. \A w \in Worker : TaskStep(w) \/ Panic(w) => UNCHANGED kept
  BY DEF TaskStep, Panic, Begin, CheckStop, ReadFails, Read, List, Continue, EndListing, Release, RecordPanic
<1>2. \A w \in Worker : PoolStep(w) => UNCHANGED kept
  BY DEF PoolStep, GrowDone, ClaimSlot, NoScratch, Spawn, Refused, TakeTask, NoMoreTasks
<1>3. AloneStep => UNCHANGED kept
  BY DEF AloneStep, NextRoot, RootsStopped, RootsDone, WidenPool, DrainTake, DrainEmpty
<1>4. Finish \/ Cancel \/ UNCHANGED vars => UNCHANGED kept
  BY DEF Finish, Cancel, vars
<1> QED
  BY <1>1, <1>2, <1>3, <1>4 DEF Next, Done

LEMMA FoundStep ==
  ASSUME TypeOK, HelperInv, PositionInv, HandInv, DirectoryInv, FoundInv, [Next]_vars
  PROVE  FoundInv'
<1>0. /\ \A n : Behind(n) => Behind(n)'
      /\ \A n : Emits(n)' = Emits(n)
  BY Monotone DEF Emits, Asked
<1>1. /\ \A n \in DOMAIN shards : /\ shards[n] = 1 /\ n \in Name /\ Emits(n)' /\ Behind(n) /\ Behind(n)'
                                  /\ \A w \in Worker : n \notin DOMAIN found[w]
      /\ \A w \in Worker : \A n \in DOMAIN found[w] :
           /\ found[w][n] = 1 /\ n \in Name /\ Emits(n)' /\ Behind(n) /\ Behind(n)'
           /\ \A v \in Worker : n \in DOMAIN found[v] => v = w
      /\ IsABag(shards) /\ DOMAIN found = Worker /\ \A w \in Worker : IsABag(found[w])
  <2>1. \A n \in DOMAIN shards : n \in Name /\ Emits(n)' /\ Behind(n) /\ Behind(n)'
    BY <1>0 DEF FoundInv
  <2>2. ASSUME NEW w \in Worker, NEW n \in DOMAIN found[w]
        PROVE  n \in Name /\ Emits(n)' /\ Behind(n) /\ Behind(n)'
    <3>1. found[w] \in {shards} \cup {found[v] : v \in Worker}
      OBVIOUS
    <3> QED
      BY <1>0, <2>2, <3>1 DEF FoundInv
  <2>3. /\ \A n \in DOMAIN shards : shards[n] = 1 /\ \A w \in Worker : n \notin DOMAIN found[w]
        /\ \A w \in Worker : \A n \in DOMAIN found[w] :
             found[w][n] = 1 /\ \A v \in Worker : n \in DOMAIN found[v] => v = w
    BY DEF FoundInv
  <2> QED
    BY <2>1, <2>2, <2>3, TypesOf
<1>2. ASSUME \A n \in DOMAIN shards' : /\ shards'[n] = 1 /\ n \in Name /\ Emits(n)' /\ Behind(n)'
                                       /\ \A w \in Worker : n \notin DOMAIN found'[w],
             \A w \in Worker : \A n \in DOMAIN found'[w] :
               /\ found'[w][n] = 1 /\ n \in Name /\ Emits(n)' /\ Behind(n)'
               /\ \A v \in Worker : n \in DOMAIN found'[v] => v = w
      PROVE  FoundInv'
  BY <1>2 DEF FoundInv
<1>3. ASSUME NEW w \in Worker, Entry(w) PROVE FoundInv'
  <2>1. PICK n : n = Names(w)[at[w] + 1]
    OBVIOUS
  <2>2. ~Behind(n) /\ Behind(n)' /\ n \in Name
    BY <1>3, <2>1, TaskFlows, PassedOne DEF Passes
  <2>3. shards' = shards /\ found' = IF Emits(n) THEN [found EXCEPT ![w] = found[w] (+) SetToBag({n})] ELSE found
    BY <1>3, <2>1 DEF Entry
  <2>4. CASE Emits(n)
    <3>0. PICK B : B = found[w] (+) SetToBag({n})
      OBVIOUS
    <3>1. n \notin DOMAIN shards /\ \A v \in Worker : n \notin DOMAIN found[v]
      BY <1>1, <2>2
    <3>2. /\ \A m : m \in DOMAIN B <=> m \in DOMAIN found[w] \/ m = n
          /\ B[n] = 1 /\ \A m : m \in DOMAIN found[w] => B[m] = found[w][m]
      <4>1. Adds(found[w], n, B)
        BY <1>1, <3>0 DEF Adds
      <4> QED
        BY <3>1, <4>1, AddFresh
    <3>3. found'[w] = B /\ \A v \in Worker \ {w} : found'[v] = found[v]
      BY <1>1, <2>3, <2>4, <3>0
    <3>4. \A m \in DOMAIN shards' : /\ shards'[m] = 1 /\ m \in Name /\ Emits(m)' /\ Behind(m)'
                                    /\ \A v \in Worker : m \notin DOMAIN found'[v]
      BY <1>1, <2>3, <3>1, <3>2, <3>3
    <3>5. \A v \in Worker : \A m \in DOMAIN found'[v] :
            /\ found'[v][m] = 1 /\ m \in Name /\ Emits(m)' /\ Behind(m)'
            /\ \A u \in Worker : m \in DOMAIN found'[u] => u = v
      BY <1>0, <1>1, <2>2, <2>4, <3>1, <3>2, <3>3
    <3> QED
      BY <1>2, <3>4, <3>5
  <2>5. CASE ~Emits(n)
    BY <1>1, <1>2, <2>3, <2>5
  <2> QED
    BY <2>4, <2>5
<1>4. ASSUME NEW w \in Worker, EndHelper(w) PROVE FoundInv'
  <2>0. PICK B : B = shards (+) found[w]
    OBVIOUS
  <2>1. shards' = B /\ found' = [found EXCEPT ![w] = EmptyBag]
    BY <1>4, <2>0 DEF EndHelper
  <2>2. DOMAIN shards \cap DOMAIN found[w] = {}
    BY <1>1
  <2>3. /\ \A m : m \in DOMAIN B <=> m \in DOMAIN shards \/ m \in DOMAIN found[w]
        /\ \A m : m \in DOMAIN shards => B[m] = shards[m]
        /\ \A m : m \in DOMAIN found[w] => B[m] = found[w][m]
    <3>1. Merges(shards, found[w], B)
      BY <1>1, <2>0, <2>2 DEF Merges
    <3> QED
      BY <3>1, AddApart
  <2>4. DOMAIN found'[w] = {} /\ \A v \in Worker \ {w} : found'[v] = found[v]
    BY <1>1, <2>1, NoCopies
  <2>5. \A m \in DOMAIN shards' : /\ shards'[m] = 1 /\ m \in Name /\ Emits(m)' /\ Behind(m)'
                                  /\ \A v \in Worker : m \notin DOMAIN found'[v]
    BY <1>1, <2>1, <2>3, <2>4
  <2>6. \A v \in Worker : \A m \in DOMAIN found'[v] :
          /\ found'[v][m] = 1 /\ m \in Name /\ Emits(m)' /\ Behind(m)'
          /\ \A u \in Worker : m \in DOMAIN found'[u] => u = v
    BY <1>1, <2>4
  <2> QED
    BY <1>2, <2>5, <2>6
<1>5. CASE \A w \in Worker : ~Entry(w) /\ ~EndHelper(w)
  BY <1>1, <1>2, <1>5, SameFound
<1> QED
  BY <1>3, <1>4, <1>5

\* A report that is new, and says what happened.
LEMMA ErrorOne ==
  ASSUME TypeOK, HelperInv, PositionInv, HandInv, DirectoryInv, ErrorInv, [Next]_vars,
         NEW e, NEW r, RecordError(e, r),
         e = SpawnError \/ (~Happened(e) /\ Happened(e)' /\ (Kept(r) => Kept(RootRead(e))))
  PROVE  ErrorInv'
<1>0. /\ \A f : Happened(f) => Happened(f)'
      /\ \A b : Kept(b)' = Kept(b)
      /\ IsABag(errors) /\ SpawnError' = SpawnError
  BY Monotone, TypesOf DEF Kept, SpawnError
<1>1. \A f \in DOMAIN errors : f # SpawnError => errors[f] = 1 /\ Happened(f) /\ Happened(f)' /\ Kept(RootRead(f))'
  BY <1>0 DEF ErrorInv
<1>2. \A f \in DOMAIN errors' : f # SpawnError => errors'[f] = 1 /\ Happened(f)' /\ Kept(RootRead(f))'
  <2>1. CASE Kept(r)
    <3>1. Adds(errors, e, errors')
      BY <1>0, <2>1 DEF RecordError, Adds
    <3>2. /\ \A f : f \in DOMAIN errors' <=> f \in DOMAIN errors \/ f = e
          /\ e \notin DOMAIN errors => errors'[e] = 1
          /\ \A f : f \in DOMAIN errors /\ f # e => errors'[f] = errors[f]
      BY <3>1, AddFresh
    <3>3. e # SpawnError => e \notin DOMAIN errors /\ Happened(e)' /\ Kept(RootRead(e))'
      BY <1>0, <1>1, <2>1
    <3> QED
      BY <1>1, <3>2, <3>3
  <2>2. CASE ~Kept(r)
    BY <1>1, <2>2 DEF RecordError
  <2> QED
    BY <2>1, <2>2
<1>3. \A f \in {abort'} \ {NoError, SpawnError} : Happened(f)'
  <2>1. \A f \in {abort} \ {NoError, SpawnError} : Happened(f)'
    BY <1>0 DEF ErrorInv
  <2>2. abort' = abort \/ abort' = e
    BY DEF RecordError
  <2>3. e # SpawnError /\ abort' = e => Happened(e)' \/ abort' = abort
    OBVIOUS
  <2> QED
    BY <2>1, <2>2, <2>3
<1>4. NoError' = NoError
  BY DEF NoError
<1> QED
  BY <1>0, <1>2, <1>3, <1>4 DEF ErrorInv

LEMMA NoReport ==
  ASSUME TypeOK, HelperInv, PositionInv, HandInv, DirectoryInv, ErrorInv, [Next]_vars, UNCHANGED report
  PROVE  ErrorInv'
<1>0. /\ \A f : Happened(f) => Happened(f)'
      /\ \A b : Kept(b)' = Kept(b)
      /\ SpawnError' = SpawnError /\ NoError' = NoError /\ errors' = errors /\ abort' = abort
  BY Monotone DEF Kept, SpawnError, NoError, report
<1>1. \A f \in DOMAIN errors' : f # SpawnError => errors'[f] = 1 /\ Happened(f)' /\ Kept(RootRead(f))'
  BY <1>0 DEF ErrorInv
<1>2. \A f \in {abort'} \ {NoError, SpawnError} : Happened(f)'
  BY <1>0 DEF ErrorInv
<1> QED
  BY <1>0, <1>1, <1>2 DEF ErrorInv

\* What an error says.
LEMMA Errors ==
  /\ \A d \in Dir : /\ Happened(<<"ignore", d>>) <=> IsRoot(d) /\ Is(d, "carried") /\ Met(d) /\ Begun(d)
                    /\ Happened(<<"read", d>>) <=> Is(d, "read") /\ ~Is(d, "loop") /\ Met(d) /\ Gone(d)
                    /\ Happened(<<"rules", d>>) <=> Is(d, "rules") /\ Open(d)
                    /\ Happened(<<"deferred", d>>) <=> Is(d, "deferred") /\ Open(d) /\ Gone(d)
                    /\ Happened(<<"ignore", d>>)' <=> (IsRoot(d) /\ Is(d, "carried") /\ Met(d) /\ Begun(d))'
                    /\ Happened(<<"read", d>>)' <=> (Is(d, "read") /\ ~Is(d, "loop") /\ Met(d) /\ Gone(d))'
                    /\ Happened(<<"rules", d>>)' <=> (Is(d, "rules") /\ Open(d))'
                    /\ Happened(<<"deferred", d>>)' <=> (Is(d, "deferred") /\ Open(d) /\ Gone(d))'
                    /\ RootRead(<<"read", d>>) <=> IsRoot(d)
  /\ \A n \in Name : /\ Happened(<<"entry", n>>) <=> Fails(n) /\ Behind(n)
                     /\ Happened(<<"entry", n>>)' <=> (Fails(n) /\ Behind(n))'
  /\ \A x : ~RootRead(<<"ignore", x>>) /\ ~RootRead(<<"rules", x>>) /\ ~RootRead(<<"deferred", x>>) /\ ~RootRead(<<"entry", x>>)
<1>1. \A x, y : /\ <<"ignore", x>> # <<"read", y>> /\ <<"ignore", x>> # <<"rules", y>> /\ <<"ignore", x>> # <<"deferred", y>>
                /\ <<"ignore", x>> # <<"entry", y>> /\ <<"read", x>> # <<"rules", y>> /\ <<"read", x>> # <<"deferred", y>>
                /\ <<"read", x>> # <<"entry", y>> /\ <<"rules", x>> # <<"deferred", y>> /\ <<"rules", x>> # <<"entry", y>>
                /\ <<"deferred", x>> # <<"entry", y>>
  OBVIOUS
<1>2. \A s, x, y : <<s, x>> = <<s, y>> <=> x = y
  OBVIOUS
<1>3. \A d \in Dir : /\ Happened(<<"ignore", d>>) <=> IsRoot(d) /\ Is(d, "carried") /\ Met(d) /\ Begun(d)
                     /\ Happened(<<"ignore", d>>)' <=> (IsRoot(d) /\ Is(d, "carried") /\ Met(d) /\ Begun(d))'
  BY <1>1, <1>2 DEF Happened
<1>4. \A d \in Dir : /\ Happened(<<"read", d>>) <=> Is(d, "read") /\ ~Is(d, "loop") /\ Met(d) /\ Gone(d)
                     /\ Happened(<<"read", d>>)' <=> (Is(d, "read") /\ ~Is(d, "loop") /\ Met(d) /\ Gone(d))'
  BY <1>1, <1>2 DEF Happened
<1>5. \A d \in Dir : /\ Happened(<<"rules", d>>) <=> Is(d, "rules") /\ Open(d)
                     /\ Happened(<<"rules", d>>)' <=> (Is(d, "rules") /\ Open(d))'
  BY <1>1, <1>2 DEF Happened
<1>6. \A d \in Dir : /\ Happened(<<"deferred", d>>) <=> Is(d, "deferred") /\ Open(d) /\ Gone(d)
                     /\ Happened(<<"deferred", d>>)' <=> (Is(d, "deferred") /\ Open(d) /\ Gone(d))'
  BY <1>1, <1>2 DEF Happened
<1>7. \A n \in Name : /\ Happened(<<"entry", n>>) <=> Fails(n) /\ Behind(n)
                      /\ Happened(<<"entry", n>>)' <=> (Fails(n) /\ Behind(n))'
  BY <1>1, <1>2 DEF Happened
<1>8. /\ \A d \in Dir : RootRead(<<"read", d>>) <=> IsRoot(d)
      /\ \A x : ~RootRead(<<"ignore", x>>) /\ ~RootRead(<<"rules", x>>) /\ ~RootRead(<<"deferred", x>>) /\ ~RootRead(<<"entry", x>>)
  BY <1>1, <1>2 DEF RootRead
<1> QED
  BY <1>3, <1>4, <1>5, <1>6, <1>7, <1>8

\* What a directory is before and after it is begun, read and done with.
LEMMA FlowFacts ==
  ASSUME TypeOK, HelperInv, PositionInv, HandInv, DirectoryInv, [Next]_vars, NEW x \in Underway
  PROVE  /\ x.dir \in Dir /\ Met(x.dir) /\ Met(x.dir)' /\ ~Gone(x.dir)
         /\ Begins(x) => ~Begun(x.dir) /\ Begun(x.dir)'
         /\ Reads(x) => ~Open(x.dir) /\ Open(x.dir)' /\ ~Gone(x.dir)'
         /\ Leaves(x) => Gone(x.dir)' /\ (x.stage = "going" => Open(x.dir) /\ Open(x.dir)')
<1>0. \A d, s, n : On(d, s, n).dir = d /\ On(d, s, n).stage = s /\ On(d, s, n).next = n
  BY Tokens
<1>1. x.dir \in Dir /\ Met(x.dir) /\ Met(x.dir)' /\ ~Gone(x.dir) /\ (x.stage = "going" <=> Open(x.dir))
  BY TokenTypes, Monotone DEF DirectoryInv, Gone
<1>2. ASSUME Begins(x) PROVE ~Begun(x.dir) /\ Begun(x.dir)'
  <2>1. ~Begun(x.dir)
    BY <1>2 DEF Begins, Begun
  <2>2. \A y \in Underway' : y.dir = x.dir => y.stage = "begun"
    BY <1>0, <1>2, OneToken DEF Begins, Turns
  <2> QED
    BY <2>1, <2>2 DEF Begun
<1>3. ASSUME Reads(x) PROVE ~Open(x.dir) /\ Open(x.dir)' /\ ~Gone(x.dir)'
  <2>1. ~Open(x.dir)
    BY <1>1, <1>3 DEF Reads
  <2>2. Adds(opened, x.dir, opened')
    BY <1>3, TypesOf DEF Reads, Adds
  <2>3. x.dir \in DOMAIN opened'
    BY <2>2, AddFresh
  <2>4. ~Gone(x.dir)'
    BY <1>0, <1>3 DEF Reads, Turns, Gone
  <2> QED
    BY <2>1, <2>3, <2>4 DEF Open
<1>4. ASSUME Leaves(x) PROVE Gone(x.dir)'
  BY <1>4, OneToken DEF Leaves, Gone
<1> QED
  BY <1>1, <1>2, <1>3, <1>4, Monotone

LEMMA TaskErrors ==
  ASSUME TypeOK, HelperInv, PositionInv, HandInv, DirectoryInv, ErrorInv, NEW w \in Worker, TaskStep(w) \/ Panic(w)
  PROVE  ErrorInv'
<1>0. [Next]_vars
  BY DEF Next
<1>1. PICK x : x = OfHand(w)
  OBVIOUS
<1>2. PICK d : d = task[w].dir
  OBVIOUS
<1>3. /\ \A e, f : Is(e, f)' = Is(e, f)
      /\ \A n : Fails(n)' = Fails(n)
      /\ d \in Dir
  BY <1>0, <1>2, Monotone, TypesOf DEF Is, Fails
<1>4. CASE UNCHANGED report
  BY <1>0, <1>4, NoReport
<1>5. CASE Begin(w) /\ ~UNCHANGED report
  <2>1. ~Stopping /\ ~(task[w].next > 0) /\ Is(d, "carried") /\ RecordError(<<"ignore", d>>, FALSE)
    BY <1>2, <1>5 DEF Begin
  <2>2. Begins(x) /\ x.dir = d /\ x \in Underway
    BY <1>1, <1>2, <1>5, <2>1, TaskFlows DEF Begins, Turns
  <2>3. Met(d)' /\ ~Begun(d) /\ Begun(d)'
    BY <1>0, <2>2, FlowFacts
  <2>4. IsRoot(d)
    BY <1>3, <2>1, TypesOf, WorldFields DEF Is
  <2>5. ~Happened(<<"ignore", d>>) /\ Happened(<<"ignore", d>>)' /\ ~RootRead(<<"ignore", d>>)
    BY <1>3, <2>1, <2>3, <2>4, Errors
  <2>6. Kept(FALSE) => Kept(RootRead(<<"ignore", d>>))
    BY <2>5 DEF Kept
  <2> QED
    BY <1>0, <2>1, <2>5, <2>6, ErrorOne
<1>6. CASE ReadFails(w) /\ ~UNCHANGED report
  <2>1. Is(d, "read") /\ ~Is(d, "loop") /\ RecordError(<<"read", d>>, IsRoot(d))
    BY <1>2, <1>6 DEF ReadFails
  <2>2. Leaves(x) /\ x.dir = d /\ x \in Underway
    BY <1>1, <1>2, <1>6, TaskFlows DEF Leaves
  <2>3. Met(d)' /\ ~Gone(d) /\ Gone(d)'
    BY <1>0, <2>2, FlowFacts
  <2>4. ~Happened(<<"read", d>>) /\ Happened(<<"read", d>>)' /\ (RootRead(<<"read", d>>) <=> IsRoot(d))
    BY <1>3, <2>1, <2>3, Errors
  <2>5. Kept(IsRoot(d)) => Kept(RootRead(<<"read", d>>))
    BY <2>4 DEF Kept
  <2> QED
    BY <1>0, <2>1, <2>4, <2>5, ErrorOne
<1>7. CASE Read(w) /\ ~UNCHANGED report
  <2>1. Is(d, "rules") /\ RecordError(<<"rules", d>>, FALSE)
    BY <1>2, <1>7 DEF Read
  <2>2. Reads(x) /\ x.dir = d /\ x \in Underway
    BY <1>1, <1>2, <1>7, TaskFlows DEF Reads, Turns
  <2>3. ~Open(d) /\ Open(d)'
    BY <1>0, <2>2, FlowFacts
  <2>4. ~Happened(<<"rules", d>>) /\ Happened(<<"rules", d>>)' /\ ~RootRead(<<"rules", d>>)
    BY <1>3, <2>1, <2>3, Errors
  <2>5. Kept(FALSE) => Kept(RootRead(<<"rules", d>>))
    BY <2>4 DEF Kept
  <2> QED
    BY <1>0, <2>1, <2>4, <2>5, ErrorOne
<1>8. CASE Entry(w) /\ ~UNCHANGED report
  <2>1. PICK n : n = Names(w)[at[w] + 1]
    OBVIOUS
  <2>2. Fails(n) /\ RecordError(<<"entry", n>>, FALSE)
    BY <1>8, <2>1 DEF Entry
  <2>3. n \in Name /\ ~Behind(n) /\ Behind(n)'
    BY <1>8, <2>1, TaskFlows, PassedOne DEF Passes
  <2>4. ~Happened(<<"entry", n>>) /\ Happened(<<"entry", n>>)' /\ ~RootRead(<<"entry", n>>)
    BY <1>3, <2>2, <2>3, Errors
  <2>5. Kept(FALSE) => Kept(RootRead(<<"entry", n>>))
    BY <2>4 DEF Kept
  <2> QED
    BY <1>0, <2>2, <2>4, <2>5, ErrorOne
<1>9. CASE EndListing(w) /\ ~UNCHANGED report
  <2>1. Is(d, "deferred") /\ RecordError(<<"deferred", d>>, FALSE)
    BY <1>2, <1>9 DEF EndListing
  <2>2. Leaves(x) /\ x.dir = d /\ x \in Underway /\ x.stage = "going"
    BY <1>1, <1>2, <1>9, TaskFlows DEF Leaves, On
  <2>3. Open(d)' /\ ~Gone(d) /\ Gone(d)'
    BY <1>0, <2>2, FlowFacts
  <2>4. ~Happened(<<"deferred", d>>) /\ Happened(<<"deferred", d>>)' /\ ~RootRead(<<"deferred", d>>)
    BY <1>3, <2>1, <2>3, Errors
  <2>5. Kept(FALSE) => Kept(RootRead(<<"deferred", d>>))
    BY <2>4 DEF Kept
  <2> QED
    BY <1>0, <2>1, <2>4, <2>5, ErrorOne
<1>10. CheckStop(w) \/ List(w) \/ Continue(w) \/ Release(w) \/ RecordPanic(w) \/ Panic(w) => UNCHANGED report
  BY DEF CheckStop, List, Continue, Release, RecordPanic, Panic
<1> QED
  BY <1>4, <1>5, <1>6, <1>7, <1>8, <1>9, <1>10 DEF TaskStep

LEMMA ErrorStep ==
  ASSUME TypeOK, HelperInv, PositionInv, HandInv, DirectoryInv, ErrorInv, [Next]_vars
  PROVE  ErrorInv'
<1>1. ASSUME NEW w \in Worker, PoolStep(w) PROVE ErrorInv'
  <2>1. CASE Refused(w)
    BY <2>1, ErrorOne DEF Refused, SpawnError
  <2>2. CASE ~Refused(w)
    <3>1. UNCHANGED report
      BY <1>1, <2>2 DEF PoolStep, GrowDone, ClaimSlot, NoScratch, Spawn, TakeTask, NoMoreTasks, EndHelper
    <3> QED
      BY <3>1, NoReport
  <2> QED
    BY <2>1, <2>2
<1>2. ASSUME AloneStep \/ Finish \/ Cancel \/ UNCHANGED vars PROVE ErrorInv'
  <2>1. UNCHANGED report
    BY <1>2 DEF AloneStep, NextRoot, RootsStopped, RootsDone, WidenPool, DrainTake, DrainEmpty, Finish, Cancel, vars
  <2> QED
    BY <2>1, NoReport
<1> QED
  BY <1>1, <1>2, TaskErrors DEF Next, Done

-----------------------------------------------------------------------------
(* What is not lost.                                                       *)

\* A worker that panics stops the walk before it does anything else.
LEMMA Unwinding ==
  ASSUME TypeOK, HelperInv, [Next]_vars, NEW v \in Worker, pc[v] \in {"unwind", "unwound"}
  PROVE  pc'[v] \in {"unwind", "unwound"} \/ stopped'
<1>0. Place(v) = pc[v] /\ pc[v] \notin {"leave", "left", "join", "idle", "unborn"}
  BY DEF Place, Growing
<1>1. ASSUME NEW w \in Worker, NEW from, NEW to, Goes(w, from, to), from # "unwind", from # "unwound"
      PROVE  pc'[v] = pc[v]
  BY <1>1 DEF Goes, Others
<1>2. ASSUME NEW w \in Worker, TaskStep(w) \/ Panic(w), ~Release(w), ~RecordPanic(w)
      PROVE  pc'[v] = pc[v]
  <2>1. \E from, to : Goes(w, from, to) /\ from # "unwind" /\ from # "unwound"
    BY <1>2, TaskPlaces DEF TaskStep
  <2> QED
    BY <1>1, <2>1
<1>3. ASSUME NEW w \in Worker, Release(w)
      PROVE  pc'[v] \in {"unwind", "unwound"}
  BY <1>3, TypesOf DEF Release, Goto
<1>4. ASSUME NEW w \in Worker, RecordPanic(w)
      PROVE  stopped'
  BY <1>4 DEF RecordPanic
<1>5. ASSUME NEW w \in Worker, PoolStep(w)
      PROVE  pc'[v] = pc[v]
  <2>1. CASE Spawn(w)
    BY <1>0, <2>1, TypesOf DEF Spawn, Goto, HelperInv
  <2>2. CASE ~Spawn(w)
    BY <1>0, <1>5, <2>2, TypesOf
       DEF PoolStep, GrowDone, ClaimSlot, NoScratch, Refused, TakeTask, NoMoreTasks, EndHelper, Goto
  <2> QED
    BY <2>1, <2>2
<1>6. AloneStep \/ Finish \/ Cancel \/ UNCHANGED vars => pc'[v] = pc[v]
  BY <1>0, TypesOf
     DEF AloneStep, NextRoot, RootsStopped, RootsDone, WidenPool, DrainTake, DrainEmpty, Finish, Cancel, vars, Goto, Join
<1> QED
  BY <1>2, <1>3, <1>4, <1>5, <1>6 DEF Next, Done

\* A walk that is intact was intact, and this step did nothing to stop it.
LEMMA IntactBack ==
  ASSUME TypeOK, HelperInv, [Next]_vars, Intact'
  PROVE  Intact /\ ~Stopping /\ ~Stopping' /\ \A w \in Worker : ~Panic(w) /\ ~RecordPanic(w)
<1>1. ~Stopping' /\ ~Stopping /\ ~stopped'
  BY StopsStay DEF Intact, Stopping
<1>2. \A w \in Worker : pc[w] \notin {"unwind", "unwound"}
  BY <1>1, Unwinding DEF Intact
<1>3. \A w \in Worker : ~Panic(w)
  BY TypesOf DEF Intact, Panic, Goto
<1>4. \A w \in Worker : ~RecordPanic(w)
  BY <1>1 DEF RecordPanic
<1> QED
  BY <1>1, <1>2, <1>3, <1>4 DEF Intact

\* Nothing that was reported or retained is lost.
LEMMA Reporting ==
  ASSUME [Next]_vars
  PROVE  UNCHANGED report \/ \E e, r : RecordError(e, r)
<1>1. ASSUME NEW w \in Worker, TaskStep(w) \/ Panic(w)
      PROVE  UNCHANGED report \/ \E e, r : RecordError(e, r)
  BY <1>1 DEF TaskStep, Begin, CheckStop, ReadFails, Read, List, Entry, Continue, EndListing, Release, RecordPanic, Panic
<1>2. ASSUME NEW w \in Worker, PoolStep(w)
      PROVE  UNCHANGED report \/ \E e, r : RecordError(e, r)
  BY <1>2 DEF PoolStep, GrowDone, ClaimSlot, NoScratch, Spawn, Refused, TakeTask, NoMoreTasks, EndHelper
<1>3. AloneStep \/ Finish \/ Cancel \/ UNCHANGED vars => UNCHANGED report
  BY DEF AloneStep, NextRoot, RootsStopped, RootsDone, WidenPool, DrainTake, DrainEmpty, Finish, Cancel, vars
<1> QED
  BY <1>1, <1>2, <1>3 DEF Next, Done

LEMMA RecordedStays ==
  ASSUME TypeOK, [Next]_vars
  PROVE  \A e, r : Recorded(e, r) => Recorded(e, r)'
<1>1. /\ \A b : Kept(b)' = Kept(b)
      /\ world' = world /\ IsABag(errors)
  BY PhaseSteps, TypesOf DEF Kept
<1>2. \A e : e \in DOMAIN errors => e \in DOMAIN errors'
  <2>1. ASSUME NEW f, NEW r, RecordError(f, r), Kept(r)
        PROVE  \A e : e \in DOMAIN errors => e \in DOMAIN errors'
    <3>1. Adds(errors, f, errors')
      BY <1>1, <2>1 DEF RecordError, Adds
    <3> QED
      BY <3>1, AddFresh
  <2>2. ASSUME NEW f, NEW r, RecordError(f, r), ~Kept(r)
        PROVE  errors' = errors
    BY <2>2 DEF RecordError
  <2> QED
    BY <2>1, <2>2, Reporting DEF report
<1> QED
  BY <1>1, <1>2 DEF Recorded

\* A report that does not end the walk is on record.
LEMMA RecordedNow ==
  ASSUME TypeOK, [Next]_vars, NEW e, NEW r, RecordError(e, r), ~Stopping'
  PROVE  Recorded(e, r)'
<1>1. Kept(r)' = Kept(r) /\ world' = world /\ IsABag(errors)
  BY PhaseSteps, TypesOf DEF Kept
<1>2. world.policy # "abort"
  BY DEF RecordError, Stopping
<1>3. Kept(r) => e \in DOMAIN errors'
  <2>1. Kept(r) => Adds(errors, e, errors')
    BY <1>1 DEF RecordError, Adds
  <2> QED
    BY <2>1, AddFresh
<1> QED
  BY <1>1, <1>2, <1>3 DEF Recorded

LEMMA RetainedStays ==
  ASSUME TypeOK, HelperInv, FoundInv, [Next]_vars
  PROVE  \A n : Retained(n) => Retained(n)'
<1>1. CASE \A w \in Worker : ~Entry(w) /\ ~EndHelper(w)
  BY <1>1, SameFound DEF Retained
<1>2. ASSUME NEW w \in Worker, Entry(w)
      PROVE  \A n : Retained(n) => Retained(n)'
  <2>1. PICK m : m = Names(w)[at[w] + 1]
    OBVIOUS
  <2>2. shards' = shards /\ (found' = found \/ found' = [found EXCEPT ![w] = found[w] (+) SetToBag({m})])
    BY <1>2, <2>1 DEF Entry
  <2>3. CASE found' = found
    BY <2>2, <2>3 DEF Retained
  <2>4. CASE found' = [found EXCEPT ![w] = found[w] (+) SetToBag({m})]
    <3>1. Adds(found[w], m, found'[w]) /\ \A v \in Worker \ {w} : found'[v] = found[v]
      BY <2>4, TypesOf DEF Adds
    <3>2. \A n : n \in DOMAIN found[w] => n \in DOMAIN found'[w]
      BY <3>1, AddFresh
    <3> QED
      BY <2>2, <3>1, <3>2 DEF Retained
  <2> QED
    BY <2>2, <2>3, <2>4
<1>3. ASSUME NEW w \in Worker, EndHelper(w)
      PROVE  \A n : Retained(n) => Retained(n)'
  <2>1. /\ Merges(shards, found[w], shards') /\ DOMAIN found = Worker
        /\ \A v \in Worker \ {w} : found'[v] = found[v]
    BY <1>3, TypesOf DEF EndHelper, FoundInv, Merges
  <2>2. \A n : n \in DOMAIN shards \/ n \in DOMAIN found[w] => n \in DOMAIN shards'
    BY <2>1, AddApart
  <2> QED
    BY <2>1, <2>2 DEF Retained
<1> QED
  BY <1>1, <1>2, <1>3

\* A flow touches one directory.
LEMMA OneTurns ==
  ASSUME HandInv, DirectoryInv, NEW x \in Underway, Begins(x) \/ Reads(x) \/ Leaves(x), NEW d, d # x.dir
  PROVE  (Gone(d)' => Gone(d)) /\ (Begun(d)' => Begun(d))
<1>1. \A y \in Underway : y.dir = d => y \in Underway'
  BY DEF Begins, Reads, Leaves, Turns
<1> QED
  BY <1>1 DEF Gone, Begun

\* A directory whose ways on are those it had is accounted for as before.
Still(d) == (Gone(d)' => Gone(d)) /\ (Begun(d)' => Begun(d)) /\ (Open(d)' => Open(d))
LEMMA StillAccounted ==
  ASSUME TypeOK, HelperInv, PositionInv, HandInv, DirectoryInv, [Next]_vars, NEW d, Accounted(d), Still(d)
  PROVE  Accounted(d)'
<1>1. \A e, r : Recorded(e, r) => Recorded(e, r)'
  BY RecordedStays
<1>2. \A f : Is(d, f)' = Is(d, f)
  BY Monotone DEF Is
<1>3. IsRoot(d)' = IsRoot(d) /\ (Open(d) => Open(d)')
  BY Monotone DEF IsRoot
<1> QED
  BY <1>1, <1>2, <1>3 DEF Accounted, Still

\* What is met is met once its place is behind, and no other directory is.
LEMMA SameMet ==
  ASSUME TypeOK, HelperInv, PositionInv, HandInv, DirectoryInv, [Next]_vars, nextRoot' = nextRoot,
         NEW d \in Dir, Met(d)', ~IsRoot(d) => (Behind(d)' => Behind(d))
  PROVE  Met(d)
<1>1. world' = world /\ Leads(d)' = Leads(d) /\ IsRoot(d)' = IsRoot(d)
  BY Monotone DEF Leads, Offered, IsRoot
<1> QED
  BY <1>1 DEF Met

\* Nothing is passed by a step that goes past no entry.
LEMMA SameBehind ==
  ASSUME TypeOK, PositionInv, HandInv, DirectoryInv,
         \/ Unmoved
         \/ AddsRoot
         \/ \E x \in Underway : Begins(x) \/ Reads(x)
         \/ \E x \in Underway : Leaves(x) /\ (x.stage = "going" => x.next = Len(Listing[x.dir])),
         NEW n, Behind(n)'
  PROVE  Behind(n)
<1>1. PICK up \in Dir : \E k \in 1 .. Len(Listing[up]) : Listing[up][k] = n /\ Passed(up, k)'
  BY DEF Behind
<1>2. PICK k \in 1 .. Len(Listing[up]) : Listing[up][k] = n /\ Passed(up, k)'
  BY <1>1
<1>3. Passed(up, k)
  <2>1. CASE Unmoved \/ AddsRoot \/ \E x \in Underway : Begins(x) \/ Reads(x)
    BY <1>2, <2>1, PassedNone
  <2>2. ASSUME NEW x \in Underway, Leaves(x), x.stage = "going" => x.next = Len(Listing[x.dir])
        PROVE  Passed(up, k)
    <3>1. Passed(up, k) \/ (x.dir = up /\ x.stage = "going" /\ ~(k <= x.next))
      BY <1>2, <2>2, PassedNone
    <3>2. Len(Listing[up]) \in Nat
      BY Constants
    <3> QED
      BY <2>2, <3>1, <3>2
  <2> QED
    BY <2>1, <2>2
<1> QED
  BY <1>2, <1>3 DEF Behind

\* A directory that begins, is read or is done with leaves a report where the
\* world has one for it.
Reports(x) ==
  \/ Begins(x) /\ (Is(x.dir, "carried") => Recorded(<<"ignore", x.dir>>, FALSE)')
  \/ Reads(x) /\ (Is(x.dir, "rules") => Recorded(<<"rules", x.dir>>, FALSE)')
  \/ /\ Leaves(x) /\ x.stage = "begun"
     /\ Is(x.dir, "loop") \/ (Is(x.dir, "read") /\ Recorded(<<"read", x.dir>>, IsRoot(x.dir))')
  \/ /\ Leaves(x) /\ x.stage = "going" /\ x.next = Len(Listing[x.dir])
     /\ Is(x.dir, "deferred") => Recorded(<<"deferred", x.dir>>, FALSE)'

LEMMA OwnAccounted ==
  ASSUME TypeOK, HelperInv, PositionInv, HandInv, DirectoryInv, [Next]_vars,
         NEW x \in Underway, Reports(x), Accounted(x.dir)
  PROVE  Accounted(x.dir)'
<1>0. PICK d : d = x.dir
  OBVIOUS
<1>1. /\ \A e, r : Recorded(e, r) => Recorded(e, r)'
      /\ \A f : Is(d, f)' = Is(d, f)
      /\ IsRoot(d)' = IsRoot(d)
  BY RecordedStays, Monotone DEF Is, IsRoot
<1>2. /\ Begins(x) => ~Begun(d) /\ Begun(d)'
      /\ Reads(x) => ~Open(d) /\ Open(d)' /\ ~Gone(d)'
      /\ Leaves(x) => Gone(d)' /\ (x.stage = "going" => Open(d) /\ Open(d)')
      /\ ~Gone(d)
  BY <1>0, FlowFacts
<1>3. x.stage = "going" <=> Open(d)
  BY <1>0 DEF DirectoryInv
<1>4. x.stage # "waiting" => Begun(d)
  BY <1>0, OneToken DEF Begun
<1>5. ASSUME Begins(x), Is(x.dir, "carried") => Recorded(<<"ignore", x.dir>>, FALSE)'
      PROVE  Accounted(d)'
  <2>1. ~Open(d) /\ ~Open(d)' /\ ~Gone(d)'
    <3>1. On(d, "begun", 0) \in Underway' /\ On(d, "begun", 0).dir = d /\ opened' = opened
      BY <1>0, <1>5, Tokens DEF Begins, Turns
    <3> QED
      BY <1>3, <1>5, <3>1 DEF Begins, Open, Gone
  <2> QED
    BY <1>0, <1>1, <1>5, <2>1 DEF Accounted
<1>6. ASSUME Reads(x), Is(x.dir, "rules") => Recorded(<<"rules", x.dir>>, FALSE)'
      PROVE  Accounted(d)'
  <2>1. Begun(d)
    BY <1>4, <1>6 DEF Reads
  <2> QED
    BY <1>0, <1>1, <1>2, <1>6, <2>1 DEF Accounted
<1>7. ASSUME Leaves(x), x.stage = "begun",
             Is(x.dir, "loop") \/ (Is(x.dir, "read") /\ Recorded(<<"read", x.dir>>, IsRoot(x.dir))')
      PROVE  Accounted(d)'
  <2>1. Begun(d) /\ ~Open(d) /\ ~Open(d)'
    BY <1>0, <1>3, <1>4, <1>7 DEF Leaves, SameReach, Open
  <2> QED
    BY <1>0, <1>1, <1>7, <2>1 DEF Accounted
<1>8. ASSUME Leaves(x), x.stage = "going", Is(x.dir, "deferred") => Recorded(<<"deferred", x.dir>>, FALSE)'
      PROVE  Accounted(d)'
  <2>1. Begun(d) /\ Open(d) /\ Open(d)'
    BY <1>2, <1>4, <1>8
  <2> QED
    BY <1>0, <1>1, <1>8, <2>1 DEF Accounted
<1> QED
  BY <1>0, <1>5, <1>6, <1>7, <1>8 DEF Reports

\* Step by step: the directory that a worker gets on with.
LEMMA TaskReports ==
  ASSUME TypeOK, HelperInv, PositionInv, HandInv, DirectoryInv, FoundInv, NEW w \in Worker, TaskStep(w), ~Entry(w),
         Intact'
  PROVE  Unmoved \/ \E x \in Underway : Reports(x)
<1>0. [Next]_vars /\ ~Stopping /\ ~Stopping' /\ ~RecordPanic(w)
  <2>1. [Next]_vars
    BY DEF Next
  <2> QED
    BY <2>1, IntactBack
<1>1. PICK x : x = OfHand(w)
  OBVIOUS
<1>2. PICK d : d = task[w].dir
  OBVIOUS
<1>3. \A e, r : RecordError(e, r) => Recorded(e, r)'
  BY <1>0, RecordedNow
<1>4. CASE Begin(w)
  <2>1. x.dir = d /\ (Unmoved \/ (~(task[w].next > 0) /\ Begins(x)))
    BY <1>0, <1>1, <1>2, <1>4, TaskFlows
  <2>2. CASE ~(task[w].next > 0) /\ Begins(x)
    <3>1. Is(d, "carried") => RecordError(<<"ignore", d>>, FALSE)
      BY <1>0, <1>2, <1>4, <2>2 DEF Begin
    <3> QED
      BY <1>3, <2>1, <2>2, <3>1 DEF Reports, Begins, Turns
  <2> QED
    BY <2>1, <2>2
<1>5. CASE ReadFails(w)
  <2>1. x.dir = d /\ x.stage = "begun" /\ Leaves(x)
    BY <1>1, <1>2, <1>5, TaskFlows
  <2>2. Is(d, "loop") \/ (Is(d, "read") /\ RecordError(<<"read", d>>, IsRoot(d)))
    BY <1>2, <1>5 DEF ReadFails
  <2>3. PICK r : r = IsRoot(d)
    OBVIOUS
  <2>4. r' = IsRoot(d)' /\ r' = r
    BY <2>3 DEF IsRoot
  <2>5. Is(d, "loop") \/ (Is(d, "read") /\ Recorded(<<"read", d>>, IsRoot(d))')
    BY <1>3, <2>2, <2>3, <2>4 DEF Recorded
  <2> QED
    BY <2>1, <2>5 DEF Reports, Leaves
<1>6. CASE Read(w)
  <2>1. x.dir = d /\ Reads(x)
    BY <1>1, <1>2, <1>6, TaskFlows
  <2>2. Is(d, "rules") => RecordError(<<"rules", d>>, FALSE)
    BY <1>2, <1>6 DEF Read
  <2> QED
    BY <1>3, <2>1, <2>2 DEF Reports, Reads, Turns
<1>7. CASE EndListing(w)
  <2>1. x = On(d, "going", at[w]) /\ Leaves(x) /\ at[w] = Len(Listing[d])
    BY <1>0, <1>1, <1>2, <1>7, TaskFlows DEF EndListing, Names
  <2>2. Is(d, "deferred") => RecordError(<<"deferred", d>>, FALSE)
    BY <1>2, <1>7 DEF EndListing
  <2>3. x.dir = d /\ x.stage = "going" /\ x.next = Len(Listing[x.dir])
    BY <2>1, Tokens
  <2> QED
    BY <1>3, <2>1, <2>2, <2>3 DEF Reports, Leaves
<1>8. CheckStop(w) \/ List(w) \/ Continue(w) \/ Release(w) => Unmoved
  BY <1>0, TaskFlows
<1> QED
  BY <1>0, <1>4, <1>5, <1>6, <1>7, <1>8 DEF TaskStep

\* The entry that a worker goes past.
LEMMA EntryReports ==
  ASSUME TypeOK, HelperInv, PositionInv, HandInv, DirectoryInv, NEW w \in Worker, Entry(w), Intact'
  PROVE  \E x \in Underway : \E n \in Name :
           Passes(x, n) /\ (Emits(n) => Retained(n)') /\ (Fails(n) => Recorded(<<"entry", n>>, FALSE)')
<1>0. [Next]_vars /\ ~Stopping'
  <2>1. [Next]_vars
    BY DEF Next, TaskStep
  <2> QED
    BY <2>1, IntactBack
<1>1. PICK x : x = OfHand(w)
  OBVIOUS
<1>2. PICK n : n = Names(w)[at[w] + 1]
  OBVIOUS
<1>3. Passes(x, n)
  BY <1>1, <1>2, TaskFlows
<1>4. Fails(n) => Recorded(<<"entry", n>>, FALSE)'
  BY <1>0, <1>2, RecordedNow DEF Entry
<1>5. Emits(n) => Retained(n)'
  <2>1. Emits(n) => Adds(found[w], n, found'[w]) /\ DOMAIN found' = Worker
    BY <1>2, TypesOf DEF Entry, Adds
  <2> QED
    BY <2>1, AddFresh DEF Retained
<1> QED
  BY <1>3, <1>4, <1>5 DEF Passes

LEMMA FlowReports ==
  ASSUME TypeOK, HelperInv, PositionInv, HandInv, DirectoryInv, FoundInv, [Next]_vars, Intact'
  PROVE  \/ Unmoved \/ AddsRoot
         \/ \E x \in Underway : Reports(x)
         \/ \E x \in Underway : \E n \in Name :
              Passes(x, n) /\ (Emits(n) => Retained(n)') /\ (Fails(n) => Recorded(<<"entry", n>>, FALSE)')
<1>1. ~Stopping /\ \A w \in Worker : ~Panic(w)
  BY IntactBack
<1> QED
  BY <1>1, TaskReports, EntryReports, OtherFlows DEF Next, Done

\* Every directory that was met stays accounted for.
LEMMA DirectoriesStep ==
  ASSUME TypeOK, HelperInv, PositionInv, HandInv, DirectoryInv, FoundInv, [Next]_vars, Intact', KeepsDirectories
  PROVE  KeepsDirectories'
<1> SUFFICES ASSUME NEW d \in Dir, Met(d)' PROVE Accounted(d)'
  BY DEF KeepsDirectories
<1>0. Met(d) => Accounted(d)
  BY DEF KeepsDirectories
<1>1. CASE Unmoved
  <2>1. Met(d)
    BY <1>1, SameMet, SameBehind DEF Unmoved, SameReach
  <2>2. Still(d)
    BY <1>1 DEF Still, Unmoved, SameReach, Gone, Begun, Open
  <2> QED
    BY <1>0, <2>1, <2>2, StillAccounted
<1>2. ASSUME NEW x \in Underway, Reports(x)
      PROVE  Accounted(d)'
  <2>1. Begins(x) \/ Reads(x) \/ (Leaves(x) /\ (x.stage = "going" => x.next = Len(Listing[x.dir])))
    BY <1>2 DEF Reports
  <2>2. nextRoot' = nextRoot
    BY <2>1 DEF Begins, Reads, Leaves, Turns, SameReach
  <2>3. Met(d)
    BY <2>1, <2>2, SameMet, SameBehind
  <2>4. CASE d = x.dir
    BY <1>0, <1>2, <2>3, <2>4, OwnAccounted
  <2>5. CASE d # x.dir
    <3>1. (Gone(d)' => Gone(d)) /\ (Begun(d)' => Begun(d))
      BY <2>1, <2>5, OneTurns
    <3>2. Open(d)' => Open(d)
      <4>1. CASE Reads(x)
        <5>1. Adds(opened, x.dir, opened')
          BY <4>1, TypesOf DEF Reads, Adds
        <5> QED
          BY <2>5, <5>1, AddFresh DEF Open
      <4>2. CASE ~Reads(x)
        BY <2>1, <4>2 DEF Open, Begins, Leaves, SameReach
      <4> QED
        BY <4>1, <4>2
    <3> QED
      BY <1>0, <2>3, <3>1, <3>2, StillAccounted DEF Still
  <2> QED
    BY <2>4, <2>5
<1>3. ASSUME ~Met(d), On(d, "waiting", 0) \in Underway', opened' = opened
      PROVE  Accounted(d)'
  <2>1. ~Open(d)'
    BY <1>3 DEF DirectoryInv, Open
  <2>2. ~Gone(d)' /\ ~Begun(d)'
    BY <1>3, Tokens DEF Gone, Begun
  <2> QED
    BY <2>1, <2>2 DEF Accounted
<1>4. ASSUME NEW x \in Underway, NEW n \in Name, Passes(x, n)
      PROVE  Accounted(d)'
  <2>1. /\ opened' = opened /\ nextRoot' = nextRoot /\ x.stage = "going"
        /\ Underway' = (Underway \ {x}) \cup {On(x.dir, "going", x.next + 1)}
                       \cup (IF Schedules(n) THEN {On(n, "waiting", 0)} ELSE {})
    BY <1>4 DEF Passes, SameReach
  <2>2. CASE Met(d)
    <3>1. /\ On(x.dir, "going", x.next + 1) \in Underway' /\ On(x.dir, "going", x.next + 1).dir = x.dir
          /\ \A y \in Underway : y # x => y \in Underway'
      BY <2>1, Tokens
    <3>2. Gone(d)' => Gone(d)
      BY <3>1 DEF Gone
    <3>3. Begun(d)' => Begun(d)
      BY <2>1, <3>1 DEF Begun
    <3> QED
      BY <1>0, <2>1, <2>2, <3>2, <3>3, StillAccounted DEF Still, Open
  <2>3. CASE ~Met(d)
    <3>1. ~IsRoot(d) /\ ~Behind(d) /\ Behind(d)'
      <4>1. IsRoot(d)' = IsRoot(d)
        BY DEF IsRoot
      <4> QED
        BY <2>1, <2>3, <4>1, SameMet DEF Met
    <3>2. d = n
      BY <1>4, <3>1, PassedOne DEF Behind
    <3>3. Schedules(d)
      <4>1. Leads(d)' /\ world' = world
        BY <3>1, Monotone DEF Met, IsRoot
      <4> QED
        BY <4>1 DEF Leads, Offered, Schedules
    <3> QED
      BY <1>3, <2>1, <2>3, <3>2, <3>3
  <2> QED
    BY <2>2, <2>3
<1>5. CASE AddsRoot
  <2>1. CASE Met(d)
    <3>1. Still(d)
      BY <1>5 DEF AddsRoot, Still, Gone, Begun, Open
    <3> QED
      BY <1>0, <2>1, <3>1, StillAccounted
  <2>2. CASE ~Met(d)
    <3>1. IsRoot(d)
      <4>1. Behind(d)' => Behind(d)
        BY <1>5, SameBehind
      <4>2. IsRoot(d)' = IsRoot(d) /\ Leads(d)' = Leads(d)
        BY Monotone DEF IsRoot, Leads, Offered
      <4> QED
        BY <2>2, <4>1, <4>2 DEF Met
    <3>2. PICK i \in 1 .. nextRoot' - 1 : Roots[i] = d
      BY <3>1 DEF Met, IsRoot
    <3>3. i = nextRoot
      BY <1>5, <2>2, <3>1, <3>2 DEF AddsRoot, Met
    <3> QED
      BY <1>3, <1>5, <2>2, <3>2, <3>3 DEF AddsRoot
  <2> QED
    BY <2>1, <2>2
<1> QED
  BY <1>1, <1>2, <1>4, <1>5, FlowReports

\* What is behind stays retained or on record, and what gets behind gets there.
LEMMA EntriesStep ==
  ASSUME TypeOK, HelperInv, PositionInv, HandInv, DirectoryInv, FoundInv, [Next]_vars, Intact', KeepsEntries
  PROVE  KeepsEntries'
<1> SUFFICES ASSUME NEW n \in Name, Behind(n)'
             PROVE  (Emits(n)' => Retained(n)') /\ (Fails(n)' => Recorded(<<"entry", n>>, FALSE)')
  BY DEF KeepsEntries
<1>0. Emits(n)' = Emits(n) /\ Fails(n)' = Fails(n)
  BY Monotone DEF Emits, Asked, Fails
<1>1. CASE Behind(n)
  BY <1>0, <1>1, RetainedStays, RecordedStays DEF KeepsEntries
<1>2. CASE ~Behind(n)
  <2>1. PICK x \in Underway : \E m \in Name :
          Passes(x, m) /\ (Emits(m) => Retained(m)') /\ (Fails(m) => Recorded(<<"entry", m>>, FALSE)')
    BY <1>2, FlowReports, SameBehind DEF Reports
  <2>2. PICK m \in Name :
          Passes(x, m) /\ (Emits(m) => Retained(m)') /\ (Fails(m) => Recorded(<<"entry", m>>, FALSE)')
    BY <2>1
  <2>3. n = m
    BY <1>2, <2>2, PassedOne DEF Behind
  <2> QED
    BY <1>0, <2>2, <2>3
<1> QED
  BY <1>1, <1>2

\* How a worker comes to its end.
LEMMA Leavers ==
  ASSUME TypeOK, HelperInv, StationInv, [Next]_vars, ~Stopping', NEW w \in Worker, Leaving(w)', ~Leaving(w)
  PROVE  (DrainEmpty /\ w = Caller) \/ NoMoreTasks(w)
<1>0. ~Stopping
  BY StopsStay
<1>1. ASSUME NEW v \in Worker, NEW from, NEW to, Goes(v, from, to)
      PROVE  w = v /\ to \in {"join", "leave", "left"} /\ from \notin {"join", "leave", "left"}
  BY <1>1 DEF Goes, Others, Leaving
<1>2. ASSUME NEW v \in Worker, TaskStep(v) \/ Panic(v)
      PROVE  FALSE
  <2>1. CASE RecordPanic(v)
    BY <2>1 DEF RecordPanic, Stopping
  <2>2. CASE Release(v)
    <3>1. Goes(v, "release", Loop) \/ Goes(v, "abandon", "join") \/ Goes(v, "unwind", "unwound")
      BY <2>2, TaskPlaces
    <3>2. Goes(v, "abandon", "join")
      BY <1>1, <3>1 DEF Loop
    <3>3. Place(v) = "abandon"
      BY <3>2 DEF Goes
    <3> QED
      BY <1>0, <3>3 DEF StationInv, Stages, Loop
  <2>3. CASE ~RecordPanic(v) /\ ~Release(v)
    <3>1. \E from, to : Goes(v, from, to) /\ to \notin {"join", "leave", "left"}
      BY <1>2, <2>3, TaskPlaces DEF TaskStep
    <3> QED
      BY <1>1, <3>1
  <2> QED
    BY <2>1, <2>2, <2>3
<1>3. ASSUME NEW v \in Worker, PoolStep(v), ~NoMoreTasks(w)
      PROVE  FALSE
  <2>1. CASE TakeTask(v)
    <3>1. Place(v)' = "begin" /\ \A u \in Worker \ {v} : Place(u)' = Place(u)
      BY <2>1, PoolPlaces
    <3> QED
      BY <3>1 DEF Leaving
  <2>2. CASE NoMoreTasks(v)
    BY <1>1, <1>3, <2>2, PoolPlaces
  <2>3. CASE EndHelper(v)
    BY <1>1, <2>3, PoolPlaces
  <2>4. ASSUME NEW h \in Worker, Place(h)' = "idle", \A u \in Worker \ {h} : Place(u)' = Place(u)
        PROVE  FALSE
    BY <2>4 DEF Leaving
  <2>5. CASE Spawn(v) \/ GrowDone(v) \/ ClaimSlot(v) \/ NoScratch(v) \/ Refused(v)
    BY <2>4, <2>5, PoolPlaces DEF Stays, Leaving
  <2> QED
    BY <1>3, <2>1, <2>2, <2>3, <2>5 DEF PoolStep
<1>4. ASSUME AloneStep \/ Finish \/ Cancel \/ UNCHANGED vars, ~DrainEmpty \/ w # Caller
      PROVE  FALSE
  <2>0. Caller \in Worker
    BY Constants
  <2>1. CASE NextRoot \/ RootsDone \/ WidenPool \/ Finish
    <3>1. \E from, to : Goes(Caller, from, to) /\ (to \notin {"join", "leave", "left"} \/ from = "join")
      BY <2>1, AlonePlaces
    <3> QED
      BY <1>1, <2>0, <3>1
  <2>2. ~RootsStopped
    BY <1>0 DEF RootsStopped
  <2>3. CASE DrainTake
    <3>1. Place(Caller)' = "begin" /\ \A u \in Worker \ {Caller} : Place(u)' = Place(u)
      BY <1>0, <2>3, AlonePlaces
    <3> QED
      BY <3>1 DEF Leaving
  <2>4. CASE DrainEmpty
    BY <1>1, <1>4, <2>0, <2>4, AlonePlaces
  <2>5. CASE Cancel \/ UNCHANGED vars
    BY <2>5, AlonePlaces DEF Stays, Leaving
  <2> QED
    BY <1>4, <2>1, <2>2, <2>3, <2>4, <2>5 DEF AloneStep
<1> QED
  BY <1>2, <1>3, <1>4 DEF Next, Done

\* A caller that is alone with empty queues has nothing left to do.
LEMMA NothingLeft ==
  ASSUME TypeOK, HelperInv, StationInv, CountInv, DrainEmpty
  PROVE  pending = 0 /\ nextRoot > Len(Roots)
<1>1. Place(Caller) = "alone" /\ Caller \in Worker
  BY Constants DEF DrainEmpty, Place, Growing
<1>2. phase = "alone"
  BY <1>1 DEF StationInv, Stages, Loop
<1>3. \A h \in Worker \ {Caller} : pc[h] = "unborn" /\ queue[h] = <<>>
  BY <1>2 DEF StationInv, HelperInv
<1>4. queue[Caller] = <<>> /\ injector = <<>>
  <2>1. queue[Caller] \in Seq(Task) /\ injector \in Seq(Task) /\ Len(queue[Caller] \o injector) = 0
    BY <1>1, TypesOf DEF DrainEmpty
  <2>2. Len(queue[Caller]) = 0 /\ Len(injector) = 0
    BY <2>1
  <2> QED
    BY <2>1, <2>2, EmptyQueue
<1>5. Queued = {}
  <2>1. \A p \in Lines : ToSet(Line[p]) = {}
    BY <1>1, <1>3, <1>4, OldLines, EmptyQueue
  <2> QED
    BY <2>1 DEF Queued, TasksIn
<1>6. {w \in Worker : Holding(w)} = {}
  BY <1>1, <1>3 DEF Holding, Place, Growing, Stages
<1>7. pending = 0
  BY <1>5, <1>6, FS_EmptySet DEF CountInv
<1> QED
  BY <1>2, <1>7, TypesOf DEF StationInv

\* Nobody leaves while something is pending or a root is left.
LEMMA LeaveStep ==
  ASSUME TypeOK, HelperInv, StationInv, PositionInv, HandInv, CountInv, DirectoryInv, [Next]_vars, Intact', NobodyLeaves
  PROVE  NobodyLeaves'
<1> SUFFICES ASSUME NEW w \in Worker, Leaving(w)' PROVE pending' = 0 /\ (nextRoot > Len(Roots))'
  BY DEF NobodyLeaves
<1>0. ~Stopping /\ ~Stopping'
  BY IntactBack
<1>1. CASE Leaving(w)
  <2>1. pending = 0 /\ nextRoot > Len(Roots) /\ nextRoot \in Nat /\ Len(Roots) \in Nat
    BY <1>1, TypesOf DEF NobodyLeaves
  <2>2. \A v \in Worker : ~Holding(v)
    BY <2>1, HoldersCount
  <2>3. \A v \in Worker : ~Entry(v) /\ ~Continue(v) /\ ~Release(v)
    BY <2>2, EntryForm, ContinueForm DEF Release, Holding, Place, Growing
  <2>4. ~NextRoot
    BY <2>1 DEF NextRoot
  <2>5. \A v \in Worker : TaskStep(v) \/ Panic(v) => pending' = pending /\ nextRoot' = nextRoot
    BY <2>3 DEF TaskStep, Panic, Begin, CheckStop, ReadFails, Read, List, EndListing, RecordPanic, queues
  <2>6. \A v \in Worker : PoolStep(v) => pending' = pending /\ nextRoot' = nextRoot
    BY DEF PoolStep, GrowDone, ClaimSlot, NoScratch, Spawn, Refused, TakeTask, NoMoreTasks, EndHelper, queues
  <2>7. AloneStep \/ Finish \/ Cancel \/ UNCHANGED vars => pending' = pending /\ nextRoot' = nextRoot
    BY <2>4 DEF AloneStep, RootsStopped, RootsDone, WidenPool, DrainTake, DrainEmpty, Finish, Cancel, vars, queues
  <2> QED
    BY <2>1, <2>5, <2>6, <2>7 DEF Next, Done
<1>2. CASE DrainEmpty
  BY <1>2, NothingLeft DEF DrainEmpty, queues
<1>3. CASE NoMoreTasks(w)
  <2>1. pending = 0 /\ pending' = pending /\ nextRoot' = nextRoot /\ pc[w] = "idle" /\ Place(w) = "idle"
    BY <1>0, <1>3 DEF NoMoreTasks, queues, Place, Growing
  <2>2. phase # "roots"
    <3>1. CASE w = Caller
      BY <2>1, <3>1 DEF StationInv, Stages, Loop
    <3>2. CASE w # Caller
      BY <2>1, <3>2 DEF StationInv
    <3> QED
      BY <3>1, <3>2
  <2> QED
    BY <2>1, <2>2, TypesOf DEF StationInv
<1> QED
  BY <1>0, <1>1, <1>2, <1>3, Leavers

LEMMA LossStep ==
  ASSUME TypeOK, HelperInv, StationInv, PositionInv, HandInv, CountInv, DirectoryInv, FoundInv, LossInv, [Next]_vars
  PROVE  LossInv'
<1> SUFFICES ASSUME Intact' PROVE (KeepsDirectories /\ KeepsEntries /\ NobodyLeaves)'
  BY DEF LossInv
<1>1. KeepsDirectories /\ KeepsEntries /\ NobodyLeaves
  BY IntactBack DEF LossInv
<1> QED
  BY <1>1, DirectoriesStep, EntriesStep, LeaveStep

-----------------------------------------------------------------------------
(* The invariant.                                                          *)

LEMMA InitialQueues ==
  ASSUME Init
  PROVE  Queued = {} /\ OnceIn(Line) /\ \A w \in Worker : ~Inside(w) /\ ~Holding(w) /\ Place(w) = pc[w]
<1>1. \A p \in Lines : Line[p] = <<>>
  BY DEF Line, LineOf, Init, Lines
<1>2. \A p \in Lines : ToSet(Line[p]) = {} /\ Distinct(Line[p])
  BY <1>1, EmptyQueue
<1>3. Queued = {}
  BY <1>2 DEF Queued, TasksIn
<1>4. OnceIn(Line)
  BY <1>2 DEF OnceIn, Apart
<1>5. \A w \in Worker : pc[w] \in {"roots", "unborn"} /\ Place(w) = pc[w]
  BY DEF Init, Place, Growing
<1> QED
  BY <1>3, <1>4, <1>5 DEF Inside, Holding, Stages

LEMMA InitialTypes == Init => TypeOK
<1> SUFFICES ASSUME Init PROVE TypeOK
  OBVIOUS
<1>1. \A d \in Dir : DirectoryTask(d) \in Task
  BY DEF DirectoryTask, Task
<1>2. Roots[1] \in Dir /\ Len(Roots) \in Nat \ {0}
  BY Constants
<1>3. <<>> \in Seq(Task) /\ IsABag(EmptyBag)
  BY EmptyQueue, NoCopies
<1>4. /\ pc \in [Worker -> Label] /\ back \in [Worker -> {"idle", "entry", "release"}]
      /\ task \in [Worker -> Task] /\ at \in [Worker -> Nat] /\ late \in [Worker -> Nat]
      /\ queue \in [Worker -> Seq(Task)] /\ injector \in Seq(Task)
  BY <1>1, <1>2, <1>3 DEF Init, Label
<1>5. IsABag(errors) /\ IsABag(shards) /\ IsABag(opened) /\ DOMAIN found = Worker /\ \A w \in Worker : IsABag(found[w])
  BY <1>3 DEF Init
<1>6. nextRoot \in 1 .. Len(Roots) + 1 /\ active \in Nat /\ workSeen \in Nat /\ pending \in Nat
  BY <1>2 DEF Init
<1>7. /\ world \in Worlds /\ phase \in {"roots", "alone", "pool"} /\ idle \subseteq Worker \ {Caller}
      /\ {capped, stopped, cancelled, panic} \subseteq BOOLEAN
  BY DEF Init
<1> QED
  BY <1>4, <1>5, <1>6, <1>7 DEF TypeOK

LEMMA InitialBudget == Init => StaysInBudget
<1> SUFFICES ASSUME Init PROVE StaysInBudget
  OBVIOUS
<1>1. {w \in Worker : pc[w] \notin {"unborn", "left"}} = {Caller} /\ {w \in Worker : pc[w] = "slot"} = {}
  BY Constants DEF Init
<1>2. Cardinality({Caller}) = 1 /\ Cardinality({}) = 0
  BY FS_EmptySet, FS_Singleton
<1>3. active = 1 /\ Threads \in Nat \ {0}
  BY Constants DEF Init
<1> QED
  BY <1>1, <1>2, <1>3 DEF StaysInBudget

\* Nothing is under way, met or reported before the first step.
LEMMA Initially == Init => IInv
<1> SUFFICES ASSUME Init PROVE IInv
  OBVIOUS
<1>0. /\ Queued = {} /\ OnceIn(Line) /\ \A w \in Worker : ~Inside(w) /\ ~Holding(w) /\ Place(w) = pc[w]
  BY InitialQueues
<1>1. \A w \in Worker : pc[w] = IF w = Caller THEN "roots" ELSE "unborn"
  BY DEF Init
<1>2. StationInv
  BY <1>0, <1>1 DEF Init, StationInv, Loop, Growing
<1>3. HelperInv
  BY <1>1 DEF Init, HelperInv
<1>4. ResultInv
  BY <1>1, Constants DEF Init, ResultInv
<1>5. PositionInv /\ LateInv
  BY <1>0, <1>1, Constants DEF Init, PositionInv, LateInv
<1>6. HandInv
  BY <1>0 DEF HandInv
<1>7. CountInv
  <2>1. {w \in Worker : Holding(w)} = {}
    BY <1>0
  <2>2. pending = 0 /\ Cardinality({}) = 0 /\ IsFiniteSet({})
    BY FS_EmptySet DEF Init
  <2> QED
    BY <1>0, <2>1, <2>2 DEF CountInv
<1>8. Underway = {} /\ DOMAIN opened = {} /\ DOMAIN shards = {} /\ DOMAIN errors = {} /\ \A w \in Worker : DOMAIN found[w] = {}
  BY <1>0, NoCopies DEF Underway, Init
<1>9. \A d : ~Open(d)
  BY <1>8 DEF Open
<1>10. \A n : ~Behind(n)
  BY <1>9 DEF Behind, Passed
<1>11. \A d : ~Met(d)
  BY <1>10 DEF Met, Init
<1>12. DirectoryInv
  BY <1>8 DEF DirectoryInv
<1>13. FoundInv /\ ErrorInv
  BY <1>8 DEF FoundInv, ErrorInv, Init
<1>14. LossInv
  BY <1>0, <1>1, <1>10, <1>11 DEF LossInv, KeepsDirectories, KeepsEntries, NobodyLeaves, Leaving
<1> QED
  BY <1>2, <1>3, <1>4, <1>5, <1>6, <1>7, <1>12, <1>13, <1>14, InitialTypes, InitialBudget DEF IInv

\* Types after a step need the positions and the counts.
LEMMA TypeStep ==
  ASSUME TypeOK, StaysInBudget, PositionInv, HandInv, CountInv, [Next]_vars
  PROVE  TypeOK'
<1>1. OnceIn(Line)
  BY DEF HandInv
<1> QED
  BY <1>1, TaskTypes, PoolTypes, AloneTypes DEF Next, Done

\* Each part of the invariant after a step follows from the parts before it.
LEMMA Inductive == IInv /\ [Next]_vars => IInv'
<1> SUFFICES ASSUME IInv, [Next]_vars PROVE IInv'
  OBVIOUS
<1>0. /\ TypeOK /\ StaysInBudget /\ StationInv /\ HelperInv /\ ResultInv /\ PositionInv /\ LateInv /\ HandInv
      /\ CountInv /\ DirectoryInv /\ FoundInv /\ ErrorInv /\ LossInv
  BY DEF IInv
<1>1. TypeOK' /\ StaysInBudget'
  BY <1>0, TypeStep, BudgetStep
<1>2. StationInv' /\ HelperInv' /\ ResultInv'
  BY <1>0, StationStep, HelperStep, ResultStep
<1>3. PositionInv' /\ LateInv'
  BY <1>0, <1>1, PositionStep, LateStep
<1>4. HandInv' /\ CountInv' /\ DirectoryInv'
  BY <1>0, HandStep, CountStep, DirectoryStep
<1>5. FoundInv' /\ ErrorInv' /\ LossInv'
  BY <1>0, FoundStep, ErrorStep, LossStep
<1> QED
  BY <1>1, <1>2, <1>3, <1>4, <1>5 DEF IInv

\* Every reachable state satisfies the invariant of ParallelWalkInv, whatever
\* the tree, the world, the budget and the interleaving of the workers.
THEOREM Invariance == Spec => []IInv
BY Initially, Inductive, PTL DEF Spec

\* Every variable keeps its type: deques hold tasks of the tree, retained entries
\* and errors are bags, and the counters, which the code decrements without
\* looking, never pass zero.
THEOREM TypeCorrect == Spec => []TypeOK
<1>1. IInv => TypeOK
  BY DEF IInv
<1> QED
  BY <1>1, Invariance, PTL

\* Coordinator::begin_task, claim_task and TaskGuard: through steals, panics,
\* abandoned and continued listings, a directory is in one queue, once, or in one
\* worker's hands, and Coordinator.pending is the number of tasks in the queues
\* plus those a worker took and has not released.  So a worker that finds the
\* count at zero leaves no task behind.
THEOREM PendingCounts == Spec => [](HandInv /\ CountInv)
<1>1. IInv => HandInv /\ CountInv
  BY DEF IInv
<1> QED
  BY <1>1, Invariance, PTL

\* claim_worker_slot and WorkerSlot: growth, refused starts and workers that end
\* keep the pool within Walker.threads, and every slot in use belongs to a
\* running worker or to a start in progress.
THEOREM BudgetKept == Spec => []StaysInBudget
<1>1. IInv => StaysInBudget
  BY DEF IInv
<1> QED
  BY <1>1, Invariance, PTL

\* CancellationToken::cancel: once the walk is to stop, no worker classifies more
\* than CANCELLATION_STRIDE further entries.
THEOREM PromptStop == Spec => []StopsPromptly
<1>1. IInv => StopsPromptly
  BY DEF IInv, LateInv, StopsPromptly
<1> QED
  BY <1>1, Invariance, PTL

-----------------------------------------------------------------------------
(* What the walk should report.                                            *)

\* One step down the tree, from the directories of S.
Below(S) ==
  {d \in Dir : IsRoot(d) \/ (Leads(d) /\ \E up \in Dir : d \in Holds(up) /\ Opens(up) /\ up \in S)}

\* There is a set that is one step below itself: the least that holds what is.
LEMMA ReachExists ==
  \E S \in SUBSET Dir : S = Below(S)
<1> DEFINE Closed == {S \in SUBSET Dir : Below(S) \subseteq S}
           Least == {d \in Dir : \A S \in Closed : d \in S}
<1>1. \A S, T \in SUBSET Dir : S \subseteq T => Below(S) \subseteq Below(T)
  BY DEF Below
<1>2. \A S : Below(S) \in SUBSET Dir
  BY DEF Below
<1>3. \A S \in Closed : Least \subseteq S /\ S \in SUBSET Dir /\ Below(S) \subseteq S
  OBVIOUS
<1>4. Least \in SUBSET Dir
  OBVIOUS
<1>5. Below(Least) \subseteq Least
  <2>1. \A S \in Closed : Below(Least) \subseteq S
    BY <1>1, <1>3, <1>4
  <2> QED
    BY <1>2, <2>1
<1>6. Below(Least) \in Closed
  BY <1>1, <1>2, <1>4, <1>5
<1>7. Least \subseteq Below(Least)
  BY <1>3, <1>6
<1> QED
  BY <1>4, <1>5, <1>7

\* So the recursive function that Reached takes its members from has a value.
LEMMA ReachedBelow == Reached = Below(Reached)
<1>1. PICK S \in SUBSET Dir : S = Below(S)
  BY ReachExists
<1> DEFINE Step(f) == [d \in Dir |-> \/ IsRoot(d)
                                     \/ Leads(d) /\ \E up \in Dir : d \in Holds(up) /\ Opens(up) /\ f[up]]
           g == CHOOSE f : f = Step(f)
<1>2. \E h : h = Step(h)
  <2> DEFINE Rule(d, f) == \/ IsRoot(d)
                           \/ Leads(d) /\ \E up \in Dir : d \in Holds(up) /\ Opens(up) /\ f[up]
  <2>1. PICK h : h = [d \in Dir |-> d \in S]
    OBVIOUS
  <2>2. \A d \in Dir : h[d] <=> d \in S
    BY <2>1
  <2>3. \A d \in Dir : d \in S <=> Rule(d, h)
    BY <1>1, <2>2 DEF Below
  <2>4. Step(h) = [d \in Dir |-> Rule(d, h)]
    OBVIOUS
  <2> HIDE DEF Step, Rule
  <2>5. \A d \in Dir : (d \in S) = Rule(d, h)
    <3>1. \A d : Rule(d, h) \in BOOLEAN /\ (d \in S) \in BOOLEAN
      BY DEF Rule
    <3>2. \A a, b \in BOOLEAN : (a <=> b) => a = b
      OBVIOUS
    <3> QED
      BY <2>3, <3>1, <3>2
  <2>6. [d \in Dir |-> d \in S] = [d \in Dir |-> Rule(d, h)]
    BY <2>5
  <2> QED
    BY <2>1, <2>4, <2>6
<1>3. g = Step(g)
  BY <1>2
<1>4. Reached = {d \in Dir : g[d]}
  BY DEF Reached
<1> HIDE DEF g
<1>5. \A d \in Dir : g[d] <=> (IsRoot(d) \/ (Leads(d) /\ \E up \in Dir : d \in Holds(up) /\ Opens(up) /\ g[up]))
  BY <1>3
<1> QED
  BY <1>4, <1>5 DEF Below

LEMMA ReachedRule ==
  /\ Reached \subseteq Dir
  /\ \A d \in Dir : d \in Reached <=>
       \/ IsRoot(d)
       \/ Leads(d) /\ \E up \in Dir : d \in Holds(up) /\ Opens(up) /\ up \in Reached
BY ReachedBelow DEF Below

\* The places of the tree.
LEMMA Places ==
  /\ \A up \in Dir : \A n : n \in Holds(up) <=> \E k \in 1 .. Len(Listing[up]) : Listing[up][k] = n
  /\ \A d \in Dir : IsRoot(d) <=> \E i \in 1 .. Len(Roots) : Roots[i] = d
BY Constants DEF Holds, IsRoot, ToSet, TreeAssumption

\* A directory that was met is one to be reached, and so is what is behind.
LEMMA MetReached ==
  ASSUME DirectoryInv
  PROVE  /\ \A d \in Dir : Met(d) => d \in Reached
         /\ \A d : Open(d) => d \in Openable
         /\ \A n : Behind(n) => n \in Listed
<1> DEFINE S == {d \in Dir : Met(d) /\ d \notin Reached}
<1>0. \A d : Open(d) => d \in Dir /\ Met(d) /\ Opens(d)
  BY DEF DirectoryInv, Open
<1>1. ASSUME S # {}
      PROVE  FALSE
  <2>1. PICK d \in S : \A up \in S : d \notin ToSet(Listing[up])
    BY <1>1, TreeAssumption
  <2>2. d \in Dir /\ Met(d) /\ d \notin Reached /\ ~IsRoot(d) /\ Leads(d) /\ Behind(d)
    BY ReachedRule DEF Met
  <2>3. PICK up \in Dir : \E k \in 1 .. Len(Listing[up]) : Listing[up][k] = d /\ Passed(up, k)
    BY <2>2 DEF Behind
  <2>4. d \in Holds(up) /\ Open(up)
    BY <2>3, Places DEF Passed
  <2>5. up \notin S
    BY <2>1, <2>4 DEF Holds
  <2>6. up \in Reached /\ Opens(up)
    BY <1>0, <2>4, <2>5
  <2> QED
    BY <2>2, <2>4, <2>6, ReachedRule
<1>2. \A d \in Dir : Met(d) => d \in Reached
  BY <1>1
<1>3. \A d : Open(d) => d \in Openable
  BY <1>0, <1>2 DEF Openable
<1>4. ASSUME NEW n, Behind(n)
      PROVE  n \in Listed
  <2>1. PICK up \in Dir : \E k \in 1 .. Len(Listing[up]) : Listing[up][k] = n /\ Passed(up, k)
    BY <1>4 DEF Behind
  <2> QED
    BY <1>3, <2>1, Places DEF Passed, Listed
<1> QED
  BY <1>2, <1>3, <1>4

\* What can fail, by what fails.
LEMMA FailureKinds ==
  /\ \A d \in Dir : IsRoot(d) /\ Is(d, "read") /\ ~Is(d, "loop") => <<"read", d>> \in RootFailures
  /\ \A e \in RootFailures : \E d \in Dir : e = <<"read", d>> /\ IsRoot(d) /\ Is(d, "read") /\ ~Is(d, "loop")
  /\ \A e : e \in Failures <=>
       \/ e \in RootFailures
       \/ \E d \in Dir : e = <<"ignore", d>> /\ IsRoot(d) /\ Is(d, "carried")
       \/ \E d \in Reached : e = <<"read", d>> /\ Is(d, "read") /\ ~Is(d, "loop")
       \/ \E d \in Openable : e = <<"rules", d>> /\ Is(d, "rules")
       \/ \E d \in Openable : e = <<"deferred", d>> /\ Is(d, "deferred")
       \/ \E n \in Listed : e = <<"entry", n>> /\ Fails(n)
<1> DEFINE Carried == {<<"ignore", d>> : d \in {r \in ToSet(Roots) : Is(r, "carried")}}
           Unread == {<<"read", d>> : d \in {u \in Reached : Is(u, "read") /\ ~Is(u, "loop")}}
           Broken == UNION {{<<fault, d>> : d \in {u \in Openable : Is(u, fault)}} : fault \in {"rules", "deferred"}}
           Failed == {<<"entry", n>> : n \in {m \in Listed : world.action[m] \in {"fail", "failDescend"}}}
<1>1. \A d : IsRoot(d) => d \in Dir
  BY TreeAssumption DEF IsRoot, ToSet
<1>2. \A e : e \in RootFailures <=> \E d \in Dir : e = <<"read", d>> /\ IsRoot(d) /\ Is(d, "read") /\ ~Is(d, "loop")
  BY <1>1 DEF RootFailures, IsRoot
<1>3. \A e : e \in Carried <=> \E d \in Dir : e = <<"ignore", d>> /\ IsRoot(d) /\ Is(d, "carried")
  BY <1>1 DEF IsRoot
<1>4. \A e : e \in Broken <=> \/ \E d \in Openable : e = <<"rules", d>> /\ Is(d, "rules")
                            \/ \E d \in Openable : e = <<"deferred", d>> /\ Is(d, "deferred")
  OBVIOUS
<1>5. \A e : e \in Failed <=> \E n \in Listed : e = <<"entry", n>> /\ Fails(n)
  BY DEF Fails
<1>6. \A e : e \in Unread <=> \E d \in Reached : e = <<"read", d>> /\ Is(d, "read") /\ ~Is(d, "loop")
  OBVIOUS
<1>7. Failures = RootFailures \cup Carried \cup Unread \cup Broken \cup Failed
  BY DEF Failures
<1> HIDE DEF Carried, Unread, Broken, Failed
<1>8. \A e : e \in Failures <=>
       e \in RootFailures \/ e \in Carried \/ e \in Unread \/ e \in Broken \/ e \in Failed
  BY <1>7
<1> QED
  BY <1>2, <1>3, <1>4, <1>5, <1>6, <1>8

\* What happened is a failure of the tree.
LEMMA HappenedFails ==
  ASSUME DirectoryInv, NEW e, Happened(e)
  PROVE  e \in Failures
<1>1. ASSUME NEW d \in Dir, e = <<"read", d>>, Is(d, "read"), ~Is(d, "loop"), Met(d)
      PROVE  e \in Failures
  BY <1>1, MetReached, FailureKinds
<1>2. ASSUME NEW d \in Dir, Open(d), (e = <<"rules", d>> /\ Is(d, "rules")) \/ (e = <<"deferred", d>> /\ Is(d, "deferred"))
      PROVE  e \in Failures
  BY <1>2, MetReached, FailureKinds
<1>3. ASSUME NEW n \in Name, e = <<"entry", n>>, Fails(n), Behind(n)
      PROVE  e \in Failures
  BY <1>3, MetReached, FailureKinds
<1>4. ASSUME NEW d \in Dir, e = <<"ignore", d>>, IsRoot(d), Is(d, "carried")
      PROVE  e \in Failures
  BY <1>4, FailureKinds
<1> QED
  BY <1>1, <1>2, <1>3, <1>4 DEF Happened

-----------------------------------------------------------------------------
(* What the walk reports.                                                  *)

\* A result is what finish() made of the walk, which has not moved since.
LEMMA ResultIs ==
  ASSUME ResultInv
  PROVE  /\ result.kind = "ok" => /\ ~panic /\ abort = NoError /\ result.entries = shards (+) found[Caller]
                                  /\ result.errors = errors /\ result.cancelled = Stopping
                                  /\ pc[Caller] = "left"
                                  /\ \A h \in Worker \ {Caller} : pc[h] \in {"unborn", "left"}
         /\ result.kind = "error" => abort # NoError /\ result.error = abort
<1>1. ASSUME result.kind \in {"ok", "error"}
      PROVE  result # NoResult
  BY <1>1 DEF NoResult
<1>2. ASSUME result # NoResult
      PROVE  /\ result = Outcome /\ pc[Caller] = "left"
             /\ \A h \in Worker \ {Caller} : pc[h] \in {"unborn", "left"}
  BY <1>2 DEF ResultInv
<1> QED
  BY <1>1, <1>2 DEF Outcome

\* The entries of a result, one by one.
LEMMA ResultEntries ==
  ASSUME TypeOK, FoundInv, DirectoryInv, NEW B, B = shards (+) found[Caller]
  PROVE  /\ IsABag(B) /\ \A n : n \in DOMAIN B <=> n \in DOMAIN shards \/ n \in DOMAIN found[Caller]
         /\ \A n \in DOMAIN B : n \in Wanted /\ B[n] = 1
<1>0. Caller \in Worker /\ DOMAIN found = Worker
  BY Constants, TypesOf
<1>1. Merges(shards, found[Caller], B)
  BY <1>0, TypesOf DEF Merges, FoundInv
<1>2. /\ IsABag(B) /\ \A n : n \in DOMAIN B <=> n \in DOMAIN shards \/ n \in DOMAIN found[Caller]
      /\ \A n : n \in DOMAIN shards => B[n] = shards[n]
      /\ \A n : n \in DOMAIN found[Caller] => B[n] = found[Caller][n]
  BY <1>1, AddApart
<1>3. /\ \A n \in DOMAIN shards : shards[n] = 1 /\ Emits(n) /\ Behind(n)
      /\ \A n \in DOMAIN found[Caller] : found[Caller][n] = 1 /\ Emits(n) /\ Behind(n)
  BY <1>0 DEF FoundInv
<1>4. \A n : Emits(n) /\ Behind(n) => n \in Wanted
  BY MetReached DEF Wanted, Emits, Asked, Offered
<1> QED
  BY <1>2, <1>3, <1>4

\* The errors of a walk, one by one.
LEMMA ErrorsReported ==
  ASSUME TypeOK, DirectoryInv, ErrorInv, NEW e \in DOMAIN errors, e # SpawnError
  PROVE  e \in Failures /\ e \in Reported /\ errors[e] = 1
<1>1. errors[e] = 1 /\ Happened(e) /\ Kept(RootRead(e))
  BY DEF ErrorInv
<1>2. e \in Failures
  BY <1>1, HappenedFails
<1>3. ASSUME world.policy = "skip"
      PROVE  e \in RootFailures
  <2>1. PICK d \in Dir : e = <<"read", d>> /\ IsRoot(d)
    BY <1>1, <1>3 DEF Kept, RootRead
  <2>2. Is(d, "read") /\ ~Is(d, "loop")
    BY <1>1, <2>1, Errors
  <2> QED
    BY <2>1, <2>2, FailureKinds
<1> QED
  BY <1>1, <1>2, <1>3 DEF Reported, Kept

\* The invariant and the tree bound what is read, retained and reported.
LEMMA SoundNow == IInv => Sound
<1> SUFFICES ASSUME IInv PROVE Sound
  OBVIOUS
<1>0. TypeOK /\ ResultInv /\ DirectoryInv /\ FoundInv /\ ErrorInv
  BY DEF IInv
<1>1. opened \sqsubseteq SetToBag(Openable)
  <2>1. \A d \in DOMAIN opened : d \in Openable /\ opened[d] = 1
    BY <1>0, MetReached DEF DirectoryInv, Open
  <2> QED
    BY <2>1 DEF \sqsubseteq, SetToBag
<1>2. ASSUME result.kind = "ok"
      PROVE  /\ result.entries \sqsubseteq SetToBag(Wanted)
             /\ \A e \in BagToSet(result.errors) : e[1] # "spawn" =>
                  e \in Reported /\ Copies(e, result.errors) = 1
  <2>1. PICK B : B = shards (+) found[Caller]
    OBVIOUS
  <2>2. result.entries = B /\ result.errors = errors
    BY <1>0, <1>2, <2>1, ResultIs
  <2>3. B \sqsubseteq SetToBag(Wanted)
    BY <1>0, <2>1, ResultEntries DEF \sqsubseteq, SetToBag
  <2>4. SpawnError[1] = "spawn"
    BY DEF SpawnError
  <2>5. ASSUME NEW e \in DOMAIN errors, e[1] # "spawn"
        PROVE  e \in Reported /\ Copies(e, errors) = 1
    BY <1>0, <2>4, <2>5, ErrorsReported DEF Copies
  <2> QED
    BY <2>2, <2>3, <2>5 DEF BagToSet
<1>3. ASSUME result.kind = "error"
      PROVE  result.error \in Failures \cup {<<"spawn", Roots[1]>>}
  <2>1. result.error = abort /\ abort # NoError
    BY <1>0, <1>3, ResultIs
  <2> QED
    BY <1>0, <2>1, HappenedFails DEF ErrorInv, SpawnError
<1> QED
  BY <1>1, <1>2, <1>3 DEF Sound

\* A walk that nothing stopped, at its end: nothing is under way, and every
\* directory to be reached was met.
Over == /\ ~Stopping /\ result.kind = "ok"
LEMMA OverInv ==
  ASSUME IInv, Over
  PROVE  /\ KeepsDirectories /\ KeepsEntries /\ nextRoot > Len(Roots)
         /\ \A d : Gone(d) /\ Begun(d)
         /\ \A n : Retained(n) => n \in DOMAIN shards \/ n \in DOMAIN found[Caller]
<1>0. TypeOK /\ HelperInv /\ ResultInv /\ CountInv /\ LossInv
  BY DEF IInv
<1>1. pc[Caller] = "left" /\ Caller \in Worker /\ \A h \in Worker \ {Caller} : pc[h] \in {"unborn", "left"}
  BY <1>0, ResultIs, Constants DEF Over
<1>2. Intact
  BY <1>1 DEF Intact, Over
<1>3. KeepsDirectories /\ KeepsEntries /\ NobodyLeaves
  BY <1>0, <1>2 DEF LossInv
<1>4. pending = 0 /\ nextRoot > Len(Roots)
  BY <1>1, <1>3 DEF NobodyLeaves, Leaving, Place, Growing
<1>5. Underway = {}
  <2>1. \A w \in Worker : ~Holding(w)
    BY <1>0, <1>4, HoldersCount
  <2>2. Cardinality(Queued) = 0 /\ IsFiniteSet(Queued)
    BY <1>0, <1>4, HoldersCount DEF CountInv
  <2>3. Queued = {}
    BY <2>2, FS_EmptySet
  <2> QED
    BY <2>1, <2>3, HoldsInside DEF Underway
<1>6. \A h \in Worker \ {Caller} : DOMAIN found[h] = {}
  BY <1>0, <1>1, NoCopies DEF HelperInv
<1> QED
  BY <1>3, <1>4, <1>5, <1>6 DEF Gone, Begun, Retained

\* Everything that is to be reached was met, read and gone through.
LEMMA ReachedMet ==
  ASSUME IInv, Over
  PROVE  /\ \A d \in Reached : d \in Dir /\ Met(d)
         /\ \A d \in Openable : d \in Dir /\ Met(d) /\ Open(d)
         /\ \A n \in Listed : n \in Name /\ Behind(n)
<1> DEFINE S == {d \in Reached : ~Met(d)}
<1>0. TypeOK /\ DirectoryInv /\ KeepsDirectories /\ nextRoot > Len(Roots) /\ \A d : Gone(d) /\ Begun(d)
  BY OverInv DEF IInv
<1>1. \A d \in Dir : Met(d) /\ Opens(d) => Open(d)
  BY <1>0 DEF KeepsDirectories, Accounted, Opens, Is
<1>2. \A d \in Dir : \A k \in 1 .. Len(Listing[d]) : Open(d) => Passed(d, k)
  BY <1>0 DEF Passed, Gone
<1>3. ASSUME S # {}
      PROVE  FALSE
  <2>1. PICK d \in S : \A up \in S : d \notin ToSet(Listing[up])
    BY <1>3, TreeAssumption, ReachedRule
  <2>2. d \in Dir /\ d \in Reached /\ ~Met(d)
    BY ReachedRule
  <2>3. CASE IsRoot(d)
    <3>1. PICK i \in 1 .. Len(Roots) : Roots[i] = d
      BY <2>2, <2>3, Places
    <3>2. i \in 1 .. nextRoot - 1
      BY <1>0, <3>1, TypesOf
    <3> QED
      BY <2>2, <2>3, <3>1, <3>2 DEF Met
  <2>4. CASE ~IsRoot(d)
    <3>1. PICK up \in Dir : d \in Holds(up) /\ Opens(up) /\ up \in Reached
      BY <2>2, <2>4, ReachedRule
    <3>2. Met(up)
      BY <2>1, <3>1 DEF Holds
    <3>3. PICK k \in 1 .. Len(Listing[up]) : Listing[up][k] = d
      BY <3>1, Places
    <3>4. Behind(d)
      BY <1>1, <1>2, <3>1, <3>2, <3>3 DEF Behind
    <3>5. Leads(d)
      BY <2>2, <2>4, ReachedRule
    <3> QED
      BY <2>2, <2>4, <3>4, <3>5 DEF Met
  <2> QED
    BY <2>3, <2>4
<1>4. \A d \in Reached : d \in Dir /\ Met(d)
  BY <1>3, ReachedRule
<1>5. \A d \in Openable : d \in Dir /\ Met(d) /\ Open(d)
  BY <1>1, <1>4 DEF Openable
<1>6. ASSUME NEW n \in Listed
      PROVE  n \in Name /\ Behind(n)
  <2>1. PICK up \in Openable : n \in Holds(up)
    BY <1>6 DEF Listed
  <2>2. PICK k \in 1 .. Len(Listing[up]) : Listing[up][k] = n
    BY <1>5, <2>1, Places
  <2> QED
    BY <1>2, <1>5, <2>1, <2>2, Constants DEF Behind
<1> QED
  BY <1>4, <1>5, <1>6

\* Every failure of a walk that nothing stopped was reported.
LEMMA FailuresRecorded ==
  ASSUME IInv, Over, NEW e \in Failures
  PROVE  /\ \E r : Recorded(e, r)
         /\ e \in RootFailures => Recorded(e, TRUE)
<1>0. DirectoryInv /\ KeepsDirectories /\ KeepsEntries /\ \A d : Gone(d) /\ Begun(d)
  BY OverInv DEF IInv
<1>1. ASSUME NEW d \in Dir, d \in Reached, e = <<"read", d>>, Is(d, "read"), ~Is(d, "loop")
      PROVE  Recorded(e, IsRoot(d))
  <2>1. ~Open(d)
    BY <1>0, <1>1 DEF DirectoryInv, Open, Opens, Is
  <2> QED
    BY <1>0, <1>1, <2>1, ReachedMet DEF KeepsDirectories, Accounted
<1>2. ASSUME e \in RootFailures
      PROVE  Recorded(e, TRUE)
  <2>1. PICK d \in Dir : e = <<"read", d>> /\ IsRoot(d) /\ Is(d, "read") /\ ~Is(d, "loop")
    BY <1>2, FailureKinds
  <2>2. Recorded(e, IsRoot(d))
    BY <1>1, <2>1, ReachedRule
  <2> QED
    BY <2>1, <2>2 DEF Recorded, Kept
<1>3. ASSUME NEW d \in Dir, e = <<"ignore", d>>, IsRoot(d), Is(d, "carried")
      PROVE  Recorded(e, FALSE)
  BY <1>0, <1>3, ReachedRule, ReachedMet DEF KeepsDirectories, Accounted
<1>4. ASSUME NEW d \in Openable, (e = <<"rules", d>> /\ Is(d, "rules")) \/ (e = <<"deferred", d>> /\ Is(d, "deferred"))
      PROVE  Recorded(e, FALSE)
  BY <1>0, <1>4, ReachedMet DEF KeepsDirectories, Accounted
<1>5. ASSUME NEW n \in Listed, e = <<"entry", n>>, Fails(n)
      PROVE  Recorded(e, FALSE)
  BY <1>0, <1>5, ReachedMet DEF KeepsEntries
<1> QED
  BY <1>1, <1>2, <1>3, <1>4, <1>5, FailureKinds, ReachedRule

\* At the end of a walk that nothing stopped, the two sides meet.
LEMMA CompleteNow == IInv => Complete
<1> SUFFICES ASSUME IInv, result.kind = "ok", ~result.cancelled
             PROVE  /\ result.entries = SetToBag(Wanted)
                    /\ \A e \in Failures \cup BagToSet(result.errors) :
                         e[1] # "spawn" => Copies(e, result.errors) = IF e \in Reported THEN 1 ELSE 0
                    /\ world.policy = "abort" => Failures = {}
  BY DEF Complete
<1>0. TypeOK /\ ResultInv /\ DirectoryInv /\ FoundInv /\ ErrorInv
  BY DEF IInv
<1>1. PICK B : B = shards (+) found[Caller]
  OBVIOUS
<1>2. result.entries = B /\ result.errors = errors /\ Over
  BY <1>0, <1>1, ResultIs DEF Over
<1>3. B = SetToBag(Wanted)
  <2>1. /\ IsABag(B) /\ \A n : n \in DOMAIN B <=> n \in DOMAIN shards \/ n \in DOMAIN found[Caller]
        /\ \A n \in DOMAIN B : n \in Wanted /\ B[n] = 1
    BY <1>0, <1>1, ResultEntries
  <2>2. \A n \in Wanted : n \in Listed /\ Emits(n)
    BY DEF Wanted, Emits, Asked, Offered
  <2>3. \A n \in Wanted : Retained(n)
    BY <1>2, <2>2, OverInv, ReachedMet DEF KeepsEntries
  <2>4. \A n : n \in DOMAIN B <=> n \in Wanted
    BY <1>2, <2>1, <2>3, OverInv
  <2>5. DOMAIN B = Wanted
    BY <2>4
  <2> QED
    BY <2>1, <2>5 DEF IsABag, SetToBag
<1>4. ASSUME NEW e \in Failures \cup DOMAIN errors, e[1] # "spawn"
      PROVE  Copies(e, errors) = IF e \in Reported THEN 1 ELSE 0
  <2>1. e # SpawnError
    BY <1>4 DEF SpawnError
  <2>2. e \in DOMAIN errors => e \in Reported /\ errors[e] = 1
    BY <1>0, <2>1, ErrorsReported
  <2>3. ASSUME e \in Reported
        PROVE  e \in DOMAIN errors
    <3>1. CASE world.policy = "collect"
      BY <1>2, <2>3, <3>1, FailuresRecorded DEF Reported, Recorded, Kept
    <3>2. CASE world.policy = "skip"
      <4>1. e \in RootFailures
        BY <2>3, <3>2 DEF Reported
      <4>2. e \in Failures
        BY <4>1, FailureKinds
      <4> QED
        BY <1>2, <3>2, <4>1, <4>2, FailuresRecorded DEF Recorded, Kept
    <3>3. CASE world.policy = "abort"
      BY <2>3, <3>3 DEF Reported
    <3> QED
      BY <1>0, <3>1, <3>2, <3>3, TypesOf, WorldFields
  <2> QED
    BY <2>2, <2>3 DEF Copies
<1>5. ASSUME world.policy = "abort"
      PROVE  Failures = {}
  BY <1>2, <1>5, FailuresRecorded DEF Recorded
<1> QED
  BY <1>2, <1>3, <1>4, <1>5 DEF BagToSet

\* What a walk reads and returns, cut short or not, is part of what the tree and
\* the filters say: no directory read twice or below a pruned one, no entry
\* twice, no error that did not happen or that the policy drops.
THEOREM SoundResult == Spec => []Sound
BY SoundNow, Invariance, PTL

\* A walk that returns a result and does not call it cancelled has reported each
\* entry and each error of the tree exactly once, whatever the schedule, the
\* steals and the helpers that were refused.
THEOREM CompleteResult == Spec => []Complete
BY CompleteNow, Invariance, PTL
=============================================================================
