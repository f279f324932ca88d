-------------------------- MODULE SerialWalkProofs --------------------------
(***************************************************************************)
(* Theorems about SerialWalk, for every tree, stride, budget and world.    *)
(***************************************************************************)
EXTENDS SerialWalkInv, SequenceTheorems, FiniteSetTheorems, TLAPS

-----------------------------------------------------------------------------
(* Paths.                                                                  *)

\* Any set of natural numbers that has a member has a least one: what stands in
\* for induction over a level.
LEMMA LeastNatural ==
  ASSUME NEW S \in SUBSET Nat, S # {}
  PROVE  \E m \in S : \A n \in S : m <= n
<1> DEFINE Initials == {1 .. n : n \in S}
<1>1. Initials \subseteq FiniteSubsetsOf(Nat) /\ Initials # {}
  <2>1. \A n \in S : IsFiniteSet(1 .. n) /\ 1 .. n \in SUBSET Nat
    BY FS_Interval
  <2> QED
    BY <2>1 DEF FiniteSubsetsOf
<1>2. IsWellFoundedOn(StrictSubsetOrdering(Nat), FiniteSubsetsOf(Nat))
  BY FS_StrictSubsetOrderingWellFounded
<1>3. PICK I \in Initials : \A J \in Initials : <<J, I>> \notin StrictSubsetOrdering(Nat)
  <2> HIDE DEF Initials
  <2> QED
    BY <1>1, <1>2, WFMin
<1>4. PICK m \in S : I = 1 .. m
  BY <1>3
<1>5. ASSUME NEW n \in S, ~(m <= n) PROVE FALSE
  <2>1. 1 .. n \subseteq 1 .. m /\ m \in 1 .. m /\ m \notin 1 .. n
    BY <1>5
  <2>2. <<1 .. n, 1 .. m>> \in StrictSubsetOrdering(Nat)
    BY <2>1 DEF StrictSubsetOrdering
  <2> QED
    BY <1>3, <1>4, <2>2
<1> QED
  BY <1>4, <1>5

RootPaths == {<<Roots[i]>> : i \in DOMAIN Roots}

LEMMA Tree ==
  /\ IsFiniteSet(Dir) /\ Cardinality(Dir) \in Nat
  /\ Len(Roots) \in Nat \ {0} /\ DOMAIN Roots = 1 .. Len(Roots)
  /\ \A i \in DOMAIN Roots : Roots[i] \in Dir
  /\ \A d \in Dir : /\ Target[d] \in Dir /\ Listing[d] \in Seq(Name) /\ Len(Listing[d]) \in Nat
                    /\ DOMAIN Listing[d] = 1 .. Len(Listing[d])
                    /\ \A k \in 1 .. Len(Listing[d]) : Listing[d][k] \in Name
  /\ Dir \subseteq Name
<1>1. Cardinality(Dir) \in Nat
  BY TreeAssumption, FS_CardinalityType
<1>2. Len(Roots) \in Nat \ {0} /\ DOMAIN Roots = 1 .. Len(Roots) /\ \A i \in DOMAIN Roots : Roots[i] \in Dir
  BY TreeAssumption, EmptySeq, LenProperties
<1>3. ASSUME NEW d \in Dir
      PROVE  /\ Target[d] \in Dir /\ Listing[d] \in Seq(Name) /\ Len(Listing[d]) \in Nat
             /\ DOMAIN Listing[d] = 1 .. Len(Listing[d])
             /\ \A k \in 1 .. Len(Listing[d]) : Listing[d][k] \in Name
  <2>1. Target[d] \in Dir /\ Listing[d] \in Seq(Name)
    BY TreeAssumption
  <2> QED
    BY <2>1, LenProperties
<1> QED
  BY <1>1, <1>2, <1>3, TreeAssumption DEF Name

\* The names of a path that ends in a directory, and the path of one of them.
LEMMA Child ==
  ASSUME NEW p \in Seq(Name), Len(p) > 0, Last(p) \in Dir
  PROVE  /\ Len(p) \in Nat /\ Key(p) \in Dir /\ Len(Names(p)) \in Nat /\ DOMAIN Names(p) = 1 .. Len(Names(p))
         /\ \A k \in 1 .. Len(Names(p)) :
              LET e == Append(p, Names(p)[k]) IN
              /\ Names(p)[k] \in Name /\ e \in Seq(Name) /\ Len(e) = Len(p) + 1
              /\ Front(e) = p /\ Last(e) = Names(p)[k] /\ \A i \in 1 .. Len(p) : e[i] = p[i]
<1>1. Len(p) \in Nat /\ Key(p) \in Dir
  BY Tree, LenProperties DEF Key
<1>2. /\ Len(Names(p)) \in Nat /\ DOMAIN Names(p) = 1 .. Len(Names(p))
      /\ \A k \in 1 .. Len(Names(p)) : Names(p)[k] \in Name
  BY <1>1, Tree DEF Names
<1>3. ASSUME NEW n \in Name
      PROVE  LET e == Append(p, n) IN
             /\ e \in Seq(Name) /\ Len(e) = Len(p) + 1
             /\ Front(e) = p /\ Last(e) = n /\ \A i \in 1 .. Len(p) : e[i] = p[i]
  <2> DEFINE e == Append(p, n)
  <2>1. e \in Seq(Name) /\ Len(e) = Len(p) + 1 /\ e[Len(p) + 1] = n /\ \A i \in 1 .. Len(p) : e[i] = p[i]
    BY AppendProperties
  <2>2. Front(e) \in Seq(Name) /\ Len(Front(e)) = Len(p) /\ \A i \in 1 .. Len(p) : Front(e)[i] = e[i]
    <3> HIDE DEF e
    <3>1. \A i \in 1 .. Len(p) : e[i] \in Name
      BY <2>1, ElementOfSeq
    <3>2. Front(e) = SubSeq(e, 1, Len(p))
      BY <1>1, <2>1 DEF Front
    <3> QED
      BY <1>1, <3>1, <3>2, SubSeqProperties
  <2>3. Front(e) = p
    <3> HIDE DEF e
    <3> QED
      BY <2>1, <2>2, SeqEqual
  <2> QED
    BY <1>1, <2>1, <2>3 DEF Last
<1> QED
  BY <1>1, <1>2, <1>3

\* The paths of one level, as members.
LEMMA BelowMember ==
  ASSUME NEW P, NEW e
  PROVE  e \in Below(P) <=>
           \E p \in P : Last(p) \in Dir /\ ~Closed(p) /\ \E k \in DOMAIN Names(p) : e = Append(p, Names(p)[k])
BY DEF Below

Full == Seq(Name) \ {<<>>}
LEMMA BelowFull ==
  /\ RootPaths \subseteq Full
  /\ \A P \in SUBSET Full : Below(P) \subseteq Full
<1>1. ASSUME NEW i \in DOMAIN Roots PROVE <<Roots[i]>> \in Full
  <2>1. Roots[i] \in Name
    BY Tree
  <2> QED
    BY <2>1 DEF Full
<1>2. ASSUME NEW P \in SUBSET Full, NEW e \in Below(P) PROVE e \in Full
  <2>1. PICK p \in P : Last(p) \in Dir /\ ~Closed(p) /\ \E k \in DOMAIN Names(p) : e = Append(p, Names(p)[k])
    BY <1>2, BelowMember
  <2>2. p \in Seq(Name) /\ Len(p) > 0
    BY EmptySeq DEF Full
  <2>3. e \in Seq(Name) /\ Len(e) = Len(p) + 1 /\ Len(p) \in Nat
    BY <2>1, <2>2, Child
  <2> QED
    BY <2>3, EmptySeq DEF Full
<1> QED
  BY <1>1, <1>2 DEF RootPaths

\* The recursive function has a value: the least relation closed under its rule.
LEMMA LevelExists ==
  \E h : h = [k \in 0 .. Cardinality(Dir) |-> IF k = 0 THEN RootPaths ELSE Below(h[k - 1])]
<1> DEFINE N == Cardinality(Dir)
           All == (0 .. N) \X Full
           At(S, k) == {p \in Full : <<k, p>> \in S}
           Rule(S, k, p) == IF k = 0 THEN p \in RootPaths ELSE p \in Below(At(S, k - 1))
           Step(S) == {u \in All : Rule(S, u[1], u[2])}
           Closeds == {S \in SUBSET All : Step(S) \subseteq S}
           Least == {u \in All : \A S \in Closeds : u \in S}
<1>1. \A S, T \in SUBSET All : S \subseteq T => Step(S) \subseteq Step(T)
  <2>1. ASSUME NEW S, NEW T, S \subseteq T, NEW k, NEW p, Rule(S, k, p) PROVE Rule(T, k, p)
    <3>1. At(S, k - 1) \subseteq At(T, k - 1)
      BY <2>1
    <3>2. p \in Below(At(S, k - 1)) => p \in Below(At(T, k - 1))
      <4> HIDE DEF At
      <4> QED
        BY <3>1, BelowMember
    <3> QED
      BY <2>1, <3>2
  <2> HIDE DEF Rule, All
  <2> QED
    BY <2>1
<1>2. \A S : Step(S) \in SUBSET All
  OBVIOUS
<1> HIDE DEF Step, All
<1>3. \A S \in Closeds : Least \subseteq S /\ S \in SUBSET All /\ Step(S) \subseteq S
  OBVIOUS
<1>4. Least \in SUBSET All
  OBVIOUS
<1>5. Step(Least) \subseteq Least
  <2>1. \A S \in Closeds : Step(Least) \subseteq S
    BY <1>1, <1>3, <1>4
  <2> QED
    BY <1>2, <2>1
<1>6. Step(Least) \in Closeds
  BY <1>1, <1>2, <1>4, <1>5
<1>7. Least = Step(Least)
  BY <1>3, <1>5, <1>6
<1>8. PICK S : S = Step(S)
  BY <1>7
<1>9. ASSUME NEW k \in 0 .. N PROVE At(S, k) = IF k = 0 THEN RootPaths ELSE Below(At(S, k - 1))
  <2>1. \A p \in Full : <<k, p>> \in S <=> Rule(S, k, p)
    <3>1. \A p \in Full : <<k, p>> \in All
      BY DEF All
    <3> QED
      BY <1>8, <3>1 DEF Step
  <2>2. At(S, k) \subseteq Full /\ At(S, k - 1) \in SUBSET Full
    OBVIOUS
  <2>3. RootPaths \subseteq Full /\ Below(At(S, k - 1)) \subseteq Full
    BY <2>2, BelowFull
  <2> QED
    BY <2>1, <2>3
<1> DEFINE h == [k \in 0 .. N |-> At(S, k)]
<1>10. \A k \in 0 .. N : h[k] = IF k = 0 THEN RootPaths ELSE Below(h[k - 1])
  <2> SUFFICES ASSUME NEW k \in 0 .. N PROVE h[k] = IF k = 0 THEN RootPaths ELSE Below(h[k - 1])
    OBVIOUS
  <2>1. N \in Nat
    BY Tree
  <2>2. k = 0 \/ k - 1 \in 0 .. N
    BY <2>1
  <2> HIDE DEF At, N
  <2>3. h[k] = At(S, k) /\ (k # 0 => h[k - 1] = At(S, k - 1))
    BY <2>2
  <2> QED
    BY <1>9, <2>3
<1>11. h = [k \in 0 .. N |-> IF k = 0 THEN RootPaths ELSE Below(h[k - 1])]
  <2> DEFINE g == [k \in 0 .. N |-> IF k = 0 THEN RootPaths ELSE Below(h[k - 1])]
  <2>1. \A k \in 0 .. N : h[k] = g[k]
    BY <1>10
  <2> QED
    BY <2>1
<1> QED
  BY <1>11

LEMMA LevelRule ==
  /\ DOMAIN Level = 0 .. Cardinality(Dir) /\ Level[0] = RootPaths
  /\ \A k \in 1 .. Cardinality(Dir) : Level[k] = Below(Level[k - 1])
<1> DEFINE Step(h) == [k \in 0 .. Cardinality(Dir) |->
                        IF k = 0 THEN {<<Roots[i]>> : i \in DOMAIN Roots} ELSE Below(h[k - 1])]
<1>1. \E h : h = Step(h)
  BY LevelExists DEF RootPaths
<1>2. Level = Step(Level)
  BY <1>1 DEF Level
<1>3. Cardinality(Dir) \in Nat
  BY Tree
<1> QED
  BY <1>2, <1>3 DEF RootPaths

\* A path of a level is one of the tree, as long as the level is deep.
LEMMA PathSeq ==
  \A k \in DOMAIN Level : \A p \in Level[k] :
    p \in Seq(Name) /\ Len(p) = k + 1 /\ p \in Path
<1> DEFINE Good(k) == \A p \in Level[k] : p \in Seq(Name) /\ Len(p) = k + 1
           Bad == {k \in DOMAIN Level : ~Good(k)}
<1>1. Cardinality(Dir) \in Nat /\ DOMAIN Level = 0 .. Cardinality(Dir)
  BY Tree, LevelRule
<1>2. Good(0)
  <2> SUFFICES ASSUME NEW p \in Level[0] PROVE p \in Seq(Name) /\ Len(p) = 1
    OBVIOUS
  <2>1. PICK i \in DOMAIN Roots : p = <<Roots[i]>>
    BY LevelRule DEF RootPaths
  <2>2. Roots[i] \in Name
    BY Tree
  <2> QED
    BY <2>1, <2>2
<1>3. ASSUME NEW k \in 1 .. Cardinality(Dir), Good(k - 1) PROVE Good(k)
  <2> SUFFICES ASSUME NEW e \in Level[k] PROVE e \in Seq(Name) /\ Len(e) = k + 1
    OBVIOUS
  <2>1. PICK p \in Level[k - 1] : Last(p) \in Dir /\ \E j \in DOMAIN Names(p) : e = Append(p, Names(p)[j])
    BY LevelRule, BelowMember
  <2>2. p \in Seq(Name) /\ Len(p) = k
    BY <1>3
  <2> QED
    BY <2>1, <2>2, Child
<1>4. Bad = {}
  <2> SUFFICES ASSUME Bad # {} PROVE FALSE
    OBVIOUS
  <2>1. PICK m \in Bad : \A n \in Bad : m <= n
    <3>1. Bad \in SUBSET Nat
      BY <1>1
    <3> HIDE DEF Bad
    <3> QED
      BY <3>1, LeastNatural
  <2>2. m \in 1 .. Cardinality(Dir) /\ ~Good(m)
    BY <1>1, <1>2, <2>1
  <2>3. m - 1 \in DOMAIN Level /\ ~(m <= m - 1)
    BY <1>1, <2>2
  <2> HIDE DEF Good
  <2>4. Good(m - 1)
    BY <2>1, <2>3
  <2> QED
    BY <1>3, <2>2, <2>4
<1> QED
  BY <1>4 DEF Path

-----------------------------------------------------------------------------
(* Tasks and the stack.                                                    *)

LEMMA Kinds ==
  /\ \A t \in DirTasks : t.kind = "dir" /\ t.path \in Path /\ t.chain \in SUBSET Dir /\ t.open \in Fds
  /\ \A t \in RecordTasks : t.kind = "record" /\ t.path \in Path
  /\ \A t \in FrameTasks :
       /\ t.kind = "frame" /\ t.path \in Path /\ t.chain \in SUBSET Dir /\ t.next \in Nat /\ t.inode \in Inodes
       /\ t.fd \in Fds /\ t.held \in BOOLEAN /\ t.awaited \in Inodes \cup {"none"}
  /\ NoFrame.kind = "none" /\ NoFrame \notin Task
  /\ \A t \in Task : /\ t.kind = "dir" => t \in DirTasks
                     /\ t.kind = "record" => t \in RecordTasks
                     /\ t.kind = "frame" => t \in FrameTasks
                     /\ t.kind \in {"dir", "record", "frame"} /\ t.path \in Path
BY DEF DirTasks, RecordTasks, FrameTasks, Task, NoFrame

LEMMA FdFields ==
  /\ NoFd \in Fds /\ NoFd.permit = "none" /\ ~HasFd(NoFd)
  /\ \A fd \in Fds : HasFd(fd) => fd.permit \in {"budgeted", "unbudgeted"} /\ fd.path \in Path /\ fd.inode \in Inodes
  /\ \A fd \in Fds : ~HasFd(fd) <=> fd = NoFd
  /\ \A path \in Path, inode \in Inodes, permit \in {"budgeted", "unbudgeted"} :
       LET fd == Fd(path, inode, permit) IN
       fd \in Fds /\ HasFd(fd) /\ fd.inode = inode /\ fd.permit = permit
BY DEF Fds, NoFd, Fd, HasFd

LEMMA StackElements ==
  ASSUME NEW s \in Seq(Task)
  PROVE  /\ Len(s) \in Nat /\ DOMAIN s = 1 .. Len(s) /\ (s # <<>> <=> Len(s) > 0)
         /\ \A i \in 1 .. Len(s) : s[i] \in Task /\ s[i] \in ToSet(s)
         /\ \A t \in ToSet(s) : \E i \in 1 .. Len(s) : t = s[i]
<1>1. Len(s) \in Nat /\ DOMAIN s = 1 .. Len(s) /\ \A i \in 1 .. Len(s) : s[i] \in Task
  BY LenProperties
<1>2. s # <<>> <=> Len(s) > 0
  BY EmptySeq
<1> QED
  BY <1>1, <1>2 DEF ToSet

\* The new stack keeps n tasks of the old one and gets those of "new" on top.
Builds(n, new) ==
  /\ n \in 0 .. Len(stack) /\ new \in Seq(Task)
  /\ stack' \in Seq(Task) /\ Len(stack') = n + Len(new)
  /\ \A i \in 1 .. n : stack'[i] = stack[i]
  /\ \A k \in 1 .. Len(new) : stack'[n + k] = new[k]

LEMMA BuildsPop ==
  ASSUME stack \in Seq(Task), stack # <<>>
  PROVE  /\ Len(stack) \in Nat /\ Len(stack) > 0 /\ Top = stack[Len(stack)] /\ Top \in Task
         /\ stack' = Front(stack) => Builds(Len(stack) - 1, <<>>)
         /\ \A t \in Task : stack' = Append(Front(stack), t) => Builds(Len(stack) - 1, <<t>>)
<1>1. Len(stack) \in Nat /\ Len(stack) > 0 /\ Top = stack[Len(stack)] /\ Top \in Task
  BY StackElements DEF Top, Last
<1>2. /\ Front(stack) \in Seq(Task) /\ Len(Front(stack)) = Len(stack) - 1
      /\ \A i \in 1 .. Len(stack) - 1 : Front(stack)[i] = stack[i]
  <2> DEFINE m == Len(stack) - 1
  <2>1. m \in Nat /\ \A i \in 1 .. m : stack[i] \in Task
    BY <1>1, StackElements
  <2>2. /\ SubSeq(stack, 1, m) \in Seq(Task) /\ Len(SubSeq(stack, 1, m)) = IF 1 <= m THEN m - 1 + 1 ELSE 0
        /\ \A i \in 1 .. m - 1 + 1 : SubSeq(stack, 1, m)[i] = stack[1 + i - 1]
    <3> HIDE DEF m
    <3> QED
      BY <2>1, SubSeqProperties
  <2>3. Front(stack) = SubSeq(stack, 1, m)
    BY DEF Front
  <2> HIDE DEF m
  <2>4. Len(Front(stack)) = m /\ \A i \in 1 .. m : Front(stack)[i] = stack[i]
    BY <2>1, <2>2, <2>3
  <2> QED
    BY <2>2, <2>3, <2>4 DEF m
<1> DEFINE s == Front(stack)
<1>3. ASSUME NEW t \in Task
      PROVE  /\ Append(s, t) \in Seq(Task) /\ Len(Append(s, t)) = Len(s) + 1
             /\ Append(s, t)[Len(s) + 1] = t /\ \A i \in 1 .. Len(s) : Append(s, t)[i] = s[i]
             /\ <<t>> \in Seq(Task) /\ Len(<<t>>) = 1 /\ <<t>>[1] = t
  <2>1. s \in Seq(Task)
    BY <1>2
  <2> HIDE DEF s
  <2> QED
    BY <2>1, AppendProperties
<1>4. stack' = Front(stack) => Builds(Len(stack) - 1, <<>>)
  <2>1. <<>> \in Seq(Task) /\ Len(<<>>) = 0
    BY EmptySeq
  <2> QED
    BY <1>1, <1>2, <2>1 DEF Builds
<1>5. ASSUME NEW t \in Task, stack' = Append(s, t) PROVE Builds(Len(stack) - 1, <<t>>)
  <2> HIDE DEF s
  <2> QED
    BY <1>1, <1>2, <1>3, <1>5 DEF Builds, s
<1> QED
  BY <1>1, <1>4, <1>5

LEMMA BuildsOn ==
  ASSUME stack \in Seq(Task)
  PROVE  /\ Len(stack) \in Nat
         /\ stack' = stack => Builds(Len(stack), <<>>)
         /\ \A new \in Seq(Task) : stack' = stack \o new => Builds(Len(stack), new)
         /\ \A new \in Seq(Task) : stack' = new => Builds(0, new)
<1>1. Len(stack) \in Nat /\ <<>> \in Seq(Task) /\ Len(<<>>) = 0
  BY EmptySeq, StackElements
<1>2. ASSUME NEW new \in Seq(Task), stack' = stack \o new PROVE Builds(Len(stack), new)
  <2>1. /\ stack' \in Seq(Task) /\ Len(stack') = Len(stack) + Len(new) /\ Len(new) \in Nat
        /\ \A i \in 1 .. Len(stack) + Len(new) : stack'[i] = IF i <= Len(stack) THEN stack[i] ELSE new[i - Len(stack)]
    BY <1>2, ConcatProperties, StackElements
  <2>2. \A i \in 1 .. Len(stack) : stack'[i] = stack[i]
    BY <1>1, <2>1
  <2>3. \A k \in 1 .. Len(new) : stack'[Len(stack) + k] = new[k]
    BY <1>1, <2>1
  <2> QED
    BY <1>1, <2>1, <2>2, <2>3 DEF Builds
<1>3. stack' = stack => Builds(Len(stack), <<>>)
  BY <1>1 DEF Builds
<1>4. ASSUME NEW new \in Seq(Task), stack' = new PROVE Builds(0, new)
  BY <1>1, <1>4, StackElements DEF Builds
<1> QED
  BY <1>1, <1>2, <1>3, <1>4

\* What is on the new stack.
LEMMA Built ==
  ASSUME stack \in Seq(Task), NEW n, NEW new, Builds(n, new)
  PROVE  /\ stack' \in Seq(Task) /\ n \in Nat /\ Len(new) \in Nat /\ n <= Len(stack) /\ Len(stack) \in Nat
         /\ \A i \in DOMAIN stack' :
              \/ i \in 1 .. n /\ i \in DOMAIN stack /\ stack'[i] = stack[i] /\ stack[i] \in ToSet(stack)
              \/ \E k \in 1 .. Len(new) : i = n + k /\ stack'[i] = new[k] /\ new[k] \in Task
         /\ \A t \in ToSet(stack') : t \in ToSet(stack) \/ \E k \in 1 .. Len(new) : t = new[k]
         /\ DOMAIN stack' = 1 .. n + Len(new) /\ DOMAIN stack = 1 .. Len(stack)
<1>1. /\ stack' \in Seq(Task) /\ n \in Nat /\ Len(new) \in Nat /\ n <= Len(stack) /\ Len(stack) \in Nat
      /\ DOMAIN stack' = 1 .. n + Len(new) /\ DOMAIN stack = 1 .. Len(stack)
      /\ \A i \in 1 .. Len(stack) : stack[i] \in ToSet(stack)
      /\ \A k \in 1 .. Len(new) : new[k] \in Task
  BY StackElements DEF Builds
<1>2. ASSUME NEW i \in DOMAIN stack'
      PROVE  \/ i \in 1 .. n /\ i \in DOMAIN stack /\ stack'[i] = stack[i] /\ stack[i] \in ToSet(stack)
             \/ \E k \in 1 .. Len(new) : i = n + k /\ stack'[i] = new[k] /\ new[k] \in Task
  <2>1. CASE i <= n
    BY <1>1, <2>1 DEF Builds
  <2>2. CASE i > n
    <3>1. i - n \in 1 .. Len(new) /\ i = n + (i - n)
      BY <1>1, <2>2
    <3>2. stack'[i] = new[i - n]
      BY <3>1 DEF Builds
    <3> QED
      BY <1>1, <3>1, <3>2
  <2> QED
    BY <1>1, <2>1, <2>2
<1>3. \A t \in ToSet(stack') : \E i \in DOMAIN stack' : t = stack'[i]
  BY DEF ToSet
<1> QED
  BY <1>1, <1>2, <1>3

-----------------------------------------------------------------------------
(* Entries.                                                                *)

\* A descent through different directories is no longer than their number.
LEMMA TrailShort ==
  ASSUME NEW p, NEW n \in Nat, Trail(p, n)
  PROVE  n <= Cardinality(Dir)
<1> DEFINE f == [i \in 1 .. n |-> Target[p[i]]]
<1>1. f \in Injection(1 .. n, Dir)
  <2>1. \A i \in 1 .. n : Target[p[i]] \in Dir
    BY Tree DEF Trail
  <2>2. f \in [1 .. n -> Dir] /\ \A i, j \in 1 .. n : f[i] = f[j] => i = j
    BY <2>1 DEF Trail
  <2> HIDE DEF f
  <2> QED
    BY <2>2 DEF Injection, IsInjective
<1>2. Cardinality(1 .. n) <= Cardinality(Dir)
  <2> HIDE DEF f
  <2> QED
    BY <1>1, Tree, FS_Injection
<1>3. Cardinality(1 .. n) = IF 1 > n THEN 0 ELSE n - 1 + 1
  <2> HIDE DEF f
  <2>1. 1 \in Int /\ n \in Int
    OBVIOUS
  <2> QED
    BY <2>1, FS_Interval
<1> QED
  BY <1>2, <1>3

Grounded == TaskInv /\ DescentInv

LEMMA WorldFields ==
  ASSUME world \in Worlds
  PROVE  /\ world.follow \in BOOLEAN /\ world.relative \in BOOLEAN /\ (world.relative => ~world.follow)
         /\ world.front \in {"stream", "collect"} /\ world.policy \in {"abort", "skip", "collect"}
         /\ \A path \in Path :
              /\ world.action[path] \in {"skip", "emit", "descend", "both", "fail", "failDescend"}
              /\ world.action[path] \in {"descend", "both", "failDescend"} =>
                   Last(path) \in Dir /\ (world.follow \/ ~Closed(path))
<1>1. world \in World /\ (world.relative => ~world.follow)
  BY WorldAssumption
<1>2. world.action \in [Path -> {"skip", "emit", "descend", "both", "fail", "failDescend"}]
  BY <1>1 DEF World
<1>3. /\ world.follow \in BOOLEAN /\ world.relative \in BOOLEAN /\ world.front \in {"stream", "collect"}
      /\ world.policy \in {"abort", "skip", "collect"}
  BY <1>1 DEF World
<1> QED
  BY <1>1, <1>2, <1>3, WorldAssumption

\* A listing under way, and each of its entries.
LEMMA ListingPath ==
  ASSUME TaskInv, NEW f \in FrameTasks, Follows(f, Len(f.path))
  PROVE  /\ f.path \in Seq(Name) /\ f.path \in Path /\ Len(f.path) \in Nat \ {0} /\ Len(f.path) <= Cardinality(Dir)
         /\ Last(f.path) \in Dir /\ ~Closed(f.path) /\ Len(Names(f.path)) \in Nat
         /\ \A k \in 1 .. Len(Names(f.path)) :
              LET e == Append(f.path, Names(f.path)[k]) IN
              /\ e \in Seq(Name) /\ e \in Path /\ Len(e) = Len(f.path) + 1 /\ Front(e) = f.path
              /\ Len(f.path) \in DOMAIN Level /\ e \in Level[Len(f.path)]
              /\ \A i \in 1 .. Len(f.path) : e[i] = f.path[i]
<1> DEFINE p == f.path
           m == Len(p) - 1
<1>1. m \in DOMAIN Level /\ p \in Level[m] /\ Trail(p, Len(p))
  BY DEF Follows
<1>2. p \in Seq(Name) /\ Len(p) = m + 1 /\ m \in Nat /\ p \in Path
  <2>1. DOMAIN Level = 0 .. Cardinality(Dir) /\ Cardinality(Dir) \in Nat
    BY LevelRule, Tree
  <2> QED
    BY <1>1, <2>1, PathSeq
<1>3. Len(p) \in Nat \ {0} /\ Len(p) <= Cardinality(Dir)
  BY <1>1, <1>2, TrailShort
<1>4. Last(p) \in Dir /\ ~Closed(p)
  <2>1. p[Len(p)] \in Dir /\ \A i \in 1 .. Len(p) - 1 : Target[p[i]] # Target[p[Len(p)]]
    BY <1>1, <1>3 DEF Trail
  <2> QED
    BY <2>1 DEF Closed, Key, Last
<1>5. Len(Names(p)) \in Nat /\ DOMAIN Names(p) = 1 .. Len(Names(p))
  BY <1>2, <1>3, <1>4, Child
<1>6. ASSUME NEW k \in 1 .. Len(Names(p))
      PROVE  LET e == Append(p, Names(p)[k]) IN
             /\ e \in Seq(Name) /\ e \in Path /\ Len(e) = Len(p) + 1 /\ Front(e) = p
             /\ Len(p) \in DOMAIN Level /\ e \in Level[Len(p)]
             /\ \A i \in 1 .. Len(p) : e[i] = p[i]
  <2> DEFINE e == Append(p, Names(p)[k])
  <2>1. e \in Seq(Name) /\ Len(e) = Len(p) + 1 /\ Front(e) = p /\ \A i \in 1 .. Len(p) : e[i] = p[i]
    BY <1>2, <1>3, <1>4, Child
  <2>2. Len(p) \in 1 .. Cardinality(Dir) /\ Len(p) \in DOMAIN Level
    BY <1>3, LevelRule, Tree
  <2>3. Level[Len(p)] = Below(Level[Len(p) - 1])
    BY <2>2, LevelRule
  <2>4. e \in Below(Level[m])
    BY <1>1, <1>4, <1>5, BelowMember
  <2>5. e \in Level[Len(p)]
    BY <2>3, <2>4
  <2>6. e \in Path
    BY <2>2, <2>5, PathSeq
  <2> QED
    BY <2>1, <2>2, <2>5, <2>6
<1> QED
  BY <1>2, <1>3, <1>4, <1>5, <1>6

LEMMA FrameInHand ==
  ASSUME TaskInv, frame # NoFrame
  PROVE  frame \in FrameTasks /\ frame \in Frames /\ frame.kind = "frame" /\ frame \in Tasks
BY Kinds DEF TaskInv, Frames, Tasks

\* The entry in front of the listing in hand.
LEMMA NextEntry ==
  ASSUME Grounded, InListing
  PROVE  /\ frame \in FrameTasks /\ frame \in Frames /\ frame # NoFrame /\ Follows(frame, Len(frame.path))
         /\ frame.path \in Path /\ frame.path \in Seq(Name) /\ Len(frame.path) \in Nat \ {0}
         /\ Entry \in Path /\ Entry \in Seq(Name) /\ Len(Entry) = Len(frame.path) + 1 /\ Front(Entry) = frame.path
         /\ Len(frame.path) \in DOMAIN Level /\ Entry \in Level[Len(frame.path)]
         /\ \A i \in 1 .. Len(frame.path) : Entry[i] = frame.path[i]
         /\ frame.next \in Nat /\ More(frame) /\ Len(Names(frame.path)) \in Nat
<1>1. frame # NoFrame /\ frame.next < Len(Names(frame.path)) /\ TaskInv /\ DescentInv
  BY DEF InListing, Grounded
<1>2. frame \in FrameTasks /\ frame \in Frames
  BY <1>1, FrameInHand
<1>3. Follows(frame, Len(frame.path)) /\ frame.next \in Nat
  BY <1>1, <1>2, Kinds DEF DescentInv
<1>4. Len(Names(frame.path)) \in Nat
  BY <1>1, <1>2, <1>3, ListingPath
<1>5. frame.next + 1 \in 1 .. Len(Names(frame.path))
  BY <1>1, <1>3, <1>4
<1> QED
  BY <1>1, <1>2, <1>3, <1>4, <1>5, ListingPath DEF Entry, More

-----------------------------------------------------------------------------
(* The tasks that steps make.                                              *)

\* What a listing is given when its descriptor is to be retained.
LEMMA Retained ==
  ASSUME NEW path \in Path, NEW inode \in Inodes, NEW otherwise \in Fds
  PROVE  LET fd == Retain(path, inode, otherwise) IN
         \/ InUse < Limit /\ fd \in Fds /\ HasFd(fd) /\ fd.permit = "budgeted" /\ fd.inode = inode
         \/ fd = otherwise
BY FdFields DEF Retain

LEMMA PathInodes ==
  /\ \A path : PathInode(path) \in Inodes
  /\ \A t \in DirTasks : OpenInode(t) \in Inodes
<1>1. \A path : PathInode(path) \in Inodes
  BY DEF PathInode, Inodes
<1>2. ASSUME NEW t \in DirTasks PROVE OpenInode(t) \in Inodes
  <2>1. HasFd(t.open) => t.open.inode \in Inodes
    BY Kinds, FdFields
  <2> QED
    BY <1>1, <2>1 DEF OpenInode
<1> QED
  BY <1>1, <1>2

\* The first listing of a directory: with a descriptor within the budget or none.
LEMMA FirstFrames ==
  ASSUME NEW t \in DirTasks, Last(t.path) \in Dir
  PROVE  LET f == FirstFrame(t) IN
         /\ f \in FrameTasks /\ f.kind = "frame" /\ f.path = t.path /\ f.chain = Entered(t) /\ f.next = 0
         /\ f.inode = OpenInode(t) /\ f.awaited = "none" /\ (f.held <=> HasFd(f.fd))
         /\ \/ f.fd = NoFd
            \/ InUse < Limit /\ HasFd(f.fd) /\ f.fd.permit = "budgeted" /\ f.fd.inode = f.inode
<1> DEFINE fd == RetainRead(t.path, OpenInode(t))
<1>1. t.path \in Path /\ OpenInode(t) \in Inodes /\ t.chain \in SUBSET Dir
  BY Kinds, PathInodes
<1>2. /\ fd \in Fds
      /\ fd = NoFd \/ (InUse < Limit /\ HasFd(fd) /\ fd.permit = "budgeted" /\ fd.inode = OpenInode(t))
  BY <1>1, FdFields, Retained DEF RetainRead
<1>3. Entered(t) \in SUBSET Dir
  BY <1>1, Tree DEF Entered, Key
<1>4. HasFd(fd) \in BOOLEAN
  BY DEF HasFd
<1>5. FirstFrame(t) = [kind |-> "frame", path |-> t.path, chain |-> Entered(t), next |-> 0,
                       inode |-> OpenInode(t), fd |-> fd, held |-> HasFd(fd), awaited |-> "none"]
  BY DEF FirstFrame
<1> HIDE DEF fd
<1> QED
  BY <1>1, <1>2, <1>3, <1>4, <1>5 DEF FrameTasks

\* A listing behind one more entry, and the same suspended.
LEMMA PassedFrame ==
  ASSUME frame \in FrameTasks
  PROVE  /\ Passed \in FrameTasks /\ Passed.kind = "frame" /\ Passed.path = frame.path /\ Passed.chain = frame.chain
         /\ Passed.next = frame.next + 1 /\ Passed.inode = frame.inode /\ Passed.fd = frame.fd
         /\ Passed.held = frame.held /\ Passed.awaited = frame.awaited
BY DEF Passed, FrameTasks

LEMMA SuspendedFrame ==
  ASSUME frame \in FrameTasks
  PROVE  LET f == Suspended(Passed) IN
         /\ f \in FrameTasks /\ f.kind = "frame" /\ f.path = frame.path /\ f.chain = frame.chain
         /\ f.next = frame.next + 1 /\ f.inode = frame.inode /\ f.held = frame.held
         /\ \/ f.fd = frame.fd /\ f.awaited = frame.awaited /\ f.fd.permit # "unbudgeted"
            \/ f.fd = NoFd /\ HasFd(frame.fd) /\ f.awaited = frame.fd.inode
<1>1. Passed \in FrameTasks /\ Passed.fd = frame.fd /\ Passed.awaited = frame.awaited
  BY PassedFrame
<1>2. frame.fd \in Fds /\ (HasFd(frame.fd) => frame.fd.inode \in Inodes)
  BY Kinds, FdFields
<1>3. CASE KeepsFd(Passed)
  <2>1. frame.fd.permit # "unbudgeted"
    BY <1>1, <1>2, <1>3, FdFields DEF KeepsFd
  <2> QED
    BY <1>1, <1>3, <2>1, PassedFrame DEF Suspended
<1>4. CASE ~KeepsFd(Passed)
  <2>1. HasFd(frame.fd)
    BY <1>1, <1>4 DEF KeepsFd
  <2>2. Suspended(Passed) = [Passed EXCEPT !.fd = NoFd, !.awaited = frame.fd.inode]
    BY <1>1, <1>4 DEF Suspended
  <2>3. NoFd \in Fds /\ frame.fd.inode \in Inodes
    BY <1>2, <2>1, FdFields
  <2>4. LET f == [Passed EXCEPT !.fd = NoFd, !.awaited = frame.fd.inode] IN
        /\ f \in FrameTasks /\ f.kind = "frame" /\ f.path = Passed.path /\ f.chain = Passed.chain
        /\ f.next = Passed.next /\ f.inode = Passed.inode /\ f.held = Passed.held
        /\ f.fd = NoFd /\ f.awaited = frame.fd.inode
    <3> HIDE DEF Passed
    <3> QED
      BY <1>1, <2>3 DEF FrameTasks
  <2> QED
    BY <2>1, <2>2, <2>4, PassedFrame
<1> QED
  BY <1>3, <1>4

\* A listing taken up again, its directory opened once more if that is needed.
RestoredFrame ==
  [Top EXCEPT !.awaited = "none",
              !.fd = IF Reopens(Top) THEN RetainRestored(Top.path, PathInode(Top.path)) ELSE @]
LEMMA Restored ==
  ASSUME Top \in FrameTasks, Reopens(Top) => Recognized(Top)
  PROVE  LET f == RestoredFrame IN
         /\ f \in FrameTasks /\ f.kind = "frame" /\ f.path = Top.path /\ f.chain = Top.chain
         /\ f.next = Top.next /\ f.inode = Top.inode /\ f.held = Top.held /\ f.awaited = "none"
         /\ ~Reopens(Top) => f.fd = Top.fd
         /\ Reopens(Top) => HasFd(f.fd) /\ f.fd.inode = Top.awaited
                            /\ (f.fd.permit = "unbudgeted" \/ (InUse < Limit /\ f.fd.permit = "budgeted"))
<1> DEFINE fd == IF Reopens(Top) THEN RetainRestored(Top.path, PathInode(Top.path)) ELSE Top.fd
<1>1. Top.path \in Path /\ PathInode(Top.path) \in Inodes /\ Top.fd \in Fds
  BY Kinds, PathInodes
<1>2. Fd(Top.path, PathInode(Top.path), "unbudgeted") \in Fds
  BY <1>1, FdFields
<1>3. /\ fd \in Fds
      /\ Reopens(Top) => HasFd(fd) /\ fd.inode = PathInode(Top.path)
                            /\ (fd.permit = "unbudgeted" \/ (InUse < Limit /\ fd.permit = "budgeted"))
  BY <1>1, <1>2, FdFields, Retained DEF RetainRestored
<1>4. Reopens(Top) => PathInode(Top.path) = Top.awaited
  BY DEF Recognized
<1>5. RestoredFrame = [Top EXCEPT !.awaited = "none", !.fd = fd]
  BY DEF RestoredFrame
<1>6. ~Reopens(Top) => fd = Top.fd
  OBVIOUS
<1> HIDE DEF fd
<1>7. LET f == [Top EXCEPT !.awaited = "none", !.fd = fd] IN
      /\ f \in FrameTasks /\ f.kind = "frame" /\ f.path = Top.path /\ f.chain = Top.chain
      /\ f.next = Top.next /\ f.inode = Top.inode /\ f.held = Top.held /\ f.awaited = "none" /\ f.fd = fd
  BY <1>3 DEF FrameTasks
<1> QED
  BY <1>3, <1>4, <1>5, <1>6, <1>7

\* A directory to be opened below the listing in hand, and a root.
LEMMA ChildTasks ==
  ASSUME frame \in FrameTasks, Entry \in Path
  PROVE  /\ ChildTask(Entry) \in DirTasks /\ ChildTask(Entry).kind = "dir" /\ ChildTask(Entry).path = Entry
         /\ ChildTask(Entry).chain = frame.chain
         /\ ChildTask(Entry).open = IF world.relative THEN frame.fd ELSE NoFd
         /\ RecordTask(Entry) \in RecordTasks /\ RecordTask(Entry).kind = "record" /\ RecordTask(Entry).path = Entry
<1>1. frame.fd \in Fds /\ NoFd \in Fds /\ frame.chain \in SUBSET Dir
  BY Kinds, FdFields
<1> HIDE DEF Entry
<1> QED
  BY <1>1 DEF ChildTask, DirectoryTask, RecordTask, DirTasks, RecordTasks

LEMMA RootTasks ==
  ASSUME NEW i \in DOMAIN Roots
  PROVE  LET t == RootTask(Roots[i]) IN
         /\ t \in DirTasks /\ t.kind = "dir" /\ t.path = <<Roots[i]>> /\ t.chain = {} /\ t.open = NoFd
         /\ 0 \in DOMAIN Level /\ t.path \in Level[0] /\ Len(t.path) = 1 /\ t.path[1] = Roots[i] /\ Roots[i] \in Dir
         /\ Last(t.path) \in Dir
<1>1. 0 \in DOMAIN Level /\ <<Roots[i]>> \in Level[0] /\ Roots[i] \in Dir
  BY LevelRule, Tree DEF RootPaths
<1>2. <<Roots[i]>> \in Path
  BY <1>1, PathSeq
<1>3. NoFd \in Fds
  BY FdFields
<1> QED
  BY <1>1, <1>2, <1>3 DEF RootTask, DirectoryTask, DirTasks, Last

-----------------------------------------------------------------------------
(* What a step does to the stack, the listing in hand and the descriptors. *)

Still == world' = world /\ UNCHANGED outside
Unheard == late' = late
Classifies == InListing /\ ~Halts /\ late' = IF token THEN Append(late, frame.path) ELSE late

Rests ==
  /\ stack' = stack /\ frame' = frame /\ world' = world /\ Unheard /\ (token => token')
  /\ \/ others' = others
     \/ InUse < Limit /\ others' = others + 1
     \/ others > 0 /\ others' = others - 1
Empties == Builds(0, <<>>) /\ frame' = frame /\ Still /\ Unheard
TakesRoot ==
  /\ stack = <<>> /\ frame = NoFrame /\ frame' = NoFrame /\ Still /\ Unheard
  /\ \E i \in DOMAIN Roots : Builds(0, <<RootTask(Roots[i])>>)
Handles == stack # <<>> /\ frame = NoFrame /\ Still /\ Unheard
Pops == Handles /\ frame' = NoFrame /\ Builds(Len(stack) - 1, <<>>)
OpensTop ==
  /\ Handles /\ frame' = NoFrame /\ Top.kind = "dir" /\ ~Closes(Top) /\ ~OpenFails(Top) /\ ~token
  /\ Builds(Len(stack) - 1, <<FirstFrame(Top)>>)
Resumes ==
  /\ Handles /\ Top.kind = "frame" /\ (Reopens(Top) => Recognized(Top))
  /\ frame' = RestoredFrame /\ Builds(Len(stack) - 1, <<>>)
Leaves ==
  /\ frame # NoFrame /\ frame' = NoFrame /\ Still /\ (Unheard \/ Classifies)
  /\ Builds(Len(stack), <<>>)
Stays == Classifies /\ Still /\ frame' = Passed /\ Builds(Len(stack), <<>>)
Pauses == Classifies /\ Still /\ frame' = NoFrame /\ Builds(Len(stack), <<Passed>>)
Descends ==
  /\ Classifies /\ Still /\ frame' = NoFrame /\ Action \in {"descend", "both", "failDescend"}
  /\ \/ Builds(Len(stack), <<Suspended(Passed), ChildTask(Entry)>>)
     \/ ~Streaming /\ Builds(Len(stack), <<Suspended(Passed), RecordTask(Entry), ChildTask(Entry)>>)

Moves == \/ Rests \/ Empties \/ TakesRoot \/ Pops \/ OpensTop
         \/ Resumes \/ Leaves \/ Stays \/ Pauses \/ Descends

LEMMA PauseBuilds ==
  ASSUME stack \in Seq(Task), NEW f \in Task
  PROVE  /\ Pause(f, <<>>) => Builds(Len(stack), <<f>>)
         /\ \A t \in Task : Pause(f, <<t>>) => Builds(Len(stack), <<f, t>>)
         /\ \A t, u \in Task : Pause(f, <<t, u>>) => Builds(Len(stack), <<f, t, u>>)
<1>1. /\ Append(stack, f) \in Seq(Task) /\ Len(Append(stack, f)) = Len(stack) + 1 /\ Len(stack) \in Nat
      /\ (\A i \in 1 .. Len(stack) : Append(stack, f)[i] = stack[i]) /\ Append(stack, f)[Len(stack) + 1] = f
  BY StackElements, AppendProperties
<1> DEFINE s == Append(stack, f)
<1>2. ASSUME NEW above \in Seq(Task), Pause(f, above), Len(above) \in Nat
      PROVE  /\ stack' \in Seq(Task) /\ Len(stack') = Len(stack) + 1 + Len(above)
             /\ \A i \in 1 .. Len(stack) : stack'[i] = stack[i]
             /\ stack'[Len(stack) + 1] = f
             /\ \A k \in 1 .. Len(above) : stack'[Len(stack) + 1 + k] = above[k]
  <2>1. s \in Seq(Task) /\ stack' = s \o above
    BY <1>1, <1>2 DEF Pause
  <2>2. Len(s) = Len(stack) + 1
    BY <1>1
  <2>3. (\A i \in 1 .. Len(stack) : s[i] = stack[i]) /\ s[Len(stack) + 1] = f
    BY <1>1
  <2> HIDE DEF s
  <2>4. /\ stack' \in Seq(Task) /\ Len(stack') = Len(s) + Len(above)
        /\ \A i \in 1 .. Len(s) + Len(above) : stack'[i] = IF i <= Len(s) THEN s[i] ELSE above[i - Len(s)]
    BY <2>1, ConcatProperties
  <2>5. \A i \in 1 .. Len(stack) + 1 : stack'[i] = s[i]
    BY <1>1, <1>2, <2>2, <2>4
  <2>6. \A k \in 1 .. Len(above) : stack'[Len(stack) + 1 + k] = above[k]
    BY <1>1, <1>2, <2>2, <2>4
  <2> QED
    BY <1>1, <2>2, <2>3, <2>4, <2>5, <2>6
<1> HIDE DEF s
<1>3. Pause(f, <<>>) => Builds(Len(stack), <<f>>)
  <2>1. <<>> \in Seq(Task) /\ Len(<<>>) = 0
    BY EmptySeq
  <2>2. <<f>> \in Seq(Task) /\ Len(<<f>>) = 1 /\ <<f>>[1] = f
    OBVIOUS
  <2> SUFFICES ASSUME Pause(f, <<>>) PROVE Builds(Len(stack), <<f>>)
    OBVIOUS
  <2>3. /\ stack' \in Seq(Task) /\ Len(stack') = Len(stack) + 1 + 0 /\ stack'[Len(stack) + 1] = f
        /\ \A i \in 1 .. Len(stack) : stack'[i] = stack[i]
    BY <1>2, <2>1
  <2>4. \A k \in 1 .. 1 : stack'[Len(stack) + k] = <<f>>[k]
    BY <2>2, <2>3
  <2> QED
    BY <1>1, <2>2, <2>3, <2>4 DEF Builds
<1>4. ASSUME NEW t \in Task, Pause(f, <<t>>) PROVE Builds(Len(stack), <<f, t>>)
  <2>1. <<t>> \in Seq(Task) /\ Len(<<t>>) = 1 /\ <<t>>[1] = t
    OBVIOUS
  <2>2. <<f, t>> \in Seq(Task) /\ Len(<<f, t>>) = 2 /\ <<f, t>>[1] = f /\ <<f, t>>[2] = t
    OBVIOUS
  <2>3. /\ stack' \in Seq(Task) /\ Len(stack') = Len(stack) + 1 + 1 /\ stack'[Len(stack) + 1] = f
        /\ (\A i \in 1 .. Len(stack) : stack'[i] = stack[i]) /\ stack'[Len(stack) + 1 + 1] = t
    <3>1. /\ stack' \in Seq(Task) /\ Len(stack') = Len(stack) + 1 + Len(<<t>>) /\ stack'[Len(stack) + 1] = f
          /\ (\A i \in 1 .. Len(stack) : stack'[i] = stack[i])
          /\ \A k \in 1 .. Len(<<t>>) : stack'[Len(stack) + 1 + k] = <<t>>[k]
      BY ONLY <1>2, <1>4, <2>1
    <3>2. 1 \in 1 .. Len(<<t>>)
      BY <2>1
    <3> QED
      BY <2>1, <3>1, <3>2
  <2>4. \A k \in 1 .. 2 : stack'[Len(stack) + k] = <<f, t>>[k]
    <3>1. \A k \in 1 .. 2 : k = 1 \/ k = 2
      OBVIOUS
    <3>2. Len(stack) + 1 + 1 = Len(stack) + 2
      BY <1>1
    <3> QED
      BY <2>2, <2>3, <3>1, <3>2
  <2> QED
    BY <1>1, <2>2, <2>3, <2>4 DEF Builds
<1>5. ASSUME NEW t \in Task, NEW u \in Task, Pause(f, <<t, u>>) PROVE Builds(Len(stack), <<f, t, u>>)
  <2>1. <<t, u>> \in Seq(Task) /\ Len(<<t, u>>) = 2 /\ <<t, u>>[1] = t /\ <<t, u>>[2] = u
    OBVIOUS
  <2>2. /\ <<f, t, u>> \in Seq(Task) /\ Len(<<f, t, u>>) = 3
        /\ <<f, t, u>>[1] = f /\ <<f, t, u>>[2] = t /\ <<f, t, u>>[3] = u
    OBVIOUS
  <2>3. /\ stack' \in Seq(Task) /\ Len(stack') = Len(stack) + 1 + 2 /\ stack'[Len(stack) + 1] = f
        /\ \A i \in 1 .. Len(stack) : stack'[i] = stack[i]
        /\ stack'[Len(stack) + 1 + 1] = t /\ stack'[Len(stack) + 1 + 2] = u
    <3>1. /\ stack' \in Seq(Task) /\ Len(stack') = Len(stack) + 1 + Len(<<t, u>>) /\ stack'[Len(stack) + 1] = f
          /\ (\A i \in 1 .. Len(stack) : stack'[i] = stack[i])
          /\ \A k \in 1 .. Len(<<t, u>>) : stack'[Len(stack) + 1 + k] = <<t, u>>[k]
      BY ONLY <1>2, <1>5, <2>1
    <3>2. 1 \in 1 .. Len(<<t, u>>) /\ 2 \in 1 .. Len(<<t, u>>)
      BY <2>1
    <3> QED
      BY <2>1, <3>1, <3>2
  <2>4. \A k \in 1 .. 3 : stack'[Len(stack) + k] = <<f, t, u>>[k]
    <3>1. \A k \in 1 .. 3 : k = 1 \/ k = 2 \/ k = 3
      OBVIOUS
    <3>2. Len(stack) + 1 + 1 = Len(stack) + 2 /\ Len(stack) + 1 + 2 = Len(stack) + 3
      BY <1>1
    <3> QED
      BY <2>2, <2>3, <3>1, <3>2
  <2> QED
    BY <1>1, <2>2, <2>3, <2>4 DEF Builds
<1> QED
  BY <1>3, <1>4, <1>5

LEMMA DescendBuilds ==
  ASSUME Grounded, InListing
  PROVE  /\ Descend(FALSE) => Builds(Len(stack), <<Suspended(Passed), ChildTask(Entry)>>)
         /\ Descend(TRUE) => Builds(Len(stack), <<Suspended(Passed), RecordTask(Entry), ChildTask(Entry)>>)
<1>1. Suspended(Passed) \in Task /\ ChildTask(Entry) \in Task /\ RecordTask(Entry) \in Task /\ stack \in Seq(Task)
  <2>1. frame \in FrameTasks /\ Entry \in Path
    BY NextEntry
  <2>2. Suspended(Passed) \in FrameTasks /\ ChildTask(Entry) \in DirTasks /\ RecordTask(Entry) \in RecordTasks
    BY <2>1, SuspendedFrame, ChildTasks
  <2> QED
    BY <2>2 DEF Task, Grounded, TaskInv
<1>2. ASSUME NEW t \in Task, NEW u \in Task PROVE <<>> \o <<t>> = <<t>> /\ <<u>> \o <<t>> = <<u, t>>
  <2>1. /\ <<t>> \in Seq(Task) /\ <<u>> \in Seq(Task) /\ <<u, t>> \in Seq(Task)
        /\ Len(<<t>>) = 1 /\ Len(<<u>>) = 1 /\ Len(<<u, t>>) = 2
    OBVIOUS
  <2>2. /\ <<u>> \o <<t>> \in Seq(Task) /\ Len(<<u>> \o <<t>>) = 2
        /\ (<<u>> \o <<t>>)[1] = u /\ (<<u>> \o <<t>>)[2] = t
    BY <2>1, ConcatProperties
  <2>3. <<u>> \o <<t>> = <<u, t>>
    <3>1. \A i \in 1 .. 2 : (<<u>> \o <<t>>)[i] = <<u, t>>[i]
      BY <2>2
    <3> QED
      BY <2>1, <2>2, <3>1, SeqEqual
  <2> QED
    BY <2>1, <2>3, ConcatEmptySeq
<1>3. Descend(FALSE) => Pause(Suspended(Passed), <<ChildTask(Entry)>>)
  BY <1>1, <1>2 DEF Descend
<1>4. Descend(TRUE) => Pause(Suspended(Passed), <<RecordTask(Entry), ChildTask(Entry)>>)
  BY <1>1, <1>2 DEF Descend
<1> QED
  BY <1>1, <1>3, <1>4, PauseBuilds

\* Every step is one of these.
LEMMA TaskMoves ==
  ASSUME Grounded, DropTask \/ CloseCycle \/ FailOpen \/ LoseListing \/ Record \/ Open \/ Resume
  PROVE  Moves
<1>1. /\ stack \in Seq(Task) /\ stack # <<>> /\ frame = NoFrame /\ Handles
  BY DEF DropTask, CloseCycle, FailOpen, LoseListing, Record, Open, Resume, Opens, Takes, MayTake, Between,
         Grounded, TaskInv, Handles, Still, Unheard, outside
<1>2. ASSUME DropTask \/ CloseCycle \/ FailOpen \/ LoseListing \/ Record PROVE Pops
  <2>1. stack' = Front(stack) /\ frame' = frame
    BY <1>2 DEF DropTask, CloseCycle, FailOpen, LoseListing, Record, Pop
  <2> QED
    BY <1>1, <2>1, BuildsPop DEF Pops
<1>3. ASSUME Open PROVE OpensTop
  <2>1. Top.kind = "dir" /\ ~Closes(Top) /\ ~OpenFails(Top) /\ ~token /\ frame' = frame
    BY <1>3 DEF Open, Opens, Takes, MayTake
  <2>2. Top \in DirTasks /\ Last(Top.path) \in Dir
    <3>1. Len(stack) \in DOMAIN stack /\ Top = stack[Len(stack)] /\ Top \in Task
      BY <1>1, BuildsPop, StackElements
    <3> QED
      BY <2>1, <3>1, Kinds DEF Grounded, DescentInv
  <2>3. FirstFrame(Top) \in Task
    BY <2>2, FirstFrames DEF Task
  <2>4. stack' = Append(Front(stack), FirstFrame(Top))
    BY <1>3 DEF Open
  <2> QED
    BY <1>1, <2>1, <2>3, <2>4, BuildsPop DEF OpensTop
<1>4. ASSUME Resume PROVE Resumes
  <2>1. stack' = Front(stack) /\ Top.kind = "frame" /\ (Reopens(Top) => Recognized(Top)) /\ frame' = RestoredFrame
    BY <1>4 DEF Resume, Pop, Takes, RestoredFrame
  <2> QED
    BY <1>1, <2>1, BuildsPop DEF Resumes
<1> QED
  BY <1>2, <1>3, <1>4 DEF Moves

LEMMA ListingMoves ==
  ASSUME Grounded,
         Halt \/ SkipEntry \/ EmitEntry \/ DescendEntry \/ EmitAndDescend \/ FailEntry \/ EndListing
  PROVE  Moves
<1>1. stack \in Seq(Task) /\ frame # NoFrame /\ Still
  BY DEF Halt, SkipEntry, EmitEntry, DescendEntry, EmitAndDescend, FailEntry, EndListing, Classified, InListing,
         Grounded, TaskInv, Still, outside
<1>2. Classified({"skip"}) \/ Classified({"emit"}) \/ Classified({"descend"}) \/ Classified({"both"})
      \/ Classified({"fail", "failDescend"}) => Classifies
  BY DEF Classified, Classifies
<1>3. stack' = stack => Builds(Len(stack), <<>>)
  BY <1>1, BuildsOn
<1>4. Classifies => Passed \in Task /\ InListing
  BY NextEntry, PassedFrame DEF Classifies, Task
<1>5. Classifies /\ Pause(Passed, <<>>) => Pauses
  <2>1. Pause(Passed, <<>>) => frame' = NoFrame
    BY DEF Pause
  <2> QED
    BY <1>1, <1>4, <2>1, PauseBuilds DEF Pauses
<1>6. Classifies /\ StayInListing => Stays
  BY <1>1, <1>3 DEF StayInListing, Stays
<1>7. ASSUME NEW kept \in BOOLEAN, Classifies, Descend(kept), kept => ~Streaming,
             Action \in {"descend", "both", "failDescend"}
      PROVE  Descends
  <2>1. frame' = NoFrame
    BY <1>7 DEF Descend, Pause
  <2>2. CASE kept = TRUE
    BY <1>1, <1>4, <1>7, <2>1, <2>2, DescendBuilds DEF Descends
  <2>3. CASE kept = FALSE
    BY <1>1, <1>4, <1>7, <2>1, <2>3, DescendBuilds DEF Descends
  <2> QED
    BY <2>2, <2>3
<1>8. ASSUME Halt \/ EndListing PROVE Leaves
  <2>1. frame' = NoFrame /\ stack' = stack /\ Unheard
    BY <1>8 DEF Halt, EndListing, Unheard
  <2> QED
    BY <1>1, <1>3, <2>1 DEF Leaves
<1>9. ASSUME SkipEntry PROVE Stays
  BY <1>2, <1>6, <1>9 DEF SkipEntry
<1>10. ASSUME EmitEntry PROVE Pauses \/ Stays
  BY <1>2, <1>5, <1>6, <1>10 DEF EmitEntry
<1>11. ASSUME DescendEntry PROVE Descends
  <2>1. Classifies /\ Descend(FALSE) /\ Action = "descend"
    BY <1>2, <1>11 DEF DescendEntry, Classified
  <2> QED
    BY <1>7, <2>1
<1>12. ASSUME EmitAndDescend PROVE Descends \/ Stays
  <2>1. Classifies /\ Action = "both"
    BY <1>2, <1>12 DEF EmitAndDescend, Classified
  <2>2. Descend(FALSE) \/ (~Streaming /\ Descend(Verdict = "keep")) \/ StayInListing
    BY <1>12 DEF EmitAndDescend
  <2>3. (Verdict = "keep") \in BOOLEAN
    OBVIOUS
  <2> QED
    BY <1>6, <1>7, <2>1, <2>2, <2>3
<1>13. ASSUME FailEntry PROVE Leaves \/ Descends \/ Pauses \/ Stays
  <2>1. Classifies
    BY <1>2, <1>13 DEF FailEntry
  <2>2. \/ frame' = NoFrame /\ stack' = stack
        \/ Action = "failDescend" /\ Descend(FALSE)
        \/ Pause(Passed, <<>>)
        \/ StayInListing
    BY <1>13 DEF FailEntry
  <2> QED
    BY <1>1, <1>3, <1>5, <1>6, <1>7, <2>1, <2>2 DEF Leaves
<1> QED
  BY <1>8, <1>9, <1>10, <1>11, <1>12, <1>13 DEF Moves

LEMMA OtherMoves ==
  ASSUME Grounded, RestInv,
         \/ StreamEnds \/ StashedError \/ TakeRoot \/ CollectEnds \/ NextCall \/ DropStream
         \/ Cancel \/ Crowd \/ Replace \/ UNCHANGED vars
  PROVE  Moves
<1>1. ASSUME StreamEnds \/ StashedError \/ CollectEnds \/ NextCall \/ Cancel \/ Crowd \/ Replace \/ UNCHANGED vars
      PROVE  Rests
  <2>1. ASSUME StreamEnds \/ StashedError \/ CollectEnds \/ NextCall \/ UNCHANGED vars PROVE Rests
    BY <2>1 DEF StreamEnds, StashedError, CollectEnds, NextCall, vars, outside, Rests, Unheard
  <2>2. ASSUME Cancel \/ Crowd \/ Replace PROVE Rests
    BY <2>2 DEF Cancel, Crowd, Replace, Rests, Unheard
  <2> QED
    BY <1>1, <2>1, <2>2
<1>2. ASSUME DropStream PROVE Empties
  <2>1. stack' = <<>> /\ frame' = frame /\ Still /\ Unheard
    BY <1>2 DEF DropStream, Still, Unheard, outside
  <2>2. <<>> \in Seq(Task) /\ stack \in Seq(Task)
    BY EmptySeq DEF Grounded, TaskInv
  <2> QED
    BY <2>1, <2>2, BuildsOn DEF Empties
<1>3. ASSUME TakeRoot PROVE TakesRoot
  <2>1. stack = <<>> /\ frame = NoFrame /\ frame' = frame /\ Still /\ Unheard
    BY <1>3 DEF TakeRoot, Between, Still, Unheard, outside
  <2>2. \E r \in ToSet(Roots) : stack' = <<RootTask(r)>>
    <3>1. \/ injector # <<>> /\ stack' = <<RootTask(Head(injector))>>
          \/ local # <<>> /\ stack' = <<RootTask(Head(local))>>
      BY <1>3 DEF TakeRoot
    <3>2. \A s \in Seq(ToSet(Roots)) : s # <<>> => Head(s) \in ToSet(Roots)
      BY HeadTailProperties
    <3> QED
      BY <3>1, <3>2 DEF RestInv
  <2>3. PICK i \in DOMAIN Roots : stack' = <<RootTask(Roots[i])>>
    BY <2>2 DEF ToSet
  <2>4. <<RootTask(Roots[i])>> \in Seq(Task)
    <3>1. RootTask(Roots[i]) \in Task
      BY RootTasks DEF Task
    <3> QED
      BY <3>1
  <2>5. stack \in Seq(Task)
    BY DEF Grounded, TaskInv
  <2> QED
    BY <2>1, <2>3, <2>4, <2>5, BuildsOn DEF TakesRoot
<1> QED
  BY <1>1, <1>2, <1>3 DEF Moves

LEMMA Steps ==
  ASSUME Grounded, RestInv, [Next]_vars
  PROVE  Moves
BY TaskMoves, ListingMoves, OtherMoves DEF Next, Walk, Done

-----------------------------------------------------------------------------
(* The tasks after a step.                                                 *)

NewFrame(f) ==
  \/ OpensTop /\ f = FirstFrame(Top)
  \/ Resumes /\ f = RestoredFrame
  \/ (Stays \/ Pauses) /\ f = Passed
  \/ Descends /\ f = Suspended(Passed)
NewTask(t) ==
  \/ NewFrame(t)
  \/ Descends /\ (t = ChildTask(Entry) \/ (~Streaming /\ t = RecordTask(Entry)))
  \/ TakesRoot /\ \E i \in DOMAIN Roots : t = RootTask(Roots[i])

\* A task that stays where it was; the top of the stack may have been taken.
Remains(t) ==
  \/ (Rests \/ Empties) /\ t \in Tasks
  \/ \E i \in DOMAIN stack : t = stack[i] /\ (Handles /\ ~Rests => i < Len(stack))

LEMMA TasksAfter ==
  ASSUME Grounded, Moves
  PROVE  \A t \in Tasks' : t = NoFrame \/ Remains(t) \/ NewTask(t)
<1>0. stack \in Seq(Task) /\ \A t \in Tasks' : t \in ToSet(stack') \/ t = frame'
  BY DEF Grounded, TaskInv, Tasks
<1> SUFFICES ASSUME NEW t \in Tasks', t # NoFrame PROVE Remains(t) \/ NewTask(t)
  OBVIOUS
<1>1. ASSUME NEW n, NEW new, Builds(n, new), ~(Handles /\ ~Rests) \/ n < Len(stack), t \in ToSet(stack')
      PROVE  Remains(t) \/ \E k \in 1 .. Len(new) : t = new[k]
  <2>1. PICK i \in DOMAIN stack' : t = stack'[i]
    BY <1>1 DEF ToSet
  <2>2. n \in Nat /\ Len(stack) \in Nat
    BY <1>0, <1>1, Built
  <2>3. \/ i \in 1 .. n /\ i \in DOMAIN stack /\ stack'[i] = stack[i]
        \/ \E k \in 1 .. Len(new) : stack'[i] = new[k]
    BY <1>0, <1>1, Built
  <2> QED
    BY <1>1, <2>1, <2>2, <2>3 DEF Remains
<1>2. ASSUME Rests PROVE Remains(t)
  BY <1>2 DEF Rests, Remains, Tasks
<1>3. ASSUME Empties PROVE Remains(t)
  <2>1. Builds(0, <<>>) /\ frame' = frame
    BY <1>3 DEF Empties
  <2>2. ToSet(stack') = {}
    <3>1. stack' \in Seq(Task) /\ Len(stack') = 0
      BY <2>1, EmptySeq DEF Builds
    <3> QED
      BY <3>1, StackElements DEF ToSet
  <2> QED
    BY <1>0, <1>3, <2>1, <2>2 DEF Remains, Tasks
<1>4. ASSUME TakesRoot PROVE Remains(t) \/ NewTask(t)
  <2>1. PICK i \in DOMAIN Roots : Builds(0, <<RootTask(Roots[i])>>)
    BY <1>4 DEF TakesRoot
  <2>2. t \in ToSet(stack') /\ ~Handles
    BY <1>0, <1>4 DEF TakesRoot, Handles
  <2>3. \A k \in 1 .. Len(<<RootTask(Roots[i])>>) : <<RootTask(Roots[i])>>[k] = RootTask(Roots[i])
    OBVIOUS
  <2> QED
    BY <1>1, <1>4, <2>1, <2>2, <2>3 DEF NewTask
<1>5. ASSUME Pops \/ OpensTop \/ Resumes PROVE Remains(t) \/ NewTask(t)
  <2>1. Len(stack) - 1 < Len(stack) /\ Len(<<>>) = 0
    BY <1>0, StackElements, EmptySeq
  <2>2. CASE Pops
    <3>1. Builds(Len(stack) - 1, <<>>) /\ t \in ToSet(stack')
      BY <1>0, <2>2 DEF Pops
    <3> QED
      BY <1>1, <2>1, <3>1
  <2>3. CASE OpensTop
    <3>1. Builds(Len(stack) - 1, <<FirstFrame(Top)>>) /\ t \in ToSet(stack')
      BY <1>0, <2>3 DEF OpensTop
    <3>2. \A k \in 1 .. Len(<<FirstFrame(Top)>>) : <<FirstFrame(Top)>>[k] = FirstFrame(Top)
      OBVIOUS
    <3> QED
      BY <1>1, <2>1, <2>3, <3>1, <3>2 DEF NewTask, NewFrame
  <2>4. CASE Resumes
    <3>1. Builds(Len(stack) - 1, <<>>) /\ (t \in ToSet(stack') \/ t = RestoredFrame)
      BY <1>0, <2>4 DEF Resumes
    <3> QED
      BY <1>1, <2>1, <2>4, <3>1 DEF NewTask, NewFrame
  <2> QED
    BY <1>5, <2>2, <2>3, <2>4
<1>6. ASSUME Leaves \/ Stays \/ Pauses \/ Descends PROVE Remains(t) \/ NewTask(t)
  <2>1. ~Handles /\ Len(<<>>) = 0
    BY <1>6, EmptySeq DEF Leaves, Stays, Pauses, Descends, Classifies, InListing, Handles
  <2>2. CASE Leaves
    <3>1. Builds(Len(stack), <<>>) /\ t \in ToSet(stack')
      BY <1>0, <2>2 DEF Leaves
    <3> QED
      BY <1>1, <2>1, <3>1
  <2>3. CASE Stays
    <3>1. Builds(Len(stack), <<>>) /\ (t \in ToSet(stack') \/ t = Passed)
      BY <1>0, <2>3 DEF Stays
    <3> QED
      BY <1>1, <2>1, <2>3, <3>1 DEF NewTask, NewFrame
  <2>4. CASE Pauses
    <3>1. Builds(Len(stack), <<Passed>>) /\ t \in ToSet(stack')
      BY <1>0, <2>4 DEF Pauses
    <3>2. \A k \in 1 .. Len(<<Passed>>) : <<Passed>>[k] = Passed
      OBVIOUS
    <3> QED
      BY <1>1, <2>1, <2>4, <3>1, <3>2 DEF NewTask, NewFrame
  <2>5. CASE Descends
    <3> DEFINE f == Suspended(Passed)
               c == ChildTask(Entry)
               r == RecordTask(Entry)
    <3>1. t \in ToSet(stack') /\ (Builds(Len(stack), <<f, c>>) \/ (~Streaming /\ Builds(Len(stack), <<f, r, c>>)))
      BY <1>0, <2>5 DEF Descends
    <3>2. NewTask(f) /\ NewTask(c) /\ (~Streaming => NewTask(r))
      BY <2>5 DEF NewTask, NewFrame
    <3> HIDE DEF f, c, r
    <3>3. \A k \in 1 .. Len(<<f, c>>) : <<f, c>>[k] \in {f, c}
      OBVIOUS
    <3>4. \A k \in 1 .. Len(<<f, r, c>>) : <<f, r, c>>[k] \in {f, r, c}
      OBVIOUS
    <3> QED
      BY <1>1, <2>1, <3>1, <3>2, <3>3, <3>4
  <2> QED
    BY <1>6, <2>2, <2>3, <2>4, <2>5
<1> QED
  BY <1>2, <1>3, <1>4, <1>5, <1>6 DEF Moves

LEMMA SameWorld ==
  ASSUME Moves
  PROVE  world' = world /\ (Streaming' <=> Streaming) /\ (token => token')
BY DEF Moves, Rests, Empties, TakesRoot, Pops, OpensTop, Resumes, Leaves, Stays, Pauses, Descends, Still, Handles,
       outside, Streaming

\* The task that a step takes from the stack.
LEMMA TakenTop ==
  ASSUME Grounded, stack # <<>>
  PROVE  /\ Len(stack) \in Nat \ {0} /\ Len(stack) \in DOMAIN stack /\ Top = stack[Len(stack)]
         /\ Top \in Task /\ Top \in Tasks
         /\ Top.kind = "frame" => Top \in FrameTasks /\ Top \in Frames
         /\ Top.kind = "dir" => Top \in DirTasks /\ Last(Top.path) \in Dir
<1>1. stack \in Seq(Task)
  BY DEF Grounded, TaskInv
<1>2. /\ Len(stack) \in Nat \ {0} /\ Len(stack) \in DOMAIN stack /\ Top = stack[Len(stack)] /\ Top \in Task
      /\ stack[Len(stack)] \in ToSet(stack)
  BY <1>1, BuildsPop, StackElements
<1> QED
  BY <1>2, Kinds DEF Tasks, Frames, Grounded, DescentInv

\* A path of the tree is not empty, and its front is shorter.
LEMMA PathFields ==
  ASSUME NEW p \in Path
  PROVE  /\ p \in Seq(Name) /\ Len(p) \in Nat \ {0}
         /\ Front(p) \in Seq(Name) /\ Len(Front(p)) = Len(p) - 1 /\ Front(p) # p
<1>1. PICK k \in DOMAIN Level : p \in Level[k]
  BY DEF Path
<1>2. DOMAIN Level = 0 .. Cardinality(Dir) /\ Cardinality(Dir) \in Nat
  BY LevelRule, Tree
<1>3. p \in Seq(Name) /\ Len(p) \in Nat \ {0}
  BY <1>1, <1>2, PathSeq
<1>4. Front(p) \in Seq(Name) /\ Len(Front(p)) = Len(p) - 1
  <2> DEFINE m == Len(p) - 1
  <2>1. Front(p) = SubSeq(p, 1, m) /\ m \in Nat
    BY <1>3 DEF Front
  <2>2. \A i \in 1 .. m : p[i] \in Name
    BY <1>3, ElementOfSeq
  <2> HIDE DEF m
  <2>3. Front(p) \in Seq(Name) /\ Len(Front(p)) = m
    BY <2>1, <2>2, SubSeqProperties
  <2> QED
    BY <2>3 DEF m
<1> QED
  BY <1>3, <1>4

LEMMA NewFrames ==
  ASSUME Grounded, NEW f, NewFrame(f)
  PROVE  f \in FrameTasks /\ f.next <= Len(Names(f.path))
<1>1. ASSUME OpensTop, f = FirstFrame(Top) PROVE f \in FrameTasks /\ f.next <= Len(Names(f.path))
  <2>1. Top \in DirTasks /\ Last(Top.path) \in Dir
    BY <1>1, TakenTop DEF OpensTop, Handles
  <2>2. f \in FrameTasks /\ f.next = 0 /\ f.path = Top.path
    BY <1>1, <2>1, FirstFrames
  <2>3. Top.path \in Seq(Name) /\ Len(Top.path) > 0
    BY <2>1, Kinds, PathFields
  <2>4. Len(Names(Top.path)) \in Nat
    BY <2>1, <2>3, Child
  <2> QED
    BY <2>2, <2>4
<1>2. ASSUME Resumes, f = RestoredFrame PROVE f \in FrameTasks /\ f.next <= Len(Names(f.path))
  <2>1. Top \in FrameTasks /\ Top \in Frames /\ (Reopens(Top) => Recognized(Top))
    BY <1>2, TakenTop DEF Resumes, Handles
  <2>2. Top.next <= Len(Names(Top.path))
    BY <2>1 DEF Grounded, TaskInv
  <2> QED
    BY <1>2, <2>1, <2>2, Restored
<1>3. ASSUME Stays \/ Pauses \/ Descends, f = Passed \/ f = Suspended(Passed)
      PROVE  f \in FrameTasks /\ f.next <= Len(Names(f.path))
  <2>1. frame \in FrameTasks /\ frame.next + 1 <= Len(Names(frame.path))
    <3>1. InListing
      BY <1>3 DEF Stays, Pauses, Descends, Classifies
    <3> QED
      BY <3>1, NextEntry DEF More
  <2> HIDE DEF Passed
  <2> QED
    BY <1>3, <2>1, PassedFrame, SuspendedFrame
<1> QED
  BY <1>1, <1>2, <1>3 DEF NewFrame

\* The new tasks of each kind.
LEMMA NewTasks ==
  ASSUME Grounded, NEW t, NewTask(t)
  PROVE  \/ NewFrame(t) /\ t \in FrameTasks /\ t.kind = "frame"
         \/ /\ Descends /\ frame \in FrameTasks /\ Entry \in Path
            /\ \/ t = ChildTask(Entry) /\ t \in DirTasks /\ t.kind = "dir"
               \/ ~Streaming /\ t \in RecordTasks /\ t.kind = "record"
         \/ TakesRoot /\ t \in DirTasks /\ t.kind = "dir" /\ \E i \in DOMAIN Roots : t = RootTask(Roots[i])
<1>1. ASSUME Descends PROVE frame \in FrameTasks /\ Entry \in Path
  BY <1>1, NextEntry DEF Descends, Classifies
<1>2. CASE NewFrame(t)
  BY <1>2, NewFrames, Kinds
<1>3. CASE Descends /\ (t = ChildTask(Entry) \/ (~Streaming /\ t = RecordTask(Entry)))
  BY <1>1, <1>3, ChildTasks
<1>4. CASE TakesRoot /\ \E i \in DOMAIN Roots : t = RootTask(Roots[i])
  BY <1>4, RootTasks
<1> QED
  BY <1>2, <1>3, <1>4 DEF NewTask

LEMMA Remaining ==
  ASSUME Grounded, NEW t, Remains(t)
  PROVE  /\ t \in Tasks
         /\ t.kind = "frame" => t \in Frames
         /\ t # NoFrame => t \in Task
         /\ t.kind = "record" => ~Streaming
<1>1. t \in Tasks
  <2>1. ASSUME NEW i \in DOMAIN stack, t = stack[i] PROVE t \in Tasks
    BY <2>1 DEF Tasks, ToSet
  <2> QED
    BY <2>1 DEF Remains
<1>2. t \in ToSet(stack) \/ t = frame
  BY <1>1 DEF Tasks
<1>3. \A u \in ToSet(stack) : u \in Task /\ (u.kind = "record" => ~Streaming)
  <2>1. stack \in Seq(Task)
    BY DEF Grounded, TaskInv
  <2> QED
    BY <2>1, StackElements DEF Grounded, TaskInv
<1>4. (frame = NoFrame \/ frame \in FrameTasks) /\ (frame.kind # "record")
  BY Kinds DEF Grounded, TaskInv
<1> QED
  BY <1>1, <1>2, <1>3, <1>4, Kinds DEF Frames, Task

\* Every step leaves the stack alone or builds a new one.
LEMMA NewStack ==
  ASSUME Grounded, Moves
  PROVE  /\ stack' \in Seq(Task) /\ frame' \in FrameTasks \cup {NoFrame}
         /\ frame' = NoFrame \/ frame' = frame \/ NewFrame(frame')
<1>0. stack \in Seq(Task) /\ frame \in FrameTasks \cup {NoFrame}
  BY DEF Grounded, TaskInv
<1>1. \A n, new : Builds(n, new) => stack' \in Seq(Task)
  BY DEF Builds
<1>2. stack' \in Seq(Task)
  BY <1>0, <1>1 DEF Moves, Rests, Empties, TakesRoot, Pops, OpensTop, Resumes, Leaves, Stays, Pauses, Descends
<1>3. frame' = NoFrame \/ frame' = frame \/ NewFrame(frame')
  BY DEF Moves, Rests, Empties, TakesRoot, Pops, OpensTop, Resumes, Leaves, Stays, Pauses, Descends, NewFrame
<1> QED
  BY <1>0, <1>2, <1>3, NewFrames

LEMMA TaskStep ==
  ASSUME Grounded, Moves
  PROVE  TaskInv'
<1>1. world' \in Worlds
  BY SameWorld DEF Grounded, TaskInv
<1>2. stack' \in Seq(Task) /\ frame' \in FrameTasks \cup {NoFrame}
  BY NewStack
<1>3. ASSUME NEW t \in ToSet(stack'), t.kind = "record" PROVE ~Streaming'
  <2>1. t \in Tasks' /\ t # NoFrame
    BY <1>3, Kinds DEF Tasks
  <2>2. Remains(t) \/ NewTask(t)
    BY <2>1, TasksAfter
  <2> QED
    BY <1>3, <2>2, Remaining, NewTasks, SameWorld
<1>4. ASSUME NEW f \in Frames' PROVE f.next <= Len(Names(f.path))
  <2>1. f \in Tasks' /\ f.kind = "frame" /\ f # NoFrame
    BY Kinds DEF Frames
  <2>2. CASE Remains(f)
    BY <2>1, <2>2, Remaining DEF Grounded, TaskInv
  <2>3. CASE NewTask(f)
    BY <2>1, <2>3, NewTasks, NewFrames
  <2> QED
    BY <2>1, <2>2, <2>3, TasksAfter
<1> QED
  BY <1>1, <1>2, <1>3, <1>4 DEF TaskInv

-----------------------------------------------------------------------------
(* The shape of the stack.                                                 *)

\* Tasks on top of a part of the stack keep its shape if they are deeper than the
\* listings below.
LEMMA Shapes ==
  ASSUME stack \in Seq(Task), ShapeInv, NEW n, NEW new, Builds(n, new),
         \A i \in 1 .. n : stack[i].kind = "frame" =>
           /\ \A k \in 1 .. Len(new) : Deeper(stack[i], new[k])
           /\ frame' # NoFrame => Deeper(stack[i], frame'),
         \A j, k \in 1 .. Len(new) : j < k /\ new[j].kind = "frame" => Deeper(new[j], new[k]),
         \A i \in 1 .. n : stack[i].kind = "dir" => Len(stack[i].path) = 1,
         \A k \in 1 .. Len(new) : new[k].kind = "dir" =>
           Len(new[k].path) = 1 \/ (k = Len(new) /\ frame' = NoFrame),
         frame' # NoFrame => new = <<>>
  PROVE  ShapeInv'
<1>1. /\ stack' \in Seq(Task) /\ n \in Nat /\ Len(new) \in Nat /\ n <= Len(stack) /\ Len(stack) \in Nat
      /\ DOMAIN stack' = 1 .. n + Len(new) /\ DOMAIN stack = 1 .. Len(stack) /\ Len(stack') = n + Len(new)
      /\ \A i \in DOMAIN stack' :
           \/ i \in 1 .. n /\ i \in DOMAIN stack /\ stack'[i] = stack[i]
           \/ \E k \in 1 .. Len(new) : i = n + k /\ stack'[i] = new[k]
  <2>1. Len(stack') = n + Len(new)
    BY DEF Builds
  <2> QED
    BY <2>1, Built
<1>2. ASSUME NEW i \in DOMAIN stack', NEW j \in DOMAIN stack', i < j, stack'[i].kind = "frame"
      PROVE  Deeper(stack'[i], stack'[j])
  <2>1. CASE i \in 1 .. n /\ i \in DOMAIN stack /\ stack'[i] = stack[i]
    <3>1. CASE j \in 1 .. n /\ j \in DOMAIN stack /\ stack'[j] = stack[j]
      BY <1>2, <2>1, <3>1 DEF ShapeInv
    <3>2. CASE \E k \in 1 .. Len(new) : j = n + k /\ stack'[j] = new[k]
      BY <1>2, <2>1, <3>2
    <3> QED
      BY <1>1, <3>1, <3>2
  <2>2. CASE \E k \in 1 .. Len(new) : i = n + k /\ stack'[i] = new[k]
    <3>1. PICK k \in 1 .. Len(new) : i = n + k /\ stack'[i] = new[k]
      BY <2>2
    <3>2. ~(j \in 1 .. n)
      BY <1>1, <1>2, <3>1
    <3>3. PICK l \in 1 .. Len(new) : j = n + l /\ stack'[j] = new[l]
      BY <1>1, <3>2
    <3>4. k < l
      BY <1>1, <1>2, <3>1, <3>3
    <3> QED
      BY <1>2, <3>1, <3>3, <3>4
  <2> QED
    BY <1>1, <2>1, <2>2
<1>3. ASSUME NEW i \in DOMAIN stack', stack'[i].kind = "dir"
      PROVE  Len(stack'[i].path) = 1 \/ (i = Len(stack') /\ frame' = NoFrame)
  <2>1. CASE i \in 1 .. n /\ i \in DOMAIN stack /\ stack'[i] = stack[i]
    BY <1>3, <2>1
  <2>2. CASE \E k \in 1 .. Len(new) : i = n + k /\ stack'[i] = new[k]
    <3>1. PICK k \in 1 .. Len(new) : i = n + k /\ stack'[i] = new[k]
      BY <2>2
    <3> QED
      BY <1>1, <1>3, <3>1
  <2> QED
    BY <1>1, <2>1, <2>2
<1>4. ASSUME frame' # NoFrame, NEW i \in DOMAIN stack', stack'[i].kind = "frame"
      PROVE  Deeper(stack'[i], frame')
  <2>1. Len(new) = 0
    BY <1>4, EmptySeq
  <2>2. i \in 1 .. n /\ stack'[i] = stack[i]
    BY <1>1, <2>1
  <2> QED
    BY <1>4, <2>2
<1> HIDE DEF Deeper
<1> QED
  BY <1>2, <1>3, <1>4 DEF ShapeInv

\* What is below the listing in hand, and below the top of the stack.
LEMMA Under ==
  ASSUME Grounded, ShapeInv
  PROVE  /\ frame # NoFrame => \A i \in 1 .. Len(stack) :
              /\ stack[i].kind = "frame" => Deeper(stack[i], frame)
              /\ stack[i].kind = "dir" => Len(stack[i].path) = 1
         /\ stack # <<>> => \A i \in 1 .. Len(stack) - 1 :
              /\ stack[i].kind = "frame" => Deeper(stack[i], Top)
              /\ stack[i].kind = "dir" => Len(stack[i].path) = 1
<1>1. DOMAIN stack = 1 .. Len(stack) /\ Len(stack) \in Nat
  BY StackElements DEF Grounded, TaskInv
<1>2. ASSUME stack # <<>>, NEW i \in 1 .. Len(stack) - 1
      PROVE  /\ stack[i].kind = "frame" => Deeper(stack[i], Top)
             /\ stack[i].kind = "dir" => Len(stack[i].path) = 1
  <2>1. i \in DOMAIN stack /\ Len(stack) \in DOMAIN stack /\ i < Len(stack) /\ Top = stack[Len(stack)]
    BY <1>1, <1>2, TakenTop
  <2> QED
    BY <1>1, <2>1 DEF ShapeInv
<1>3. ASSUME frame # NoFrame, NEW i \in 1 .. Len(stack)
      PROVE  /\ stack[i].kind = "frame" => Deeper(stack[i], frame)
             /\ stack[i].kind = "dir" => Len(stack[i].path) = 1
  BY <1>1, <1>3 DEF ShapeInv
<1> QED
  BY <1>2, <1>3

LEMMA ShapeStep ==
  ASSUME Grounded, ShapeInv, Moves
  PROVE  ShapeInv'
<1>0. stack \in Seq(Task) /\ Len(stack) \in Nat /\ Len(<<>>) = 0
  BY StackElements, EmptySeq DEF Grounded, TaskInv
<1>1. CASE Rests
  BY <1>1 DEF Rests, ShapeInv
<1>2. CASE Empties
  <2>1. Builds(0, <<>>)
    BY <1>2 DEF Empties
  <2> QED
    BY <1>0, <2>1, Shapes
<1>3. CASE TakesRoot
  <2>1. PICK i \in DOMAIN Roots : Builds(0, <<RootTask(Roots[i])>>)
    BY <1>3 DEF TakesRoot
  <2> DEFINE t == RootTask(Roots[i])
  <2>2. t.kind = "dir" /\ Len(t.path) = 1 /\ frame' = NoFrame
    BY <1>3, RootTasks DEF TakesRoot
  <2>3. Builds(0, <<t>>)
    BY <2>1
  <2> HIDE DEF t
  <2>4. Len(<<t>>) = 1 /\ <<t>>[1] = t
    OBVIOUS
  <2> QED
    BY <1>0, <2>2, <2>3, <2>4, Shapes
<1>4. CASE Pops
  <2>1. Builds(Len(stack) - 1, <<>>) /\ stack # <<>> /\ frame' = NoFrame
    BY <1>4 DEF Pops, Handles
  <2> QED
    BY <1>0, <2>1, Under, Shapes
<1>5. CASE OpensTop
  <2> DEFINE f == FirstFrame(Top)
  <2>1. Builds(Len(stack) - 1, <<f>>) /\ stack # <<>> /\ frame' = NoFrame
    BY <1>5 DEF OpensTop, Handles
  <2>2. f.kind = "frame" /\ f.path = Top.path
    <3>1. Top \in DirTasks /\ Last(Top.path) \in Dir
      BY <1>5, TakenTop DEF OpensTop, Handles
    <3> QED
      BY <3>1, FirstFrames
  <2> HIDE DEF f
  <2>3. \A i \in 1 .. Len(stack) - 1 : stack[i].kind = "frame" => Deeper(stack[i], f)
    BY <2>1, <2>2, Under DEF Deeper
  <2>4. Len(<<f>>) = 1 /\ <<f>>[1] = f
    OBVIOUS
  <2> QED
    BY <1>0, <2>1, <2>2, <2>3, <2>4, Under, Shapes
<1>6. CASE Resumes
  <2>1. Builds(Len(stack) - 1, <<>>) /\ stack # <<>> /\ frame' = RestoredFrame
    BY <1>6 DEF Resumes, Handles
  <2>2. RestoredFrame.path = Top.path
    <3>1. Top \in FrameTasks /\ (Reopens(Top) => Recognized(Top))
      BY <1>6, TakenTop DEF Resumes, Handles
    <3> QED
      BY <3>1, Restored
  <2>3. \A i \in 1 .. Len(stack) - 1 : stack[i].kind = "frame" => Deeper(stack[i], frame')
    BY <2>1, <2>2, Under DEF Deeper
  <2> QED
    BY <1>0, <2>1, <2>3, Under, Shapes
<1>7. CASE Leaves
  <2>1. Builds(Len(stack), <<>>) /\ frame # NoFrame /\ frame' = NoFrame
    BY <1>7 DEF Leaves
  <2> QED
    BY <1>0, <2>1, Under, Shapes
<1>8. ASSUME InListing, frame \in FrameTasks
      PROVE  /\ frame # NoFrame
             /\ \A i \in 1 .. Len(stack) : stack[i].kind = "frame" =>
                  Deeper(stack[i], Passed) /\ Deeper(stack[i], Suspended(Passed))
             /\ Passed.kind = "frame" /\ Suspended(Passed).kind = "frame"
  BY <1>8, PassedFrame, SuspendedFrame, Under DEF InListing, Deeper
<1>9. Stays \/ Pauses \/ Descends =>
        /\ InListing /\ frame \in FrameTasks /\ Entry \in Path
        /\ Len(Entry) = Len(frame.path) + 1 /\ Len(frame.path) \in Nat
  BY NextEntry DEF Stays, Pauses, Descends, Classifies
<1>10. CASE Stays
  <2>1. Builds(Len(stack), <<>>) /\ frame' = Passed
    BY <1>10 DEF Stays
  <2> QED
    BY <1>0, <1>8, <1>9, <1>10, <2>1, Under, Shapes
<1>11. CASE Pauses
  <2> DEFINE f == Passed
  <2>1. Builds(Len(stack), <<f>>) /\ frame' = NoFrame
    BY <1>11 DEF Pauses
  <2>2. f.kind = "frame" /\ \A i \in 1 .. Len(stack) : stack[i].kind = "frame" => Deeper(stack[i], f)
    BY <1>8, <1>9, <1>11
  <2> HIDE DEF f
  <2>3. Len(<<f>>) = 1 /\ <<f>>[1] = f
    OBVIOUS
  <2> QED
    BY <1>0, <1>8, <1>9, <1>11, <2>1, <2>2, <2>3, Under, Shapes
<1>12. CASE Descends
  <2> DEFINE f == Suspended(Passed)
             c == ChildTask(Entry)
             r == RecordTask(Entry)
  <2>1. frame' = NoFrame /\ (Builds(Len(stack), <<f, c>>) \/ Builds(Len(stack), <<f, r, c>>))
    BY <1>12 DEF Descends
  <2>2. f.kind = "frame" /\ \A i \in 1 .. Len(stack) : stack[i].kind = "frame" => Deeper(stack[i], f)
    BY <1>8, <1>9, <1>12
  <2>3. c.kind = "dir" /\ r.kind = "record" /\ c.path = Entry /\ r.path = Entry /\ f.path = frame.path
    BY <1>9, <1>12, ChildTasks, SuspendedFrame
  <2> HIDE DEF f, c, r
  <2>4. Deeper(f, c) /\ Deeper(f, r)
    BY <1>9, <1>12, <2>3 DEF Deeper
  <2>5. \A i \in 1 .. Len(stack) : stack[i].kind = "frame" => Deeper(stack[i], c) /\ Deeper(stack[i], r)
    <3>1. ASSUME NEW i \in 1 .. Len(stack), stack[i].kind = "frame" PROVE Len(stack[i].path) \in Nat
      BY <1>0, <3>1, StackElements, Kinds, PathFields
    <3> QED
      BY <1>9, <1>12, <2>2, <2>3, <3>1 DEF Deeper
  <2>6. CASE Builds(Len(stack), <<f, c>>)
    <3> DEFINE new == <<f, c>>
    <3>1. Len(new) = 2 /\ new[1] = f /\ new[2] = c
      OBVIOUS
    <3>2. Builds(Len(stack), new)
      BY <2>6
    <3> HIDE DEF new
    <3>3. \A k \in 1 .. Len(new) : (k = 1 /\ new[k] = f) \/ (k = 2 /\ new[k] = c)
      BY <3>1
    <3>4. \A j, k \in 1 .. Len(new) : j < k /\ new[j].kind = "frame" => Deeper(new[j], new[k])
      BY <2>3, <2>4, <3>3
    <3> QED
      BY <1>0, <1>8, <1>9, <1>12, <2>1, <2>2, <2>3, <2>5, <3>1, <3>2, <3>3, <3>4, Under, Shapes
  <2>7. CASE Builds(Len(stack), <<f, r, c>>)
    <3> DEFINE new == <<f, r, c>>
    <3>1. Len(new) = 3 /\ new[1] = f /\ new[2] = r /\ new[3] = c
      OBVIOUS
    <3>2. Builds(Len(stack), new)
      BY <2>7
    <3> HIDE DEF new
    <3>3. \A k \in 1 .. Len(new) : (k = 1 /\ new[k] = f) \/ (k = 2 /\ new[k] = r) \/ (k = 3 /\ new[k] = c)
      BY <3>1
    <3>4. \A j, k \in 1 .. Len(new) : j < k /\ new[j].kind = "frame" => Deeper(new[j], new[k])
      BY <2>3, <2>4, <3>3
    <3>5. \A k \in 1 .. Len(new) : new[k].kind = "dir" => k = Len(new) /\ frame' = NoFrame
      BY <2>1, <2>2, <2>3, <3>1, <3>3
    <3>6. \A i \in 1 .. Len(stack) : stack[i].kind = "frame" => \A k \in 1 .. Len(new) : Deeper(stack[i], new[k])
      BY <2>2, <2>5, <3>3
    <3>7. \A i \in 1 .. Len(stack) : stack[i].kind = "dir" => Len(stack[i].path) = 1
      BY <1>8, <1>9, <1>12, Under
    <3> QED
      BY <1>0, <2>1, <3>2, <3>4, <3>5, <3>6, <3>7, Shapes
  <2> QED
    BY <2>1, <2>6, <2>7
<1> QED
  BY <1>1, <1>2, <1>3, <1>4, <1>5, <1>6, <1>7, <1>10, <1>11, <1>12 DEF Moves

-----------------------------------------------------------------------------
(* Descents.                                                               *)

DirFollows(t) ==
  /\ Follows(t, Len(t.path) - 1) /\ Last(t.path) \in Dir
  /\ ~world.follow => Trail(t.path, Len(t.path))

\* A path goes through one more directory than its front.
LEMMA TrailOn ==
  ASSUME NEW p \in Seq(Name), Len(p) > 0, NEW n, n = Len(p) - 1, Trail(p, n), Last(p) \in Dir
  PROVE  /\ Key(p) \notin Keys(p, n) => Trail(p, Len(p))
         /\ Keys(p, Len(p)) = Keys(p, n) \cup {Key(p)}
<1>1. Len(p) \in Nat /\ n \in Nat /\ Last(p) = p[Len(p)] /\ Key(p) = Target[p[Len(p)]]
  BY LenProperties DEF Last, Key
<1>2. \A i \in 1 .. Len(p) : i \in 1 .. n \/ i = Len(p)
  BY <1>1
<1>3. ASSUME Key(p) \notin Keys(p, n) PROVE Trail(p, Len(p))
  <2>1. \A i \in 1 .. n : Target[p[i]] # Target[p[Len(p)]]
    BY <1>1, <1>3 DEF Keys
  <2>2. \A i \in 1 .. Len(p) : p[i] \in Dir
    BY <1>1, <1>2 DEF Trail
  <2>3. \A i, j \in 1 .. Len(p) : Target[p[i]] = Target[p[j]] => i = j
    BY <1>2, <2>1 DEF Trail
  <2> QED
    BY <2>2, <2>3 DEF Trail
<1>4. Keys(p, Len(p)) = Keys(p, n) \cup {Key(p)}
  <2>1. 1 .. Len(p) = (1 .. n) \cup {Len(p)}
    BY <1>1
  <2> QED
    BY <1>1, <2>1 DEF Keys
<1> QED
  BY <1>3, <1>4

\* A directory is entered when its descent has not been there.
LEMMA Entering ==
  ASSUME Grounded, OpensTop
  PROVE  Follows(FirstFrame(Top), Len(FirstFrame(Top).path))
<1> DEFINE f == FirstFrame(Top)
           p == Top.path
<1>1. /\ Len(stack) \in DOMAIN stack /\ Top = stack[Len(stack)] /\ Top \in DirTasks /\ Last(p) \in Dir
      /\ Top.kind = "dir" /\ ~Closes(Top) /\ ~OpenFails(Top)
  BY TakenTop DEF OpensTop, Handles
<1>2. f.path = p /\ f.chain = Entered(Top)
  BY <1>1, FirstFrames
<1>3. DirFollows(Top)
  BY <1>1 DEF Grounded, DescentInv, DirFollows
<1>4. p \in Seq(Name) /\ Len(p) > 0
  BY <1>1, Kinds, PathFields
<1> DEFINE n == Len(p) - 1
<1>5. n \in DOMAIN Level /\ p \in Level[n] /\ Trail(p, n) /\ (world.follow => Top.chain = Keys(p, n))
  BY <1>3 DEF DirFollows, Follows
<1>6. CASE world.follow
  <2>1. Key(p) \notin Top.chain /\ Entered(Top) = Top.chain \cup {Key(p)}
    BY <1>1, <1>6 DEF Closes, OpenFails, Entered
  <2>2. n = Len(p) - 1
    OBVIOUS
  <2> HIDE DEF n
  <2>3. Trail(p, Len(p)) /\ Entered(Top) = Keys(p, Len(p))
    BY <1>1, <1>4, <1>5, <1>6, <2>1, <2>2, TrailOn
  <2> QED
    BY <1>2, <1>5, <2>2, <2>3 DEF Follows
<1>7. CASE ~world.follow
  <2>1. Trail(p, Len(p))
    BY <1>3, <1>7 DEF DirFollows
  <2> QED
    BY <1>2, <1>5, <1>7, <2>1 DEF Follows
<1> QED
  BY <1>6, <1>7

LEMMA ChildFollows ==
  ASSUME Grounded, Descends
  PROVE  DirFollows(ChildTask(Entry))
<1> DEFINE c == ChildTask(Entry)
           n == Len(frame.path)
<1>1. InListing /\ Action \in {"descend", "both", "failDescend"} /\ world \in Worlds
  BY DEF Descends, Classifies, Grounded, TaskInv
<1>2. /\ frame \in FrameTasks /\ Entry \in Path /\ Entry \in Seq(Name) /\ Len(Entry) = n + 1 /\ n \in Nat
      /\ n \in DOMAIN Level /\ Entry \in Level[n] /\ Follows(frame, n)
      /\ \A i \in 1 .. n : Entry[i] = frame.path[i]
  BY <1>1, NextEntry
<1>3. c.path = Entry /\ c.chain = frame.chain
  BY <1>2, ChildTasks
<1>4. Last(Entry) \in Dir /\ (world.follow \/ ~Closed(Entry))
  BY <1>1, <1>2, WorldFields DEF Action
<1>5. Trail(frame.path, n) /\ (world.follow => frame.chain = Keys(frame.path, n))
  BY <1>2 DEF Follows
<1>6. Trail(Entry, n) /\ Keys(Entry, n) = Keys(frame.path, n)
  <2> HIDE DEF Entry, n
  <2> QED
    BY <1>2, <1>5 DEF Trail, Keys
<1>7. n = Len(Entry) - 1 /\ Len(Entry) > 0
  BY <1>2
<1>8. Follows(c, Len(c.path) - 1)
  BY <1>2, <1>3, <1>5, <1>6, <1>7 DEF Follows
<1>9. ASSUME ~world.follow PROVE Trail(Entry, Len(Entry))
  <2>1. Key(Entry) \notin Keys(Entry, n)
    BY <1>4, <1>7, <1>9 DEF Closed, Keys
  <2> HIDE DEF Entry, n
  <2> QED
    BY <1>2, <1>4, <1>6, <1>7, <2>1, TrailOn
<1> QED
  BY <1>3, <1>4, <1>8, <1>9 DEF DirFollows

LEMMA RootFollows ==
  ASSUME NEW i \in DOMAIN Roots
  PROVE  DirFollows(RootTask(Roots[i]))
<1> DEFINE t == RootTask(Roots[i])
<1>1. /\ t.chain = {} /\ 0 \in DOMAIN Level /\ t.path \in Level[0] /\ Len(t.path) = 1
      /\ t.path[1] \in Dir /\ Last(t.path) \in Dir
  BY RootTasks
<1> HIDE DEF t
<1>2. Trail(t.path, 0) /\ Trail(t.path, 1) /\ Keys(t.path, 0) = {}
  <2>1. \A k : k \in 1 .. 1 => k = 1
    OBVIOUS
  <2>2. \A k : k \notin 1 .. 0
    OBVIOUS
  <2> QED
    BY <1>1, <2>1, <2>2 DEF Trail, Keys
<1> QED
  BY <1>1, <1>2 DEF DirFollows, Follows, t

LEMMA DescentStep ==
  ASSUME Grounded, Moves
  PROVE  DescentInv'
<1>1. world' = world /\ stack' \in Seq(Task)
  BY SameWorld, NewStack
<1>2. ASSUME NEW f \in Frames' PROVE Follows(f, Len(f.path))
  <2>1. f \in Tasks' /\ f.kind = "frame" /\ f # NoFrame
    BY Kinds DEF Frames
  <2>2. CASE Remains(f)
    BY <2>1, <2>2, Remaining DEF Grounded, DescentInv
  <2>3. CASE NewTask(f)
    <3>1. NewFrame(f)
      BY <2>1, <2>3, NewTasks
    <3>2. CASE OpensTop /\ f = FirstFrame(Top)
      BY <3>2, Entering
    <3>3. CASE Resumes /\ f = RestoredFrame
      <4>1. Top \in FrameTasks /\ Top \in Frames /\ (Reopens(Top) => Recognized(Top))
        BY <3>3, TakenTop DEF Resumes, Handles
      <4>2. f.path = Top.path /\ f.chain = Top.chain /\ Follows(Top, Len(Top.path))
        BY <3>3, <4>1, Restored DEF Grounded, DescentInv
      <4> QED
        BY <4>2 DEF Follows
    <3>4. CASE (Stays \/ Pauses \/ Descends) /\ (f = Passed \/ f = Suspended(Passed))
      <4>1. frame \in FrameTasks /\ Follows(frame, Len(frame.path))
        BY <3>4, NextEntry DEF Stays, Pauses, Descends, Classifies
      <4>2. f.path = frame.path /\ f.chain = frame.chain
        BY <3>4, <4>1, PassedFrame, SuspendedFrame
      <4> QED
        BY <4>1, <4>2 DEF Follows
    <3> QED
      BY <3>1, <3>2, <3>3, <3>4 DEF NewFrame
  <2> QED
    BY <2>1, <2>2, <2>3, TasksAfter
<1>3. ASSUME NEW t \in ToSet(stack'), t.kind = "dir" PROVE DirFollows(t)
  <2>1. t \in Tasks' /\ t.kind = "dir" /\ t # NoFrame
    BY <1>3, Kinds DEF Tasks
  <2>2. CASE Remains(t)
    <3>1. t \in Tasks
      BY <2>2, Remaining
    <3>2. t # frame
      BY <2>1, Kinds DEF Grounded, TaskInv
    <3>3. PICK j \in DOMAIN stack : t = stack[j]
      BY <3>1, <3>2 DEF Tasks, ToSet
    <3> QED
      BY <2>1, <3>3 DEF Grounded, DescentInv, DirFollows
  <2>3. CASE NewTask(t)
    BY <2>1, <2>3, NewTasks, ChildFollows, RootFollows
  <2> QED
    BY <2>1, <2>2, <2>3, TasksAfter
<1>4. \A f \in Frames' : Follows(f, Len(f.path))'
  BY <1>1, <1>2 DEF Follows
<1>5. \A i \in DOMAIN stack' : stack'[i].kind = "dir" =>
        /\ Follows(stack[i], Len(stack[i].path) - 1)' /\ Last(stack'[i].path) \in Dir
        /\ ~world'.follow => Trail(stack'[i].path, Len(stack'[i].path))
  <2>1. \A i \in DOMAIN stack' : stack'[i] \in ToSet(stack')
    BY DEF ToSet
  <2> QED
    BY <1>1, <1>3, <2>1 DEF Follows, DirFollows
<1> QED
  BY <1>4, <1>5 DEF DescentInv

-----------------------------------------------------------------------------
(* Descriptors and the directories they reach.                             *)

\* The same listing a step later.
Twin(f, g) == f.kind = "frame" /\ g.kind = "frame" /\ f.path = g.path /\ f.held = g.held /\ f.inode = g.inode

LEMMA Twins ==
  ASSUME NEW f, NEW g, Twin(f, g), NEW u
  PROVE  (Linked(g, u) => Linked(f, u)) /\ (Linked(u, g) => Linked(u, f))
BY DEF Twin, Linked

LEMMA NewTwins ==
  ASSUME Grounded, NEW f, NewFrame(f)
  PROVE  \/ OpensTop /\ f = FirstFrame(Top)
         \/ \E g \in Frames : Twin(f, g)
<1>1. ASSUME Resumes, f = RestoredFrame PROVE Top \in Frames /\ Twin(f, Top)
  <2>1. Top \in FrameTasks /\ Top \in Frames /\ Top.kind = "frame" /\ (Reopens(Top) => Recognized(Top))
    BY <1>1, TakenTop DEF Resumes, Handles
  <2> QED
    BY <1>1, <2>1, Restored DEF Twin
<1>2. ASSUME Stays \/ Pauses \/ Descends, f = Passed \/ f = Suspended(Passed)
      PROVE  frame \in Frames /\ Twin(f, frame)
  <2>1. frame \in FrameTasks /\ frame \in Frames /\ frame.kind = "frame"
    BY <1>2, NextEntry, Kinds DEF Stays, Pauses, Descends, Classifies
  <2> HIDE DEF Passed
  <2> QED
    BY <1>2, <2>1, PassedFrame, SuspendedFrame DEF Twin
<1> QED
  BY <1>1, <1>2 DEF NewFrame

LEMMA FrameMoves ==
  ASSUME Moves
  PROVE  \/ frame' = NoFrame \/ frame' = frame
         \/ Resumes /\ frame' = RestoredFrame
         \/ Stays /\ frame' = Passed
BY DEF Moves, Rests, Empties, TakesRoot, Pops, OpensTop, Resumes, Leaves, Stays, Pauses, Descends

LEMMA TrueFrames ==
  ASSUME Grounded, LinkInv, NEW f, NewFrame(f)
  PROVE  FrameTrue(f)
<1>1. ASSUME OpensTop, f = FirstFrame(Top) PROVE FrameTrue(f)
  <2>1. Top \in DirTasks /\ Last(Top.path) \in Dir
    BY <1>1, TakenTop DEF OpensTop, Handles
  <2> QED
    BY <1>1, <2>1, FirstFrames, FdFields DEF FrameTrue
<1>2. ASSUME Resumes, f = RestoredFrame PROVE FrameTrue(f)
  <2>1. Top \in FrameTasks /\ Top \in Frames /\ (Reopens(Top) => Recognized(Top)) /\ FrameTrue(Top)
    BY <1>2, TakenTop DEF Resumes, Handles, LinkInv
  <2>2. More(f) <=> More(Top)
    BY <1>2, <2>1, Restored DEF More
  <2> QED
    BY <1>2, <2>1, <2>2, Restored DEF FrameTrue, Reopens, More
<1>3. ASSUME Stays \/ Pauses \/ Descends
      PROVE  frame \in FrameTasks /\ FrameTrue(frame) /\ frame.awaited = "none" /\ More(frame)
  BY <1>3, NextEntry DEF Stays, Pauses, Descends, Classifies, LinkInv
<1>4. ASSUME Stays \/ Pauses \/ Descends, f = Passed PROVE FrameTrue(f)
  BY <1>3, <1>4, PassedFrame DEF FrameTrue
<1>5. ASSUME Stays \/ Pauses \/ Descends, f = Suspended(Passed) PROVE FrameTrue(f)
  <2> DEFINE g == Suspended(Passed)
  <2>1. /\ frame \in FrameTasks /\ FrameTrue(frame) /\ frame.awaited = "none" /\ More(frame)
        /\ g.inode = frame.inode /\ g.held = frame.held
        /\ \/ g.fd = frame.fd /\ g.awaited = frame.awaited
           \/ g.fd = NoFd /\ HasFd(frame.fd) /\ g.awaited = frame.fd.inode
    BY <1>3, <1>5, SuspendedFrame
  <2>2. frame.inode \in Inodes
    BY <2>1, Kinds
  <2> HIDE DEF g
  <2>3. FrameTrue(g)
    BY <2>1, <2>2, FdFields DEF FrameTrue, Inodes
  <2> QED
    BY <1>5, <2>3 DEF g
<1> QED
  BY <1>1, <1>2, <1>4, <1>5 DEF NewFrame

\* A listing other than the one in hand is of another directory path.
LEMMA OtherPaths ==
  ASSUME Grounded, ShapeInv, frame # NoFrame, NEW f \in Frames, f.path = frame.path
  PROVE  f = frame
<1>1. ASSUME f # frame PROVE FALSE
  <2>1. f \in ToSet(stack) /\ f.kind = "frame" /\ stack \in Seq(Task)
    BY <1>1 DEF Frames, Tasks, Grounded, TaskInv
  <2>2. PICK i \in 1 .. Len(stack) : f = stack[i]
    BY <2>1, StackElements
  <2>3. Deeper(f, frame)
    BY <2>1, <2>2, Under
  <2>4. Len(frame.path) \in Nat
    BY FrameInHand, Kinds, PathFields DEF Grounded
  <2> QED
    BY <2>3, <2>4 DEF Deeper
<1> QED
  BY <1>1

\* When a directory is opened, all that stays is above it.
LEMMA OpensAlone ==
  ASSUME Grounded, ShapeInv, OpensTop, Moves, NEW t \in Tasks', t.kind \in {"dir", "frame"}, t # FirstFrame(Top)
  PROVE  Len(t.path) \in Nat \ {0} /\ Len(t.path) <= Len(Top.path) /\ t.path \in Path
<1>1. /\ stack # <<>> /\ frame = NoFrame /\ Top.kind = "dir" /\ Builds(Len(stack) - 1, <<FirstFrame(Top)>>) /\ Handles
  BY DEF OpensTop, Handles
<1>2. /\ Len(stack) \in Nat \ {0} /\ Top = stack[Len(stack)] /\ Top \in DirTasks /\ Last(Top.path) \in Dir
      /\ stack \in Seq(Task)
  BY <1>1, TakenTop DEF Grounded, TaskInv
<1>3. FirstFrame(Top).kind = "frame"
  BY <1>2, FirstFrames
<1>4. stack'[Len(stack)] = FirstFrame(Top) /\ Len(stack') = Len(stack)
  <2> DEFINE f == FirstFrame(Top)
  <2>1. Len(<<f>>) = 1 /\ <<f>>[1] = f
    OBVIOUS
  <2>2. Builds(Len(stack) - 1, <<f>>)
    BY <1>1
  <2>3. stack'[Len(stack) - 1 + 1] = f /\ Len(stack') = Len(stack) - 1 + 1
    <3> HIDE DEF f
    <3> QED
      BY <2>1, <2>2 DEF Builds
  <2> QED
    BY <1>2, <2>3
<1>5. ~Rests /\ ~Empties
  <2>1. ~Rests
    BY <1>1, <1>2, <1>3, <1>4 DEF Rests
  <2>2. ~Empties
    <3>1. Len(<<>>) = 0
      BY EmptySeq
    <3> QED
      BY <1>2, <1>4, <3>1 DEF Empties, Builds
  <2> QED
    BY <2>1, <2>2
<1>6. ~NewTask(t)
  BY <1>1 DEF NewTask, NewFrame, Resumes, Stays, Pauses, Descends, Classifies, InListing, TakesRoot
<1>7. t # NoFrame
  BY Kinds
<1>8. PICK i \in DOMAIN stack : t = stack[i] /\ i < Len(stack)
  BY <1>1, <1>5, <1>6, <1>7, TasksAfter DEF Remains
<1>9. i \in 1 .. Len(stack) - 1 /\ t \in Task
  BY <1>2, <1>8, StackElements
<1>10. t.path \in Path /\ Len(t.path) \in Nat \ {0} /\ Len(Top.path) \in Nat \ {0}
  BY <1>2, <1>9, Kinds, PathFields
<1>11. CASE t.kind = "frame"
  BY <1>1, <1>8, <1>9, <1>10, <1>11, Under DEF Deeper
<1>12. CASE t.kind = "dir"
  <2>1. stack[i].kind = "dir" => Len(stack[i].path) = 1
    BY <1>1, <1>9, Under
  <2>2. Len(t.path) = 1
    BY <1>8, <1>12, <2>1
  <2>3. \A m, n : m \in Nat \ {0} /\ n \in Nat \ {0} /\ m = 1 => m <= n
    OBVIOUS
  <2> QED
    BY <1>10, <2>2, <2>3
<1> QED
  BY <1>10, <1>11, <1>12

LEMMA LinkStep ==
  ASSUME Grounded, ShapeInv, LinkInv, Moves
  PROVE  LinkInv'
<1>1. ASSUME NEW f \in Frames' PROVE FrameTrue(f) /\ f.path \in Path /\ (f \in Frames \/ NewFrame(f))
  <2>1. f \in Tasks' /\ f.kind = "frame" /\ f # NoFrame
    BY Kinds DEF Frames
  <2>2. CASE Remains(f)
    <3>1. f \in Frames /\ f \in Task
      BY <2>1, <2>2, Remaining
    <3> QED
      BY <3>1, Kinds DEF LinkInv
  <2>3. CASE NewTask(f)
    BY <2>1, <2>3, NewTasks, TrueFrames, Kinds
  <2> QED
    BY <2>1, <2>2, <2>3, TasksAfter
<1>2. ASSUME frame' # NoFrame PROVE frame'.awaited = "none"
  <2>1. CASE frame' = frame
    BY <1>2, <2>1 DEF LinkInv
  <2>2. CASE Resumes /\ frame' = RestoredFrame
    <3>1. Top \in FrameTasks /\ (Reopens(Top) => Recognized(Top))
      BY <2>2, TakenTop DEF Resumes, Handles
    <3> QED
      BY <2>2, <3>1, Restored
  <2>3. CASE Stays /\ frame' = Passed
    <3>1. frame \in FrameTasks /\ frame # NoFrame
      BY <2>3, NextEntry DEF Stays, Classifies
    <3> QED
      BY <2>3, <3>1, PassedFrame DEF LinkInv
  <2> QED
    BY <1>2, <2>1, <2>2, <2>3, FrameMoves
<1>3. ASSUME NEW p \in Frames', NEW t \in Tasks', t.kind \in {"dir", "frame"} PROVE Linked(p, t)
  <2>0. t # NoFrame /\ p \in Tasks' /\ p.kind = "frame" /\ p.path \in Path
    BY <1>1, <1>3, Kinds DEF Frames
  <2>1. CASE OpensTop /\ p = FirstFrame(Top)
    <3>1. Top \in DirTasks /\ Last(Top.path) \in Dir
      BY <2>1, TakenTop DEF OpensTop, Handles
    <3>2. p.path = Top.path
      BY <2>1, <3>1, FirstFrames
    <3>3. p.path # Front(t.path)
      <4>1. CASE t = p
        BY <2>0, <4>1, PathFields
      <4>2. CASE t # p
        <5>1. Len(t.path) \in Nat \ {0} /\ Len(t.path) <= Len(p.path) /\ t.path \in Path
          BY <1>3, <2>1, <3>2, <4>2, OpensAlone
        <5>2. Len(Front(t.path)) = Len(t.path) - 1
          BY <5>1, PathFields
        <5> QED
          BY <5>1, <5>2
      <4> QED
        BY <4>1, <4>2
    <3> QED
      BY <3>3 DEF Linked
  <2>2. ASSUME NEW g \in Frames, Twin(p, g) PROVE Linked(p, t)
    <3>1. ASSUME NEW u \in Tasks, u.kind \in {"dir", "frame"} PROVE Linked(g, u)
      BY <3>1 DEF LinkInv
    <3>2. CASE Remains(t)
      BY <1>3, <2>2, <3>1, <3>2, Remaining, Twins
    <3>3. CASE OpensTop /\ t = FirstFrame(Top)
      <4>1. Top \in DirTasks /\ Top \in Tasks /\ Last(Top.path) \in Dir /\ Top.kind = "dir"
        BY <3>3, TakenTop DEF OpensTop, Handles
      <4>2. t.path = Top.path /\ t.kind = "frame" /\ t.inode = OpenInode(Top)
        BY <3>3, <4>1, FirstFrames
      <4>3. Linked(g, Top)
        BY <3>1, <4>1
      <4>4. Linked(g, t)
        BY <4>1, <4>2, <4>3 DEF Linked, OpenInode
      <4> QED
        BY <2>2, <4>4, Twins
    <3>4. CASE NewFrame(t) /\ \E h \in Frames : Twin(t, h)
      <4>1. PICK h \in Frames : Twin(t, h)
        BY <3>4
      <4>2. Linked(g, h)
        BY <3>1 DEF Frames
      <4> QED
        BY <2>2, <4>1, <4>2, Twins
    <3>5. CASE Descends /\ t = ChildTask(Entry)
      <4>1. /\ frame \in FrameTasks /\ frame \in Frames /\ frame # NoFrame /\ Entry \in Path
            /\ Front(Entry) = frame.path /\ More(frame)
        BY <3>5, NextEntry DEF Descends, Classifies
      <4>2. t.kind = "dir" /\ t.path = Entry /\ t.open = IF world.relative THEN frame.fd ELSE NoFd
        BY <3>5, <4>1, ChildTasks
      <4>3. g.path = frame.path => g = frame
        BY <4>1, OtherPaths
      <4>4. FrameTrue(frame) /\ frame.awaited = "none"
        BY <4>1 DEF LinkInv
      <4>5. frame.held => HasFd(frame.fd) /\ frame.fd.inode = frame.inode
        BY <4>1, <4>4 DEF FrameTrue
      <4> HIDE DEF Entry
      <4>6. Linked(g, t)
        BY <4>1, <4>2, <4>3, <4>5 DEF Linked
      <4> QED
        BY <2>2, <4>6, Twins
    <3>6. CASE \E i \in DOMAIN Roots : t = RootTask(Roots[i])
      <4>1. Len(t.path) = 1 /\ t.path \in Path
        BY <3>6, RootTasks, Kinds
      <4>2. Len(Front(t.path)) = 0 /\ Len(p.path) \in Nat \ {0}
        BY <2>0, <4>1, PathFields
      <4> QED
        BY <4>2 DEF Linked
    <3>7. Remains(t) \/ NewTask(t)
      BY <2>0, TasksAfter
    <3>8. CASE NewFrame(t)
      BY <3>3, <3>4, <3>8, NewTwins
    <3> QED
      BY <1>3, <3>2, <3>5, <3>6, <3>7, <3>8, NewTasks
  <2>3. p \in Frames => Twin(p, p)
    BY <2>0 DEF Twin
  <2> QED
    BY <1>1, <2>1, <2>2, <2>3, NewTwins
<1>4. ASSUME NEW p, NEW t PROVE Linked(p, t) => Linked(p, t)'
  BY SameWorld DEF Linked
<1> QED
  BY <1>1, <1>2, <1>3, <1>4 DEF LinkInv, FrameTrue, More

-----------------------------------------------------------------------------
(* The budget.                                                             *)

Budgeted(tasks) == {fd \in {FdOf(t) : t \in tasks} : fd.permit = "budgeted"}

LEMMA FdKinds ==
  /\ \A t \in DirTasks : FdOf(t) = t.open
  /\ \A t \in RecordTasks : FdOf(t) = NoFd
  /\ \A t \in FrameTasks : FdOf(t) = t.fd
  /\ FdOf(NoFrame) = NoFd
  /\ \A t \in Task \cup {NoFrame} : FdOf(t) \in Fds
<1>1. FdOf(NoFrame) = NoFd
  BY DEF FdOf, NoFrame
<1>2. \A t \in DirTasks : FdOf(t) = t.open
  BY Kinds DEF FdOf
<1>3. \A t \in RecordTasks : FdOf(t) = NoFd
  BY Kinds DEF FdOf
<1>4. \A t \in FrameTasks : FdOf(t) = t.fd
  BY Kinds DEF FdOf
<1> QED
  BY <1>1, <1>2, <1>3, <1>4, Kinds, FdFields DEF Task

\* Descriptors belong to tasks.
Of(T) ==
  ({f.fd : f \in {t \in T : t.kind = "frame"}} \cup {t.open : t \in {u \in T : u.kind = "dir"}}) \ {NoFd}

LEMMA DescriptorsOf ==
  ASSUME NEW T, T \subseteq Task \cup {NoFrame}
  PROVE  /\ \A fd : fd \in Of(T) <=> fd # NoFd /\ \E t \in T : fd = FdOf(t)
         /\ {fd \in Of(T) : fd.permit = "budgeted"} = Budgeted(T)
<1>1. \A t \in T : \/ t.kind = "frame" /\ FdOf(t) = t.fd
                   \/ t.kind = "dir" /\ FdOf(t) = t.open
                   \/ t.kind \notin {"frame", "dir"} /\ FdOf(t) = NoFd
  BY FdKinds, Kinds DEF Task
<1> HIDE DEF FdOf
<1>2. \A fd : fd \in Of(T) <=> fd # NoFd /\ \E t \in T : fd = FdOf(t)
  BY <1>1 DEF Of
<1>3. \A fd : fd \in Budgeted(T) <=> fd.permit = "budgeted" /\ \E t \in T : fd = FdOf(t)
  BY DEF Budgeted
<1>4. NoFd.permit # "budgeted"
  BY FdFields
<1> HIDE DEF NoFd
<1> QED
  BY <1>2, <1>3, <1>4

LEMMA TaskSet ==
  /\ TaskInv => Tasks \subseteq Task \cup {NoFrame}
  /\ TaskInv' => Tasks' \subseteq Task \cup {NoFrame}
  /\ Descriptors = Of(Tasks) /\ Descriptors' = Of(Tasks')
<1>1. ASSUME NEW s \in Seq(Task) PROVE \A t \in ToSet(s) : t \in Task
  BY StackElements
<1>2. FrameTasks \subseteq Task
  BY DEF Task
<1>3. TaskInv => Tasks \subseteq Task \cup {NoFrame}
  BY <1>1, <1>2 DEF TaskInv, Tasks
<1>4. TaskInv' => Tasks' \subseteq Task \cup {NoFrame}
  BY <1>1, <1>2 DEF TaskInv, Tasks
<1>5. Descriptors = Of(Tasks)
  BY DEF Descriptors, Frames, Of
<1>6. Descriptors' = Of(Tasks')
  BY DEF Descriptors, Frames, Of
<1> QED
  BY <1>3, <1>4, <1>5, <1>6

LEMMA Used ==
  /\ TaskInv => InUse = others + Cardinality(Budgeted(Tasks))
  /\ TaskInv' => InUse' = others' + Cardinality(Budgeted(Tasks'))
<1>1. TaskInv => {fd \in Descriptors : fd.permit = "budgeted"} = Budgeted(Tasks)
  BY TaskSet, DescriptorsOf
<1>2. TaskInv' => {fd \in Descriptors' : fd.permit = "budgeted"} = Budgeted(Tasks')
  BY TaskSet, DescriptorsOf
<1> QED
  BY <1>1, <1>2 DEF InUse

LEMMA BudgetedFinite ==
  ASSUME TaskInv
  PROVE  IsFiniteSet(Budgeted(Tasks)) /\ Cardinality(Budgeted(Tasks)) \in Nat
<1> DEFINE at == [i \in 0 .. Len(stack) |-> IF i = 0 THEN FdOf(frame) ELSE FdOf(stack[i])]
           All == {FdOf(t) : t \in Tasks}
<1>1. stack \in Seq(Task) /\ Len(stack) \in Nat
  BY StackElements DEF TaskInv
<1>2. at \in Surjection(0 .. Len(stack), All)
  <2>1. \A t \in Tasks : t = frame \/ \E i \in 1 .. Len(stack) : t = stack[i]
    BY <1>1, StackElements DEF Tasks
  <2>2. frame \in Tasks /\ \A i \in 1 .. Len(stack) : stack[i] \in Tasks
    BY <1>1, StackElements DEF Tasks
  <2> HIDE DEF FdOf, Tasks
  <2>3. \A i \in 0 .. Len(stack) : at[i] \in All
    BY <1>1, <2>2
  <2>4. \A fd \in All : \E i \in 0 .. Len(stack) : at[i] = fd
    <3>1. ASSUME NEW t \in Tasks PROVE \E i \in 0 .. Len(stack) : at[i] = FdOf(t)
      <4>1. CASE t = frame
        <5>1. 0 \in 0 .. Len(stack) /\ at[0] = FdOf(t)
          BY <1>1, <4>1
        <5> QED
          BY <5>1
      <4>2. CASE \E i \in 1 .. Len(stack) : t = stack[i]
        <5>1. PICK i \in 1 .. Len(stack) : t = stack[i]
          BY <4>2
        <5>2. i \in 0 .. Len(stack) /\ i # 0
          BY <1>1, <5>1
        <5> QED
          BY <5>1, <5>2
      <4> QED
        BY <2>1, <4>1, <4>2
    <3> HIDE DEF at
    <3> QED
      BY <3>1
  <2>5. at \in [0 .. Len(stack) -> All]
    BY <2>3
  <2> HIDE DEF at, All
  <2> QED
    BY <2>4, <2>5 DEF Surjection
<1>3. IsFiniteSet(All)
  <2>1. IsFiniteSet(0 .. Len(stack))
    BY <1>1, FS_Interval
  <2> HIDE DEF at, All
  <2> QED
    BY <1>2, <2>1, FS_Surjection
<1>4. Budgeted(Tasks) \in SUBSET All
  BY DEF Budgeted
<1> HIDE DEF All
<1> QED
  BY <1>3, <1>4, FS_Subset, FS_CardinalityType

\* The descriptor of a new task is another's, or a permit was left for it.
LEMMA NewFds ==
  ASSUME Grounded, NEW t, NewTask(t), FdOf(t).permit = "budgeted"
  PROVE  \/ \E u \in Tasks : FdOf(t) = FdOf(u)
         \/ InUse < Limit /\ OpensTop /\ t = FirstFrame(Top)
         \/ InUse < Limit /\ Resumes /\ t = RestoredFrame
<1>0. NoFd.permit # "budgeted"
  BY FdFields
<1>1. ASSUME OpensTop, t = FirstFrame(Top) PROVE InUse < Limit
  <2>1. Top \in DirTasks /\ Last(Top.path) \in Dir
    BY <1>1, TakenTop DEF OpensTop, Handles
  <2>2. t \in FrameTasks /\ (t.fd = NoFd \/ InUse < Limit)
    BY <1>1, <2>1, FirstFrames
  <2> QED
    BY <1>0, <2>2, FdKinds
<1>2. ASSUME Resumes, t = RestoredFrame PROVE InUse < Limit \/ \E u \in Tasks : FdOf(t) = FdOf(u)
  <2>1. Top \in FrameTasks /\ Top \in Tasks /\ (Reopens(Top) => Recognized(Top))
    BY <1>2, TakenTop DEF Resumes, Handles
  <2>2. /\ t \in FrameTasks /\ (~Reopens(Top) => t.fd = Top.fd)
        /\ Reopens(Top) => t.fd.permit = "unbudgeted" \/ InUse < Limit
    BY <1>2, <2>1, Restored
  <2>3. FdOf(t) = t.fd /\ FdOf(Top) = Top.fd
    BY <2>1, <2>2, FdKinds
  <2> QED
    BY <2>1, <2>2, <2>3
<1>3. ASSUME Stays \/ Pauses \/ Descends
      PROVE  frame \in FrameTasks /\ frame \in Tasks /\ Entry \in Path /\ FdOf(frame) = frame.fd
  <2>1. frame \in FrameTasks /\ frame \in Frames /\ Entry \in Path
    BY <1>3, NextEntry DEF Stays, Pauses, Descends, Classifies
  <2> QED
    BY <2>1, FdKinds DEF Frames
<1>4. ASSUME Stays \/ Pauses \/ Descends, t = Passed \/ t = Suspended(Passed) PROVE FdOf(t) = FdOf(frame)
  <2>1. Passed \in FrameTasks /\ Suspended(Passed) \in FrameTasks /\ Passed.fd = frame.fd
        /\ Suspended(Passed).fd \in {frame.fd, NoFd}
    BY <1>3, <1>4, PassedFrame, SuspendedFrame
  <2> HIDE DEF Passed
  <2>2. FdOf(t) \in {frame.fd, NoFd}
    BY <1>4, <2>1, FdKinds
  <2> QED
    BY <1>0, <1>3, <1>4, <2>2
<1>5. ASSUME Descends, t = ChildTask(Entry) \/ t = RecordTask(Entry) PROVE FdOf(t) = FdOf(frame)
  <2>1. /\ ChildTask(Entry) \in DirTasks /\ RecordTask(Entry) \in RecordTasks
        /\ ChildTask(Entry).open \in {frame.fd, NoFd}
    BY <1>3, <1>5, ChildTasks
  <2>2. FdOf(t) \in {frame.fd, NoFd}
    BY <1>5, <2>1, FdKinds
  <2> QED
    BY <1>0, <1>3, <1>5, <2>2
<1>6. ASSUME NEW i \in DOMAIN Roots, t = RootTask(Roots[i]) PROVE FALSE
  <2>1. t \in DirTasks /\ t.open = NoFd
    BY <1>6, RootTasks
  <2> QED
    BY <1>0, <2>1, FdKinds
<1> QED
  BY <1>1, <1>2, <1>3, <1>4, <1>5, <1>6 DEF NewTask, NewFrame

LEMMA InUseStep ==
  ASSUME Grounded, InUse <= Limit, others \in Nat, Moves
  PROVE  InUse' <= Limit
<1> DEFINE B == Budgeted(Tasks)
           C == Budgeted(Tasks')
           x == IF OpensTop THEN FirstFrame(Top).fd ELSE RestoredFrame.fd
<1>1. TaskInv /\ TaskInv' /\ Limit \in Nat
  BY TaskStep, BoundAssumption DEF Grounded
<1>2. InUse = others + Cardinality(B) /\ InUse' = others' + Cardinality(C)
  BY <1>1, Used
<1>3. IsFiniteSet(B) /\ Cardinality(B) \in Nat
  BY <1>1, BudgetedFinite
<1>4. CASE Rests
  <2>1. Tasks' = Tasks
    BY <1>4 DEF Rests, Tasks
  <2>2. C = B
    BY <2>1
  <2>3. others' = others \/ (InUse < Limit /\ others' = others + 1) \/ (others > 0 /\ others' = others - 1)
    BY <1>4 DEF Rests
  <2> HIDE DEF B, C
  <2>4. InUse \in Nat /\ InUse' = others' + Cardinality(B)
    BY <1>2, <1>3, <2>2
  <2> QED
    BY <1>1, <1>2, <1>3, <2>3, <2>4
<1>5. CASE ~Rests
  <2>1. others' = others
    BY <1>5 DEF Moves, Rests, Empties, TakesRoot, Pops, OpensTop, Resumes, Leaves, Stays, Pauses, Descends, Still,
       Handles, outside
  <2>2. ASSUME NEW fd \in C, fd \notin B PROVE InUse < Limit /\ fd = x
    <3>1. PICK t \in Tasks' : fd = FdOf(t) /\ fd.permit = "budgeted"
      BY <2>2 DEF Budgeted
    <3>2. \A u \in Tasks : FdOf(u) # fd
      BY <2>2, <3>1 DEF Budgeted
    <3>3. t # NoFrame
      BY <3>1, FdKinds, FdFields
    <3>4. ~Remains(t)
      BY <3>1, <3>2, Remaining
    <3>5. NewTask(t)
      BY <3>3, <3>4, TasksAfter
    <3>6. InUse < Limit /\ ((OpensTop /\ t = FirstFrame(Top)) \/ (Resumes /\ t = RestoredFrame))
      BY <3>1, <3>2, <3>5, NewFds
    <3>7. t \in FrameTasks
      BY <3>5, <3>6, NewFrames DEF NewFrame
    <3>8. Resumes => ~OpensTop
      BY DEF Resumes, OpensTop
    <3> QED
      BY <3>1, <3>6, <3>7, <3>8, FdKinds
  <2> HIDE DEF B, C, x
  <2>3. CASE C \subseteq B
    <3>1. Cardinality(C) <= Cardinality(B) /\ Cardinality(C) \in Nat
      BY <1>3, <2>3, FS_Subset, FS_CardinalityType
    <3> QED
      BY <1>1, <1>2, <1>3, <2>1, <3>1
  <2>4. CASE ~(C \subseteq B)
    <3>1. InUse < Limit /\ C \in SUBSET (B \cup {x})
      BY <2>2, <2>4
    <3>2. IsFiniteSet(B \cup {x}) /\ Cardinality(B \cup {x}) <= Cardinality(B) + 1 /\ Cardinality(B \cup {x}) \in Nat
      BY <1>3, FS_AddElement
    <3>3. Cardinality(C) <= Cardinality(B \cup {x}) /\ Cardinality(C) \in Nat
      BY <3>1, <3>2, FS_Subset, FS_CardinalityType
    <3> QED
      BY <1>1, <1>2, <1>3, <2>1, <3>1, <3>2, <3>3
  <2> QED
    BY <2>3, <2>4
<1> QED
  BY <1>4, <1>5

OutsideLast ==
  \A i \in DOMAIN stack : FdOf(stack[i]).permit = "unbudgeted" => i = Len(stack) /\ frame = NoFrame

LEMMA Outsiders ==
  ASSUME stack \in Seq(Task), NEW n, NEW new, Builds(n, new),
         \A i \in 1 .. n : FdOf(stack[i]).permit # "unbudgeted",
         \A k \in 1 .. Len(new) : FdOf(new[k]).permit = "unbudgeted" => k = Len(new) /\ frame' = NoFrame
  PROVE  OutsideLast'
<1>1. /\ n \in Nat /\ Len(new) \in Nat
      /\ \A i \in DOMAIN stack' :
           \/ i \in 1 .. n /\ i \in DOMAIN stack /\ stack'[i] = stack[i]
           \/ \E k \in 1 .. Len(new) : i = n + k /\ stack'[i] = new[k]
  BY Built
<1>2. Len(stack') = n + Len(new)
  BY DEF Builds
<1> HIDE DEF FdOf
<1>3. ASSUME NEW i \in DOMAIN stack', FdOf(stack'[i]).permit = "unbudgeted"
      PROVE  i = Len(stack') /\ frame' = NoFrame
  <2>1. PICK k \in 1 .. Len(new) : i = n + k /\ stack'[i] = new[k]
    BY <1>1, <1>3
  <2>2. k = Len(new) /\ frame' = NoFrame
    BY <1>3, <2>1
  <2> QED
    BY <1>2, <2>1, <2>2
<1>4. OutsideLast' <=>
        \A i \in DOMAIN stack' : FdOf(stack'[i]).permit = "unbudgeted" => i = Len(stack') /\ frame' = NoFrame
  BY DEF OutsideLast, FdOf
<1> QED
  BY <1>3, <1>4

LEMMA OutsideStep ==
  ASSUME Grounded, OutsideLast, Moves
  PROVE  OutsideLast'
<1>0. stack \in Seq(Task) /\ Len(stack) \in Nat /\ DOMAIN stack = 1 .. Len(stack) /\ Len(<<>>) = 0
  BY StackElements, EmptySeq DEF Grounded, TaskInv
<1>1. \A i \in 1 .. Len(stack) : frame # NoFrame => FdOf(stack[i]).permit # "unbudgeted"
  BY <1>0 DEF OutsideLast
<1>2. \A i \in 1 .. Len(stack) - 1 : FdOf(stack[i]).permit # "unbudgeted"
  BY <1>0 DEF OutsideLast
<1>3. NoFd.permit # "unbudgeted"
  BY FdFields
<1>4. CASE Rests
  BY <1>4 DEF Rests, OutsideLast
<1>5. CASE Empties
  <2>1. Builds(0, <<>>)
    BY <1>5 DEF Empties
  <2> QED
    BY <1>0, <2>1, Outsiders
<1>6. CASE TakesRoot
  <2>1. PICK i \in DOMAIN Roots : Builds(0, <<RootTask(Roots[i])>>)
    BY <1>6 DEF TakesRoot
  <2> DEFINE t == RootTask(Roots[i])
  <2>2. FdOf(t).permit # "unbudgeted" /\ Builds(0, <<t>>)
    BY <1>3, <2>1, RootTasks, FdKinds
  <2> HIDE DEF t
  <2>3. Len(<<t>>) = 1 /\ <<t>>[1] = t
    OBVIOUS
  <2> QED
    BY <1>0, <2>2, <2>3, Outsiders
<1>7. CASE Pops \/ Resumes
  <2>1. Builds(Len(stack) - 1, <<>>)
    BY <1>7 DEF Pops, Resumes
  <2> QED
    BY <1>0, <1>2, <2>1, Outsiders
<1>8. CASE OpensTop
  <2> DEFINE f == FirstFrame(Top)
  <2>1. Builds(Len(stack) - 1, <<f>>)
    BY <1>8 DEF OpensTop
  <2>2. FdOf(f).permit # "unbudgeted"
    <3>1. Top \in DirTasks /\ Last(Top.path) \in Dir
      BY <1>8, TakenTop DEF OpensTop, Handles
    <3>2. f \in FrameTasks /\ (f.fd = NoFd \/ f.fd.permit = "budgeted")
      BY <3>1, FirstFrames
    <3>3. FdOf(f) = f.fd
      BY <3>2, FdKinds
    <3> QED
      BY <1>3, <3>2, <3>3
  <2> HIDE DEF f
  <2>3. Len(<<f>>) = 1 /\ <<f>>[1] = f
    OBVIOUS
  <2> QED
    BY <1>0, <1>2, <2>1, <2>2, <2>3, Outsiders
<1>9. CASE Leaves
  <2>1. Builds(Len(stack), <<>>) /\ frame # NoFrame
    BY <1>9 DEF Leaves
  <2> QED
    BY <1>0, <1>1, <2>1, Outsiders
<1>10. Stays \/ Pauses \/ Descends => frame # NoFrame /\ frame \in FrameTasks /\ Entry \in Path
  BY NextEntry DEF Stays, Pauses, Descends, Classifies
<1>11. CASE Stays
  <2>1. Builds(Len(stack), <<>>)
    BY <1>11 DEF Stays
  <2> QED
    BY <1>0, <1>1, <1>10, <1>11, <2>1, Outsiders
<1>12. CASE Pauses
  <2> DEFINE f == Passed
  <2>1. Builds(Len(stack), <<f>>) /\ frame' = NoFrame
    BY <1>12 DEF Pauses
  <2> HIDE DEF f
  <2>2. Len(<<f>>) = 1 /\ <<f>>[1] = f
    OBVIOUS
  <2>3. \A k \in 1 .. Len(<<f>>) : k = Len(<<f>>) /\ frame' = NoFrame
    BY <2>1, <2>2
  <2>4. \A i \in 1 .. Len(stack) : FdOf(stack[i]).permit # "unbudgeted"
    BY <1>1, <1>10, <1>12
  <2> HIDE DEF FdOf
  <2> QED
    BY <1>0, <2>1, <2>3, <2>4, Outsiders
<1>13. CASE Descends
  <2> DEFINE f == Suspended(Passed)
             c == ChildTask(Entry)
             r == RecordTask(Entry)
  <2>1. frame' = NoFrame /\ (Builds(Len(stack), <<f, c>>) \/ Builds(Len(stack), <<f, r, c>>))
    BY <1>13 DEF Descends
  <2>2. f \in FrameTasks /\ r \in RecordTasks /\ (f.fd = NoFd \/ f.fd.permit # "unbudgeted")
    BY <1>10, <1>13, SuspendedFrame, ChildTasks
  <2>3. FdOf(f).permit # "unbudgeted" /\ FdOf(r).permit # "unbudgeted"
    BY <1>3, <2>2, FdKinds
  <2> HIDE DEF f, c, r
  <2>4. CASE Builds(Len(stack), <<f, c>>)
    <3> DEFINE new == <<f, c>>
    <3>1. Len(new) = 2 /\ new[1] = f /\ new[2] = c
      OBVIOUS
    <3>2. Builds(Len(stack), new)
      BY <2>4
    <3> HIDE DEF new
    <3>3. \A k \in 1 .. Len(new) : (k = 1 /\ new[k] = f) \/ (k = 2 /\ new[k] = c)
      BY <3>1
    <3>4. \A k \in 1 .. Len(new) : FdOf(new[k]).permit = "unbudgeted" => k = Len(new) /\ frame' = NoFrame
      BY <2>1, <2>3, <3>1, <3>3
    <3> QED
      BY <1>0, <1>1, <1>10, <1>13, <3>2, <3>4, Outsiders
  <2>5. CASE Builds(Len(stack), <<f, r, c>>)
    <3> DEFINE new == <<f, r, c>>
    <3>1. Len(new) = 3 /\ new[1] = f /\ new[2] = r /\ new[3] = c
      OBVIOUS
    <3>2. Builds(Len(stack), new)
      BY <2>5
    <3> HIDE DEF new
    <3>3. \A k \in 1 .. Len(new) : (k = 1 /\ new[k] = f) \/ (k = 2 /\ new[k] = r) \/ (k = 3 /\ new[k] = c)
      BY <3>1
    <3>4. \A k \in 1 .. Len(new) : FdOf(new[k]).permit = "unbudgeted" => k = Len(new) /\ frame' = NoFrame
      BY <2>1, <2>3, <3>1, <3>3
    <3> QED
      BY <1>0, <1>1, <1>10, <1>13, <3>2, <3>4, Outsiders
  <2> QED
    BY <2>1, <2>4, <2>5
<1> QED
  BY <1>4, <1>5, <1>6, <1>7, <1>8, <1>9, <1>11, <1>12, <1>13 DEF Moves

LEMMA BudgetStep ==
  ASSUME Grounded, RestInv, BudgetInv, Moves
  PROVE  BudgetInv'
<1>1. InUse' <= Limit
  BY InUseStep DEF BudgetInv, RestInv
<1>2. OutsideLast'
  BY OutsideStep DEF BudgetInv, OutsideLast
<1> QED
  BY <1>1, <1>2 DEF BudgetInv, OutsideLast

\* One descriptor at most is outside the budget: that of the listing in hand or
\* of the task on top.
LEMMA OneOutside ==
  ASSUME TaskInv, OutsideLast
  PROVE  Cardinality({fd \in Descriptors : fd.permit = "unbudgeted"}) <= 1
<1> DEFINE U == {fd \in Descriptors : fd.permit = "unbudgeted"}
           x == IF frame = NoFrame THEN FdOf(stack[Len(stack)]) ELSE FdOf(frame)
<1>1. stack \in Seq(Task) /\ DOMAIN stack = 1 .. Len(stack)
  BY StackElements DEF TaskInv
<1>2. \A fd \in U : fd = x
  <2> SUFFICES ASSUME NEW fd \in U PROVE fd = x
    OBVIOUS
  <2>1. PICK t \in Tasks : fd = FdOf(t) /\ fd.permit = "unbudgeted"
    BY TaskSet, DescriptorsOf
  <2>2. t # NoFrame
    BY <2>1, FdKinds, FdFields
  <2>3. CASE t = frame
    BY <2>1, <2>2, <2>3
  <2>4. CASE t # frame
    <3>1. PICK i \in 1 .. Len(stack) : t = stack[i]
      BY <1>1, <2>4, StackElements DEF Tasks
    <3> HIDE DEF FdOf
    <3>2. i = Len(stack) /\ frame = NoFrame
      BY <1>1, <2>1, <3>1 DEF OutsideLast
    <3> QED
      BY <2>1, <3>1, <3>2
  <2> QED
    BY <2>3, <2>4
<1>3. IsFiniteSet({x}) /\ Cardinality({x}) = 1
  BY FS_Singleton
<1>4. U \in SUBSET {x}
  BY <1>2
<1> HIDE DEF U, x
<1>5. Cardinality(U) <= 1
  BY <1>3, <1>4, FS_Subset
<1> QED
  BY <1>5 DEF U

-----------------------------------------------------------------------------
(* The stride.                                                             *)

LEMMA RestOf ==
  ASSUME NEW s \in Int, s > 0, NEW q \in Int, NEW r \in 0 .. s - 1
  PROVE  (s * q + r) % s = r
  OBVIOUS

\* The rest grows by one until the stride is complete.
LEMMA NextRest ==
  ASSUME NEW s \in Int, s > 0, NEW a \in Int
  PROVE  a % s \in 0 .. s - 1 /\ ((a + 1) % s = 0 \/ ((a + 1) % s = (a % s) + 1 /\ (a % s) + 1 < s))
<1> DEFINE q == a \div s
           r == a % s
<1>1. a = s * q + r /\ r \in 0 .. s - 1 /\ q \in Int
  <2>1. a = (a \div s) * s + (a % s)
    BY Z3
  <2>2. a % s \in 0 .. s - 1 /\ a \div s \in Int
    OBVIOUS
  <2> QED
    BY <2>1, <2>2
<1> HIDE DEF q, r
<1>2. CASE r = s - 1
  <2>1. a + 1 = s * (q + 1) + 0
    BY <1>1, <1>2
  <2>2. (s * (q + 1) + 0) % s = 0
    BY <1>1, RestOf
  <2> QED
    BY <1>1, <2>1, <2>2 DEF r
<1>3. CASE r # s - 1
  <2>1. a + 1 = s * q + (r + 1) /\ r + 1 \in 0 .. s - 1
    BY <1>1, <1>3
  <2>2. (s * q + (r + 1)) % s = r + 1
    BY <1>1, <2>1, RestOf
  <2> QED
    BY <1>1, <2>1, <2>2 DEF r
<1> QED
  BY <1>2, <1>3

Count(s, p) == Cardinality({i \in DOMAIN s : s[i] = p})

LEMMA Counts ==
  ASSUME NEW s \in Seq(Path), NEW q \in Path, NEW p
  PROVE  /\ Append(s, q) \in Seq(Path) /\ Append(s, q) # s /\ Count(s, p) \in Nat
         /\ Count(Append(s, q), p) = IF p = q THEN Count(s, p) + 1 ELSE Count(s, p)
         /\ ToSet(Append(s, q)) = ToSet(s) \cup {q}
<1> DEFINE t == Append(s, q)
           n == Len(s)
           S == {i \in DOMAIN s : s[i] = p}
           T == {i \in DOMAIN t : t[i] = p}
<1>1. n \in Nat /\ DOMAIN s = 1 .. n
  BY LenProperties
<1>2. t \in Seq(Path) /\ Len(t) = n + 1 /\ t[n + 1] = q /\ \A i \in 1 .. n : t[i] = s[i]
  BY AppendProperties
<1> HIDE DEF t
<1>3. DOMAIN t = 1 .. n + 1
  BY <1>1, <1>2, LenProperties
<1>4. S \in SUBSET (1 .. n) /\ n + 1 \notin S
  BY <1>1
<1>5. T = IF p = q THEN S \cup {n + 1} ELSE S
  <2>1. 1 .. n + 1 = (1 .. n) \cup {n + 1}
    BY <1>1
  <2> QED
    BY <1>1, <1>2, <1>3, <2>1
<1>6. ToSet(t) = ToSet(s) \cup {q}
  <2>1. 1 .. n + 1 = (1 .. n) \cup {n + 1}
    BY <1>1
  <2>2. ToSet(t) = {t[i] : i \in 1 .. n + 1} /\ ToSet(s) = {s[i] : i \in 1 .. n}
    BY <1>1, <1>3 DEF ToSet
  <2> QED
    BY <1>1, <1>2, <2>1, <2>2
<1>7. Len(t) # Len(s)
  <2>1. \A m \in Nat : m + 1 # m
    OBVIOUS
  <2> QED
    BY <1>1, <1>2, <2>1
<1>8. Count(s, p) = Cardinality(S) /\ Count(t, p) = Cardinality(T)
  BY DEF Count
<1> HIDE DEF S, T
<1>9. IsFiniteSet(1 .. n)
  <2> HIDE DEF n
  <2> QED
    BY <1>1, FS_Interval
<1>10. IsFiniteSet(S) /\ Cardinality(S) \in Nat
  BY <1>4, <1>9, FS_Subset, FS_CardinalityType
<1>11. Cardinality(T) = IF p = q THEN Cardinality(S) + 1 ELSE Cardinality(S)
  BY <1>4, <1>5, <1>10, FS_AddElement
<1> QED
  BY <1>2, <1>6, <1>7, <1>8, <1>10, <1>11 DEF t

\* The entry of a listing that does not poll is counted for it alone.
Heard == Classifies /\ token
LEMMA Strides == Stride \in Nat \ {0} /\ \A n \in Nat : n % Stride \in 0 .. Stride - 1
BY BoundAssumption

LEMMA UnheardMoves ==
  ASSUME Moves
  PROVE  /\ Heard \/ late' = late
         /\ Classifies => token' = token \/ Rests
         /\ Heard => InListing /\ late' = Append(late, frame.path) /\ frame.next % Stride # 0
         /\ Stays \/ Pauses \/ Descends => Classifies
         /\ OpensTop \/ Resumes => ~Heard
<1>1. Heard \/ late' = late
  BY DEF Moves, Rests, Empties, TakesRoot, Pops, OpensTop, Resumes, Leaves, Stays, Pauses, Descends, Handles,
         Unheard, Heard, Classifies
<1>2. Classifies => token' = token \/ Rests
  BY DEF Moves, Rests, Empties, TakesRoot, Pops, OpensTop, Resumes, Leaves, Stays, Pauses, Descends, Handles,
         Still, outside
<1>3. Heard => InListing /\ late' = Append(late, frame.path) /\ frame.next % Stride # 0
  BY DEF Heard, Classifies, Halts, Polls
<1>4. OpensTop \/ Resumes => ~Heard
  BY DEF OpensTop, Resumes, Handles, Heard, Classifies, InListing
<1> QED
  BY <1>1, <1>2, <1>3, <1>4 DEF Stays, Pauses, Descends

AtStride(f, s) == f.next % Stride = 0 \/ Count(s, f.path) <= f.next % Stride

LEMMA LateForm ==
  /\ LateInv => /\ late \in Seq(Path) /\ (late # <<>> => token)
                /\ \A p \in ToSet(late) : Count(late, p) <= Stride
                /\ \A f \in Frames : AtStride(f, late)
  /\ /\ late' \in Seq(Path) /\ (late' # <<>> => token')
     /\ \A p \in ToSet(late') : Count(late', p) <= Stride
     /\ \A f \in Frames' : AtStride(f, late')
     => LateInv'
BY DEF LateInv, StopsByStride, AtStride, Count, Yielded

LEMMA NewAtStride ==
  ASSUME Grounded, LateInv, Moves, NEW f, NewFrame(f)
  PROVE  AtStride(f, late')
<1>0. /\ late \in Seq(Path) /\ (late # <<>> => token) /\ \A g \in Frames : AtStride(g, late)
  BY LateForm
<1>1. ASSUME OpensTop, f = FirstFrame(Top) PROVE AtStride(f, late')
  <2>1. Top \in DirTasks /\ Last(Top.path) \in Dir
    BY <1>1, TakenTop DEF OpensTop, Handles
  <2>2. f.next = 0 /\ 0 % Stride = 0
    BY <1>1, <2>1, FirstFrames, BoundAssumption
  <2> QED
    BY <2>2 DEF AtStride
<1>2. ASSUME Resumes, f = RestoredFrame PROVE AtStride(f, late')
  <2>1. Top \in FrameTasks /\ Top \in Frames /\ (Reopens(Top) => Recognized(Top))
    BY <1>2, TakenTop DEF Resumes, Handles
  <2>2. f.next = Top.next /\ f.path = Top.path /\ AtStride(Top, late)
    BY <1>0, <1>2, <2>1, Restored
  <2>3. late' = late
    BY <1>2, UnheardMoves
  <2> QED
    BY <2>2, <2>3 DEF AtStride
<1>3. ASSUME Stays \/ Pauses \/ Descends, f = Passed \/ f = Suspended(Passed) PROVE AtStride(f, late')
  <2>1. /\ frame \in FrameTasks /\ frame \in Frames /\ frame.path \in Path /\ frame.next \in Nat /\ Classifies
        /\ AtStride(frame, late)
    BY <1>0, <1>3, NextEntry DEF Stays, Pauses, Descends, Classifies
  <2>2. f.path = frame.path /\ f.next = frame.next + 1
    BY <1>3, <2>1, PassedFrame, SuspendedFrame
  <2>3. Count(late, frame.path) \in Nat /\ Count(Append(late, frame.path), frame.path) = Count(late, frame.path) + 1
    BY <1>0, <2>1, Counts
  <2> DEFINE a == frame.next
  <2>4. \/ (a + 1) % Stride = 0
        \/ (a + 1) % Stride = (a % Stride) + 1 /\ a % Stride \in Nat
    <3>1. a \in Int /\ Stride \in Int /\ Stride > 0
      BY <2>1, BoundAssumption
    <3> HIDE DEF a
    <3>2. /\ a % Stride \in 0 .. Stride - 1
          /\ (a + 1) % Stride = 0 \/ ((a + 1) % Stride = (a % Stride) + 1 /\ (a % Stride) + 1 < Stride)
      BY <3>1, NextRest
    <3> QED
      BY <3>1, <3>2
  <2>5. CASE Heard
    <3>1. late' = Append(late, frame.path) /\ a % Stride # 0
      BY <2>5, UnheardMoves
    <3>2. Count(late, frame.path) <= a % Stride
      BY <2>1, <3>1 DEF AtStride
    <3> HIDE DEF a
    <3>3. (a + 1) % Stride = 0 \/ Count(late', frame.path) <= (a + 1) % Stride
      BY <2>3, <2>4, <3>1, <3>2
    <3> QED
      BY <2>2, <3>3 DEF AtStride, a
  <2>6. CASE ~Heard
    <3>1. late = <<>> /\ late' = late
      BY <1>0, <2>1, <2>6, UnheardMoves DEF Heard
    <3>2. Count(late', frame.path) = 0
      <4>1. {i \in DOMAIN late' : late'[i] = frame.path} = {}
        BY <3>1
      <4> QED
        BY <4>1, FS_EmptySet DEF Count
    <3> HIDE DEF a
    <3>3. (a + 1) % Stride = 0 \/ Count(late', frame.path) <= (a + 1) % Stride
      BY <2>4, <3>2
    <3> QED
      BY <2>2, <3>3 DEF AtStride, a
  <2> QED
    BY <2>5, <2>6
<1> QED
  BY <1>1, <1>2, <1>3 DEF NewFrame

LEMMA LateStep ==
  ASSUME Grounded, ShapeInv, LateInv, Moves
  PROVE  LateInv'
<1>0. /\ late \in Seq(Path) /\ (late # <<>> => token) /\ \A p \in ToSet(late) : Count(late, p) <= Stride
      /\ \A g \in Frames : AtStride(g, late)
  BY LateForm
<1>1. ASSUME Heard
      PROVE  /\ InListing /\ frame.path \in Path /\ frame.next \in Nat /\ frame \in Frames /\ frame # NoFrame
             /\ late' = Append(late, frame.path) /\ Count(late, frame.path) < Stride
  <2>1. /\ InListing /\ late' = Append(late, frame.path) /\ frame.next % Stride # 0
    BY <1>1, UnheardMoves
  <2>2. frame.path \in Path /\ frame.next \in Nat /\ frame \in Frames /\ frame # NoFrame
    BY <2>1, NextEntry
  <2>3. Count(late, frame.path) <= frame.next % Stride /\ frame.next % Stride \in 0 .. Stride - 1 /\ Stride \in Nat
    BY <1>0, <2>1, <2>2, Strides DEF AtStride
  <2>4. Count(late, frame.path) \in Nat
    BY <1>0, <2>2, Counts
  <2> QED
    BY <2>1, <2>2, <2>3, <2>4
<1> DEFINE q == frame.path
<1>10. ASSUME Heard, NEW p
       PROVE  /\ Count(late, p) \in Nat /\ (p \in ToSet(late') => p \in ToSet(late) \/ p = q)
              /\ Count(late', p) = IF p = q THEN Count(late, p) + 1 ELSE Count(late, p)
  <2>1. q \in Path /\ late' = Append(late, q)
    BY <1>1, <1>10
  <2> HIDE DEF q
  <2>2. /\ Count(late, p) \in Nat /\ ToSet(Append(late, q)) = ToSet(late) \cup {q}
        /\ Count(Append(late, q), p) = IF p = q THEN Count(late, p) + 1 ELSE Count(late, p)
    BY <1>0, <2>1, Counts
  <2> QED
    BY <2>1, <2>2
<1>2. late' \in Seq(Path) /\ (late' # <<>> => token')
  <2>1. CASE Heard
    BY <1>0, <1>1, <2>1, Counts, SameWorld DEF Heard
  <2>2. CASE late' = late
    BY <1>0, <2>2, SameWorld
  <2> QED
    BY <2>1, <2>2, UnheardMoves
<1>3. ASSUME NEW p \in ToSet(late') PROVE Count(late', p) <= Stride
  <2>1. CASE Heard
    <3>1. Count(late', p) = IF p = frame.path THEN Count(late, p) + 1 ELSE Count(late, p)
      BY <1>10, <2>1
    <3>2. p \in ToSet(late) \/ p = frame.path
      BY <1>3, <1>10, <2>1
    <3>3. Count(late, p) \in Nat /\ Stride \in Nat
      BY <1>10, <2>1, Strides
    <3> QED
      BY <1>0, <1>1, <2>1, <3>1, <3>2, <3>3
  <2>2. CASE late' = late
    BY <1>0, <1>3, <2>2
  <2> QED
    BY <2>1, <2>2, UnheardMoves
<1>4. ASSUME NEW f \in Frames' PROVE AtStride(f, late')
  <2>1. f \in Tasks' /\ f.kind = "frame" /\ f # NoFrame
    BY Kinds DEF Frames
  <2>2. CASE Remains(f)
    <3>1. f \in Frames /\ AtStride(f, late)
      BY <1>0, <2>1, <2>2, Remaining
    <3>2. CASE Heard
      <4>1. ~Rests /\ ~Empties
        <5>1. late' # late
          BY <1>0, <1>1, <3>2, Counts
        <5> QED
          BY <5>1 DEF Rests, Empties, Unheard
      <4>2. PICK i \in DOMAIN stack : f = stack[i]
        BY <2>2, <4>1 DEF Remains
      <4>3. i \in 1 .. Len(stack)
        BY StackElements DEF Grounded, TaskInv
      <4>4. Deeper(f, frame)
        BY <1>1, <2>1, <3>2, <4>2, <4>3, Under
      <4>5. f.path # frame.path
        BY <1>1, <3>2, <4>4, PathFields DEF Deeper
      <4>6. Count(late', f.path) = Count(late, f.path)
        BY <1>10, <3>2, <4>5
      <4> QED
        BY <3>1, <4>6 DEF AtStride
    <3>3. CASE late' = late
      BY <3>1, <3>3
    <3> QED
      BY <3>2, <3>3, UnheardMoves
  <2>3. CASE NewTask(f)
    BY <2>1, <2>3, NewTasks, NewAtStride
  <2> QED
    BY <2>1, <2>2, <2>3, TasksAfter
<1> QED
  BY <1>2, <1>3, <1>4, LateForm

-----------------------------------------------------------------------------
(* The other variables.                                                    *)

Answers ==
  /\ turn' \in {"caller", "walker"} /\ stopped' \in BOOLEAN /\ outcome' \in {"running", "ended", "failed", "dropped"}
  /\ ~Streaming => stash' = <<>> /\ turn' = "walker"
Same == UNCHANGED roots /\ Still

LEMMA Reported ==
  ASSUME RestInv
  PROVE  /\ \A ruleErrors, failure : Report(ruleErrors, failure) => Answers
         /\ \A item : HandOut(item) => Answers
         /\ UNCHANGED output => Answers
<1>1. \A ruleErrors, failure : Report(ruleErrors, failure) => Answers
  BY DEF Report, RestInv, Answers
<1>2. \A item : HandOut(item) => Answers
  BY DEF HandOut, RestInv, Answers
<1>3. UNCHANGED output => Answers
  BY DEF output, RestInv, Answers
<1> QED
  BY <1>1, <1>2, <1>3

LEMMA RestBy ==
  ASSUME RestInv, Moves, Answers, cancelled' \in BOOLEAN
  PROVE  /\ Same => RestInv'
         /\ /\ Still /\ injector' \in Seq(ToSet(Roots)) /\ local' \in Seq(ToSet(Roots))
            /\ begun' \in Seq(ToSet(Roots))
            => RestInv'
BY SameWorld DEF RestInv, Answers, Same, roots, Still, outside

LEMMA RootShared ==
  ASSUME RestInv, TakeRoot
  PROVE  injector' \in Seq(ToSet(Roots)) /\ local' \in Seq(ToSet(Roots)) /\ begun' \in Seq(ToSet(Roots))
<1> DEFINE S == ToSet(Roots)
<1>1. injector \in Seq(S) /\ local \in Seq(S) /\ begun \in Seq(S)
  BY DEF RestInv
<1>2. \/ injector # <<>> /\ stack' = <<RootTask(Head(injector))>>
         /\ \E n \in 1 .. (Len(injector) + 1) \div 2 :
              local' = local \o SubSeq(injector, 2, n) /\ injector' = SubSeq(injector, n + 1, Len(injector))
      \/ local # <<>> /\ stack' = <<RootTask(Head(local))>> /\ local' = Tail(local) /\ injector' = injector
  BY DEF TakeRoot
<1>3. begun' = Append(begun, Head(stack').path[1])
  BY DEF TakeRoot
<1>4. \A r : Head(<<RootTask(r)>>).path[1] = r
  <2>1. \A t : Head(<<t>>) = t
    OBVIOUS
  <2>2. \A r : RootTask(r).path = <<r>>
    BY DEF RootTask, DirectoryTask
  <2> HIDE DEF RootTask
  <2> QED
    BY <2>1, <2>2
<1> HIDE DEF S
<1>5. \A s \in Seq(S) : s # <<>> => Head(s) \in S /\ Tail(s) \in Seq(S) /\ Len(s) \in Nat \ {0}
  BY HeadTailProperties, EmptySeq, LenProperties
<1>6. begun' \in Seq(S)
  <2>1. \E r \in S : Head(stack').path[1] = r
    BY <1>1, <1>2, <1>4, <1>5
  <2> QED
    BY <1>1, <1>3, <2>1, AppendProperties
<1>7. CASE local # <<>> /\ local' = Tail(local) /\ injector' = injector
  BY <1>1, <1>5, <1>6, <1>7 DEF S
<1>8. CASE injector # <<>> /\ \E n \in 1 .. (Len(injector) + 1) \div 2 :
              local' = local \o SubSeq(injector, 2, n) /\ injector' = SubSeq(injector, n + 1, Len(injector))
  <2>1. PICK n \in 1 .. (Len(injector) + 1) \div 2 :
              local' = local \o SubSeq(injector, 2, n) /\ injector' = SubSeq(injector, n + 1, Len(injector))
    BY <1>8
  <2>2. Len(injector) \in Nat \ {0} /\ n \in Nat /\ n <= Len(injector)
    BY <1>1, <1>5, <1>8
  <2>3. \A i \in 1 .. Len(injector) : injector[i] \in S
    BY <1>1, ElementOfSeq
  <2>4. SubSeq(injector, 2, n) \in Seq(S) /\ SubSeq(injector, n + 1, Len(injector)) \in Seq(S)
    <3> DEFINE m == n + 1
               l == Len(injector)
    <3>1. m \in Nat /\ l \in Nat /\ (\A i \in 2 .. n : injector[i] \in S) /\ (\A i \in m .. l : injector[i] \in S)
      BY <2>2, <2>3
    <3> HIDE DEF m, l
    <3>2. SubSeq(injector, 2, n) \in Seq(S) /\ SubSeq(injector, m, l) \in Seq(S)
      BY <2>2, <3>1, SubSeqProperties
    <3> QED
      BY <3>2 DEF m, l
  <2> QED
    BY <1>1, <1>6, <2>1, <2>4, ConcatProperties DEF S
<1> QED
  BY <1>2, <1>7, <1>8

LEMMA RestStep ==
  ASSUME Grounded, RestInv, [Next]_vars
  PROVE  RestInv'
<1>0. Moves
  BY Steps
<1>1. cancelled \in BOOLEAN /\ stopped \in BOOLEAN /\ token \in BOOLEAN
  BY DEF RestInv
<1>2. ASSUME DropTask \/ CloseCycle \/ FailOpen \/ Open \/ Resume \/ LoseListing \/ Record PROVE RestInv'
  <2>1. Same /\ cancelled' \in BOOLEAN
    BY <1>1, <1>2 DEF DropTask, CloseCycle, FailOpen, Open, Resume, LoseListing, Record, Same, Still, outside
  <2>2. Answers
    BY <1>2, Reported DEF DropTask, CloseCycle, FailOpen, Open, Resume, LoseListing, Record, HandOutNothing
  <2> QED
    BY <1>0, <2>1, <2>2, RestBy
<1>3. ASSUME SkipEntry \/ EmitEntry \/ DescendEntry \/ EmitAndDescend \/ FailEntry \/ EndListing PROVE RestInv'
  <2>1. Same /\ cancelled' \in BOOLEAN
    BY <1>1, <1>3 DEF SkipEntry, EmitEntry, DescendEntry, EmitAndDescend, FailEntry, EndListing, Same, Still, outside
  <2>2. Answers
    BY <1>3, Reported DEF SkipEntry, EmitEntry, DescendEntry, EmitAndDescend, FailEntry, EndListing, HandOutNothing
  <2> QED
    BY <1>0, <2>1, <2>2, RestBy
<1>4. ASSUME Halt PROVE RestInv'
  BY <1>4 DEF Halt, RestInv, roots, outside, Streaming
<1>5. ASSUME TakeRoot PROVE RestInv'
  <2>1. Still /\ cancelled' = cancelled /\ UNCHANGED output
    BY <1>5 DEF TakeRoot, Still
  <2> QED
    BY <1>0, <1>1, <1>5, <2>1, Reported, RootShared, RestBy
<1>6. ASSUME NextCall \/ DropStream \/ StreamEnds \/ StashedError PROVE RestInv'
  BY <1>6 DEF NextCall, DropStream, StreamEnds, StashedError, RestInv, roots, outside, Streaming
<1>7. ASSUME CollectEnds \/ UNCHANGED vars PROVE RestInv'
  BY <1>7 DEF CollectEnds, vars, RestInv, roots, output, outside, Streaming
<1>8. ASSUME Cancel \/ Crowd \/ Replace PROVE RestInv'
  <2>1. UNCHANGED roots /\ UNCHANGED output /\ cancelled' = cancelled /\ world' = world
    BY <1>8 DEF Cancel, Crowd, Replace
  <2>2. others' \in Nat /\ token' \in BOOLEAN /\ moved' \in BOOLEAN
    <3>1. others \in Nat /\ token \in BOOLEAN /\ moved \in BOOLEAN
      BY DEF RestInv
    <3>2. others' = others \/ others' = others + 1 \/ (others > 0 /\ others' = others - 1)
      BY <1>8 DEF Cancel, Crowd, Replace
    <3>3. others' \in Nat
      BY <3>1, <3>2
    <3>4. token' \in BOOLEAN /\ moved' \in BOOLEAN
      BY <1>8, <3>1 DEF Cancel, Crowd, Replace
    <3> QED
      BY <3>3, <3>4
  <2> QED
    BY <2>1, <2>2 DEF RestInv, roots, output, Streaming
<1> QED
  BY <1>2, <1>3, <1>4, <1>5, <1>6, <1>7, <1>8 DEF Next, Walk, Done

-----------------------------------------------------------------------------
(* The initial states.                                                     *)

\* The stream starts with its roots, the first one on top.
LEMMA FirstStack ==
  ASSUME Init, Streaming
  PROVE  /\ stack \in Seq(Task) /\ Len(Roots) \in Nat
         /\ DOMAIN stack = 1 .. Len(Roots) /\ DOMAIN Roots = 1 .. Len(Roots)
         /\ \A i \in 1 .. Len(Roots) :
              /\ (Len(Roots) - i) + 1 \in 1 .. Len(Roots)
              /\ stack[i] = RootTask(Roots[(Len(Roots) - i) + 1])
<1> DEFINE s == [i \in DOMAIN Roots |-> RootTask(Roots[i])]
           n == Len(Roots)
<1>1. n \in Nat /\ DOMAIN Roots = 1 .. n /\ \A i \in DOMAIN Roots : RootTask(Roots[i]) \in Task
  BY Tree, RootTasks DEF Task
<1>2. s \in Seq(Task) /\ Len(s) = n
  BY <1>1
<1>3. \A i \in 1 .. n : s[i] = RootTask(Roots[i])
  BY <1>1
<1>4. stack = Reverse(s)
  BY DEF Init
<1> HIDE DEF s, n
<1>5. stack = [i \in 1 .. n |-> s[(n - i) + 1]]
  BY <1>2, <1>4 DEF Reverse
<1>6. \A i \in 1 .. n : (n - i) + 1 \in 1 .. n
  BY <1>1
<1>7. \A i \in 1 .. n : stack[i] = RootTask(Roots[(n - i) + 1])
  BY <1>3, <1>5, <1>6
<1>8. stack \in [1 .. n -> Task]
  BY <1>1, <1>3, <1>5, <1>6
<1>9. stack \in Seq(Task) /\ DOMAIN stack = 1 .. n
  BY <1>1, <1>8
<1> QED
  BY <1>1, <1>6, <1>7, <1>9 DEF n

LEMMA InitInv ==
  ASSUME Init
  PROVE  IInv
<1>1. /\ world \in Worlds /\ frame = NoFrame /\ late = <<>> /\ others = 0 /\ Limit \in Nat
      /\ NoFrame.kind = "none"
  BY BoundAssumption, Kinds DEF Init
<1>2. /\ stack \in Seq(Task)
      /\ \A i \in DOMAIN stack : \E j \in DOMAIN Roots : stack[i] = RootTask(Roots[j])
  <2>1. ~Streaming => stack = <<>>
    BY DEF Init
  <2>2. <<>> \in Seq(Task) /\ DOMAIN <<>> = {}
    BY EmptySeq
  <2> QED
    BY <2>1, <2>2, FirstStack
<1>3. \A i \in DOMAIN stack :
        /\ stack[i] \in DirTasks /\ stack[i].kind = "dir" /\ Len(stack[i].path) = 1 /\ stack[i].open = NoFd
        /\ DirFollows(stack[i])
  BY <1>2, RootTasks, RootFollows
<1>4. \A t \in Tasks : t = NoFrame \/ (t.kind = "dir" /\ FdOf(t) = NoFd)
  BY <1>1, <1>3, FdKinds DEF Tasks, ToSet
<1>5. Frames = {}
  BY <1>1, <1>4 DEF Frames
<1>6. TaskInv
  <2>1. \A t \in ToSet(stack) : t.kind = "dir"
    BY <1>3 DEF ToSet
  <2> QED
    BY <1>1, <1>2, <1>5, <2>1 DEF TaskInv
<1>7. RestInv
  <2>1. Roots \in Seq(ToSet(Roots)) /\ <<>> \in Seq(ToSet(Roots))
    <3> DEFINE S == ToSet(Roots)
               n == Len(Roots)
    <3>1. n \in Nat /\ Roots \in [1 .. n -> Dir]
      BY TreeAssumption, LenProperties
    <3>2. \A i \in 1 .. n : Roots[i] \in S
      BY <3>1 DEF ToSet
    <3> HIDE DEF S, n
    <3>3. Roots \in [1 .. n -> S]
      BY <3>1, <3>2
    <3>4. Roots \in Seq(S)
      BY <3>1, <3>3
    <3> QED
      BY <3>4, EmptySeq DEF S
  <2> QED
    BY <2>1 DEF Init, RestInv
<1>8. ShapeInv
  BY <1>1, <1>3 DEF ShapeInv
<1>9. DescentInv
  BY <1>3, <1>5 DEF DescentInv, DirFollows
<1>10. LinkInv
  BY <1>1, <1>5 DEF LinkInv
<1>11. BudgetInv
  <2>1. \A t \in Tasks : FdOf(t) = NoFd
    BY <1>4, FdKinds
  <2>2. Budgeted(Tasks) = {}
    <3> HIDE DEF FdOf, NoFd
    <3> QED
      BY <2>1, FdFields DEF Budgeted
  <2>3. InUse = 0 + Cardinality({})
    BY <1>1, <1>6, <2>2, Used
  <2>4. InUse <= Limit
    BY <1>1, <2>3, FS_EmptySet
  <2>5. \A i \in DOMAIN stack : FdOf(stack[i]).permit # "unbudgeted"
    BY <1>3, FdKinds, FdFields
  <2> HIDE DEF FdOf
  <2> QED
    BY <2>4, <2>5 DEF BudgetInv
<1>12. LateInv
  <2>1. ToSet(late) = {} /\ late \in Seq(Path)
    BY <1>1 DEF ToSet
  <2> QED
    BY <1>1, <1>5, <2>1 DEF LateInv, StopsByStride
<1> QED
  BY <1>6, <1>7, <1>8, <1>9, <1>10, <1>11, <1>12 DEF IInv

LEMMA StepInv ==
  ASSUME IInv, [Next]_vars
  PROVE  IInv'
<1>1. Grounded /\ RestInv /\ ShapeInv /\ LinkInv /\ BudgetInv /\ LateInv
  BY DEF IInv, Grounded
<1>2. Moves
  BY <1>1, Steps
<1> QED
  BY <1>1, <1>2, TaskStep, RestStep, ShapeStep, DescentStep, LinkStep, BudgetStep, LateStep DEF IInv

\* Outside the walk's own descriptors, others never hold more than the limit.
LEMMA Types ==
  ASSUME IInv
  PROVE  TypeOK
<1>1. TaskInv /\ RestInv /\ BudgetInv /\ LateInv /\ DescentInv
  BY DEF IInv
<1>2. \A fd \in Fds : IsFd(fd)
  BY DEF Fds, IsFd
<1>3. frame = NoFrame \/ frame.kind = "frame"
  BY <1>1, Kinds DEF TaskInv
<1>4. ASSUME NEW t \in ToSet(stack)
      PROVE  /\ t.path \in Path /\ t.kind \in {"dir", "frame", "record"}
             /\ t.kind = "record" => ~Streaming
             /\ t.kind = "dir" => t.chain \subseteq Dir /\ IsFd(t.open)
  <2>1. t \in Task /\ (t.kind = "record" => ~Streaming)
    BY <1>1, StackElements DEF TaskInv
  <2> QED
    BY <1>2, <2>1, Kinds
<1>5. ASSUME NEW f \in Frames
      PROVE  /\ f.path \in Path /\ f.chain \subseteq Dir /\ f.next \in 0 .. Len(Names(f.path))
             /\ f.inode \in Inodes /\ f.awaited \in Inodes \cup {"none"}
             /\ IsFd(f.fd) /\ f.held \in BOOLEAN
  <2>1. f \in FrameTasks
    <3>1. f \in Tasks /\ f.kind = "frame"
      BY DEF Frames
    <3> QED
      BY <1>1, <3>1, TaskSet, Kinds
  <2>2. f.next \in Nat /\ f.next <= Len(Names(f.path)) /\ Len(Names(f.path)) \in Nat
    BY <1>1, <2>1, Kinds, ListingPath DEF TaskInv, DescentInv
  <2>3. f.next \in 0 .. Len(Names(f.path))
    BY <2>2
  <2> QED
    BY <1>2, <2>1, <2>3, Kinds
<1>6. others \in 0 .. Limit
  <2>1. InUse = others + Cardinality(Budgeted(Tasks)) /\ Cardinality(Budgeted(Tasks)) \in Nat
    BY <1>1, Used, BudgetedFinite
  <2> QED
    BY <1>1, <2>1, BoundAssumption DEF BudgetInv, RestInv
<1>7. ToSet(late) \subseteq Path
  BY <1>1, LenProperties DEF LateInv, ToSet
<1> QED
  BY <1>1, <1>3, <1>4, <1>5, <1>6, <1>7 DEF TypeOK, RestInv

-----------------------------------------------------------------------------
(* The theorems.                                                           *)

\* In every state of a serial walk or stream (WalkStream::next, WalkState,
\* linux_native.rs): the listings on the stack are one descent that enters no
\* directory twice, a descriptor that is kept reaches what its listing was read
\* from, at most the last task has one outside the budget, and a listing yielded
\* nothing since the token was set but what lies behind its last poll.
THEOREM Invariance == Spec => []IInv
<1>1. Init => IInv
  BY InitInv
<1>2. IInv /\ [Next]_vars => IInv'
  BY StepInv
<1> QED
  BY <1>1, <1>2, PTL DEF Spec

\* Every variable has the values that the fields of WalkStream, WalkState and their
\* tasks can have; in particular other walks never hold more than the limit.
THEOREM TypeCorrect == Spec => []TypeOK
<1>1. IInv => TypeOK
  BY Types
<1> QED
  BY <1>1, Invariance, PTL

\* RetentionPermit and suspend_retained_directory: for every tree, every limit and
\* any traffic of other walks, the permits never exceed the limit, and the walk
\* holds at most one descriptor outside of it.
THEOREM BudgetKept == Spec => []WithinBudget
<1>1. IInv => WithinBudget
  <2> SUFFICES ASSUME IInv PROVE WithinBudget
    OBVIOUS
  <2>1. InUse <= Limit /\ OutsideLast /\ TaskInv
    BY DEF IInv, BudgetInv, OutsideLast
  <2> QED
    BY <2>1, OneOutside DEF WithinBudget
<1> QED
  BY <1>1, Invariance, PTL

\* restore_retained_directory: nothing below a listing that was read with a
\* descriptor is read from a directory that took its place.
THEOREM OneTreeKept == Spec => []OneTree
<1>1. IInv => OneTree
  <2> SUFFICES ASSUME IInv, NEW parent \in Frames, NEW child \in Frames, world.relative /\ parent.held,
                      parent.path = Front(child.path), Last(child.path) # world.site
               PROVE  child.inode = parent.inode
    BY DEF OneTree
  <2>1. Linked(parent, child) /\ child.kind = "frame"
    BY DEF IInv, LinkInv, Frames
  <2> QED
    BY <2>1 DEF Linked
<1> QED
  BY <1>1, Invariance, PTL

\* The token is read at every CANCELLATION_STRIDE-th entry of a listing: after a
\* cancellation each listing under way yields a stride of entries at most, in every
\* tree and however often it is suspended.
THEOREM StopsInStride == Spec => []StopsByStride
<1>1. IInv => StopsByStride
  BY DEF IInv, LateInv
<1> QED
  BY <1>1, Invariance, PTL
=============================================================================
