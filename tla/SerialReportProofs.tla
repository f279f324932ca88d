------------------------- MODULE SerialReportProofs -------------------------
(***************************************************************************)
(* Theorems about what the serial walks of SerialWalk hand out: RInv is an *)
(* inductive invariant next to the one of SerialWalkInv, and implies       *)
(* Delivers and LostIsReported.                                            *)
(***************************************************************************)
EXTENDS SerialReportInv, SerialWalkProofs

-----------------------------------------------------------------------------
(* Paths and their prefixes.                                               *)

LEMMA Prefix ==
  ASSUME NEW s \in Seq(Name), NEW t \in Seq(Name)
  PROVE  IsPrefix(s, t) <=> Len(s) <= Len(t) /\ \A i \in 1 .. Len(s) : s[i] = t[i]
<1>1. Len(s) \in Nat /\ Len(t) \in Nat
  BY LenProperties
<1>2. CASE Len(s) <= Len(t)
  <2>1. /\ SubSeq(s, 1, Len(s)) \in Seq(Name) /\ Len(SubSeq(s, 1, Len(s))) = Len(s)
        /\ \A i \in 1 .. Len(s) : SubSeq(s, 1, Len(s))[i] = s[i]
    BY <1>1
  <2>2. /\ SubSeq(t, 1, Len(s)) \in Seq(Name) /\ Len(SubSeq(t, 1, Len(s))) = Len(s)
        /\ \A i \in 1 .. Len(s) : SubSeq(t, 1, Len(s))[i] = t[i]
    BY <1>1, <1>2
  <2>3. SubSeq(s, 1, Len(s)) = SubSeq(t, 1, Len(s)) <=>
          \A i \in 1 .. Len(s) : SubSeq(s, 1, Len(s))[i] = SubSeq(t, 1, Len(s))[i]
    BY <2>1, <2>2, SeqEqual
  <2> QED
    BY <1>2, <2>1, <2>2, <2>3 DEF IsPrefix
<1> QED
  BY <1>1, <1>2 DEF IsPrefix

LEMMA Parts ==
  ASSUME NEW q \in Seq(Name), NEW n \in 0 .. Len(q)
  PROVE  /\ SubSeq(q, 1, n) \in Seq(Name) /\ Len(SubSeq(q, 1, n)) = n
         /\ \A i \in 1 .. n : SubSeq(q, 1, n)[i] = q[i]
         /\ IsPrefix(SubSeq(q, 1, n), q)
<1>1. Len(q) \in Nat /\ n \in Nat /\ n <= Len(q)
  BY LenProperties
<1>2. /\ SubSeq(q, 1, n) \in Seq(Name) /\ Len(SubSeq(q, 1, n)) = n
      /\ \A i \in 1 .. n : SubSeq(q, 1, n)[i] = q[i]
  BY <1>1
<1> QED
  BY <1>1, <1>2, Prefix

LEMMA PrefixSteps ==
  ASSUME NEW s \in Seq(Name), NEW t \in Seq(Name), NEW u \in Seq(Name)
  PROVE  /\ IsPrefix(s, s)
         /\ IsPrefix(s, t) /\ IsPrefix(t, u) => IsPrefix(s, u)
         /\ IsPrefix(s, u) /\ IsPrefix(t, u) /\ Len(s) <= Len(t) => IsPrefix(s, t)
         /\ IsPrefix(s, t) /\ Len(s) = Len(t) => s = t
         /\ IsPrefix(s, t) /\ s # t => Len(s) < Len(t)
         /\ IsStrictPrefix(s, t) <=> IsPrefix(s, t) /\ Len(s) < Len(t)
         /\ IsPrefix(s, t) => SubSeq(t, 1, Len(s)) = s
<1>1. Len(s) \in Nat /\ Len(t) \in Nat /\ Len(u) \in Nat
  BY LenProperties
<1>2. IsPrefix(s, s)
  BY <1>1, Prefix
<1>3. IsPrefix(s, t) /\ IsPrefix(t, u) => IsPrefix(s, u)
  BY <1>1, Prefix
<1>4. IsPrefix(s, u) /\ IsPrefix(t, u) /\ Len(s) <= Len(t) => IsPrefix(s, t)
  BY <1>1, Prefix
<1>5. IsPrefix(s, t) /\ Len(s) = Len(t) => s = t
  <2>1. IsPrefix(s, t) /\ Len(s) = Len(t) => \A i \in 1 .. Len(s) : s[i] = t[i]
    BY Prefix
  <2> QED
    BY <2>1, SeqEqual
<1>6. IsPrefix(s, t) => SubSeq(t, 1, Len(s)) = s
  <2>1. ASSUME IsPrefix(s, t) PROVE SubSeq(t, 1, Len(s)) = s
    <3>1. Len(s) \in 0 .. Len(t) /\ \A i \in 1 .. Len(s) : s[i] = t[i]
      BY <1>1, <2>1, Prefix
    <3>2. /\ SubSeq(t, 1, Len(s)) \in Seq(Name) /\ Len(SubSeq(t, 1, Len(s))) = Len(s)
          /\ \A i \in 1 .. Len(s) : SubSeq(t, 1, Len(s))[i] = t[i]
      BY <3>1, Parts
    <3> QED
      BY <3>1, <3>2, SeqEqual
  <2> QED
    BY <2>1
<1>7. IsPrefix(s, t) => Len(s) <= Len(t)
  BY Prefix
<1> QED
  BY <1>1, <1>2, <1>3, <1>4, <1>5, <1>6, <1>7 DEF IsStrictPrefix

\* Every prefix of a path is a directory that closes no cycle and lists the next
\* name.
Grows(q) ==
  /\ q[1] \in ToSet(Roots)
  /\ \A n \in 1 .. Len(q) - 1 :
       LET a == SubSeq(q, 1, n) IN
       a \in Path /\ Last(a) \in Dir /\ ~Closed(a) /\ \E k \in DOMAIN Names(a) : q[n + 1] = Names(a)[k]

LEMMA GrowsOn ==
  ASSUME NEW p \in Path, p \in Seq(Name), Len(p) \in Nat \ {0}, Grows(p), Last(p) \in Dir, ~Closed(p),
         NEW k \in DOMAIN Names(p)
  PROVE  Grows(Append(p, Names(p)[k]))
<1> DEFINE q == Append(p, Names(p)[k])
<1>1. /\ q \in Seq(Name) /\ Len(q) = Len(p) + 1 /\ Len(p) \in Nat \ {0}
      /\ \A i \in 1 .. Len(p) : q[i] = p[i]
      /\ q[Len(p) + 1] = Names(p)[k]
  <2>1. Len(p) > 0 /\ DOMAIN Names(p) = 1 .. Len(Names(p)) /\ Names(p)[k] \in Name
    BY Child
  <2> QED
    BY <2>1
<1> HIDE DEF q
<1>2. \A n \in 1 .. Len(p) : SubSeq(q, 1, n) = SubSeq(p, 1, n)
  <2> SUFFICES ASSUME NEW n \in 1 .. Len(p) PROVE SubSeq(q, 1, n) = SubSeq(p, 1, n)
    OBVIOUS
  <2>1. n \in 0 .. Len(p) /\ n \in 0 .. Len(q) /\ n \in Nat
    BY <1>1
  <2>2. /\ SubSeq(q, 1, n) \in Seq(Name) /\ Len(SubSeq(q, 1, n)) = n
        /\ \A i \in 1 .. n : SubSeq(q, 1, n)[i] = q[i]
    BY <1>1, <2>1, Parts
  <2>3. /\ SubSeq(p, 1, n) \in Seq(Name) /\ Len(SubSeq(p, 1, n)) = n
        /\ \A i \in 1 .. n : SubSeq(p, 1, n)[i] = p[i]
    BY <2>1, Parts
  <2>4. \A i \in 1 .. n : SubSeq(q, 1, n)[i] = SubSeq(p, 1, n)[i]
    BY <1>1, <2>1, <2>2, <2>3
  <2> QED
    BY <2>2, <2>3, <2>4, SeqEqual
<1>3. SubSeq(q, 1, Len(p)) = p
  <2>1. IsPrefix(p, p)
    BY PrefixSteps
  <2> QED
    BY <1>1, <1>2, <2>1, PrefixSteps
<1>4. q[1] \in ToSet(Roots)
  BY <1>1 DEF Grows
<1>5. ASSUME NEW n \in 1 .. Len(q) - 1
      PROVE  LET a == SubSeq(q, 1, n) IN
             a \in Path /\ Last(a) \in Dir /\ ~Closed(a) /\ \E j \in DOMAIN Names(a) : q[n + 1] = Names(a)[j]
  <2>1. CASE n = Len(p)
    BY <1>1, <1>3, <2>1
  <2>2. CASE n # Len(p)
    <3>1. n \in 1 .. Len(p) - 1 /\ n \in 1 .. Len(p) /\ n + 1 \in 1 .. Len(p)
      BY <1>1, <2>2
    <3> QED
      BY <1>1, <1>2, <3>1 DEF Grows
  <2> QED
    BY <2>1, <2>2
<1> QED
  BY <1>4, <1>5 DEF Grows, q

LEMMA PathGrows == \A q \in Path : Grows(q)
<1> DEFINE Good(k) == \A p \in Level[k] : Grows(p)
           Bad == {k \in DOMAIN Level : ~Good(k)}
<1>1. Cardinality(Dir) \in Nat /\ DOMAIN Level = 0 .. Cardinality(Dir)
  BY Tree, LevelRule
<1>2. Good(0)
  <2> SUFFICES ASSUME NEW p \in Level[0] PROVE Grows(p)
    OBVIOUS
  <2>1. PICK i \in DOMAIN Roots : p = <<Roots[i]>>
    BY LevelRule DEF RootPaths
  <2>2. Len(p) = 1 /\ p[1] = Roots[i]
    BY <2>1
  <2> QED
    BY <2>2 DEF Grows, ToSet
<1>3. ASSUME NEW k \in 1 .. Cardinality(Dir), Good(k - 1) PROVE Good(k)
  <2> SUFFICES ASSUME NEW e \in Level[k] PROVE Grows(e)
    OBVIOUS
  <2>1. PICK p \in Level[k - 1] :
          Last(p) \in Dir /\ ~Closed(p) /\ \E j \in DOMAIN Names(p) : e = Append(p, Names(p)[j])
    BY LevelRule, BelowMember
  <2>2. k - 1 \in DOMAIN Level
    BY <1>1
  <2>3. p \in Seq(Name) /\ Len(p) = k /\ p \in Path /\ k \in Nat \ {0}
    BY <1>1, <2>2, PathSeq
  <2>4. Grows(p)
    BY <1>3
  <2> QED
    BY <2>1, <2>3, <2>4, GrowsOn
<1>4. Bad = {}
  <2> SUFFICES ASSUME Bad # {} PROVE FALSE
    OBVIOUS
  <2>1. PICK m \in Bad : \A n \in Bad : m <= n
    <3>1. Bad \in SUBSET Nat
      BY <1>1
    <3> HIDE DEF Bad
    <3> QED
      BY <3>1, LeastNatural
  <2>2. m \in 1 .. Cardinality(Dir) /\ ~Good(m)
    BY <1>1, <1>2, <2>1
  <2>3. m - 1 \in DOMAIN Level /\ ~(m <= m - 1)
    BY <1>1, <2>2
  <2> HIDE DEF Good
  <2>4. Good(m - 1)
    BY <2>1, <2>3
  <2> QED
    BY <1>3, <2>2, <2>4
<1> QED
  BY <1>4 DEF Path

-----------------------------------------------------------------------------
(* The order of the descent.                                               *)

LEMMA Phases ==
  /\ Inside = 6
  /\ Phase("entry failed") = 1 /\ (Streaming => Phase("entry") = 2) /\ (~Streaming => Phase("entry") = 9)
  /\ Phase("carried") = 3 /\ Phase("deferred") = 7 /\ Phase("deferredToo") = 8
  /\ \A kind \in {"key", "read", "rules"} : Phase(kind) \in 4 .. 5
  /\ \A kind \in AtOpening : Phase(kind) \in 3 .. 5
  /\ \A kind \in AtClosing : Phase(kind) \in 7 .. 8
BY DEF Inside, Phase, AtOpening, AtClosing

LEMMA Promises ==
  \A a : a \in Promised <=>
    /\ a[1] \in ItemKinds /\ a[2] \in Path /\ a = <<a[1], a[2]>>
    /\ Met(a[2]) /\ Yields(a[1], a[2]) /\ Reportable(a)
BY DEF Promised

\* The path of an entry of p's listing.
Son(p, k) == Append(p, Names(p)[k])

LEMMA Sons ==
  ASSUME NEW p \in Path, Last(p) \in Dir, NEW k \in DOMAIN Names(p)
  PROVE  /\ p \in Seq(Name) /\ Len(p) \in Nat \ {0} /\ p # <<>>
         /\ k \in Nat \ {0} /\ k <= Len(Names(p)) /\ Len(Names(p)) \in Nat
         /\ Son(p, k) \in Seq(Name) /\ Len(Son(p, k)) = Len(p) + 1 /\ Last(Son(p, k)) = Names(p)[k]
         /\ \A i \in 1 .. Len(p) : Son(p, k)[i] = p[i]
         /\ IsStrictPrefix(p, Son(p, k))
<1>1. p \in Seq(Name) /\ Len(p) \in Nat \ {0}
  BY PathFields
<1>2. /\ DOMAIN Names(p) = 1 .. Len(Names(p)) /\ Len(Names(p)) \in Nat
      /\ Son(p, k) \in Seq(Name) /\ Len(Son(p, k)) = Len(p) + 1 /\ Last(Son(p, k)) = Names(p)[k]
      /\ \A i \in 1 .. Len(p) : Son(p, k)[i] = p[i]
  BY <1>1, Child DEF Son
<1>3. IsPrefix(p, Son(p, k)) /\ Len(p) < Len(Son(p, k))
  BY <1>1, <1>2, Prefix
<1> QED
  BY <1>1, <1>2, <1>3, PrefixSteps

LEMMA Beneath ==
  ASSUME NEW p \in Path, Last(p) \in Dir, NEW k \in DOMAIN Names(p), NEW q \in Path, IsPrefix(Son(p, k), q)
  PROVE  IsStrictPrefix(p, q) /\ SubSeq(q, 1, Len(p)) = p /\ Len(p) \in 1 .. Len(q) - 1
<1>1. q \in Seq(Name) /\ Len(q) \in Nat
  BY PathFields
<1>2. IsPrefix(p, Son(p, k)) /\ p \in Seq(Name) /\ Son(p, k) \in Seq(Name) /\ Len(p) \in Nat \ {0}
      /\ Len(Son(p, k)) = Len(p) + 1
  BY Sons DEF IsStrictPrefix
<1>3. IsPrefix(p, q) /\ Len(p) + 1 <= Len(q)
  BY <1>1, <1>2, PrefixSteps, Prefix
<1>4. Len(p) < Len(q) /\ Len(p) \in 1 .. Len(q) - 1
  BY <1>1, <1>2, <1>3
<1> QED
  BY <1>1, <1>2, <1>3, <1>4, PrefixSteps

LEMMA LeftAt ==
  ASSUME NEW p \in Path, Last(p) \in Dir, NEW i \in DOMAIN Names(p), NEW j \in DOMAIN Names(p), i < j,
         NEW q \in Path, NEW r \in Path, IsPrefix(Son(p, i), q), IsPrefix(Son(p, j), r)
  PROVE  Left(q, r)
<1>1. SubSeq(q, 1, Len(p)) = p /\ Len(p) \in 1 .. Len(q) - 1 /\ p # <<>>
  BY Beneath, Sons
<1>2. Len(p) \in 0 .. Len(q) - 1 /\ Siblings(p) = Names(p)
  BY <1>1 DEF Siblings
<1> QED
  BY <1>1, <1>2 DEF Left, Son

\* A path begins with its root.
LEMMA FirstName ==
  ASSUME NEW p \in Path
  PROVE  /\ SubSeq(p, 1, 0) = <<>> /\ 0 \in 0 .. Len(p) - 1
         /\ p[1] \in Name /\ Append(<<>>, p[1]) = <<p[1]>> /\ IsPrefix(<<p[1]>>, p)
<1>1. p \in Seq(Name) /\ Len(p) \in Nat \ {0} /\ p[1] \in Name
  BY PathFields, ElementOfSeq
<1>2. SubSeq(p, 1, 0) = <<>> /\ 0 \in 0 .. Len(p) - 1
  <2>1. SubSeq(p, 1, 0) \in Seq(Name) /\ Len(SubSeq(p, 1, 0)) = 0
    BY <1>1, Parts
  <2> QED
    BY <1>1, <2>1, EmptySeq
<1>3. Append(<<>>, p[1]) = <<p[1]>> /\ <<p[1]>> \in Seq(Name) /\ Len(<<p[1]>>) = 1 /\ <<p[1]>>[1] = p[1]
  BY <1>1
<1> DEFINE s == <<p[1]>>
<1>4. s \in Seq(Name) /\ Len(s) = 1 /\ \A i \in 1 .. Len(s) : s[i] = p[i]
  BY <1>3
<1> HIDE DEF s
<1>5. IsPrefix(s, p)
  BY <1>1, <1>4, Prefix
<1> QED
  BY <1>1, <1>2, <1>3, <1>5 DEF s

LEMMA LeftRoot ==
  ASSUME NEW i \in DOMAIN WalkedRoots, NEW j \in DOMAIN WalkedRoots, i < j,
         NEW q \in Path, NEW r \in Path, q[1] = WalkedRoots[i], r[1] = WalkedRoots[j]
  PROVE  Left(q, r)
<1>1. /\ SubSeq(q, 1, 0) = <<>> /\ 0 \in 0 .. Len(q) - 1
      /\ IsPrefix(Append(<<>>, q[1]), q) /\ IsPrefix(Append(<<>>, r[1]), r)
  BY FirstName
<1> QED
  BY <1>1 DEF Left, Siblings

\* What lies at or below a listed entry comes before what a listing that has
\* passed it still owes.
LEMMA PassedFirst ==
  ASSUME NEW f, f.kind = "frame", f.path \in Path, Last(f.path) \in Dir, f.next \in Nat,
         NEW k \in DOMAIN Names(f.path), k <= f.next,
         NEW a, NEW b, a[2] \in Path, b[2] \in Path, IsPrefix(Son(f.path, k), a[2]), Owes(f, b)
  PROVE  Before(a, b)
<1>1. CASE b[2] = f.path /\ b[1] \in AtClosing
  <2>1. IsStrictPrefix(b[2], a[2])
    BY <1>1, Beneath
  <2>2. Phase(b[1]) \in 7 .. 8 /\ Inside = 6
    BY <1>1, Phases
  <2> QED
    BY <2>1, <2>2 DEF Before
<1>2. ASSUME NEW j \in DOMAIN Names(f.path), j > f.next, IsPrefix(Son(f.path, j), b[2]) PROVE Before(a, b)
  <2>1. k < j
    BY <1>2, Sons
  <2>2. Left(a[2], b[2])
    BY <1>2, <2>1, LeftAt
  <2> QED
    BY <2>2 DEF Before
<1> QED
  BY <1>1, <1>2 DEF Owes, Son

\* Passing an entry leaves what lies at it and below it to others.
LEMMA OwesNext ==
  ASSUME NEW f, NEW g, f.kind = "frame", g.kind = "frame", g.path = f.path, f.path \in Path, Last(f.path) \in Dir,
         f.next \in Nat, g.next = f.next + 1, g.next \in DOMAIN Names(f.path)
  PROVE  \A a : Owes(f, a) <=> IsPrefix(Son(f.path, g.next), a[2]) \/ Owes(g, a)
<1>1. \A k \in DOMAIN Names(f.path) : k > f.next <=> k = g.next \/ k > g.next
  BY Sons
<1> QED
  BY <1>1 DEF Owes, Son

\* What a listing at its end still owes.
LEMMA OwesLast ==
  ASSUME NEW f, f.kind = "frame", f.path \in Path, Last(f.path) \in Dir, f.next = Len(Names(f.path))
  PROVE  \A a : Owes(f, a) <=> a[2] = f.path /\ a[1] \in AtClosing
<1>1. \A k \in DOMAIN Names(f.path) : ~(k > f.next)
  BY Sons
<1> QED
  BY <1>1 DEF Owes

\* The items at or below an entry: its own, and those of the directory task.
LEMMA OwesSon ==
  ASSUME NEW t, t.kind = "dir", t.path \in Seq(Name)
  PROVE  \A a \in Promised :
           IsPrefix(t.path, a[2]) <=> a = <<"entry failed", t.path>> \/ a = <<"entry", t.path>> \/ Owes(t, a)
<1> SUFFICES ASSUME NEW a \in Promised
             PROVE IsPrefix(t.path, a[2]) <=>
                     a = <<"entry failed", t.path>> \/ a = <<"entry", t.path>> \/ Owes(t, a)
  OBVIOUS
<1>1. a[1] \in ItemKinds /\ a[2] \in Path /\ a = <<a[1], a[2]>> /\ a[2] \in Seq(Name)
  BY Promises, PathFields
<1>2. IsPrefix(t.path, a[2]) <=> a[2] = t.path \/ IsStrictPrefix(t.path, a[2])
  BY <1>1, PrefixSteps DEF IsStrictPrefix
<1>3. a[1] \in {"entry failed", "entry"} \cup AtOpening \cup AtClosing
  BY <1>1 DEF ItemKinds, AtOpening, AtClosing
<1>4. Owes(t, a) <=> (a[2] = t.path /\ a[1] \in AtOpening \cup AtClosing) \/ IsStrictPrefix(t.path, a[2])
  BY DEF Owes
<1>5. ~IsStrictPrefix(t.path, t.path)
  BY DEF IsStrictPrefix
<1>6. \A kind : a[1] = kind /\ a[2] = t.path <=> a = <<kind, t.path>>
  <2>1. PICK l, q : a = <<l, q>>
    BY <1>1
  <2> QED
    BY <2>1
<1> QED
  BY <1>2, <1>3, <1>4, <1>6

\* An entry, and its error, against its subtree.
LEMMA EntryOrder ==
  ASSUME NEW t, t.kind = "dir", NEW a, Owes(t, a), NEW e, e[2] = t.path
  PROVE  /\ e[1] = "entry failed" => Before(e, a)
         /\ e[1] = "entry" => IF Streaming THEN Before(e, a) ELSE Before(a, e)
<1>1. Owes(t, a) <=> (a[2] = t.path /\ a[1] \in AtOpening \cup AtClosing) \/ IsStrictPrefix(t.path, a[2])
  BY DEF Owes
<1>2. /\ a[1] \in AtOpening => Phase(a[1]) \in 3 .. 5
      /\ a[1] \in AtClosing => Phase(a[1]) \in 7 .. 8
  BY Phases
<1>3. /\ Inside = 6
      /\ e[1] = "entry failed" => Phase(e[1]) = 1
      /\ e[1] = "entry" /\ Streaming => Phase(e[1]) = 2
      /\ e[1] = "entry" /\ ~Streaming => Phase(e[1]) = 9
  BY Phases
<1>4. CASE a[2] = t.path /\ a[1] \in AtOpening \cup AtClosing
  <2>1. Phase(a[1]) \in 3 .. 8
    BY <1>2, <1>4
  <2>2. /\ Phase(e[1]) = 1 => Before(e, a)
        /\ Phase(e[1]) = 2 => Before(e, a)
        /\ Phase(e[1]) = 9 => Before(a, e)
    <3>1. /\ Phase(e[1]) = 1 => Phase(e[1]) < Phase(a[1])
          /\ Phase(e[1]) = 2 => Phase(e[1]) < Phase(a[1])
          /\ Phase(e[1]) = 9 => Phase(a[1]) < Phase(e[1])
      BY <2>1
    <3> QED
      BY <1>4, <3>1 DEF Before
  <2> QED
    BY <1>3, <2>2
<1>5. CASE IsStrictPrefix(t.path, a[2])
  <2>1. /\ Phase(e[1]) = 1 => Before(e, a)
        /\ Phase(e[1]) = 2 => Before(e, a)
        /\ Phase(e[1]) = 9 => Before(a, e)
    <3>1. /\ Phase(e[1]) = 1 => Phase(e[1]) < Inside
          /\ Phase(e[1]) = 2 => Phase(e[1]) < Inside
          /\ Phase(e[1]) = 9 => Inside < Phase(e[1])
      BY DEF Inside
    <3> QED
      BY <1>5, <3>1 DEF Before
  <2> QED
    BY <1>3, <2>1
<1> QED
  BY <1>1, <1>4, <1>5

\* What comes when a directory is opened, against what its listing owes.
LEMMA OpeningOrder ==
  ASSUME NEW f, f.kind = "frame", f.path \in Path, Last(f.path) \in Dir,
         NEW kind \in {"carried", "rules"}, NEW a, a[2] \in Path, Owes(f, a)
  PROVE  Before(<<kind, f.path>>, a)
<1>1. \/ a[2] = f.path /\ a[1] \in AtClosing
      \/ \E k \in DOMAIN Names(f.path) : IsPrefix(Son(f.path, k), a[2])
  BY DEF Owes, Son
<1>2. Phase(kind) \in 3 .. 5 /\ Inside = 6
  <2>1. kind \in AtOpening
    BY DEF AtOpening
  <2> QED
    BY <2>1, Phases
<1>3. a[1] \in AtClosing => Phase(a[1]) \in 7 .. 8
  BY Phases
<1>4. \A k \in DOMAIN Names(f.path) : IsPrefix(Son(f.path, k), a[2]) => IsStrictPrefix(f.path, a[2])
  BY Beneath
<1>5. <<kind, f.path>>[2] = f.path /\ <<kind, f.path>>[1] = kind
  OBVIOUS
<1> QED
  BY <1>1, <1>2, <1>3, <1>4, <1>5 DEF Before

LEMMA SameOrder ==
  \A p : /\ \A kind \in {"key", "read", "rules"} : Before(<<"carried", p>>, <<kind, p>>)
         /\ Before(<<"deferred", p>>, <<"deferredToo", p>>)
<1> SUFFICES ASSUME NEW p
             PROVE /\ \A kind \in {"key", "read", "rules"} : Before(<<"carried", p>>, <<kind, p>>)
                   /\ Before(<<"deferred", p>>, <<"deferredToo", p>>)
  OBVIOUS
<1>1. /\ Phase("carried") = 3 /\ Phase("deferred") = 7 /\ Phase("deferredToo") = 8
      /\ \A kind \in {"key", "read", "rules"} : Phase(kind) \in 4 .. 5
  BY Phases
<1>2. \A kind : <<kind, p>>[2] = p /\ <<kind, p>>[1] = kind
  OBVIOUS
<1> QED
  BY <1>1, <1>2 DEF Before

\* A directory that is listed hands what is left to its listing; one that is
\* not, leaves nothing.
LEMMA OwesOpening ==
  ASSUME NEW t, NEW f, t.kind = "dir", f.kind = "frame", f.path = t.path, t.path \in Path, Last(t.path) \in Dir,
         f.next = 0
  PROVE  \A a \in Promised : Owes(t, a) <=> (a[2] = t.path /\ a[1] \in AtOpening) \/ Owes(f, a)
<1> SUFFICES ASSUME NEW a \in Promised
             PROVE Owes(t, a) <=> (a[2] = t.path /\ a[1] \in AtOpening) \/ Owes(f, a)
  OBVIOUS
<1>1. a[2] \in Path
  BY Promises
<1>2. IsStrictPrefix(t.path, a[2]) <=> \E k \in DOMAIN Names(t.path) : IsPrefix(Son(t.path, k), a[2])
  <2>1. ASSUME IsStrictPrefix(t.path, a[2])
        PROVE \E k \in DOMAIN Names(t.path) : IsPrefix(Son(t.path, k), a[2])
    <3>1. /\ a[2] \in Seq(Name) /\ t.path \in Seq(Name) /\ Len(a[2]) \in Nat /\ Len(t.path) \in Nat \ {0}
          /\ Len(t.path) < Len(a[2]) /\ SubSeq(a[2], 1, Len(t.path)) = t.path /\ IsPrefix(t.path, a[2])
      BY <1>1, <2>1, PathFields, PrefixSteps
    <3>2. Len(t.path) \in 1 .. Len(a[2]) - 1
      BY <3>1
    <3>3. PICK k \in DOMAIN Names(t.path) : a[2][Len(t.path) + 1] = Names(t.path)[k]
      <4>1. Grows(a[2])
        BY <1>1, PathGrows
      <4>2. \E k \in DOMAIN Names(SubSeq(a[2], 1, Len(t.path))) :
              a[2][Len(t.path) + 1] = Names(SubSeq(a[2], 1, Len(t.path)))[k]
        BY <3>2, <4>1 DEF Grows
      <4> QED
        BY <3>1, <4>2
    <3>4. /\ Son(t.path, k) \in Seq(Name) /\ Len(Son(t.path, k)) = Len(t.path) + 1
          /\ \A i \in 1 .. Len(t.path) : Son(t.path, k)[i] = t.path[i]
          /\ Son(t.path, k)[Len(t.path) + 1] = Names(t.path)[k]
      BY Sons DEF Last
    <3>5. \A i \in 1 .. Len(t.path) : t.path[i] = a[2][i]
      BY <3>1, Prefix
    <3>6. \A i \in 1 .. Len(Son(t.path, k)) : Son(t.path, k)[i] = a[2][i]
      BY <3>1, <3>3, <3>4, <3>5
    <3>7. Len(Son(t.path, k)) <= Len(a[2])
      BY <3>1, <3>4
    <3> QED
      BY <3>1, <3>4, <3>6, <3>7, Prefix
  <2>2. ASSUME NEW k \in DOMAIN Names(t.path), IsPrefix(Son(t.path, k), a[2]) PROVE IsStrictPrefix(t.path, a[2])
    BY <1>1, <2>2, Beneath
  <2> QED
    BY <2>1, <2>2
<1>3. \A k \in DOMAIN Names(t.path) : k > f.next
  BY Sons
<1> QED
  BY <1>2, <1>3 DEF Owes, Son

LEMMA OwesUnlisted ==
  ASSUME NEW t, t.kind = "dir", t.path \in Path, ~Listed(t.path)
  PROVE  \A a \in Promised : Owes(t, a) => a[2] = t.path /\ a[1] \in {"carried", "key", "read"}
<1> SUFFICES ASSUME NEW a \in Promised, Owes(t, a)
             PROVE a[2] = t.path /\ a[1] \in {"carried", "key", "read"}
  OBVIOUS
<1>1. a[2] \in Path /\ Met(a[2]) /\ Yields(a[1], a[2])
  BY Promises
<1>2. ~IsStrictPrefix(t.path, a[2])
  <2> SUFFICES ASSUME IsStrictPrefix(t.path, a[2]) PROVE FALSE
    OBVIOUS
  <2>1. /\ a[2] \in Seq(Name) /\ t.path \in Seq(Name) /\ Len(a[2]) \in Nat /\ Len(t.path) \in Nat \ {0}
        /\ Len(t.path) < Len(a[2]) /\ SubSeq(a[2], 1, Len(t.path)) = t.path
    BY <1>1, PathFields, PrefixSteps
  <2>2. Len(t.path) \in 1 .. Len(a[2]) - 1
    BY <2>1
  <2> QED
    BY <1>1, <2>1, <2>2 DEF Met
<1>3. a[2] = t.path /\ a[1] \in AtOpening \cup AtClosing
  BY <1>2 DEF Owes
<1> QED
  BY <1>1, <1>3 DEF Yields, AtOpening, AtClosing

-----------------------------------------------------------------------------
(* What a step hands out: at most two items.                               *)

\* The members of S in a row, S having no other members than a and b.
Row(es, S, a, b) ==
  /\ es \in Seq(Items) /\ S \subseteq {a, b} /\ S \subseteq Items
  /\ \A i \in 1 .. Len(es) : es[i] \in S
  /\ \A x \in S : \E i \in 1 .. Len(es) : es[i] = x
  /\ \A i, j \in 1 .. Len(es) : i < j => es[i] = a /\ es[j] = b
Emits(es) ==
  /\ items' \in Seq(Items) /\ stash' \in Seq(Items)
  /\ Out' = Out \o es /\ ToSet(items) \subseteq ToSet(items')
Written == items \in Seq(Items) /\ stash \in Seq(Items)

LEMMA Joined ==
  ASSUME NEW s \in Seq(Items), NEW t \in Seq(Items)
  PROVE  /\ Len(s) \in Nat /\ Len(t) \in Nat /\ DOMAIN (s \o t) = 1 .. Len(s) + Len(t)
         /\ DOMAIN s = 1 .. Len(s)
         /\ \A i \in DOMAIN (s \o t) :
              \/ i \in 1 .. Len(s) /\ (s \o t)[i] = s[i]
              \/ \E k \in 1 .. Len(t) : i = Len(s) + k /\ (s \o t)[i] = t[k]
         /\ \A i \in 1 .. Len(s) : i \in DOMAIN (s \o t) /\ (s \o t)[i] = s[i]
         /\ \A k \in 1 .. Len(t) : Len(s) + k \in DOMAIN (s \o t) /\ (s \o t)[Len(s) + k] = t[k]
<1>1. /\ Len(s) \in Nat /\ Len(t) \in Nat /\ DOMAIN s = 1 .. Len(s)
      /\ s \o t \in Seq(Items) /\ Len(s \o t) = Len(s) + Len(t)
      /\ \A i \in 1 .. Len(s) + Len(t) : (s \o t)[i] = IF i <= Len(s) THEN s[i] ELSE t[i - Len(s)]
  BY LenProperties, ConcatProperties
<1>2. DOMAIN (s \o t) = 1 .. Len(s) + Len(t)
  BY <1>1, LenProperties
<1>3. ASSUME NEW i \in DOMAIN (s \o t)
      PROVE  \/ i \in 1 .. Len(s) /\ (s \o t)[i] = s[i]
             \/ \E k \in 1 .. Len(t) : i = Len(s) + k /\ (s \o t)[i] = t[k]
  <2>1. CASE i <= Len(s)
    BY <1>1, <1>2, <2>1
  <2>2. CASE ~(i <= Len(s))
    <3>1. i - Len(s) \in 1 .. Len(t) /\ i = Len(s) + (i - Len(s))
      BY <1>1, <1>2, <2>2
    <3>2. (s \o t)[i] = t[i - Len(s)]
      BY <1>1, <1>2, <2>2
    <3> QED
      BY <3>1, <3>2
  <2> QED
    BY <2>1, <2>2
<1>4. \A i \in 1 .. Len(s) : i \in DOMAIN (s \o t) /\ (s \o t)[i] = s[i]
  BY <1>1, <1>2
<1>5. ASSUME NEW k \in 1 .. Len(t) PROVE Len(s) + k \in DOMAIN (s \o t) /\ (s \o t)[Len(s) + k] = t[k]
  <2>1. Len(s) + k \in 1 .. Len(s) + Len(t) /\ ~(Len(s) + k <= Len(s)) /\ (Len(s) + k) - Len(s) = k
    BY <1>1
  <2> QED
    BY <1>1, <1>2, <2>1
<1> QED
  BY <1>1, <1>2, <1>3, <1>4, <1>5

LEMMA Longer ==
  ASSUME NEW s \in Seq(Items)
  PROVE  /\ \A t \in Seq(Items) : ToSet(s) \subseteq ToSet(s \o t)
         /\ \A x \in Items : Append(s, x) \in Seq(Items) /\ ToSet(s) \subseteq ToSet(Append(s, x))
                            /\ x \in ToSet(Append(s, x))
<1>1. ASSUME NEW t \in Seq(Items) PROVE ToSet(s) \subseteq ToSet(s \o t)
  <2>1. DOMAIN s = 1 .. Len(s) /\ \A i \in 1 .. Len(s) : i \in DOMAIN (s \o t) /\ (s \o t)[i] = s[i]
    BY Joined
  <2> DEFINE u == s \o t
  <2>2. \A i \in DOMAIN s : i \in DOMAIN u /\ u[i] = s[i]
    BY <2>1
  <2> HIDE DEF u
  <2>3. ToSet(s) \subseteq ToSet(u)
    BY <2>2 DEF ToSet
  <2> QED
    BY <2>3 DEF u
<1>2. ASSUME NEW x \in Items
      PROVE  Append(s, x) \in Seq(Items) /\ ToSet(s) \subseteq ToSet(Append(s, x)) /\ x \in ToSet(Append(s, x))
  <2>1. <<x>> \in Seq(Items) /\ Append(s, x) = s \o <<x>> /\ Append(s, x) \in Seq(Items)
    OBVIOUS
  <2>2. Len(s) + 1 \in DOMAIN Append(s, x) /\ Append(s, x)[Len(s) + 1] = x
    OBVIOUS
  <2> DEFINE u == Append(s, x)
  <2>3. \E i \in DOMAIN u : u[i] = x
    BY <2>2
  <2> HIDE DEF u
  <2>4. x \in ToSet(u)
    BY <2>3 DEF ToSet
  <2> QED
    BY <1>1, <2>1, <2>4 DEF u
<1> QED
  BY <1>1, <1>2

LEMMA Rows ==
  ASSUME NEW a \in Items, NEW b \in Items
  PROVE  /\ Row(<<>>, {}, a, b)
         /\ Row(<<a>>, {a}, a, b)
         /\ Row(<<b>>, {b}, a, b)
         /\ Row(<<a, b>>, {a, b}, a, b)
<1>1. /\ <<>> \in Seq(Items) /\ Len(<<>>) = 0
      /\ <<a>> \in Seq(Items) /\ Len(<<a>>) = 1 /\ <<a>>[1] = a
      /\ <<b>> \in Seq(Items) /\ Len(<<b>>) = 1 /\ <<b>>[1] = b
      /\ <<a, b>> \in Seq(Items) /\ Len(<<a, b>>) = 2 /\ <<a, b>>[1] = a /\ <<a, b>>[2] = b
  OBVIOUS
<1>2. Row(<<>>, {}, a, b)
  BY <1>1 DEF Row
<1>3. ASSUME NEW x \in {a, b} PROVE Row(<<x>>, {x}, a, b)
  <2>1. <<x>> \in Seq(Items) /\ Len(<<x>>) = 1 /\ <<x>>[1] = x
    BY <1>1
  <2> QED
    BY <2>1 DEF Row
<1>4. Row(<<a, b>>, {a, b}, a, b)
  <2> DEFINE s == <<a, b>>
  <2>1. s \in Seq(Items) /\ Len(s) = 2 /\ s[1] = a /\ s[2] = b
    BY <1>1
  <2> HIDE DEF s
  <2>2. /\ \A i \in 1 .. Len(s) : s[i] \in {a, b}
        /\ \A i, j \in 1 .. Len(s) : i < j => s[i] = a /\ s[j] = b
        /\ \A x \in {a, b} : \E i \in 1 .. Len(s) : s[i] = x
    BY <2>1
  <2>3. Row(s, {a, b}, a, b)
    BY <2>1, <2>2 DEF Row
  <2> QED
    BY <2>3 DEF s
<1> QED
  BY <1>2, <1>3, <1>4

\* Nothing but the order of two steps tells what is returned now from what waits.
LEMMA Handed ==
  ASSUME Written, stash = <<>>, NEW b \in Items
  PROVE  /\ HandOut(b) => Emits(<<b>>) /\ items' = Append(items, b) /\ stash' = <<>>
         /\ UNCHANGED <<items, stash>> => Emits(<<>>)
<1>1. Out = items
  BY DEF Out, Written
<1>2. ASSUME HandOut(b) PROVE Emits(<<b>>) /\ items' = Append(items, b) /\ stash' = <<>>
  <2>1. items' = Append(items, b) /\ stash' = <<>>
    BY <1>2 DEF HandOut
  <2>2. Append(items, b) \in Seq(Items) /\ Append(items, b) = items \o <<b>>
    BY DEF Written
  <2>3. Out' = items' \o stash'
    BY DEF Out
  <2>4. Append(items, b) \o <<>> = Append(items, b)
    BY <2>2
  <2> QED
    BY <1>1, <2>1, <2>2, <2>3, <2>4, Longer DEF Emits, Written
<1>3. ASSUME UNCHANGED <<items, stash>> PROVE Emits(<<>>)
  <2>1. Out' = Out
    BY <1>3 DEF Out
  <2>2. Out \o <<>> = Out
    BY <1>1 DEF Written
  <2> QED
    BY <1>3, <2>1, <2>2 DEF Emits, Written
<1> QED
  BY <1>2, <1>3

LEMMA KeptOut ==
  ASSUME Written, stash = <<>>, NEW kept \in Seq(Items)
  PROVE  /\ items' = Append(items, Head(kept)) /\ stash' = Tail(kept) \o stash /\ kept # <<>> => Emits(kept)
         /\ items' = items \o kept /\ stash' = stash => Emits(kept)
<1>1. Out = items /\ Out' = items' \o stash'
  BY DEF Out, Written
<1>2. ASSUME items' = Append(items, Head(kept)), stash' = Tail(kept) \o stash, kept # <<>> PROVE Emits(kept)
  <2>1. Tail(kept) \in Seq(Items) /\ Head(kept) \in Items /\ stash' = Tail(kept)
    BY <1>2
  <2>2. Append(items, Head(kept)) \in Seq(Items)
    BY <2>1 DEF Written
  <2>3. Append(items, Head(kept)) \o Tail(kept) = items \o kept
    <3>1. kept = <<Head(kept)>> \o Tail(kept) /\ <<Head(kept)>> \in Seq(Items)
      BY <1>2, <2>1
    <3>2. Append(items, Head(kept)) = items \o <<Head(kept)>>
      BY <2>1 DEF Written
    <3> QED
      BY <2>1, <3>1, <3>2, ConcatAssociative DEF Written
  <2> QED
    BY <1>1, <1>2, <2>1, <2>2, <2>3, Longer DEF Emits, Written
<1>3. ASSUME items' = items \o kept, stash' = stash PROVE Emits(kept)
  <2>1. items \o kept \in Seq(Items)
    BY DEF Written
  <2>2. (items \o kept) \o <<>> = items \o kept
    BY <2>1
  <2> QED
    BY <1>1, <1>3, <2>1, <2>2, Longer DEF Emits, Written
<1> QED
  BY <1>2, <1>3

\* What a step meets, P: an error a that is none of a read, then a failure or a
\* second such error b; and what Report makes of it, S.
Meets(ruleErrors, failure, P, a, b) ==
  \/ ruleErrors = (IF a \in P THEN <<a>> ELSE <<>>) /\ failure = (IF b \in P THEN <<b>> ELSE <<>>)
  \/ /\ ruleErrors = (IF a \in P THEN <<a>> ELSE <<>>) \o (IF b \in P THEN <<b>> ELSE <<>>)
     /\ failure = <<>> /\ ~RootFailure(b)
Reports(es, S, P, a, b) ==
  /\ Row(es, S, a, b) /\ Emits(es) /\ (S # {} => \E e \in S : e \in ToSet(items'))
  /\ a \in S <=> a \in P /\ Reportable(a)
  /\ b \in S <=> b \in P /\ Reportable(b) /\ ~(world.policy = "abort" /\ a \in P)
  /\ IF world.policy = "abort" /\ P # {}
     THEN /\ stopped' = TRUE /\ stash' = <<>> /\ outcome' = (IF Streaming THEN outcome ELSE "failed")
          /\ \E e \in S : items' = Append(items, e)
     ELSE UNCHANGED <<stopped, outcome>> /\ (S = {} => UNCHANGED <<items, stash, turn>>)

LEMMA Met2 ==
  ASSUME NEW a \in Items, NEW b \in Items, a # b, NEW P \in SUBSET {a, b}, NEW R, NEW F, Meets(R, F, P, a, b)
  PROVE  LET kept == (IF world.policy = "collect" THEN R ELSE <<>>)
                     \o (IF F # <<>> /\ Kept(Head(F)) THEN F ELSE <<>>) IN
         /\ P = {} => R \o F = <<>>
         /\ a \in P /\ b \notin P => R \o F = <<a>>
         /\ a \notin P /\ b \in P => R \o F = <<b>>
         /\ a \in P /\ b \in P => R \o F = <<a, b>>
         /\ world.policy = "collect" => kept = R \o F
         /\ world.policy = "abort" => kept = <<>>
         /\ world.policy = "skip" /\ b \in P /\ RootFailure(b) => kept = <<b>>
         /\ world.policy = "skip" /\ ~(b \in P /\ RootFailure(b)) => kept = <<>>
<1> DEFINE G == IF F # <<>> /\ Kept(Head(F)) THEN F ELSE <<>>
           A == IF a \in P THEN <<a>> ELSE <<>>
           B == IF b \in P THEN <<b>> ELSE <<>>
<1>1. /\ <<a>> \in Seq(Items) /\ Len(<<a>>) = 1 /\ <<a>>[1] = a /\ Head(<<a>>) = a /\ <<a>> # <<>>
      /\ <<b>> \in Seq(Items) /\ Len(<<b>>) = 1 /\ <<b>>[1] = b /\ Head(<<b>>) = b /\ <<b>> # <<>>
  OBVIOUS
<1>2. \A s \in Seq(Items) : <<>> \o s = s /\ s \o <<>> = s
  OBVIOUS
<1>3. <<a>> \o <<b>> = <<a, b>>
  <2> DEFINE s == <<a>> \o <<b>>
             u == <<a, b>>
  <2>1. s \in Seq(Items) /\ Len(s) = 2 /\ s[1] = a /\ s[2] = b
    BY <1>1
  <2>2. u \in Seq(Items) /\ Len(u) = 2 /\ u[1] = a /\ u[2] = b
    OBVIOUS
  <2> HIDE DEF s, u
  <2>3. s = u
    BY <2>1, <2>2, SeqEqual
  <2> QED
    BY <2>3 DEF s, u
<1>4. A \in Seq(Items) /\ B \in Seq(Items) /\ A \o B \in Seq(Items) /\ <<>> \in Seq(Items)
  <2>1. <<>> \in Seq(Items)
    OBVIOUS
  <2>2. A \in Seq(Items)
    <3>1. CASE a \in P
      BY <1>1, <3>1
    <3>2. CASE a \notin P
      BY <2>1, <3>2
    <3> QED
      BY <3>1, <3>2
  <2>3. B \in Seq(Items)
    <3>1. CASE b \in P
      BY <1>1, <3>1
    <3>2. CASE b \notin P
      BY <2>1, <3>2
    <3> QED
      BY <3>1, <3>2
  <2> HIDE DEF A, B
  <2> QED
    BY <2>1, <2>2, <2>3
<1>5. \/ R = A /\ F = B
      \/ R = A \o B /\ F = <<>> /\ ~RootFailure(b)
  BY DEF Meets
<1>6. /\ P = {} => A \o B = <<>>
      /\ a \in P /\ b \notin P => A \o B = <<a>>
      /\ a \notin P /\ b \in P => A \o B = <<b>>
      /\ a \in P /\ b \in P => A \o B = <<a, b>>
  <2>1. <<>> \o <<>> = <<>> /\ <<a>> \o <<>> = <<a>> /\ <<>> \o <<b>> = <<b>>
    BY <1>1, <1>2
  <2> QED
    BY <1>3, <2>1
<1>7. B # <<>> => b \in P /\ B = <<b>> /\ Head(B) = b
  BY <1>1
<1>8. b \in P => B = <<b>> /\ B # <<>>
  BY <1>1
<1> HIDE DEF A, B
<1>9. R \o F = A \o B
  BY <1>2, <1>4, <1>5
<1>10. /\ world.policy = "collect" => G = F
       /\ world.policy = "abort" => G = <<>>
       /\ world.policy = "skip" /\ b \in P /\ RootFailure(b) => G = <<b>>
       /\ world.policy = "skip" /\ ~(b \in P /\ RootFailure(b)) => G = <<>>
  <2>1. world.policy = "collect" => Kept(Head(F))
    BY DEF Kept
  <2>2. world.policy = "abort" => ~Kept(Head(F))
    BY DEF Kept
  <2>3. world.policy = "skip" => (Kept(Head(F)) <=> RootFailure(Head(F)))
    BY DEF Kept
  <2>4. F # <<>> => F = B /\ b \in P /\ Head(F) = b
    BY <1>5, <1>7
  <2>5. b \in P /\ RootFailure(b) => F = <<b>> /\ F # <<>>
    BY <1>5, <1>8
  <2> QED
    BY <2>1, <2>2, <2>3, <2>4, <2>5
<1> HIDE DEF G
<1>11. world.policy # "collect" => <<>> \o G = G
  <2>1. F \in Seq(Items)
    BY <1>4, <1>5
  <2>2. G \in Seq(Items)
    BY <1>4, <2>1 DEF G
  <2> QED
    BY <1>2, <2>2
<1>12. (IF world.policy = "collect" THEN R ELSE <<>>) \o G =
         IF world.policy = "collect" THEN R \o F ELSE G
  BY <1>10, <1>11
<1> QED
  BY <1>6, <1>9, <1>10, <1>12 DEF G

LEMMA ReportOut ==
  ASSUME Written, stash = <<>>, world \in Worlds,
         NEW a \in Items, NEW b \in Items, a # b, IsError(a), IsError(b), ~RootFailure(a),
         NEW P \in SUBSET {a, b}, NEW R, NEW F, Meets(R, F, P, a, b), Report(R, F)
  PROVE  \E es, S : Reports(es, S, P, a, b)
<1> DEFINE kept == (IF world.policy = "collect" THEN R ELSE <<>>)
                   \o (IF F # <<>> /\ Kept(Head(F)) THEN F ELSE <<>>)
           errors == R \o F
<1>1. /\ P = {} => errors = <<>>
      /\ a \in P /\ b \notin P => errors = <<a>>
      /\ a \notin P /\ b \in P => errors = <<b>>
      /\ a \in P /\ b \in P => errors = <<a, b>>
      /\ world.policy = "collect" => kept = errors
      /\ world.policy = "abort" => kept = <<>>
      /\ world.policy = "skip" /\ b \in P /\ RootFailure(b) => kept = <<b>>
      /\ world.policy = "skip" /\ ~(b \in P /\ RootFailure(b)) => kept = <<>>
  BY Met2
<1>2. IF world.policy = "abort" /\ errors # <<>>
      THEN /\ items' = Append(items, Head(errors)) /\ stopped' = TRUE
           /\ outcome' = (IF Streaming THEN outcome ELSE "failed")
           /\ UNCHANGED stash
      ELSE IF Streaming /\ kept # <<>>
      THEN /\ items' = Append(items, Head(kept)) /\ stash' = Tail(kept) \o stash /\ turn' = "caller"
           /\ UNCHANGED <<stopped, outcome>>
      ELSE items' = items \o kept /\ UNCHANGED <<stash, turn, stopped, outcome>>
  BY DEF Report
<1> HIDE DEF kept, errors
<1>3. world.policy \in {"abort", "skip", "collect"}
  BY WorldFields
<1>4. /\ Row(<<>>, {}, a, b) /\ Row(<<a>>, {a}, a, b) /\ Row(<<b>>, {b}, a, b) /\ Row(<<a, b>>, {a, b}, a, b)
      /\ Head(<<a>>) = a /\ Head(<<b>>) = b /\ Head(<<a, b>>) = a
      /\ <<a>> # <<>> /\ <<b>> # <<>> /\ <<a, b>> # <<>>
  <2>1. Head(<<a>>) = a /\ Head(<<b>>) = b /\ Head(<<a, b>>) = a
    OBVIOUS
  <2>2. <<a>> # <<>> /\ <<b>> # <<>> /\ <<a, b>> # <<>>
    OBVIOUS
  <2> QED
    BY <2>1, <2>2, Rows
<1>5. world.policy = "skip" => ~Reportable(a) /\ (Reportable(b) <=> RootFailure(b))
  BY DEF Reportable
<1>6. world.policy # "skip" => Reportable(a) /\ Reportable(b)
  BY DEF Reportable
<1>7. CASE world.policy = "abort" /\ P # {}
  <2>1. PICK e \in {a, b} : /\ Head(errors) = e /\ errors # <<>> /\ e \in P
                            /\ a \in P => e = a
                            /\ a \notin P => e = b
    <3>1. a \in P \/ (a \notin P /\ b \in P)
      BY <1>7
    <3>2. CASE a \in P
      <4>1. errors = <<a>> \/ errors = <<a, b>>
        BY <1>1, <3>2
      <4> QED
        BY <1>4, <3>2, <4>1
    <3>3. CASE a \notin P /\ b \in P
      BY <1>1, <1>4, <3>3
    <3> QED
      BY <3>1, <3>2, <3>3
  <2>2. items' = Append(items, e) /\ stopped' = TRUE /\ stash' = stash
        /\ outcome' = (IF Streaming THEN outcome ELSE "failed")
    BY <1>2, <1>7, <2>1
  <2>3. Row(<<e>>, {e}, a, b)
    BY <1>4, <2>1
  <2>4. Emits(<<e>>)
    <3>1. Append(items, e) \in Seq(Items) /\ Append(items, e) = items \o <<e>>
      BY DEF Written
    <3>2. Append(items, e) \o <<>> = Append(items, e)
      BY <3>1
    <3>3. Out = items /\ Out' = items' \o stash'
      BY DEF Out, Written
    <3> QED
      BY <2>2, <3>1, <3>2, <3>3, Longer DEF Emits, Written
  <2>5. /\ a \in {e} <=> a \in P
        /\ b \in {e} <=> b \in P /\ a \notin P
    BY <2>1
  <2>6. Reports(<<e>>, {e}, P, a, b)
    <3>1. e \in ToSet(items')
      BY <2>2, Longer DEF Written
    <3> QED
      BY <1>6, <1>7, <2>2, <2>3, <2>4, <2>5, <3>1 DEF Reports
  <2> QED
    BY <2>6
<1>8. CASE ~(world.policy = "abort" /\ P # {})
  <2>1. ~(world.policy = "abort" /\ errors # <<>>)
    <3>1. P = {} => errors = <<>>
      BY <1>1
    <3> QED
      BY <1>8, <3>1
  <2>2. PICK S : /\ Row(kept, S, a, b)
                 /\ a \in S <=> a \in P /\ Reportable(a)
                 /\ b \in S <=> b \in P /\ Reportable(b) /\ ~(world.policy = "abort" /\ a \in P)
                 /\ S = {} => kept = <<>>
    <3>1. CASE world.policy = "abort"
      <4>1. P = {} /\ kept = <<>>
        BY <1>1, <1>8, <3>1
      <4> QED
        BY <1>4, <4>1
    <3>2. CASE world.policy = "skip"
      <4>1. CASE b \in P /\ RootFailure(b)
        <5>1. kept = <<b>> /\ ~Reportable(a) /\ Reportable(b)
          BY <1>1, <1>5, <3>2, <4>1
        <5> QED
          BY <1>4, <3>2, <4>1, <5>1
      <4>2. CASE ~(b \in P /\ RootFailure(b))
        <5>1. kept = <<>> /\ ~Reportable(a) /\ ~(b \in P /\ Reportable(b))
          BY <1>1, <1>5, <3>2, <4>2
        <5> QED
          BY <1>4, <5>1
      <4> QED
        BY <4>1, <4>2
    <3>3. CASE world.policy = "collect"
      <4>1. kept = errors /\ Reportable(a) /\ Reportable(b)
        BY <1>1, <1>6, <3>3
      <4>2. CASE P = {}
        BY <1>1, <1>4, <3>3, <4>1, <4>2
      <4>3. CASE a \in P /\ b \notin P
        BY <1>1, <1>4, <3>3, <4>1, <4>3
      <4>4. CASE a \notin P /\ b \in P
        BY <1>1, <1>4, <3>3, <4>1, <4>4
      <4>5. CASE a \in P /\ b \in P
        BY <1>1, <1>4, <3>3, <4>1, <4>5
      <4> QED
        BY <4>2, <4>3, <4>4, <4>5
    <3> QED
      BY <1>3, <3>1, <3>2, <3>3
  <2>3. kept \in Seq(Items)
    BY <2>2 DEF Row
  <2>4. Emits(kept) /\ UNCHANGED <<stopped, outcome>> /\ (S = {} => UNCHANGED <<items, stash, turn>>)
    <3>1. CASE Streaming /\ kept # <<>>
      BY <1>2, <2>1, <2>2, <2>3, <3>1, KeptOut
    <3>2. CASE ~(Streaming /\ kept # <<>>)
      <4>1. items' = items \o kept /\ UNCHANGED <<stash, turn, stopped, outcome>>
        BY <1>2, <2>1, <3>2
      <4>2. items \o <<>> = items
        BY DEF Written
      <4>3. Emits(kept)
        BY <2>3, <4>1, KeptOut
      <4> QED
        BY <2>2, <4>1, <4>2, <4>3
    <3> QED
      BY <3>1, <3>2
  <2>5. S # {} => \E e \in S : e \in ToSet(items')
    <3> SUFFICES ASSUME S # {} PROVE \E e \in S : e \in ToSet(items')
      OBVIOUS
    <3>1. kept # <<>>
      <4>1. \E i \in 1 .. Len(kept) : kept[i] \in S
        BY <2>2 DEF Row
      <4>2. \A i \in 1 .. 0 : FALSE
        OBVIOUS
      <4> QED
        BY <2>3, <4>1, <4>2, EmptySeq
    <3>2. Len(kept) > 0 /\ Len(kept) \in Nat
      BY <2>3, <3>1, EmptySeq
    <3>3. Head(kept) = kept[1] /\ 1 \in 1 .. Len(kept) /\ Head(kept) \in Items
      BY <2>3, <3>1, <3>2
    <3>4. Head(kept) \in S
      BY <2>2, <3>3 DEF Row
    <3>5. CASE items' = Append(items, Head(kept))
      <4>1. Head(kept) \in ToSet(items')
        BY <3>3, <3>5, Longer DEF Written
      <4> QED
        BY <3>4, <4>1
    <3>6. CASE items' = items \o kept
      <4>1. PICK s, u : s = items /\ s \in Seq(Items) /\ u = items' /\ u = s \o kept
        BY <3>6 DEF Written
      <4>2. Len(s) + 1 \in DOMAIN u /\ u[Len(s) + 1] = kept[1]
        BY <2>3, <3>3, <4>1, Joined
      <4>3. kept[1] \in ToSet(u)
        BY <4>2 DEF ToSet
      <4> QED
        BY <3>3, <3>4, <4>1, <4>3
    <3> QED
      BY <1>2, <2>1, <3>1, <3>5, <3>6
  <2>6. Reports(kept, S, P, a, b)
    BY <1>8, <2>2, <2>4, <2>5 DEF Reports
  <2> QED
    BY <2>6
<1> QED
  BY <1>7, <1>8

-----------------------------------------------------------------------------
(* As long as no root is begun, the items promised stay what they are.     *)

LEMMA SamePromises ==
  ASSUME world' = world
  PROVE  /\ Streaming' <=> Streaming
         /\ \A path : /\ Answer(path)' = Answer(path)
                      /\ Descended(path)' <=> Descended(path)
                      /\ KeyFails(path)' <=> KeyFails(path)
                      /\ ReadFails(path)' <=> ReadFails(path)
                      /\ Listed(path)' <=> Listed(path)
         /\ \A kind, path : Yields(kind, path)' <=> Yields(kind, path)
         /\ \A item : Reportable(item)' <=> Reportable(item)
         /\ \A item : Forgotten(item)' <=> Forgotten(item)
         /\ \A kind : Phase(kind)' = Phase(kind)
<1>1. Streaming' <=> Streaming
  BY DEF Streaming
<1>2. \A path, fault : Is(path, fault)' <=> Is(path, fault)
  BY DEF Is
<1>3. \A path : Answer(path)' = Answer(path)
  BY <1>1 DEF Answer
<1>4. \A path : Descended(path)' <=> Descended(path)
  BY <1>3 DEF Descended
<1>5. \A path : /\ Walked(path)' <=> Walked(path)
                /\ KeyFails(path)' <=> KeyFails(path)
                /\ ReadFails(path)' <=> ReadFails(path)
                /\ Listed(path)' <=> Listed(path)
  BY <1>2 DEF Walked, KeyFails, ReadFails, Listed
<1>6. \A kind, path : Yields(kind, path)' <=> Yields(kind, path)
  <2> SUFFICES ASSUME NEW kind, NEW path PROVE Yields(kind, path)' <=> Yields(kind, path)
    OBVIOUS
  <2>1. /\ Answer(path)' = Answer(path) /\ world'.action = world.action
        /\ Is(path, kind)' <=> Is(path, kind)
        /\ Is(path, "carried")' <=> Is(path, "carried")
    BY <1>2, <1>3
  <2>2. /\ Descended(path)' <=> Descended(path)
        /\ KeyFails(path)' <=> KeyFails(path)
        /\ ReadFails(path)' <=> ReadFails(path)
        /\ Listed(path)' <=> Listed(path)
    BY <1>4, <1>5
  <2> QED
    BY <2>1, <2>2, Zenon DEF Yields
<1>7. \A item : Reportable(item)' <=> Reportable(item)
  BY DEF Reportable
<1>8. \A item : Forgotten(item)' <=> Forgotten(item)
  BY <1>1, <1>5 DEF Forgotten
<1>9. \A kind : Phase(kind)' = Phase(kind)
  BY <1>1 DEF Phase
<1> QED
  BY <1>1, <1>3, <1>4, <1>5, <1>6, <1>7, <1>8, <1>9

LEMMA Stable ==
  ASSUME world' = world, begun' = begun
  PROVE  /\ Promised' = Promised /\ Due' = Due
         /\ \A path : Met(path)' <=> Met(path)
         /\ \A a, b : Before(a, b)' <=> Before(a, b)
         /\ \A t : Placed(t)' <=> Placed(t)
         /\ \A t, u : Ahead(t, u)' <=> Ahead(t, u)
<1>1. WalkedRoots' = WalkedRoots
  BY SamePromises DEF WalkedRoots
<1>2. \A path : Met(path)' <=> Met(path)
  BY <1>1, SamePromises DEF Met
<1>3. Promised' = Promised
  BY <1>2, SamePromises DEF Promised
<1>4. Due' = Due
  BY <1>3, SamePromises DEF Due
<1>5. \A p, q : Left(p, q)' <=> Left(p, q)
  <2>1. \A p : Siblings(p)' = Siblings(p)
    BY <1>1 DEF Siblings
  <2> QED
    BY <2>1 DEF Left
<1>6. \A a, b : Before(a, b)' <=> Before(a, b)
  BY <1>5, SamePromises DEF Before
<1>7. \A t : Placed(t)' <=> Placed(t)
  BY <1>2, <1>3, SamePromises DEF Placed
<1>8. \A t, u : Ahead(t, u)' <=> Ahead(t, u)
  BY <1>3, <1>6 DEF Ahead
<1> QED
  BY <1>2, <1>3, <1>4, <1>6, <1>7, <1>8

-----------------------------------------------------------------------------
(* A step takes one task of the agenda apart.                              *)

\* The task T lies above the first n of the stack, and there is no other.
Lies(T, n) ==
  /\ T \in Tasks /\ n \in Nat /\ n <= Len(stack)
  /\ \A i \in 1 .. n : Ahead(T, stack[i])
  /\ \A t \in Tasks : t = T \/ t = NoFrame \/ \E i \in 1 .. n : t = stack[i]

\* What a part of T still owes, T owed, and it comes after what is handed out.
Gives(T, t, S) ==
  \A x \in Promised : Owes(t, x) => Owes(T, x) /\ \A y \in S : ~IsLost(y) => Before(y, x)
Splits(T, new, S) ==
  /\ \A k \in 1 .. Len(new) : Gives(T, new[k], S) /\ Ahead(frame', new[k])
  /\ \A j, k \in 1 .. Len(new) : j < k => Ahead(new[k], new[j])
  /\ Gives(T, frame', S)
Fair(T, S) == \A y \in S : IF IsLost(y) THEN moved ELSE y \in Promised /\ Owes(T, y)

LEMMA OwesNone == \A x : ~Owes(NoFrame, x)
BY Kinds DEF Owes

LEMMA Lying ==
  ASSUME TaskInv, AgendaInv
  PROVE  /\ frame # NoFrame => Lies(frame, Len(stack))
         /\ frame = NoFrame /\ stack # <<>> => Lies(Top, Len(stack) - 1)
<1>1. stack \in Seq(Task)
  BY DEF TaskInv
<1>2. /\ Len(stack) \in Nat /\ DOMAIN stack = 1 .. Len(stack) /\ (stack # <<>> <=> Len(stack) > 0)
      /\ \A i \in 1 .. Len(stack) : stack[i] \in ToSet(stack)
      /\ \A t \in ToSet(stack) : \E i \in 1 .. Len(stack) : t = stack[i]
  BY <1>1, StackElements
<1>3. ASSUME frame # NoFrame PROVE Lies(frame, Len(stack))
  BY <1>2 DEF Lies, Tasks, AgendaInv
<1>4. ASSUME frame = NoFrame, stack # <<>> PROVE Lies(Top, Len(stack) - 1)
  <2>1. Top = stack[Len(stack)] /\ Len(stack) > 0
    BY <1>1, <1>4, BuildsPop
  <2>2. Top \in Tasks /\ Len(stack) - 1 \in Nat
    BY <1>2, <2>1 DEF Tasks
  <2>3. \A i \in 1 .. Len(stack) - 1 : Ahead(Top, stack[i])
    BY <1>2, <2>1 DEF AgendaInv
  <2>4. ASSUME NEW t \in Tasks, t # NoFrame, t # Top PROVE \E i \in 1 .. Len(stack) - 1 : t = stack[i]
    <3>1. PICK i \in 1 .. Len(stack) : t = stack[i]
      BY <1>2, <1>4, <2>4 DEF Tasks
    <3>2. i # Len(stack)
      BY <2>1, <2>4, <3>1
    <3>3. Len(stack) \in Nat /\ i \in 1 .. Len(stack)
      BY <1>2
    <3>4. i \in 1 .. Len(stack) - 1
      BY <3>2, <3>3
    <3> QED
      BY <3>1, <3>4
  <2> QED
    BY <1>2, <2>2, <2>3, <2>4 DEF Lies
<1> QED
  BY <1>3, <1>4

\* The tasks after a step that builds on the first n.
LEMMA TasksBuilt ==
  ASSUME TaskInv, NEW T, NEW n, Lies(T, n), NEW new, Builds(n, new)
  PROVE  /\ \A t \in Tasks' : \/ t = frame'
                              \/ \E i \in 1 .. n : t = stack[i] /\ t \in Tasks
                              \/ \E k \in 1 .. Len(new) : t = new[k]
         /\ \A i \in 1 .. n : stack[i] \in Tasks /\ stack[i] \in Tasks'
         /\ \A k \in 1 .. Len(new) : new[k] \in Tasks'
         /\ frame' \in Tasks'
<1>1. stack \in Seq(Task)
  BY DEF TaskInv
<1>2. /\ stack' \in Seq(Task) /\ n \in Nat /\ Len(new) \in Nat /\ n <= Len(stack) /\ Len(stack) \in Nat
      /\ \A i \in DOMAIN stack' :
           \/ i \in 1 .. n /\ i \in DOMAIN stack /\ stack'[i] = stack[i] /\ stack[i] \in ToSet(stack)
           \/ \E k \in 1 .. Len(new) : i = n + k /\ stack'[i] = new[k] /\ new[k] \in Task
      /\ DOMAIN stack' = 1 .. n + Len(new) /\ DOMAIN stack = 1 .. Len(stack)
  BY <1>1, Built
<1>3. Tasks' = ToSet(stack') \cup {frame'} /\ Tasks = ToSet(stack) \cup {frame}
  BY DEF Tasks
<1>4. ASSUME NEW i \in DOMAIN stack' PROVE stack'[i] \in Tasks'
  BY <1>3 DEF ToSet
<1>5. \A i \in 1 .. n : i \in DOMAIN stack' /\ ~(\E k \in 1 .. Len(new) : i = n + k)
  BY <1>2
<1>6. \A i \in 1 .. n : stack'[i] = stack[i] /\ stack[i] \in Tasks
  BY <1>2, <1>3, <1>5
<1>7. \A k \in 1 .. Len(new) : n + k \in DOMAIN stack' /\ n + k \notin 1 .. n
  BY <1>2
<1>8. \A k \in 1 .. Len(new) : stack'[n + k] = new[k]
  <2> SUFFICES ASSUME NEW k \in 1 .. Len(new) PROVE stack'[n + k] = new[k]
    OBVIOUS
  <2>1. PICK l \in 1 .. Len(new) : n + k = n + l /\ stack'[n + k] = new[l]
    BY <1>2, <1>7
  <2>2. k = l
    BY <1>2, <2>1
  <2> QED
    BY <2>1, <2>2
<1>9. ASSUME NEW t \in ToSet(stack')
      PROVE  \/ \E i \in 1 .. n : t = stack[i] /\ t \in Tasks
             \/ \E k \in 1 .. Len(new) : t = new[k]
  <2>1. PICK i \in DOMAIN stack' : t = stack'[i]
    BY DEF ToSet
  <2>2. \/ i \in 1 .. n
        \/ \E k \in 1 .. Len(new) : stack'[i] = new[k]
    BY <1>2
  <2> QED
    BY <1>6, <2>1, <2>2
<1> QED
  BY <1>3, <1>4, <1>5, <1>6, <1>7, <1>8, <1>9

LEMMA AgendaStep ==
  ASSUME TaskInv, AgendaInv, world' = world, begun' = begun,
         NEW T, NEW n, Lies(T, n), NEW new, Builds(n, new), NEW S, Splits(T, new, S)
  PROVE  AgendaInv'
<1>1. stack \in Seq(Task)
  BY DEF TaskInv
<1>2. /\ stack' \in Seq(Task) /\ n \in Nat /\ Len(new) \in Nat /\ n <= Len(stack) /\ Len(stack) \in Nat
      /\ \A i \in DOMAIN stack' :
           \/ i \in 1 .. n /\ i \in DOMAIN stack /\ stack'[i] = stack[i] /\ stack[i] \in ToSet(stack)
           \/ \E k \in 1 .. Len(new) : i = n + k /\ stack'[i] = new[k] /\ new[k] \in Task
      /\ DOMAIN stack' = 1 .. n + Len(new) /\ DOMAIN stack = 1 .. Len(stack)
  BY <1>1, Built
<1>3. \A t, u : Ahead(t, u)' <=> Ahead(t, u)
  BY Stable
<1>4. \A t, u : Gives(T, t, S) /\ Ahead(T, u) => Ahead(t, u)
  BY DEF Gives, Ahead
<1>5. ASSUME NEW i \in DOMAIN stack', NEW j \in DOMAIN stack', i < j
      PROVE  Ahead(stack'[j], stack'[i])
  <2>1. CASE j \in 1 .. n /\ stack'[j] = stack[j]
    <3>1. i \in 1 .. n
      BY <1>2, <1>5, <2>1
    <3>2. stack'[i] = stack[i] /\ i \in DOMAIN stack /\ j \in DOMAIN stack
      BY <1>2, <2>1, <3>1
    <3> QED
      BY <1>5, <2>1, <3>2 DEF AgendaInv
  <2>2. ASSUME NEW k \in 1 .. Len(new), j = n + k, stack'[j] = new[k] PROVE Ahead(stack'[j], stack'[i])
    <3>1. CASE i \in 1 .. n /\ stack'[i] = stack[i]
      BY <1>4, <2>2, <3>1 DEF Lies, Splits
    <3>2. ASSUME NEW l \in 1 .. Len(new), i = n + l, stack'[i] = new[l] PROVE Ahead(stack'[j], stack'[i])
      <4>1. l < k
        BY <1>2, <1>5, <2>2, <3>2
      <4> QED
        BY <2>2, <3>2, <4>1 DEF Splits
    <3> QED
      BY <1>2, <3>1, <3>2
  <2> QED
    BY <1>2, <2>1, <2>2
<1>6. ASSUME NEW i \in DOMAIN stack' PROVE Ahead(frame', stack'[i])
  <2>1. CASE i \in 1 .. n /\ stack'[i] = stack[i]
    BY <1>4, <2>1 DEF Lies, Splits
  <2>2. ASSUME NEW k \in 1 .. Len(new), stack'[i] = new[k] PROVE Ahead(frame', stack'[i])
    BY <2>2 DEF Splits
  <2> QED
    BY <1>2, <2>1, <2>2
<1>7. Promised' = Promised /\ \A a, b : Before(a, b)' <=> Before(a, b)
  BY Stable
<1>8. \A i, j \in DOMAIN stack' : i < j => \A a, b \in Promised' :
        Owes(stack'[j], a) /\ Owes(stack'[i], b) => Before(a, b)'
  BY <1>5, <1>7 DEF Ahead
<1>9. \A i \in DOMAIN stack' : \A a, b \in Promised' :
        Owes(frame', a) /\ Owes(stack'[i], b) => Before(a, b)'
  BY <1>6, <1>7 DEF Ahead
<1> QED
  BY <1>8, <1>9 DEF AgendaInv, Ahead

\* What was handed out comes before what is owed.
Behind(y, t) == \A x \in Promised : Owes(t, x) => Before(y, x)
OutTrue(out, tasks) ==
  \A i \in DOMAIN out : ~IsLost(out[i]) =>
    /\ out[i] \in Promised
    /\ \A j \in DOMAIN out : i < j /\ ~IsLost(out[j]) => Before(out[i], out[j])
    /\ \A t \in tasks : Behind(out[i], t)

LEMMA OutForm ==
  /\ OutInv <=> /\ Written /\ OutTrue(Out, Tasks)
                /\ \A i \in DOMAIN Out : IsLost(Out[i]) => moved
  /\ world' = world /\ begun' = begun =>
       (OutInv' <=> /\ Written' /\ OutTrue(Out', Tasks')
                    /\ \A i \in DOMAIN Out' : IsLost(Out'[i]) => moved')
<1>1. OutInv <=> /\ Written /\ OutTrue(Out, Tasks)
                 /\ \A i \in DOMAIN Out : IsLost(Out[i]) => moved
  BY DEF OutInv, OutTrue, Written, Behind
<1>2. ASSUME world' = world, begun' = begun
      PROVE  OutInv' <=> /\ Written' /\ OutTrue(Out', Tasks')
                         /\ \A i \in DOMAIN Out' : IsLost(Out'[i]) => moved'
  <2>1. Promised' = Promised /\ \A a, b : Before(a, b)' <=> Before(a, b)
    BY <1>2, Stable
  <2>2. OutInv' <=>
          /\ items' \in Seq(Items) /\ stash' \in Seq(Items)
          /\ \A i \in DOMAIN Out' : ~IsLost(Out'[i]) =>
               /\ Out'[i] \in Promised'
               /\ \A j \in DOMAIN Out' : i < j /\ ~IsLost(Out'[j]) => Before(Out[i], Out[j])'
               /\ \A t \in Tasks' : \A item \in Promised' : Owes(t, item) => Before(Out[i], item)'
          /\ \A i \in DOMAIN Out' : IsLost(Out'[i]) => moved'
    BY DEF OutInv
  <2> QED
    BY <2>1, <2>2 DEF OutTrue, Written, Behind
<1> QED
  BY <1>1, <1>2

LEMMA OutStep ==
  ASSUME TaskInv, OutInv, world' = world, begun' = begun, moved => moved',
         NEW T, NEW n, Lies(T, n), NEW new, Builds(n, new),
         NEW es, NEW S, NEW a, NEW b, Row(es, S, a, b), Emits(es), Fair(T, S),
         a \in S /\ b \in S => IsLost(a) \/ IsLost(b) \/ Before(a, b),
         Splits(T, new, S)
  PROVE  OutInv'
<1>1. /\ items \in Seq(Items) /\ stash \in Seq(Items) /\ Out \in Seq(Items) /\ es \in Seq(Items)
      /\ S \subseteq {a, b} /\ \A k \in 1 .. Len(es) : es[k] \in S
  <2>1. items \o stash \in Seq(Items)
    BY DEF OutInv
  <2> QED
    BY <2>1 DEF OutInv, Out, Row
<1>2. OutTrue(Out, Tasks) /\ \A i \in DOMAIN Out : IsLost(Out[i]) => moved
  BY OutForm
<1>3. PICK s : s = Out /\ s \in Seq(Items)
  BY <1>1
<1>4. PICK o : o = Out' /\ o = s \o es
  BY <1>3 DEF Emits
<1>5. /\ Len(s) \in Nat /\ Len(es) \in Nat /\ DOMAIN o = 1 .. Len(s) + Len(es) /\ DOMAIN s = 1 .. Len(s)
      /\ \A i \in DOMAIN o :
           \/ i \in 1 .. Len(s) /\ o[i] = s[i]
           \/ \E k \in 1 .. Len(es) : i = Len(s) + k /\ o[i] = es[k]
  BY <1>1, <1>3, <1>4, Joined
<1>6. \A y \in S : IF IsLost(y) THEN moved' ELSE y \in Promised /\ Owes(T, y)
  BY DEF Fair
<1>7. T \in Tasks
  BY DEF Lies
<1>8. ASSUME NEW i \in DOMAIN s, ~IsLost(s[i])
      PROVE  /\ s[i] \in Promised
             /\ \A j \in DOMAIN s : i < j /\ ~IsLost(s[j]) => Before(s[i], s[j])
             /\ \A t \in Tasks : Behind(s[i], t)
  BY <1>2, <1>3, <1>8 DEF OutTrue
<1>9. /\ \A t \in Tasks' : \/ t = frame'
                           \/ \E i \in 1 .. n : t = stack[i] /\ t \in Tasks
                           \/ \E k \in 1 .. Len(new) : t = new[k]
  BY TasksBuilt
<1>10. \A t : Gives(T, t, S) => \A y \in S : ~IsLost(y) => Behind(y, t)
  BY DEF Gives, Behind
<1>11. \A t, y : Gives(T, t, S) /\ Behind(y, T) => Behind(y, t)
  BY DEF Gives, Behind
<1>12. \A t \in Tasks' : Gives(T, t, S) \/ (t \in Tasks /\ Ahead(T, t))
  BY <1>9 DEF Splits, Lies
<1>13. ASSUME NEW i \in DOMAIN o, ~IsLost(o[i])
       PROVE  /\ o[i] \in Promised
              /\ \A j \in DOMAIN o : i < j /\ ~IsLost(o[j]) => Before(o[i], o[j])
              /\ \A t \in Tasks' : Behind(o[i], t)
  <2>1. CASE i \in 1 .. Len(s) /\ o[i] = s[i]
    <3>1. /\ s[i] \in Promised
          /\ \A j \in DOMAIN s : i < j /\ ~IsLost(s[j]) => Before(s[i], s[j])
          /\ \A t \in Tasks : Behind(s[i], t)
      BY <1>5, <1>8, <1>13, <2>1
    <3>2. ASSUME NEW j \in DOMAIN o, i < j, ~IsLost(o[j]) PROVE Before(o[i], o[j])
      <4>1. CASE j \in 1 .. Len(s) /\ o[j] = s[j]
        BY <1>5, <2>1, <3>1, <3>2, <4>1
      <4>2. ASSUME NEW k \in 1 .. Len(es), o[j] = es[k] PROVE Before(o[i], o[j])
        <5>1. es[k] \in Promised /\ Owes(T, es[k])
          BY <1>1, <1>6, <3>2, <4>2
        <5> QED
          BY <1>7, <2>1, <3>1, <4>2, <5>1 DEF Behind
      <4> QED
        BY <1>5, <4>1, <4>2
    <3>3. \A t \in Tasks' : Behind(s[i], t)
      BY <1>7, <1>11, <1>12, <3>1
    <3> QED
      BY <2>1, <3>1, <3>2, <3>3
  <2>2. ASSUME NEW k \in 1 .. Len(es), i = Len(s) + k, o[i] = es[k]
        PROVE  /\ o[i] \in Promised
               /\ \A j \in DOMAIN o : i < j /\ ~IsLost(o[j]) => Before(o[i], o[j])
               /\ \A t \in Tasks' : Behind(o[i], t)
    <3>1. es[k] \in S /\ es[k] \in Promised /\ Owes(T, es[k]) /\ ~IsLost(es[k])
      BY <1>1, <1>6, <1>13, <2>2
    <3>2. ASSUME NEW j \in DOMAIN o, i < j, ~IsLost(o[j]) PROVE Before(o[i], o[j])
      <4>1. j \notin 1 .. Len(s)
        BY <1>5, <2>2, <3>2
      <4>2. PICK l \in 1 .. Len(es) : j = Len(s) + l /\ o[j] = es[l]
        BY <1>5, <4>1
      <4>3. k < l
        BY <1>5, <2>2, <3>2, <4>2
      <4>4. es[k] = a /\ es[l] = b /\ es[k] \in S /\ es[l] \in S
        BY <1>1, <4>3 DEF Row
      <4> QED
        BY <1>13, <2>2, <3>2, <4>2, <4>4
    <3>3. \A t : Ahead(T, t) => Behind(es[k], t)
      BY <3>1 DEF Ahead, Behind
    <3>4. \A t \in Tasks' : Behind(es[k], t)
      BY <1>10, <1>12, <3>1, <3>3
    <3> QED
      BY <2>2, <3>1, <3>2, <3>4
  <2> QED
    BY <1>5, <2>1, <2>2
<1>14. ASSUME NEW i \in DOMAIN o, IsLost(o[i]) PROVE moved'
  <2>1. CASE i \in 1 .. Len(s) /\ o[i] = s[i]
    BY <1>2, <1>3, <1>5, <1>14, <2>1
  <2>2. ASSUME NEW k \in 1 .. Len(es), o[i] = es[k] PROVE moved'
    BY <1>1, <1>6, <1>14, <2>2
  <2> QED
    BY <1>5, <2>1, <2>2
<1>15. Written'
  BY DEF Emits, Written
<1> QED
  BY <1>4, <1>13, <1>14, <1>15, OutForm DEF OutTrue

Excused(x) ==
  \/ moved /\ (world.policy = "skip" \/ BelowLost(x))
  \/ stopped /\ (moved \/ CutOff(x))

LEMMA CompleteForm ==
  CompleteInv <=>
    (~cancelled /\ outcome # "dropped" => \A x \in Due : Waiting(x) \/ Excused(x))
BY DEF CompleteInv, Excused

LEMMA CompleteStep ==
  ASSUME TaskInv, Written, CompleteInv, world' = world, begun' = begun, moved' = moved, ~stopped,
         cancelled => cancelled', outcome # "dropped",
         NEW T, NEW n, Lies(T, n), NEW new, Builds(n, new),
         NEW es, NEW S, NEW a, NEW b, Row(es, S, a, b), Emits(es),
         ~cancelled' => \A x \in Due : Owes(T, x) =>
           x \in S \/ (\E k \in 1 .. Len(new) : Owes(new[k], x)) \/ Owes(frame', x) \/ Excused(x)'
  PROVE  CompleteInv'
<1> SUFFICES ASSUME ~cancelled', NEW x \in Due PROVE Waiting(x)' \/ Excused(x)'
  <2>1. Due' = Due
    BY Stable
  <2>2. CompleteInv' <=> (~cancelled' /\ outcome' # "dropped" => \A x \in Due' : Waiting(x)' \/ Excused(x)')
    BY DEF CompleteInv, Excused
  <2> QED
    BY <2>1, <2>2
<1>1. Waiting(x) \/ Excused(x)
  BY CompleteForm
<1>2. CASE Excused(x)
  <2>1. moved /\ (world.policy = "skip" \/ BelowLost(x))
    BY <1>2 DEF Excused
  <2>2. BelowLost(x) => BelowLost(x)'
    BY DEF BelowLost, Emits
  <2> QED
    BY <2>1, <2>2 DEF Excused
<1>3. Out \in Seq(Items) /\ es \in Seq(Items)
  <2>1. items \o stash \in Seq(Items)
    BY DEF Written
  <2> QED
    BY <2>1 DEF Out, Row
<1>4. \A y : y \in ToSet(Out) \/ y \in ToSet(es) => y \in ToSet(Out')
  <2>1. Out' = Out \o es
    BY DEF Emits
  <2>2. PICK s, o : s = Out /\ o = Out' /\ s \in Seq(Items) /\ o = s \o es
    BY <1>3, <2>1
  <2>3. /\ DOMAIN s = 1 .. Len(s) /\ DOMAIN es = 1 .. Len(es)
        /\ \A i \in 1 .. Len(s) : i \in DOMAIN o /\ o[i] = s[i]
        /\ \A k \in 1 .. Len(es) : Len(s) + k \in DOMAIN o /\ o[Len(s) + k] = es[k]
    BY <1>3, <2>2, Joined
  <2>4. \A y : y \in ToSet(s) => y \in ToSet(o)
    BY <2>3 DEF ToSet
  <2>5. \A y : y \in ToSet(es) => y \in ToSet(o)
    BY <2>3 DEF ToSet
  <2> QED
    BY <2>2, <2>4, <2>5
<1>5. x \in S => x \in ToSet(es)
  <2>1. DOMAIN es = 1 .. Len(es)
    BY <1>3
  <2> QED
    BY <2>1 DEF Row, ToSet
<1>6. CASE x \in ToSet(Out)
  BY <1>4, <1>6 DEF Waiting
<1>7. ASSUME NEW t \in Tasks, Owes(t, x) PROVE Waiting(x)' \/ Excused(x)'
  <2>1. /\ \A i \in 1 .. n : stack[i] \in Tasks /\ stack[i] \in Tasks'
        /\ \A k \in 1 .. Len(new) : new[k] \in Tasks'
        /\ frame' \in Tasks'
    BY TasksBuilt
  <2>2. \A u \in Tasks' : Owes(u, x) => Waiting(x)'
    BY DEF Waiting
  <2>3. t = T \/ \E i \in 1 .. n : t = stack[i]
    BY <1>7, OwesNone DEF Lies
  <2>4. CASE \E i \in 1 .. n : t = stack[i]
    BY <1>7, <2>1, <2>2, <2>4
  <2>5. CASE t = T
    <3>1. x \in S \/ (\E k \in 1 .. Len(new) : Owes(new[k], x)) \/ Owes(frame', x) \/ Excused(x)'
      BY <1>7, <2>5
    <3>2. x \in S => Waiting(x)'
      BY <1>4, <1>5 DEF Waiting
    <3> QED
      BY <2>1, <2>2, <3>1, <3>2
  <2> QED
    BY <2>3, <2>4, <2>5
<1> QED
  BY <1>1, <1>2, <1>6, <1>7 DEF Waiting

\* Everything the invariant wants to know of a step that takes T, above the first
\* n tasks of the stack, hands out es and leaves the tasks new and frame'.
Handling(T, n, new, es, S, a, b) ==
  /\ Lies(T, n) /\ Builds(n, new) /\ Row(es, S, a, b) /\ Emits(es) /\ Fair(T, S)
  /\ a \in S /\ b \in S => IsLost(a) \/ IsLost(b) \/ Before(a, b)
  /\ Splits(T, new, S)
  /\ \A k \in 1 .. Len(new) : Placed(new[k])
  /\ Placed(frame')
  /\ ~cancelled' => \A x \in Due : Owes(T, x) =>
       x \in S \/ (\E k \in 1 .. Len(new) : Owes(new[k], x)) \/ Owes(frame', x) \/ Excused(x)'
Working ==
  /\ world' = world /\ begun' = begun /\ moved' = moved /\ ~stopped /\ outcome = "running"
  /\ cancelled => cancelled'

LEMMA HandlingStep ==
  ASSUME TaskInv, PlaceInv, AgendaInv, OutInv, CompleteInv, Working,
         NEW T, NEW n, NEW new, NEW es, NEW S, NEW a, NEW b, Handling(T, n, new, es, S, a, b)
  PROVE  PlaceInv' /\ AgendaInv' /\ OutInv' /\ CompleteInv'
<1>1. world' = world /\ begun' = begun /\ moved' = moved /\ ~stopped /\ outcome # "dropped" /\ (cancelled => cancelled')
  BY DEF Working
<1>2. Lies(T, n) /\ Builds(n, new) /\ Row(es, S, a, b) /\ Emits(es) /\ Fair(T, S) /\ Splits(T, new, S)
  BY DEF Handling
<1>3. PlaceInv'
  <2>1. \A t : Placed(t)' <=> Placed(t)
    BY <1>1, Stable
  <2>2. \A t \in Tasks' : \/ t = frame'
                          \/ \E i \in 1 .. n : t = stack[i] /\ t \in Tasks
                          \/ \E k \in 1 .. Len(new) : t = new[k]
    BY <1>2, TasksBuilt
  <2>3. \A t \in Tasks' : Placed(t)
    BY <2>2 DEF Handling, PlaceInv
  <2>4. PlaceInv' <=> \A t \in Tasks' : Placed(t)'
    BY DEF PlaceInv
  <2> QED
    BY <2>1, <2>3, <2>4
<1>4. AgendaInv'
  BY <1>1, <1>2, AgendaStep
<1>5. OutInv'
  <2>1. a \in S /\ b \in S => IsLost(a) \/ IsLost(b) \/ Before(a, b)
    BY DEF Handling
  <2> QED
    BY <1>1, <1>2, <2>1, OutStep
<1>6. CompleteInv'
  <2>1. ~cancelled' => \A x \in Due : Owes(T, x) =>
          x \in S \/ (\E k \in 1 .. Len(new) : Owes(new[k], x)) \/ Owes(frame', x) \/ Excused(x)'
    BY DEF Handling
  <2>2. Written
    BY DEF OutInv, Written
  <2> QED
    BY <1>1, <1>2, <2>1, <2>2, CompleteStep
<1> QED
  BY <1>3, <1>4, <1>5, <1>6

\* A step that leaves the agenda and what was handed out alone, or drops the
\* agenda with the stream.
LEMMA IdleStep ==
  ASSUME TaskInv, PlaceInv, AgendaInv, OutInv, CompleteInv,
         world' = world, begun' = begun, moved => moved', frame' = frame,
         stack' = stack \/ (stack' = <<>> /\ outcome' = "dropped"),
         Out' = Out, ToSet(items) \subseteq ToSet(items'), Written',
         cancelled => cancelled', outcome = "dropped" => outcome' = "dropped", stopped => stopped' /\ items' = items
  PROVE  PlaceInv' /\ AgendaInv' /\ OutInv' /\ CompleteInv'
<1>1. /\ Promised' = Promised /\ Due' = Due
      /\ \A a, b : Before(a, b)' <=> Before(a, b)
      /\ \A t : Placed(t)' <=> Placed(t)
      /\ \A t, u : Ahead(t, u)' <=> Ahead(t, u)
  BY Stable
<1>2. Tasks' \subseteq Tasks /\ (stack' = stack => Tasks' = Tasks)
  BY DEF Tasks, ToSet
<1>3. PlaceInv'
  <2>1. \A t \in Tasks' : Placed(t)'
    BY <1>1, <1>2 DEF PlaceInv
  <2> QED
    BY <2>1 DEF PlaceInv
<1>4. AgendaInv'
  <2>1. CASE stack' = stack
    <3>1. /\ \A i, j \in DOMAIN stack' : i < j => Ahead(stack'[j], stack'[i])
          /\ \A i \in DOMAIN stack' : Ahead(frame', stack'[i])
      BY <2>1 DEF AgendaInv
    <3> QED
      BY <1>1, <3>1 DEF AgendaInv, Ahead
  <2>2. CASE stack' = <<>>
    BY <2>2 DEF AgendaInv
  <2> QED
    BY <2>1, <2>2
<1>5. OutInv'
  <2>1. OutTrue(Out, Tasks) /\ \A i \in DOMAIN Out : IsLost(Out[i]) => moved
    BY OutForm
  <2>2. OutTrue(Out', Tasks') /\ \A i \in DOMAIN Out' : IsLost(Out'[i]) => moved'
    BY <1>2, <2>1 DEF OutTrue
  <2> QED
    BY <2>2, OutForm
<1>6. CompleteInv'
  <2> SUFFICES ASSUME ~cancelled', outcome' # "dropped", NEW x \in Due PROVE Waiting(x)' \/ Excused(x)'
    <3>1. CompleteInv' <=> (~cancelled' /\ outcome' # "dropped" => \A x \in Due' : Waiting(x)' \/ Excused(x)')
      BY DEF CompleteInv, Excused
    <3> QED
      BY <1>1, <3>1
  <2>1. Waiting(x) \/ Excused(x)
    BY CompleteForm
  <2>2. Waiting(x) => Waiting(x)'
    BY <1>2 DEF Waiting
  <2>3. BelowLost(x) => BelowLost(x)'
    BY DEF BelowLost
  <2>4. stopped => (CutOff(x) => CutOff(x)')
    BY <1>1 DEF CutOff, Aborts
  <2> QED
    BY <2>1, <2>2, <2>3, <2>4 DEF Excused
<1> QED
  BY <1>3, <1>4, <1>5, <1>6

-----------------------------------------------------------------------------
(* The entry a listing has come to.                                        *)

LEMMA MetOn ==
  ASSUME NEW p \in Path, Last(p) \in Dir, Met(p), Descended(p), Listed(p), NEW k \in DOMAIN Names(p)
  PROVE  Met(Son(p, k)) /\ ~IsRoot(Son(p, k))
<1>1. /\ p \in Seq(Name) /\ Len(p) \in Nat \ {0} /\ Son(p, k) \in Seq(Name) /\ Len(Son(p, k)) = Len(p) + 1
      /\ \A i \in 1 .. Len(p) : Son(p, k)[i] = p[i]
  BY Sons
<1>2. PICK q : q = Son(p, k)
  OBVIOUS
<1>3. q[1] = p[1]
  BY <1>1, <1>2
<1>4. ASSUME NEW n \in 1 .. Len(p) PROVE SubSeq(q, 1, n) = SubSeq(p, 1, n)
  <2>1. n \in 0 .. Len(p) /\ n \in 0 .. Len(q) /\ n \in Nat
    BY <1>1, <1>2
  <2>2. /\ SubSeq(q, 1, n) \in Seq(Name) /\ Len(SubSeq(q, 1, n)) = n
        /\ \A i \in 1 .. n : SubSeq(q, 1, n)[i] = q[i]
    BY <1>1, <1>2, <2>1, Parts
  <2>3. /\ SubSeq(p, 1, n) \in Seq(Name) /\ Len(SubSeq(p, 1, n)) = n
        /\ \A i \in 1 .. n : SubSeq(p, 1, n)[i] = p[i]
    BY <1>1, <2>1, Parts
  <2>4. \A i \in 1 .. n : SubSeq(q, 1, n)[i] = SubSeq(p, 1, n)[i]
    BY <1>1, <1>2, <2>1, <2>2, <2>3
  <2> QED
    BY <2>2, <2>3, <2>4, SeqEqual
<1>5. SubSeq(p, 1, Len(p)) = p
  BY <1>1, PrefixSteps
<1>6. ASSUME NEW n \in 1 .. Len(q) - 1
      PROVE  Descended(SubSeq(q, 1, n)) /\ Listed(SubSeq(q, 1, n))
  <2>1. CASE n = Len(p)
    <3>1. SubSeq(q, 1, n) = p
      <4>1. SubSeq(q, 1, Len(p)) = SubSeq(p, 1, Len(p))
        BY <1>1, <1>4
      <4> QED
        BY <1>5, <2>1, <4>1
    <3> QED
      BY <3>1
  <2>2. CASE n # Len(p)
    <3>1. n \in 1 .. Len(p) - 1 /\ n \in 1 .. Len(p)
      BY <1>1, <1>2, <2>2
    <3>2. Descended(SubSeq(p, 1, n)) /\ Listed(SubSeq(p, 1, n))
      BY <3>1 DEF Met
    <3> QED
      BY <1>4, <3>1, <3>2
  <2> QED
    BY <2>1, <2>2
<1>7. q[1] \in ToSet(WalkedRoots)
  BY <1>3 DEF Met
<1>8. Met(q)
  BY <1>6, <1>7 DEF Met
<1>9. ~IsRoot(q)
  BY <1>1, <1>2 DEF IsRoot
<1> QED
  BY <1>2, <1>8, <1>9

EntryError == <<"entry failed", Entry>>
EntryItem == <<"entry", Entry>>

LEMMA EntryKinds ==
  /\ ~IsLost(EntryError) /\ IsError(EntryError) /\ ~RootFailure(EntryError)
  /\ ~IsLost(EntryItem) /\ ~IsError(EntryItem) /\ EntryError # EntryItem
<1>1. EntryError[1] = "entry failed" /\ EntryItem[1] = "entry"
  BY DEF EntryError, EntryItem
<1> QED
  BY <1>1 DEF IsLost, IsError, RootFailure

LEMMA EntryPlace ==
  ASSUME Grounded, PlaceInv, InListing
  PROVE  /\ frame.kind = "frame" /\ frame.path \in Path /\ Last(frame.path) \in Dir /\ frame.next \in Nat
         /\ frame # NoFrame /\ frame \in Tasks
         /\ frame.next + 1 \in DOMAIN Names(frame.path) /\ Entry = Son(frame.path, frame.next + 1)
         /\ Entry \in Path /\ Entry \in Seq(Name) /\ Met(Entry) /\ ~IsRoot(Entry)
         /\ Met(frame.path) /\ Descended(frame.path) /\ Listed(frame.path)
<1>1. /\ frame \in FrameTasks /\ frame \in Frames /\ frame # NoFrame /\ Follows(frame, Len(frame.path))
      /\ Entry \in Path /\ Entry \in Seq(Name) /\ frame.next \in Nat /\ More(frame)
      /\ Len(Names(frame.path)) \in Nat
  BY NextEntry
<1>2. /\ frame.kind = "frame" /\ frame.path \in Path /\ frame \in Tasks
  BY <1>1, Kinds DEF Frames
<1>3. Last(frame.path) \in Dir
  BY <1>1, ListingPath DEF Grounded
<1>4. frame.path \in Seq(Name) /\ Len(frame.path) > 0
  BY <1>2, PathFields
<1>5. DOMAIN Names(frame.path) = 1 .. Len(Names(frame.path))
  BY <1>3, <1>4, Child
<1>6. frame.next + 1 \in DOMAIN Names(frame.path)
  BY <1>1, <1>5 DEF More
<1>7. Entry = Son(frame.path, frame.next + 1)
  BY DEF Entry, Son
<1>8. Met(frame.path) /\ Descended(frame.path) /\ Listed(frame.path)
  BY <1>2 DEF PlaceInv, Placed
<1>9. Met(Entry) /\ ~IsRoot(Entry)
  BY <1>2, <1>3, <1>6, <1>7, <1>8, MetOn
<1> QED
  BY <1>1, <1>2, <1>3, <1>6, <1>7, <1>8, <1>9

LEMMA EntryPromises ==
  ASSUME Grounded, PlaceInv, InListing
  PROVE  /\ EntryError \in Promised <=> Action \in {"fail", "failDescend"} /\ world.policy # "skip"
         /\ EntryItem \in Promised <=> Action \in {"emit", "both"} /\ Answer(Entry) = "keep"
         /\ Descended(Entry) <=> \/ Action \in {"descend", "failDescend"}
                                 \/ Action = "both" /\ Answer(Entry) \in {"keep", "skip"}
         /\ Answer(Entry) = (IF Streaming THEN "keep" ELSE Verdict)
<1>1. Entry \in Path /\ Met(Entry) /\ ~IsRoot(Entry)
  BY EntryPlace
<1>2. EntryError[1] = "entry failed" /\ EntryError[2] = Entry /\ EntryItem[1] = "entry" /\ EntryItem[2] = Entry
  BY DEF EntryError, EntryItem
<1>3. Action = world.action[Entry]
  BY DEF Action
<1>4. Yields("entry failed", Entry) <=> Action \in {"fail", "failDescend"}
  BY <1>1, <1>3 DEF Yields
<1>5. Yields("entry", Entry) <=> Action \in {"emit", "both"} /\ Answer(Entry) = "keep"
  BY <1>1, <1>3 DEF Yields
<1>6. Reportable(EntryItem) /\ (Reportable(EntryError) <=> world.policy # "skip")
  BY <1>2 DEF Reportable, IsError, RootFailure
<1>7. EntryError = <<EntryError[1], EntryError[2]>> /\ EntryItem = <<EntryItem[1], EntryItem[2]>>
  BY <1>2 DEF EntryError, EntryItem
<1>8. "entry failed" \in ItemKinds /\ "entry" \in ItemKinds
  BY DEF ItemKinds
<1>9. EntryError \in Promised <=> Action \in {"fail", "failDescend"} /\ world.policy # "skip"
  BY <1>1, <1>2, <1>4, <1>6, <1>7, <1>8, Promises
<1>10. EntryItem \in Promised <=> Action \in {"emit", "both"} /\ Answer(Entry) = "keep"
  BY <1>1, <1>2, <1>5, <1>6, <1>7, <1>8, Promises
<1>11. Descended(Entry) <=> \/ Action \in {"descend", "failDescend"}
                            \/ Action = "both" /\ Answer(Entry) \in {"keep", "skip"}
  BY <1>1, <1>3 DEF Descended
<1>12. Answer(Entry) = (IF Streaming THEN "keep" ELSE Verdict)
  BY DEF Answer, Verdict
<1> QED
  BY <1>9, <1>10, <1>11, <1>12

\* A listing that has passed the entry.
Passes(f) == f.kind = "frame" /\ f.path = frame.path /\ f.next = frame.next + 1

LEMMA EntryOwes ==
  ASSUME Grounded, PlaceInv, InListing, NEW c, c.kind = "dir", c.path = Entry, NEW f, Passes(f)
  PROVE  /\ \A x \in Promised : Owes(frame, x) <=>
              x = EntryError \/ x = EntryItem \/ Owes(c, x) \/ Owes(f, x)
         /\ ~Descended(Entry) => \A x \in Promised : ~Owes(c, x)
         /\ \A x, y \in Promised : (x = EntryError \/ x = EntryItem \/ Owes(c, x)) /\ Owes(f, y) => Before(x, y)
         /\ \A x \in Promised : Owes(c, x) =>
              /\ Before(EntryError, x)
              /\ IF Streaming THEN Before(EntryItem, x) ELSE Before(x, EntryItem)
<1>1. /\ frame.kind = "frame" /\ frame.path \in Path /\ Last(frame.path) \in Dir /\ frame.next \in Nat
      /\ frame.next + 1 \in DOMAIN Names(frame.path) /\ Entry = Son(frame.path, frame.next + 1)
      /\ Entry \in Path /\ Entry \in Seq(Name) /\ ~IsRoot(Entry)
  BY EntryPlace
<1>2. f.kind = "frame" /\ f.path = frame.path /\ f.next = frame.next + 1
  BY DEF Passes
<1>3. \A x : Owes(frame, x) <=> IsPrefix(Son(frame.path, f.next), x[2]) \/ Owes(f, x)
  BY <1>1, <1>2, OwesNext
<1>4. \A x \in Promised :
        IsPrefix(Entry, x[2]) <=> x = EntryError \/ x = EntryItem \/ Owes(c, x)
  BY <1>1, OwesSon DEF EntryError, EntryItem
<1>5. \A x \in Promised : x[2] \in Path
  BY Promises
<1>6. ASSUME NEW x \in Promised, NEW y \in Promised, IsPrefix(Entry, x[2]), Owes(f, y) PROVE Before(x, y)
  <2>1. f.next \in Nat /\ f.next <= f.next
    BY <1>1, <1>2
  <2> QED
    BY <1>1, <1>2, <1>5, <1>6, <2>1, PassedFirst
<1>7. ASSUME ~Descended(Entry), NEW x \in Promised, Owes(c, x) PROVE FALSE
  <2>1. x[2] \in Path /\ Met(x[2]) /\ Yields(x[1], x[2])
    BY Promises
  <2>2. (x[2] = Entry /\ x[1] \in AtOpening \cup AtClosing) \/ IsStrictPrefix(Entry, x[2])
    BY <1>7 DEF Owes
  <2>3. CASE x[2] = Entry /\ x[1] \in AtOpening \cup AtClosing
    BY <1>1, <1>7, <2>1, <2>3 DEF Yields, AtOpening, AtClosing
  <2>4. CASE IsStrictPrefix(Entry, x[2])
    <3>1. /\ x[2] \in Seq(Name) /\ Len(x[2]) \in Nat /\ Len(Entry) \in Nat \ {0}
          /\ Len(Entry) < Len(x[2]) /\ SubSeq(x[2], 1, Len(Entry)) = Entry
      BY <1>1, <2>1, <2>4, PathFields, PrefixSteps
    <3>2. Len(Entry) \in 1 .. Len(x[2]) - 1
      BY <3>1
    <3>3. Descended(SubSeq(x[2], 1, Len(Entry)))
      BY <2>1, <3>2 DEF Met
    <3> QED
      BY <1>7, <3>1, <3>3
  <2> QED
    BY <2>2, <2>3, <2>4
<1>8. ASSUME NEW x \in Promised, Owes(c, x)
      PROVE  /\ Before(EntryError, x)
             /\ IF Streaming THEN Before(EntryItem, x) ELSE Before(x, EntryItem)
  <2>1. EntryError[2] = c.path /\ EntryError[1] = "entry failed" /\ EntryItem[2] = c.path /\ EntryItem[1] = "entry"
    BY DEF EntryError, EntryItem
  <2>2. Before(EntryError, x)
    BY <1>8, <2>1, EntryOrder
  <2>3. IF Streaming THEN Before(EntryItem, x) ELSE Before(x, EntryItem)
    BY <1>8, <2>1, EntryOrder
  <2> QED
    BY <2>2, <2>3
<1> QED
  BY <1>2, <1>3, <1>4, <1>1, <1>6, <1>7, <1>8

LEMMA PassedPlaced ==
  ASSUME Grounded, PlaceInv, InListing, NEW f, Passes(f)
  PROVE  Placed(f)
<1>1. Met(frame.path) /\ Descended(frame.path) /\ Listed(frame.path)
  BY EntryPlace
<1> QED
  BY <1>1 DEF Placed, Passes

\* What an entry yields is handed out now, and the listing goes on, in hand or
\* from the stack.
LEMMA StayHandles ==
  ASSUME Grounded, PlaceInv, AgendaInv, InListing,
         NEW es, NEW S, NEW a, NEW b, Row(es, S, a, b), Emits(es), a \notin S \/ b \notin S,
         \A x \in S : x \in Promised /\ (x = EntryError \/ x = EntryItem),
         ~cancelled' => /\ ~Descended(Entry)
                        /\ \A x \in Promised : x = EntryError \/ x = EntryItem => x \in S,
         NEW f, Passes(f), NEW new, Builds(Len(stack), new),
         \/ new = <<>> /\ frame' = f
         \/ new = <<f>> /\ frame' = NoFrame
  PROVE  Handling(frame, Len(stack), new, es, S, a, b)
<1>1. frame # NoFrame /\ frame \in FrameTasks /\ Entry \in Path
  BY NextEntry
<1>2. PICK c : c.kind = "dir" /\ c.path = Entry
  BY <1>1, ChildTasks
<1>3. /\ \A x \in Promised : Owes(frame, x) <=> x = EntryError \/ x = EntryItem \/ Owes(c, x) \/ Owes(f, x)
      /\ ~Descended(Entry) => \A x \in Promised : ~Owes(c, x)
      /\ \A x, y \in Promised : (x = EntryError \/ x = EntryItem) /\ Owes(f, y) => Before(x, y)
  BY <1>2, EntryOwes
<1>4. Lies(frame, Len(stack))
  BY <1>1, Lying DEF Grounded
<1>5. \A y \in S : y \in Items
  BY DEF Row
<1>6. \A y \in S : ~IsLost(y)
  BY EntryKinds
<1>7. Fair(frame, S)
  BY <1>3, <1>6 DEF Fair
<1>8. Gives(frame, f, S) /\ Gives(frame, NoFrame, S)
  BY <1>3, OwesNone DEF Gives
<1>9. Placed(f) /\ Placed(NoFrame) /\ \A t : Ahead(NoFrame, t)
  BY PassedPlaced, OwesNone, Kinds DEF Placed, Ahead
<1>10. ~cancelled' => \A x \in Due : Owes(frame, x) => x \in S \/ Owes(f, x)
  <2>1. Due \subseteq Promised
    BY DEF Due
  <2> QED
    BY <1>3, <2>1
<1>11. CASE new = <<>> /\ frame' = f
  <2>1. Len(new) = 0
    BY <1>11
  <2>2. \A k \in 1 .. Len(new) : FALSE
    BY <2>1
  <2>3. Splits(frame, new, S)
    BY <1>8, <1>11, <2>2 DEF Splits
  <2> QED
    BY <1>4, <1>7, <1>9, <1>10, <1>11, <2>2, <2>3 DEF Handling
<1>12. CASE new = <<f>> /\ frame' = NoFrame
  <2>1. Len(new) = 1 /\ new[1] = f
    BY <1>12
  <2>2. /\ \A k \in 1 .. Len(new) : new[k] = f
        /\ \A j, k \in 1 .. Len(new) : ~(j < k)
        /\ 1 \in 1 .. Len(new)
    BY <2>1
  <2>3. Splits(frame, new, S)
    BY <1>8, <1>9, <1>12, <2>2 DEF Splits
  <2>4. ~cancelled' => \A x \in Due : Owes(frame, x) => x \in S \/ \E k \in 1 .. Len(new) : Owes(new[k], x)
    BY <1>10, <2>2
  <2> QED
    BY <1>4, <1>7, <1>9, <1>12, <2>2, <2>3, <2>4 DEF Handling
<1> QED
  BY <1>11, <1>12

\* The subtree of an entry is put above the listing; collect puts the entry
\* itself in between, the stream has handed it out.
LEMMA DescendHandles ==
  ASSUME Grounded, PlaceInv, AgendaInv, InListing, Descended(Entry),
         NEW es, NEW S, NEW a, NEW b, Row(es, S, a, b), Emits(es), a \notin S \/ b \notin S,
         \A x \in S : x \in Promised /\ (x = EntryError \/ (x = EntryItem /\ Streaming)),
         NEW f, Passes(f), NEW c, c.kind = "dir", c.path = Entry, NEW new, Builds(Len(stack), new),
         frame' = NoFrame,
         \/ /\ new = <<f, c>>
            /\ \A x \in Promised : x = EntryError \/ x = EntryItem => x \in S
         \/ \E r : /\ r.kind = "record" /\ r.path = Entry /\ new = <<f, r, c>>
                   /\ ~Streaming /\ EntryError \notin Promised /\ EntryItem \in Promised
  PROVE  Handling(frame, Len(stack), new, es, S, a, b)
<1>1. frame # NoFrame /\ frame \in FrameTasks /\ Entry \in Path /\ Met(Entry)
  BY NextEntry, EntryPlace
<1>2. /\ \A x \in Promised : Owes(frame, x) <=> x = EntryError \/ x = EntryItem \/ Owes(c, x) \/ Owes(f, x)
      /\ \A x, y \in Promised : (x = EntryError \/ x = EntryItem \/ Owes(c, x)) /\ Owes(f, y) => Before(x, y)
      /\ \A x \in Promised : Owes(c, x) =>
           /\ Before(EntryError, x)
           /\ IF Streaming THEN Before(EntryItem, x) ELSE Before(x, EntryItem)
  BY EntryOwes
<1>3. Lies(frame, Len(stack))
  BY <1>1, Lying DEF Grounded
<1>4. \A y \in S : ~IsLost(y)
  BY EntryKinds
<1>5. Fair(frame, S)
  BY <1>2, <1>4 DEF Fair
<1>6. Gives(frame, f, S) /\ Gives(frame, c, S) /\ Gives(frame, NoFrame, S) /\ Ahead(c, f)
  BY <1>2, OwesNone DEF Gives, Ahead
<1>7. Placed(f) /\ Placed(c) /\ Placed(NoFrame) /\ \A t : Ahead(NoFrame, t)
  BY <1>1, PassedPlaced, OwesNone, Kinds DEF Placed, Ahead
<1>8. \A x \in Due : x \in Promised
  BY DEF Due
<1>9. CASE new = <<f, c>> /\ \A x \in Promised : x = EntryError \/ x = EntryItem => x \in S
  <2>1. Len(new) = 2 /\ new[1] = f /\ new[2] = c
    BY <1>9
  <2>2. /\ \A k \in 1 .. Len(new) : new[k] = f \/ new[k] = c
        /\ \A j, k \in 1 .. Len(new) : j < k => new[j] = f /\ new[k] = c
        /\ 1 \in 1 .. Len(new) /\ 2 \in 1 .. Len(new)
    BY <2>1
  <2>3. Splits(frame, new, S)
    BY <1>6, <1>7, <2>2 DEF Splits
  <2>4. \A x \in Due : Owes(frame, x) => x \in S \/ \E k \in 1 .. Len(new) : Owes(new[k], x)
    BY <1>2, <1>8, <1>9, <2>1, <2>2
  <2>5. \A k \in 1 .. Len(new) : Placed(new[k])
    BY <1>7, <2>2
  <2> QED
    BY <1>3, <1>5, <1>7, <2>3, <2>4, <2>5 DEF Handling
<1>10. ASSUME NEW r, r.kind = "record", r.path = Entry, new = <<f, r, c>>,
              ~Streaming, EntryError \notin Promised, EntryItem \in Promised
       PROVE  Handling(frame, Len(stack), new, es, S, a, b)
  <2>1. Len(new) = 3 /\ new[1] = f /\ new[2] = r /\ new[3] = c
    BY <1>10
  <2>2. /\ \A k \in 1 .. Len(new) : new[k] = f \/ new[k] = r \/ new[k] = c
        /\ \A j, k \in 1 .. Len(new) : j < k =>
             (new[j] = f /\ new[k] = r) \/ (new[j] = f /\ new[k] = c) \/ (new[j] = r /\ new[k] = c)
        /\ 1 \in 1 .. Len(new) /\ 2 \in 1 .. Len(new) /\ 3 \in 1 .. Len(new)
    BY <2>1
  <2>3. S = {}
    BY <1>10
  <2>4. \A x \in Promised : Owes(r, x) <=> x = EntryItem
    <3>1. \A x \in Promised : x = <<x[1], x[2]>>
      BY Promises
    <3>2. EntryItem[1] = "entry" /\ EntryItem[2] = Entry
      BY DEF EntryItem
    <3>3. \A x \in Promised : x[1] = "entry" /\ x[2] = Entry => x = EntryItem
      BY <3>1 DEF EntryItem
    <3> QED
      BY <1>10, <3>2, <3>3 DEF Owes
  <2>5. Gives(frame, r, S) /\ Ahead(r, f) /\ Ahead(c, r)
    BY <1>2, <1>10, <2>3, <2>4 DEF Gives, Ahead
  <2>6. Placed(r)
    BY <1>10 DEF Placed, EntryItem
  <2>7. Splits(frame, new, S)
    BY <1>6, <1>7, <2>2, <2>5 DEF Splits
  <2>8. \A x \in Due : Owes(frame, x) => x \in S \/ \E k \in 1 .. Len(new) : Owes(new[k], x)
    BY <1>2, <1>8, <1>10, <2>1, <2>2, <2>4
  <2>9. \A k \in 1 .. Len(new) : Placed(new[k])
    BY <1>7, <2>2, <2>6
  <2> QED
    BY <1>3, <1>5, <1>7, <2>7, <2>8, <2>9 DEF Handling
<1> QED
  BY <1>9, <1>10

-----------------------------------------------------------------------------
(* Where a walk stands when it stops.                                      *)

LEMMA StopRunning ==
  ASSUME StopInv, ~stopped, Written, world' = world, outcome' = "running", stopped' = stopped,
         frame' # NoFrame => turn' = "walker" /\ stash' = <<>>,
         world.policy = "abort" =>
           /\ stash' = <<>>
           /\ items' = items \/ \E e \in Items : ~IsError(e) /\ items' = Append(items, e)
  PROVE  StopInv'
<1>1. ASSUME world.policy = "abort" PROVE \A i \in DOMAIN items' : ~IsError(items'[i])
  <2>1. \A i \in DOMAIN items : ~IsError(items[i])
    BY <1>1 DEF StopInv
  <2>2. ASSUME NEW e \in Items, ~IsError(e), items' = Append(items, e) PROVE \A i \in DOMAIN items' : ~IsError(items'[i])
    <3>1. PICK s : s = items /\ s \in Seq(Items)
      BY DEF Written
    <3>2. PICK u : u = items' /\ u = Append(s, e)
      BY <2>2, <3>1
    <3>3. /\ DOMAIN u = 1 .. Len(s) + 1 /\ DOMAIN s = 1 .. Len(s) /\ Len(s) \in Nat
          /\ \A i \in 1 .. Len(s) : u[i] = s[i]
          /\ u[Len(s) + 1] = e
      BY <3>1, <3>2
    <3>4. \A i \in DOMAIN u : i \in DOMAIN s \/ i = Len(s) + 1
      BY <3>3
    <3> QED
      BY <2>1, <2>2, <3>1, <3>2, <3>3, <3>4
  <2> QED
    BY <1>1, <2>1, <2>2
<1>2. ~stopped' /\ outcome' = "running"
  OBVIOUS
<1> QED
  BY <1>1, <1>2 DEF StopInv

LEMMA StopAborted ==
  ASSUME StopInv, ~stopped, Written, world' = world, outcome = "running",
         world.policy = "abort", stopped' = TRUE, frame' = NoFrame, stash' = <<>>,
         outcome' = (IF Streaming THEN outcome ELSE "failed"),
         NEW e \in Items, IsError(e), items' = Append(items, e)
  PROVE  StopInv'
<1>1. \A i \in DOMAIN items : ~IsError(items[i])
  BY DEF StopInv
<1>2. PICK s : s = items /\ s \in Seq(Items)
  BY DEF Written
<1>3. PICK u : u = items' /\ u = Append(s, e)
  BY <1>2
<1>4. /\ DOMAIN u = 1 .. Len(s) + 1 /\ DOMAIN s = 1 .. Len(s) /\ Len(s) \in Nat
      /\ \A i \in 1 .. Len(s) : u[i] = s[i]
      /\ u[Len(s) + 1] = e /\ Len(u) = Len(s) + 1 /\ u # <<>>
  BY <1>2, <1>3
<1>5. \A i \in DOMAIN u : i \in DOMAIN s \/ i = Len(u)
  BY <1>4
<1>6. \A i \in DOMAIN u : IsError(u[i]) => i = Len(u)
  BY <1>1, <1>2, <1>4, <1>5
<1>7. u # <<>> /\ IsError(Last(u))
  BY <1>4 DEF Last
<1>8. Streaming' <=> Streaming
  BY SamePromises
<1>9. Aborts'
  BY <1>3, <1>7 DEF Aborts
<1>10. outcome' # "ended"
  OBVIOUS
<1> QED
  BY <1>3, <1>6, <1>8, <1>9, <1>10 DEF StopInv

\* What Report does to a walk that is running.
LEMMA StopReport ==
  ASSUME StopInv, ~stopped, Written, world' = world, outcome = "running", stash = <<>>,
         NEW a \in Items, NEW b \in Items, IsError(a), IsError(b), NEW P \in SUBSET {a, b},
         NEW es, NEW S, Reports(es, S, P, a, b),
         frame' # NoFrame => turn' = "walker" /\ stash' = <<>> /\ (world.policy # "abort" \/ P = {})
  PROVE  StopInv'
<1>1. CASE world.policy = "abort" /\ P # {}
  <2>1. /\ stopped' = TRUE /\ stash' = <<>> /\ outcome' = (IF Streaming THEN outcome ELSE "failed")
        /\ \E e \in S : items' = Append(items, e)
    BY <1>1 DEF Reports
  <2>2. PICK e \in S : items' = Append(items, e)
    BY <2>1
  <2>3. e \in Items /\ IsError(e)
    BY DEF Reports, Row
  <2>4. frame' = NoFrame
    BY <1>1
  <2> QED
    BY <1>1, <2>1, <2>2, <2>3, <2>4, StopAborted
<1>2. CASE ~(world.policy = "abort" /\ P # {})
  <2>1. UNCHANGED <<stopped, outcome>> /\ (S = {} => UNCHANGED <<items, stash, turn>>)
    BY <1>2 DEF Reports
  <2>2. world.policy = "abort" => S = {}
    BY <1>2 DEF Reports, Row
  <2>3. stopped' = stopped /\ outcome' = "running"
    BY <2>1
  <2>4. world.policy = "abort" => stash' = <<>> /\ items' = items
    BY <2>1, <2>2
  <2> QED
    BY <2>3, <2>4, StopRunning
<1> QED
  BY <1>1, <1>2

-----------------------------------------------------------------------------
(* The steps of a listing.                                                 *)

Main == PlaceInv /\ AgendaInv /\ OutInv /\ CompleteInv /\ StopInv

LEMMA MainStep ==
  ASSUME TaskInv, Main, Working, StopInv',
         NEW T, NEW n, NEW new, NEW es, NEW S, NEW a, NEW b, Handling(T, n, new, es, S, a, b)
  PROVE  Main'
BY HandlingStep DEF Main

\* What is cut off by the error that ends the walk.
LEMMA Cut ==
  ASSUME Working, Written, NEW a \in Items, NEW b \in Items, IsError(a), IsError(b), NEW P,
         NEW es, NEW S, Reports(es, S, P, a, b), world.policy = "abort", P # {},
         NEW x, \A e \in S : Before(e, x)
  PROVE  Excused(x)'
<1>1. PICK e \in S : items' = Append(items, e) /\ stopped' = TRUE
  BY DEF Reports
<1>2. e \in Items /\ IsError(e)
  BY DEF Reports, Row
<1>3. items' # <<>> /\ Last(items') = e
  <2>1. PICK s : s = items /\ s \in Seq(Items)
    BY DEF Written
  <2>2. Append(s, e) # <<>> /\ Len(Append(s, e)) = Len(s) + 1 /\ Append(s, e)[Len(s) + 1] = e
    BY <1>2, <2>1
  <2> QED
    BY <1>1, <2>1, <2>2 DEF Last
<1>4. Aborts'
  BY <1>2, <1>3 DEF Aborts, Working
<1>5. Before(e, x)'
  BY Stable DEF Working
<1>6. CutOff(x)'
  <2>1. Before(Last(items), x)' <=> Before(e, x)'
    BY <1>3 DEF Before
  <2> QED
    BY <1>4, <1>5, <2>1 DEF CutOff
<1> QED
  BY <1>1, <1>6 DEF Excused

LEMMA InHand ==
  ASSUME IInv, Main, InListing
  PROVE  /\ Grounded /\ TaskInv /\ PlaceInv /\ AgendaInv /\ StopInv /\ Written /\ stack \in Seq(Task)
         /\ outcome = "running" /\ turn = "walker" /\ ~stopped /\ stash = <<>> /\ world \in Worlds
         /\ EntryItem \in Items /\ EntryError \in Items /\ <<"rules", Entry>> \in Items
         /\ Passes(Passed) /\ Passed \in Task /\ Passes(Suspended(Passed))
         /\ ChildTask(Entry).kind = "dir" /\ ChildTask(Entry).path = Entry
         /\ RecordTask(Entry).kind = "record" /\ RecordTask(Entry).path = Entry
<1>1. Grounded /\ TaskInv /\ stack \in Seq(Task) /\ world \in Worlds
  BY DEF IInv, Grounded, TaskInv
<1>2. PlaceInv /\ AgendaInv /\ StopInv /\ Written
  BY DEF Main, OutInv, Written
<1>3. frame # NoFrame /\ frame \in FrameTasks /\ Entry \in Path
  BY <1>1, NextEntry
<1>4. outcome = "running" /\ turn = "walker" /\ ~stopped /\ stash = <<>>
  BY <1>2, <1>3 DEF StopInv
<1>5. EntryItem \in Items /\ EntryError \in Items /\ <<"rules", Entry>> \in Items
  BY <1>3 DEF EntryItem, EntryError, Items, ItemKinds
<1>6. Passes(Passed) /\ Passed \in Task /\ Passes(Suspended(Passed))
  BY <1>3, PassedFrame, SuspendedFrame DEF Passes, Task
<1>7. /\ ChildTask(Entry).kind = "dir" /\ ChildTask(Entry).path = Entry
      /\ RecordTask(Entry).kind = "record" /\ RecordTask(Entry).path = Entry
  BY <1>3, ChildTasks
<1> QED
  BY <1>1, <1>2, <1>4, <1>5, <1>6, <1>7

LEMMA SkipMain ==
  ASSUME IInv, Main, SkipEntry
  PROVE  Main'
<1>1. InListing /\ Action = "skip" /\ frame' = Passed /\ stack' = stack
  BY DEF SkipEntry, Classified, StayInListing
<1>2. Working /\ UNCHANGED output /\ cancelled' = cancelled
  BY <1>1, InHand DEF SkipEntry, Working, roots, outside
<1>3. Emits(<<>>) /\ Row(<<>>, {}, EntryError, EntryItem)
  BY <1>1, <1>2, InHand, Handed, Rows DEF output
<1>4. Builds(Len(stack), <<>>)
  BY <1>1, InHand, BuildsOn
<1>5. EntryError \notin Promised /\ EntryItem \notin Promised /\ ~Descended(Entry)
  BY <1>1, InHand, EntryPromises
<1>6. Handling(frame, Len(stack), <<>>, <<>>, {}, EntryError, EntryItem)
  BY <1>1, <1>3, <1>4, <1>5, InHand, StayHandles
<1>7. StopInv'
  BY <1>1, <1>2, InHand, StopRunning DEF output, Working
<1> QED
  BY <1>1, <1>2, <1>6, <1>7, InHand, MainStep

LEMMA EmitMain ==
  ASSUME IInv, Main, IInv', EmitEntry
  PROVE  Main'
<1>1. InListing /\ Action = "emit" /\ world' = world /\ UNCHANGED roots /\ UNCHANGED outside
  BY DEF EmitEntry, Classified
<1>2. ~Descended(Entry) /\ EntryError \notin Promised
  BY <1>1, InHand, EntryPromises
<1>3. EntryItem \in Items /\ ~IsError(EntryItem) /\ EntryError # EntryItem /\ EntryError \in Items
  BY <1>1, InHand, EntryKinds
<1>4. Row(<<EntryItem>>, {EntryItem}, EntryError, EntryItem) /\ Row(<<>>, {}, EntryError, EntryItem)
  BY <1>3, Rows
<1>5. CASE Streaming
  <2>1. HandOut(EntryItem) /\ Pause(Passed, <<>>) /\ cancelled' = cancelled
    BY <1>5 DEF EmitEntry, EntryItem
  <2>2. /\ Emits(<<EntryItem>>) /\ items' = Append(items, EntryItem) /\ stash' = <<>>
        /\ UNCHANGED <<stopped, outcome>>
    BY <1>1, <1>3, <2>1, InHand, Handed DEF HandOut
  <2>3. Builds(Len(stack), <<Passed>>) /\ frame' = NoFrame
    BY <1>1, <2>1, InHand, PauseBuilds DEF Pause
  <2>4. EntryItem \in Promised
    BY <1>1, <1>5, InHand, EntryPromises
  <2>5. Handling(frame, Len(stack), <<Passed>>, <<EntryItem>>, {EntryItem}, EntryError, EntryItem)
    BY <1>1, <1>2, <1>3, <1>4, <2>2, <2>3, <2>4, InHand, StayHandles
  <2>6. Working
    BY <1>1, <2>1, InHand DEF Working, roots, outside
  <2>7. StopInv'
    BY <1>1, <1>3, <2>2, <2>3, InHand, StopRunning
  <2> QED
    BY <1>1, <2>5, <2>6, <2>7, InHand, MainStep
<1>6. CASE ~Streaming
  <2>1. /\ IF Verdict = "keep" THEN HandOut(EntryItem) ELSE HandOutNothing
        /\ cancelled' = (cancelled \/ Verdict = "stop")
        /\ frame' = Passed /\ stack' = stack
    BY <1>6 DEF EmitEntry, EntryItem, StayInListing
  <2>2. Builds(Len(stack), <<>>)
    BY <1>1, <2>1, InHand, BuildsOn
  <2>3. EntryItem \in Promised <=> Verdict = "keep"
    BY <1>1, <1>6, InHand, EntryPromises
  <2>4. Working
    BY <1>1, <2>1, InHand DEF Working, roots, outside
  <2>5. turn' = "walker" /\ stash' = <<>>
    <3>1. Streaming' <=> Streaming
      BY <1>1, SamePromises
    <3> QED
      BY <1>6, <3>1 DEF IInv, RestInv
  <2>6. CASE Verdict = "keep"
    <3>1. Emits(<<EntryItem>>) /\ items' = Append(items, EntryItem) /\ UNCHANGED <<stopped, outcome>>
      BY <1>1, <1>3, <2>1, <2>6, InHand, Handed DEF HandOut
    <3>2. Handling(frame, Len(stack), <<>>, <<EntryItem>>, {EntryItem}, EntryError, EntryItem)
      BY <1>1, <1>2, <1>3, <1>4, <2>1, <2>2, <2>3, <2>6, <3>1, InHand, StayHandles
    <3>3. StopInv'
      BY <1>1, <1>3, <2>5, <3>1, InHand, StopRunning
    <3> QED
      BY <1>1, <2>4, <3>2, <3>3, InHand, MainStep
  <2>7. CASE Verdict # "keep"
    <3>1. UNCHANGED output
      BY <2>1, <2>7 DEF HandOutNothing
    <3>2. Emits(<<>>) /\ items' = items /\ UNCHANGED <<stopped, outcome>>
      BY <1>1, <1>3, <3>1, InHand, Handed DEF output
    <3>3. Handling(frame, Len(stack), <<>>, <<>>, {}, EntryError, EntryItem)
      BY <1>1, <1>2, <1>3, <1>4, <2>1, <2>2, <2>3, <2>7, <3>2, InHand, StayHandles
    <3>4. StopInv'
      BY <1>1, <2>5, <3>2, InHand, StopRunning
    <3> QED
      BY <1>1, <2>4, <3>3, <3>4, InHand, MainStep
  <2> QED
    BY <2>6, <2>7
<1> QED
  BY <1>5, <1>6

LEMMA DescendMain ==
  ASSUME IInv, Main, DescendEntry
  PROVE  Main'
<1>1. InListing /\ Action = "descend" /\ Descend(FALSE) /\ UNCHANGED output /\ cancelled' = cancelled
      /\ world' = world /\ UNCHANGED roots /\ UNCHANGED outside
  BY DEF DescendEntry, Classified
<1>2. Working
  BY <1>1, InHand DEF Working, roots, outside
<1>3. Emits(<<>>) /\ Row(<<>>, {}, EntryError, EntryItem)
  BY <1>1, InHand, Handed, Rows DEF output
<1>4. Builds(Len(stack), <<Suspended(Passed), ChildTask(Entry)>>) /\ frame' = NoFrame
  BY <1>1, InHand, DescendBuilds DEF Descend, Pause
<1>5. EntryError \notin Promised /\ EntryItem \notin Promised /\ Descended(Entry)
  BY <1>1, InHand, EntryPromises
<1> DEFINE new == <<Suspended(Passed), ChildTask(Entry)>>
<1>6. Handling(frame, Len(stack), new, <<>>, {}, EntryError, EntryItem)
  BY <1>1, <1>3, <1>4, <1>5, InHand, DescendHandles
<1>7. StopInv'
  BY <1>1, <1>2, <1>4, InHand, StopRunning DEF output, Working
<1> QED
  BY <1>1, <1>2, <1>6, <1>7, InHand, MainStep

LEMMA Verdicts ==
  ASSUME IInv, InListing
  PROVE  Verdict \in {"keep", "skip", "prune", "stop"}
<1>1. world \in World
  BY WorldAssumption DEF IInv, TaskInv
<1>2. Entry \in Seq(Name) /\ Len(Entry) \in Nat \ {0}
  BY NextEntry DEF IInv, Grounded
<1>3. Last(Entry) \in Name
  BY <1>2 DEF Last
<1> QED
  BY <1>1, <1>3 DEF World, Verdict

LEMMA BothMain ==
  ASSUME IInv, Main, IInv', EmitAndDescend
  PROVE  Main'
<1>1. InListing /\ Action = "both" /\ world' = world /\ UNCHANGED roots /\ UNCHANGED outside
  BY DEF EmitAndDescend, Classified
<1>2. EntryError \notin Promised
  BY <1>1, InHand, EntryPromises
<1>3. EntryItem \in Items /\ ~IsError(EntryItem) /\ EntryError # EntryItem /\ EntryError \in Items
  BY <1>1, InHand, EntryKinds
<1>4. Row(<<EntryItem>>, {EntryItem}, EntryError, EntryItem) /\ Row(<<>>, {}, EntryError, EntryItem)
  BY <1>3, Rows
<1>5. CASE Streaming
  <2>1. HandOut(EntryItem) /\ Descend(FALSE) /\ cancelled' = cancelled
    BY <1>5 DEF EmitAndDescend, EntryItem
  <2>2. /\ Emits(<<EntryItem>>) /\ items' = Append(items, EntryItem) /\ stash' = <<>>
        /\ UNCHANGED <<stopped, outcome>>
    BY <1>1, <1>3, <2>1, InHand, Handed DEF HandOut
  <2> DEFINE new == <<Suspended(Passed), ChildTask(Entry)>>
  <2>3. Builds(Len(stack), new) /\ frame' = NoFrame
    BY <1>1, <2>1, InHand, DescendBuilds DEF Descend, Pause
  <2>4. EntryItem \in Promised /\ Descended(Entry)
    BY <1>1, <1>5, InHand, EntryPromises
  <2>5. Handling(frame, Len(stack), new, <<EntryItem>>, {EntryItem}, EntryError, EntryItem)
    BY <1>1, <1>2, <1>3, <1>4, <1>5, <2>2, <2>3, <2>4, InHand, DescendHandles
  <2>6. Working
    BY <1>1, <2>1, InHand DEF Working, roots, outside
  <2>7. StopInv'
    BY <1>1, <1>3, <2>2, <2>3, InHand, StopRunning
  <2> QED
    BY <1>1, <2>5, <2>6, <2>7, InHand, MainStep
<1>6. CASE ~Streaming
  <2>1. /\ UNCHANGED output /\ cancelled' = (cancelled \/ Verdict = "stop")
        /\ IF Verdict \in {"prune", "stop"} THEN frame' = Passed /\ stack' = stack ELSE Descend(Verdict = "keep")
    BY <1>6 DEF EmitAndDescend, StayInListing, HandOutNothing
  <2>2. Working
    BY <1>1, <2>1, InHand DEF Working, roots, outside
  <2>3. Emits(<<>>) /\ items' = items /\ stash' = <<>> /\ turn' = "walker" /\ UNCHANGED <<stopped, outcome>>
    BY <1>1, <1>3, <2>1, InHand, Handed DEF output
  <2>4. StopInv'
    BY <1>1, <2>3, InHand, StopRunning
  <2>5. /\ EntryItem \in Promised <=> Verdict = "keep"
        /\ Descended(Entry) <=> Verdict \in {"keep", "skip"}
    BY <1>1, <1>6, InHand, EntryPromises
  <2>6. CASE Verdict \in {"prune", "stop"}
    <3>1. Builds(Len(stack), <<>>) /\ frame' = Passed
      BY <1>1, <2>1, <2>6, InHand, BuildsOn
    <3>2. Handling(frame, Len(stack), <<>>, <<>>, {}, EntryError, EntryItem)
      BY <1>1, <1>2, <1>3, <1>4, <2>3, <2>5, <2>6, <3>1, InHand, StayHandles
    <3> QED
      BY <1>1, <2>2, <2>4, <3>2, InHand, MainStep
  <2>7. CASE Verdict = "skip"
    <3> DEFINE new == <<Suspended(Passed), ChildTask(Entry)>>
    <3>1. Descend(FALSE)
      BY <2>1, <2>7 DEF Descend
    <3>2. Builds(Len(stack), new) /\ frame' = NoFrame
      BY <1>1, <3>1, InHand, DescendBuilds DEF Descend, Pause
    <3>3. Handling(frame, Len(stack), new, <<>>, {}, EntryError, EntryItem)
      BY <1>1, <1>2, <1>3, <1>4, <2>3, <2>5, <2>7, <3>2, InHand, DescendHandles
    <3> QED
      BY <1>1, <2>2, <2>4, <3>3, InHand, MainStep
  <2>8. CASE Verdict = "keep"
    <3> DEFINE new == <<Suspended(Passed), RecordTask(Entry), ChildTask(Entry)>>
    <3>1. Descend(TRUE)
      BY <2>1, <2>8 DEF Descend
    <3>2. Builds(Len(stack), new) /\ frame' = NoFrame
      BY <1>1, <3>1, InHand, DescendBuilds DEF Descend, Pause
    <3>3. Handling(frame, Len(stack), new, <<>>, {}, EntryError, EntryItem)
      BY <1>1, <1>2, <1>3, <1>4, <1>6, <2>3, <2>5, <2>8, <3>2, InHand, DescendHandles
    <3> QED
      BY <1>1, <2>2, <2>4, <3>3, InHand, MainStep
  <2> QED
    BY <1>1, <2>6, <2>7, <2>8, Verdicts
<1> QED
  BY <1>5, <1>6

LEMMA HaltMain ==
  ASSUME IInv, Main, Halt
  PROVE  Main'
<1>1. /\ InListing /\ cancelled' = TRUE /\ stopped' = (stopped \/ Streaming) /\ frame' = NoFrame /\ stack' = stack
      /\ world' = world /\ UNCHANGED roots /\ UNCHANGED <<items, stash, turn, outcome>> /\ UNCHANGED outside
  BY DEF Halt
<1>2. Working
  BY <1>1, InHand DEF Working, roots, outside
<1>3. Emits(<<>>) /\ Row(<<>>, {}, EntryError, EntryItem)
  BY <1>1, InHand, Handed, Rows
<1>4. Builds(Len(stack), <<>>)
  BY <1>1, InHand, BuildsOn
<1>5. Lies(frame, Len(stack))
  BY <1>1, InHand, EntryPlace, Lying
<1>6. Len(<<>>) = 0 /\ \A k \in 1 .. 0 : FALSE
  OBVIOUS
<1>7. Splits(frame, <<>>, {}) /\ Fair(frame, {})
  BY <1>1, <1>6, OwesNone DEF Splits, Fair, Gives
<1>8. Placed(NoFrame)
  BY Kinds DEF Placed
<1>9. Handling(frame, Len(stack), <<>>, <<>>, {}, EntryError, EntryItem)
  BY <1>1, <1>3, <1>4, <1>5, <1>6, <1>7, <1>8 DEF Handling
<1>10. StopInv'
  <2>1. StopInv /\ ~stopped /\ stash = <<>> /\ outcome = "running" /\ (Streaming' <=> Streaming)
    BY <1>1, InHand, SamePromises
  <2>2. world.policy = "abort" => \A i \in DOMAIN items : ~IsError(items[i])
    BY <2>1 DEF StopInv
  <2> QED
    BY <1>1, <2>1, <2>2 DEF StopInv
<1> QED
  BY <1>1, <1>2, <1>9, <1>10, InHand, MainStep

LEMMA FailMain ==
  ASSUME IInv, Main, IInv', FailEntry
  PROVE  Main'
<1> DEFINE a == <<"rules", Entry>>
           P == {EntryError}
<1>1. /\ InListing /\ Action \in {"fail", "failDescend"} /\ Report(<<>>, <<EntryError>>)
      /\ world' = world /\ UNCHANGED roots /\ UNCHANGED outside /\ cancelled' = cancelled
  BY DEF FailEntry, Classified, EntryError
<1>2. a \in Items /\ EntryError \in Items /\ EntryItem \in Items
  BY <1>1, InHand
<1>3. IsError(a) /\ IsError(EntryError) /\ ~RootFailure(a) /\ a # EntryError /\ ~IsLost(EntryError)
  <2>1. a[1] = "rules" /\ EntryError[1] = "entry failed"
    BY DEF EntryError
  <2> QED
    BY <2>1 DEF IsError, RootFailure, IsLost
<1> HIDE DEF a
<1>4. Meets(<<>>, <<EntryError>>, P, a, EntryError) /\ P \in SUBSET {a, EntryError}
  BY <1>3 DEF Meets
<1>5. PICK es, S : Reports(es, S, P, a, EntryError)
  BY <1>1, <1>2, <1>3, <1>4, InHand, ReportOut
<1>6. /\ Row(es, S, a, EntryError) /\ Emits(es) /\ a \notin S /\ (EntryError \in S <=> Reportable(EntryError))
      /\ S \subseteq {EntryError}
  BY <1>3, <1>5 DEF Reports, Row
<1>7. /\ EntryError \in Promised <=> EntryError \in S
      /\ EntryItem \notin Promised
      /\ Descended(Entry) <=> Action = "failDescend"
  <2>1. Reportable(EntryError) <=> world.policy # "skip"
    BY <1>3, EntryKinds DEF Reportable
  <2> QED
    BY <1>1, <1>6, <2>1, InHand, EntryPromises
<1>8. Working
  BY <1>1, InHand DEF Working, roots, outside
<1>9. CASE world.policy = "abort"
  <2>1. frame' = NoFrame /\ stack' = stack
    BY <1>9 DEF FailEntry
  <2>2. Builds(Len(stack), <<>>)
    BY <1>1, <2>1, InHand, BuildsOn
  <2>3. Lies(frame, Len(stack))
    BY <1>1, InHand, EntryPlace, Lying
  <2>4. Len(<<>>) = 0 /\ \A k \in 1 .. 0 : FALSE
    OBVIOUS
  <2>5. PICK c : c.kind = "dir" /\ c.path = Entry
    BY <1>1, InHand
  <2>6. /\ \A x \in Promised : Owes(frame, x) <=>
             x = EntryError \/ x = EntryItem \/ Owes(c, x) \/ Owes(Passed, x)
        /\ \A x, y \in Promised : (x = EntryError \/ x = EntryItem \/ Owes(c, x)) /\ Owes(Passed, y) => Before(x, y)
        /\ \A x \in Promised : Owes(c, x) => Before(EntryError, x)
    BY <1>1, <2>5, InHand, EntryOwes
  <2>7. Splits(frame, <<>>, S)
    BY <2>1, <2>4, OwesNone DEF Splits, Gives
  <2>8. Fair(frame, S)
    BY <1>3, <1>6, <1>7, <2>6 DEF Fair
  <2>9. EntryError \in Promised
    BY <1>1, <1>9, InHand, EntryPromises
  <2>10. \A x \in Due : Owes(frame, x) => x \in S \/ Excused(x)'
    <3> SUFFICES ASSUME NEW x \in Due, Owes(frame, x), x \notin S PROVE Excused(x)'
      OBVIOUS
    <3>1. x \in Promised
      BY DEF Due
    <3>2. Owes(c, x) \/ Owes(Passed, x)
      BY <1>7, <2>6, <3>1
    <3>3. Before(EntryError, x)
      BY <2>6, <2>9, <3>1, <3>2
    <3>4. \A e \in S : Before(e, x)
      BY <1>6, <3>3
    <3>5. P # {}
      OBVIOUS
    <3> QED
      BY <1>1, <1>2, <1>3, <1>5, <1>8, <1>9, <3>4, <3>5, InHand, Cut
  <2>11. Placed(NoFrame)
    BY Kinds DEF Placed
  <2>12. Handling(frame, Len(stack), <<>>, es, S, a, EntryError)
    BY <1>6, <2>1, <2>2, <2>3, <2>4, <2>7, <2>8, <2>10, <2>11 DEF Handling
  <2>13. StopInv'
    BY <1>1, <1>2, <1>3, <1>4, <1>5, <2>1, InHand, StopReport
  <2> QED
    BY <1>1, <1>8, <2>12, <2>13, InHand, MainStep
<1>10. CASE world.policy # "abort" /\ Action = "failDescend"
  <2> DEFINE new == <<Suspended(Passed), ChildTask(Entry)>>
  <2>1. Descend(FALSE)
    BY <1>10 DEF FailEntry
  <2>2. Builds(Len(stack), new) /\ frame' = NoFrame
    BY <1>1, <2>1, InHand, DescendBuilds DEF Descend, Pause
  <2>3. Handling(frame, Len(stack), new, es, S, a, EntryError)
    <3>1. \A x \in S : x \in Promised /\ (x = EntryError \/ (x = EntryItem /\ Streaming))
      BY <1>6, <1>7
    <3>2. \A x \in Promised : x = EntryError \/ x = EntryItem => x \in S
      BY <1>7
    <3> HIDE DEF new
    <3>3. new = <<Suspended(Passed), ChildTask(Entry)>>
      BY DEF new
    <3> QED
      BY <1>1, <1>2, <1>6, <1>7, <1>10, <2>2, <3>1, <3>2, <3>3, InHand, DescendHandles
  <2>4. StopInv'
    BY <1>1, <1>2, <1>3, <1>4, <1>5, <2>2, InHand, StopReport
  <2> QED
    BY <1>1, <1>8, <2>3, <2>4, InHand, MainStep
<1>11. CASE world.policy # "abort" /\ Action # "failDescend"
  <2>1. ~Descended(Entry) /\ \A x \in Promised : x = EntryError \/ x = EntryItem => x \in S
    BY <1>7, <1>11
  <2>2. \A x \in S : x \in Promised /\ (x = EntryError \/ x = EntryItem)
    BY <1>6, <1>7
  <2>3. CASE Streaming /\ world.policy = "collect"
    <3>1. Pause(Passed, <<>>)
      BY <1>11, <2>3 DEF FailEntry
    <3>2. Builds(Len(stack), <<Passed>>) /\ frame' = NoFrame
      BY <1>1, <3>1, InHand, PauseBuilds DEF Pause
    <3>3. Handling(frame, Len(stack), <<Passed>>, es, S, a, EntryError)
      BY <1>1, <1>2, <1>6, <2>1, <2>2, <3>2, InHand, StayHandles
    <3>4. StopInv'
      BY <1>1, <1>2, <1>3, <1>4, <1>5, <3>2, InHand, StopReport
    <3> QED
      BY <1>1, <1>8, <3>3, <3>4, InHand, MainStep
  <2>4. CASE ~(Streaming /\ world.policy = "collect")
    <3>1. frame' = Passed /\ stack' = stack
      BY <1>11, <2>4 DEF FailEntry, StayInListing
    <3>2. Builds(Len(stack), <<>>)
      BY <1>1, <3>1, InHand, BuildsOn
    <3>3. Handling(frame, Len(stack), <<>>, es, S, a, EntryError)
      BY <1>1, <1>2, <1>6, <2>1, <2>2, <3>1, <3>2, InHand, StayHandles
    <3>4. turn' = "walker" /\ stash' = <<>>
      <4>1. CASE ~Streaming
        <5>1. Streaming' <=> Streaming
          BY <1>1, SamePromises
        <5> QED
          BY <4>1, <5>1 DEF IInv, RestInv
      <4>2. CASE Streaming
        <5>1. world.policy = "skip"
          BY <1>1, <1>11, <2>4, <4>2, InHand, WorldFields
        <5>2. S = {}
          BY <1>3, <1>6, <5>1, EntryKinds DEF Reportable
        <5>3. UNCHANGED <<items, stash, turn>>
          BY <1>5, <1>11, <5>2 DEF Reports
        <5> QED
          BY <1>1, <5>3, InHand
      <4> QED
        BY <4>1, <4>2
    <3>5. StopInv'
      BY <1>1, <1>2, <1>3, <1>4, <1>5, <1>11, <3>4, InHand, StopReport
    <3> QED
      BY <1>1, <1>8, <3>3, <3>5, InHand, MainStep
  <2> QED
    BY <2>3, <2>4
<1> QED
  BY <1>1, <1>9, <1>10, <1>11

LEMMA EndMain ==
  ASSUME IInv, Main, EndListing
  PROVE  Main'
<1> DEFINE p == frame.path
           a == <<"deferred", p>>
           b == <<"deferredToo", p>>
<1>1. /\ outcome = "running" /\ turn = "walker" /\ frame # NoFrame /\ frame.next = Len(Names(p))
      /\ Report(Error(p, "deferred") \o Error(p, "deferredToo"), <<>>) /\ frame' = NoFrame /\ stack' = stack
      /\ world' = world /\ UNCHANGED roots /\ UNCHANGED outside /\ cancelled' = cancelled
  BY DEF EndListing, Running
<1>2. Grounded /\ TaskInv /\ PlaceInv /\ AgendaInv /\ StopInv /\ Written /\ stack \in Seq(Task) /\ world \in Worlds
  BY DEF IInv, Grounded, TaskInv, Main, OutInv, Written
<1>3. frame \in FrameTasks /\ frame \in Frames /\ frame.kind = "frame" /\ frame \in Tasks /\ p \in Path
  BY <1>1, <1>2, FrameInHand, Kinds
<1>4. Last(p) \in Dir
  BY <1>2, <1>3, ListingPath DEF Grounded, DescentInv
<1>5. Met(p) /\ Descended(p) /\ Listed(p)
  BY <1>2, <1>3 DEF PlaceInv, Placed
<1>6. ~stopped /\ stash = <<>>
  BY <1>1, <1>2 DEF StopInv
<1>7. Working
  BY <1>1, <1>6 DEF Working, roots, outside
<1>8. a \in Items /\ b \in Items
  BY <1>3 DEF Items, ItemKinds
<1>9. a[1] = "deferred" /\ a[2] = p /\ b[1] = "deferredToo" /\ b[2] = p
  OBVIOUS
<1>10. IsError(a) /\ IsError(b) /\ ~RootFailure(a) /\ ~RootFailure(b) /\ a # b /\ ~IsLost(a) /\ ~IsLost(b)
  BY <1>9 DEF IsError, RootFailure, IsLost
<1>11. /\ a \in Promised <=> Is(p, "deferred") /\ Reportable(a)
       /\ b \in Promised <=> Is(p, "deferredToo") /\ Reportable(b)
  <2>1. Yields("deferred", p) <=> Is(p, "deferred")
    BY <1>5 DEF Yields
  <2>2. Yields("deferredToo", p) <=> Is(p, "deferredToo")
    BY <1>5 DEF Yields
  <2>3. "deferred" \in ItemKinds /\ "deferredToo" \in ItemKinds
    BY DEF ItemKinds
  <2> QED
    BY <1>3, <1>5, <1>9, <2>1, <2>2, <2>3, Promises
<1>12. Before(a, b)
  BY SameOrder
<1>13. \A x : x[2] = p /\ x[1] \in AtClosing /\ x = <<x[1], x[2]>> => x = a \/ x = b
  BY DEF AtClosing
<1>14. a[1] \in AtClosing /\ b[1] \in AtClosing
  BY <1>9 DEF AtClosing
<1>15. Error(p, "deferred") = (IF Is(p, "deferred") THEN <<a>> ELSE <<>>)
       /\ Error(p, "deferredToo") = (IF Is(p, "deferredToo") THEN <<b>> ELSE <<>>)
  BY DEF Error
<1>16. \A x : Owes(frame, x) <=> x[2] = p /\ x[1] \in AtClosing
  BY <1>1, <1>3, <1>4, OwesLast
<1> HIDE DEF a, b, p
<1> DEFINE P == {x \in {a, b} : (x = a /\ Is(p, "deferred")) \/ (x = b /\ Is(p, "deferredToo"))}
<1>17. (a \in P <=> Is(p, "deferred")) /\ (b \in P <=> Is(p, "deferredToo")) /\ P \in SUBSET {a, b}
  BY <1>10
<1> HIDE DEF P
<1>18. Meets(Error(p, "deferred") \o Error(p, "deferredToo"), <<>>, P, a, b)
  BY <1>10, <1>15, <1>17 DEF Meets
<1>19. PICK es, S : Reports(es, S, P, a, b)
  BY <1>1, <1>2, <1>6, <1>8, <1>10, <1>17, <1>18, ReportOut
<1>20. /\ Row(es, S, a, b) /\ Emits(es) /\ S \subseteq {a, b}
       /\ a \in S <=> a \in Promised
       /\ b \in S <=> b \in Promised /\ ~(world.policy = "abort" /\ a \in P)
  BY <1>11, <1>17, <1>19 DEF Reports, Row
<1>21. Lies(frame, Len(stack)) /\ Builds(Len(stack), <<>>)
  BY <1>1, <1>2, Lying, BuildsOn
<1>22. Len(<<>>) = 0 /\ \A k \in 1 .. 0 : FALSE
  OBVIOUS
<1>23. Splits(frame, <<>>, S)
  BY <1>1, <1>22, OwesNone DEF Splits, Gives
<1>24. Fair(frame, S)
  BY <1>9, <1>10, <1>14, <1>16, <1>20 DEF Fair
<1>25. \A x \in Due : Owes(frame, x) => x \in S \/ Excused(x)'
  <2> SUFFICES ASSUME NEW x \in Due, Owes(frame, x), x \notin S PROVE Excused(x)'
    OBVIOUS
  <2>1. x \in Promised
    BY DEF Due
  <2>2. x = a \/ x = b
    BY <1>13, <1>16, <2>1, Promises
  <2>3. x = b /\ world.policy = "abort" /\ a \in P
    BY <1>20, <2>1, <2>2
  <2>4. \A e \in S : Before(e, x)
    BY <1>12, <1>20, <2>3
  <2>5. P # {}
    BY <2>3
  <2> QED
    BY <1>2, <1>7, <1>8, <1>10, <1>19, <2>3, <2>4, <2>5, Cut
<1>26. Placed(NoFrame)
  BY Kinds DEF Placed
<1>27. Handling(frame, Len(stack), <<>>, es, S, a, b)
  BY <1>1, <1>12, <1>20, <1>21, <1>22, <1>23, <1>24, <1>25, <1>26 DEF Handling
<1>28. StopInv'
  BY <1>1, <1>2, <1>6, <1>8, <1>10, <1>17, <1>19, StopReport
<1> QED
  BY <1>2, <1>7, <1>27, <1>28, MainStep

-----------------------------------------------------------------------------
(* The steps that take a task.                                             *)

LEMMA InTake ==
  ASSUME IInv, Main, MayTake, stack # <<>>
  PROVE  /\ Grounded /\ TaskInv /\ PlaceInv /\ AgendaInv /\ StopInv /\ Written /\ stack \in Seq(Task)
         /\ outcome = "running" /\ turn = "walker" /\ ~stopped /\ stash = <<>> /\ world \in Worlds
         /\ frame = NoFrame /\ Top \in Tasks /\ Top \in Task /\ Top.path \in Path /\ Placed(Top)
         /\ Top.kind = "dir" => Top \in DirTasks /\ Last(Top.path) \in Dir
         /\ Top.kind = "frame" => Top \in FrameTasks /\ Last(Top.path) \in Dir
         /\ Lies(Top, Len(stack) - 1)
         /\ stack' = Front(stack) => Builds(Len(stack) - 1, <<>>)
         /\ \A f \in Task : stack' = Append(Front(stack), f) => Builds(Len(stack) - 1, <<f>>)
<1>1. Grounded /\ TaskInv /\ stack \in Seq(Task) /\ world \in Worlds /\ RestInv
  BY DEF IInv, Grounded, TaskInv
<1>2. PlaceInv /\ AgendaInv /\ StopInv /\ Written
  BY DEF Main, OutInv, Written
<1>3. frame = NoFrame /\ ~stopped /\ outcome = "running" /\ turn = "walker" /\ (Streaming => stash = <<>>)
  BY DEF MayTake, Between, Running
<1>4. stash = <<>>
  BY <1>1, <1>3 DEF RestInv
<1>5. /\ Top \in Task /\ Top \in Tasks
      /\ Top.kind = "frame" => Top \in FrameTasks /\ Top \in Frames
      /\ Top.kind = "dir" => Top \in DirTasks /\ Last(Top.path) \in Dir
  BY <1>1, TakenTop
<1>6. Top.kind = "frame" => Last(Top.path) \in Dir
  BY <1>1, <1>5, ListingPath DEF Grounded, DescentInv
<1>7. Top.path \in Path
  BY <1>5, Kinds
<1>8. Placed(Top)
  BY <1>2, <1>5 DEF PlaceInv
<1>9. Lies(Top, Len(stack) - 1)
  BY <1>1, <1>2, <1>3, Lying
<1> QED
  BY <1>1, <1>2, <1>3, <1>4, <1>5, <1>6, <1>7, <1>8, <1>9, BuildsPop

LEMMA PopHandles ==
  ASSUME NEW T, NEW n, Lies(T, n), Builds(n, <<>>), frame' = NoFrame,
         NEW es, NEW S, NEW a, NEW b, Row(es, S, a, b), Emits(es), Fair(T, S),
         a \in S /\ b \in S => IsLost(a) \/ IsLost(b) \/ Before(a, b),
         ~cancelled' => \A x \in Due : Owes(T, x) => x \in S \/ Excused(x)'
  PROVE  Handling(T, n, <<>>, es, S, a, b)
<1>1. Len(<<>>) = 0 /\ \A k \in 1 .. 0 : FALSE
  OBVIOUS
<1>2. Splits(T, <<>>, S)
  BY <1>1, OwesNone DEF Splits, Gives
<1>3. Placed(NoFrame)
  BY Kinds DEF Placed
<1> QED
  BY <1>1, <1>2, <1>3 DEF Handling

LEMMA RecordMain ==
  ASSUME IInv, Main, Record
  PROVE  Main'
<1> DEFINE e == <<"entry", Top.path>>
           a == <<"rules", Top.path>>
<1>1. /\ MayTake /\ stack # <<>> /\ Top.kind = "record" /\ HandOut(e) /\ stack' = Front(stack)
      /\ world' = world /\ UNCHANGED roots /\ UNCHANGED outside /\ cancelled' = cancelled /\ frame' = frame
  BY DEF Record, Takes, Pop
<1>2. e \in Items /\ a \in Items
  BY <1>1, InTake DEF Items, ItemKinds
<1>3. ~IsError(e) /\ ~IsLost(e) /\ a # e
  <2>1. e[1] = "entry" /\ a[1] = "rules"
    OBVIOUS
  <2> QED
    BY <2>1 DEF IsError, IsLost
<1>4. e \in Promised
  BY <1>1, InTake DEF Placed
<1>5. \A x \in Promised : Owes(Top, x) <=> x = e
  <2>1. \A x \in Promised : x = <<x[1], x[2]>>
    BY Promises
  <2>2. \A x \in Promised : x[1] = "entry" /\ x[2] = Top.path <=> x = e
    BY <2>1
  <2> QED
    BY <1>1, <2>2 DEF Owes
<1> HIDE DEF e, a
<1>6. Emits(<<e>>) /\ items' = Append(items, e) /\ stash' = <<>> /\ UNCHANGED <<stopped, outcome>>
  BY <1>1, <1>2, InTake, Handed DEF HandOut
<1>7. Row(<<e>>, {e}, a, e)
  BY <1>2, Rows
<1>8. Fair(Top, {e})
  BY <1>3, <1>4, <1>5 DEF Fair
<1>9. \A x \in Due : Owes(Top, x) => x \in {e}
  BY <1>5 DEF Due
<1>10. Handling(Top, Len(stack) - 1, <<>>, <<e>>, {e}, a, e)
  BY <1>1, <1>3, <1>6, <1>7, <1>8, <1>9, InTake, PopHandles
<1>11. Working
  BY <1>1, InTake DEF Working, roots, outside
<1>12. StopInv'
  BY <1>1, <1>2, <1>3, <1>6, InTake, StopRunning
<1> QED
  BY <1>1, <1>10, <1>11, <1>12, InTake, MainStep

LEMMA DropMain ==
  ASSUME IInv, Main, DropTask
  PROVE  Main'
<1> DEFINE a == <<"carried", Top.path>>
           b == <<"rules", Top.path>>
<1>1. /\ MayTake /\ stack # <<>> /\ UNCHANGED output /\ stack' = Front(stack) /\ cancelled' = TRUE
      /\ world' = world /\ UNCHANGED roots /\ UNCHANGED outside /\ frame' = frame
  BY DEF DropTask, Takes, Pop
<1>2. a \in Items /\ b \in Items
  BY <1>1, InTake DEF Items, ItemKinds
<1> HIDE DEF a, b
<1>3. Emits(<<>>) /\ Row(<<>>, {}, a, b)
  BY <1>1, <1>2, InTake, Handed, Rows DEF output
<1>4. Fair(Top, {})
  BY DEF Fair
<1>5. Handling(Top, Len(stack) - 1, <<>>, <<>>, {}, a, b)
  BY <1>1, <1>3, <1>4, InTake, PopHandles
<1>6. Working
  BY <1>1, InTake DEF Working, roots, outside
<1>7. StopInv'
  BY <1>1, InTake, StopRunning DEF output
<1> QED
  BY <1>1, <1>5, <1>6, <1>7, InTake, MainStep

\* Whether a task closes a cycle is a matter of its path.
LEMMA ClosesAs ==
  ASSUME IInv, stack # <<>>, Top.kind = "dir"
  PROVE  /\ Closes(Top) <=> world.follow /\ ~Is(Top.path, "key") /\ Closed(Top.path)
         /\ IsRoot(Top.path) => ~Closes(Top)
<1>1. Grounded /\ Len(stack) \in DOMAIN stack /\ Top = stack[Len(stack)] /\ Top \in DirTasks /\ Top.path \in Path
  BY TakenTop, Kinds DEF IInv, Grounded
<1>2. Follows(Top, Len(Top.path) - 1)
  BY <1>1 DEF Grounded, DescentInv
<1>3. world.follow => Top.chain = Keys(Top.path, Len(Top.path) - 1)
  BY <1>2 DEF Follows
<1>4. Key(Top.path) \in Keys(Top.path, Len(Top.path) - 1) <=> Closed(Top.path)
  BY DEF Keys, Closed
<1>5. IsRoot(Top.path) => ~Closed(Top.path)
  BY DEF IsRoot, Closed
<1> QED
  BY <1>3, <1>4, <1>5 DEF Closes

CarriedItem == <<"carried", Top.path>>

\* What a directory task meets before it is opened.
LEMMA CarriedFacts ==
  ASSUME IInv, Main, MayTake, stack # <<>>, Top.kind = "dir"
  PROVE  /\ CarriedItem \in Items /\ IsError(CarriedItem) /\ ~RootFailure(CarriedItem) /\ ~IsLost(CarriedItem)
         /\ CarriedItem \in Promised <=> IsRoot(Top.path) /\ Is(Top.path, "carried") /\ Reportable(CarriedItem)
         /\ Owes(Top, CarriedItem)
         /\ Carried(Top.path) =
              (IF IsRoot(Top.path) /\ Is(Top.path, "carried") THEN <<CarriedItem>> ELSE <<>>)
         /\ Met(Top.path) /\ Descended(Top.path)
<1>1. Top.path \in Path /\ Met(Top.path) /\ Descended(Top.path)
  BY InTake DEF Placed
<1>2. CarriedItem \in Items
  BY <1>1 DEF CarriedItem, Items, ItemKinds
<1>3. CarriedItem[1] = "carried" /\ CarriedItem[2] = Top.path
  BY DEF CarriedItem
<1>4. IsError(CarriedItem) /\ ~RootFailure(CarriedItem) /\ ~IsLost(CarriedItem)
  BY <1>3 DEF IsError, RootFailure, IsLost
<1>5. Yields("carried", Top.path) <=> IsRoot(Top.path) /\ Is(Top.path, "carried")
  BY DEF Yields
<1>6. "carried" \in ItemKinds /\ CarriedItem = <<CarriedItem[1], CarriedItem[2]>>
  BY <1>3 DEF ItemKinds, CarriedItem
<1>7. CarriedItem \in Promised <=> IsRoot(Top.path) /\ Is(Top.path, "carried") /\ Reportable(CarriedItem)
  BY <1>1, <1>3, <1>5, <1>6, Promises
<1>8. Owes(Top, CarriedItem)
  BY <1>3 DEF Owes, AtOpening
<1>9. Carried(Top.path) = (IF IsRoot(Top.path) /\ Is(Top.path, "carried") THEN <<CarriedItem>> ELSE <<>>)
  BY DEF Carried, Error, IsRoot, CarriedItem
<1> QED
  BY <1>1, <1>2, <1>4, <1>7, <1>8, <1>9

LEMMA CloseMain ==
  ASSUME IInv, Main, CloseCycle
  PROVE  Main'
<1> DEFINE a == CarriedItem
           b == <<"rules", Top.path>>
<1>1. /\ MayTake /\ stack # <<>> /\ Top.kind = "dir" /\ Closes(Top) /\ stack' = Front(stack)
      /\ IF Streaming THEN UNCHANGED output ELSE Report(Carried(Top.path), <<>>)
      /\ world' = world /\ UNCHANGED roots /\ UNCHANGED outside /\ cancelled' = cancelled /\ frame' = frame
  BY DEF CloseCycle, Opens, Takes, Pop, HandOutNothing
<1>2. ~IsRoot(Top.path) /\ world.follow /\ ~Is(Top.path, "key") /\ Closed(Top.path)
  BY <1>1, ClosesAs
<1>3. a \in Items /\ IsError(a) /\ ~RootFailure(a) /\ a \notin Promised /\ Carried(Top.path) = <<>>
  BY <1>1, <1>2, CarriedFacts
<1>4. b \in Items /\ IsError(b) /\ a # b
  <2>1. a[1] = "carried" /\ b[1] = "rules"
    BY DEF CarriedItem
  <2>2. b \in Items
    BY <1>1, InTake DEF Items, ItemKinds
  <2> QED
    BY <2>1, <2>2 DEF IsError
<1>5. \A x \in Promised : ~Owes(Top, x)
  <2> SUFFICES ASSUME NEW x \in Promised, Owes(Top, x) PROVE FALSE
    OBVIOUS
  <2>1. ~Listed(Top.path) /\ ~KeyFails(Top.path) /\ ~ReadFails(Top.path)
    BY <1>2 DEF Listed, KeyFails, ReadFails, Walked
  <2>2. x[2] = Top.path /\ x[1] \in {"carried", "key", "read"}
    BY <1>1, <2>1, InTake, OwesUnlisted
  <2>3. Yields(x[1], x[2])
    BY Promises
  <2> QED
    BY <1>2, <2>1, <2>2, <2>3 DEF Yields
<1> HIDE DEF a, b
<1>6. PICK es : Emits(es) /\ Row(es, {}, a, b) /\ StopInv'
  <2>1. CASE Streaming
    <3>1. Emits(<<>>) /\ Row(<<>>, {}, a, b)
      BY <1>1, <1>3, <1>4, <2>1, InTake, Handed, Rows DEF output
    <3>2. StopInv'
      BY <1>1, <2>1, InTake, StopRunning DEF output
    <3> QED
      BY <3>1, <3>2
  <2>2. CASE ~Streaming
    <3>1. Meets(<<>>, <<>>, {}, a, b)
      BY DEF Meets
    <3>2. PICK es, S : Reports(es, S, {}, a, b)
      BY <1>1, <1>3, <1>4, <2>2, <3>1, InTake, ReportOut
    <3>3. S = {} /\ Emits(es) /\ Row(es, {}, a, b)
      BY <3>2 DEF Reports, Row
    <3>4. StopInv'
      BY <1>1, <1>3, <1>4, <3>2, InTake, StopReport
    <3> QED
      BY <3>3, <3>4
  <2> QED
    BY <2>1, <2>2
<1>7. Fair(Top, {})
  BY DEF Fair
<1>8. Handling(Top, Len(stack) - 1, <<>>, es, {}, a, b)
  BY <1>1, <1>5, <1>6, <1>7, InTake, PopHandles DEF Due
<1>9. Working
  BY <1>1, InTake DEF Working, roots, outside
<1> QED
  BY <1>1, <1>6, <1>8, <1>9, InTake, MainStep

LEMMA FailOpenMain ==
  ASSUME IInv, Main, FailOpen
  PROVE  Main'
<1> DEFINE p == Top.path
           a == CarriedItem
           b == Failure(Top)
<1>1. /\ MayTake /\ stack # <<>> /\ Top.kind = "dir" /\ ~Closes(Top) /\ OpenFails(Top) /\ stack' = Front(stack)
      /\ Report(IF Streaming THEN <<>> ELSE Carried(p), <<b>>)
      /\ world' = world /\ UNCHANGED roots /\ UNCHANGED outside /\ cancelled' = cancelled /\ frame' = frame
  BY DEF FailOpen, Opens, Takes, Pop
<1>2. p \in Path /\ Met(p) /\ Descended(p) /\ Last(p) \in Dir
  BY <1>1, InTake, CarriedFacts
<1>3. /\ a \in Items /\ IsError(a) /\ ~RootFailure(a) /\ ~IsLost(a) /\ Owes(Top, a)
      /\ a \in Promised <=> IsRoot(p) /\ Is(p, "carried") /\ Reportable(a)
      /\ Carried(p) = (IF IsRoot(p) /\ Is(p, "carried") THEN <<a>> ELSE <<>>)
  BY <1>1, CarriedFacts
<1>4. /\ b[2] = p /\ b[1] \in {"key", "read"} /\ b = <<b[1], p>>
      /\ b[1] = "key" <=> KeyFails(p)
      /\ b[1] = "read" <=> ReadFails(p)
      /\ KeyFails(p) \/ ReadFails(p)
      /\ ~Listed(p)
  <2>1. b = <<IF KeyFails(p) THEN "key" ELSE "read", p>>
    BY DEF Failure, KeyFails
  <2>2. ~KeyFails(p) => Walked(p) /\ Is(p, "read")
    BY <1>1, ClosesAs DEF KeyFails, Walked, OpenFails
  <2>3. ReadFails(p) <=> ~KeyFails(p)
    BY <2>2 DEF ReadFails
  <2>4. ~Listed(p)
    BY <2>2 DEF Listed
  <2>5. b[2] = p /\ b[1] = IF KeyFails(p) THEN "key" ELSE "read"
    BY <2>1
  <2>6. b[1] \in {"key", "read"} /\ (b[1] = "key" <=> KeyFails(p)) /\ (b[1] = "read" <=> ~KeyFails(p))
    BY <2>5
  <2> QED
    BY <2>1, <2>3, <2>4, <2>5, <2>6
<1>5. b \in Items /\ IsError(b) /\ ~IsLost(b) /\ a # b
  <2>1. b \in Items
    BY <1>2, <1>4 DEF Items, ItemKinds
  <2>2. a[1] = "carried"
    BY DEF CarriedItem
  <2> QED
    BY <1>4, <2>1, <2>2 DEF IsError, IsLost
<1>6. b \in Promised <=> Reportable(b)
  <2>1. Yields(b[1], p)
    BY <1>2, <1>4 DEF Yields
  <2>2. b[1] \in ItemKinds
    BY <1>4 DEF ItemKinds
  <2> QED
    BY <1>2, <1>4, <2>1, <2>2, Promises
<1>7. Owes(Top, b)
  BY <1>1, <1>4 DEF Owes, AtOpening
<1>8. Before(a, b)
  BY <1>4, SameOrder DEF CarriedItem
<1>9. \A x \in Promised : Owes(Top, x) => x = a \/ x = b
  <2> SUFFICES ASSUME NEW x \in Promised, Owes(Top, x) PROVE x = a \/ x = b
    OBVIOUS
  <2>1. x[2] = p /\ x[1] \in {"carried", "key", "read"}
    BY <1>1, <1>2, <1>4, OwesUnlisted
  <2>2. x = <<x[1], x[2]>> /\ Yields(x[1], x[2])
    BY Promises
  <2>3. CASE x[1] = "carried"
    BY <2>1, <2>2, <2>3 DEF CarriedItem
  <2>4. CASE x[1] = "key"
    <3>1. KeyFails(p)
      BY <2>1, <2>2, <2>4 DEF Yields
    <3> QED
      BY <1>4, <2>1, <2>2, <2>4, <3>1
  <2>5. CASE x[1] = "read"
    <3>1. ReadFails(p)
      BY <2>1, <2>2, <2>5 DEF Yields
    <3> QED
      BY <1>4, <2>1, <2>2, <2>5, <3>1
  <2> QED
    BY <2>1, <2>3, <2>4, <2>5
<1>10. Streaming => a \notin Due
  <2>1. a[1] = "carried" /\ a[2] = p
    BY DEF CarriedItem
  <2>2. Streaming => Forgotten(a)
    BY <1>4, <2>1 DEF Forgotten
  <2> QED
    BY <2>2 DEF Due
<1> HIDE DEF a, b
<1> DEFINE P == {x \in {a, b} : x = b \/ (~Streaming /\ IsRoot(p) /\ Is(p, "carried"))}
<1>11. /\ a \in P <=> ~Streaming /\ IsRoot(p) /\ Is(p, "carried")
       /\ b \in P /\ P \in SUBSET {a, b}
  BY <1>5
<1> HIDE DEF P
<1>12. Meets(IF Streaming THEN <<>> ELSE Carried(p), <<b>>, P, a, b)
  BY <1>3, <1>11 DEF Meets
<1> HIDE DEF p
<1>13. PICK es, S : Reports(es, S, P, a, b)
  BY <1>1, <1>3, <1>5, <1>11, <1>12, InTake, ReportOut
<1>14. /\ Row(es, S, a, b) /\ Emits(es) /\ S \subseteq {a, b}
       /\ a \in S <=> a \in P /\ Reportable(a)
       /\ b \in S <=> b \in Promised /\ ~(world.policy = "abort" /\ a \in P)
  BY <1>6, <1>11, <1>13 DEF Reports, Row
<1>15. a \in S <=> ~Streaming /\ a \in Promised
  BY <1>3, <1>11, <1>14
<1>16. Working
  BY <1>1, InTake DEF Working, roots, outside
<1>17. Fair(Top, S)
  BY <1>3, <1>5, <1>7, <1>14, <1>15 DEF Fair
<1>18. \A x \in Due : Owes(Top, x) => x \in S \/ Excused(x)'
  <2> SUFFICES ASSUME NEW x \in Due, Owes(Top, x), x \notin S PROVE Excused(x)'
    OBVIOUS
  <2>1. x \in Promised
    BY DEF Due
  <2>2. x = b /\ world.policy = "abort" /\ a \in P
    BY <1>9, <1>10, <1>14, <1>15, <2>1
  <2>3. \A e \in S : Before(e, x)
    BY <1>8, <1>14, <2>2
  <2>4. P # {}
    BY <2>2
  <2> QED
    BY <1>1, <1>3, <1>5, <1>13, <1>16, <2>2, <2>3, <2>4, InTake, Cut
<1>19. Handling(Top, Len(stack) - 1, <<>>, es, S, a, b)
  BY <1>1, <1>8, <1>14, <1>17, <1>18, InTake, PopHandles
<1>20. StopInv'
  BY <1>1, <1>3, <1>5, <1>11, <1>13, InTake, StopReport
<1> QED
  BY <1>1, <1>16, <1>19, <1>20, InTake, MainStep

LEMMA OpenMain ==
  ASSUME IInv, Main, Open
  PROVE  Main'
<1> DEFINE p == Top.path
           a == CarriedItem
           b == <<"rules", p>>
           f == FirstFrame(Top)
<1>1. /\ MayTake /\ stack # <<>> /\ Top.kind = "dir" /\ ~Closes(Top) /\ ~OpenFails(Top)
      /\ stack' = Append(Front(stack), f)
      /\ Report(Carried(p) \o Error(p, "rules"), <<>>)
      /\ world' = world /\ UNCHANGED roots /\ UNCHANGED outside /\ cancelled' = cancelled /\ frame' = frame
  BY DEF Open, Opens, Takes
<1>2. p \in Path /\ Met(p) /\ Descended(p) /\ Last(p) \in Dir /\ Top \in DirTasks /\ frame' = NoFrame
  BY <1>1, InTake, CarriedFacts
<1>3. /\ a \in Items /\ IsError(a) /\ ~RootFailure(a) /\ ~IsLost(a) /\ Owes(Top, a)
      /\ a \in Promised <=> IsRoot(p) /\ Is(p, "carried") /\ Reportable(a)
      /\ Carried(p) = (IF IsRoot(p) /\ Is(p, "carried") THEN <<a>> ELSE <<>>)
  BY <1>1, CarriedFacts
<1>4. ~KeyFails(p) /\ ~ReadFails(p) /\ Listed(p)
  <2>1. ~KeyFails(p) /\ ~Is(p, "read")
    BY <1>1 DEF KeyFails, OpenFails
  <2>2. Walked(p)
    BY <1>1, <2>1, ClosesAs DEF KeyFails, Walked
  <2> QED
    BY <2>1, <2>2 DEF ReadFails, Listed
<1>5. b[1] = "rules" /\ b[2] = p /\ a[1] = "carried" /\ a = <<"carried", p>>
  BY DEF CarriedItem
<1>6. b \in Items /\ IsError(b) /\ ~RootFailure(b) /\ ~IsLost(b) /\ a # b
  <2>1. b \in Items
    BY <1>2 DEF Items, ItemKinds
  <2> QED
    BY <1>5, <2>1 DEF IsError, IsLost, RootFailure
<1>7. b \in Promised <=> Is(p, "rules") /\ Reportable(b)
  <2>1. Yields("rules", p) <=> Is(p, "rules")
    BY <1>2, <1>4 DEF Yields
  <2>2. "rules" \in ItemKinds
    BY DEF ItemKinds
  <2> QED
    BY <1>2, <1>5, <2>1, <2>2, Promises
<1>8. Owes(Top, b)
  BY <1>1, <1>5 DEF Owes, AtOpening
<1>9. Before(a, b)
  BY <1>5, SameOrder
<1>10. f \in FrameTasks /\ f \in Task /\ f.kind = "frame" /\ f.path = p /\ f.next = 0
  BY <1>2, FirstFrames DEF Task
<1>11. Error(p, "rules") = (IF Is(p, "rules") THEN <<b>> ELSE <<>>)
  BY DEF Error
<1>12. Builds(Len(stack) - 1, <<f>>)
  BY <1>1, <1>10, InTake
<1>13. Placed(f)
  BY <1>2, <1>4, <1>10 DEF Placed
<1> HIDE DEF f, a, b, p
<1>14. \A x \in Promised : Owes(Top, x) <=> (x[2] = p /\ x[1] \in AtOpening) \/ Owes(f, x)
  BY <1>1, <1>2, <1>10, OwesOpening DEF p
<1>15. \A x \in Promised : x[2] = p /\ x[1] \in AtOpening => x = a \/ x = b
  <2> SUFFICES ASSUME NEW x \in Promised, x[2] = p, x[1] \in AtOpening PROVE x = a \/ x = b
    OBVIOUS
  <2>1. x = <<x[1], x[2]>> /\ Yields(x[1], x[2])
    BY Promises
  <2>2. x[1] # "key" /\ x[1] # "read"
    BY <1>4, <2>1 DEF Yields
  <2>3. x[1] = "carried" \/ x[1] = "rules"
    BY <2>2 DEF AtOpening
  <2> QED
    BY <2>1, <2>3, <1>5 DEF b
<1>16. \A x \in Promised : Owes(f, x) => Before(a, x) /\ Before(b, x)
  <2> SUFFICES ASSUME NEW x \in Promised, Owes(f, x) PROVE Before(a, x) /\ Before(b, x)
    OBVIOUS
  <2>1. x[2] \in Path
    BY Promises
  <2>2. \A kind \in {"carried", "rules"} : Before(<<kind, p>>, x)
    BY <1>2, <1>10, <2>1, OpeningOrder
  <2> QED
    BY <1>5, <2>2 DEF b
<1> DEFINE P == {x \in {a, b} : (x = a /\ IsRoot(p) /\ Is(p, "carried")) \/ (x = b /\ Is(p, "rules"))}
<1>17. /\ a \in P <=> IsRoot(p) /\ Is(p, "carried")
       /\ b \in P <=> Is(p, "rules")
       /\ P \in SUBSET {a, b}
  BY <1>6
<1> HIDE DEF P
<1>18. Meets(Carried(p) \o Error(p, "rules"), <<>>, P, a, b)
  BY <1>3, <1>6, <1>11, <1>17 DEF Meets
<1>19. PICK es, S : Reports(es, S, P, a, b)
  BY <1>1, <1>3, <1>6, <1>17, <1>18, InTake, ReportOut
<1>20. /\ Row(es, S, a, b) /\ Emits(es) /\ S \subseteq {a, b}
       /\ a \in S <=> a \in Promised
       /\ b \in S <=> b \in Promised /\ ~(world.policy = "abort" /\ a \in P)
  BY <1>3, <1>7, <1>17, <1>19 DEF Reports, Row
<1>21. Working
  BY <1>1, InTake DEF Working, roots, outside
<1>22. Fair(Top, S)
  BY <1>3, <1>6, <1>8, <1>20 DEF Fair
<1> DEFINE new == <<f>>
<1>23. Len(new) = 1 /\ new[1] = f
  OBVIOUS
<1>24. Builds(Len(stack) - 1, new)
  BY <1>12
<1> HIDE DEF new
<1>25. (\A k \in 1 .. Len(new) : new[k] = f /\ k = 1) /\ 1 \in 1 .. Len(new)
  BY <1>23
<1>26. Splits(Top, new, S)
  <2>1. Gives(Top, f, S)
    BY <1>14, <1>16, <1>20 DEF Gives
  <2>2. Gives(Top, NoFrame, S) /\ Ahead(NoFrame, f)
    BY OwesNone DEF Gives, Ahead
  <2>3. \A j, k \in 1 .. Len(new) : ~(j < k)
    BY <1>25
  <2> QED
    BY <1>2, <1>25, <2>1, <2>2, <2>3 DEF Splits
<1>27. \A x \in Due : Owes(Top, x) =>
         x \in S \/ (\E k \in 1 .. Len(new) : Owes(new[k], x)) \/ Owes(frame', x) \/ Excused(x)'
  <2> SUFFICES ASSUME NEW x \in Due, Owes(Top, x), x \notin S, ~Owes(f, x) PROVE Excused(x)'
    BY <1>25
  <2>1. x \in Promised
    BY DEF Due
  <2>2. x = a \/ x = b
    BY <1>14, <1>15, <2>1
  <2>3. x = b /\ world.policy = "abort" /\ a \in P
    BY <1>20, <2>1, <2>2
  <2>4. \A e \in S : Before(e, x)
    BY <1>9, <1>20, <2>3
  <2>5. P # {}
    BY <2>3
  <2> QED
    BY <1>1, <1>3, <1>6, <1>19, <1>21, <2>3, <2>4, <2>5, InTake, Cut
<1>28. Placed(NoFrame)
  BY Kinds DEF Placed
<1>29. Handling(Top, Len(stack) - 1, new, es, S, a, b)
  BY <1>1, <1>2, <1>9, <1>13, <1>20, <1>22, <1>24, <1>25, <1>26, <1>27, <1>28, InTake DEF Handling
<1>30. StopInv'
  BY <1>1, <1>2, <1>3, <1>6, <1>17, <1>19, InTake, StopReport
<1> QED
  BY <1>1, <1>21, <1>29, <1>30, InTake, MainStep

LEMMA ResumeMain ==
  ASSUME IInv, Main, Resume
  PROVE  Main'
<1> DEFINE a == <<"carried", Top.path>>
           b == <<"rules", Top.path>>
           f == RestoredFrame
<1>1. /\ MayTake /\ stack # <<>> /\ Top.kind = "frame" /\ (Reopens(Top) => Recognized(Top)) /\ stack' = Front(stack)
      /\ frame' = f /\ UNCHANGED output
      /\ world' = world /\ UNCHANGED roots /\ UNCHANGED outside /\ cancelled' = cancelled
  BY DEF Resume, Takes, Pop, RestoredFrame
<1>2. a \in Items /\ b \in Items
  BY <1>1, InTake DEF Items, ItemKinds
<1>3. f.kind = "frame" /\ f.path = Top.path /\ f.next = Top.next
  BY <1>1, InTake, Restored
<1> HIDE DEF a, b, f
<1>4. \A x : Owes(f, x) <=> Owes(Top, x)
  BY <1>1, <1>3 DEF Owes
<1>5. Placed(f)
  BY <1>1, <1>3, InTake DEF Placed
<1>6. Emits(<<>>) /\ Row(<<>>, {}, a, b)
  BY <1>1, <1>2, InTake, Handed, Rows DEF output
<1>7. Len(<<>>) = 0 /\ \A k \in 1 .. 0 : FALSE
  OBVIOUS
<1>8. Splits(Top, <<>>, {}) /\ Fair(Top, {})
  BY <1>1, <1>4, <1>7 DEF Splits, Gives, Fair
<1>9. Handling(Top, Len(stack) - 1, <<>>, <<>>, {}, a, b)
  BY <1>1, <1>4, <1>5, <1>6, <1>7, <1>8, InTake DEF Handling
<1>10. Working
  BY <1>1, InTake DEF Working, roots, outside
<1>11. StopInv'
  BY <1>1, InTake, StopRunning DEF output
<1> QED
  BY <1>1, <1>9, <1>10, <1>11, InTake, MainStep

LEMMA LoseMain ==
  ASSUME IInv, Main, moved, LoseListing
  PROVE  Main'
<1> DEFINE p == Top.path
           a == <<"rules", p>>
           b == <<"lost", p>>
           P == {b}
<1>1. /\ MayTake /\ stack # <<>> /\ Top.kind = "frame" /\ stack' = Front(stack)
      /\ Report(<<>>, <<b>>)
      /\ world' = world /\ UNCHANGED roots /\ UNCHANGED outside /\ cancelled' = cancelled /\ frame' = frame
  BY DEF LoseListing, Takes, Pop
<1>2. p \in Path /\ Last(p) \in Dir /\ Top.path = p
  BY <1>1, InTake
<1>3. b[1] = "lost" /\ b[2] = p /\ a[1] = "rules"
  OBVIOUS
<1>4. a \in Items /\ b \in Items
  BY <1>2 DEF Items, ItemKinds
<1>5. IsError(a) /\ IsError(b) /\ ~RootFailure(a) /\ a # b /\ IsLost(b)
  BY <1>3 DEF IsError, RootFailure, IsLost
<1> HIDE DEF a, b, p
<1>6. P \in SUBSET {a, b} /\ a \notin P /\ b \in P /\ P # {}
  BY <1>5
<1> HIDE DEF P
<1>7. Meets(<<>>, <<b>>, P, a, b)
  BY <1>6 DEF Meets
<1>8. PICK es, S : Reports(es, S, P, a, b)
  BY <1>1, <1>4, <1>5, <1>6, <1>7, InTake, ReportOut
<1>9. /\ Row(es, S, a, b) /\ Emits(es) /\ S \subseteq {a, b}
      /\ a \notin S /\ (b \in S <=> Reportable(b)) /\ (S # {} => \E e \in S : e \in ToSet(items'))
      /\ world.policy = "abort" => stopped'
  BY <1>6, <1>8 DEF Reports, Row
<1>10. Working
  BY <1>1, InTake DEF Working, roots, outside
<1>11. Fair(Top, S)
  BY <1>5, <1>9 DEF Fair
<1>12. \A x \in Due : Owes(Top, x) => x \in S \/ Excused(x)'
  <2> SUFFICES ASSUME NEW x \in Due, Owes(Top, x) PROVE Excused(x)'
    OBVIOUS
  <2>1. moved' /\ world'.policy = world.policy
    BY <1>10 DEF Working
  <2>2. CASE world.policy = "abort"
    BY <1>9, <2>1, <2>2 DEF Excused
  <2>3. CASE world.policy = "skip"
    BY <2>1, <2>3 DEF Excused
  <2>4. CASE world.policy # "skip"
    <3>1. b \in ToSet(items')
      BY <1>9, <2>4 DEF Reportable
    <3>2. x[2] \in Path /\ p \in Path
      BY <1>2, Promises DEF Due
    <3>3. x[2] \in Seq(Name) /\ p \in Seq(Name)
      BY <3>2, PathFields
    <3>4. IsPrefix(p, x[2])
      <4>1. \/ x[2] = p
            \/ \E k \in DOMAIN Names(p) : IsPrefix(Son(p, k), x[2])
        BY <1>1, <1>2 DEF Owes, Son
      <4>2. ASSUME NEW k \in DOMAIN Names(p), IsPrefix(Son(p, k), x[2]) PROVE IsPrefix(p, x[2])
        <5>1. IsStrictPrefix(p, x[2])
          BY <1>2, <3>2, <4>2, Beneath
        <5> QED
          BY <5>1 DEF IsStrictPrefix
      <4> QED
        BY <3>3, <4>1, <4>2, PrefixSteps
    <3>5. <<"lost", p>> \in ToSet(items')
      BY <3>1 DEF b
    <3>6. BelowLost(x)'
      BY <3>2, <3>4, <3>5 DEF BelowLost
    <3> QED
      BY <2>1, <3>6 DEF Excused
  <2> QED
    BY <2>2, <2>3, <2>4
<1>13. Handling(Top, Len(stack) - 1, <<>>, es, S, a, b)
  BY <1>1, <1>9, <1>11, <1>12, InTake, PopHandles
<1>14. StopInv'
  BY <1>1, <1>4, <1>5, <1>6, <1>8, InTake, StopReport
<1> QED
  BY <1>1, <1>10, <1>13, <1>14, InTake, MainStep

-----------------------------------------------------------------------------
(* The steps that take no task and work through no listing.                *)

LEMMA Idles ==
  ASSUME IInv, Main,
         UNCHANGED <<world, roots, frame>>, moved => moved', cancelled => cancelled', outcome = "running",
         stack' = stack \/ (stack' = <<>> /\ outcome' = "dropped"),
         Out' = Out, ToSet(items) \subseteq ToSet(items'), Written', stopped => stopped' /\ items' = items,
         StopInv'
  PROVE  Main'
<1>1. TaskInv /\ PlaceInv /\ AgendaInv /\ OutInv /\ CompleteInv
  BY DEF IInv, Main
<1>2. world' = world /\ begun' = begun /\ frame' = frame /\ outcome # "dropped"
  BY DEF roots
<1>3. PlaceInv' /\ AgendaInv' /\ OutInv' /\ CompleteInv'
  BY <1>1, <1>2, IdleStep
<1> QED
  BY <1>3 DEF Main

\* Nothing is handed out.
LEMMA Silent ==
  ASSUME Main, UNCHANGED <<items, stash>>
  PROVE  Out' = Out /\ ToSet(items) \subseteq ToSet(items') /\ Written' /\ StopInv
BY DEF Main, OutInv, Out, Written

LEMMA CallMain ==
  ASSUME IInv, Main, NextCall \/ DropStream
  PROVE  Main'
<1>1. /\ UNCHANGED <<world, roots, frame, items, stash, stopped>> /\ moved' = moved /\ cancelled' = cancelled
      /\ outcome = "running" /\ turn = "caller"
      /\ stack' = stack \/ (stack' = <<>> /\ outcome' = "dropped")
      /\ outcome' \in {"running", "dropped"}
  BY DEF NextCall, DropStream, outside
<1>2. Out' = Out /\ ToSet(items) \subseteq ToSet(items') /\ Written' /\ StopInv
  BY <1>1, Silent
<1>3. frame = NoFrame
  BY <1>1, <1>2 DEF StopInv
<1>4. Aborts' <=> Aborts
  BY <1>1 DEF Aborts
<1>5. StopInv'
  <2>1. stopped' /\ ~Streaming' => outcome = "failed"
    BY <1>1, <1>2, SamePromises DEF StopInv
  <2> QED
    BY <1>1, <1>2, <1>3, <1>4, <2>1 DEF StopInv
<1> QED
  BY <1>1, <1>2, <1>5, Idles

LEMMA EndsMain ==
  ASSUME IInv, Main, StreamEnds \/ CollectEnds
  PROVE  Main'
<1>1. /\ UNCHANGED <<world, roots, frame, items, stash>> /\ moved' = moved /\ outcome = "running" /\ frame = NoFrame
      /\ stack' = stack /\ outcome' = "ended"
  BY DEF StreamEnds, CollectEnds, outside, Running, Between
<1>2. Out' = Out /\ ToSet(items) \subseteq ToSet(items') /\ Written' /\ StopInv
  BY <1>1, Silent
<1>3. (Aborts' <=> Aborts) /\ (Streaming' <=> Streaming)
  BY <1>1, SamePromises DEF Aborts
<1>4. CASE StreamEnds
  <2>1. /\ Streaming /\ stopped' = (stopped \/ token) /\ cancelled' = (cancelled \/ (token /\ ~stopped))
        /\ stopped \/ token \/ (stash = <<>> /\ stack = <<>>)
    BY <1>4 DEF StreamEnds
  <2>2. StopInv'
    BY <1>1, <1>2, <1>3, <2>1 DEF StopInv
  <2> QED
    BY <1>1, <1>2, <2>1, <2>2, Idles
<1>5. CASE CollectEnds
  <2>1. ~Streaming /\ stack = <<>> /\ injector = <<>> /\ local = <<>> /\ stopped' = stopped /\ ~stopped /\ cancelled' = cancelled
    BY <1>5 DEF CollectEnds, Between
  <2>2. stash = <<>>
    BY <2>1 DEF IInv, RestInv
  <2>3. injector' = injector /\ local' = local
    BY <1>1 DEF roots
  <2>4. StopInv'
    BY <1>1, <1>2, <1>3, <2>1, <2>2, <2>3 DEF StopInv
  <2> QED
    BY <1>1, <1>2, <2>1, <2>4, Idles
<1> QED
  BY <1>4, <1>5

LEMMA StashMain ==
  ASSUME IInv, Main, StashedError
  PROVE  Main'
<1>1. /\ UNCHANGED <<world, roots, stack, frame, stopped, outcome, cancelled>> /\ moved' = moved
      /\ outcome = "running" /\ frame = NoFrame /\ ~stopped /\ stash # <<>>
      /\ items' = Append(items, Head(stash)) /\ stash' = Tail(stash)
  BY DEF StashedError, outside, Running, Between
<1>2. StopInv /\ Written
  BY DEF Main, OutInv, Written
<1>3. PICK s, u : s = items /\ u = stash /\ s \in Seq(Items) /\ u \in Seq(Items) /\ u # <<>>
  BY <1>1, <1>2 DEF Written
<1>4. /\ Head(u) \in Items /\ Tail(u) \in Seq(Items) /\ Append(s, Head(u)) \in Seq(Items)
      /\ Append(s, Head(u)) \o Tail(u) = s \o u
  <2>1. Head(u) \in Items /\ Tail(u) \in Seq(Items) /\ Append(s, Head(u)) \in Seq(Items)
    BY <1>3
  <2>2. u = <<Head(u)>> \o Tail(u) /\ <<Head(u)>> \in Seq(Items)
    BY <1>3, <2>1
  <2>3. Append(s, Head(u)) = s \o <<Head(u)>>
    BY <1>3, <2>1
  <2> DEFINE h == <<Head(u)>>
             v == Tail(u)
  <2>4. h \in Seq(Items) /\ v \in Seq(Items) /\ u = h \o v /\ Append(s, Head(u)) = s \o h
    BY <2>1, <2>2, <2>3
  <2> HIDE DEF h, v
  <2>5. (s \o h) \o v = s \o (h \o v)
    BY <1>3, <2>4, ConcatAssociative
  <2>6. Append(s, Head(u)) \o v = s \o u
    BY <2>4, <2>5
  <2> QED
    BY <2>1, <2>6 DEF v
<1>5. Written' /\ Out' = Out /\ ToSet(items) \subseteq ToSet(items')
  <2>1. Out = s \o u /\ Out' = Append(s, Head(u)) \o Tail(u)
    BY <1>1, <1>3 DEF Out
  <2>2. ToSet(items) \subseteq ToSet(items')
    BY <1>1, <1>2, <1>3, <1>4, Longer
  <2> QED
    BY <1>1, <1>3, <1>4, <2>1, <2>2 DEF Written
<1>6. world.policy # "abort"
  BY <1>1, <1>2 DEF StopInv
<1>7. StopInv'
  BY <1>1, <1>2, <1>6, StopRunning
<1> QED
  BY <1>1, <1>5, <1>7, Idles

LEMMA OutsideMain ==
  ASSUME IInv, Main, Cancel \/ Crowd \/ Replace
  PROVE  Main'
<1>1. /\ UNCHANGED <<world, roots, stack, frame, output, cancelled>> /\ (moved => moved') /\ outcome = "running"
  BY DEF Cancel, Crowd, Replace
<1>2. UNCHANGED <<items, stash, turn, stopped, outcome, injector, local>>
  BY <1>1 DEF output, roots
<1>3. Out' = Out /\ ToSet(items) \subseteq ToSet(items') /\ Written' /\ StopInv
  BY <1>2, Silent
<1>4. (Aborts' <=> Aborts) /\ (Streaming' <=> Streaming)
  BY <1>1, <1>2, SamePromises DEF Aborts
<1>5. StopInv'
  BY <1>1, <1>2, <1>3, <1>4 DEF StopInv
<1> QED
  BY <1>1, <1>2, <1>3, <1>5, Idles

LEMMA StillMain ==
  ASSUME IInv, Main, UNCHANGED vars
  PROVE  Main'
<1>1. /\ UNCHANGED <<world, stack, frame, cancelled>> /\ moved' = moved /\ begun' = begun
      /\ UNCHANGED <<items, stash, turn, stopped, outcome, injector, local>>
  BY DEF vars, output, roots, outside
<1>2. Out' = Out /\ ToSet(items) \subseteq ToSet(items') /\ Written' /\ StopInv
  BY <1>1, Silent
<1>3. (Aborts' <=> Aborts) /\ (Streaming' <=> Streaming)
  BY <1>1, SamePromises DEF Aborts
<1>4. StopInv'
  BY <1>1, <1>2, <1>3 DEF StopInv
<1>5. TaskInv /\ PlaceInv /\ AgendaInv /\ OutInv /\ CompleteInv
  BY DEF IInv, Main
<1>6. PlaceInv' /\ AgendaInv' /\ OutInv' /\ CompleteInv'
  BY <1>1, <1>2, <1>5, IdleStep
<1> QED
  BY <1>4, <1>6 DEF Main

-----------------------------------------------------------------------------
(* What is read as long as nothing was replaced.                           *)

OldTask(t) ==
  /\ t.kind = "frame" => t.inode = "old"
  /\ HasFd(FdOf(t)) => FdOf(t).inode = "old"

LEMMA InodeForm ==
  /\ InodeInv <=> (~moved => \A t \in Tasks : OldTask(t))
  /\ InodeInv' <=> (~moved' => \A t \in Tasks' : OldTask(t))
BY DEF InodeInv, Frames, OldTask

LEMMA Unmoved ==
  ASSUME [Next]_vars, ~moved'
  PROVE  ~moved
BY DEF Next, Walk, Done, vars, outside, StreamEnds, StashedError, TakeRoot, CollectEnds, Record, DropTask, CloseCycle,
       FailOpen, Open, Resume, LoseListing, Halt, SkipEntry, EmitEntry, DescendEntry, EmitAndDescend, FailEntry,
       EndListing, NextCall, DropStream, Cancel, Crowd, Replace

LEMMA OldTasks ==
  ASSUME Grounded, LinkInv, Moves, ~moved, \A t \in Tasks : OldTask(t), NEW t, NewTask(t)
  PROVE  OldTask(t)
<1>1. \A path : PathInode(path) = "old"
  BY DEF PathInode
<1>2. \A u : /\ u.kind = "dir" => FdOf(u) = u.open
             /\ u.kind = "frame" => FdOf(u) = u.fd
             /\ u.kind = "record" => FdOf(u) = NoFd
  BY DEF FdOf
<1>3. ~HasFd(NoFd)
  BY FdFields
<1>4. ASSUME OpensTop, t = FirstFrame(Top) PROVE OldTask(t)
  <2>1. Top \in DirTasks /\ Last(Top.path) \in Dir /\ Top \in Tasks /\ Top.kind = "dir"
    BY <1>4, TakenTop DEF OpensTop, Handles
  <2>2. HasFd(Top.open) => Top.open.inode = "old"
    BY <1>2, <2>1 DEF OldTask
  <2>3. OpenInode(Top) = "old"
    BY <1>1, <2>2 DEF OpenInode
  <2>4. t.kind = "frame" /\ t.inode = OpenInode(Top) /\ (t.fd = NoFd \/ t.fd.inode = t.inode)
    BY <1>4, <2>1, FirstFrames
  <2> QED
    BY <1>2, <1>3, <2>3, <2>4 DEF OldTask
<1>5. ASSUME Resumes, t = RestoredFrame PROVE OldTask(t)
  <2>1. Top \in FrameTasks /\ Top \in Frames /\ Top \in Tasks /\ Top.kind = "frame" /\ (Reopens(Top) => Recognized(Top))
    BY <1>5, TakenTop DEF Resumes, Handles
  <2>2. OldTask(Top)
    BY <2>1
  <2>3. t.kind = "frame" /\ t.inode = Top.inode /\ (t.fd = Top.fd \/ t.fd.inode = Top.awaited)
    BY <1>5, <2>1, Restored
  <2>4. Reopens(Top) => Top.awaited = "old"
    BY <1>1, <2>1 DEF Recognized
  <2>5. t.fd = Top.fd \/ t.fd.inode = "old"
    BY <1>5, <2>1, <2>4, Restored
  <2> QED
    BY <1>2, <2>1, <2>2, <2>3, <2>5 DEF OldTask
<1>6. ASSUME Stays \/ Pauses \/ Descends PROVE frame \in FrameTasks /\ frame.kind = "frame" /\ OldTask(frame)
  BY <1>6, NextEntry, Kinds DEF Stays, Pauses, Descends, Classifies, Tasks
<1>7. ASSUME Stays \/ Pauses, t = Passed PROVE OldTask(t)
  <2>1. t.kind = "frame" /\ t.inode = frame.inode /\ t.fd = frame.fd
    BY <1>6, <1>7, PassedFrame
  <2> QED
    BY <1>2, <1>6, <1>7, <2>1 DEF OldTask
<1>8. ASSUME Descends, t = Suspended(Passed) PROVE OldTask(t)
  <2>1. t.kind = "frame" /\ t.inode = frame.inode /\ (t.fd = frame.fd \/ t.fd = NoFd)
    BY <1>6, <1>8, SuspendedFrame
  <2> QED
    BY <1>2, <1>3, <1>6, <1>8, <2>1 DEF OldTask
<1>9. ASSUME Descends, t = ChildTask(Entry) PROVE OldTask(t)
  <2>1. t.kind = "dir" /\ (t.open = frame.fd \/ t.open = NoFd)
    BY <1>6, <1>9, NewTasks, NextEntry, ChildTasks DEF Descends, Classifies
  <2> QED
    BY <1>2, <1>3, <1>6, <1>9, <2>1 DEF OldTask
<1>10. ASSUME Descends, t = RecordTask(Entry) PROVE OldTask(t)
  <2>1. t.kind = "record"
    BY <1>6, <1>10, NextEntry, ChildTasks DEF Descends, Classifies
  <2> QED
    BY <1>2, <1>3, <2>1 DEF OldTask
<1>11. ASSUME NEW i \in DOMAIN Roots, t = RootTask(Roots[i]) PROVE OldTask(t)
  <2>1. t.kind = "dir" /\ t.open = NoFd
    BY <1>11, RootTasks
  <2> QED
    BY <1>2, <1>3, <2>1 DEF OldTask
<1> QED
  BY <1>4, <1>5, <1>7, <1>8, <1>9, <1>10, <1>11 DEF NewTask, NewFrame

LEMMA InodeStep ==
  ASSUME IInv, InodeInv, [Next]_vars
  PROVE  InodeInv'
<1>1. Grounded /\ RestInv /\ LinkInv /\ Moves
  BY Steps DEF IInv, Grounded
<1> SUFFICES ASSUME ~moved', NEW t \in Tasks' PROVE OldTask(t)
  BY InodeForm
<1>2. ~moved /\ \A u \in Tasks : OldTask(u)
  BY Unmoved, InodeForm
<1>3. t = NoFrame \/ Remains(t) \/ NewTask(t)
  BY <1>1, TasksAfter
<1>4. OldTask(NoFrame)
  BY FdKinds, FdFields, Kinds DEF OldTask
<1>5. Remains(t) => t \in Tasks
  BY <1>1, Remaining
<1> QED
  BY <1>1, <1>2, <1>3, <1>4, <1>5, OldTasks

\* A listing is lost only when its directory was replaced.
LEMMA LostMoved ==
  ASSUME IInv, InodeInv, LoseListing
  PROVE  moved
<1> SUFFICES ASSUME ~moved PROVE FALSE
  OBVIOUS
<1>1. stack # <<>> /\ Top.kind = "frame" /\ Reopens(Top) /\ ~Recognized(Top)
  BY DEF LoseListing, Takes
<1>2. Top \in Frames /\ Top \in Tasks
  BY <1>1, TakenTop DEF IInv, Grounded
<1>3. FrameTrue(Top) /\ Top.awaited # "none"
  BY <1>1, <1>2 DEF IInv, LinkInv, Reopens
<1>4. Top.awaited = "old"
  BY <1>2, <1>3 DEF FrameTrue, InodeInv
<1>5. PathInode(Top.path) = "old"
  BY DEF PathInode
<1> QED
  BY <1>1, <1>4, <1>5 DEF Recognized

-----------------------------------------------------------------------------
(* The roots of collect.                                                   *)

LEMMA Slice ==
  ASSUME NEW S, NEW s \in Seq(S), NEW m \in Nat \ {0}, NEW n \in Nat, n <= Len(s)
  PROVE  /\ \A x : x \in ToSet(SubSeq(s, m, n)) <=> \E i \in m .. n : x = s[i]
         /\ IsInjective(s) => IsInjective(SubSeq(s, m, n))
<1>1. Len(s) \in Nat /\ DOMAIN s = 1 .. Len(s) /\ \A i \in m .. n : i \in DOMAIN s /\ s[i] \in S
  BY LenProperties, ElementOfSeq
<1> DEFINE u == SubSeq(s, m, n)
<1>2. /\ u \in Seq(S) /\ Len(u) = (IF m <= n THEN n - m + 1 ELSE 0)
      /\ \A i \in 1 .. n - m + 1 : u[i] = s[m + i - 1]
  BY <1>1, SubSeqProperties
<1>3. DOMAIN u = 1 .. Len(u)
  BY <1>2, LenProperties
<1> HIDE DEF u
<1>4. \A i \in DOMAIN u : m + i - 1 \in m .. n /\ u[i] = s[m + i - 1] /\ i \in Nat
  BY <1>2, <1>3
<1>5. \A i \in m .. n : i - m + 1 \in DOMAIN u /\ u[i - m + 1] = s[i]
  <2> SUFFICES ASSUME NEW i \in m .. n PROVE i - m + 1 \in DOMAIN u /\ u[i - m + 1] = s[i]
    OBVIOUS
  <2>1. i - m + 1 \in 1 .. n - m + 1 /\ m <= n /\ m + (i - m + 1) - 1 = i
    OBVIOUS
  <2> QED
    BY <1>2, <1>3, <2>1
<1>6. \A x : x \in ToSet(u) <=> \E i \in m .. n : x = s[i]
  <2>1. \A x : x \in ToSet(u) <=> \E i \in DOMAIN u : x = u[i]
    BY DEF ToSet
  <2>2. \A i \in DOMAIN u : \E j \in m .. n : u[i] = s[j]
    <3> SUFFICES ASSUME NEW i \in DOMAIN u PROVE \E j \in m .. n : u[i] = s[j]
      OBVIOUS
    <3>1. m + i - 1 \in m .. n /\ u[i] = s[m + i - 1]
      BY <1>4
    <3> QED
      BY <3>1
  <2>3. \A i \in m .. n : \E j \in DOMAIN u : s[i] = u[j]
    <3> SUFFICES ASSUME NEW i \in m .. n PROVE \E j \in DOMAIN u : s[i] = u[j]
      OBVIOUS
    <3>1. i - m + 1 \in DOMAIN u /\ u[i - m + 1] = s[i]
      BY <1>5
    <3> QED
      BY <3>1
  <2> QED
    BY <2>1, <2>2, <2>3
<1>7. ASSUME IsInjective(s) PROVE IsInjective(u)
  <2> SUFFICES ASSUME NEW i \in DOMAIN u, NEW j \in DOMAIN u, u[i] = u[j] PROVE i = j
    BY DEF IsInjective
  <2>1. m + i - 1 = m + j - 1
    BY <1>1, <1>4, <1>7 DEF IsInjective
  <2> QED
    BY <1>4, <2>1
<1> QED
  BY <1>6, <1>7 DEF u

LEMMA Glued ==
  ASSUME NEW S, NEW s \in Seq(S), NEW t \in Seq(S)
  PROVE  /\ s \o t \in Seq(S)
         /\ \A x : x \in ToSet(s \o t) <=> x \in ToSet(s) \/ x \in ToSet(t)
         /\ IsInjective(s) /\ IsInjective(t) /\ ToSet(s) \cap ToSet(t) = {} => IsInjective(s \o t)
<1> DEFINE u == s \o t
<1>1. /\ Len(s) \in Nat /\ Len(t) \in Nat /\ DOMAIN s = 1 .. Len(s) /\ DOMAIN t = 1 .. Len(t)
      /\ u \in Seq(S) /\ Len(u) = Len(s) + Len(t)
      /\ \A i \in 1 .. Len(s) + Len(t) : u[i] = IF i <= Len(s) THEN s[i] ELSE t[i - Len(s)]
  BY LenProperties, ConcatProperties
<1>2. DOMAIN u = 1 .. Len(s) + Len(t)
  BY <1>1, LenProperties
<1> HIDE DEF u
<1>3. \A i \in DOMAIN u : \/ i \in DOMAIN s /\ u[i] = s[i]
                          \/ i > Len(s) /\ i - Len(s) \in DOMAIN t /\ u[i] = t[i - Len(s)]
  BY <1>1, <1>2
<1>4. \A i \in DOMAIN s : i \in DOMAIN u /\ u[i] = s[i]
  BY <1>1, <1>2
<1>5. \A i \in DOMAIN t : Len(s) + i \in DOMAIN u /\ u[Len(s) + i] = t[i]
  <2> SUFFICES ASSUME NEW i \in DOMAIN t PROVE Len(s) + i \in DOMAIN u /\ u[Len(s) + i] = t[i]
    OBVIOUS
  <2>1. Len(s) + i \in 1 .. Len(s) + Len(t) /\ ~(Len(s) + i <= Len(s)) /\ (Len(s) + i) - Len(s) = i
    BY <1>1
  <2> QED
    BY <1>1, <1>2, <2>1
<1>6. \A v, x : x \in ToSet(v) <=> \E i \in DOMAIN v : x = v[i]
  BY DEF ToSet
<1>7. \A x : x \in ToSet(u) <=> x \in ToSet(s) \/ x \in ToSet(t)
  BY <1>3, <1>4, <1>5, <1>6
<1>8. ASSUME IsInjective(s), IsInjective(t), ToSet(s) \cap ToSet(t) = {} PROVE IsInjective(u)
  <2>1. \A i \in DOMAIN s, j \in DOMAIN t : s[i] # t[j]
    BY <1>6, <1>8
  <2> SUFFICES ASSUME NEW i \in DOMAIN u, NEW j \in DOMAIN u, u[i] = u[j] PROVE i = j
    BY DEF IsInjective
  <2>2. CASE i \in DOMAIN s /\ u[i] = s[i]
    <3>1. j \in DOMAIN s /\ u[j] = s[j]
      BY <1>3, <2>1, <2>2
    <3> QED
      BY <1>8, <2>2, <3>1 DEF IsInjective
  <2>3. CASE i > Len(s) /\ i - Len(s) \in DOMAIN t /\ u[i] = t[i - Len(s)]
    <3>1. j > Len(s) /\ j - Len(s) \in DOMAIN t /\ u[j] = t[j - Len(s)]
      BY <1>3, <2>1, <2>3
    <3>2. i - Len(s) = j - Len(s)
      BY <1>8, <2>3, <3>1 DEF IsInjective
    <3> QED
      BY <1>1, <1>2, <3>2
  <2> QED
    BY <1>3, <2>2, <2>3
<1> QED
  BY <1>1, <1>7, <1>8 DEF u

LEMMA Pushed ==
  ASSUME NEW S, NEW s \in Seq(S), NEW x \in S
  PROVE  /\ Append(s, x) \in Seq(S) /\ Len(Append(s, x)) = Len(s) + 1 /\ Len(s) \in Nat
         /\ DOMAIN s = 1 .. Len(s) /\ DOMAIN Append(s, x) = 1 .. Len(s) + 1
         /\ \A i \in DOMAIN s : Append(s, x)[i] = s[i]
         /\ Append(s, x)[Len(s) + 1] = x
         /\ \A y : y \in ToSet(Append(s, x)) <=> y \in ToSet(s) \/ y = x
         /\ IsInjective(s) /\ x \notin ToSet(s) => IsInjective(Append(s, x))
<1> DEFINE u == Append(s, x)
<1>1. /\ u \in Seq(S) /\ Len(u) = Len(s) + 1 /\ Len(s) \in Nat /\ DOMAIN s = 1 .. Len(s)
      /\ \A i \in DOMAIN s : u[i] = s[i]
      /\ u[Len(s) + 1] = x
  BY LenProperties, AppendProperties
<1>2. DOMAIN u = 1 .. Len(s) + 1
  BY <1>1, LenProperties
<1> HIDE DEF u
<1>3. \A v, y : y \in ToSet(v) <=> \E i \in DOMAIN v : y = v[i]
  BY DEF ToSet
<1>4. \A i \in DOMAIN u : i \in DOMAIN s \/ i = Len(s) + 1
  BY <1>1, <1>2
<1>5. Len(s) + 1 \in DOMAIN u /\ \A i \in DOMAIN s : i \in DOMAIN u /\ i # Len(s) + 1
  BY <1>1, <1>2
<1>6. \A y : y \in ToSet(u) <=> y \in ToSet(s) \/ y = x
  BY <1>1, <1>3, <1>4, <1>5
<1>7. ASSUME IsInjective(s), x \notin ToSet(s) PROVE IsInjective(u)
  <2>1. \A i \in DOMAIN s : s[i] # x
    BY <1>3, <1>7
  <2> QED
    BY <1>1, <1>4, <1>7, <2>1 DEF IsInjective
<1> QED
  BY <1>1, <1>2, <1>6, <1>7 DEF u

\* The root that collect begins, and the ones that are left.
Begins(r) ==
  /\ stack' = <<RootTask(r)>> /\ begun' = Append(begun, r)
  /\ r \in ToSet(injector) \cup ToSet(local)
  /\ \A x : x \in ToSet(injector') \cup ToSet(local') <=> x \in ToSet(injector) \cup ToSet(local) /\ x # r
  /\ IsInjective(injector') /\ IsInjective(local') /\ ToSet(injector') \cap ToSet(local') = {}

LEMMA Beginning ==
  ASSUME RestInv, RootInv, TakeRoot
  PROVE  \E r \in ToSet(Roots) : Begins(r)
<1> DEFINE S == ToSet(Roots)
<1>1. injector \in Seq(S) /\ local \in Seq(S) /\ begun \in Seq(S)
  BY DEF RestInv
<1>2. /\ ToSet(injector) \cup ToSet(local) \cup ToSet(begun) = S
      /\ IsInjective(injector) /\ IsInjective(local) /\ IsInjective(begun)
      /\ ToSet(injector) \cap ToSet(local) = {}
      /\ (ToSet(injector) \cup ToSet(local)) \cap ToSet(begun) = {}
  BY DEF RootInv, TakeRoot
<1>3. \/ /\ injector # <<>> /\ stack' = <<RootTask(Head(injector))>>
         /\ \E n \in 1 .. (Len(injector) + 1) \div 2 :
              local' = local \o SubSeq(injector, 2, n) /\ injector' = SubSeq(injector, n + 1, Len(injector))
      \/ local # <<>> /\ stack' = <<RootTask(Head(local))>> /\ local' = Tail(local) /\ injector' = injector
  BY DEF TakeRoot
<1>4. begun' = Append(begun, Head(stack').path[1])
  BY DEF TakeRoot
<1>5. \A r : Head(<<RootTask(r)>>).path[1] = r
  <2>1. \A t : Head(<<t>>) = t
    OBVIOUS
  <2>2. \A r : RootTask(r).path = <<r>>
    BY DEF RootTask, DirectoryTask
  <2> HIDE DEF RootTask
  <2> QED
    BY <2>1, <2>2
<1> HIDE DEF S
<1>6. ASSUME NEW s \in Seq(S), s # <<>>
      PROVE  /\ Len(s) \in Nat \ {0} /\ DOMAIN s = 1 .. Len(s) /\ Head(s) = s[1] /\ s[1] \in S /\ s[1] \in ToSet(s)
             /\ Tail(s) = SubSeq(s, 2, Len(s))
             /\ \A x : x \in ToSet(s) <=> \E i \in 1 .. Len(s) : x = s[i]
  <2>1. Len(s) \in Nat \ {0} /\ DOMAIN s = 1 .. Len(s)
    BY <1>6, EmptySeq, LenProperties
  <2>2. Head(s) = s[1]
    BY <1>6
  <2>3. s[1] \in S
    BY <2>1, ElementOfSeq
  <2>4. Tail(s) = SubSeq(s, 2, Len(s))
    BY <1>6, TailIsSubSeq
  <2>5. \A x : x \in ToSet(s) <=> \E i \in 1 .. Len(s) : x = s[i]
    BY <2>1 DEF ToSet
  <2> QED
    BY <2>1, <2>2, <2>3, <2>4, <2>5
<1>7. ASSUME NEW s \in Seq(S), s # <<>>, IsInjective(s)
      PROVE  \A i \in 2 .. Len(s) : s[i] # s[1]
  BY <1>6, <1>7 DEF IsInjective
<1>8. CASE local # <<>> /\ stack' = <<RootTask(Head(local))>> /\ local' = Tail(local) /\ injector' = injector
  <2> DEFINE r == local[1]
  <2>1. /\ Len(local) \in Nat \ {0} /\ Head(local) = r /\ r \in S /\ r \in ToSet(local)
        /\ Tail(local) = SubSeq(local, 2, Len(local))
        /\ \A x : x \in ToSet(local) <=> \E i \in 1 .. Len(local) : x = local[i]
        /\ \A i \in 2 .. Len(local) : local[i] # r
    BY <1>1, <1>2, <1>6, <1>7, <1>8
  <2>2. /\ \A x : x \in ToSet(local') <=> \E i \in 2 .. Len(local) : x = local[i]
        /\ IsInjective(local')
    <3> DEFINE l == Len(local)
    <3>1. l \in Nat /\ l <= Len(local) /\ local' = SubSeq(local, 2, l)
      BY <1>8, <2>1
    <3> HIDE DEF l
    <3>2. /\ \A x : x \in ToSet(SubSeq(local, 2, l)) <=> \E i \in 2 .. l : x = local[i]
          /\ IsInjective(local) => IsInjective(SubSeq(local, 2, l))
      BY <1>1, <3>1, Slice
    <3> QED
      BY <1>2, <3>1, <3>2 DEF l
  <2>3. \A i \in 1 .. Len(local) : i = 1 \/ i \in 2 .. Len(local)
    BY <2>1
  <2>4. \A x : x \in ToSet(local') <=> x \in ToSet(local) /\ x # r
    <3>1. \A i \in 2 .. Len(local) : i \in 1 .. Len(local)
      BY <2>1
    <3> QED
      BY <2>1, <2>2, <2>3, <3>1
  <2>5. r \notin ToSet(injector)
    BY <1>2, <2>1
  <2>6. begun' = Append(begun, r) /\ stack' = <<RootTask(r)>>
    BY <1>4, <1>5, <1>8, <2>1
  <2> HIDE DEF r
  <2>7. Begins(r)
    BY <1>2, <1>8, <2>1, <2>2, <2>4, <2>5, <2>6 DEF Begins
  <2> QED
    BY <2>1, <2>7 DEF S
<1>9. ASSUME NEW n \in 1 .. (Len(injector) + 1) \div 2, injector # <<>>, stack' = <<RootTask(Head(injector))>>,
             local' = local \o SubSeq(injector, 2, n), injector' = SubSeq(injector, n + 1, Len(injector))
      PROVE  \E r \in S : Begins(r)
  <2> DEFINE r == injector[1]
             l == Len(injector)
             m == n + 1
             u == SubSeq(injector, 2, n)
  <2>1. /\ l \in Nat \ {0} /\ Head(injector) = r /\ r \in S /\ r \in ToSet(injector)
        /\ \A x : x \in ToSet(injector) <=> \E i \in 1 .. l : x = injector[i]
        /\ \A i \in 2 .. l : injector[i] # r
        /\ DOMAIN injector = 1 .. l
    BY <1>1, <1>2, <1>6, <1>7, <1>9
  <2>2. n \in Nat /\ n <= l /\ m \in Nat \ {0} /\ m = n + 1 /\ 1 <= n
    BY <2>1
  <2>3. /\ \A i \in 2 .. l : i \in 2 .. n \/ i \in m .. l
        /\ \A i \in 2 .. n : i \in 2 .. l /\ i \in 1 .. l /\ i < m
        /\ \A i \in m .. l : i \in 2 .. l /\ i \in 1 .. l /\ ~(i < m)
        /\ \A i \in 1 .. l : i = 1 \/ i \in 2 .. l
    BY <2>1, <2>2
  <2>4. /\ \A x : x \in ToSet(u) <=> \E i \in 2 .. n : x = injector[i]
        /\ IsInjective(u)
    BY <1>1, <1>2, <2>2, Slice
  <2>5. /\ \A x : x \in ToSet(injector') <=> \E i \in m .. l : x = injector[i]
        /\ IsInjective(injector')
    <3> HIDE DEF m
    <3>1. l <= Len(injector) /\ l \in Nat
      BY <2>1
    <3> HIDE DEF l
    <3>2. /\ \A x : x \in ToSet(SubSeq(injector, m, l)) <=> \E i \in m .. l : x = injector[i]
          /\ IsInjective(injector) => IsInjective(SubSeq(injector, m, l))
      BY <1>1, <2>2, <3>1, Slice
    <3>3. injector' = SubSeq(injector, m, l)
      BY <1>9 DEF m, l
    <3> QED
      BY <1>2, <3>2, <3>3
  <2>6. u \in Seq(S)
    <3>1. \A i \in 2 .. n : injector[i] \in S
      BY <1>1, <2>3, ElementOfSeq
    <3> QED
      BY <2>2, <3>1, SubSeqProperties
  <2>7. begun' = Append(begun, r) /\ stack' = <<RootTask(r)>>
    BY <1>4, <1>5, <1>9, <2>1
  <2>8. local' = local \o u
    BY <1>9
  <2> HIDE DEF r, l, m, u
  <2>9. ToSet(local) \cap ToSet(u) = {}
    BY <1>2, <2>1, <2>3, <2>4
  <2>10. /\ \A x : x \in ToSet(local') <=> x \in ToSet(local) \/ x \in ToSet(u)
         /\ IsInjective(local')
    BY <1>1, <1>2, <2>4, <2>6, <2>8, <2>9, Glued
  <2>11. \A x : x \in ToSet(injector) /\ x # r <=> x \in ToSet(u) \/ x \in ToSet(injector')
    <3>1. injector[1] = r
      BY DEF r
    <3> QED
      BY <2>1, <2>3, <2>4, <2>5, <3>1
  <2>12. ToSet(u) \cap ToSet(injector') = {}
    <3>1. \A i \in 2 .. n, j \in m .. l : injector[i] # injector[j]
      BY <1>2, <2>1, <2>3 DEF IsInjective
    <3> QED
      BY <2>4, <2>5, <3>1
  <2>13. r \notin ToSet(local)
    BY <1>2, <2>1
  <2>14. ToSet(local) \cap ToSet(injector') = {}
    BY <1>2, <2>11
  <2>15. Begins(r)
    BY <2>1, <2>5, <2>7, <2>10, <2>11, <2>12, <2>13, <2>14 DEF Begins
  <2> QED
    BY <2>1, <2>15
<1> QED
  BY <1>3, <1>8, <1>9 DEF S

LEMMA RootStep ==
  ASSUME RestInv, RootInv, [Next]_vars
  PROVE  RootInv'
<1>1. CASE UNCHANGED roots /\ world' = world
  <2>1. UNCHANGED <<injector, local, begun>> /\ (Streaming' <=> Streaming)
    BY <1>1, SamePromises DEF roots
  <2> QED
    BY <2>1 DEF RootInv
<1>2. CASE TakeRoot
  <2>1. PICK r \in ToSet(Roots) : Begins(r)
    BY <1>2, Beginning
  <2>2. begun \in Seq(ToSet(Roots))
    BY DEF RestInv
  <2>3. /\ ToSet(injector) \cup ToSet(local) \cup ToSet(begun) = ToSet(Roots)
        /\ IsInjective(begun) /\ (ToSet(injector) \cup ToSet(local)) \cap ToSet(begun) = {}
    BY <1>2 DEF RootInv, TakeRoot
  <2>4. r \notin ToSet(begun)
    BY <2>1, <2>3 DEF Begins
  <2>5. /\ \A y : y \in ToSet(begun') <=> y \in ToSet(begun) \/ y = r
        /\ IsInjective(begun')
    BY <2>1, <2>2, <2>3, <2>4, Pushed DEF Begins
  <2>6. ToSet(injector') \cup ToSet(local') \cup ToSet(begun') = ToSet(Roots)
    BY <2>1, <2>3, <2>5 DEF Begins
  <2>7. (ToSet(injector') \cup ToSet(local')) \cap ToSet(begun') = {}
    BY <2>1, <2>3, <2>5 DEF Begins
  <2> QED
    BY <2>1, <2>5, <2>6, <2>7 DEF RootInv, Begins
<1> QED
  BY <1>1, <1>2 DEF Next, Walk, Done, vars, outside, StreamEnds, StashedError, CollectEnds, Record, DropTask, CloseCycle,
       FailOpen, Open, Resume, LoseListing, Halt, SkipEntry, EmitEntry, DescendEntry, EmitAndDescend, FailEntry,
       EndListing, NextCall, DropStream, Cancel, Crowd, Replace

-----------------------------------------------------------------------------
(* A root is begun: more is promised, all of it owed by the root's task.   *)

\* Everything at or below a root is owed by its task.
LEMMA OwesRoot ==
  ASSUME NEW i \in DOMAIN Roots,
         NEW a, a[1] \in ItemKinds, a[2] \in Path, Yields(a[1], a[2])
  PROVE  Owes(RootTask(Roots[i]), a) <=> a[2][1] = Roots[i]
<1> DEFINE t == RootTask(Roots[i])
<1>1. t.kind = "dir" /\ t.path = <<Roots[i]>> /\ Len(t.path) = 1 /\ t.path \in Path
  BY RootTasks, Kinds
<1>2. a[2] \in Seq(Name) /\ t.path \in Seq(Name)
  BY <1>1, PathFields
<1> HIDE DEF t
<1>3. IsPrefix(t.path, a[2]) <=> a[2] = t.path \/ IsStrictPrefix(t.path, a[2])
  BY <1>2, PrefixSteps DEF IsStrictPrefix
<1>4. a[2] = t.path => a[1] \in AtOpening \cup AtClosing
  <2> SUFFICES ASSUME a[2] = t.path PROVE a[1] \in AtOpening \cup AtClosing
    OBVIOUS
  <2>1. IsRoot(t.path)
    BY <1>1 DEF IsRoot
  <2>2. a[1] # "entry failed" /\ a[1] # "entry"
    BY <2>1 DEF Yields
  <2> QED
    BY <2>2 DEF ItemKinds, AtOpening, AtClosing
<1>5. Owes(t, a) <=> IsPrefix(t.path, a[2])
  BY <1>1, <1>3, <1>4 DEF Owes
<1>6. a[2][1] = Roots[i] => IsPrefix(t.path, a[2])
  BY <1>1, FirstName
<1>7. IsPrefix(t.path, a[2]) => a[2][1] = Roots[i]
  <2>1. t.path[1] = Roots[i] /\ 1 \in 1 .. Len(t.path)
    BY <1>1
  <2>2. IsPrefix(t.path, a[2]) => t.path[1] = a[2][1]
    BY <1>2, <2>1, Prefix
  <2> QED
    BY <2>1, <2>2
<1> QED
  BY <1>5, <1>6, <1>7 DEF t

\* The same of what will be promised.
LEMMA OwesRootNext ==
  ASSUME world' = world, NEW i \in DOMAIN Roots, NEW a, a \in Promised'
  PROVE  /\ a[2] \in Path /\ Met(a[2])' /\ (Met(a[2]) => a \in Promised)
         /\ Owes(RootTask(Roots[i]), a) <=> a[2][1] = Roots[i]
<1>1. /\ a[1] \in ItemKinds /\ a[2] \in Path /\ a = <<a[1], a[2]>> /\ Met(a[2])'
      /\ Yields(a[1], a[2]) /\ Reportable(a)
  <2>1. /\ a[1] \in ItemKinds /\ a[2] \in Path /\ a = <<a[1], a[2]>> /\ Met(a[2])'
        /\ Yields(a[1], a[2])' /\ Reportable(a)'
    BY DEF Promised
  <2> QED
    BY <2>1, SamePromises
<1>2. Met(a[2]) => a \in Promised
  BY <1>1, Promises
<1> QED
  BY <1>1, <1>2, OwesRoot

\* What was promised and its order stay; the new root comes after all of it.
LEMMA MorePromised ==
  ASSUME ~Streaming, world' = world, begun \in Seq(ToSet(Roots)),
         NEW r \in ToSet(Roots), begun' = Append(begun, r)
  PROVE  /\ Promised \subseteq Promised'
         /\ \A a, b : Before(a, b) => Before(a, b)'
         /\ \A a \in Promised : \A b : b[2] \in Path /\ b[2][1] = r => Before(a, b)'
         /\ \A path : Met(path)' /\ path[1] # r => Met(path)
         /\ r \in ToSet(WalkedRoots')
<1>1. /\ Len(begun) \in Nat /\ DOMAIN begun = 1 .. Len(begun) /\ DOMAIN begun' = 1 .. Len(begun) + 1
      /\ \A i \in DOMAIN begun : begun'[i] = begun[i]
      /\ begun'[Len(begun) + 1] = r
      /\ \A y : y \in ToSet(begun') <=> y \in ToSet(begun) \/ y = r
  BY Pushed
<1>2. WalkedRoots = begun /\ WalkedRoots' = begun' /\ ~Streaming'
  BY SamePromises DEF WalkedRoots
<1>3. \A path : Met(path) => Met(path)'
  BY <1>1, <1>2, SamePromises DEF Met
<1>4. \A path : Met(path)' /\ path[1] # r => Met(path)
  BY <1>1, <1>2, SamePromises DEF Met
<1>5. Promised \subseteq Promised'
  BY <1>3, SamePromises DEF Promised
<1>6. \A i \in DOMAIN begun : i \in DOMAIN begun' /\ i < Len(begun) + 1
  BY <1>1
<1>7. \A p : /\ DOMAIN Siblings(p) \subseteq DOMAIN Siblings(p)'
             /\ \A i \in DOMAIN Siblings(p) : Siblings(p)'[i] = Siblings(p)[i]
  BY <1>1, <1>2, <1>6 DEF Siblings
<1>8. \A p, q : Left(p, q) => Left(p, q)'
  BY <1>7 DEF Left
<1>9. \A a, b : Before(a, b) => Before(a, b)'
  BY <1>8, SamePromises DEF Before
<1>10. ASSUME NEW a \in Promised, NEW b, b[2] \in Path, b[2][1] = r PROVE Before(a, b)'
  <2>1. a[2] \in Path /\ Met(a[2])
    BY Promises
  <2>2. PICK i \in DOMAIN begun : a[2][1] = begun[i]
    BY <1>2, <2>1 DEF Met, ToSet
  <2>3. /\ i \in DOMAIN begun' /\ Len(begun) + 1 \in DOMAIN begun' /\ i < Len(begun) + 1
        /\ begun'[i] = a[2][1] /\ begun'[Len(begun) + 1] = b[2][1]
    BY <1>1, <1>6, <1>10, <2>2
  <2>4. /\ SubSeq(a[2], 1, 0) = <<>> /\ 0 \in 0 .. Len(a[2]) - 1
        /\ IsPrefix(Append(<<>>, a[2][1]), a[2]) /\ IsPrefix(Append(<<>>, b[2][1]), b[2])
    BY <1>10, <2>1, FirstName
  <2>5. Siblings(<<>>)' = begun'
    BY <1>2 DEF Siblings
  <2>6. \E k, l \in DOMAIN Siblings(<<>>)' :
           k < l /\ IsPrefix(Append(<<>>, Siblings(<<>>)'[k]), a[2])
                 /\ IsPrefix(Append(<<>>, Siblings(<<>>)'[l]), b[2])
    BY <2>3, <2>4, <2>5
  <2>7. Left(a[2], b[2])'
    BY <2>4, <2>6 DEF Left
  <2> QED
    BY <2>7 DEF Before
<1> QED
  BY <1>1, <1>2, <1>4, <1>5, <1>9, <1>10

LEMMA TakeMain ==
  ASSUME IInv, Main, RootInv, TakeRoot
  PROVE  Main'
<1>1. /\ ~Streaming /\ outcome = "running" /\ turn = "walker" /\ frame = NoFrame /\ ~stopped /\ stack = <<>>
      /\ UNCHANGED <<world, frame, items, stash, turn, stopped, outcome, cancelled>> /\ moved' = moved
  BY DEF TakeRoot, Between, Running, output, outside
<1>2. PICK r \in ToSet(Roots) : Begins(r)
  BY Beginning DEF IInv
<1>3. PICK i \in DOMAIN Roots : r = Roots[i]
  BY <1>2 DEF ToSet
<1> DEFINE t == RootTask(Roots[i])
<1>4. t.kind = "dir" /\ t.path = <<Roots[i]>> /\ Len(t.path) = 1 /\ t.path[1] = r
  BY <1>3, RootTasks
<1>5. stack' = <<t>> /\ begun' = Append(begun, r)
  BY <1>2, <1>3 DEF Begins
<1>6. Tasks = {NoFrame} /\ Tasks' = {NoFrame, t}
  BY <1>1, <1>5 DEF Tasks, ToSet
<1>7. Len(stack') = 1 /\ DOMAIN stack' = {1}
  BY <1>5
<1>8. begun \in Seq(ToSet(Roots))
  BY DEF IInv, RestInv
<1>9. /\ Promised \subseteq Promised'
      /\ \A a, b : Before(a, b) => Before(a, b)'
      /\ \A a \in Promised : \A b : b[2] \in Path /\ b[2][1] = r => Before(a, b)'
      /\ \A path : Met(path)' /\ path[1] # r => Met(path)
      /\ r \in ToSet(WalkedRoots')
  BY <1>1, <1>5, <1>8, MorePromised
<1>10. \A a \in Promised' : /\ a[2] \in Path /\ (Met(a[2]) => a \in Promised)
                            /\ Owes(t, a) <=> a[2][1] = r
                            /\ Met(a[2])'
  BY <1>1, <1>3, OwesRootNext
<1>11. Placed(t)' /\ Placed(NoFrame)'
  <2>1. \A n \in 1 .. Len(t.path) - 1 : FALSE
    BY <1>4
  <2>2. Met(t.path)'
    BY <1>4, <1>9, <2>1 DEF Met
  <2>3. Descended(t.path)'
    BY <1>4 DEF Descended, IsRoot
  <2> HIDE DEF t
  <2> QED
    BY <1>4, <2>2, <2>3, Kinds DEF Placed
<1> HIDE DEF t
<1>12. PlaceInv'
  BY <1>6, <1>11 DEF PlaceInv
<1>13. AgendaInv'
  <2>1. \A k, l \in DOMAIN stack' : ~(k < l)
    BY <1>7
  <2>2. \A a : ~Owes(frame', a)
    BY <1>1, OwesNone
  <2> QED
    BY <2>1, <2>2 DEF AgendaInv, Ahead
<1>14. OutInv'
  <2>1. OutTrue(Out, Tasks) /\ Written /\ (\A k \in DOMAIN Out : IsLost(Out[k]) => moved)
    BY OutForm DEF Main
  <2>2. Out' = Out
    BY <1>1 DEF Out
  <2>3. ASSUME NEW k \in DOMAIN Out, ~IsLost(Out[k])
        PROVE  /\ Out[k] \in Promised'
               /\ \A l \in DOMAIN Out : k < l /\ ~IsLost(Out[l]) => Before(Out[k], Out[l])'
               /\ \A u \in Tasks' : \A a \in Promised' : Owes(u, a) => Before(Out[k], a)'
    <3>1. Out[k] \in Promised /\ \A l \in DOMAIN Out : k < l /\ ~IsLost(Out[l]) => Before(Out[k], Out[l])
      BY <2>1, <2>3 DEF OutTrue
    <3>2. ASSUME NEW a \in Promised', Owes(t, a) PROVE Before(Out[k], a)'
      <4>1. a[2] \in Path /\ a[2][1] = r
        BY <1>10, <3>2
      <4>2. \A e \in Promised : Before(e, a)'
        BY <1>9, <4>1
      <4>3. PICK e : e = Out[k] /\ e \in Promised
        BY <3>1
      <4>4. Before(e, a)'
        BY <4>2, <4>3
      <4> QED
        BY <2>2, <4>3, <4>4 DEF Before
    <3> QED
      BY <1>6, <1>9, <2>2, <3>1, <3>2, OwesNone
  <2> QED
    BY <1>1, <2>1, <2>2, <2>3 DEF OutInv, Written
<1>15. CompleteInv'
  <2> SUFFICES ASSUME ~cancelled', NEW x \in Due' PROVE Waiting(x)' \/ Excused(x)'
    <3>1. CompleteInv' <=> (~cancelled' /\ outcome' # "dropped" => \A x \in Due' : Waiting(x)' \/ Excused(x)')
      BY DEF CompleteInv, Excused
    <3> QED
      BY <3>1
  <2>1. x \in Promised' /\ ~Forgotten(x)
    BY <1>1, SamePromises DEF Due
  <2>2. CASE x[2][1] = r
    BY <1>6, <1>10, <2>1, <2>2 DEF Waiting
  <2>3. CASE x[2][1] # r
    <3>1. x \in Promised
      BY <1>9, <1>10, <2>1, <2>3
    <3>2. x \in Due
      BY <2>1, <3>1 DEF Due
    <3>3. Waiting(x) \/ Excused(x)
      BY <1>1, <3>2, CompleteForm DEF Main
    <3>4. Waiting(x) => Waiting(x)'
      <4>1. Out' = Out /\ ~(\E u \in Tasks : Owes(u, x))
        BY <1>1, <1>6, OwesNone DEF Out
      <4> QED
        BY <4>1 DEF Waiting
    <3>5. Excused(x) => Excused(x)'
      BY <1>1 DEF Excused, BelowLost
    <3> QED
      BY <3>3, <3>4, <3>5
  <2> QED
    BY <2>2, <2>3
<1>16. StopInv'
  <2>1. StopInv /\ Written
    BY DEF Main, OutInv, Written
  <2>2. world.policy = "abort" => stash' = <<>>
    BY <1>1, <2>1 DEF StopInv
  <2> QED
    BY <1>1, <2>1, <2>2, StopRunning
<1> QED
  BY <1>12, <1>13, <1>14, <1>15, <1>16 DEF Main

-----------------------------------------------------------------------------
(* The invariant.                                                          *)

LEMMA InitReport ==
  ASSUME Init
  PROVE  RInv
<1>1. /\ frame = NoFrame /\ stash = <<>> /\ items = <<>> /\ ~stopped /\ ~moved /\ outcome = "running"
      /\ injector = (IF Streaming THEN <<>> ELSE Roots) /\ local = <<>> /\ begun = <<>>
      /\ ~Streaming => stack = <<>>
  BY DEF Init
<1> DEFINE n == Len(Roots)
<1>2. Streaming =>
        /\ n \in Nat /\ DOMAIN stack = 1 .. n /\ DOMAIN Roots = 1 .. n
        /\ \A i \in 1 .. n : (n - i) + 1 \in 1 .. n /\ stack[i] = RootTask(Roots[(n - i) + 1])
  BY FirstStack
<1> HIDE DEF n
<1>3. DOMAIN <<>> = {} /\ ToSet(<<>>) = {}
  BY DEF ToSet
<1>4. \A t \in Tasks : t = NoFrame \/ (Streaming /\ \E i \in DOMAIN Roots : t = RootTask(Roots[i]))
  <2>1. \A t \in ToSet(stack) : Streaming /\ \E i \in DOMAIN Roots : t = RootTask(Roots[i])
    BY <1>1, <1>2, <1>3 DEF ToSet
  <2> QED
    BY <1>1, <2>1 DEF Tasks
<1>5. Streaming => WalkedRoots = Roots
  BY DEF WalkedRoots
<1>6. PlaceInv
  <2>1. ASSUME Streaming, NEW i \in DOMAIN Roots PROVE Placed(RootTask(Roots[i]))
    <3> DEFINE t == RootTask(Roots[i])
    <3>1. t.kind = "dir" /\ Len(t.path) = 1 /\ t.path[1] = Roots[i]
      BY RootTasks
    <3> HIDE DEF t
    <3>2. \A k \in 1 .. Len(t.path) - 1 : FALSE
      BY <3>1
    <3>3. t.path[1] \in ToSet(WalkedRoots)
      BY <1>5, <2>1, <3>1 DEF ToSet
    <3>4. Placed(t)
      BY <3>1, <3>2, <3>3 DEF Placed, Met, Descended, IsRoot
    <3> QED
      BY <3>4 DEF t
  <2>2. Placed(NoFrame)
    BY Kinds DEF Placed
  <2> QED
    BY <1>4, <2>1, <2>2 DEF PlaceInv
<1>7. AgendaInv
  <2>1. \A i \in DOMAIN stack : Ahead(frame, stack[i])
    BY <1>1, OwesNone DEF Ahead
  <2>2. ASSUME NEW i \in DOMAIN stack, NEW j \in DOMAIN stack, i < j, NEW a \in Promised, NEW b \in Promised,
               Owes(stack[j], a), Owes(stack[i], b)
        PROVE  Before(a, b)
    <3>1. Streaming
      BY <1>1, <1>3, <2>2
    <3>2. /\ (n - i) + 1 \in DOMAIN Roots /\ (n - j) + 1 \in DOMAIN Roots /\ (n - j) + 1 < (n - i) + 1
          /\ stack[i] = RootTask(Roots[(n - i) + 1]) /\ stack[j] = RootTask(Roots[(n - j) + 1])
      BY <1>2, <2>2, <3>1
    <3>3. /\ a[1] \in ItemKinds /\ a[2] \in Path /\ Yields(a[1], a[2])
          /\ b[1] \in ItemKinds /\ b[2] \in Path /\ Yields(b[1], b[2])
      BY Promises
    <3>4. a[2][1] = Roots[(n - j) + 1] /\ b[2][1] = Roots[(n - i) + 1]
      BY <2>2, <3>2, <3>3, OwesRoot
    <3>5. Left(a[2], b[2])
      BY <1>5, <3>1, <3>2, <3>3, <3>4, LeftRoot
    <3> QED
      BY <3>5 DEF Before
  <2> QED
    BY <2>1, <2>2 DEF AgendaInv, Ahead
<1>8. Out = <<>>
  BY <1>1 DEF Out
<1>9. OutInv
  <2>1. <<>> \in Seq(Items)
    BY EmptySeq
  <2> QED
    BY <1>1, <1>3, <1>8, <2>1 DEF OutInv
<1>10. StopInv
  BY <1>1, <1>3 DEF StopInv
<1>11. RootInv
  <2>1. IsInjective(<<>>) /\ IsInjective(Roots)
    BY <1>3, NamesAssumption DEF IsInjective
  <2> QED
    BY <1>1, <1>3, <2>1 DEF RootInv
<1>12. InodeInv
  <2>1. OldTask(NoFrame)
    BY FdKinds, FdFields, Kinds DEF OldTask
  <2>2. \A i \in DOMAIN Roots : OldTask(RootTask(Roots[i]))
    <3> SUFFICES ASSUME NEW i \in DOMAIN Roots PROVE OldTask(RootTask(Roots[i]))
      OBVIOUS
    <3>1. PICK t : t = RootTask(Roots[i]) /\ t \in DirTasks /\ t.kind = "dir" /\ t.open = NoFd
      BY RootTasks
    <3>2. FdOf(t) = NoFd
      BY <3>1, FdKinds
    <3> QED
      BY <3>1, <3>2, FdFields DEF OldTask
  <2> QED
    BY <1>4, <2>1, <2>2, InodeForm
<1>13. CompleteInv
  <2> SUFFICES ASSUME NEW x \in Due PROVE Waiting(x)
    BY DEF CompleteInv
  <2>1. x[1] \in ItemKinds /\ x[2] \in Path /\ Yields(x[1], x[2]) /\ x[2][1] \in ToSet(WalkedRoots)
    BY Promises DEF Due, Met
  <2>2. Streaming
    BY <1>1, <1>3, <2>1 DEF WalkedRoots
  <2>3. PICK k \in DOMAIN Roots : x[2][1] = Roots[k]
    BY <1>5, <2>1, <2>2 DEF ToSet
  <2>4. (n - k) + 1 \in DOMAIN stack /\ (n - ((n - k) + 1)) + 1 = k
    BY <1>2, <2>2, <2>3
  <2>5. stack[(n - k) + 1] = RootTask(Roots[k])
    BY <1>2, <2>2, <2>4
  <2>6. RootTask(Roots[k]) \in Tasks
    BY <2>4, <2>5 DEF Tasks, ToSet
  <2> QED
    BY <2>1, <2>3, <2>6, OwesRoot DEF Waiting
<1> QED
  BY <1>6, <1>7, <1>9, <1>10, <1>11, <1>12, <1>13 DEF RInv

LEMMA ReportStep ==
  ASSUME IInv, RInv, [Next]_vars
  PROVE  RInv'
<1>1. IInv'
  BY StepInv
<1>2. Main /\ RootInv /\ InodeInv
  BY DEF RInv, Main
<1>3. RootInv' /\ InodeInv'
  BY <1>2, RootStep, InodeStep DEF IInv
<1>4. Main'
  <2>1. CASE StreamEnds \/ CollectEnds
    BY <1>2, <2>1, EndsMain
  <2>2. CASE StashedError
    BY <1>2, <2>2, StashMain
  <2>3. CASE TakeRoot
    BY <1>2, <2>3, TakeMain
  <2>4. CASE Record
    BY <1>2, <2>4, RecordMain
  <2>5. CASE DropTask
    BY <1>2, <2>5, DropMain
  <2>6. CASE CloseCycle
    BY <1>2, <2>6, CloseMain
  <2>7. CASE FailOpen
    BY <1>2, <2>7, FailOpenMain
  <2>8. CASE Open
    BY <1>2, <2>8, OpenMain
  <2>9. CASE Resume
    BY <1>2, <2>9, ResumeMain
  <2>10. CASE LoseListing
    BY <1>2, <2>10, LostMoved, LoseMain
  <2>11. CASE Halt
    BY <1>2, <2>11, HaltMain
  <2>12. CASE SkipEntry
    BY <1>2, <2>12, SkipMain
  <2>13. CASE EmitEntry
    BY <1>1, <1>2, <2>13, EmitMain
  <2>14. CASE DescendEntry
    BY <1>2, <2>14, DescendMain
  <2>15. CASE EmitAndDescend
    BY <1>1, <1>2, <2>15, BothMain
  <2>16. CASE FailEntry
    BY <1>1, <1>2, <2>16, FailMain
  <2>17. CASE EndListing
    BY <1>2, <2>17, EndMain
  <2>18. CASE NextCall \/ DropStream
    BY <1>2, <2>18, CallMain
  <2>19. CASE Cancel \/ Crowd \/ Replace
    BY <1>2, <2>19, OutsideMain
  <2>20. CASE UNCHANGED vars
    BY <1>2, <2>20, StillMain
  <2> QED
    BY <2>1, <2>2, <2>3, <2>4, <2>5, <2>6, <2>7, <2>8, <2>9, <2>10, <2>11, <2>12, <2>13, <2>14, <2>15, <2>16, <2>17,
       <2>18, <2>19, <2>20 DEF Next, Walk, Done
<1> QED
  BY <1>3, <1>4 DEF RInv, Main

-----------------------------------------------------------------------------
(* The order has no two items either way round.                            *)

\* Where one path turns off to the left of another.
Parting(p, q, n, i, j) ==
  LET s == Siblings(SubSeq(p, 1, n)) IN
  /\ n < Len(p) /\ n < Len(q) /\ \A k \in 1 .. n : p[k] = q[k]
  /\ i \in DOMAIN s /\ j \in DOMAIN s /\ i < j /\ p[n + 1] = s[i] /\ q[n + 1] = s[j]

LEMMA Brothers ==
  ASSUME RestInv, RootInv, NEW p \in Path, NEW n \in 0 .. Len(p) - 1
  PROVE  LET s == Siblings(SubSeq(p, 1, n)) IN
         IsInjective(s) /\ \A i \in DOMAIN s : i \in Nat /\ s[i] \in Name
<1>1. p \in Seq(Name) /\ Len(p) \in Nat \ {0}
  BY PathFields
<1>2. n \in 0 .. Len(p)
  BY <1>1
<1>3. PICK a : a = SubSeq(p, 1, n) /\ a \in Seq(Name) /\ Len(a) = n
  BY <1>1, <1>2, Parts
<1>4. CASE a = <<>>
  <2>1. Siblings(a) = IF Streaming THEN Roots ELSE begun
    BY <1>4 DEF Siblings, WalkedRoots
  <2>2. IsInjective(Roots) /\ \A i \in DOMAIN Roots : i \in Nat /\ Roots[i] \in Name
    BY NamesAssumption, Tree
  <2>3. ~Streaming => IsInjective(begun) /\ \A i \in DOMAIN begun : i \in Nat /\ begun[i] \in Name
    <3>1. \A x \in ToSet(Roots) : x \in Name
      BY <2>2 DEF ToSet
    <3>2. \A i \in DOMAIN begun : i \in Nat /\ begun[i] \in ToSet(Roots)
      BY ElementOfSeq, LenProperties DEF RestInv
    <3> QED
      BY <3>1, <3>2 DEF RootInv
  <2> QED
    BY <1>3, <2>1, <2>2, <2>3
<1>5. CASE a # <<>>
  <2>1. n # 0
    BY <1>3, <1>5, EmptySeq
  <2>2. n \in 1 .. Len(p) - 1
    BY <2>1
  <2>3. Last(a) \in Dir
    BY <1>3, <2>2, PathGrows DEF Grows
  <2>4. Siblings(a) = Listing[Target[Last(a)]]
    BY <1>5 DEF Siblings, Names, Key
  <2>5. PICK d : d = Target[Last(a)] /\ d \in Dir
    BY <2>3, Tree
  <2>6. IsInjective(Listing[d]) /\ \A i \in DOMAIN Listing[d] : i \in Nat /\ Listing[d][i] \in Name
    BY <2>5, NamesAssumption, Tree
  <2> QED
    BY <1>3, <2>4, <2>5, <2>6
<1> QED
  BY <1>4, <1>5

LEMMA Parted ==
  ASSUME RestInv, RootInv, NEW p \in Path, NEW q \in Path, Left(p, q)
  PROVE  \E n \in Nat : \E i, j \in Nat : Parting(p, q, n, i, j)
<1>1. p \in Seq(Name) /\ Len(p) \in Nat \ {0} /\ q \in Seq(Name) /\ Len(q) \in Nat \ {0}
  BY PathFields
<1>2. PICK n \in 0 .. Len(p) - 1 :
        \E i, j \in DOMAIN Siblings(SubSeq(p, 1, n)) :
          i < j /\ IsPrefix(Append(SubSeq(p, 1, n), Siblings(SubSeq(p, 1, n))[i]), p)
                /\ IsPrefix(Append(SubSeq(p, 1, n), Siblings(SubSeq(p, 1, n))[j]), q)
  BY DEF Left
<1>3. n \in 0 .. Len(p) /\ n \in Nat
  BY <1>1, <1>2
<1>4. PICK a : /\ a = SubSeq(p, 1, n) /\ a \in Seq(Name) /\ Len(a) = n
               /\ \A k \in 1 .. n : a[k] = p[k]
  <2>1. /\ SubSeq(p, 1, n) \in Seq(Name) /\ Len(SubSeq(p, 1, n)) = n
        /\ \A k \in 1 .. n : SubSeq(p, 1, n)[k] = p[k]
    BY <1>1, <1>3, Parts
  <2> QED
    BY <2>1
<1>5. PICK i \in DOMAIN Siblings(a), j \in DOMAIN Siblings(a) :
        i < j /\ IsPrefix(Append(a, Siblings(a)[i]), p) /\ IsPrefix(Append(a, Siblings(a)[j]), q)
  BY <1>2, <1>4
<1>6. \A k \in DOMAIN Siblings(a) : k \in Nat /\ Siblings(a)[k] \in Name
  BY <1>2, <1>4, Brothers
<1>7. ASSUME NEW x \in Name, NEW r \in Seq(Name), IsPrefix(Append(a, x), r)
      PROVE  n < Len(r) /\ r[n + 1] = x /\ \A k \in 1 .. n : r[k] = a[k]
  <2> DEFINE b == Append(a, x)
  <2>1. b \in Seq(Name) /\ Len(b) = n + 1 /\ b[n + 1] = x /\ \A k \in 1 .. n : b[k] = a[k]
    BY <1>3, <1>4
  <2> HIDE DEF b
  <2>2. Len(b) <= Len(r) /\ \A k \in 1 .. Len(b) : b[k] = r[k]
    BY <1>7, <2>1, Prefix DEF b
  <2>3. Len(r) \in Nat
    BY LenProperties
  <2> QED
    BY <1>3, <2>1, <2>2, <2>3
<1>8. Siblings(a)[i] \in Name /\ Siblings(a)[j] \in Name
  BY <1>5, <1>6
<1>9. n < Len(p) /\ p[n + 1] = Siblings(a)[i]
  BY <1>1, <1>5, <1>7, <1>8
<1>10. n < Len(q) /\ q[n + 1] = Siblings(a)[j] /\ \A k \in 1 .. n : q[k] = a[k]
  BY <1>1, <1>5, <1>7, <1>8
<1>11. i \in Nat /\ j \in Nat
  BY <1>5, <1>6
<1>12. Parting(p, q, n, i, j)
  BY <1>4, <1>5, <1>9, <1>10 DEF Parting
<1> QED
  BY <1>3, <1>11, <1>12

LEMMA LeftOnce ==
  ASSUME RestInv, RootInv, NEW p \in Path, NEW q \in Path, Left(p, q)
  PROVE  ~Left(q, p) /\ ~IsPrefix(p, q) /\ ~IsPrefix(q, p)
<1>1. p \in Seq(Name) /\ Len(p) \in Nat \ {0} /\ q \in Seq(Name) /\ Len(q) \in Nat \ {0}
  BY PathFields
<1>2. PICK n \in Nat, i \in Nat, j \in Nat : Parting(p, q, n, i, j)
  BY Parted
<1>3. n \in 0 .. Len(p) - 1 /\ n \in 0 .. Len(p) /\ n \in 0 .. Len(q)
  BY <1>1, <1>2 DEF Parting
<1>4. PICK s : s = Siblings(SubSeq(p, 1, n)) /\ IsInjective(s)
  BY <1>3, Brothers
<1>5. /\ n < Len(p) /\ n < Len(q) /\ \A k \in 1 .. n : p[k] = q[k]
      /\ i \in DOMAIN s /\ j \in DOMAIN s /\ i < j /\ p[n + 1] = s[i] /\ q[n + 1] = s[j]
  BY <1>2, <1>4 DEF Parting
<1>6. p[n + 1] # q[n + 1] /\ n + 1 \in 1 .. Len(p) /\ n + 1 \in 1 .. Len(q)
  <2>1. i # j
    BY <1>2, <1>5
  <2> QED
    BY <1>1, <1>2, <1>4, <1>5, <2>1 DEF IsInjective
<1>7. ~IsPrefix(p, q) /\ ~IsPrefix(q, p)
  BY <1>1, <1>6, Prefix
<1>8. ASSUME Left(q, p) PROVE FALSE
  <2>1. PICK m \in Nat, h \in Nat, k \in Nat : Parting(q, p, m, h, k)
    BY <1>8, Parted
  <2>2. /\ m < Len(p) /\ m < Len(q) /\ \A l \in 1 .. m : q[l] = p[l]
        /\ h < k /\ h \in DOMAIN Siblings(SubSeq(q, 1, m)) /\ k \in DOMAIN Siblings(SubSeq(q, 1, m))
        /\ q[m + 1] = Siblings(SubSeq(q, 1, m))[h] /\ p[m + 1] = Siblings(SubSeq(q, 1, m))[k]
    BY <2>1 DEF Parting
  <2>3. m <= n
    <3>1. ~(n + 1 \in 1 .. m)
      BY <1>6, <2>2
    <3> QED
      BY <1>2, <2>1, <3>1
  <2>4. m \in 0 .. Len(q) - 1 /\ m \in 0 .. Len(q)
    BY <1>1, <2>1, <2>2
  <2>5. q[m + 1] # p[m + 1]
    <3>1. IsInjective(Siblings(SubSeq(q, 1, m)))
      BY <2>4, Brothers
    <3>2. h # k
      BY <2>1, <2>2
    <3> QED
      BY <2>2, <3>1, <3>2 DEF IsInjective
  <2>6. n <= m
    <3>1. ~(m + 1 \in 1 .. n)
      BY <1>5, <2>5
    <3> QED
      BY <1>2, <2>1, <3>1
  <2>7. m = n
    BY <1>2, <2>1, <2>3, <2>6
  <2>8. SubSeq(p, 1, n) = SubSeq(q, 1, n)
    <3>1. /\ SubSeq(p, 1, n) \in Seq(Name) /\ Len(SubSeq(p, 1, n)) = n
          /\ \A l \in 1 .. n : SubSeq(p, 1, n)[l] = p[l]
      BY <1>1, <1>3, Parts
    <3>2. /\ SubSeq(q, 1, n) \in Seq(Name) /\ Len(SubSeq(q, 1, n)) = n
          /\ \A l \in 1 .. n : SubSeq(q, 1, n)[l] = q[l]
      BY <1>1, <1>3, Parts
    <3>3. \A l \in 1 .. n : SubSeq(p, 1, n)[l] = SubSeq(q, 1, n)[l]
      BY <1>5, <3>1, <3>2
    <3> QED
      BY <3>1, <3>2, <3>3, SeqEqual
  <2>9. h \in DOMAIN s /\ k \in DOMAIN s /\ s[h] = s[j] /\ s[k] = s[i]
    BY <1>4, <1>5, <2>2, <2>7, <2>8
  <2>10. h = j /\ k = i
    BY <1>4, <1>5, <2>9 DEF IsInjective
  <2> QED
    BY <1>2, <1>5, <2>1, <2>2, <2>10
<1> QED
  BY <1>7, <1>8

\* Before is asymmetric, so no item is promised twice.
LEMMA BeforeOnce ==
  ASSUME RestInv, RootInv, NEW a \in Promised, NEW b \in Promised, Before(a, b)
  PROVE  ~Before(b, a)
<1>1. /\ a[1] \in ItemKinds /\ a[2] \in Path /\ a[2] \in Seq(Name)
      /\ b[1] \in ItemKinds /\ b[2] \in Path /\ b[2] \in Seq(Name)
  BY Promises, PathFields
<1>2. Phase(a[1]) \in Nat /\ Phase(b[1]) \in Nat /\ Inside = 6
  <2>1. \A kind \in AtOpening : Phase(kind) \in 3 .. 5
    BY Phases
  <2>2. \A kind \in AtClosing : Phase(kind) \in 7 .. 8
    BY Phases
  <2>3. Phase("entry failed") = 1 /\ (Phase("entry") = 2 \/ Phase("entry") = 9)
    BY Phases
  <2>4. \A kind \in ItemKinds : kind \in AtOpening \/ kind \in AtClosing \/ kind = "entry failed" \/ kind = "entry"
    BY DEF ItemKinds, AtOpening, AtClosing
  <2>5. \A kind : kind \in AtOpening => Phase(kind) \in Nat
    BY <2>1
  <2>6. \A kind : kind \in AtClosing => Phase(kind) \in Nat
    BY <2>2
  <2>7. Phase("entry failed") \in Nat /\ Phase("entry") \in Nat
    <3>1. \A x : x = 1 \/ x = 2 \/ x = 9 => x \in Nat
      OBVIOUS
    <3> QED
      BY <2>3, <3>1, Zenon
  <2> QED
    BY <1>1, <2>4, <2>5, <2>6, <2>7, Phases
<1>3. PICK m \in Nat, n \in Nat : m = Phase(a[1]) /\ n = Phase(b[1])
  BY <1>2
<1>4. PICK p \in Path, q \in Path : p = a[2] /\ q = b[2]
  BY <1>1
<1>5. p \in Seq(Name) /\ q \in Seq(Name) /\ Len(p) \in Nat /\ Len(q) \in Nat
  BY PathFields
<1>6. /\ Before(a, b) <=> \/ Left(p, q) \/ (p = q /\ m < n)
                        \/ (IsStrictPrefix(p, q) /\ m < 6) \/ (IsStrictPrefix(q, p) /\ 6 < n)
      /\ Before(b, a) <=> \/ Left(q, p) \/ (q = p /\ n < m)
                        \/ (IsStrictPrefix(q, p) /\ n < 6) \/ (IsStrictPrefix(p, q) /\ 6 < m)
  BY <1>2, <1>3, <1>4 DEF Before
<1>7. /\ IsStrictPrefix(p, q) => IsPrefix(p, q) /\ ~IsStrictPrefix(q, p) /\ p # q
      /\ IsStrictPrefix(q, p) => IsPrefix(q, p) /\ p # q
      /\ IsPrefix(p, p)
  BY <1>5, PrefixSteps
<1>8. Left(p, q) => ~Left(q, p) /\ ~IsPrefix(p, q) /\ ~IsPrefix(q, p)
  BY LeftOnce
<1>9. Left(q, p) => ~Left(p, q) /\ ~IsPrefix(p, q) /\ ~IsPrefix(q, p)
  BY LeftOnce
<1> QED
  BY <1>3, <1>6, <1>7, <1>8, <1>9

-----------------------------------------------------------------------------
(* The theorems.                                                           *)

LEMMA HandedOut ==
  ASSUME OutInv
  PROVE  /\ items \in Seq(Items) /\ Len(items) \in Nat /\ DOMAIN items = 1 .. Len(items)
         /\ \A i \in DOMAIN items : i \in DOMAIN Out /\ Out[i] = items[i]
         /\ stash = <<>> => Out = items
<1>1. items \in Seq(Items) /\ stash \in Seq(Items)
  BY DEF OutInv
<1>2. /\ Len(items) \in Nat /\ DOMAIN items = 1 .. Len(items)
      /\ \A i \in 1 .. Len(items) : i \in DOMAIN (items \o stash) /\ (items \o stash)[i] = items[i]
  BY <1>1, Joined
<1>3. stash = <<>> => items \o stash = items
  BY <1>1
<1> QED
  BY <1>1, <1>2, <1>3 DEF Out

\* A walk that ended by itself has nothing left to hand out.
LEMMA NothingLeft ==
  ASSUME IInv, RInv, outcome = "ended", ~cancelled, ~stopped, NEW x, Waiting(x)
  PROVE  x \in ToSet(items)
<1>1. frame = NoFrame /\ stash = <<>> /\ stack = <<>>
  BY DEF RInv, StopInv
<1>2. Tasks = {NoFrame}
  BY <1>1 DEF Tasks, ToSet
<1>3. Out = items
  BY <1>1, HandedOut DEF RInv
<1> QED
  BY <1>2, <1>3, OwesNone DEF Waiting

LEMMA DeliversNow ==
  ASSUME IInv, RInv
  PROVE  Delivers
<1>1. OutInv /\ StopInv /\ RootInv /\ CompleteInv /\ RestInv
  BY DEF RInv, IInv
<1>2. /\ items \in Seq(Items) /\ Len(items) \in Nat /\ DOMAIN items = 1 .. Len(items)
      /\ \A i \in DOMAIN items : i \in DOMAIN Out /\ Out[i] = items[i]
      /\ stash = <<>> => Out = items
  BY <1>1, HandedOut
<1>3. \A i \in DOMAIN items : ~IsLost(items[i]) =>
        /\ items[i] \in Promised
        /\ \A j \in DOMAIN items : i < j /\ ~IsLost(items[j]) => Before(items[i], items[j])
        /\ \A t \in Tasks : \A x \in Promised : Owes(t, x) => Before(items[i], x)
  BY <1>1, <1>2 DEF OutInv
<1>4. ASSUME NEW i \in DOMAIN items, NEW j \in DOMAIN items
      PROVE  /\ items[i][1] # "lost" => items[i] \in Promised
             /\ i < j /\ "lost" \notin {items[i][1], items[j][1]} =>
                  Before(items[i], items[j]) /\ ~Before(items[j], items[i])
             /\ i < j /\ world.policy = "abort" => ~IsError(items[i])
  <2>1. items[i][1] # "lost" => items[i] \in Promised
    BY <1>3 DEF IsLost
  <2>2. ASSUME i < j, "lost" \notin {items[i][1], items[j][1]}
        PROVE  Before(items[i], items[j]) /\ ~Before(items[j], items[i])
    <3>1. ~IsLost(items[i]) /\ ~IsLost(items[j])
      BY <2>2 DEF IsLost
    <3>2. items[i] \in Promised /\ items[j] \in Promised /\ Before(items[i], items[j])
      BY <1>3, <2>2, <3>1
    <3> QED
      BY <1>1, <3>2, BeforeOnce
  <2>3. ASSUME i < j, world.policy = "abort" PROVE ~IsError(items[i])
    <3>1. i # Len(items)
      BY <1>2, <2>3
    <3> QED
      BY <1>1, <2>3, <3>1 DEF StopInv
  <2> QED
    BY <2>1, <2>2, <2>3
<1>5. ASSUME Finished, ~moved, NEW x \in Due PROVE x \in ToSet(items) \/ CutOff(x)
  <2>1. ~cancelled /\ outcome \in {"ended", "failed"} /\ x \in Promised
    BY <1>5 DEF Finished, Due
  <2>2. Waiting(x) \/ (stopped /\ CutOff(x))
    BY <1>1, <1>5, <2>1 DEF CompleteInv
  <2>3. CASE Waiting(x) /\ Aborts
    <3>1. items # <<>> /\ IsError(Last(items)) /\ stash = <<>>
      BY <1>1, <2>3 DEF Aborts, StopInv
    <3>2. Len(items) \in DOMAIN items /\ Last(items) = items[Len(items)]
      <4>1. Len(items) # 0
        BY <1>2, <3>1, EmptySeq
      <4> QED
        BY <1>2, <4>1 DEF Last
    <3>3. ~IsLost(items[Len(items)])
      BY <1>1, <1>2, <1>5, <3>2 DEF OutInv
    <3>4. \A t \in Tasks : Owes(t, x) => CutOff(x)
      BY <1>3, <2>1, <2>3, <3>2, <3>3 DEF CutOff
    <3> QED
      BY <1>2, <2>3, <3>1, <3>4 DEF Waiting
  <2>4. CASE Waiting(x) /\ ~Aborts
    <3>1. outcome = "ended" /\ ~stopped
      BY <1>1, <2>1, <2>4 DEF StopInv
    <3> QED
      BY <2>1, <2>4, <3>1, NothingLeft
  <2> QED
    BY <2>2, <2>3, <2>4
<1>6. ASSUME Finished, outcome # "failed" PROVE ToSet(WalkedRoots) = ToSet(Roots)
  <2>1. CASE Streaming
    BY <2>1 DEF WalkedRoots
  <2>2. CASE ~Streaming
    <3>1. outcome = "ended" /\ ~cancelled
      BY <1>6 DEF Finished
    <3>2. ~stopped
      BY <1>1, <2>2, <3>1 DEF StopInv
    <3>3. injector = <<>> /\ local = <<>>
      BY <1>1, <2>2, <3>1, <3>2 DEF StopInv
    <3>4. ToSet(<<>>) = {}
      BY DEF ToSet
    <3> QED
      BY <1>1, <2>2, <3>3, <3>4 DEF RootInv, WalkedRoots
  <2> QED
    BY <2>1, <2>2
<1> QED
  BY <1>4, <1>5, <1>6 DEF Delivers

LEMMA LostNow ==
  ASSUME IInv, RInv
  PROVE  LostIsReported
<1> SUFFICES ASSUME Finished, ~stopped, outcome = "ended", world.policy # "skip", NEW x \in Due, x \notin ToSet(items)
             PROVE  BelowLost(x)
  BY DEF LostIsReported, BelowLost
<1>1. ~cancelled /\ outcome # "dropped"
  BY DEF Finished
<1>2. ~Waiting(x)
  BY <1>1, NothingLeft
<1> QED
  BY <1>1, <1>2 DEF RInv, CompleteInv

\* WalkStream and WalkState for every tree, every order of roots, every answer of
\* the filters and the visitor and every failing call: the tasks always owe, in
\* the order of the recursive descent, what has not been handed out and is not
\* accounted for.
THEOREM ReportInvariance == Spec => [](IInv /\ RInv)
<1>1. Init => IInv /\ RInv
  BY InitInv, InitReport
<1>2. IInv /\ RInv /\ [Next]_vars => (IInv /\ RInv)'
  BY StepInv, ReportStep
<1> QED
  BY <1>1, <1>2, PTL DEF Spec

\* resume_directory, next_work, handle_error and queue_ignore_errors: both serial
\* frontends hand out the items of the recursive descent, in its order and none
\* twice, under every policy and however the walk ends; and one that is neither
\* cancelled nor dropped, over directories that stay in place, leaves none out.
THEOREM DeliversAlways == Spec => []Delivers
<1>1. IInv /\ RInv => Delivers
  BY DeliversNow
<1> QED
  BY <1>1, ReportInvariance, PTL

\* restore_retained_directory and resume_directory: what is missing from a walk
\* that ended by itself lies below a listing whose loss it reported.
THEOREM LossesReported == Spec => []LostIsReported
<1>1. IInv /\ RInv => LostIsReported
  BY LostNow
<1> QED
  BY <1>1, ReportInvariance, PTL
=============================================================================
