-------------------------- MODULE ParallelWalkQueues --------------------------
(***************************************************************************)
(* Proofs about the queues of ParallelWalk: what pushing, popping,         *)
(* stealing and flushing do to the tasks that wait.                        *)
(***************************************************************************)
EXTENDS ParallelWalkInv, SequenceTheorems, FiniteSetTheorems, TLAPS

-----------------------------------------------------------------------------
(* Constants, bags and sequences.                                          *)

LEMMA Constants ==
  /\ Threads \in Nat \ {0} /\ Caller \in Worker /\ Worker \subseteq Nat /\ Shared \notin Worker
  /\ Stride \in Nat \ {0} /\ BatchSize \in Nat \ {0} /\ DirectoryWeight \in Nat
  /\ Len(Roots) \in Nat \ {0} /\ \A i \in 1 .. Len(Roots) : Roots[i] \in Dir
  /\ \A d \in Dir : /\ Listing[d] \in Seq(Name) /\ Len(Listing[d]) \in Nat
                    /\ \A k \in 1 .. Len(Listing[d]) : Listing[d][k] \in Name
<1>1. Threads \in Nat \ {0} /\ Caller \in Worker /\ Worker \subseteq Nat /\ Shared \notin Worker
  BY BudgetAssumption DEF Worker, Caller, Shared
<1>2. Stride \in Nat \ {0} /\ BatchSize \in Nat \ {0} /\ DirectoryWeight \in Nat
  BY StrideAssumption
<1>3. Len(Roots) \in Nat \ {0} /\ \A i \in 1 .. Len(Roots) : Roots[i] \in Dir
  BY TreeAssumption, EmptySeq, ElementOfSeq
<1>4. \A d \in Dir : Listing[d] \in Seq(Name)
  BY TreeAssumption
<1>5. \A d \in Dir : Len(Listing[d]) \in Nat /\ \A k \in 1 .. Len(Listing[d]) : Listing[d][k] \in Name
  BY <1>4, LenProperties, ElementOfSeq
<1> QED
  BY <1>1, <1>2, <1>3, <1>4, <1>5

LEMMA WorldFields ==
  ASSUME world \in Worlds
  PROVE  /\ \A n \in Name : /\ world.action[n] \in {"skip", "emit", "descend", "both", "fail", "failDescend"}
                            /\ world.verdict[n] \in {"keep", "skip", "prune", "stop"}
         /\ \A n \in Name \ Dir : world.action[n] \in {"skip", "emit", "fail"}
         /\ \A d \in Dir : "carried" \in world.fault[d] => IsRoot(d)
         /\ world.policy \in {"abort", "skip", "collect"}
<1>1. world \in World
  BY WorldAssumption
<1> QED
  BY <1>1, WorldAssumption DEF World, IsRoot

\* Adding one copy, and adding a bag that shares nothing.
LEMMA AddBags ==
  ASSUME NEW A, NEW B, IsABag(A), IsABag(B)
  PROVE  /\ IsABag(A (+) B) /\ DOMAIN (A (+) B) = DOMAIN A \cup DOMAIN B
         /\ \A e \in DOMAIN A \ DOMAIN B : (A (+) B)[e] = A[e]
         /\ \A e \in DOMAIN B \ DOMAIN A : (A (+) B)[e] = B[e]
<1>1. DOMAIN (A (+) B) = DOMAIN A \cup DOMAIN B
  BY DEF (+)
<1>2. \A e \in DOMAIN A : A[e] \in Nat /\ A[e] > 0
  BY DEF IsABag
<1>3. \A e \in DOMAIN B : B[e] \in Nat /\ B[e] > 0
  BY DEF IsABag
<1>4. \A e \in DOMAIN A \cup DOMAIN B :
        (A (+) B)[e] = (IF e \in DOMAIN A THEN A[e] ELSE 0) + (IF e \in DOMAIN B THEN B[e] ELSE 0)
  BY DEF (+)
<1>5. A (+) B = [e \in DOMAIN A \cup DOMAIN B |-> (A (+) B)[e]]
  BY DEF (+)
<1>6. \A e \in DOMAIN A \cup DOMAIN B : (A (+) B)[e] \in {n \in Nat : n > 0}
  BY <1>2, <1>3, <1>4
<1>7. IsABag(A (+) B)
  BY <1>1, <1>5, <1>6 DEF IsABag
<1> QED
  BY <1>1, <1>2, <1>3, <1>4, <1>7

LEMMA OneCopy ==
  ASSUME NEW x
  PROVE  IsABag(SetToBag({x})) /\ DOMAIN SetToBag({x}) = {x} /\ SetToBag({x})[x] = 1
  BY DEF IsABag, SetToBag

LEMMA AddOne ==
  ASSUME NEW A, IsABag(A), NEW x
  PROVE  /\ IsABag(A (+) SetToBag({x})) /\ DOMAIN (A (+) SetToBag({x})) = DOMAIN A \cup {x}
         /\ \A e \in DOMAIN A \ {x} : (A (+) SetToBag({x}))[e] = A[e]
         /\ x \notin DOMAIN A => (A (+) SetToBag({x}))[x] = 1
<1> DEFINE B == SetToBag({x})
<1>1. IsABag(B) /\ DOMAIN B = {x} /\ B[x] = 1
  BY OneCopy
<1> HIDE DEF B
<1>2. /\ IsABag(A (+) B) /\ DOMAIN (A (+) B) = DOMAIN A \cup DOMAIN B
      /\ \A e \in DOMAIN A \ DOMAIN B : (A (+) B)[e] = A[e]
      /\ \A e \in DOMAIN B \ DOMAIN A : (A (+) B)[e] = B[e]
  BY <1>1, AddBags
<1>3. IsABag(A (+) B) /\ DOMAIN (A (+) B) = DOMAIN A \cup {x}
      /\ (\A e \in DOMAIN A \ {x} : (A (+) B)[e] = A[e])
      /\ (x \notin DOMAIN A => (A (+) B)[x] = 1)
  BY <1>1, <1>2
<1> QED
  BY <1>3 DEF B

LEMMA NoCopies == IsABag(EmptyBag) /\ DOMAIN EmptyBag = {}
  BY DEF IsABag, EmptyBag, SetToBag

-----------------------------------------------------------------------------
(* Queues.                                                                 *)

LEMMA FunctionSeq ==
  ASSUME NEW S, NEW n \in Nat, NEW f \in [1 .. n -> S]
  PROVE  f \in Seq(S) /\ Len(f) = n
<1>1. f \in Seq(S)
  BY SeqDef
<1> QED
  BY <1>1, LenProperties

LEMMA Elements ==
  ASSUME NEW s \in Seq(Task)
  PROVE  /\ Len(s) \in Nat /\ DOMAIN s = 1 .. Len(s) /\ ToSet(s) \subseteq Task
         /\ \A k \in 1 .. Len(s) : s[k] \in ToSet(s)
         /\ \A t \in ToSet(s) : \E k \in 1 .. Len(s) : s[k] = t
<1>1. Len(s) \in Nat /\ DOMAIN s = 1 .. Len(s)
  BY LenProperties
<1>2. \A k \in 1 .. Len(s) : s[k] \in Task
  BY ElementOfSeq
<1> QED
  BY <1>1, <1>2 DEF ToSet

LEMMA EmptyQueue == /\ <<>> \in Seq(Task) /\ Len(<<>>) = 0 /\ ToSet(<<>>) = {} /\ Distinct(<<>>)
                    /\ \A s \in Seq(Task) : Len(s) = 0 => s = <<>>
  BY EmptySeq DEF ToSet, Distinct

LEMMA PushSeq ==
  ASSUME NEW s \in Seq(Task), NEW t \in Task, Distinct(s), \A u \in ToSet(s) : u.dir # t.dir
  PROVE  Append(s, t) \in Seq(Task) /\ ToSet(Append(s, t)) = ToSet(s) \cup {t} /\ Distinct(Append(s, t))
<1>1. Len(s) \in Nat /\ DOMAIN s = 1 .. Len(s) /\ \A k \in 1 .. Len(s) : s[k].dir # t.dir
  BY Elements
<1>2. /\ Append(s, t) \in Seq(Task) /\ DOMAIN Append(s, t) = 1 .. Len(s) + 1
      /\ (\A k \in 1 .. Len(s) : Append(s, t)[k] = s[k]) /\ Append(s, t)[Len(s) + 1] = t
  BY <1>1, AppendProperties, LenProperties
<1>3. \A k \in 1 .. Len(s) + 1 : k \in 1 .. Len(s) \/ k = Len(s) + 1
  BY <1>1
<1>4. 1 .. Len(s) \subseteq 1 .. Len(s) + 1 /\ Len(s) + 1 \in 1 .. Len(s) + 1
  BY <1>1
<1> DEFINE a == Append(s, t)
           n == Len(s) + 1
<1> HIDE DEF a, n
<1>5. ToSet(a) = ToSet(s) \cup {t}
  BY <1>1, <1>2, <1>3, <1>4 DEF ToSet, a, n
<1>6. Distinct(a)
  BY <1>1, <1>2, <1>3 DEF Distinct, a, n
<1> QED
  BY <1>2, <1>5, <1>6 DEF a

LEMMA PopSeq ==
  ASSUME NEW s \in Seq(Task), s # <<>>, Distinct(s)
  PROVE  /\ Front(s) \in Seq(Task) /\ Distinct(Front(s)) /\ Last(s) \in ToSet(s)
         /\ ToSet(Front(s)) = ToSet(s) \ {Last(s)}
<1>1. Len(s) \in Nat /\ Len(s) # 0 /\ DOMAIN s = 1 .. Len(s)
  BY Elements, EmptyQueue
<1>2. /\ Front(s) \in Seq(Task) /\ Len(Front(s)) = Len(s) - 1
      /\ \A k \in 1 .. Len(s) - 1 : Front(s)[k] = s[k]
  <2>1. 1 \in 1 .. Len(s) + 1 /\ Len(s) - 1 \in 1 - 1 .. Len(s)
    <3>1. \A i \in Nat : i # 0 => 1 \in 1 .. i + 1 /\ i - 1 \in 1 - 1 .. i
      OBVIOUS
    <3> DEFINE i == Len(s)
    <3>2. i \in Nat /\ i # 0
      BY <1>1
    <3> HIDE DEF i
    <3>3. 1 \in 1 .. i + 1 /\ i - 1 \in 1 - 1 .. i
      BY <3>1, <3>2
    <3> QED
      BY <3>3 DEF i
  <2>2. /\ SubSeq(s, 1, Len(s) - 1) \in Seq(Task) /\ Len(SubSeq(s, 1, Len(s) - 1)) = Len(s) - 1
        /\ \A k \in 1 .. Len(s) - 1 : SubSeq(s, 1, Len(s) - 1)[k] = s[k]
    BY <1>1, <2>1, SubSeqProperties
  <2> QED
    BY <2>2 DEF Front
<1> DEFINE f == Front(s)
           t == Last(s)
           n == Len(s)
<1>3. DOMAIN f = 1 .. n - 1 /\ t = s[n] /\ \A k \in 1 .. n - 1 : f[k] = s[k]
  BY <1>1, <1>2, LenProperties DEF Last
<1>4. n \in Nat /\ n # 0 /\ DOMAIN s = 1 .. n
  BY <1>1
<1> HIDE DEF f, t, n
<1>5. /\ 1 .. n - 1 \subseteq 1 .. n /\ n \in 1 .. n /\ n \notin 1 .. n - 1
      /\ \A k \in 1 .. n : k \in 1 .. n - 1 \/ k = n
  BY <1>4
<1>6. Distinct(f)
  BY <1>3, <1>4, <1>5 DEF Distinct
<1>7. t \in ToSet(s)
  BY <1>3, <1>4, <1>5 DEF ToSet
<1>8. \A k \in 1 .. n - 1 : f[k] # t
  BY <1>3, <1>4, <1>5 DEF Distinct
<1>9. ToSet(f) = ToSet(s) \ {t}
  BY <1>3, <1>4, <1>5, <1>8 DEF ToSet
<1> QED
  BY <1>2, <1>6, <1>7, <1>9 DEF f, t

\* What a thief leaves behind and what it takes along, but for the oldest task.
LEMMA StealSeq ==
  ASSUME NEW s \in Seq(Task), s # <<>>, Distinct(s), NEW n \in Taken(s)
  PROVE  /\ Remainder(s, n) \in Seq(Task) /\ SubSeq(s, n + 1, Len(s)) \in Seq(Task)
         /\ Distinct(Remainder(s, n)) /\ Distinct(SubSeq(s, n + 1, Len(s)))
         /\ Apart(Remainder(s, n), SubSeq(s, n + 1, Len(s))) /\ Head(s) \in ToSet(s)
         /\ ToSet(Remainder(s, n)) \cup ToSet(SubSeq(s, n + 1, Len(s))) = ToSet(s) \ {Head(s)}
<1> DEFINE m == Len(s)
<1>1. m \in Nat /\ m # 0 /\ DOMAIN s = 1 .. m /\ Head(s) = s[1]
  BY Elements, EmptyQueue, HeadTailProperties
<1>2. n \in 1 .. m
  BY <1>1 DEF Taken
<1> DEFINE rest == SubSeq(s, n + 1, m)
           old == SubSeq(s, 2, n)
           rem == Reverse(old)
<1>3. /\ rest \in Seq(Task) /\ DOMAIN rest = 1 .. m - n
      /\ \A k \in 1 .. m - n : rest[k] = s[n + k]
  <2>1. n + 1 \in 1 .. m + 1 /\ m \in (n + 1) - 1 .. m
    BY <1>1, <1>2
  <2>2. /\ rest \in Seq(Task) /\ Len(rest) = (IF n + 1 <= m THEN m - (n + 1) + 1 ELSE 0)
        /\ \A k \in 1 .. m - (n + 1) + 1 : rest[k] = s[(n + 1) + k - 1]
    BY <2>1, SubSeqProperties
  <2>3. Len(rest) = m - n
    <3>1. n \in Int /\ m \in Int /\ n <= m
      BY <1>1, <1>2
    <3>2. (IF n + 1 <= m THEN m - (n + 1) + 1 ELSE 0) = m - n
      BY <3>1
    <3> QED
      BY <2>2, <3>2
  <2>4. \A k \in 1 .. m - n : k \in 1 .. m - (n + 1) + 1 /\ (n + 1) + k - 1 = n + k
    BY <1>1, <1>2
  <2> QED
    BY <2>2, <2>3, <2>4, LenProperties
<1>4. /\ old \in Seq(Task) /\ Len(old) = n - 1
      /\ \A k \in 1 .. n - 1 : old[k] = s[k + 1]
  <2>1. 2 \in 1 .. m + 1 /\ n \in 2 - 1 .. m
    BY <1>1, <1>2
  <2>2. /\ old \in Seq(Task) /\ Len(old) = (IF 2 <= n THEN n - 2 + 1 ELSE 0)
        /\ \A k \in 1 .. n - 2 + 1 : old[k] = s[2 + k - 1]
    BY <2>1, SubSeqProperties
  <2>3. Len(old) = n - 1
    BY <1>1, <1>2, <2>2
  <2>4. \A k \in 1 .. n - 1 : k \in 1 .. n - 2 + 1 /\ 2 + k - 1 = k + 1
    BY <1>1, <1>2
  <2> QED
    BY <2>2, <2>3, <2>4
<1>5. /\ rem \in Seq(Task) /\ DOMAIN rem = 1 .. n - 1
      /\ \A k \in 1 .. n - 1 : rem[k] = s[n + 1 - k]
  <2>1. rem = [k \in 1 .. n - 1 |-> old[(n - 1 - k) + 1]]
    BY <1>4 DEF Reverse
  <2>2. \A k \in 1 .. n - 1 : (n - 1 - k) + 1 \in 1 .. n - 1 /\ ((n - 1 - k) + 1) + 1 = n + 1 - k
                              /\ n + 1 - k \in 1 .. m
    BY <1>1, <1>2
  <2>3. \A k \in 1 .. n - 1 : old[(n - 1 - k) + 1] = s[n + 1 - k] /\ s[n + 1 - k] \in Task
    BY <1>1, <1>4, <2>2, ElementOfSeq
  <2>4. rem \in [1 .. n - 1 -> Task] /\ n - 1 \in Nat
    BY <1>2, <2>1, <2>3
  <2>5. rem \in Seq(Task)
    BY <2>4, FunctionSeq
  <2> QED
    BY <2>1, <2>3, <2>5
<1> HIDE DEF m, rest, old, rem
<1>6. /\ \A k \in 1 .. m - n : n + k \in 1 .. m /\ n + k # 1
      /\ \A k \in 1 .. n - 1 : n + 1 - k \in 1 .. m /\ n + 1 - k # 1
      /\ \A j, k \in 1 .. m - n : n + j = n + k => j = k
      /\ \A j, k \in 1 .. n - 1 : n + 1 - j = n + 1 - k => j = k
      /\ \A j \in 1 .. n - 1, k \in 1 .. m - n : n + 1 - j # n + k
      /\ 1 \in 1 .. m
  BY <1>1, <1>2
<1>7. \A k \in 1 .. m : \/ k = 1
                        \/ n + 1 - k \in 1 .. n - 1 /\ n + 1 - (n + 1 - k) = k
                        \/ k - n \in 1 .. m - n /\ n + (k - n) = k
  BY <1>1, <1>2
<1>8. \A k \in 1 .. m : k = 1 \/ (\E j \in 1 .. n - 1 : k = n + 1 - j) \/ (\E j \in 1 .. m - n : k = n + j)
  BY <1>7
<1>9. Distinct(rem) /\ Distinct(rest)
  BY <1>1, <1>3, <1>5, <1>6 DEF Distinct
<1>10. \A j \in DOMAIN rem, k \in DOMAIN rest : rem[j].dir # rest[k].dir
  BY <1>1, <1>3, <1>5, <1>6 DEF Distinct
<1>11. Apart(rem, rest)
  BY <1>10 DEF Apart, ToSet
<1>12. \A u : u \in ToSet(rem) \cup ToSet(rest) => u \in ToSet(s) /\ u # s[1]
  <2>1. \A k \in 1 .. m : k # 1 => s[k] \in ToSet(s) /\ s[k] # s[1]
    BY <1>1, <1>6 DEF ToSet, Distinct
  <2>2. \A k \in DOMAIN rem : rem[k] \in ToSet(s) /\ rem[k] # s[1]
    BY <1>5, <1>6, <2>1
  <2>3. \A k \in DOMAIN rest : rest[k] \in ToSet(s) /\ rest[k] # s[1]
    BY <1>3, <1>6, <2>1
  <2>4. (\A u \in ToSet(rem) : \E k \in DOMAIN rem : u = rem[k])
        /\ \A u \in ToSet(rest) : \E k \in DOMAIN rest : u = rest[k]
    BY DEF ToSet
  <2> QED
    BY <2>2, <2>3, <2>4
<1>13. \A u : u \in ToSet(s) /\ u # s[1] => u \in ToSet(rem) \cup ToSet(rest)
  <2> SUFFICES ASSUME NEW k \in 1 .. m, s[k] # s[1] PROVE s[k] \in ToSet(rem) \cup ToSet(rest)
    BY <1>1 DEF ToSet
  <2>1. CASE \E j \in 1 .. n - 1 : k = n + 1 - j
    BY <1>5, <2>1 DEF ToSet
  <2>2. CASE \E j \in 1 .. m - n : k = n + j
    BY <1>3, <2>2 DEF ToSet
  <2> QED
    BY <1>8, <2>1, <2>2
<1>14. s[1] \in ToSet(s)
  BY <1>1, <1>6 DEF ToSet
<1>15. ToSet(rem) \cup ToSet(rest) = ToSet(s) \ {s[1]}
  BY <1>12, <1>13
<1> QED
  BY <1>1, <1>3, <1>5, <1>9, <1>11, <1>14, <1>15 DEF rem, rest, old, m, Remainder

LEMMA FlushSeq ==
  ASSUME NEW s \in Seq(Task), NEW r \in Seq(Task), Distinct(s), Distinct(r), Apart(s, r)
  PROVE  /\ s \o Reverse(r) \in Seq(Task) /\ Distinct(s \o Reverse(r))
         /\ ToSet(s \o Reverse(r)) = ToSet(s) \cup ToSet(r)
<1> DEFINE n == Len(s)
           m == Len(r)
           v == Reverse(r)
           c == s \o v
<1>1. n \in Nat /\ m \in Nat /\ DOMAIN s = 1 .. n /\ DOMAIN r = 1 .. m /\ \A k \in 1 .. m : r[k] \in Task
  BY Elements, ElementOfSeq
<1>2. v \in Seq(Task) /\ Len(v) = m /\ \A k \in 1 .. m : v[k] = r[m - k + 1]
  <2>1. v = [k \in 1 .. m |-> r[(m - k) + 1]]
    BY DEF Reverse
  <2>2. \A k \in 1 .. m : r[(m - k) + 1] \in Task
    BY <1>1
  <2>3. v \in [1 .. m -> Task]
    BY <2>1, <2>2
  <2>4. v \in Seq(Task) /\ Len(v) = m
    BY <1>1, <2>3, FunctionSeq
  <2> QED
    BY <2>1, <2>4
<1> HIDE DEF v
<1>3. /\ c \in Seq(Task) /\ DOMAIN c = 1 .. n + m
      /\ \A k \in 1 .. n + m : c[k] = IF k <= n THEN s[k] ELSE v[k - n]
  <2>1. v \in Seq(Task)
    BY <1>2
  <2>2. /\ c \in Seq(Task) /\ Len(c) = Len(s) + Len(v)
        /\ \A k \in 1 .. Len(s) + Len(v) : c[k] = IF k <= Len(s) THEN s[k] ELSE v[k - Len(s)]
    BY <2>1, ConcatProperties
  <2> QED
    BY <1>2, <2>2, LenProperties
<1> HIDE DEF n, m, c
<1>4. /\ \A k \in 1 .. n : k \in 1 .. n + m /\ c[k] = s[k]
      /\ \A k \in 1 .. m : n + k \in 1 .. n + m /\ c[n + k] = r[m - k + 1]
  <2>1. \A k \in 1 .. m : n + k \in 1 .. n + m /\ ~(n + k <= n) /\ n + k - n = k
    BY <1>1
  <2> QED
    BY <1>1, <1>2, <1>3, <2>1
<1>5. \A k \in 1 .. n + m : k \in 1 .. n \/ \E j \in 1 .. m : k = n + j
  <2>1. \A k \in 1 .. n + m : k \in 1 .. n \/ (k - n \in 1 .. m /\ k = n + (k - n))
    BY <1>1
  <2> QED
    BY <2>1
<1>6. /\ \A j \in 1 .. m : m - j + 1 \in 1 .. m
      /\ \A j, k \in 1 .. m : m - j + 1 = m - k + 1 => n + j = n + k
      /\ \A k \in 1 .. m : \E j \in 1 .. m : k = m - j + 1
  <2>1. \A k \in 1 .. m : m - k + 1 \in 1 .. m /\ k = m - (m - k + 1) + 1
    BY <1>1
  <2> QED
    BY <1>1, <2>1
<1>7. \A j \in 1 .. n, k \in 1 .. m : s[j].dir # r[k].dir
  BY <1>1 DEF Apart, ToSet
<1>8. Distinct(c)
  <2> SUFFICES ASSUME NEW j \in 1 .. n + m, NEW k \in 1 .. n + m, c[j].dir = c[k].dir PROVE j = k
    BY <1>3 DEF Distinct
  <2>1. CASE j \in 1 .. n /\ k \in 1 .. n
    BY <1>1, <1>4, <2>1 DEF Distinct
  <2>2. CASE j \in 1 .. n /\ k \notin 1 .. n
    <3>1. PICK l \in 1 .. m : k = n + l
      BY <1>5, <2>2
    <3>2. m - l + 1 \in 1 .. m /\ c[k] = r[m - l + 1]
      BY <1>4, <1>6, <3>1
    <3> QED
      BY <1>4, <1>7, <2>2, <3>2
  <2>3. CASE j \notin 1 .. n /\ k \in 1 .. n
    <3>1. PICK l \in 1 .. m : j = n + l
      BY <1>5, <2>3
    <3>2. m - l + 1 \in 1 .. m /\ c[j] = r[m - l + 1]
      BY <1>4, <1>6, <3>1
    <3> QED
      BY <1>4, <1>7, <2>3, <3>2
  <2>4. CASE j \notin 1 .. n /\ k \notin 1 .. n
    <3>1. PICK i \in 1 .. m : j = n + i
      BY <1>5, <2>4
    <3>2. PICK l \in 1 .. m : k = n + l
      BY <1>5, <2>4
    <3>3. r[m - i + 1].dir = r[m - l + 1].dir
      BY <1>4, <3>1, <3>2
    <3>4. m - i + 1 = m - l + 1
      BY <1>1, <1>6, <3>3 DEF Distinct
    <3> QED
      BY <1>6, <3>1, <3>2, <3>4
  <2> QED
    BY <2>1, <2>2, <2>3, <2>4
<1>9. ToSet(c) \subseteq ToSet(s) \cup ToSet(r)
  <2> SUFFICES ASSUME NEW k \in 1 .. n + m PROVE c[k] \in ToSet(s) \cup ToSet(r)
    BY <1>3 DEF ToSet
  <2>1. CASE k \in 1 .. n
    BY <1>1, <1>4, <2>1 DEF ToSet
  <2>2. CASE \E l \in 1 .. m : k = n + l
    <3>1. PICK l \in 1 .. m : k = n + l
      BY <2>2
    <3>2. m - l + 1 \in 1 .. m /\ c[k] = r[m - l + 1]
      BY <1>4, <1>6, <3>1
    <3> QED
      BY <1>1, <3>2 DEF ToSet
  <2> QED
    BY <1>5, <2>1, <2>2
<1>10. ToSet(s) \subseteq ToSet(c)
  BY <1>1, <1>3, <1>4 DEF ToSet
<1>11. ToSet(r) \subseteq ToSet(c)
  <2> SUFFICES ASSUME NEW k \in 1 .. m PROVE r[k] \in ToSet(c)
    BY <1>1 DEF ToSet
  <2>1. PICK j \in 1 .. m : k = m - j + 1
    BY <1>6
  <2> QED
    BY <1>3, <1>4, <2>1 DEF ToSet
<1> QED
  BY <1>3, <1>8, <1>9, <1>10, <1>11 DEF c, v

LEMMA LineTypes ==
  ASSUME NEW q \in [Worker -> Seq(Task)], NEW shared \in Seq(Task)
  PROVE  /\ Shared \in Lines /\ Shared \notin Worker /\ Worker \subseteq Lines /\ Lines = Worker \cup {Shared}
         /\ LineOf(q, shared) \in [Lines -> Seq(Task)] /\ LineOf(q, shared)[Shared] = shared
         /\ \A w \in Worker : LineOf(q, shared)[w] = q[w]
         /\ TasksIn(LineOf(q, shared)) \subseteq Task
<1>1. Shared \notin Worker
  BY Constants
<1>2. /\ LineOf(q, shared) \in [Lines -> Seq(Task)] /\ LineOf(q, shared)[Shared] = shared
      /\ \A w \in Worker : LineOf(q, shared)[w] = q[w]
  BY <1>1 DEF LineOf, Lines
<1>3. TasksIn(LineOf(q, shared)) \subseteq Task
  BY <1>2, Elements DEF TasksIn
<1> QED
  BY <1>1, <1>2, <1>3 DEF Lines

\* The lines of P change: they hold what they held together, or less, and at
\* most one task more.
Replaces(L, M, P, Fresh) ==
  /\ P \subseteq Lines /\ \A r \in Lines \ P : M[r] = L[r]
  /\ \A r \in P : Distinct(M[r])
  /\ \A r, s \in P : r # s => Apart(M[r], M[s])
  /\ \A r \in P : \A u \in ToSet(M[r]) : u \in Fresh \/ \E s \in P : u \in ToSet(L[s])
  /\ \A u \in Fresh : \A v \in TasksIn(L) : u.dir # v.dir

LEMMA Replace ==
  ASSUME NEW L, NEW M, NEW P, NEW Fresh, Replaces(L, M, P, Fresh), OnceIn(L)
  PROVE  OnceIn(M)
<1> USE DEF Replaces
<1>1. \A r \in Lines : Distinct(M[r])
  BY DEF OnceIn
<1>2. ASSUME NEW p \in Lines, NEW q \in Lines, p # q, NEW u \in ToSet(M[p]), NEW v \in ToSet(M[q])
      PROVE  u.dir # v.dir
  <2>1. CASE p \in P /\ q \in P
    BY <1>2, <2>1 DEF Apart
  <2>2. CASE p \notin P /\ q \notin P
    BY <1>2, <2>2 DEF OnceIn, Apart
  <2>3. CASE p \in P /\ q \notin P
    <3>1. v \in ToSet(L[q]) /\ v \in TasksIn(L)
      BY <2>3 DEF TasksIn
    <3> QED
      BY <1>2, <2>3, <3>1 DEF OnceIn, Apart
  <2>4. CASE p \notin P /\ q \in P
    <3>1. u \in ToSet(L[p]) /\ u \in TasksIn(L)
      BY <2>4 DEF TasksIn
    <3> QED
      BY <1>2, <2>4, <3>1 DEF OnceIn, Apart
  <2> QED
    BY <2>1, <2>2, <2>3, <2>4
<1> QED
  BY <1>1, <1>2 DEF OnceIn, Apart

LEMMA PopTask ==
  ASSUME TypeOK, OnceIn(Line), NEW w \in Worker, PopOwn(w)
  PROVE  /\ queue' \in [Worker -> Seq(Task)] /\ injector' \in Seq(Task) /\ OnceIn(Line')
         /\ \E t \in Queued : t \in Task /\ task' = [task EXCEPT ![w] = t] /\ Queued' = Queued \ {t}
<1> DEFINE s == queue[w]
           t == Last(s)
           L == Line
           M == Line'
<1>1. s \in Seq(Task) /\ s # <<>> /\ queue \in [Worker -> Seq(Task)] /\ injector \in Seq(Task)
  BY DEF TypeOK, PopOwn
<1>2. /\ Shared \notin Worker /\ Lines = Worker \cup {Shared} /\ L[w] = s
      /\ L[Shared] = injector /\ (\A v \in Worker : L[v] = queue[v]) /\ Queued \subseteq Task
  BY <1>1, LineTypes DEF Line, Queued
<1>3. Distinct(s)
  BY <1>2 DEF OnceIn
<1>4. /\ Front(s) \in Seq(Task) /\ Distinct(Front(s)) /\ t \in ToSet(s) /\ ToSet(Front(s)) = ToSet(s) \ {t}
  BY <1>1, <1>3, PopSeq
<1>5. queue' = [queue EXCEPT ![w] = Front(s)] /\ injector' = injector /\ task' = [task EXCEPT ![w] = t]
  BY DEF PopOwn
<1> HIDE DEF t
<1>6. queue' \in [Worker -> Seq(Task)] /\ injector' \in Seq(Task)
  BY <1>1, <1>4, <1>5
<1>7. M[w] = Front(s) /\ \A p \in Lines \ {w} : M[p] = L[p]
  <2>1. M = LineOf(queue', injector')
    BY DEF Line
  <2>2. M[Shared] = injector' /\ \A v \in Worker : M[v] = queue'[v]
    BY <1>6, <2>1, LineTypes
  <2> QED
    BY <1>1, <1>2, <1>5, <2>2
<1> HIDE DEF s, L, M
<1>8. OnceIn(M)
  <2>1. /\ {w} \in SUBSET Lines /\ \A r \in Lines \ {w} : M[r] = L[r]
        /\ \A r \in {w} : Distinct(M[r])
        /\ \A r, s1 \in {w} : r # s1 => Apart(M[r], M[s1])
    BY <1>2, <1>4, <1>7
  <2>2. \A r \in {w} : \A u \in ToSet(M[r]) : u \in {} \/ \E s1 \in {w} : u \in ToSet(L[s1])
    BY <1>2, <1>4, <1>7
  <2>3. Replaces(L, M, {w}, {})
    BY <2>1, <2>2 DEF Replaces
  <2>4. OnceIn(L)
    BY DEF L
  <2> QED
    BY <2>3, <2>4, Replace
<1>9. t \in TasksIn(L) /\ TasksIn(M) = TasksIn(L) \ {t}
  <2>1. \A p \in Lines \ {w} : t \notin ToSet(L[p])
    BY <1>2, <1>4 DEF OnceIn, Apart, L
  <2>2. \A p \in Lines : ToSet(M[p]) = ToSet(L[p]) \ {t}
    BY <1>2, <1>4, <1>7, <2>1
  <2>3. t \in TasksIn(L)
    BY <1>2, <1>4 DEF TasksIn
  <2>4. \A u : u \in TasksIn(M) <=> u \in TasksIn(L) /\ u # t
    BY <2>2 DEF TasksIn
  <2> QED
    BY <2>3, <2>4
<1> QED
  BY <1>2, <1>5, <1>6, <1>8, <1>9 DEF Queued, L, M

\* One thief, one victim line, whichever it is.
Steals(L, M, p, q, n) ==
  /\ p \in Lines /\ q \in Lines /\ p # q /\ L[p] = <<>>
  /\ L[q] \in Seq(Task) /\ L[q] # <<>> /\ n \in Taken(L[q])
  /\ M[p] = Remainder(L[q], n) /\ M[q] = SubSeq(L[q], n + 1, Len(L[q]))
  /\ \A r \in Lines \ {p, q} : M[r] = L[r]

LEMMA StealLine ==
  ASSUME NEW L, NEW M, NEW p, NEW q, NEW n, Steals(L, M, p, q, n), OnceIn(L)
  PROVE  /\ M[p] \in Seq(Task) /\ M[q] \in Seq(Task) /\ OnceIn(M)
         /\ Head(L[q]) \in TasksIn(L) /\ TasksIn(M) = TasksIn(L) \ {Head(L[q])}
<1> USE DEF Steals
<1> DEFINE s == L[q]
           t == Head(s)
           a == M[p]
           b == M[q]
<1>1. Distinct(s)
  BY DEF OnceIn
<1>2. /\ a \in Seq(Task) /\ b \in Seq(Task) /\ Distinct(a) /\ Distinct(b) /\ Apart(a, b)
      /\ t \in ToSet(s) /\ ToSet(a) \cup ToSet(b) = ToSet(s) \ {t}
  BY <1>1, StealSeq
<1>3. L[p] = <<>> /\ ToSet(L[p]) = {} /\ p # q
  BY EmptyQueue
<1> HIDE DEF t
<1>4. Apart(b, a)
  BY <1>2 DEF Apart
<1>5. OnceIn(M)
  <2>1. {p, q} \in SUBSET Lines /\ \A r \in Lines \ {p, q} : M[r] = L[r]
    OBVIOUS
  <2>2. \A r \in {p, q} : Distinct(M[r])
    BY <1>2
  <2>3. \A r, s1 \in {p, q} : r # s1 => Apart(M[r], M[s1])
    BY <1>2, <1>4
  <2>4. \A r \in {p, q} : \A u \in ToSet(M[r]) : u \in {} \/ \E s1 \in {p, q} : u \in ToSet(L[s1])
    BY <1>2
  <2>5. Replaces(L, M, {p, q}, {})
    BY <2>1, <2>2, <2>3, <2>4 DEF Replaces
  <2> QED
    BY <2>5, Replace
<1>6. t \in TasksIn(L)
  BY <1>2 DEF TasksIn
<1>7. TasksIn(M) = TasksIn(L) \ {t}
  <2>1. \A r \in Lines \ {p, q} : t \notin ToSet(L[r]) /\ M[r] = L[r]
    BY <1>2 DEF OnceIn, Apart
  <2>2. \A u : u \in TasksIn(M) => u \in TasksIn(L) /\ u # t
    BY <1>2, <2>1 DEF TasksIn
  <2>3. \A u : u \in TasksIn(L) /\ u # t => u \in TasksIn(M)
    BY <1>2, <1>3, <2>1 DEF TasksIn
  <2> QED
    BY <2>2, <2>3
<1> QED
  BY <1>2, <1>5, <1>6, <1>7 DEF t

LEMMA NewLines ==
  ASSUME NEW q \in [Worker -> Seq(Task)], NEW i \in Seq(Task), queue' = q, injector' = i
  PROVE  Line'[Shared] = i /\ \A w \in Worker : Line'[w] = q[w]
<1>1. Line' = LineOf(q, i)
  BY DEF Line
<1> QED
  BY <1>1, LineTypes

LEMMA OldLines ==
  ASSUME TypeOK
  PROVE  /\ Shared \notin Worker /\ Lines = Worker \cup {Shared} /\ Shared \in Lines
         /\ Line[Shared] = injector /\ (\A w \in Worker : w \in Lines /\ Line[w] = queue[w])
         /\ queue \in [Worker -> Seq(Task)] /\ injector \in Seq(Task)
         /\ Line \in [Lines -> Seq(Task)] /\ Queued \subseteq Task
<1>1. queue \in [Worker -> Seq(Task)] /\ injector \in Seq(Task)
  BY DEF TypeOK
<1> QED
  BY <1>1, LineTypes DEF Line, Queued

LEMMA InjectorTask ==
  ASSUME TypeOK, OnceIn(Line), NEW w \in Worker, StealInjector(w)
  PROVE  /\ queue' \in [Worker -> Seq(Task)] /\ injector' \in Seq(Task) /\ OnceIn(Line')
         /\ \E t \in Queued : t \in Task /\ task' = [task EXCEPT ![w] = t] /\ Queued' = Queued \ {t}
<1> DEFINE L == Line
           M == Line'
           i == Shared
<1>1. /\ i \in Lines /\ w \in Lines /\ w # i /\ L[w] = <<>> /\ L[i] = injector /\ L[i] \in Seq(Task)
      /\ L[i] # <<>> /\ Lines = Worker \cup {i} /\ \A v \in Worker : L[v] = queue[v]
  BY OldLines DEF StealInjector
<1>2. queue \in [Worker -> Seq(Task)] /\ Queued \subseteq Task
  BY OldLines
<1>3. PICK n \in Taken(injector) :
        /\ queue' = [queue EXCEPT ![w] = Remainder(injector, n)]
        /\ injector' = SubSeq(injector, n + 1, Len(injector))
  BY DEF StealInjector
<1>4. Distinct(injector)
  BY <1>1 DEF OnceIn
<1>5. Remainder(injector, n) \in Seq(Task) /\ SubSeq(injector, n + 1, Len(injector)) \in Seq(Task)
  BY <1>1, <1>4, StealSeq
<1>6. queue' \in [Worker -> Seq(Task)] /\ injector' \in Seq(Task)
  BY <1>2, <1>3, <1>5
<1>7. M[i] = injector' /\ \A v \in Worker : M[v] = queue'[v]
  BY <1>6, NewLines
<1>8. /\ M[w] = Remainder(L[i], n) /\ M[i] = SubSeq(L[i], n + 1, Len(L[i])) /\ n \in Taken(L[i])
      /\ \A r \in Lines \ {w, i} : M[r] = L[r]
  BY <1>1, <1>2, <1>3, <1>7
<1>9. task' = [task EXCEPT ![w] = Head(L[i])]
  BY <1>1 DEF StealInjector
<1>10. OnceIn(L)
  OBVIOUS
<1> HIDE DEF L, M, i
<1>11. Steals(L, M, w, i, n)
  BY <1>1, <1>8 DEF Steals
<1>12. OnceIn(M) /\ Head(L[i]) \in TasksIn(L) /\ TasksIn(M) = TasksIn(L) \ {Head(L[i])}
  BY <1>10, <1>11, StealLine
<1> QED
  BY <1>2, <1>6, <1>9, <1>12 DEF Queued, L, M

LEMMA VictimTask ==
  ASSUME TypeOK, OnceIn(Line), NEW w \in Worker, StealVictim(w)
  PROVE  /\ queue' \in [Worker -> Seq(Task)] /\ injector' \in Seq(Task) /\ OnceIn(Line')
         /\ \E t \in Queued : t \in Task /\ task' = [task EXCEPT ![w] = t] /\ Queued' = Queued \ {t}
<1> DEFINE L == Line
           M == Line'
<1>1. PICK i \in Worker \ {w} :
        /\ queue[i] # <<>>
        /\ task' = [task EXCEPT ![w] = Head(queue[i])]
        /\ \E n \in Taken(queue[i]) :
             queue' = [queue EXCEPT ![w] = Remainder(queue[i], n),
                                    ![i] = SubSeq(queue[i], n + 1, Len(queue[i]))]
  BY DEF StealVictim
<1>2. PICK n \in Taken(queue[i]) :
             queue' = [queue EXCEPT ![w] = Remainder(queue[i], n),
                                    ![i] = SubSeq(queue[i], n + 1, Len(queue[i]))]
  BY <1>1
<1>3. /\ queue \in [Worker -> Seq(Task)] /\ Queued \subseteq Task /\ injector \in Seq(Task)
      /\ injector' = injector /\ Shared \notin Worker
  BY OldLines DEF StealVictim
<1>4. /\ i \in Lines /\ w \in Lines /\ w # i /\ L[w] = <<>> /\ L[i] = queue[i] /\ L[i] \in Seq(Task)
      /\ L[i] # <<>> /\ Lines = Worker \cup {Shared} /\ (\A v \in Worker : L[v] = queue[v])
      /\ L[Shared] = injector
  BY <1>1, <1>3, OldLines DEF StealVictim
<1>5. Distinct(queue[i])
  BY <1>4 DEF OnceIn
<1>6. Remainder(queue[i], n) \in Seq(Task) /\ SubSeq(queue[i], n + 1, Len(queue[i])) \in Seq(Task)
  BY <1>4, <1>5, StealSeq
<1> DEFINE a == Remainder(queue[i], n)
           b == SubSeq(queue[i], n + 1, Len(queue[i]))
<1>7. queue' = [queue EXCEPT ![w] = a, ![i] = b] /\ a \in Seq(Task) /\ b \in Seq(Task)
  BY <1>2, <1>6
<1> HIDE DEF a, b
<1>8. /\ queue' \in [Worker -> Seq(Task)] /\ injector' \in Seq(Task)
      /\ queue'[w] = a /\ queue'[i] = b /\ \A v \in Worker \ {w, i} : queue'[v] = queue[v]
  BY <1>1, <1>3, <1>7
<1>9. M[Shared] = injector' /\ \A v \in Worker : M[v] = queue'[v]
  BY <1>8, NewLines
<1>10. /\ M[w] = a /\ M[i] = b /\ \A r \in Lines \ {w, i} : M[r] = L[r]
  BY <1>1, <1>3, <1>4, <1>8, <1>9
<1>11. /\ M[w] = Remainder(L[i], n) /\ M[i] = SubSeq(L[i], n + 1, Len(L[i])) /\ n \in Taken(L[i])
       /\ task' = [task EXCEPT ![w] = Head(L[i])]
  BY <1>1, <1>4, <1>10 DEF a, b
<1>12. OnceIn(L)
  OBVIOUS
<1> HIDE DEF L, M
<1>13. Steals(L, M, w, i, n)
  BY <1>4, <1>10, <1>11 DEF Steals
<1>14. OnceIn(M) /\ Head(L[i]) \in TasksIn(L) /\ TasksIn(M) = TasksIn(L) \ {Head(L[i])}
  BY <1>12, <1>13, StealLine
<1> QED
  BY <1>3, <1>8, <1>11, <1>14 DEF Queued, L, M

LEMMA FlushTasks ==
  ASSUME TypeOK, OnceIn(Line), NEW w \in Worker, injector' = injector \o Reverse(queue[w]),
         queue' = [queue EXCEPT ![w] = <<>>]
  PROVE  /\ queue' \in [Worker -> Seq(Task)] /\ injector' \in Seq(Task) /\ OnceIn(Line')
         /\ Queued' = Queued
<1> DEFINE L == Line
           M == Line'
           i == Shared
           s == queue[w]
<1>1. /\ i \in Lines /\ w \in Lines /\ w # i /\ L[w] = s /\ L[i] = injector /\ s \in Seq(Task)
      /\ injector \in Seq(Task) /\ Lines = Worker \cup {i} /\ \A v \in Worker : L[v] = queue[v]
  BY OldLines
<1>2. queue \in [Worker -> Seq(Task)]
  BY OldLines
<1>3. Distinct(s) /\ Distinct(injector) /\ Apart(injector, s)
  BY <1>1 DEF OnceIn
<1>4. /\ injector' \in Seq(Task) /\ Distinct(injector') /\ ToSet(injector') = ToSet(injector) \cup ToSet(s)
  BY <1>1, <1>3, FlushSeq
<1>5. queue' \in [Worker -> Seq(Task)] /\ ToSet(<<>>) = {} /\ Distinct(<<>>)
  BY <1>2, EmptyQueue
<1>6. M[i] = injector' /\ \A v \in Worker : M[v] = queue'[v]
  BY <1>4, <1>5, NewLines
<1>7. M[w] = <<>> /\ \A r \in Lines \ {w, i} : M[r] = L[r]
  BY <1>1, <1>2, <1>6
<1>8. /\ ToSet(M[w]) = {} /\ ToSet(M[i]) = ToSet(L[i]) \cup ToSet(L[w])
      /\ Distinct(M[w]) /\ Distinct(M[i])
  BY <1>1, <1>4, <1>5, <1>6, <1>7
<1> HIDE DEF L, M, i, s
<1>9. Replaces(L, M, {w, i}, {})
  <2>1. Apart(M[w], M[i]) /\ Apart(M[i], M[w])
    BY <1>8 DEF Apart
  <2>2. \A r \in {w, i} : \A u \in ToSet(M[r]) : u \in {} \/ \E q \in {w, i} : u \in ToSet(L[q])
    BY <1>8
  <2>3. \A r, q \in {w, i} : r # q => Apart(M[r], M[q])
    BY <2>1
  <2> QED
    BY <1>1, <1>7, <1>8, <2>2, <2>3 DEF Replaces
<1>10. OnceIn(M)
  BY <1>9, Replace DEF L
<1>11. \A u : u \in TasksIn(M) <=> u \in TasksIn(L)
  <2>1. \A u : u \in TasksIn(M) => u \in TasksIn(L)
    <3>1. \A r \in Lines : \A u \in ToSet(M[r]) : \E q \in Lines : u \in ToSet(L[q])
      BY <1>1, <1>7, <1>8
    <3> QED
      BY <3>1 DEF TasksIn
  <2>2. \A u : u \in TasksIn(L) => u \in TasksIn(M)
    <3>1. \A r \in Lines : \A u \in ToSet(L[r]) : \E q \in Lines : u \in ToSet(M[q])
      BY <1>1, <1>7, <1>8
    <3> QED
      BY <3>1 DEF TasksIn
  <2> QED
    BY <2>1, <2>2
<1> QED
  BY <1>4, <1>5, <1>10, <1>11 DEF Queued, L, M

\* A fresh task behind line p.
Pushes(L, M, p, t) ==
  /\ p \in Lines /\ t \in Task /\ L[p] \in Seq(Task) /\ M[p] = Append(L[p], t)
  /\ \A r \in Lines \ {p} : M[r] = L[r]
  /\ \A u \in TasksIn(L) : u.dir # t.dir

LEMMA PushLine ==
  ASSUME NEW L, NEW M, NEW p, NEW t, Pushes(L, M, p, t), OnceIn(L)
  PROVE  M[p] \in Seq(Task) /\ OnceIn(M) /\ TasksIn(M) = TasksIn(L) \cup {t}
<1> USE DEF Pushes
<1>1. Distinct(L[p]) /\ \A u \in ToSet(L[p]) : u.dir # t.dir
  BY DEF OnceIn, TasksIn
<1>2. M[p] \in Seq(Task) /\ ToSet(M[p]) = ToSet(L[p]) \cup {t} /\ Distinct(M[p])
  BY <1>1, PushSeq
<1>3. Replaces(L, M, {p}, {t})
  BY <1>2 DEF Replaces
<1>4. OnceIn(M)
  BY <1>3, Replace
<1>5. \A u : u \in TasksIn(M) <=> u \in TasksIn(L) \/ u = t
  BY <1>2 DEF TasksIn
<1> QED
  BY <1>2, <1>4, <1>5

LEMMA PushOwn ==
  ASSUME TypeOK, OnceIn(Line), NEW w \in Worker, NEW t \in Task, \A u \in Queued : u.dir # t.dir,
         queue' = [queue EXCEPT ![w] = Append(queue[w], t)], injector' = injector
  PROVE  /\ queue' \in [Worker -> Seq(Task)] /\ injector' \in Seq(Task) /\ OnceIn(Line')
         /\ Queued' = Queued \cup {t}
<1> DEFINE L == Line
           M == Line'
<1>1. /\ w \in Lines /\ L[w] = queue[w] /\ L[w] \in Seq(Task) /\ L[Shared] = injector /\ injector \in Seq(Task)
      /\ Lines = Worker \cup {Shared} /\ Shared \notin Worker /\ \A v \in Worker : L[v] = queue[v]
  BY OldLines
<1>2. queue \in [Worker -> Seq(Task)]
  BY OldLines
<1>3. Append(queue[w], t) \in Seq(Task)
  BY <1>1, AppendProperties
<1>4. queue' \in [Worker -> Seq(Task)] /\ injector' \in Seq(Task)
  BY <1>1, <1>2, <1>3
<1>5. M[Shared] = injector' /\ \A v \in Worker : M[v] = queue'[v]
  BY <1>4, NewLines
<1>6. M[w] = Append(L[w], t) /\ \A r \in Lines \ {w} : M[r] = L[r]
  BY <1>1, <1>2, <1>5
<1>7. OnceIn(L) /\ \A u \in TasksIn(L) : u.dir # t.dir
  BY DEF Queued
<1> HIDE DEF L, M
<1>8. Pushes(L, M, w, t)
  BY <1>1, <1>6, <1>7 DEF Pushes
<1>9. OnceIn(M) /\ TasksIn(M) = TasksIn(L) \cup {t}
  BY <1>7, <1>8, PushLine
<1> QED
  BY <1>4, <1>9 DEF Queued, L, M

LEMMA PushShared ==
  ASSUME TypeOK, OnceIn(Line), NEW t \in Task, \A u \in Queued : u.dir # t.dir,
         injector' = Append(injector, t), queue' = queue
  PROVE  /\ queue' \in [Worker -> Seq(Task)] /\ injector' \in Seq(Task) /\ OnceIn(Line')
         /\ Queued' = Queued \cup {t}
<1> DEFINE L == Line
           M == Line'
<1>1. /\ Shared \in Lines /\ L[Shared] = injector /\ L[Shared] \in Seq(Task)
      /\ Lines = Worker \cup {Shared} /\ Shared \notin Worker /\ \A v \in Worker : L[v] = queue[v]
  BY OldLines
<1>2. queue \in [Worker -> Seq(Task)]
  BY OldLines
<1>3. Append(injector, t) \in Seq(Task)
  BY <1>1, AppendProperties
<1>4. queue' \in [Worker -> Seq(Task)] /\ injector' \in Seq(Task)
  BY <1>1, <1>2, <1>3
<1>5. M[Shared] = injector' /\ \A v \in Worker : M[v] = queue'[v]
  BY <1>4, NewLines
<1>6. M[Shared] = Append(L[Shared], t) /\ \A r \in Lines \ {Shared} : M[r] = L[r]
  BY <1>1, <1>2, <1>5
<1>7. OnceIn(L) /\ \A u \in TasksIn(L) : u.dir # t.dir
  BY DEF Queued
<1> HIDE DEF L, M
<1>8. Pushes(L, M, Shared, t)
  BY <1>1, <1>6, <1>7 DEF Pushes
<1>9. OnceIn(M) /\ TasksIn(M) = TasksIn(L) \cup {t}
  BY <1>7, <1>8, PushLine
<1> QED
  BY <1>4, <1>9 DEF Queued, L, M

LEMMA SameQueues ==
  ASSUME TypeOK, OnceIn(Line), UNCHANGED <<queue, injector>>
  PROVE  /\ queue' \in [Worker -> Seq(Task)] /\ injector' \in Seq(Task) /\ OnceIn(Line')
         /\ Queued' = Queued /\ Line' = Line
<1>1. Line' = Line
  BY DEF Line
<1> QED
  BY <1>1, OldLines DEF Queued
=============================================================================
