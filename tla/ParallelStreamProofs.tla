------------------------ MODULE ParallelStreamProofs ------------------------
(***************************************************************************)
(* Proofs about ParallelStream for any number of workers and directories,  *)
(* any worlds and any capacity of the channel.                             *)
(***************************************************************************)
EXTENDS ParallelStreamInv, SequenceTheorems, FiniteSetTheorems, TLAPS

-----------------------------------------------------------------------------
(* Sequences of outputs and of messages.                                   *)

\* Membership and uniqueness under what the stream does to its sequences.
LEMMA EmptyHas ==
  /\ \A o : ~Has(<<>>, o) /\ ~Sent(<<>>, o)
  /\ Once(<<>>) /\ SentOnce(<<>>)
  BY DEF Has, Sent, Once, SentOnce

LEMMA AppendHas ==
  ASSUME NEW S, NEW s \in Seq(S), NEW e \in S
  PROVE  /\ \A o : Has(Append(s, e), o) <=> Has(s, o) \/ o = e
         /\ Once(s) /\ ~Has(s, e) => Once(Append(s, e))
<1>1. \A o : Has(Append(s, e), o) <=> Has(s, o) \/ o = e
  BY AppendProperties DEF Has
<1>2. Once(s) /\ ~Has(s, e) => Once(Append(s, e))
  BY AppendProperties DEF Has, Once
<1> QED
  BY <1>1, <1>2

LEMMA TailHas ==
  ASSUME NEW S, NEW s \in Seq(S), s # <<>>
  PROVE  /\ \A o : Has(s, o) <=> o = Head(s) \/ Has(Tail(s), o)
         /\ Once(s) => Once(Tail(s)) /\ ~Has(Tail(s), Head(s))
<1>1. /\ Len(s) \in Nat \ {0} /\ Head(s) = s[1] /\ Len(Tail(s)) = Len(s) - 1
      /\ \A i \in 1 .. Len(Tail(s)) : Tail(s)[i] = s[i + 1]
  BY EmptySeq, HeadTailProperties
<1>2. ASSUME NEW o PROVE Has(s, o) <=> o = Head(s) \/ Has(Tail(s), o)
  <2>1. ASSUME NEW k \in 1 .. Len(s), s[k] = o, k # 1 PROVE Has(Tail(s), o)
    <3>1. k - 1 \in 1 .. Len(Tail(s)) /\ Tail(s)[k - 1] = s[k]
      BY <1>1, <2>1
    <3> QED
      BY <2>1, <3>1 DEF Has
  <2>2. ASSUME NEW k \in 1 .. Len(Tail(s)), Tail(s)[k] = o PROVE Has(s, o)
    <3>1. k + 1 \in 1 .. Len(s) /\ s[k + 1] = o
      BY <1>1, <2>2
    <3> QED
      BY <3>1 DEF Has
  <2>3. 1 \in 1 .. Len(s)
    BY <1>1
  <2> QED
    BY <1>1, <2>1, <2>2, <2>3 DEF Has
<1>3. ASSUME Once(s) PROVE Once(Tail(s)) /\ ~Has(Tail(s), Head(s))
  <2>1. \A k \in 1 .. Len(Tail(s)) : k + 1 \in 1 .. Len(s) /\ Tail(s)[k] = s[k + 1] /\ k + 1 # 1
    BY <1>1
  <2>2. 1 \in 1 .. Len(s)
    BY <1>1
  <2>3. Once(Tail(s))
    BY <1>3, <2>1 DEF Once
  <2>4. ~Has(Tail(s), Head(s))
    BY <1>1, <1>3, <2>1, <2>2 DEF Once, Has
  <2> QED
    BY <2>3, <2>4
<1> QED
  BY <1>2, <1>3

LEMMA ConcatHas ==
  ASSUME NEW S, NEW s \in Seq(S), NEW t \in Seq(S)
  PROVE  /\ \A o : Has(s \o t, o) <=> Has(s, o) \/ Has(t, o)
         /\ Once(s) /\ Once(t) /\ (\A o \in S : ~(Has(s, o) /\ Has(t, o))) => Once(s \o t)
<1>1. /\ Len(s) \in Nat /\ Len(t) \in Nat /\ Len(s \o t) = Len(s) + Len(t)
      /\ \A i \in 1 .. Len(s) + Len(t) :
           (s \o t)[i] = IF i <= Len(s) THEN s[i] ELSE t[i - Len(s)]
  BY ConcatProperties, LenProperties
<1>2. \A i \in 1 .. Len(s) : i \in 1 .. Len(s) + Len(t) /\ (s \o t)[i] = s[i]
  BY <1>1
<1>3. \A i \in 1 .. Len(t) : Len(s) + i \in 1 .. Len(s) + Len(t) /\ (s \o t)[Len(s) + i] = t[i]
  BY <1>1
<1>4. \A i \in 1 .. Len(s) + Len(t) :
        \/ i \in 1 .. Len(s) /\ (s \o t)[i] = s[i]
        \/ i - Len(s) \in 1 .. Len(t) /\ (s \o t)[i] = t[i - Len(s)]
  BY <1>1
<1>5. ASSUME NEW o PROVE Has(s \o t, o) <=> Has(s, o) \/ Has(t, o)
  BY <1>1, <1>2, <1>3, <1>4 DEF Has
<1>6. ASSUME Once(s), Once(t), \A o \in S : ~(Has(s, o) /\ Has(t, o)) PROVE Once(s \o t)
  <2>1. \A i \in 1 .. Len(s), j \in 1 .. Len(t) : s[i] # t[j]
    BY <1>6, ElementOfSeq DEF Has
  <2> SUFFICES ASSUME NEW i \in 1 .. Len(s) + Len(t), NEW j \in 1 .. Len(s) + Len(t),
                      (s \o t)[i] = (s \o t)[j]
               PROVE  i = j
    BY <1>1 DEF Once
  <2>2. CASE i \in 1 .. Len(s) /\ j \in 1 .. Len(s)
    BY <1>2, <1>6, <2>2 DEF Once
  <2>3. CASE i \notin 1 .. Len(s) /\ j \notin 1 .. Len(s)
    BY <1>1, <1>4, <1>6, <2>3 DEF Once
  <2>4. CASE i \in 1 .. Len(s) /\ j \notin 1 .. Len(s)
    BY <1>2, <1>4, <2>1, <2>4
  <2>5. CASE i \notin 1 .. Len(s) /\ j \in 1 .. Len(s)
    BY <1>2, <1>4, <2>1, <2>5
  <2> QED
    BY <2>2, <2>3, <2>4, <2>5
<1> QED
  BY <1>5, <1>6

\* The same for a channel of messages.
LEMMA AppendSent ==
  ASSUME NEW ch \in Seq(Seq(Output)), NEW message \in Seq(Output)
  PROVE  /\ \A o : Sent(Append(ch, message), o) <=> Sent(ch, o) \/ Has(message, o)
         /\ SentOnce(ch) /\ Once(message) /\ (\A o \in Output : ~(Sent(ch, o) /\ Has(message, o)))
              => SentOnce(Append(ch, message))
<1>1. /\ Len(ch) \in Nat /\ Len(Append(ch, message)) = Len(ch) + 1
      /\ \A i \in 1 .. Len(ch) : Append(ch, message)[i] = ch[i]
      /\ Append(ch, message)[Len(ch) + 1] = message
  BY AppendProperties, LenProperties
<1>2. \A i \in 1 .. Len(ch) + 1 : i \in 1 .. Len(ch) \/ i = Len(ch) + 1
  BY <1>1
<1>3. 1 .. Len(ch) \subseteq 1 .. Len(ch) + 1 /\ Len(ch) + 1 \in 1 .. Len(ch) + 1
  BY <1>1
<1>4. ASSUME NEW o PROVE Sent(Append(ch, message), o) <=> Sent(ch, o) \/ Has(message, o)
  BY <1>1, <1>2, <1>3 DEF Sent
<1>5. ASSUME SentOnce(ch), Once(message), \A o \in Output : ~(Sent(ch, o) /\ Has(message, o))
      PROVE  SentOnce(Append(ch, message))
  <2>1. \A m \in 1 .. Len(ch) + 1 : Once(Append(ch, message)[m])
    BY <1>1, <1>2, <1>5 DEF SentOnce
  <2>2. \A m \in 1 .. Len(ch), o \in Output : ~(Has(ch[m], o) /\ Has(message, o))
    BY <1>5 DEF Sent
  <2>3. ASSUME NEW m \in 1 .. Len(ch) + 1, NEW n \in 1 .. Len(ch) + 1, NEW o \in Output,
               Has(Append(ch, message)[m], o), Has(Append(ch, message)[n], o)
        PROVE  m = n
    <3>1. CASE m \in 1 .. Len(ch) /\ n \in 1 .. Len(ch)
      BY <1>1, <1>5, <2>3, <3>1 DEF SentOnce
    <3>2. CASE m = Len(ch) + 1 \/ n = Len(ch) + 1
      BY <1>1, <1>2, <2>2, <2>3, <3>2
    <3> QED
      BY <1>2, <3>1, <3>2
  <2> QED
    BY <1>1, <2>1, <2>3 DEF SentOnce
<1> QED
  BY <1>4, <1>5

LEMMA TailSent ==
  ASSUME NEW ch \in Seq(Seq(Output)), ch # <<>>
  PROVE  /\ \A o : Sent(ch, o) <=> Has(Head(ch), o) \/ Sent(Tail(ch), o)
         /\ SentOnce(ch) => /\ SentOnce(Tail(ch)) /\ Once(Head(ch))
                            /\ \A o \in Output : ~(Has(Head(ch), o) /\ Sent(Tail(ch), o))
<1>1. /\ Len(ch) \in Nat \ {0} /\ Head(ch) = ch[1] /\ Len(Tail(ch)) = Len(ch) - 1
      /\ \A i \in 1 .. Len(Tail(ch)) : Tail(ch)[i] = ch[i + 1]
  BY EmptySeq, HeadTailProperties
<1>2. \A i \in 1 .. Len(Tail(ch)) : i + 1 \in 1 .. Len(ch) /\ i + 1 # 1 /\ Tail(ch)[i] = ch[i + 1]
  BY <1>1
<1>3. \A i \in 1 .. Len(ch) : i = 1 \/ (i - 1 \in 1 .. Len(Tail(ch)) /\ Tail(ch)[i - 1] = ch[i])
  BY <1>1
<1>4. 1 \in 1 .. Len(ch)
  BY <1>1
<1>5. ASSUME NEW o PROVE Sent(ch, o) <=> Has(Head(ch), o) \/ Sent(Tail(ch), o)
  <2>1. Sent(ch, o) => Has(Head(ch), o) \/ Sent(Tail(ch), o)
    BY <1>1, <1>3 DEF Sent
  <2>2. Has(Head(ch), o) \/ Sent(Tail(ch), o) => Sent(ch, o)
    BY <1>1, <1>2, <1>4 DEF Sent
  <2> QED
    BY <2>1, <2>2
<1>6. ASSUME SentOnce(ch)
      PROVE  /\ SentOnce(Tail(ch)) /\ Once(Head(ch))
             /\ \A o \in Output : ~(Has(Head(ch), o) /\ Sent(Tail(ch), o))
  <2>1. \A m \in 1 .. Len(Tail(ch)) : Once(Tail(ch)[m])
    BY <1>2, <1>6 DEF SentOnce
  <2>2. ASSUME NEW m \in 1 .. Len(Tail(ch)), NEW n \in 1 .. Len(Tail(ch)), NEW o \in Output,
               Has(Tail(ch)[m], o), Has(Tail(ch)[n], o)
        PROVE  m = n
    <3>1. m + 1 = n + 1
      BY <1>2, <1>6, <2>2 DEF SentOnce
    <3> QED
      BY <3>1
  <2>3. Once(Head(ch))
    BY <1>1, <1>4, <1>6 DEF SentOnce
  <2>4. ASSUME NEW o \in Output, Has(Head(ch), o), Sent(Tail(ch), o) PROVE FALSE
    <3>1. PICK i \in 1 .. Len(Tail(ch)) : Has(Tail(ch)[i], o)
      BY <2>4 DEF Sent
    <3>2. Has(ch[i + 1], o) /\ Has(ch[1], o)
      BY <1>1, <1>2, <2>4, <3>1
    <3> QED
      BY <1>2, <1>4, <1>6, <3>2 DEF SentOnce
  <2> QED
    BY <2>1, <2>2, <2>3, <2>4 DEF SentOnce
<1> QED
  BY <1>5, <1>6

-----------------------------------------------------------------------------
(* What a directory yields.                                                *)

LEMMA OutputTypes ==
  ASSUME NEW i \in Item
  PROVE  Error(i) \in Output /\ SpawnError \in Output
<1>1. <<"error", i, 0>> \in Output
  BY DEF Output
<1>2. <<"spawn_worker", Root, 0>> \in Output
  BY ItemAssumption DEF Output
<1> QED
  BY <1>1, <1>2 DEF Error, SpawnError

LEMMA EntriesHave ==
  ASSUME world \in Worlds, NEW i \in Item
  PROVE  /\ Entries(i) \in Seq(Output) /\ Once(Entries(i))
         /\ \A o : Has(Entries(i), o) => o \in Output
         /\ \A o, j : Has(Entries(i), o) => o # Error(j) /\ o # SpawnError
         /\ \A j \in Item : \A o : Has(Entries(i), o) /\ Has(Entries(j), o) => i = j
<1>0. /\ \A j \in Item : world.size[j] \in 0 .. 2
      /\ \A j \in Item : world.size[j] \in Nat
  BY WorldAssumption DEF World
<1>1. \A j \in Item : \A k \in 1 .. world.size[j] : <<"entry", j, k>> \in Output
  <2> TAKE j \in Item
  <2> TAKE k \in 1 .. world.size[j]
  <2>1. k \in 0 .. 2
    BY <1>0
  <2> QED
    BY <2>1 DEF Output
<1>2. \A j \in Item : Entries(j) \in [1 .. world.size[j] -> Output]
  BY <1>1 DEF Entries
<1>3. \A j \in Item : Entries(j) \in Seq(Output) /\ Len(Entries(j)) = world.size[j]
  BY <1>0, <1>2
<1>4. \A j \in Item : \A o : Has(Entries(j), o) => \E k \in 1 .. world.size[j] : o = <<"entry", j, k>>
  BY <1>3 DEF Has, Entries
<1>5. Once(Entries(i))
  BY <1>3 DEF Once, Entries
<1>6. \A o : Has(Entries(i), o) => o \in Output
  BY <1>1, <1>4
<1>7. \A o, j : Has(Entries(i), o) => o # Error(j) /\ o # SpawnError
  BY <1>4 DEF Error, SpawnError
<1>8. \A j \in Item : \A o : Has(Entries(i), o) /\ Has(Entries(j), o) => i = j
  BY <1>4
<1> QED
  BY <1>3, <1>5, <1>6, <1>7, <1>8

\* Errors of different directories differ, and none is the refused driver.
LEMMA ErrorsDiffer ==
  ASSUME NEW i, NEW j
  PROVE  Error(i) # SpawnError /\ (Error(i) = Error(j) => i = j)
  BY DEF Error, SpawnError

-----------------------------------------------------------------------------
(* Types.                                                                  *)

LEMMA TypesInit == Init => TypeOK
<1>1. Init => /\ Len(<<>>) <= Capacity /\ <<>> \in Seq(Output) /\ <<>> \in Seq(Seq(Output))
  BY ThreadAssumption, EmptySeq
<1> QED
  BY <1>1, ItemAssumption DEF Init, TypeOK

LEMMA ConsumerTypes == TypeOK /\ HandsInv /\ ConsumerCall => TypeOK'
<1> SUFFICES ASSUME TypeOK, HandsInv, ConsumerCall PROVE TypeOK'
  OBVIOUS
<1> USE DEF control, threads, failure
<1>1. CASE StartCancelled \/ SerialEnds \/ StepOver
  BY <1>1 DEF StartCancelled, SerialEnds, StepOver, End, Return, TypeOK
<1>2. CASE StartThreaded
  BY <1>2, ThreadAssumption DEF StartThreaded, Goto, TypeOK
<1>3. CASE StartRefused
  <2>1. Append(yielded, SpawnError) \in Seq(Output)
    BY ItemAssumption, OutputTypes, AppendProperties DEF TypeOK
  <2> QED
    BY <1>3, <2>1 DEF StartRefused, Yield, Return, TypeOK
<1>4. CASE SerialReads
  <2>1. PICK i \in left :
          /\ batch' = Entries(i) \o (IF Kept(i) THEN <<Error(i)>> ELSE <<>>)
          /\ left' = left \ {i}
    BY <1>4 DEF SerialReads
  <2>2. i \in Item /\ Entries(i) \in Seq(Output) /\ Error(i) \in Output
    BY EntriesHave, OutputTypes DEF TypeOK
  <2>3. batch' \in Seq(Output)
    BY <2>1, <2>2, ConcatProperties
  <2> QED
    BY <1>4, <2>1, <2>3 DEF SerialReads, TypeOK
<1>5. CASE StepCancelled \/ StepReceive \/ Disconnected \/ Close \/ StopWalk
  BY <1>5 DEF StepCancelled, StepReceive, Disconnected, Close, StopWalk, WalkAlive, TypeOK
<1>6. CASE StepBatch
  <2>1. Append(yielded, Head(batch)) \in Seq(Output) /\ Tail(batch) \in Seq(Output)
    BY <1>6, HeadTailProperties, AppendProperties DEF StepBatch, TypeOK
  <2> QED
    BY <1>6, <2>1 DEF StepBatch, Yield, Return, TypeOK
<1>7. CASE Receive
  <2>1. /\ Head(channel) \in Seq(Output) /\ Tail(channel) \in Seq(Seq(Output))
        /\ Len(Tail(channel)) <= Capacity /\ Head(channel) # <<>>
    BY <1>7, EmptySeq, HeadTailProperties, ThreadAssumption DEF Receive, TypeOK, HandsInv
  <2>2. Head(Head(channel)) \in Output /\ Tail(Head(channel)) \in Seq(Output)
    BY <2>1, HeadTailProperties
  <2>3. Append(yielded, Head(Head(channel))) \in Seq(Output)
    BY <2>2, AppendProperties DEF TypeOK
  <2> QED
    BY <1>7, <2>1, <2>2, <2>3 DEF Receive, Yield, Return, TypeOK
<1>8. CASE LetGo
  <2>1. <<>> \in Seq(Output) /\ <<>> \in Seq(Seq(Output)) /\ Len(<<>>) <= Capacity
    BY EmptySeq, ThreadAssumption
  <2> QED
    BY <1>8, <2>1 DEF LetGo, ReceiverDropped, TypeOK
<1>9. CASE Join
  <2>1. \A i \in abort : Append(yielded, Error(i)) \in Seq(Output)
    BY OutputTypes, AppendProperties, WorldAssumption DEF TypeOK, World
  <2> QED
    BY <1>9, <2>1 DEF Join, Yield, End, TypeOK
<1> QED
  BY <1>1, <1>2, <1>3, <1>4, <1>5, <1>6, <1>7, <1>8, <1>9 DEF ConsumerCall

LEMMA SendTypes ==
  ASSUME TypeOK, NEW w \in Worker, NEW message \in Seq(Output), Send(w, message)
  PROVE  /\ channel' \in Seq(Seq(Output)) /\ Len(channel') <= Capacity
         /\ stopped' \in BOOLEAN /\ panic' \in BOOLEAN /\ abort' = abort
<1>1. CASE receiver
  <2>1. /\ channel' = Append(channel, message) /\ Len(channel) < Capacity
        /\ Len(channel) \in Nat
    BY <1>1, LenProperties DEF Send, HasRoom, TypeOK
  <2> QED
    BY <1>1, <2>1, AppendProperties, ThreadAssumption DEF Send, failure, TypeOK
<1>2. CASE ~receiver
  BY <1>2 DEF Send, TypeOK
<1> QED
  BY <1>1, <1>2

LEMMA WalkTypes ==
  ASSUME TypeOK, HandsInv, NEW w \in Worker, WalkStep(w) \/ StartHelper(w)
  PROVE  TypeOK'
<1> USE DEF control, stream, Goto
<1>1. CASE Take(w)
  BY <1>1 DEF Take, failure, TypeOK
<1>2. CASE Read(w) \/ ReadPanics(w)
  BY <1>2 DEF Read, ReadPanics, failure, TypeOK
<1>3. CASE Flush(w) \/ StartHelper(w)
  BY <1>3 DEF Flush, StartHelper, threads, failure, TypeOK
<1>4. CASE Report(w)
  <2>1. <<Error(item[w])>> \in Seq(Output)
    BY OutputTypes DEF TypeOK
  <2> QED
    BY <1>4, <2>1, SendTypes DEF Report, TypeOK
<1>5. CASE SendEntries(w)
  <2>1. Entries(item[w]) \in Seq(Output)
    BY EntriesHave DEF TypeOK
  <2> QED
    BY <1>5, <2>1, SendTypes DEF SendEntries, TypeOK
<1>6. CASE RecordPanic(w) \/ Leave(w)
  BY <1>6 DEF RecordPanic, PanicRecorded, Leave, Exit, failure, TypeOK
<1> QED
  BY <1>1, <1>2, <1>3, <1>4, <1>5, <1>6 DEF WalkStep

LEMMA OtherTypes ==
  ASSUME TypeOK, CallNext \/ DropStream \/ DriverStep \/ Cancel \/ Gone \/ UNCHANGED vars
  PROVE  TypeOK'
<1> USE DEF control, threads, failure
<1>1. CASE CallNext \/ DropStream \/ Cancel
  BY <1>1 DEF CallNext, DropStream, Cancel, stream, TypeOK
<1>2. CASE DriverStep
  <2>1. CASE Build
    BY <2>1, ThreadAssumption DEF Build, Goto, stream, TypeOK
  <2>2. CASE Attach
    BY <2>2, ThreadAssumption DEF Attach, AlreadyClosed, Goto, stream, TypeOK
  <2>3. CASE CarryOut
    BY <2>3, ThreadAssumption DEF CarryOut, Goto, stream, TypeOK
  <2>4. CASE JoinHelpers
    BY <2>4, ThreadAssumption DEF JoinHelpers, Goto, stream, TypeOK
  <2>5. CASE EndDriver
    BY <2>5, ThreadAssumption DEF EndDriver, Goto, stream, TypeOK
  <2> QED
    BY <1>2, <2>1, <2>2, <2>3, <2>4, <2>5 DEF DriverStep
<1>3. CASE Gone \/ UNCHANGED vars
  BY <1>3 DEF Gone, vars, stream, TypeOK
<1> QED
  BY <1>1, <1>2, <1>3

LEMMA TypesStep == TypeOK /\ HandsInv /\ [Next]_vars => TypeOK'
  BY ConsumerTypes, WalkTypes, OtherTypes DEF Next

-----------------------------------------------------------------------------
(* Threads.                                                                *)

LEMMA ThreadInit == Init => ThreadInv /\ CloseInv
  BY ThreadAssumption DEF Init, ThreadInv, CloseInv, LettingGo, NoThread, Walking

LEMMA ConsumerThreads == TypeOK /\ ThreadInv /\ ConsumerCall => ThreadInv'
<1> SUFFICES ASSUME TypeOK, ThreadInv, ConsumerCall PROVE ThreadInv'
  OBVIOUS
<1>1. CASE StartThreaded
  <2>1. pc'[Driver] = "build" /\ state' = "threaded" /\ receiver' /\ consumer' = "next"
        /\ ~joined' /\ outcome' = "none"
    BY <1>1, ThreadAssumption DEF StartThreaded, Goto, ThreadInv, TypeOK
  <2> QED
    BY <2>1 DEF ThreadInv, LettingGo
<1>2. CASE ~StartThreaded
  <2>1. pc' = pc
    BY <1>2 DEF ConsumerCall, StartCancelled, StartRefused, SerialEnds, SerialReads, StepCancelled,
                StepBatch, StepOver, StepReceive, Receive, Disconnected, Close, StopWalk, LetGo, Join, threads
  <2>2. (NoThread' <=> NoThread) /\ (HelpersJoined' <=> HelpersJoined)
    BY <2>1 DEF NoThread, HelpersJoined
  <2>3. pc[Driver] = "ended" => NoThread
    BY DEF ThreadInv, HelpersJoined, NoThread
  <2> USE <2>1, <2>2, <2>3 DEF ThreadInv, LettingGo
  <2>4. CASE StartCancelled \/ StartRefused \/ SerialEnds \/ SerialReads
    BY <2>4 DEF StartCancelled, StartRefused, SerialEnds, SerialReads, End, Return
  <2>5. CASE StepCancelled \/ StepBatch \/ StepReceive \/ Receive \/ Disconnected
    BY <2>5 DEF StepCancelled, StepBatch, StepReceive, Receive, Disconnected, Return
  <2>6. CASE StepOver
    BY <2>6 DEF StepOver, End, Return
  <2>7. CASE Close \/ StopWalk \/ LetGo
    BY <2>7 DEF Close, StopWalk, LetGo, ReceiverDropped
  <2>8. CASE Join
    BY <2>8 DEF Join, End, Yield
  <2> QED
    BY <1>2, <2>4, <2>5, <2>6, <2>7, <2>8 DEF ConsumerCall
<1> QED
  BY <1>1, <1>2

\* A step of a worker finds the stream threaded and its driver not finished.
LEMMA WorkerAlive ==
  ASSUME TypeOK, ThreadInv, NEW w \in Worker, WalkStep(w) \/ StartHelper(w)
  PROVE  /\ state = "threaded" /\ pc[Driver] \notin {"unborn", "finish", "ended"} /\ ~joined
         /\ pc'[Driver] \notin {"unborn", "finish", "ended"}
         /\ UNCHANGED <<world, stream, closed, attached, token>>
<1>1. \E v \in Worker : pc[v] \notin {"unborn", "ended", "finish", "join"}
  BY DEF WalkStep, Take, Read, ReadPanics, Report, Flush, SendEntries, RecordPanic, Leave, StartHelper
<1>2. state = "threaded" /\ pc[Driver] \notin {"unborn", "finish", "ended"} /\ ~joined
  BY <1>1 DEF ThreadInv, NoThread, HelpersJoined
<1>3. pc'[Driver] \notin {"unborn", "finish", "ended"}
  BY <1>2, ThreadAssumption
     DEF WalkStep, Take, Read, ReadPanics, Report, Flush, SendEntries, RecordPanic, Leave, StartHelper,
         Goto, Exit, TypeOK
<1>4. UNCHANGED <<world, stream, closed, attached, token>>
  BY DEF WalkStep, Take, Read, ReadPanics, Report, Flush, SendEntries, RecordPanic, Leave, StartHelper,
         control
<1> QED
  BY <1>2, <1>3, <1>4

LEMMA OtherThreads ==
  ASSUME TypeOK, ThreadInv, CallNext \/ DropStream \/ DriverStep \/ Cancel \/ Gone \/ UNCHANGED vars
  PROVE  ThreadInv'
<1>1. CASE DriverStep
  <2>1. /\ state = "threaded" /\ ~joined /\ UNCHANGED stream
        /\ pc'[Driver] # "unborn"
        /\ pc'[Driver] \in {"finish", "ended"} => HelpersJoined /\ \A h \in Worker \ {Driver} : pc'[h] = pc[h]
    BY <1>1, ThreadAssumption
       DEF DriverStep, Build, Attach, CarryOut, JoinHelpers, EndDriver, Goto, ThreadInv, NoThread, TypeOK
  <2> QED
    BY <2>1 DEF ThreadInv, LettingGo, HelpersJoined, stream
<1>2. CASE CallNext \/ DropStream \/ Cancel \/ Gone \/ UNCHANGED vars
  <2>1. pc' = pc
    BY <1>2 DEF CallNext, DropStream, Cancel, Gone, vars, threads
  <2>2. (NoThread' <=> NoThread) /\ (HelpersJoined' <=> HelpersJoined)
    BY <2>1 DEF NoThread, HelpersJoined
  <2> USE <2>1, <2>2 DEF ThreadInv, LettingGo
  <2>3. CASE CallNext \/ DropStream
    BY <2>3 DEF CallNext, DropStream, TypeOK
  <2>4. CASE Cancel \/ Gone \/ UNCHANGED vars
    BY <2>4 DEF Cancel, Gone, vars, stream
  <2> QED
    BY <1>2, <2>3, <2>4
<1> QED
  BY <1>1, <1>2

LEMMA ThreadStep == TypeOK /\ ThreadInv /\ [Next]_vars => ThreadInv'
<1> SUFFICES ASSUME TypeOK, ThreadInv, [Next]_vars PROVE ThreadInv'
  OBVIOUS
<1>1. ASSUME NEW w \in Worker, WalkStep(w) \/ StartHelper(w) PROVE ThreadInv'
  BY <1>1, WorkerAlive DEF ThreadInv, LettingGo, stream
<1> QED
  BY <1>1, ConsumerThreads, OtherThreads DEF Next

\* A stop is never taken back.
LEMMA WalkStops ==
  ASSUME TypeOK, NEW w \in Worker, WalkStep(w) \/ StartHelper(w)
  PROVE  /\ stopped => stopped'
         /\ pc'[Driver] \in Walking =>
             pc[Driver] \in Walking \/ (pc[Driver] = "unborn" /\ StartHelper(Driver))
         /\ pc'[Driver] = "carryout" => pc[Driver] = "carryout"
<1> USE DEF WalkStep, Take, Read, ReadPanics, Report, Flush, SendEntries, RecordPanic, Leave, StartHelper
<1>1. stopped => stopped'
  BY DEF Send, PanicRecorded, failure
<1>2. pc'[Driver] \in Walking =>
        pc[Driver] \in Walking \/ (pc[Driver] = "unborn" /\ StartHelper(Driver))
  BY ThreadAssumption DEF Goto, Exit, Walking, TypeOK
<1>3. pc'[Driver] = "carryout" => pc[Driver] = "carryout"
  BY ThreadAssumption DEF Goto, Exit, TypeOK
<1> QED
  BY <1>1, <1>2, <1>3

LEMMA CloseStep == TypeOK /\ ThreadInv /\ CloseInv /\ [Next]_vars => CloseInv'
<1> SUFFICES ASSUME TypeOK, ThreadInv, CloseInv, [Next]_vars PROVE CloseInv'
  OBVIOUS
<1>1. ASSUME NEW w \in Worker, WalkStep(w) \/ StartHelper(w) PROVE CloseInv'
  <2>1. pc'[Driver] \in Walking => pc[Driver] \in Walking
    BY <1>1, WorkerAlive, WalkStops
  <2> QED
    BY <1>1, <2>1, WorkerAlive, WalkStops DEF CloseInv, stream
<1>2. CASE DriverStep
  <2>1. CASE Attach
    BY <2>1, ThreadAssumption DEF Attach, AlreadyClosed, Goto, CloseInv, Walking, TypeOK, stream, failure
  <2>2. CASE Build \/ CarryOut \/ JoinHelpers \/ EndDriver
    <3>1. /\ pc'[Driver] \in Walking => pc[Driver] \in Walking \/ stopped'
          /\ pc'[Driver] # "carryout" /\ (stopped => stopped')
          /\ UNCHANGED <<attached, closed, consumer>>
      BY <2>2, ThreadAssumption
         DEF Build, CarryOut, JoinHelpers, EndDriver, Goto, Walking, TypeOK, stream, control, failure
    <3> QED
      BY <3>1 DEF CloseInv
  <2> QED
    BY <1>2, <2>1, <2>2 DEF DriverStep
<1>3. CASE Close
  BY <1>3 DEF Close, CloseInv, threads, failure
<1>4. CASE StopWalk
  BY <1>4 DEF StopWalk, WalkAlive, CloseInv, Walking, threads, control
<1>5. CASE StartThreaded
  BY <1>5, ThreadAssumption DEF StartThreaded, Goto, CloseInv, Walking, TypeOK, control
<1>6. CASE /\ UNCHANGED <<attached, closed, stopped, pc>> 
           /\ consumer # "stop" /\ consumer' # "stop"
  BY <1>6 DEF CloseInv
<1>7. CASE UNCHANGED vars
  BY <1>7 DEF vars, stream, control, threads, failure, CloseInv
<1>8. CASE CallNext \/ DropStream \/ StartCancelled \/ StartRefused \/ SerialEnds \/ SerialReads
  BY <1>6, <1>8 DEF CallNext, DropStream, StartCancelled, StartRefused, SerialEnds, SerialReads, Return,
                    control, threads, failure
<1>9. CASE StepCancelled \/ StepBatch \/ StepOver \/ StepReceive \/ Receive \/ Disconnected \/ LetGo \/ Join
  BY <1>6, <1>9 DEF StepCancelled, StepBatch, StepOver, StepReceive, Receive, Disconnected, LetGo, Join,
                    Return, control, threads, failure
<1>10. CASE Cancel \/ Gone
  BY <1>7, <1>10 DEF Cancel, Gone, stream, control, threads, failure, CloseInv
<1> QED
  BY <1>1, <1>2, <1>3, <1>4, <1>5, <1>7, <1>8, <1>9, <1>10 DEF Next, ConsumerCall

-----------------------------------------------------------------------------
(* The consumer lets go.                                                   *)

LEMMA LetGoInit == Init => LetGoInv /\ StopInv
  BY DEF Init, LetGoInv, StopInv, LettingGo, Quit

LEMMA LetGoStep == TypeOK /\ ThreadInv /\ LetGoInv /\ StopInv /\ [Next]_vars => LetGoInv'
<1> SUFFICES ASSUME TypeOK, ThreadInv, LetGoInv, StopInv, [Next]_vars PROVE LetGoInv'
  OBVIOUS
<1> USE DEF LetGoInv, LettingGo, Quit
<1>0. UNCHANGED <<world, yielded>> => (AbortSeen' <=> AbortSeen)
  BY DEF AbortSeen, AbortErrors, Error, SpawnError
<1>1. ASSUME NEW w \in Worker, WalkStep(w) \/ StartHelper(w) PROVE LetGoInv'
  <2>1. channel' = channel \/ receiver
    BY <1>1 DEF WalkStep, Take, Read, ReadPanics, Report, Flush, SendEntries, RecordPanic, Leave,
                StartHelper, Send
  <2> QED
    BY <1>0, <1>1, <2>1, WorkerAlive DEF stream
<1>2. CASE DriverStep
  <2>1. /\ state = "threaded" /\ pc[Driver] # "ended" /\ ~joined
        /\ UNCHANGED <<world, stream, channel, closed>>
    BY <1>2, ThreadAssumption
       DEF DriverStep, Build, Attach, CarryOut, JoinHelpers, EndDriver, ThreadInv, NoThread, control
  <2> QED
    BY <1>0, <2>1 DEF stream
<1>3. CASE CallNext
  BY <1>0, <1>3 DEF CallNext, control, threads, failure, TypeOK
<1>4. CASE DropStream
  BY <1>0, <1>4 DEF DropStream, control, threads, failure, ThreadInv
<1>5. CASE StartCancelled \/ SerialEnds
  BY <1>0, <1>5 DEF StartCancelled, SerialEnds, End, Return, control, threads, failure, ThreadInv
<1>6. CASE StartThreaded
  BY <1>0, <1>6 DEF StartThreaded, control, failure, ThreadInv
<1>7. CASE StartRefused
  BY <1>0, <1>7 DEF StartRefused, Return, control, threads, failure, ThreadInv
<1>8. CASE SerialReads
  BY <1>0, <1>8 DEF SerialReads, control, failure, ThreadInv
<1>9. CASE StepCancelled \/ StepReceive
  BY <1>0, <1>9 DEF StepCancelled, StepReceive, control, threads, failure
<1>10. CASE StepBatch
  <2>1. ~joined
    BY <1>10 DEF StepBatch
  <2> QED
    BY <1>10, <2>1 DEF StepBatch, Return, control, threads, failure
<1>11. CASE StepOver
  BY <1>0, <1>11 DEF StepOver, End, Return, control, threads, failure
<1>12. CASE Receive
  BY <1>0, <1>12 DEF Receive, Return, control, threads, failure
<1>13. CASE Disconnected
  BY <1>0, <1>13 DEF Disconnected, control, threads, failure, ThreadInv
<1>14. CASE Close \/ StopWalk
  BY <1>0, <1>14 DEF Close, StopWalk, control, threads, failure, ThreadInv
<1>15. CASE LetGo
  BY <1>0, <1>15 DEF LetGo, ReceiverDropped, control, threads, failure, ThreadInv
<1>16. CASE Join
  <2>1. ASSUME NEW i \in abort, Yield(Error(i)) PROVE AbortSeen'
    <3>1. Error(i) \in AbortErrors' /\ Error(i) \in Output
      BY <1>16, OutputTypes, WorldAssumption DEF Join, StopInv, TypeOK, World, AbortErrors, Error
    <3>2. Len(yielded') \in 1 .. Len(yielded') /\ yielded'[Len(yielded')] = Error(i)
      BY <2>1, <3>1, AppendProperties, LenProperties DEF Yield, TypeOK
    <3> QED
      BY <3>1, <3>2 DEF AbortSeen
  <2>2. state = "threaded" /\ consumer = "join" /\ joined'
    BY <1>16 DEF Join, ThreadInv
  <2>3. CASE outcome' = "panic" /\ UNCHANGED <<state, yielded>>
    BY <1>16, <2>2, <2>3 DEF Join, control, threads, failure
  <2>4. CASE ~(panic /\ ~joined)
    BY <1>16, <2>1, <2>2, <2>4 DEF Join, End, control, threads, failure
  <2> QED
    BY <1>16, <2>3, <2>4 DEF Join
<1>17. CASE Cancel \/ Gone \/ UNCHANGED vars
  BY <1>0, <1>17 DEF Cancel, Gone, vars, stream, control, threads, failure
<1> QED
  BY <1>1, <1>2, <1>3, <1>4, <1>5, <1>6, <1>7, <1>8, <1>9, <1>10, <1>11, <1>12, <1>13, <1>14, <1>15,
     <1>16, <1>17 DEF Next, ConsumerCall

LEMMA StopStep ==
  TypeOK /\ ThreadInv /\ CloseInv /\ LetGoInv /\ StopInv /\ [Next]_vars => StopInv'
<1> SUFFICES ASSUME TypeOK, ThreadInv, CloseInv, LetGoInv, StopInv, [Next]_vars PROVE StopInv'
  OBVIOUS
<1> USE DEF StopInv, Quit
<1>1. ASSUME NEW w \in Worker, WalkStep(w) \/ StartHelper(w) PROVE StopInv'
  <2>1. state = "threaded" /\ pc[Driver] # "ended" /\ UNCHANGED <<world, purpose>>
    BY <1>1, WorkerAlive DEF stream
  <2>2. ~receiver => Quit
    BY <2>1 DEF LetGoInv
  <2>3. CASE Report(w) \/ SendEntries(w)
    BY <2>1, <2>2, <2>3 DEF Report, SendEntries, Send, failure
  <2>4. CASE Read(w)
    BY <2>1, <2>4 DEF Read
  <2>5. CASE RecordPanic(w)
    BY <2>1, <2>5 DEF RecordPanic, PanicRecorded
  <2>6. CASE Take(w) \/ ReadPanics(w) \/ Flush(w) \/ Leave(w) \/ StartHelper(w)
    BY <2>1, <2>6 DEF Take, ReadPanics, Flush, Leave, StartHelper, failure
  <2> QED
    BY <1>1, <2>3, <2>4, <2>5, <2>6 DEF WalkStep
<1>2. CASE CarryOut
  BY <1>2 DEF CarryOut, CloseInv, LetGoInv, stream
<1>3. CASE Build \/ Attach \/ JoinHelpers \/ EndDriver
  BY <1>3 DEF Build, Attach, JoinHelpers, EndDriver, stream, failure
<1>4. CASE StopWalk
  BY <1>4 DEF StopWalk, WalkAlive, LetGoInv, LettingGo
<1>5. CASE UNCHANGED <<world, purpose, failure>>
  BY <1>5 DEF failure
<1>6. CASE CallNext \/ DropStream \/ Cancel \/ Gone \/ UNCHANGED vars
  BY <1>6 DEF CallNext, DropStream, Cancel, Gone, vars, stream, failure
<1>7. CASE StartCancelled \/ StartThreaded \/ StartRefused \/ SerialEnds \/ SerialReads \/ StepBatch
  BY <1>5, <1>7 DEF StartCancelled, StartThreaded, StartRefused, SerialEnds, SerialReads, StepBatch
<1>8. CASE StepOver \/ StepReceive \/ Receive \/ Close \/ LetGo \/ Join
  BY <1>5, <1>8 DEF StepOver, StepReceive, Receive, Close, LetGo, Join
<1>9. CASE StepCancelled \/ Disconnected
  BY <1>9 DEF StepCancelled, Disconnected, LetGoInv, failure
<1> QED
  BY <1>1, <1>2, <1>3, <1>4, <1>6, <1>7, <1>8, <1>9 DEF Next, ConsumerCall, DriverStep

-----------------------------------------------------------------------------
(* Outputs on their way.                                                   *)

LEMMA WorldKept ==
  ASSUME world' = world
  PROVE  /\ \A i : Entries(i)' = Entries(i)
         /\ \A i : Kept(i)' <=> Kept(i)
         /\ \A o : Wanted(o)' <=> Wanted(o)
         /\ AbortErrors' = AbortErrors
<1>1. \A i : Entries(i)' = Entries(i)
  BY DEF Entries
<1>2. \A i : Kept(i)' <=> Kept(i)
  BY DEF Kept
<1>3. \A o : Wanted(o)' <=> Wanted(o)
  BY <1>1, <1>2 DEF Wanted, Error
<1>4. AbortErrors' = AbortErrors
  BY DEF AbortErrors, Error, SpawnError
<1> QED
  BY <1>1, <1>2, <1>3, <1>4

\* The policy that aborts keeps no error.
LEMMA WantedContinues ==
  ASSUME world \in Worlds, NEW o, Wanted(o)
  PROVE  o \notin AbortErrors /\ o # SpawnError /\ o \in Output
<1>1. PICK i \in Item : Has(Entries(i), o) \/ (o = Error(i) /\ Kept(i))
  BY DEF Wanted
<1>2. o # SpawnError /\ o \in Output
  BY <1>1, EntriesHave, ErrorsDiffer, OutputTypes
<1>3. Kept(i) => world.policy # "abort"
  BY DEF Kept
<1>4. o \in AbortErrors => \E j : o = Error(j) /\ world.policy = "abort"
  BY <1>2 DEF AbortErrors
<1>5. o \notin AbortErrors
  BY <1>1, <1>3, <1>4, EntriesHave, ErrorsDiffer
<1> QED
  BY <1>2, <1>5

LEMMA DueHas ==
  ASSUME world \in Worlds, NEW i \in Item
  PROVE  /\ \A o : Has(Entries(i), o) => (Due(o) <=> EntriesDue(i))
         /\ Due(Error(i)) <=> ErrorDue(i)
         /\ ~Due(SpawnError)
<1>1. \A j \in Item : \A o : Has(Entries(i), o) /\ Has(Entries(j), o) => i = j
  BY EntriesHave
<1>2. \A j \in Item : \A o, k : Has(Entries(j), o) => o # Error(k) /\ o # SpawnError
  BY EntriesHave
<1>3. \A j : Error(i) = Error(j) => i = j
  BY ErrorsDiffer
<1>4. \A j : Error(j) # SpawnError
  BY ErrorsDiffer
<1> QED
  BY <1>1, <1>2, <1>3, <1>4 DEF Due

\* Hands that move: what a worker's step does to the directories in hand.
Holding == {"read", "report", "flush", "send", "unwind"}

LEMMA HandMoves ==
  ASSUME TypeOK, HandsInv, NEW w \in Worker, NEW label, Goto(w, label), UNCHANGED item,
         NEW labels \in SUBSET Holding
  PROVE  /\ \A i : i # item[w] => (InHand(i, labels)' <=> InHand(i, labels))
         /\ Holds(w) => /\ InHand(item[w], labels) <=> pc[w] \in labels
                        /\ InHand(item[w], labels)' <=> label \in labels
         /\ ~Holds(w) /\ label \notin Holding => \A i : InHand(i, labels)' <=> InHand(i, labels)
<1>1. pc'[w] = label /\ \A v \in Worker \ {w} : pc'[v] = pc[v]
  BY DEF Goto, TypeOK
<1>2. \A v \in Worker : pc[v] \in labels => Holds(v)
  BY DEF Holds, Busy, Holding
<1>3. \A i : i # item[w] => (InHand(i, labels)' <=> InHand(i, labels))
  BY <1>1 DEF InHand
<1>4. ASSUME Holds(w)
      PROVE  /\ InHand(item[w], labels) <=> pc[w] \in labels
             /\ InHand(item[w], labels)' <=> label \in labels
  <2>1. \A v \in Worker : pc[v] \in labels /\ item[v] = item[w] => v = w
    BY <1>2, <1>4 DEF HandsInv
  <2>2. InHand(item[w], labels) <=> pc[w] \in labels
    BY <2>1 DEF InHand
  <2>3. InHand(item[w], labels)' <=> label \in labels
    BY <1>1, <2>1 DEF InHand
  <2> QED
    BY <2>2, <2>3
<1>5. ASSUME ~Holds(w), label \notin Holding, NEW i PROVE InHand(i, labels)' <=> InHand(i, labels)
  <2>1. pc[w] \notin labels /\ label \notin labels
    BY <1>2, <1>5
  <2> QED
    BY <1>1, <2>1 DEF InHand
<1> QED
  BY <1>3, <1>4, <1>5

\* A step leaves what is due from directory i as it was.
SameDue(i) ==
  /\ EntriesDue(i)' <=> EntriesDue(i)
  /\ ErrorDue(i)' <=> ErrorDue(i)
  /\ Unread(i)' <=> Unread(i)

\* What is due follows the hands: only the worker's own directory can change.
LEMMA DueMoved ==
  ASSUME TypeOK, HandsInv, NEW w \in Worker, NEW label, Goto(w, label), UNCHANGED <<item, left>>
  PROVE  /\ \A i \in Item : i # item[w] => SameDue(i)
         /\ Holds(w) =>
              /\ EntriesDue(item[w]) /\ (EntriesDue(item[w])' <=> label \in Holding)
              /\ ErrorDue(item[w]) <=> pc[w] \in {"read", "report", "unwind"}
              /\ ErrorDue(item[w])' <=> label \in {"read", "report", "unwind"}
              /\ Unread(item[w]) <=> pc[w] \in {"read", "unwind"}
              /\ Unread(item[w])' <=> label \in {"read", "unwind"}
         /\ ~Holds(w) /\ label \notin Holding => \A i \in Item : SameDue(i)
<1>1. /\ Holding \in SUBSET Holding /\ {"read", "report", "unwind"} \in SUBSET Holding
      /\ {"read", "unwind"} \in SUBSET Holding
  BY DEF Holding
<1>2. \A i \in Item : i # item[w] => SameDue(i)
  BY <1>1, HandMoves DEF SameDue, EntriesDue, ErrorDue, Unread, Holding
<1>3. ASSUME Holds(w)
      PROVE  /\ EntriesDue(item[w]) /\ (EntriesDue(item[w])' <=> label \in Holding)
             /\ ErrorDue(item[w]) <=> pc[w] \in {"read", "report", "unwind"}
             /\ ErrorDue(item[w])' <=> label \in {"read", "report", "unwind"}
             /\ Unread(item[w]) <=> pc[w] \in {"read", "unwind"}
             /\ Unread(item[w])' <=> label \in {"read", "unwind"}
  <2>1. item[w] \notin left /\ item[w] \notin left' /\ item'[w] = item[w] /\ pc[w] \in Holding
    BY <1>3 DEF HandsInv, Holds, Busy, Holding
  <2>2. /\ InHand(item[w], Holding) /\ (InHand(item[w], Holding)' <=> label \in Holding)
        /\ InHand(item[w], {"read", "report", "unwind"}) <=> pc[w] \in {"read", "report", "unwind"}
        /\ InHand(item[w], {"read", "report", "unwind"})' <=> label \in {"read", "report", "unwind"}
        /\ InHand(item[w], {"read", "unwind"}) <=> pc[w] \in {"read", "unwind"}
        /\ InHand(item[w], {"read", "unwind"})' <=> label \in {"read", "unwind"}
    BY <1>1, <1>3, <2>1, HandMoves
  <2> QED
    BY <2>1, <2>2 DEF EntriesDue, ErrorDue, Unread, Holding
<1>4. ASSUME ~Holds(w), label \notin Holding, NEW i \in Item PROVE SameDue(i)
  <2>1. /\ InHand(i, Holding)' <=> InHand(i, Holding)
        /\ InHand(i, {"read", "report", "unwind"})' <=> InHand(i, {"read", "report", "unwind"})
        /\ InHand(i, {"read", "unwind"})' <=> InHand(i, {"read", "unwind"})
    BY <1>1, <1>4, HandMoves
  <2> QED
    BY <2>1 DEF SameDue, EntriesDue, ErrorDue, Unread, Holding
<1> QED
  BY <1>2, <1>3, <1>4

LEMMA DueTaken ==
  ASSUME TypeOK, NEW w \in Worker, Take(w)
  PROVE  \A i \in Item : SameDue(i)
<1>1. PICK k \in left : left' = left \ {k} /\ item' = [item EXCEPT ![w] = k]
  BY DEF Take
<1>2. /\ pc[w] = "idle" /\ pc'[w] = "read" /\ item'[w] = k
      /\ \A v \in Worker \ {w} : pc'[v] = pc[v] /\ item'[v] = item[v]
  BY <1>1 DEF Take, Goto, TypeOK
<1>3. ASSUME NEW i, NEW labels, "read" \in labels, "idle" \notin labels
      PROVE  InHand(i, labels)' <=> InHand(i, labels) \/ i = k
  BY <1>2, <1>3 DEF InHand
<1> QED
  BY <1>1, <1>3 DEF SameDue, EntriesDue, ErrorDue, Unread

LEMMA HandsInit == Init => HandsInv
  BY DEF Init, HandsInv, Holds, Busy

\* The messages under way are not empty: what is appended never is.
LEMMA FilledSend ==
  ASSUME TypeOK, HandsInv, NEW w \in Worker, NEW message \in Seq(Output), message # <<>>,
         Send(w, message)
  PROVE  \A m \in 1 .. Len(channel') : channel'[m] # <<>>
<1>1. CASE channel' = channel
  BY <1>1 DEF HandsInv
<1>2. CASE channel' = Append(channel, message)
  <2>1. /\ Len(channel) \in Nat /\ Len(channel') = Len(channel) + 1
        /\ \A m \in 1 .. Len(channel) : channel'[m] = channel[m]
        /\ channel'[Len(channel) + 1] = message
    BY <1>2, AppendProperties, LenProperties DEF TypeOK
  <2>2. \A m \in 1 .. Len(channel') : m \in 1 .. Len(channel) \/ m = Len(channel) + 1
    BY <2>1
  <2> QED
    BY <2>1, <2>2 DEF HandsInv
<1> QED
  BY <1>1, <1>2 DEF Send

LEMMA WalkHands ==
  ASSUME TypeOK, HandsInv, NEW w \in Worker, WalkStep(w) \/ StartHelper(w), world' = world
  PROVE  HandsInv'
<1>0. (\A i : Entries(i)' = Entries(i)) /\ (\A i : Kept(i)' <=> Kept(i))
  BY WorldKept
<1>1. CASE Take(w)
  <2>1. PICK k \in left : left' = left \ {k} /\ item' = [item EXCEPT ![w] = k]
    BY <1>1 DEF Take
  <2>2. /\ pc'[w] = "read" /\ item'[w] = k
        /\ \A v \in Worker \ {w} : pc'[v] = pc[v] /\ item'[v] = item[v]
    BY <1>1, <2>1 DEF Take, Goto, TypeOK
  <2>3. UNCHANGED <<channel, abort>>
    BY <1>1 DEF Take, failure
  <2> QED
    BY <1>0, <2>1, <2>2, <2>3 DEF HandsInv, Holds, Busy
<1>2. CASE ~Take(w)
  <2>1. /\ UNCHANGED <<item, left>> /\ \A v \in Worker \ {w} : pc'[v] = pc[v]
        /\ Holds(w)' => Holds(w)
    BY <1>2 DEF WalkStep, Read, ReadPanics, Report, Flush, SendEntries, RecordPanic, Leave, StartHelper,
                Goto, Exit, threads, TypeOK, Holds, Busy
  <2>2. \A m \in 1 .. Len(channel') : channel'[m] # <<>>
    <3>1. CASE Report(w)
      <4>1. <<Error(item[w])>> \in Seq(Output) /\ <<Error(item[w])>> # <<>>
        BY OutputTypes DEF TypeOK
      <4> QED
        BY <3>1, <4>1, FilledSend DEF Report
    <3>2. CASE SendEntries(w)
      <4>1. Entries(item[w]) \in Seq(Output) /\ Entries(item[w]) # <<>>
        BY <3>2, EntriesHave DEF SendEntries, HandsInv, TypeOK
      <4> QED
        BY <3>2, <4>1, FilledSend DEF SendEntries
    <3>3. CASE channel' = channel
      BY <3>3 DEF HandsInv
    <3> QED
      BY <1>2, <3>1, <3>2, <3>3 DEF WalkStep, Read, ReadPanics, Flush, RecordPanic, Leave, StartHelper
  <2>3. pc'[w] = "send" => Entries(item[w]) # <<>>
    BY <1>2 DEF WalkStep, Read, ReadPanics, Report, Flush, DropsBuffer, SendEntries, RecordPanic, Leave,
                StartHelper, Goto, Exit, TypeOK
  <2>4. pc'[w] = "report" => Kept(item[w])
    BY <1>2 DEF WalkStep, Read, ReadPanics, Report, Flush, SendEntries, RecordPanic, Leave,
                StartHelper, Goto, Exit, TypeOK
  <2>5. abort' \cap left' = {}
    <3>1. abort' = abort \/ (abort' = {item[w]} /\ pc[w] = "read")
      BY <1>2 DEF WalkStep, Read, ReadPanics, Report, Flush, SendEntries, Send, RecordPanic,
                  PanicRecorded, Leave, StartHelper, failure
    <3> QED
      BY <2>1, <3>1 DEF HandsInv, Holds, Busy
  <2>6. \A v \in Worker : Holds(v)' => Holds(v)
    BY <2>1 DEF Holds, Busy
  <2>7. /\ \A v \in Worker : pc'[v] = "send" => Entries(item[v])' # <<>>
        /\ \A v \in Worker : pc'[v] = "report" => Kept(item[v])'
    BY <1>0, <2>1, <2>3, <2>4 DEF HandsInv
  <2> QED
    BY <2>1, <2>2, <2>5, <2>6, <2>7 DEF HandsInv
<1> QED
  BY <1>1, <1>2

\* Nobody changes the tree.
LEMMA WorldConstant == [Next]_vars => world' = world
<1> SUFFICES ASSUME [Next]_vars PROVE world' = world
  OBVIOUS
<1>1. ASSUME NEW w \in Worker, WalkStep(w) \/ StartHelper(w) PROVE world' = world
  BY <1>1 DEF WalkStep, Take, Read, ReadPanics, Report, Flush, SendEntries, RecordPanic, Leave, StartHelper
<1>2. CASE ConsumerCall
  BY <1>2 DEF ConsumerCall, StartCancelled, StartThreaded, StartRefused, SerialEnds, SerialReads,
              StepCancelled, StepBatch, StepOver, StepReceive, Receive, Disconnected, Close, StopWalk,
              LetGo, Join
<1>3. CASE DriverStep
  BY <1>3 DEF DriverStep, Build, Attach, CarryOut, JoinHelpers, EndDriver
<1>4. CASE CallNext \/ DropStream \/ Cancel \/ Gone \/ UNCHANGED vars
  BY <1>4 DEF CallNext, DropStream, Cancel, Gone, vars
<1> QED
  BY <1>1, <1>2, <1>3, <1>4 DEF Next

\* Only the workers put anything into the hands of a worker.
Still ==
  /\ item' = item /\ left' \subseteq left /\ abort' = abort
  /\ \A w \in Worker : pc'[w] # pc[w] => ~Holds(w) /\ pc'[w] \notin Holding

LEMMA HandsStill ==
  ASSUME TypeOK, ThreadInv, [Next]_vars, ~\E w \in Worker : WalkStep(w) \/ StartHelper(w)
  PROVE  Still
<1>1. CASE StartThreaded \/ DriverStep
  <2>1. /\ UNCHANGED <<item, left, abort>> /\ \A w \in Worker \ {Driver} : pc'[w] = pc[w]
        /\ pc[Driver] \notin Holding /\ pc'[Driver] \notin Holding
    BY <1>1, ThreadAssumption
       DEF StartThreaded, DriverStep, Build, Attach, CarryOut, JoinHelpers, EndDriver, Goto, Holding,
           failure, TypeOK, ThreadInv
  <2> QED
    BY <2>1 DEF Still, Holds, Busy, Holding
<1>2. CASE item' = item /\ left' \subseteq left /\ abort' = abort /\ pc' = pc
  BY <1>2 DEF Still
<1>3. CASE StartCancelled \/ StartRefused \/ SerialEnds \/ SerialReads \/ StepCancelled \/ StepBatch
  BY <1>2, <1>3 DEF StartCancelled, StartRefused, SerialEnds, SerialReads, StepCancelled, StepBatch,
                    threads, failure
<1>4. CASE StepOver \/ StepReceive \/ Receive \/ Disconnected \/ Close \/ StopWalk \/ LetGo \/ Join
  BY <1>2, <1>4 DEF StepOver, StepReceive, Receive, Disconnected, Close, StopWalk, LetGo, Join,
                    threads, failure
<1>5. CASE CallNext \/ DropStream \/ Cancel \/ Gone \/ UNCHANGED vars
  BY <1>2, <1>5 DEF CallNext, DropStream, Cancel, Gone, vars, threads, failure
<1> QED
  BY <1>1, <1>3, <1>4, <1>5 DEF Next, ConsumerCall

\* What the consumer and the driver do to the channel.
LEMMA ChannelStill ==
  ASSUME [Next]_vars, ~\E w \in Worker : WalkStep(w) \/ StartHelper(w)
  PROVE  UNCHANGED channel \/ Receive \/ LetGo
<1>1. CASE ConsumerCall
  BY <1>1 DEF ConsumerCall, StartCancelled, StartThreaded, StartRefused, SerialEnds, SerialReads,
              StepCancelled, StepBatch, StepOver, StepReceive, Disconnected, Close, StopWalk, Join
<1>2. CASE ~ConsumerCall
  BY <1>2 DEF Next, DriverStep, Build, Attach, CarryOut, JoinHelpers, EndDriver, CallNext, DropStream,
              Cancel, Gone, vars
<1> QED
  BY <1>1, <1>2

LEMMA HandsStep == TypeOK /\ ThreadInv /\ HandsInv /\ [Next]_vars => HandsInv'
<1> SUFFICES ASSUME TypeOK, ThreadInv, HandsInv, [Next]_vars PROVE HandsInv'
  OBVIOUS
<1>1. ASSUME NEW w \in Worker, WalkStep(w) \/ StartHelper(w) PROVE HandsInv'
  BY <1>1, WalkHands, WorldConstant
<1>2. CASE ~\E w \in Worker : WalkStep(w) \/ StartHelper(w)
  <2>1. Still /\ world' = world
    BY <1>2, HandsStill, WorldConstant
  <2>2. (\A i : Entries(i)' = Entries(i)) /\ (\A i : Kept(i)' <=> Kept(i))
    BY <2>1, WorldKept
  <2>3. /\ \A w \in Worker : Holds(w)' => Holds(w)
        /\ \A w \in Worker : pc'[w] \in {"send", "report"} => pc'[w] = pc[w]
    BY <2>1 DEF Still, Holds, Busy, Holding
  <2>4. \A m \in 1 .. Len(channel') : channel'[m] # <<>>
    <3>1. CASE Receive
      <4>1. /\ channel # <<>> /\ channel' = Tail(channel) /\ Len(channel) \in Nat
            /\ Len(channel') = Len(channel) - 1
            /\ \A m \in 1 .. Len(channel') : channel'[m] = channel[m + 1]
        BY <3>1, HeadTailProperties, LenProperties DEF Receive, TypeOK
      <4>2. \A m \in 1 .. Len(channel') : m + 1 \in 1 .. Len(channel)
        BY <4>1
      <4> QED
        BY <4>1, <4>2 DEF HandsInv
    <3>2. CASE LetGo
      BY <3>2 DEF LetGo, ReceiverDropped
    <3>3. CASE UNCHANGED channel
      BY <3>3 DEF HandsInv
    <3> QED
      BY <1>2, <3>1, <3>2, <3>3, ChannelStill
  <2>5. abort' \cap left' = {}
    BY <2>1 DEF HandsInv, Still
  <2>6. /\ \A w \in Worker : pc'[w] = "send" => Entries(item[w])' # <<>>
        /\ \A w \in Worker : pc'[w] = "report" => Kept(item[w])'
        /\ item' = item /\ left' \subseteq left
    BY <2>1, <2>2, <2>3 DEF HandsInv, Still
  <2> QED
    BY <2>3, <2>4, <2>5, <2>6 DEF HandsInv
<1> QED
  BY <1>1, <1>2

-----------------------------------------------------------------------------
(* An output is in one place, once, and nothing else is under way.         *)

LEMMA UniqueInit == Init => UniqueInv /\ SoundInv
<1> SUFFICES ASSUME Init PROVE UniqueInv /\ SoundInv
  OBVIOUS
<1>1. yielded = <<>> /\ batch = <<>> /\ channel = <<>>
  BY DEF Init
<1>2. Len(yielded) = 0 /\ 1 .. Len(yielded) = {}
  BY <1>1
<1>3. UniqueInv
  BY <1>1, EmptyHas DEF UniqueInv
<1>4. SoundInv
  BY <1>1, <1>2, EmptyHas DEF SoundInv, AbortSeen
<1> QED
  BY <1>3, <1>4

\* Directories share no output, so what is due of one is due from it.
LEMMA DueHasNext ==
  ASSUME world \in Worlds, world' = world, NEW i \in Item
  PROVE  /\ \A o : Has(Entries(i), o) => (Due(o)' <=> EntriesDue(i)')
         /\ Due(Error(i))' <=> ErrorDue(i)'
<1>1. \A j \in Item : \A o : Has(Entries(i), o) /\ Has(Entries(j), o) => i = j
  BY EntriesHave
<1>2. \A j \in Item : \A o, k : Has(Entries(j), o) => o # Error(k)
  BY EntriesHave
<1>3. \A j : Error(i) = Error(j) => i = j
  BY ErrorsDiffer
<1>4. \A o : Due(o)' <=> \E j \in Item : \/ Has(Entries(j), o) /\ EntriesDue(j)'
                                         \/ o = Error(j) /\ ErrorDue(j)'
  BY WorldKept DEF Due, Error
<1>5. Due(Error(i))' <=> \E j \in Item : \/ Has(Entries(j), Error(i)) /\ EntriesDue(j)'
                                         \/ Error(i) = Error(j) /\ ErrorDue(j)'
  BY WorldKept DEF Due, Error
<1>6. \A o : Has(Entries(i), o) => (Due(o)' <=> EntriesDue(i)')
  BY <1>1, <1>2, <1>4
<1>7. Due(Error(i))' <=> ErrorDue(i)'
  BY <1>2, <1>3, <1>5
<1> QED
  BY <1>6, <1>7

LEMMA DueShrinks ==
  ASSUME world' = world, \A i \in Item : EntriesDue(i)' => EntriesDue(i),
         \A i \in Item : ErrorDue(i)' => ErrorDue(i)
  PROVE  \A o : Due(o)' => Due(o)
  BY WorldKept DEF Due, Error

LEMMA UniqueKept ==
  ASSUME UniqueInv, UNCHANGED <<yielded, batch, channel>>, \A o : Due(o)' => Due(o)
  PROVE  UniqueInv'
  BY DEF UniqueInv

\* A message of outputs that were due, and are not any more.
LEMMA UniqueSend ==
  ASSUME TypeOK, UniqueInv, UNCHANGED <<yielded, batch>>, \A o : Due(o)' => Due(o),
         NEW message \in Seq(Output), Once(message),
         \A o : Has(message, o) => Due(o) /\ ~Due(o)',
         channel' = Append(channel, message)
  PROVE  UniqueInv'
<1>1. /\ \A o : Sent(channel', o) <=> Sent(channel, o) \/ Has(message, o)
      /\ SentOnce(channel')
  BY AppendSent DEF TypeOK, UniqueInv
<1> QED
  BY <1>1 DEF UniqueInv

LEMMA WalkUnique ==
  ASSUME TypeOK, ThreadInv, HandsInv, UniqueInv, NEW w \in Worker, WalkStep(w) \/ StartHelper(w)
  PROVE  UniqueInv'
<1>0. UNCHANGED <<world, yielded, batch>> /\ world \in Worlds
  BY WorkerAlive DEF stream, TypeOK
<1>i. PICK i \in Item : i = item[w]
  BY DEF TypeOK
<1>1. CASE Take(w)
  <2>1. \A o : Due(o)' => Due(o)
    BY <1>0, <1>1, DueTaken, DueShrinks DEF SameDue
  <2> QED
    BY <1>0, <1>1, <2>1, UniqueKept DEF Take
<1>2. ASSUME NEW label, Goto(w, label), UNCHANGED <<item, left>>,
             (Holds(w) /\ (pc[w] \in {"flush", "send"} => label \notin {"read", "report", "unwind"}))
             \/ (~Holds(w) /\ label \notin Holding)
      PROVE  \A o : Due(o)' => Due(o)
  <2>1. \A j \in Item : (EntriesDue(j)' => EntriesDue(j)) /\ (ErrorDue(j)' => ErrorDue(j))
    BY <1>2, DueMoved DEF SameDue, Holds, Busy
  <2> QED
    BY <1>0, <2>1, DueShrinks
<1>3. CASE Report(w)
  <2>1. /\ Goto(w, "flush") /\ UNCHANGED <<item, left>> /\ Holds(w) /\ pc[w] = "report"
    BY <1>3 DEF Report, Holds, Busy
  <2>2. \A o : Due(o)' => Due(o)
    BY <1>2, <2>1
  <2>3. ErrorDue(i) /\ ~ErrorDue(i)'
    BY <1>i, <2>1, DueMoved
  <2>4. Due(Error(i)) /\ ~Due(Error(i))'
    BY <1>0, <2>3, DueHas, DueHasNext
  <2>5. CASE channel' = channel
    BY <1>0, <2>2, <2>5, UniqueKept
  <2>6. CASE channel' = Append(channel, <<Error(i)>>)
    <3>1. /\ <<Error(i)>> \in Seq(Output) /\ Once(<<Error(i)>>)
          /\ \A o : Has(<<Error(i)>>, o) => o = Error(i)
      BY <1>0, OutputTypes DEF Once, Has
    <3> QED
      BY <1>0, <2>2, <2>4, <2>6, <3>1, UniqueSend
  <2> QED
    BY <1>i, <1>3, <2>5, <2>6 DEF Report, Send
<1>4. CASE SendEntries(w)
  <2>1. /\ Goto(w, "idle") /\ UNCHANGED <<item, left>> /\ Holds(w) /\ pc[w] = "send"
    BY <1>4 DEF SendEntries, Holds, Busy
  <2>2. \A o : Due(o)' => Due(o)
    BY <1>2, <2>1
  <2>3. EntriesDue(i) /\ ~EntriesDue(i)'
    BY <1>i, <2>1, DueMoved DEF Holding
  <2>4. \A o : Has(Entries(i), o) => Due(o) /\ ~Due(o)'
    BY <1>0, <2>3, DueHas, DueHasNext
  <2>5. CASE channel' = channel
    BY <1>0, <2>2, <2>5, UniqueKept
  <2>6. CASE channel' = Append(channel, Entries(i))
    BY <1>0, <2>2, <2>4, <2>6, EntriesHave, UniqueSend
  <2> QED
    BY <1>i, <1>4, <2>5, <2>6 DEF SendEntries, Send
<1>5. CASE Read(w) \/ ReadPanics(w) \/ Flush(w) \/ RecordPanic(w) \/ Leave(w) \/ StartHelper(w)
  <2>1. UNCHANGED <<item, left, channel>>
    BY <1>5 DEF Read, ReadPanics, Flush, RecordPanic, Leave, StartHelper
  <2>2. \E label : /\ Goto(w, label)
                   /\ \/ /\ Holds(w)
                         /\ pc[w] \in {"flush", "send"} => label \notin {"read", "report", "unwind"}
                      \/ ~Holds(w) /\ label \notin Holding
    <3>1. CASE Read(w) \/ ReadPanics(w)
      BY <3>1 DEF Read, ReadPanics, Holds, Busy
    <3>2. CASE Flush(w)
      BY <3>2 DEF Flush, Holds, Busy
    <3>3. CASE RecordPanic(w)
      BY <3>3 DEF RecordPanic, Exit, Holds, Busy
    <3>4. CASE Leave(w) \/ StartHelper(w)
      BY <3>4 DEF Leave, StartHelper, Exit, Holds, Busy, Holding
    <3> QED
      BY <1>5, <3>1, <3>2, <3>3, <3>4
  <2>3. \A o : Due(o)' => Due(o)
    BY <1>2, <2>1, <2>2
  <2> QED
    BY <1>0, <2>1, <2>3, UniqueKept
<1> QED
  BY <1>1, <1>3, <1>4, <1>5 DEF WalkStep

LEMMA WalkSound ==
  ASSUME TypeOK, ThreadInv, HandsInv, SoundInv, NEW w \in Worker, WalkStep(w) \/ StartHelper(w)
  PROVE  SoundInv'
<1>0. UNCHANGED <<world, yielded, batch, state, joined>>
  BY WorkerAlive DEF stream
<1>1. (\A o : Wanted(o)' <=> Wanted(o)) /\ AbortErrors' = AbortErrors
  BY <1>0, WorldKept
<1>2. SUFFICES ASSUME NEW o \in Output, Sent(channel', o) PROVE Wanted(o)
  BY <1>0, <1>1 DEF SoundInv, AbortSeen
<1>3. CASE Sent(channel, o)
  BY <1>3 DEF SoundInv
<1>4. CASE Report(w) /\ channel' = Append(channel, <<Error(item[w])>>)
  <2>1. <<Error(item[w])>> \in Seq(Output) /\ (Has(<<Error(item[w])>>, o) => o = Error(item[w]))
    BY OutputTypes DEF TypeOK, Has
  <2>2. Sent(channel', o) <=> Sent(channel, o) \/ Has(<<Error(item[w])>>, o)
    BY <1>4, <2>1, AppendSent DEF TypeOK
  <2> QED
    BY <1>2, <1>3, <1>4, <2>1, <2>2 DEF Report, HandsInv, Wanted, TypeOK
<1>5. CASE SendEntries(w) /\ channel' = Append(channel, Entries(item[w]))
  <2>1. Entries(item[w]) \in Seq(Output)
    BY EntriesHave DEF TypeOK
  <2>2. Sent(channel', o) <=> Sent(channel, o) \/ Has(Entries(item[w]), o)
    BY <1>5, <2>1, AppendSent DEF TypeOK
  <2> QED
    BY <1>2, <1>3, <2>2 DEF Wanted, TypeOK
<1>6. CASE channel' = channel
  BY <1>2, <1>3, <1>6
<1> QED
  BY <1>4, <1>5, <1>6
     DEF WalkStep, Take, Read, ReadPanics, Report, Flush, SendEntries, RecordPanic, Leave, StartHelper, Send

\* What the consumer takes over leaves where it was.
LEMMA DueStill ==
  ASSUME Still, world' = world
  PROVE  \A o : Due(o)' => Due(o)
<1>1. \A w \in Worker : pc'[w] \in Holding => pc'[w] = pc[w]
  BY DEF Still
<1>2. ASSUME NEW i \in Item, NEW labels \in SUBSET Holding
      PROVE  InHand(i, labels)' => InHand(i, labels)
  BY <1>1 DEF InHand, Still
<1>3. /\ Holding \in SUBSET Holding /\ {"read", "report", "unwind"} \in SUBSET Holding
  BY DEF Holding
<1>4. \A i \in Item : (EntriesDue(i)' => EntriesDue(i)) /\ (ErrorDue(i)' => ErrorDue(i))
  BY <1>2, <1>3 DEF EntriesDue, ErrorDue, Still, Holding
<1> QED
  BY <1>4, DueShrinks

\* A worker that holds a directory keeps holding it.
LEMMA InHandStill ==
  ASSUME Still, NEW i, NEW labels \in SUBSET Holding
  PROVE  InHand(i, labels)' <=> InHand(i, labels)
  BY DEF Still, InHand, Holding, Holds, Busy

\* One output moves from where it was to the consumer's hands.
LEMMA UniqueYield ==
  ASSUME TypeOK, UniqueInv, NEW o \in Output, \A p : Due(p)' => Due(p),
         yielded' = Append(yielded, o), ~Has(yielded, o),
         Once(batch'), SentOnce(channel'),
         \A p \in Output : ~(Has(batch', p) /\ Sent(channel', p)),
         \A p \in Output : Has(batch', p) \/ Sent(channel', p) =>
           p # o /\ (Has(batch, p) \/ Sent(channel, p)),
         ~Due(o)
  PROVE  UniqueInv'
<1>1. (\A p : Has(yielded', p) <=> Has(yielded, p) \/ p = o) /\ Once(yielded')
  BY AppendHas DEF TypeOK, UniqueInv
<1> QED
  BY <1>1 DEF UniqueInv

LEMMA ConsumerUnique ==
  ASSUME TypeOK, ThreadInv, LetGoInv, StopInv, HandsInv, UniqueInv, SoundInv,
         ConsumerCall, Still, world' = world
  PROVE  UniqueInv'
<1>0. \A o : Due(o)' => Due(o)
  BY DueStill
<1>1. CASE StartRefused
  <2>1. yielded = <<>> /\ batch = <<>> /\ channel = <<>> /\ UNCHANGED <<batch, channel>>
    BY <1>1 DEF StartRefused, LetGoInv
  <2>2. CASE UNCHANGED yielded
    BY <1>0, <2>1, <2>2, UniqueKept
  <2>3. CASE Yield(SpawnError)
    <3>1. SpawnError \in Output /\ ~Due(SpawnError)
      BY ItemAssumption, OutputTypes, DueHas DEF TypeOK
    <3> QED
      BY <1>0, <2>1, <2>3, <3>1, EmptyHas, UniqueYield DEF Yield
  <2> QED
    BY <1>1, <2>2, <2>3 DEF StartRefused
<1>2. CASE SerialReads
  <2>1. PICK i \in left : /\ left' = left \ {i}
                          /\ batch' = Entries(i) \o (IF Kept(i) THEN <<Error(i)>> ELSE <<>>)
    BY <1>2 DEF SerialReads
  <2>2. i \in Item /\ world \in Worlds /\ UNCHANGED <<yielded, channel>> /\ channel = <<>> /\ NoThread
    BY <1>2 DEF SerialReads, LetGoInv, ThreadInv, TypeOK
  <2>3. EntriesDue(i) /\ ErrorDue(i)
    BY <2>1 DEF EntriesDue, ErrorDue
  <2>4. ~EntriesDue(i)' /\ ~ErrorDue(i)'
    BY <1>2, <2>1, <2>2 DEF SerialReads, EntriesDue, ErrorDue, InHand, NoThread
  <2>5. DEFINE last == IF Kept(i) THEN <<Error(i)>> ELSE <<>>
  <2>6. /\ last \in Seq(Output) /\ Once(last) /\ \A o : Has(last, o) => o = Error(i)
    <3>1. <<Error(i)>> \in Seq(Output) /\ Once(<<Error(i)>>) /\ \A o : Has(<<Error(i)>>, o) => o = Error(i)
      BY <2>2, OutputTypes DEF Once, Has
    <3>2. <<>> \in Seq(Output)
      BY EmptySeq
    <3> QED
      BY <3>1, <3>2, EmptyHas
  <2>7. /\ Once(batch') /\ \A o : Has(batch', o) => Has(Entries(i), o) \/ o = Error(i)
    <3>1. batch' = Entries(i) \o last
      BY <2>1
    <3>2. /\ Entries(i) \in Seq(Output) /\ Once(Entries(i))
          /\ \A o \in Output : ~(Has(Entries(i), o) /\ Has(last, o))
      BY <2>2, <2>6, EntriesHave
    <3> HIDE DEF last
    <3> QED
      BY <2>6, <3>1, <3>2, ConcatHas
  <2>8. \A o : Has(batch', o) => Due(o) /\ ~Due(o)'
    BY <2>2, <2>3, <2>4, <2>7, DueHas, DueHasNext
  <2> QED
    BY <1>0, <2>2, <2>7, <2>8, EmptyHas DEF UniqueInv
<1>3. CASE StepBatch
  <2>1. /\ Head(batch) \in Output /\ ~Has(Tail(batch), Head(batch)) /\ Once(Tail(batch))
        /\ \A o : Has(batch, o) <=> o = Head(batch) \/ Has(Tail(batch), o)
    BY <1>3, TailHas, HeadTailProperties DEF StepBatch, TypeOK, UniqueInv
  <2> QED
    BY <1>0, <1>3, <2>1, UniqueYield DEF StepBatch, Yield, UniqueInv
<1>4. CASE Receive
  <2>1. batch = <<>> /\ channel # <<>> /\ Head(channel) # <<>> /\ Head(channel) \in Seq(Output)
    BY <1>4, EmptySeq, HeadTailProperties DEF Receive, LetGoInv, HandsInv, TypeOK
  <2>2. /\ \A o : Sent(channel, o) <=> Has(Head(channel), o) \/ Sent(Tail(channel), o)
        /\ SentOnce(Tail(channel)) /\ Once(Head(channel))
        /\ \A o \in Output : ~(Has(Head(channel), o) /\ Sent(Tail(channel), o))
    BY <2>1, TailSent DEF TypeOK, UniqueInv
  <2>3. /\ Head(Head(channel)) \in Output /\ Once(Tail(Head(channel)))
        /\ ~Has(Tail(Head(channel)), Head(Head(channel)))
        /\ \A o : Has(Head(channel), o) <=> o = Head(Head(channel)) \/ Has(Tail(Head(channel)), o)
    BY <2>1, <2>2, TailHas, HeadTailProperties
  <2> QED
    BY <1>0, <1>4, <2>2, <2>3, UniqueYield DEF Receive, Yield, UniqueInv
<1>5. CASE LetGo
  BY <1>0, <1>5, EmptyHas DEF LetGo, ReceiverDropped, UniqueInv
<1>6. CASE Join
  <2>1. UNCHANGED <<batch, channel>> /\ batch = <<>> /\ channel = <<>>
    BY <1>6 DEF Join, LetGoInv
  <2>2. ASSUME NEW i \in abort, Yield(Error(i)), ~joined PROVE UniqueInv'
    <3>1. /\ i \in Item /\ i \notin left /\ world \in Worlds /\ world.policy = "abort"
          /\ state = "threaded" /\ pc[Driver] = "ended"
      BY <1>6, <2>2, WorldAssumption
         DEF Join, TypeOK, World, HandsInv, StopInv, ThreadInv, LettingGo
    <3>2. NoThread
      BY <3>1 DEF ThreadInv, HelpersJoined, NoThread
    <3>3. ~Due(Error(i))
      BY <3>1, <3>2, DueHas DEF ErrorDue, InHand, NoThread
    <3>4. Error(i) \in Output /\ Error(i) \in AbortErrors
      BY <3>1, OutputTypes DEF AbortErrors, TypeOK
    <3>5. ~Has(yielded, Error(i))
      BY <2>2, <3>1, <3>4 DEF SoundInv, AbortSeen, Has
    <3> QED
      BY <1>0, <2>1, <2>2, <3>3, <3>4, <3>5, EmptyHas, UniqueYield DEF Yield
  <2>3. CASE UNCHANGED yielded
    BY <1>0, <2>1, <2>3, UniqueKept
  <2> QED
    BY <1>6, <2>2, <2>3 DEF Join, LetGoInv, LettingGo, End
<1>7. CASE UNCHANGED <<yielded, batch, channel>>
  BY <1>0, <1>7, UniqueKept
<1> QED
  BY <1>1, <1>2, <1>3, <1>4, <1>5, <1>6, <1>7
     DEF ConsumerCall, StartCancelled, StartThreaded, SerialEnds, StepCancelled, StepOver, StepReceive,
         Disconnected, Close, StopWalk

\* The steps of nobody above touch no output.
LEMMA OthersQuiet ==
  ASSUME DriverStep \/ CallNext \/ DropStream \/ Cancel \/ Gone \/ UNCHANGED vars
  PROVE  UNCHANGED <<yielded, batch, channel, state, joined, outcome, left>>
  BY DEF DriverStep, Build, Attach, CarryOut, JoinHelpers, EndDriver, CallNext, DropStream, Cancel, Gone,
         vars, stream, threads

LEMMA UniqueStep ==
  TypeOK /\ ThreadInv /\ LetGoInv /\ StopInv /\ HandsInv /\ UniqueInv /\ SoundInv /\ [Next]_vars
    => UniqueInv'
<1> SUFFICES ASSUME TypeOK, ThreadInv, LetGoInv, StopInv, HandsInv, UniqueInv, SoundInv, [Next]_vars
             PROVE  UniqueInv'
  OBVIOUS
<1>1. ASSUME NEW w \in Worker, WalkStep(w) \/ StartHelper(w) PROVE UniqueInv'
  BY <1>1, WalkUnique
<1>2. CASE ~\E w \in Worker : WalkStep(w) \/ StartHelper(w)
  <2>1. Still /\ world' = world
    BY <1>2, HandsStill, WorldConstant
  <2>2. CASE ConsumerCall
    BY <2>1, <2>2, ConsumerUnique
  <2>3. CASE ~ConsumerCall
    BY <1>2, <2>1, <2>3, OthersQuiet, DueStill, UniqueKept DEF Next
  <2> QED
    BY <2>2, <2>3
<1> QED
  BY <1>1, <1>2

\* One more output for the consumer, wanted or the abort error of a walk that
\* is over.
LEMMA SoundYield ==
  ASSUME TypeOK, SoundInv, world' = world, NEW o \in Output, yielded' = Append(yielded, o),
         ~AbortSeen,
         Wanted(o) \/ o = SpawnError \/ o \in AbortErrors,
         o \in AbortErrors => state' = "done" \/ joined',
         \A p \in Output : Has(batch', p) \/ Sent(channel', p) => Has(batch, p) \/ Sent(channel, p)
  PROVE  SoundInv'
<1>1. (\A p : Wanted(p)' <=> Wanted(p)) /\ AbortErrors' = AbortErrors
  BY WorldKept
<1>2. \A p : Has(yielded', p) <=> Has(yielded, p) \/ p = o
  BY AppendHas DEF TypeOK
<1>3. /\ Len(yielded) \in Nat /\ Len(yielded') = Len(yielded) + 1
      /\ \A k \in 1 .. Len(yielded) : yielded'[k] = yielded[k]
      /\ yielded'[Len(yielded) + 1] = o
  BY AppendProperties, LenProperties DEF TypeOK
<1>4. \A k \in 1 .. Len(yielded') : k \in 1 .. Len(yielded) \/ k = Len(yielded')
  BY <1>3
<1>5. \A k \in 1 .. Len(yielded) : yielded'[k] \notin AbortErrors
  BY <1>3 DEF AbortSeen
<1>6. \A k \in 1 .. Len(yielded') : yielded'[k] \in AbortErrors' => k = Len(yielded')
  BY <1>1, <1>4, <1>5
<1>7. AbortSeen' => state' = "done" \/ joined'
  BY <1>1, <1>3, <1>4, <1>5 DEF AbortSeen
<1>8. \A p \in Output : Has(yielded', p) => Wanted(p)' \/ p = SpawnError \/ p \in AbortErrors'
  BY <1>1, <1>2 DEF SoundInv
<1>9. \A p \in Output : Has(batch', p) \/ Sent(channel', p) => Wanted(p)'
  BY <1>1 DEF SoundInv
<1> QED
  BY <1>6, <1>7, <1>8, <1>9 DEF SoundInv, SpawnError

LEMMA SoundKept ==
  ASSUME SoundInv, world' = world, yielded' = yielded,
         AbortSeen /\ (state = "done" \/ joined) => state' = "done" \/ joined',
         \A p \in Output : Has(batch', p) \/ Sent(channel', p) => Wanted(p)
  PROVE  SoundInv'
<1>1. (\A p : Wanted(p)' <=> Wanted(p)) /\ AbortErrors' = AbortErrors
  BY WorldKept
<1>2. AbortSeen' <=> AbortSeen
  BY <1>1 DEF AbortSeen
<1> QED
  BY <1>1, <1>2 DEF SoundInv, SpawnError

LEMMA ConsumerSound ==
  ASSUME TypeOK, ThreadInv, LetGoInv, StopInv, HandsInv, UniqueInv, SoundInv,
         ConsumerCall, world' = world
  PROVE  SoundInv'
<1>1. CASE StartRefused
  <2>1. yielded = <<>> /\ batch = <<>> /\ channel = <<>> /\ UNCHANGED <<batch, channel>>
    BY <1>1 DEF StartRefused, LetGoInv
  <2>2. ~AbortSeen /\ SpawnError \in Output
    BY <2>1, ItemAssumption, OutputTypes DEF AbortSeen
  <2>3. SpawnError \in AbortErrors => state' = "done"
    BY <1>1, ErrorsDiffer DEF StartRefused, AbortErrors
  <2>4. CASE UNCHANGED yielded
    BY <2>1, <2>2, <2>4, EmptyHas, SoundKept
  <2>5. CASE Yield(SpawnError)
    BY <2>1, <2>2, <2>3, <2>5, SoundYield DEF Yield
  <2> QED
    BY <1>1, <2>4, <2>5 DEF StartRefused
<1>2. CASE SerialReads
  <2>1. PICK i \in left : batch' = Entries(i) \o (IF Kept(i) THEN <<Error(i)>> ELSE <<>>)
    BY <1>2 DEF SerialReads
  <2>2. i \in Item /\ world \in Worlds /\ UNCHANGED <<yielded, channel, state, joined>> /\ channel = <<>>
    BY <1>2 DEF SerialReads, LetGoInv, TypeOK
  <2>3. \A o : Has(batch', o) => Wanted(o)
    <3>1. CASE Kept(i)
      <4>1. <<Error(i)>> \in Seq(Output) /\ \A o : Has(<<Error(i)>>, o) => o = Error(i)
        BY <2>2, OutputTypes DEF Has
      <4> QED
        BY <2>1, <2>2, <3>1, <4>1, ConcatHas, EntriesHave DEF Wanted
    <3>2. CASE ~Kept(i)
      BY <2>1, <2>2, <3>2, EmptySeq, EmptyHas, ConcatHas, EntriesHave DEF Wanted
    <3> QED
      BY <3>1, <3>2
  <2> QED
    BY <2>2, <2>3, EmptyHas, SoundKept
<1>3. CASE StepBatch
  <2>1. /\ Head(batch) \in Output
        /\ \A o : Has(batch, o) <=> o = Head(batch) \/ Has(Tail(batch), o)
    BY <1>3, TailHas, HeadTailProperties DEF StepBatch, TypeOK
  <2>2. Wanted(Head(batch)) /\ world \in Worlds
    BY <2>1 DEF SoundInv, TypeOK
  <2>3. ~AbortSeen
    BY <1>3 DEF StepBatch, SoundInv, LetGoInv
  <2> QED
    BY <1>3, <2>1, <2>2, <2>3, WantedContinues, SoundYield DEF StepBatch, Yield
<1>4. CASE Receive
  <2>1. batch = <<>> /\ channel # <<>> /\ Head(channel) # <<>> /\ Head(channel) \in Seq(Output)
    BY <1>4, EmptySeq, HeadTailProperties DEF Receive, LetGoInv, HandsInv, TypeOK
  <2>2. \A o : Sent(channel, o) <=> Has(Head(channel), o) \/ Sent(Tail(channel), o)
    BY <2>1, TailSent DEF TypeOK
  <2>3. /\ Head(Head(channel)) \in Output
        /\ \A o : Has(Head(channel), o) <=> o = Head(Head(channel)) \/ Has(Tail(Head(channel)), o)
    BY <2>1, TailHas, HeadTailProperties
  <2>4. Wanted(Head(Head(channel))) /\ world \in Worlds
    BY <2>2, <2>3 DEF SoundInv, TypeOK
  <2>5. ~AbortSeen
    BY <1>4 DEF Receive, SoundInv, LetGoInv
  <2> QED
    BY <1>4, <2>2, <2>3, <2>4, <2>5, WantedContinues, SoundYield DEF Receive, Yield
<1>5. CASE LetGo
  BY <1>5, EmptyHas, SoundKept DEF LetGo, ReceiverDropped
<1>6. CASE Join
  <2>1. UNCHANGED <<batch, channel>> /\ batch = <<>> /\ channel = <<>> /\ joined'
    BY <1>6 DEF Join, LetGoInv
  <2>2. ASSUME NEW i \in abort, Yield(Error(i)), ~joined PROVE SoundInv'
    <3>1. i \in Item /\ world.policy = "abort" /\ state = "threaded" /\ i \in world.fails
      BY <1>6, <2>2, WorldAssumption DEF Join, TypeOK, World, StopInv, ThreadInv, LettingGo
    <3>2. Error(i) \in Output /\ Error(i) \in AbortErrors
      BY <3>1, OutputTypes DEF AbortErrors
    <3>3. ~AbortSeen
      BY <2>2, <3>1 DEF SoundInv
    <3> QED
      BY <2>1, <2>2, <3>2, <3>3, SoundYield DEF Yield
  <2>3. CASE UNCHANGED yielded
    BY <2>1, <2>3, EmptyHas, SoundKept
  <2> QED
    BY <1>6, <2>2, <2>3 DEF Join, LetGoInv, LettingGo, End
<1>7. CASE /\ UNCHANGED <<yielded, batch, channel, joined>> /\ (state = "done" => state' = "done")
  BY <1>7, SoundKept DEF SoundInv
<1> QED
  BY <1>1, <1>2, <1>3, <1>4, <1>5, <1>6, <1>7
     DEF ConsumerCall, StartCancelled, StartThreaded, SerialEnds, StepCancelled, StepOver, StepReceive,
         Disconnected, Close, StopWalk, End

LEMMA SoundStep ==
  TypeOK /\ ThreadInv /\ LetGoInv /\ StopInv /\ HandsInv /\ UniqueInv /\ SoundInv /\ [Next]_vars
    => SoundInv'
<1> SUFFICES ASSUME TypeOK, ThreadInv, LetGoInv, StopInv, HandsInv, UniqueInv, SoundInv, [Next]_vars
             PROVE  SoundInv'
  OBVIOUS
<1>1. ASSUME NEW w \in Worker, WalkStep(w) \/ StartHelper(w) PROVE SoundInv'
  BY <1>1, WalkSound
<1>2. CASE ConsumerCall
  BY <1>2, ConsumerSound, WorldConstant
<1>3. CASE DriverStep \/ CallNext \/ DropStream \/ Cancel \/ Gone \/ UNCHANGED vars
  BY <1>3, OthersQuiet, WorldConstant, SoundKept DEF SoundInv
<1> QED
  BY <1>1, <1>2, <1>3 DEF Next

-----------------------------------------------------------------------------
(* Nothing is lost.                                                        *)

LEMMA LossInit == Init => LossInv /\ CompleteInv
  BY DEF Init, LossInv, CompleteInv, EntriesSafe, ErrorsSafe, EntriesDue, ErrorDue

\* What each step of a worker has to keep safe: its own directory.
LEMMA SafeMoved ==
  ASSUME TypeOK, HandsInv, world' = world, EntriesSafe, ErrorsSafe, EndsAhead,
         \A o : Arrived(o) => Arrived(o)',
         NEW w \in Worker, NEW label, Goto(w, label), UNCHANGED <<item, left>>,
         (~Holds(w) /\ label \notin Holding) \/
           /\ Holds(w)
           /\ label \in Holding \/ \A o \in Output : Has(Entries(item[w]), o) => Arrived(o)'
           /\ label \in {"read", "report", "unwind"} \/ pc[w] \notin {"read", "report", "unwind"}
                \/ ~Kept(item[w]) \/ \A o : o = Error(item[w]) => Arrived(o)'
           /\ label \in {"read", "unwind"} \/ pc[w] \notin {"read", "unwind"} \/ ~EndsWalk(item[w])
  PROVE  EntriesSafe' /\ ErrorsSafe' /\ EndsAhead'
<1>0. /\ \A i : Entries(i)' = Entries(i)
      /\ \A i : Kept(i)' <=> Kept(i)
      /\ \A i : EndsWalk(i)' <=> EndsWalk(i)
  BY WorldKept DEF EndsWalk
<1>1. PICK k \in Item : k = item[w]
  BY DEF TypeOK
<1>2. \A i \in Item : i # k => SameDue(i)
  BY <1>1, DueMoved
<1>3. CASE ~Holds(w) /\ label \notin Holding
  <2>1. \A i \in Item : SameDue(i)
    BY <1>3, DueMoved
  <2> QED
    BY <1>0, <2>1 DEF SameDue, EntriesSafe, ErrorsSafe, EndsAhead, Error
<1>4. CASE Holds(w)
  <2>1. /\ EntriesDue(k) /\ (EntriesDue(k)' <=> label \in Holding)
        /\ ErrorDue(k) <=> pc[w] \in {"read", "report", "unwind"}
        /\ ErrorDue(k)' <=> label \in {"read", "report", "unwind"}
        /\ Unread(k) <=> pc[w] \in {"read", "unwind"}
        /\ Unread(k)' <=> label \in {"read", "unwind"}
    BY <1>1, <1>4, DueMoved
  <2>2. EntriesSafe'
    BY <1>0, <1>1, <1>2, <1>4, <2>1 DEF EntriesSafe, SameDue
  <2>3. ErrorsSafe'
    <3>1. \A i \in Item : i # k /\ Kept(i) => ErrorDue(i)' \/ Arrived(Error(i))'
      BY <1>2 DEF ErrorsSafe, SameDue, Error
    <3>2. Kept(k) => ErrorDue(k)' \/ Arrived(Error(k))'
      BY <1>1, <1>4, <2>1 DEF ErrorsSafe, Error
    <3> QED
      BY <1>0, <3>1, <3>2 DEF ErrorsSafe
  <2>4. EndsAhead'
    BY <1>0, <1>1, <1>2, <1>4, <2>1 DEF EndsAhead, SameDue
  <2> QED
    BY <2>2, <2>3, <2>4
<1> QED
  BY <1>3, <1>4

\* While somebody has left there is nothing to take, to read or to send.
LEMMA WalkLeaves ==
  ASSUME TypeOK, NobodyLeaves, NEW w \in Worker, WalkStep(w) \/ StartHelper(w), ~Stopping, ~stopped'
  PROVE  NobodyLeaves'
<1>1. CASE Leave(w)
  <2>1. left = {} /\ (\A v \in Worker : ~Busy(v)) /\ left' = left
    BY <1>1 DEF Leave
  <2>2. \A v \in Worker : ~Busy(v)'
    BY <1>1, <2>1 DEF Leave, Exit, Goto, Busy, TypeOK
  <2> QED
    BY <2>1, <2>2 DEF NobodyLeaves
<1>2. CASE RecordPanic(w)
  BY <1>2 DEF RecordPanic, PanicRecorded
<1>3. CASE Take(w) \/ StartHelper(w)
  <2>1. /\ left # {}
        /\ \A v \in Worker : pc'[v] \in {"join", "finish", "ended"} => pc'[v] = pc[v]
    BY <1>3 DEF Take, StartHelper, Goto, TypeOK
  <2> QED
    BY <2>1 DEF NobodyLeaves
<1>4. CASE Read(w) \/ ReadPanics(w) \/ Report(w) \/ Flush(w) \/ SendEntries(w)
  <2>1. /\ Busy(w)
        /\ \A v \in Worker : pc'[v] \in {"join", "finish", "ended"} => pc'[v] = pc[v]
    BY <1>4 DEF Read, ReadPanics, Report, Flush, SendEntries, Goto, Busy, TypeOK
  <2> QED
    BY <2>1 DEF NobodyLeaves
<1> QED
  BY <1>1, <1>2, <1>3, <1>4 DEF WalkStep

LEMMA WalkLoss ==
  ASSUME TypeOK, ThreadInv, HandsInv, LossInv, NEW w \in Worker, WalkStep(w) \/ StartHelper(w)
  PROVE  LossInv'
<1>0. UNCHANGED <<world, yielded, batch, state, purpose, token>> /\ state = "threaded"
  BY WorkerAlive DEF stream
<1>1. SUFFICES ASSUME Undisturbed'
               PROVE  EntriesSafe' /\ ErrorsSafe' /\ EndsAhead' /\ NobodyLeaves'
  BY DEF LossInv
<1>2. Undisturbed /\ ~Stopping /\ ~stopped'
  BY <1>0, <1>1, WalkStops DEF Undisturbed, Quit, Stopping
<1>3. EntriesSafe /\ ErrorsSafe /\ EndsAhead /\ NobodyLeaves
  BY <1>0, <1>2 DEF LossInv
<1>4. NobodyLeaves'
  BY <1>2, <1>3, WalkLeaves
<1>5. CASE Take(w)
  <2>1. \A i \in Item : SameDue(i)
    BY <1>5, DueTaken
  <2>2. /\ \A i : Entries(i)' = Entries(i)
        /\ \A i : Kept(i)' <=> Kept(i)
        /\ \A i : EndsWalk(i)' <=> EndsWalk(i)
    BY <1>0, WorldKept DEF EndsWalk
  <2>3. \A o : Arrived(o)' <=> Arrived(o)
    BY <1>0, <1>5 DEF Take, Arrived
  <2> QED
    BY <1>3, <1>4, <2>1, <2>2, <2>3 DEF SameDue, EntriesSafe, ErrorsSafe, EndsAhead, Error
<1>6. CASE Read(w)
  <2>1. \A o : Arrived(o)' <=> Arrived(o)
    BY <1>0, <1>6 DEF Read, Arrived
  <2>2. ~EndsWalk(item[w]) /\ Holds(w) /\ UNCHANGED <<item, left>>
    BY <1>2, <1>6 DEF Read, EndsWalk, Holds, Busy
  <2>3. CASE Kept(item[w]) /\ Goto(w, "report")
    BY <1>0, <1>3, <1>4, <2>1, <2>2, <2>3, SafeMoved DEF Holding
  <2>4. CASE ~Kept(item[w]) /\ Goto(w, "flush")
    BY <1>0, <1>3, <1>4, <2>1, <2>2, <2>4, SafeMoved DEF Holding
  <2> QED
    BY <1>6, <2>3, <2>4 DEF Read
<1>7. CASE ReadPanics(w)
  <2>1. \A o : Arrived(o)' <=> Arrived(o)
    BY <1>0, <1>7 DEF ReadPanics, Arrived
  <2>2. Goto(w, "unwind") /\ Holds(w) /\ UNCHANGED <<item, left>>
    BY <1>7 DEF ReadPanics, Holds, Busy
  <2> QED
    BY <1>0, <1>3, <1>4, <2>1, <2>2, SafeMoved DEF Holding
<1>8. CASE Report(w)
  <2>1. Goto(w, "flush") /\ Holds(w) /\ UNCHANGED <<item, left>> /\ pc[w] = "report"
    BY <1>8 DEF Report, Holds, Busy
  <2>2. channel' = Append(channel, <<Error(item[w])>>)
    BY <1>2, <1>8 DEF Report, Send
  <2>3. <<Error(item[w])>> \in Seq(Output) /\ Has(<<Error(item[w])>>, Error(item[w]))
    <3>1. PICK e \in Output : e = Error(item[w])
      BY OutputTypes DEF TypeOK
    <3>2. <<e>> \in Seq(Output) /\ 1 \in 1 .. Len(<<e>>) /\ <<e>>[1] = e
      OBVIOUS
    <3> QED
      BY <3>1, <3>2 DEF Has
  <2>4. \A o : Sent(channel', o) <=> Sent(channel, o) \/ Has(<<Error(item[w])>>, o)
    BY <2>2, <2>3, AppendSent DEF TypeOK
  <2>5. (\A o : Arrived(o) => Arrived(o)') /\ \A o : o = Error(item[w]) => Arrived(o)'
    BY <1>0, <2>3, <2>4 DEF Arrived
  <2> QED
    BY <1>0, <1>3, <1>4, <2>1, <2>5, SafeMoved DEF Holding
<1>9. CASE Flush(w)
  <2>1. \A o : Arrived(o)' <=> Arrived(o)
    BY <1>0, <1>9 DEF Flush, Arrived
  <2>2. Holds(w) /\ UNCHANGED <<item, left>> /\ pc[w] = "flush"
    BY <1>9 DEF Flush, Holds, Busy
  <2>3. CASE Goto(w, "send")
    BY <1>0, <1>3, <1>4, <2>1, <2>2, <2>3, SafeMoved DEF Holding
  <2>4. CASE Goto(w, "idle") /\ Entries(item[w]) = <<>>
    BY <1>0, <1>3, <1>4, <2>1, <2>2, <2>4, EmptyHas, SafeMoved
  <2> QED
    BY <1>2, <1>9, <2>3, <2>4 DEF Flush, DropsBuffer
<1>10. CASE SendEntries(w)
  <2>1. Goto(w, "idle") /\ Holds(w) /\ UNCHANGED <<item, left>> /\ pc[w] = "send"
    BY <1>10 DEF SendEntries, Holds, Busy
  <2>2. channel' = Append(channel, Entries(item[w]))
    BY <1>2, <1>10 DEF SendEntries, Send
  <2>3. Entries(item[w]) \in Seq(Output)
    BY EntriesHave DEF TypeOK
  <2>4. \A o : Sent(channel', o) <=> Sent(channel, o) \/ Has(Entries(item[w]), o)
    BY <2>2, <2>3, AppendSent DEF TypeOK
  <2>5. (\A o : Arrived(o) => Arrived(o)') /\ \A o : Has(Entries(item[w]), o) => Arrived(o)'
    BY <1>0, <2>4 DEF Arrived
  <2> QED
    BY <1>0, <1>3, <1>4, <2>1, <2>5, SafeMoved
<1>11. CASE RecordPanic(w)
  BY <1>2, <1>11 DEF RecordPanic, PanicRecorded
<1>12. CASE Leave(w) \/ StartHelper(w)
  <2>1. \A o : Arrived(o)' <=> Arrived(o)
    BY <1>0, <1>12 DEF Leave, StartHelper, Arrived
  <2>2. /\ ~Holds(w) /\ UNCHANGED <<item, left>>
        /\ \E label : Goto(w, label) /\ label \notin Holding
    BY <1>12 DEF Leave, StartHelper, Exit, Holds, Busy, Holding
  <2> QED
    BY <1>0, <1>3, <1>4, <2>1, <2>2, SafeMoved
<1> QED
  BY <1>5, <1>6, <1>7, <1>8, <1>9, <1>10, <1>11, <1>12 DEF WalkStep

\* The labels of a worker that has nothing left to do.
Leaving == {"join", "finish", "ended"}

\* A step of the consumer or of the driver that takes nothing and drops nothing.
LEMMA LossKept ==
  ASSUME Still, world' = world, left' = left, \A o : Arrived(o) => Arrived(o)',
         \A w \in Worker : pc'[w] \in Leaving => pc[w] \in Leaving,
         EntriesSafe, ErrorsSafe
  PROVE  /\ EntriesSafe' /\ ErrorsSafe'
         /\ EndsAhead => EndsAhead'
         /\ NobodyLeaves => NobodyLeaves'
<1>0. /\ \A i : Entries(i)' = Entries(i)
      /\ \A i : Kept(i)' <=> Kept(i)
      /\ \A i : EndsWalk(i)' <=> EndsWalk(i)
  BY WorldKept DEF EndsWalk
<1>1. /\ Holding \in SUBSET Holding /\ {"read", "report", "unwind"} \in SUBSET Holding
      /\ {"read", "unwind"} \in SUBSET Holding
  BY DEF Holding
<1>2. \A i : SameDue(i)
  <2> TAKE i
  <2>1. /\ InHand(i, Holding)' <=> InHand(i, Holding)
        /\ InHand(i, {"read", "report", "unwind"})' <=> InHand(i, {"read", "report", "unwind"})
        /\ InHand(i, {"read", "unwind"})' <=> InHand(i, {"read", "unwind"})
    BY <1>1, InHandStill
  <2> QED
    BY <2>1 DEF SameDue, EntriesDue, ErrorDue, Unread, Holding
<1>3. EntriesSafe' /\ ErrorsSafe'
  BY <1>0, <1>2 DEF EntriesSafe, ErrorsSafe, SameDue, Error
<1>4. EndsAhead => EndsAhead'
  BY <1>0, <1>2 DEF EndsAhead, SameDue
<1>5. \A w \in Worker : Busy(w)' => Busy(w)
  BY DEF Still, Busy, Holding
<1>6. NobodyLeaves => NobodyLeaves'
  BY <1>5 DEF NobodyLeaves, Leaving
<1> QED
  BY <1>3, <1>4, <1>6

LEMMA OthersLoss ==
  ASSUME TypeOK, ThreadInv, LossInv, Still, world' = world,
         DriverStep \/ CallNext \/ DropStream \/ Cancel \/ Gone \/ UNCHANGED vars
  PROVE  LossInv'
<1>1. UNCHANGED <<yielded, batch, channel, state, left>>
  BY OthersQuiet
<1>2. \A o : Arrived(o) => Arrived(o)'
  BY <1>1 DEF Arrived
<1>3. Undisturbed' => Undisturbed
  BY DEF DriverStep, Build, Attach, CarryOut, JoinHelpers, EndDriver, CallNext, DropStream, Cancel, Gone,
         vars, stream, failure, Undisturbed, Quit
<1>4. \A w \in Worker : pc'[w] \in Leaving => pc[w] \in Leaving
  <2>1. CASE DriverStep
    BY <2>1, ThreadAssumption
       DEF DriverStep, Build, Attach, CarryOut, JoinHelpers, EndDriver, Goto, Leaving, TypeOK
  <2>2. CASE ~DriverStep
    BY <2>2 DEF CallNext, DropStream, Cancel, Gone, vars, threads
  <2> QED
    BY <2>1, <2>2
<1> QED
  BY <1>1, <1>2, <1>3, <1>4, LossKept DEF LossInv

LEMMA ConsumerLoss ==
  ASSUME TypeOK, ThreadInv, LetGoInv, StopInv, HandsInv, LossInv, ConsumerCall, Still, world' = world
  PROVE  LossInv'
<1> SUFFICES ASSUME Undisturbed', state' # "done"
             PROVE  /\ EntriesSafe' /\ ErrorsSafe'
                    /\ state' = "threaded" => EndsAhead' /\ NobodyLeaves'
  BY DEF LossInv
<1>1. state # "done"
  BY DEF ConsumerCall, StartCancelled, StartThreaded, StartRefused, SerialEnds, SerialReads, StepCancelled,
         StepBatch, StepOver, StepReceive, Receive, Disconnected, Close, StopWalk, LetGo, Join, ThreadInv,
         LettingGo
<1>2. Undisturbed
  <2>1. token' = token /\ (stopped => stopped')
    <3>1. CASE StopWalk
      BY <3>1 DEF StopWalk
    <3>2. CASE ~StopWalk
      BY <3>2 DEF ConsumerCall, StartCancelled, StartThreaded, StartRefused, SerialEnds, SerialReads,
                  StepCancelled, StepBatch, StepOver, StepReceive, Receive, Disconnected, Close, LetGo,
                  Join, failure
    <3> QED
      BY <3>1, <3>2
  <2>2. Quit => Quit' \/ Disconnected
    BY DEF ConsumerCall, StartCancelled, StartThreaded, StartRefused, SerialEnds, SerialReads,
           StepCancelled, StepBatch, StepOver, StepReceive, Receive, Close, StopWalk, LetGo, Join, Quit
  <2>3. Disconnected => ~Quit
    BY DEF Disconnected, LetGoInv
  <2> QED
    BY <2>1, <2>2, <2>3 DEF Undisturbed
<1>3. EntriesSafe /\ ErrorsSafe /\ (state = "threaded" => EndsAhead /\ NobodyLeaves)
  BY <1>1, <1>2 DEF LossInv
<1>4. CASE SerialReads
  <2>1. PICK k \in left : /\ left' = left \ {k}
                          /\ batch' = Entries(k) \o (IF Kept(k) THEN <<Error(k)>> ELSE <<>>)
    BY <1>4 DEF SerialReads
  <2>2. k \in Item /\ UNCHANGED <<yielded, channel, state, pc, item>> /\ batch = <<>> /\ state = "serial"
    BY <1>4, <2>1 DEF SerialReads, TypeOK
  <2>3. /\ \A o : Has(Entries(k), o) => Has(batch', o)
        /\ Kept(k) => Has(batch', Error(k))
    <3>1. CASE Kept(k)
      <4>1. <<Error(k)>> \in Seq(Output) /\ Has(<<Error(k)>>, Error(k))
        <5>1. PICK e \in Output : e = Error(k)
          BY <2>2, OutputTypes
        <5>2. <<e>> \in Seq(Output) /\ 1 \in 1 .. Len(<<e>>) /\ <<e>>[1] = e
          OBVIOUS
        <5> QED
          BY <5>1, <5>2 DEF Has
      <4> QED
        BY <2>1, <2>2, <3>1, <4>1, ConcatHas, EntriesHave DEF TypeOK
    <3>2. CASE ~Kept(k)
      BY <2>1, <2>2, <3>2, EmptySeq, ConcatHas, EntriesHave DEF TypeOK
    <3> QED
      BY <3>1, <3>2
  <2>4. \A o : Arrived(o) => Arrived(o)'
    BY <2>2, EmptyHas DEF Arrived
  <2>5. \A i \in Item : i # k => (EntriesDue(i) => EntriesDue(i)') /\ (ErrorDue(i) => ErrorDue(i)')
    BY <2>1, <2>2 DEF EntriesDue, ErrorDue, InHand
  <2>6. (\A i : Entries(i)' = Entries(i)) /\ (\A i : Kept(i)' <=> Kept(i))
    BY WorldKept
  <2>7. EntriesSafe'
    BY <1>3, <2>3, <2>4, <2>5, <2>6 DEF EntriesSafe, Arrived
  <2>8. ErrorsSafe'
    <3>1. \A i \in Item : Kept(i) => ErrorDue(i)' \/ Arrived(Error(i))'
      BY <1>3, <2>3, <2>4, <2>5 DEF ErrorsSafe, Arrived, Error
    <3> QED
      BY <2>6, <3>1 DEF ErrorsSafe
  <2> QED
    BY <2>2, <2>7, <2>8
<1>5. CASE StartThreaded
  <2>1. left = Item /\ left' = left /\ pc'[Driver] = "build" /\ UNCHANGED <<yielded, batch, channel>>
        /\ \A w \in Worker \ {Driver} : pc'[w] = pc[w] /\ pc[w] = "unborn"
    BY <1>5, ThreadAssumption DEF StartThreaded, Goto, LetGoInv, ThreadInv, TypeOK
  <2>2. EntriesSafe' /\ ErrorsSafe' /\ EndsAhead' /\ NobodyLeaves'
    BY <2>1 DEF EntriesSafe, ErrorsSafe, EndsAhead, NobodyLeaves, EntriesDue, ErrorDue, Unread
  <2> QED
    BY <2>2
<1>6. ASSUME left' = left, pc' = pc, \A o : Arrived(o) => Arrived(o)',
             state' = "threaded" => state = "threaded"
      PROVE  /\ EntriesSafe' /\ ErrorsSafe'
             /\ state' = "threaded" => EndsAhead' /\ NobodyLeaves'
  BY <1>3, <1>6, LossKept
<1>7. CASE StartRefused
  <2>1. \A o : Arrived(o) => Arrived(o)'
    <3>1. yielded = <<>> /\ UNCHANGED <<batch, channel>>
      BY <1>7 DEF StartRefused, LetGoInv
    <3> QED
      BY <3>1, EmptyHas DEF Arrived
  <2> QED
    BY <1>6, <1>7, <2>1 DEF StartRefused, threads
<1>8. CASE StepBatch
  <2>1. /\ Head(batch) \in Output
        /\ \A o : Has(batch, o) <=> o = Head(batch) \/ Has(Tail(batch), o)
    BY <1>8, TailHas, HeadTailProperties DEF StepBatch, TypeOK
  <2>2. \A o : Has(yielded', o) <=> Has(yielded, o) \/ o = Head(batch)
    BY <1>8, <2>1, AppendHas DEF StepBatch, Yield, TypeOK
  <2>3. \A o : Arrived(o) => Arrived(o)'
    BY <1>8, <2>1, <2>2 DEF StepBatch, Arrived
  <2> QED
    BY <1>6, <1>8, <2>3 DEF StepBatch, threads
<1>9. CASE Receive
  <2>1. batch = <<>> /\ channel # <<>> /\ Head(channel) # <<>> /\ Head(channel) \in Seq(Output)
    BY <1>9, EmptySeq, HeadTailProperties DEF Receive, LetGoInv, HandsInv, TypeOK
  <2>2. \A o : Sent(channel, o) <=> Has(Head(channel), o) \/ Sent(Tail(channel), o)
    BY <2>1, TailSent DEF TypeOK
  <2>3. /\ Head(Head(channel)) \in Output
        /\ \A o : Has(Head(channel), o) <=> o = Head(Head(channel)) \/ Has(Tail(Head(channel)), o)
    BY <2>1, TailHas, HeadTailProperties
  <2>4. \A o : Has(yielded', o) <=> Has(yielded, o) \/ o = Head(Head(channel))
    BY <1>9, <2>3, AppendHas DEF Receive, Yield, TypeOK
  <2>5. \A o : Arrived(o) => Arrived(o)'
    BY <1>9, <2>1, <2>2, <2>3, <2>4, EmptyHas DEF Receive, Arrived
  <2> QED
    BY <1>6, <1>9, <2>5 DEF Receive, threads
<1>10. CASE LetGo
  <2>1. batch = <<>> /\ channel = <<>>
    BY <1>2, <1>10 DEF LetGo, LetGoInv, LettingGo, Undisturbed
  <2>2. \A o : Arrived(o) => Arrived(o)'
    BY <1>10, <2>1 DEF LetGo, ReceiverDropped, Arrived
  <2> QED
    BY <1>6, <1>10, <2>2 DEF LetGo, threads
<1>11. CASE Join
  <2>1. UNCHANGED <<batch, channel, yielded>>
    BY <1>2, <1>11 DEF Join, StopInv, Undisturbed, End
  <2>2. \A o : Arrived(o) => Arrived(o)'
    BY <2>1 DEF Arrived
  <2> QED
    BY <1>6, <1>11, <2>2 DEF Join, threads, End
<1>12. CASE StartCancelled \/ SerialEnds \/ StepCancelled \/ StepOver \/ StepReceive \/ Disconnected
            \/ Close \/ StopWalk
  <2>1. UNCHANGED <<batch, channel, yielded, left, pc>> /\ (state' = "threaded" => state = "threaded")
    BY <1>12 DEF StartCancelled, SerialEnds, StepCancelled, StepOver, StepReceive, Disconnected, Close,
                 StopWalk, threads, End
  <2>2. \A o : Arrived(o) => Arrived(o)'
    BY <2>1 DEF Arrived
  <2> QED
    BY <1>6, <2>1, <2>2
<1> QED
  BY <1>4, <1>5, <1>7, <1>8, <1>9, <1>10, <1>11, <1>12 DEF ConsumerCall

LEMMA LossStep ==
  TypeOK /\ ThreadInv /\ LetGoInv /\ StopInv /\ HandsInv /\ LossInv /\ [Next]_vars => LossInv'
<1> SUFFICES ASSUME TypeOK, ThreadInv, LetGoInv, StopInv, HandsInv, LossInv, [Next]_vars
             PROVE  LossInv'
  OBVIOUS
<1>1. ASSUME NEW w \in Worker, WalkStep(w) \/ StartHelper(w) PROVE LossInv'
  BY <1>1, WalkLoss
<1>2. CASE ~\E w \in Worker : WalkStep(w) \/ StartHelper(w)
  <2>1. Still /\ world' = world
    BY <1>2, HandsStill, WorldConstant
  <2> QED
    BY <1>2, <2>1, ConsumerLoss, OthersLoss DEF Next
<1> QED
  BY <1>1, <1>2

\* With no thread left, nothing to take and nothing under way, what was not lost
\* has been yielded.
LEMMA AllYielded ==
  ASSUME TypeOK, NoThread, EntriesSafe, ErrorsSafe, left = {}, batch = <<>>, channel = <<>>
  PROVE  \A o \in Output : Wanted(o) => Has(yielded, o)
<1>1. \A i \in Item : ~EntriesDue(i) /\ ~ErrorDue(i)
  BY DEF EntriesDue, ErrorDue, InHand, NoThread
<1>2. \A o : Arrived(o) <=> Has(yielded, o)
  BY EmptyHas DEF Arrived
<1> QED
  BY <1>1, <1>2 DEF Wanted, EntriesSafe, ErrorsSafe

LEMMA CompleteKept ==
  ASSUME CompleteInv, world' = world, UNCHANGED <<yielded, outcome>>, outcome = "end" => joined' = joined
  PROVE  CompleteInv'
<1>1. (\A o : Wanted(o)' <=> Wanted(o)) /\ AbortErrors' = AbortErrors
  BY WorldKept
<1>2. AbortSeen' <=> AbortSeen
  BY <1>1 DEF AbortSeen
<1> QED
  BY <1>1, <1>2 DEF CompleteInv

\* The last step of a stream decides: whoever ends it finds nothing missing.
LEMMA CompleteStep ==
  TypeOK /\ ThreadInv /\ LetGoInv /\ StopInv /\ LossInv /\ CompleteInv /\ [Next]_vars => CompleteInv'
<1> SUFFICES ASSUME TypeOK, ThreadInv, LetGoInv, StopInv, LossInv, CompleteInv, [Next]_vars
             PROVE  CompleteInv'
  OBVIOUS
<1>0. world' = world
  BY WorldConstant
<1>1. (\A o : Wanted(o)' <=> Wanted(o)) /\ AbortErrors' = AbortErrors
  BY <1>0, WorldKept
<1>2. ASSUME outcome' # "end" PROVE CompleteInv'
  BY <1>2 DEF CompleteInv
<1>3. ASSUME NEW w \in Worker, WalkStep(w) \/ StartHelper(w) PROVE CompleteInv'
  BY <1>0, <1>3, WorkerAlive, CompleteKept DEF stream
<1>4. CASE DriverStep \/ CallNext \/ DropStream \/ Cancel \/ Gone \/ UNCHANGED vars
  BY <1>0, <1>4, OthersQuiet, CompleteKept
<1>5. CASE StartRefused
  <2>1. yielded = <<>> /\ outcome = "none"
    BY <1>5 DEF StartRefused, LetGoInv
  <2>2. CASE world.policy = "abort"
    <3>1. yielded' = <<SpawnError>> /\ SpawnError \in AbortErrors
      BY <1>5, <2>1, <2>2 DEF StartRefused, Yield, AbortErrors
    <3>2. 1 \in 1 .. Len(yielded') /\ yielded'[1] = SpawnError
      BY <3>1
    <3>3. AbortSeen'
      BY <1>1, <3>1, <3>2 DEF AbortSeen
    <3> QED
      BY <3>3 DEF CompleteInv
  <2>3. CASE world.policy # "abort"
    BY <1>2, <1>5, <2>1, <2>3 DEF StartRefused
  <2> QED
    BY <2>2, <2>3
<1>6. CASE SerialEnds
  <2>1. CASE token
    BY <1>2, <1>6, <2>1 DEF SerialEnds, End
  <2>2. CASE ~token
    <3>1. /\ batch = <<>> /\ left = {} /\ channel = <<>> /\ state = "serial" /\ NoThread /\ ~joined
          /\ world.policy # "abort" /\ Undisturbed /\ UNCHANGED <<yielded, joined>>
      BY <1>6, <2>2 DEF SerialEnds, End, LetGoInv, ThreadInv, Undisturbed, Quit
    <3>2. \A o \in Output : Wanted(o) => Has(yielded, o)
      BY <3>1, AllYielded DEF LossInv
    <3> QED
      BY <1>0, <1>1, <3>1, <3>2 DEF CompleteInv
  <2> QED
    BY <2>1, <2>2
<1>7. CASE StepOver
  <2>1. AbortSeen /\ UNCHANGED yielded
    BY <1>7 DEF StepOver, LetGoInv, ThreadInv
  <2>2. AbortSeen'
    BY <1>1, <2>1 DEF AbortSeen
  <2> QED
    BY <2>2 DEF CompleteInv
<1>8. CASE Join
  <2>1. CASE outcome' = "end" /\ outcome # "end"
    <3>1. /\ purpose = "ended" /\ abort = {} /\ ~token /\ ~joined /\ ~panic /\ UNCHANGED yielded
          /\ pc[Driver] = "ended" /\ batch = <<>> /\ channel = <<>> /\ state = "threaded"
      BY <1>8, <2>1 DEF Join, End, LetGoInv, LettingGo, ThreadInv
    <3>2. Undisturbed
      BY <3>1 DEF StopInv, Undisturbed, Quit
    <3>3. NoThread
      BY <3>1 DEF ThreadInv, HelpersJoined, NoThread
    <3>4. EntriesSafe /\ ErrorsSafe /\ EndsAhead /\ NobodyLeaves
      BY <3>1, <3>2 DEF LossInv
    <3>5. left = {}
      BY <3>1, <3>4, ThreadAssumption DEF NobodyLeaves
    <3>6. \A o \in Output : Wanted(o) => Has(yielded, o)
      BY <3>1, <3>3, <3>4, <3>5, AllYielded
    <3>7. \A i \in Item : ~EndsWalk(i)
      BY <3>3, <3>4, <3>5 DEF EndsAhead, Unread, InHand, NoThread
    <3>8. world.panics = {} /\ (world.policy = "abort" => world.fails = {})
      BY <3>7, WorldAssumption DEF EndsWalk, World, TypeOK
    <3> QED
      BY <1>0, <1>1, <3>1, <3>6, <3>8 DEF CompleteInv
  <2>2. CASE outcome' # "end"
    BY <1>2, <2>2
  <2>3. CASE outcome = "end"
    BY <1>8, <2>3 DEF Join, ThreadInv, LetGoInv, LettingGo
  <2> QED
    BY <2>1, <2>2, <2>3
<1>9. CASE StartCancelled
  BY <1>2, <1>9 DEF StartCancelled, End
<1>10. CASE StepBatch \/ Receive
  <2>1. outcome' # "end"
    BY <1>10 DEF StepBatch, Receive, LetGoInv
  <2> QED
    BY <1>2, <2>1
<1>11. CASE StartThreaded \/ SerialReads \/ StepCancelled \/ StepReceive \/ Disconnected \/ Close
            \/ StopWalk \/ LetGo
  BY <1>0, <1>11, CompleteKept
     DEF StartThreaded, SerialReads, StepCancelled, StepReceive, Disconnected, Close, StopWalk, LetGo
<1> QED
  BY <1>3, <1>4, <1>5, <1>6, <1>7, <1>8, <1>9, <1>10, <1>11 DEF Next, ConsumerCall

-----------------------------------------------------------------------------
(* The theorems.                                                           *)

\* The inductive invariant of the stream.
THEOREM Invariance == Spec => []IInv
<1>1. Init => IInv
  BY TypesInit, ThreadInit, LetGoInit, HandsInit, UniqueInit, LossInit DEF IInv
<1>2. IInv /\ [Next]_vars => IInv'
  BY TypesStep, ThreadStep, CloseStep, LetGoStep, StopStep, HandsStep, UniqueStep, SoundStep, LossStep,
     CompleteStep DEF IInv
<1> QED
  BY <1>1, <1>2, PTL DEF Spec

\* Types, and the bound of the channel.
THEOREM TypeCorrect == Spec => []TypeOK
<1>1. IInv => TypeOK
  BY DEF IInv
<1> QED
  BY <1>1, Invariance, PTL

\* Dropping the stream, or its last next(), leaves no thread of the walk behind.
THEOREM NoThreadLeft == Spec => []NoThreadOutlives
<1>1. IInv => NoThreadOutlives
  BY DEF IInv, ThreadInv, NoThreadOutlives, NoThread, HelpersJoined
<1> QED
  BY <1>1, Invariance, PTL

\* A consumer that lets go of a walk still being built is not forgotten.
THEOREM CloseNotForgotten == Spec => []CloseReachesWalk
<1>1. IInv => CloseReachesWalk
  BY ThreadAssumption DEF IInv, CloseInv, CloseReachesWalk, Walking, TypeOK
<1> QED
  BY <1>1, Invariance, PTL

\* An error that aborts the walk is the last item, and no item comes twice.
THEOREM AbortIsLast == Spec => []AbortErrorLast
<1>1. IInv => AbortErrorLast
  BY LenProperties DEF IInv, TypeOK, UniqueInv, SoundInv, Once, AbortErrorLast, IsInjective
<1> QED
  BY <1>1, Invariance, PTL

\* The counting form of the property, from membership and uniqueness.
LEMMA OnceCounted ==
  ASSUME TypeOK, Once(yielded), NEW o, Has(yielded, o)
  PROVE  Times(o) = 1
<1>1. PICK j \in 1 .. Len(yielded) : yielded[j] = o
  BY DEF Has
<1>2. {k \in 1 .. Len(yielded) : yielded[k] = o} = {j}
  BY <1>1 DEF Once
<1> QED
  BY <1>2, FS_Singleton DEF Times

LEMMA YieldedHas ==
  ASSUME TypeOK, NEW o
  PROVE  o \in ToSet(yielded) <=> Has(yielded, o)
  BY LenProperties DEF TypeOK, ToSet, Has

LEMMA WantedIs ==
  ASSUME TypeOK, NEW o
  PROVE  o \in AllEntries \cup KeptErrors <=> Wanted(o)
<1>1. \A i \in Item : Entries(i) \in Seq(Output)
  BY EntriesHave DEF TypeOK
<1>2. \A i \in Item : o \in ToSet(Entries(i)) <=> Has(Entries(i), o)
  BY <1>1, LenProperties DEF ToSet, Has
<1> QED
  BY <1>2 DEF AllEntries, KeptErrors, Wanted

\* A stream that ends neither cancelled nor with a panic or an abort error has
\* yielded every entry and every kept error once, whichever thread met it, and
\* nothing else but the refusal of its driver.
THEOREM EndIsComplete == Spec => []EndsComplete
<1>1. IInv => EndsComplete
  <2> SUFFICES ASSUME IInv, outcome = "end", ToSet(yielded) \cap AbortErrors = {}
               PROVE  /\ \A o \in AllEntries \cup KeptErrors : Times(o) = 1
                      /\ ToSet(yielded) \subseteq AllEntries \cup KeptErrors \cup {SpawnError}
                      /\ world.policy = "abort" => world.fails = {}
                      /\ joined => world.panics = {}
    BY DEF EndsComplete
  <2>1. TypeOK /\ Once(yielded) /\ world \in Worlds
    BY DEF IInv, UniqueInv, TypeOK
  <2>2. ~AbortSeen
    BY <2>1, YieldedHas DEF AbortSeen, Has
  <2>3. \A o \in AllEntries \cup KeptErrors : Has(yielded, o)
    BY <2>1, <2>2, WantedIs, WantedContinues DEF IInv, CompleteInv
  <2>4. \A o \in AllEntries \cup KeptErrors : Times(o) = 1
    BY <2>1, <2>3, OnceCounted
  <2>5. ASSUME NEW o \in ToSet(yielded) PROVE o \in AllEntries \cup KeptErrors \cup {SpawnError}
    <3>1. Has(yielded, o)
      BY <2>1, <2>5, YieldedHas
    <3>2. o \in Output
      BY <2>1, <3>1, ElementOfSeq DEF TypeOK, Has
    <3> QED
      BY <2>1, <2>5, <3>1, <3>2, WantedIs DEF IInv, SoundInv
  <2>6. /\ world.policy = "abort" => world.fails = {}
        /\ joined => world.panics = {}
    BY <2>2 DEF IInv, CompleteInv
  <2> QED
    BY <2>4, <2>5, <2>6
<1> QED
  BY <1>1, Invariance, PTL
=============================================================================
