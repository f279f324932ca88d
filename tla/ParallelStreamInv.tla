-------------------------- MODULE ParallelStreamInv --------------------------
(***************************************************************************)
(* The inductive invariant behind the properties of ParallelStream: who    *)
(* may be where, where each output is on its way from the tree to the      *)
(* consumer, and what excuses one that is missing.                         *)
(***************************************************************************)
EXTENDS ParallelStream

NoThread == \A w \in Worker : pc[w] \in {"unborn", "ended"}
Walking == {"idle", "read", "report", "flush", "send", "unwind", "join"}
LettingGo == consumer \in {"close", "stop", "letgo", "join"}

\* There are threads only while the stream is threaded and has not joined.
ThreadInv ==
  /\ consumer = "recv" \/ LettingGo => state = "threaded"
  /\ state # "threaded" => NoThread
  /\ state = "idle" => \A w \in Worker : pc[w] = "unborn"
  /\ state = "threaded" => pc[Driver] # "unborn"
  /\ joined => state \notin {"idle", "serial"} /\ pc[Driver] = "ended"
  /\ state = "threaded" /\ consumer \in {"out", "next", "recv"} /\ ~receiver => joined
  /\ outcome # "none" => state = "done" \/ joined
  /\ consumer = "gone" => state # "threaded" \/ joined
  /\ pc[Driver] \in {"finish", "ended"} => HelpersJoined

\* While the driver walks, either its stop is attached or the consumer closed,
\* and then one of the two carries the stop out.
CloseInv ==
  /\ attached => ~closed
  /\ consumer = "stop" => closed
  /\ pc[Driver] = "carryout" => closed
  /\ pc[Driver] \in Walking => attached \/ stopped \/ (closed /\ consumer = "stop")

-----------------------------------------------------------------------------
(* The consumer's side of the hand-over.                                   *)

\* The walk was abandoned, and nobody will call its result complete.
Quit == purpose \in {"cancelled", "dropping"}
AbortSeen == \E k \in 1 .. Len(yielded) : yielded[k] \in AbortErrors

LetGoInv ==
  /\ consumer \in {"next", "recv"} => state # "done" /\ outcome = "none"
  /\ consumer \in {"out", "next", "recv"} /\ state # "done" /\ outcome = "none" => ~Quit
  /\ outcome \in {"end", "cancelled"} => state = "done"
  /\ consumer = "recv" => receiver /\ batch = <<>>
  /\ consumer = "join" => ~receiver /\ batch = <<>> /\ channel = <<>>
  /\ joined => ~receiver /\ batch = <<>> /\ channel = <<>>
  /\ LettingGo => Quit \/ purpose = "ended"
  /\ LettingGo /\ purpose = "ended" =>
       ~joined /\ pc[Driver] = "ended" /\ channel = <<>> /\ batch = <<>>
  /\ closed \/ (~receiver /\ state = "threaded") => Quit \/ pc[Driver] = "ended"
  /\ state = "threaded" /\ joined /\ consumer \in {"out", "next"} /\ outcome = "none" => AbortSeen
  /\ state = "idle" => yielded = <<>> /\ batch = <<>> /\ left = Item /\ ~closed
  /\ state \in {"idle", "serial"} => channel = <<>> /\ purpose = "none" /\ ~stopped
  /\ state = "serial" => world.policy # "abort"

\* A walk is stopped for a reason the consumer learns of, or asked for.
StopInv ==
  /\ stopped => abort # {} \/ panic \/ Quit
  /\ abort # {} \/ panic => stopped
  /\ abort # {} => world.policy = "abort"

-----------------------------------------------------------------------------
(* Where an output is.                                                     *)

Has(s, output) == \E k \in 1 .. Len(s) : s[k] = output
Once(s) == \A j, k \in 1 .. Len(s) : s[j] = s[k] => j = k
Sent(messages, output) == \E m \in 1 .. Len(messages) : Has(messages[m], output)
SentOnce(messages) ==
  /\ \A m \in 1 .. Len(messages) : Once(messages[m])
  /\ \A m, n \in 1 .. Len(messages), o \in Output :
       Has(messages[m], o) /\ Has(messages[n], o) => m = n

InHand(i, labels) == \E w \in Worker : item[w] = i /\ pc[w] \in labels
EntriesDue(i) == i \in left \/ InHand(i, {"read", "report", "flush", "send", "unwind"})
ErrorDue(i) == i \in left \/ InHand(i, {"read", "report", "unwind"})
Unread(i) == i \in left \/ InHand(i, {"read", "unwind"})
Due(o) == \E i \in Item : (Has(Entries(i), o) /\ EntriesDue(i)) \/ (o = Error(i) /\ ErrorDue(i))

Holds(w) == Busy(w) \/ pc[w] = "unwind"
Wanted(o) == \E i \in Item : Has(Entries(i), o) \/ (o = Error(i) /\ Kept(i))

\* What is sent is never empty, and a directory is in one pair of hands.
HandsInv ==
  /\ \A m \in 1 .. Len(channel) : channel[m] # <<>>
  /\ \A w \in Worker : pc[w] = "send" => Entries(item[w]) # <<>>
  /\ \A w \in Worker : pc[w] = "report" => Kept(item[w])
  /\ \A w \in Worker : Holds(w) => item[w] \notin left
  /\ \A v, w \in Worker : Holds(v) /\ Holds(w) /\ item[v] = item[w] => v = w
  /\ abort \cap left = {}

\* An output is in one place, once.
UniqueInv ==
  /\ Once(yielded) /\ Once(batch) /\ SentOnce(channel)
  /\ \A o \in Output :
       /\ Has(yielded, o) => ~Has(batch, o) /\ ~Sent(channel, o) /\ ~Due(o)
       /\ Has(batch, o) => ~Sent(channel, o) /\ ~Due(o)
       /\ Sent(channel, o) => ~Due(o)

\* Nothing but what the policy keeps is on its way.
SoundInv ==
  /\ \A o \in Output : Has(batch, o) \/ Sent(channel, o) => Wanted(o)
  /\ \A o \in Output : Has(yielded, o) => Wanted(o) \/ o = SpawnError \/ o \in AbortErrors
  /\ \A k \in 1 .. Len(yielded) : yielded[k] \in AbortErrors => k = Len(yielded)
  /\ AbortSeen => state = "done" \/ joined

-----------------------------------------------------------------------------
(* What is not lost.                                                       *)

Undisturbed == ~stopped /\ ~token /\ ~Quit
Arrived(o) == Has(yielded, o) \/ Has(batch, o) \/ Sent(channel, o)

EntriesSafe == \A i \in Item : \A o \in Output : Has(Entries(i), o) => EntriesDue(i) \/ Arrived(o)
ErrorsSafe == \A i \in Item : Kept(i) => ErrorDue(i) \/ Arrived(Error(i))

\* A directory that ends the walk, with a panic or an error that aborts.
EndsWalk(i) == i \in world.panics \/ (i \in world.fails /\ world.policy = "abort")
EndsAhead == \A i \in Item : EndsWalk(i) => Unread(i)
NobodyLeaves ==
  \A w \in Worker : pc[w] \in {"join", "finish", "ended"} => left = {} /\ \A v \in Worker : ~Busy(v)

\* Until something stops the walk every output is still due or has arrived, a
\* directory that ends the walk is still to be read, and nobody leaves before
\* everything is taken and released.
LossInv ==
  Undisturbed /\ state # "done" =>
    /\ EntriesSafe /\ ErrorsSafe
    /\ state = "threaded" => EndsAhead /\ NobodyLeaves

CompleteInv ==
  outcome = "end" /\ ~AbortSeen =>
    /\ \A o \in Output : Wanted(o) => Has(yielded, o)
    /\ world.policy = "abort" => world.fails = {}
    /\ joined => world.panics = {}

IInv ==
  /\ TypeOK /\ ThreadInv /\ CloseInv /\ LetGoInv /\ StopInv /\ HandsInv
  /\ UniqueInv /\ SoundInv /\ LossInv /\ CompleteInv
=============================================================================
