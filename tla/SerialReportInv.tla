--------------------------- MODULE SerialReportInv ---------------------------
(***************************************************************************)
(* The inductive invariant behind Delivers and LostIsReported: which items *)
(* each task still owes, that the tasks owe them in the order of the       *)
(* descent, and that what is owed by none was handed out or is accounted   *)
(* for.                                                                    *)
(***************************************************************************)
EXTENDS SerialReport, SerialWalkInv

-----------------------------------------------------------------------------
(* What a task owes.                                                       *)

AtClosing == {"deferred", "deferredToo"}
AtOpening == {"carried", "key", "read", "rules"}

Owes(t, item) ==
  \/ t.kind = "record" /\ item[1] = "entry" /\ item[2] = t.path
  \/ /\ t.kind = "dir"
     /\ \/ item[2] = t.path /\ item[1] \in AtOpening \cup AtClosing
        \/ IsStrictPrefix(t.path, item[2])
  \/ /\ t.kind = "frame"
     /\ \/ item[2] = t.path /\ item[1] \in AtClosing
        \/ \E k \in DOMAIN Names(t.path) :
             k > t.next /\ IsPrefix(Append(t.path, Names(t.path)[k]), item[2])

\* A task stands where the descent comes to.
Placed(t) ==
  /\ t.kind = "dir" => Met(t.path) /\ Descended(t.path)
  /\ t.kind = "frame" => Met(t.path) /\ Descended(t.path) /\ Listed(t.path)
  /\ t.kind = "record" => <<"entry", t.path>> \in Promised
PlaceInv == \A t \in Tasks : Placed(t)

\* What lies further up the stack is owed first.
Ahead(t, u) ==
  \A a, b \in Promised : Owes(t, a) /\ Owes(u, b) => Before(a, b)
AgendaInv ==
  /\ \A i, j \in DOMAIN stack : i < j => Ahead(stack[j], stack[i])
  /\ \A i \in DOMAIN stack : Ahead(frame, stack[i])

-----------------------------------------------------------------------------
(* What was handed out.                                                    *)

\* The items, and those the stream still has to return.
Out == items \o stash
IsLost(item) == item[1] = "lost"
Items == (ItemKinds \cup {"lost"}) \X Path

OutInv ==
  /\ items \in Seq(Items) /\ stash \in Seq(Items)
  /\ \A i \in DOMAIN Out : ~IsLost(Out[i]) =>
       /\ Out[i] \in Promised
       /\ \A j \in DOMAIN Out : i < j /\ ~IsLost(Out[j]) => Before(Out[i], Out[j])
       /\ \A t \in Tasks : \A item \in Promised : Owes(t, item) => Before(Out[i], item)
  /\ \A i \in DOMAIN Out : IsLost(Out[i]) => moved

-----------------------------------------------------------------------------
(* Where a walk stands when it stops.                                      *)

\* Only a running walk has a listing in hand, and then owes no error; an error
\* that aborts is the last item, and stops the walk.
StopInv ==
  /\ frame # NoFrame => turn = "walker" /\ outcome = "running" /\ ~stopped /\ stash = <<>>
  /\ world.policy = "abort" =>
       stash = <<>> /\ \A i \in DOMAIN items : IsError(items[i]) => i = Len(items) /\ stopped
  /\ stopped /\ ~cancelled => Aborts
  /\ outcome = "failed" => Aborts
  /\ stopped /\ ~Streaming => outcome = "failed"
  /\ outcome = "ended" /\ ~cancelled /\ ~stopped =>
       stash = <<>> /\ stack = <<>> /\ (~Streaming => injector = <<>> /\ local = <<>>)

\* Every root of collect is in one place.
RootInv ==
  ~Streaming =>
    /\ ToSet(injector) \cup ToSet(local) \cup ToSet(begun) = ToSet(Roots)
    /\ IsInjective(injector) /\ IsInjective(local) /\ IsInjective(begun)
    /\ ToSet(injector) \cap ToSet(local) = {}
    /\ (ToSet(injector) \cup ToSet(local)) \cap ToSet(begun) = {}

\* As long as nothing was replaced, nothing is read from a replacement.
InodeInv ==
  ~moved => /\ \A f \in Frames : f.inode = "old"
            /\ \A t \in Tasks : HasFd(FdOf(t)) => FdOf(t).inode = "old"

-----------------------------------------------------------------------------
(* Nothing is missing.                                                     *)

Waiting(item) == item \in ToSet(Out) \/ \E t \in Tasks : Owes(t, item)
BelowLost(item) ==
  \E path \in Path : <<"lost", path>> \in ToSet(items) /\ IsPrefix(path, item[2])
CompleteInv ==
  ~cancelled /\ outcome # "dropped" =>
    \A item \in Due :
      \/ Waiting(item)
      \/ moved /\ (world.policy = "skip" \/ BelowLost(item))
      \/ stopped /\ (moved \/ CutOff(item))

RInv == PlaceInv /\ AgendaInv /\ OutInv /\ StopInv /\ RootInv /\ InodeInv /\ CompleteInv
=============================================================================
