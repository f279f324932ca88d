---------------------------- MODULE SerialReport ----------------------------
(***************************************************************************)
(* What a serial walk promises to hand out: the items of the recursive     *)
(* descent that the comments of WalkState::resume_directory compare the    *)
(* two iterative frontends to, as a set and its order, and the properties  *)
(* that hold them to it.                                                   *)
(***************************************************************************)
EXTENDS SerialWalk

\* Names stand for places: one stands once in its listing, and every root has its
\* own, as DirectoryTask::root tells the roots apart (a directory that is added
\* twice has two names with one Target).
ASSUME NamesAssumption ==
  /\ \A d \in Dir : IsInjective(Listing[d])
  /\ IsInjective(Roots)

-----------------------------------------------------------------------------
(* Which items the descent meets.                                          *)

\* A directory is read unless it closes a cycle or a call fails.
Walked(path) == ~(world.follow /\ Closed(path))
KeyFails(path) == world.follow /\ Is(path, "key")
ReadFails(path) == ~KeyFails(path) /\ Walked(path) /\ Is(path, "read")
Listed(path) == ~KeyFails(path) /\ Walked(path) /\ ~Is(path, "read")

\* The stream asks no visitor.
Answer(path) == IF Streaming THEN "keep" ELSE world.verdict[Last(path)]
IsRoot(path) == Len(path) = 1
Descended(path) ==
  \/ IsRoot(path)
  \/ world.action[path] \in {"descend", "failDescend"}
  \/ world.action[path] = "both" /\ Answer(path) \in {"keep", "skip"}

WalkedRoots == IF Streaming THEN Roots ELSE begun
\* Everything above has been listed.
Met(path) ==
  /\ path[1] \in ToSet(WalkedRoots)
  /\ \A n \in 1 .. Len(path) - 1 :
       LET above == SubSeq(path, 1, n) IN Descended(above) /\ Listed(above)

\* What the descent says of a path it has met.
Yields(kind, path) ==
  \/ /\ kind = "entry failed" /\ ~IsRoot(path)
     /\ world.action[path] \in {"fail", "failDescend"}
  \/ /\ kind = "entry" /\ ~IsRoot(path)
     /\ world.action[path] \in {"emit", "both"} /\ Answer(path) = "keep"
  \/ kind = "carried" /\ IsRoot(path) /\ Is(path, "carried")
  \/ kind = "key" /\ Descended(path) /\ KeyFails(path)
  \/ kind = "read" /\ Descended(path) /\ ReadFails(path)
  \/ /\ kind \in {"rules", "deferred", "deferredToo"}
     /\ Descended(path) /\ Listed(path) /\ Is(path, kind)

IsError(item) == item[1] # "entry"
Reportable(item) == IsError(item) /\ world.policy = "skip" => RootFailure(item)
ItemKinds ==
  {"entry failed", "entry", "carried", "key", "read", "rules", "deferred", "deferredToo"}
Promised ==
  {item \in ItemKinds \X Path :
     Met(item[2]) /\ Yields(item[1], item[2]) /\ Reportable(item)}

-----------------------------------------------------------------------------
(* In which order.                                                         *)

\* What comes before and after the inside of a directory: the stream hands a
\* directory out before its subtree, collect records it afterwards.
Inside == 6
Phase(kind) ==
  CASE kind = "entry failed" -> 1
    [] kind = "entry" -> IF Streaming THEN 2 ELSE 9
    [] kind = "carried" -> 3
    [] kind \in {"key", "read"} -> 4
    [] kind = "rules" -> 5
    [] kind = "deferred" -> 7
    [] OTHER -> 8

\* Two paths part where one listing, or the roots, name one before the other.
Siblings(path) == IF path = <<>> THEN WalkedRoots ELSE Names(path)
Left(p, q) ==
  \E n \in 0 .. Len(p) - 1 :
    LET above == SubSeq(p, 1, n) IN
    \E i, j \in DOMAIN Siblings(above) :
      i < j /\ IsPrefix(Append(above, Siblings(above)[i]), p)
            /\ IsPrefix(Append(above, Siblings(above)[j]), q)

Before(a, b) ==
  \/ Left(a[2], b[2])
  \/ a[2] = b[2] /\ Phase(a[1]) < Phase(b[1])
  \/ IsStrictPrefix(a[2], b[2]) /\ Phase(a[1]) < Inside
  \/ IsStrictPrefix(b[2], a[2]) /\ Inside < Phase(b[1])

-----------------------------------------------------------------------------
(* The properties.                                                         *)

Finished == outcome \in {"ended", "failed"} /\ ~cancelled

\* The ignore errors of a root that cannot be read: the stream drops them with
\* the root's task (see FrontendsAgree).
Forgotten(item) ==
  Streaming /\ item[1] = "carried" /\ (KeyFails(item[2]) \/ ReadFails(item[2]))
Due == {item \in Promised : ~Forgotten(item)}

\* Under Abort the first error is the last item, and nothing after it is owed.
Aborts == world.policy = "abort" /\ items # <<>> /\ IsError(Last(items))
CutOff(item) == Aborts /\ Before(Last(items), item)

\* At every point of a walk, and however it ends, what has been handed out are
\* items of the recursive descent in its order, a directory's items in the order
\* of its listing with those of its subtrees in between, and nothing comes twice:
\* not after a cancellation, when collect still records the directories it had
\* kept, nor when listings are lost or the stream is dropped.  A walk that was
\* neither cancelled nor dropped hands out every entry and every error; the
\* error policy only removes errors, or ends the walk with the first.
Delivers ==
  /\ \A i, j \in DOMAIN items :
       /\ items[i][1] # "lost" => items[i] \in Promised
       /\ i < j /\ "lost" \notin {items[i][1], items[j][1]} =>
            Before(items[i], items[j]) /\ ~Before(items[j], items[i])
       /\ i < j /\ world.policy = "abort" => ~IsError(items[i])
  /\ Finished /\ ~moved => /\ \A item \in Due : item \in ToSet(items) \/ CutOff(item)
                           /\ ToSet(WalkedRoots) = ToSet(Roots)
                              \/ outcome = "failed"

\* resume_directory: a listing that cannot be resumed is "a directory read
\* failure like any other"; nothing is missing from a walk that ends by
\* itself but what lies below a listing it reported.
LostIsReported ==
  (Finished /\ ~stopped /\ outcome = "ended" /\ world.policy # "skip") =>
    \A item \in Due \ ToSet(items) :
      \E path \in Path : <<"lost", path>> \in ToSet(items) /\ IsPrefix(path, item[2])

\* "They have to report the same entries and the same errors for the same tree
\* under every policy" (lib.rs:5602-5604, of collect, stream and visit): what
\* a root carries is reported whether or not the root can then be read.
FrontendsAgree ==
  Finished /\ ~moved /\ world.policy = "collect" =>
    {e \in ToSet(items) : IsError(e)} = {e \in Promised : IsError(e)}
=============================================================================
