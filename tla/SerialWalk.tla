----------------------------- MODULE SerialWalk -----------------------------
(***************************************************************************)
(* The two single-threaded frontends of lib.rs over one tree: WalkStream   *)
(* (the iterator of Walker::stream) and WalkState (collect and visit with  *)
(* one worker), with the directory descriptors that linux_native.rs keeps  *)
(* for suspended listings.  A step opens one directory, classifies one     *)
(* entry, ends one listing, or takes one task; between any two of them the *)
(* token may be set, other walks of the process may take or return         *)
(* descriptor permits, and one directory may be replaced.                  *)
(*                                                                         *)
(* Abstracted: what classify_entry decides about a path, what the visitor  *)
(* answers and which calls fail come from the world the walk starts in     *)
(* (Selection computes the decisions of some of them from patterns and     *)
(* rules); a replaced directory holds the same names as the old one; the   *)
(* identity of an open descriptor can always be read (fstat).              *)
(***************************************************************************)
EXTENDS Integers, FiniteSets, SequencesExt

CONSTANTS
  Dir, File,   \* the names of the tree, directory links among the first
  Roots,       \* the walk's roots, in the order they were added
  Listing,     \* Listing[d]: the names in directory d, in listing order
  Target,      \* Target[d]: the directory a path that ends in d reaches
  Worlds,      \* what the filters, the visitor and the system may answer
  Plans, NoPlan,  \* the filters that worlds were computed from, or none
  Stride,      \* CANCELLATION_STRIDE
  Limit        \* retained_directory_limit

Name == Dir \cup File
Key(path) == Target[Last(path)]
Names(path) == Listing[Key(path)]

ASSUME TreeAssumption ==
  /\ IsFiniteSet(Dir) /\ Roots \in Seq(Dir) /\ Roots # <<>>
  /\ Listing \in [Dir -> Seq(Name)] /\ Target \in [Dir -> Dir]
ASSUME BoundAssumption == Stride \in Nat \ {0} /\ Limit \in Nat

\* Every path a walk can meet: below a directory that closes no cycle.
Closed(path) == \E i \in 1 .. Len(path) - 1 : Target[path[i]] = Key(path)
Below(paths) == UNION {{Append(p, Names(p)[i]) : i \in DOMAIN Names(p)} :
                         p \in {q \in paths : Last(q) \in Dir /\ ~Closed(q)}}
Level[k \in 0 .. Cardinality(Dir)] ==
  IF k = 0 THEN {<<Roots[i]>> : i \in DOMAIN Roots} ELSE Below(Level[k - 1])
Path == UNION {Level[k] : k \in DOMAIN Level}

\* front: the frontend; follow: WalkOptions::follow_symlinks; relative:
\* allows_descriptor_relative_descent; may: what else can happen, the
\* directory "site" being the one that may be replaced; plan: see Selection.
World ==
  [front : {"stream", "collect"}, follow : BOOLEAN, relative : BOOLEAN,
   policy : {"abort", "skip", "collect"}, plan : Plans \cup {NoPlan},
   action : [Path -> {"skip", "emit", "descend", "both", "fail", "failDescend"}],
   verdict : [Name -> {"keep", "skip", "prune", "stop"}],
   fault : [Dir -> SUBSET {"carried", "key", "read", "rules", "deferred", "deferredToo"}],
   may : SUBSET {"cancel", "crowd", "replace"}, site : Dir]
\* Only directories are descended into, and without follow_symlinks, when a link
\* is no directory, none is its own ancestor.
ASSUME WorldAssumption ==
  /\ Worlds \subseteq World
  /\ \A w \in Worlds :
       /\ w.relative => ~w.follow
       /\ \A path \in Path : w.action[path] \in {"descend", "both", "failDescend"} =>
            Last(path) \in Dir /\ (w.follow \/ ~Closed(path))

VARIABLES
  world,      \* the world this walk meets, chosen once
  injector, local,  \* the roots collect has not begun, shared and taken over
  begun,      \* the roots whose directory task was taken, in order
  stack,      \* pending: the LIFO of tasks
  frame,      \* the listing the frontend is working on, or NoFrame
  stash,      \* WalkStream.pending_errors, the next one first
  items,      \* entries and errors handed out, in order
  turn,       \* "caller" between two calls of WalkStream::next
  stopped,    \* WalkStream.stopped
  cancelled,  \* the frontend's own flag
  token,      \* the caller's CancellationToken
  others,     \* permits held by the other walks of the process
  moved,      \* world.site has been replaced
  late,       \* the listings of the entries classified since the token was set
  outcome     \* "running", "ended", "failed" (Err) or "dropped"

roots == <<injector, local, begun>>
output == <<items, stash, turn, stopped, outcome>>
outside == <<token, others, moved>>
vars == <<world, roots, stack, frame, output, cancelled, outside, late>>

Streaming == world.front = "stream"
NoFrame == [kind |-> "none"]

\* A descriptor: the directory path it was opened for, the incarnation it
\* reaches, and whether it holds a permit (RetentionPermit).
NoFd == [permit |-> "none"]
Fd(path, inode, permit) == [permit |-> permit, path |-> path, inode |-> inode]
HasFd(fd) == fd # NoFd

\* A directory to open, a listing in progress and an entry to record after
\* its subtree (SerialTask).
DirectoryTask(path, chain, open) ==
  [kind |-> "dir", path |-> path, chain |-> chain, open |-> open]
RecordTask(path) == [kind |-> "record", path |-> path]
RootTask(r) == DirectoryTask(<<r>>, {}, NoFd)

Tasks == ToSet(stack) \cup {frame}
Frames == {t \in Tasks : t.kind = "frame"}
Inodes == {"old", "new"}
IsFd(fd) ==
  fd = NoFd \/ (fd.permit \in {"budgeted", "unbudgeted"} /\ fd.path \in Path /\ fd.inode \in Inodes)
TypeOK ==
  /\ {injector, local, begun} \subseteq Seq(ToSet(Roots))
  /\ frame = NoFrame \/ frame.kind = "frame"
  /\ \A t \in ToSet(stack) :
       /\ t.path \in Path /\ t.kind \in {"dir", "frame", "record"}
       /\ t.kind = "record" => ~Streaming
       /\ t.kind = "dir" => t.chain \subseteq Dir /\ IsFd(t.open)
  /\ \A f \in Frames :
       /\ f.path \in Path /\ f.chain \subseteq Dir /\ f.next \in 0 .. Len(Names(f.path))
       /\ f.inode \in Inodes /\ f.awaited \in Inodes \cup {"none"}
       /\ IsFd(f.fd) /\ f.held \in BOOLEAN
  /\ ~Streaming => stash = <<>> /\ turn = "walker"
  /\ turn \in {"caller", "walker"} /\ {stopped, cancelled, token, moved} \subseteq BOOLEAN
  /\ others \in 0 .. Limit /\ ToSet(late) \subseteq Path
  /\ outcome \in {"running", "ended", "failed", "dropped"}

\* root_tasks; the stream pops from the back, so it holds the roots reversed.
Init ==
  /\ world \in Worlds
  /\ injector = (IF Streaming THEN <<>> ELSE Roots) /\ local = <<>> /\ begun = <<>>
  /\ stack = IF Streaming THEN Reverse([i \in DOMAIN Roots |-> RootTask(Roots[i])]) ELSE <<>>
  /\ frame = NoFrame /\ stash = <<>> /\ items = <<>>
  /\ turn = IF Streaming THEN "caller" ELSE "walker"
  /\ stopped = FALSE /\ cancelled = FALSE /\ token = FALSE
  /\ others = 0 /\ moved = FALSE /\ late = <<>> /\ outcome = "running"

-----------------------------------------------------------------------------
(* Handing out entries and errors.                                         *)

\* Error policy: a root that cannot be read is kept even under Skip.
RootFailure(e) == e[1] \in {"key", "read", "lost"} /\ Len(e[2]) = 1
Kept(e) == world.policy = "collect" \/ (world.policy = "skip" /\ RootFailure(e))

HandOut(item) ==
  /\ items' = Append(items, item)
  /\ turn' = IF Streaming THEN "caller" ELSE turn
  /\ UNCHANGED <<stash, stopped, outcome>>
HandOutNothing == UNCHANGED output

\* WalkStream::error and queue_ignore_errors, WalkState::handle_error, for what
\* one step meets, the ignore errors of a directory and at most one failure:
\* under Abort the first error ends the walk, otherwise the stream hands out the
\* first it keeps and stashes the rest.
Report(ruleErrors, failure) ==
  LET errors == ruleErrors \o failure
      kept == (IF world.policy = "collect" THEN ruleErrors ELSE <<>>)
              \o (IF failure # <<>> /\ Kept(Head(failure)) THEN failure ELSE <<>>)
  IN
  IF world.policy = "abort" /\ errors # <<>>
  THEN /\ items' = Append(items, Head(errors)) /\ stopped' = TRUE
       /\ turn' = (IF Streaming THEN "caller" ELSE turn)
       /\ outcome' = (IF Streaming THEN outcome ELSE "failed")
       /\ UNCHANGED stash
  ELSE IF Streaming /\ kept # <<>>
  THEN /\ items' = Append(items, Head(kept)) /\ stash' = Tail(kept) \o stash /\ turn' = "caller"
       /\ UNCHANGED <<stopped, outcome>>
  ELSE items' = items \o kept /\ UNCHANGED <<stash, turn, stopped, outcome>>

-----------------------------------------------------------------------------
(* Descriptors: RetainedDirectory and the process-wide permit count.       *)

\* A clone of the Arc in a queued child and the one in its parent's listing are
\* one descriptor; its permit goes back when the last of them is dropped.
Descriptors ==
  ({f.fd : f \in Frames} \cup {t.open : t \in {u \in Tasks : u.kind = "dir"}}) \ {NoFd}
InUse == others + Cardinality({fd \in Descriptors : fd.permit = "budgeted"})

\* RetainedDirectory::retain, and the two ways its callers take a refusal:
\* after a read the descriptor is given up, after a restore it is kept.
Retain(path, inode, otherwise) ==
  IF InUse < Limit THEN Fd(path, inode, "budgeted") ELSE otherwise
RetainRead(path, inode) == Retain(path, inode, NoFd)
RetainRestored(path, inode) == Retain(path, inode, Fd(path, inode, "unbudgeted"))

\* Which incarnation a full path, or a name below a descriptor, reaches.
UnderSite(path) == world.site \in ToSet(path)
PathInode(path) == IF moved /\ UnderSite(path) THEN "new" ELSE "old"
OpenInode(task) ==
  IF ~HasFd(task.open) \/ Last(task.path) = world.site THEN PathInode(task.path)
                                                        ELSE task.open.inode

\* suspend_retained_directory: half of the budget stays free for what is below.
\* (Mutant: an unbudgeted descriptor is kept like any other.)
UnderPressure == InUse >= Limit \div 2
KeepsAny(f) == ~HasFd(f.fd) \/ ~UnderPressure \/ f.fd.permit = "unbudgeted"
KeepsFd(f) == ~HasFd(f.fd) \/ (f.fd.permit = "budgeted" /\ ~UnderPressure)
Suspended(f) == IF KeepsFd(f) THEN f ELSE [f EXCEPT !.fd = NoFd, !.awaited = f.fd.inode]

\* child_directory_open.
ChildTask(path) ==
  DirectoryTask(path, frame.chain, IF world.relative THEN frame.fd ELSE NoFd)

-----------------------------------------------------------------------------
(* Taking a task: WalkStream::next, Walker::walk and walk_directory.       *)

Running == outcome = "running" /\ turn = "walker"
Between == Running /\ frame = NoFrame /\ ~stopped
\* Only the stream looks at the token and its stash before every task.
MayTake == Between /\ (Streaming => ~token /\ stash = <<>>)
Top == Last(stack)
Takes(kind) == MayTake /\ stack # <<>> /\ Top.kind = kind
Pop == stack' = Front(stack)

NextCall ==
  /\ Streaming /\ outcome = "running" /\ turn = "caller"
  /\ turn' = "walker"
  /\ UNCHANGED <<world, roots, stack, frame, items, stash, stopped, outcome, cancelled, outside, late>>

\* Dropping the stream drops its tasks and their descriptors.
DropStream ==
  /\ Streaming /\ outcome = "running" /\ turn = "caller"
  /\ outcome' = "dropped" /\ stack' = <<>>
  /\ UNCHANGED <<world, roots, frame, items, stash, turn, stopped, cancelled, outside, late>>

\* next() returns None: stopped, cancelled, or nothing is left.
StreamEnds ==
  /\ Streaming /\ Running /\ frame = NoFrame
  /\ stopped \/ token \/ (stash = <<>> /\ stack = <<>>)
  /\ cancelled' = (cancelled \/ (token /\ ~stopped))
  /\ stopped' = (stopped \/ token)
  /\ outcome' = "ended"
  /\ UNCHANGED <<world, roots, stack, frame, items, stash, turn, outside, late>>

StashedError ==
  /\ Streaming /\ Between /\ ~token /\ stash # <<>>
  /\ items' = Append(items, Head(stash)) /\ stash' = Tail(stash) /\ turn' = "caller"
  /\ UNCHANGED <<world, roots, stack, frame, stopped, outcome, cancelled, outside, late>>

\* The scheduler's injector is asked before the deque it was split into.
TakeRoot ==
  /\ ~Streaming /\ Between /\ stack = <<>>
  /\ \/ /\ injector # <<>>
        /\ stack' = <<RootTask(Head(injector))>>
        /\ \E n \in 1 .. (Len(injector) + 1) \div 2 :
             /\ local' = local \o SubSeq(injector, 2, n)
             /\ injector' = SubSeq(injector, n + 1, Len(injector))
     \/ /\ injector = <<>> /\ local # <<>>
        /\ stack' = <<RootTask(Head(local))>> /\ local' = Tail(local)
        /\ UNCHANGED injector
  /\ begun' = Append(begun, Head(stack').path[1])
  /\ UNCHANGED <<world, frame, output, cancelled, outside, late>>

CollectEnds ==
  /\ ~Streaming /\ Between /\ stack = <<>> /\ injector = <<>> /\ local = <<>>
  /\ outcome' = "ended"
  /\ UNCHANGED <<world, roots, stack, frame, items, stash, turn, stopped, cancelled, outside, late>>

Record ==
  /\ Takes("record")
  /\ HandOut(<<"entry", Top.path>>)
  /\ Pop
  /\ UNCHANGED <<world, roots, frame, cancelled, outside, late>>

-----------------------------------------------------------------------------
(* Opening a directory: prepare_directory and start_directory.             *)

Is(path, fault) == fault \in world.fault[Last(path)]
Error(path, fault) == IF Is(path, fault) THEN <<<<fault, path>>>> ELSE <<>>

\* Only the root tasks carry the ignore errors of their repository.
Carried(path) == IF Len(path) = 1 THEN Error(path, "carried") ELSE <<>>

\* AncestorChain::enter closes a cycle, and nothing else.
\* (Mutant: a directory is entered when its parent is listed.)
Closes(task) == world.follow /\ ~Is(task.path, "key") /\ Key(task.path) \in task.chain
EnteredEarly(task) ==
  IF world.follow THEN task.chain \cup {Target[n] : n \in {Last(task.path)} \cup (ToSet(Names(task.path)) \cap Dir)}
                  ELSE task.chain
Entered(task) == IF world.follow THEN task.chain \cup {Key(task.path)} ELSE task.chain
OpenFails(task) == (world.follow /\ Is(task.path, "key")) \/ Is(task.path, "read")
Failure(task) ==
  <<IF world.follow /\ Is(task.path, "key") THEN "key" ELSE "read", task.path>>

\* collect drops the tasks it takes once the token is set.
DropTask ==
  /\ Takes("dir") /\ ~Streaming /\ (cancelled \/ token)
  /\ cancelled' = TRUE /\ Pop
  /\ UNCHANGED <<world, roots, frame, output, outside, late>>

Opens == Takes("dir") /\ (Streaming \/ ~(cancelled \/ token))

CloseCycle ==
  /\ Opens /\ Closes(Top)
  /\ IF Streaming THEN HandOutNothing ELSE Report(Carried(Top.path), <<>>)
  /\ Pop
  /\ UNCHANGED <<world, roots, frame, cancelled, outside, late>>

\* The stream returns the failure with the carried errors still in the task,
\* collect has reported them before it tried.
FailOpen ==
  /\ Opens /\ ~Closes(Top) /\ OpenFails(Top)
  /\ Report(IF Streaming THEN <<>> ELSE Carried(Top.path), <<Failure(Top)>>)
  /\ Pop
  /\ UNCHANGED <<world, roots, frame, cancelled, outside, late>>

\* The parent's descriptor is still held while the child's is counted.
FirstFrame(task) ==
  LET fd == RetainRead(task.path, OpenInode(task)) IN
  [kind |-> "frame", path |-> task.path, chain |-> Entered(task), next |-> 0,
   inode |-> OpenInode(task), fd |-> fd, held |-> HasFd(fd), awaited |-> "none"]

Open ==
  /\ Opens /\ ~Closes(Top) /\ ~OpenFails(Top)
  /\ stack' = Append(Front(stack), FirstFrame(Top))
  /\ Report(Carried(Top.path) \o Error(Top.path, "rules"), <<>>)
  /\ UNCHANGED <<world, roots, frame, cancelled, outside, late>>

-----------------------------------------------------------------------------
(* Working through a listing: the two resume_directory.                    *)

\* restore_retained_directory: a released descriptor is opened again by path,
\* for a listing that has entries left.  (Mutant: whatever the path reaches.)
Reopens(f) == f.next < Len(Names(f.path)) /\ ~HasFd(f.fd) /\ f.awaited # "none"
AnyInode(f) == TRUE
Recognized(f) == PathInode(f.path) = f.awaited

Resume ==
  /\ Takes("frame") /\ (Reopens(Top) => Recognized(Top))
  /\ frame' = [Top EXCEPT !.awaited = "none",
                          !.fd = IF Reopens(Top) THEN RetainRestored(Top.path, PathInode(Top.path))
                                                 ELSE @]
  /\ Pop
  /\ UNCHANGED <<world, roots, output, cancelled, outside, late>>

\* (Mutant: the listing ends without a word.)
LoseQuietly ==
  /\ Takes("frame") /\ Reopens(Top) /\ ~Recognized(Top)
  /\ HandOutNothing /\ Pop
  /\ UNCHANGED <<world, roots, frame, cancelled, outside, late>>
LoseListing ==
  /\ Takes("frame") /\ Reopens(Top) /\ ~Recognized(Top)
  /\ Report(<<>>, <<<<"lost", Top.path>>>>)
  /\ Pop
  /\ UNCHANGED <<world, roots, frame, cancelled, outside, late>>

InListing == Running /\ frame # NoFrame /\ frame.next < Len(Names(frame.path))
\* (Mutant: only when a listing begins.)
PollsOnce == frame.next = 0
Polls == frame.next % Stride = 0
Halts == (~Streaming /\ cancelled) \/ (Polls /\ token)
Entry == Append(frame.path, Names(frame.path)[frame.next + 1])
Action == world.action[Entry]
\* (Mutant: the entry that made the frame stop is counted twice.)
PassedTwo == [frame EXCEPT !.next = @ + 2]
Passed == [frame EXCEPT !.next = @ + 1]
Classified(actions) ==
  /\ InListing /\ ~Halts /\ Action \in actions
  /\ late' = IF token THEN Append(late, frame.path) ELSE late

Halt ==
  /\ InListing /\ Halts
  /\ cancelled' = TRUE /\ stopped' = (stopped \/ Streaming)
  /\ frame' = NoFrame
  /\ UNCHANGED <<world, roots, stack, items, stash, turn, outcome, outside, late>>

\* The frame stays in hand, or goes back under the given tasks.
StayInListing == frame' = Passed /\ UNCHANGED stack
Pause(f, above) == frame' = NoFrame /\ stack' = Append(stack, f) \o above

SkipEntry ==
  /\ Classified({"skip"}) /\ StayInListing
  /\ UNCHANGED <<world, roots, output, cancelled, outside>>

\* Only collect asks the visitor, and goes on with the listing.
Verdict == world.verdict[Last(Entry)]
EmitEntry ==
  /\ Classified({"emit"})
  /\ IF Streaming
     THEN HandOut(<<"entry", Entry>>) /\ Pause(Passed, <<>>) /\ UNCHANGED cancelled
     ELSE /\ IF Verdict = "keep" THEN HandOut(<<"entry", Entry>>) ELSE HandOutNothing
          /\ cancelled' = (cancelled \/ Verdict = "stop")
          /\ StayInListing
  /\ UNCHANGED <<world, roots, outside>>

Descend(kept) ==
  Pause(Suspended(Passed), (IF kept THEN <<RecordTask(Entry)>> ELSE <<>>) \o <<ChildTask(Entry)>>)

DescendEntry ==
  /\ Classified({"descend"}) /\ Descend(FALSE)
  /\ UNCHANGED <<world, roots, output, cancelled, outside>>

\* The stream hands out a directory before its subtree, collect after it.
EmitAndDescend ==
  /\ Classified({"both"})
  /\ IF Streaming
     THEN HandOut(<<"entry", Entry>>) /\ Descend(FALSE) /\ UNCHANGED cancelled
     ELSE /\ HandOutNothing
          /\ cancelled' = (cancelled \/ Verdict = "stop")
          /\ IF Verdict \in {"prune", "stop"} THEN StayInListing ELSE Descend(Verdict = "keep")
  /\ UNCHANGED <<world, roots, outside>>

\* An error that stops the stream, or the walk, ends the listing; one that is
\* handed out puts the frame back.
FailEntry ==
  /\ Classified({"fail", "failDescend"})
  /\ Report(<<>>, <<<<"entry failed", Entry>>>>)
  /\ IF world.policy = "abort" THEN frame' = NoFrame /\ UNCHANGED stack
     ELSE IF Action = "failDescend" THEN Descend(FALSE)
     ELSE IF Streaming /\ world.policy = "collect" THEN Pause(Passed, <<>>)
     ELSE StayInListing
  /\ UNCHANGED <<world, roots, cancelled, outside>>

\* The deferred errors of a listing come after its entries.
EndListing ==
  /\ Running /\ frame # NoFrame /\ frame.next = Len(Names(frame.path))
  /\ Report(Error(frame.path, "deferred") \o Error(frame.path, "deferredToo"), <<>>)
  /\ frame' = NoFrame
  /\ UNCHANGED <<world, roots, stack, cancelled, outside, late>>

-----------------------------------------------------------------------------
(* The rest of the process.                                                *)

Cancel ==
  /\ "cancel" \in world.may /\ outcome = "running" /\ ~token
  /\ token' = TRUE
  /\ UNCHANGED <<world, roots, stack, frame, output, cancelled, others, moved, late>>

Crowd ==
  /\ "crowd" \in world.may /\ outcome = "running"
  /\ \/ InUse < Limit /\ others' = others + 1
     \/ others > 0 /\ others' = others - 1
  /\ UNCHANGED <<world, roots, stack, frame, output, cancelled, token, moved, late>>

Replace ==
  /\ "replace" \in world.may /\ outcome = "running" /\ ~moved
  /\ moved' = TRUE
  /\ UNCHANGED <<world, roots, stack, frame, output, cancelled, token, others, late>>

Done == outcome # "running" /\ UNCHANGED vars

Walk ==
  \/ StreamEnds \/ StashedError \/ TakeRoot \/ CollectEnds \/ Record
  \/ DropTask \/ CloseCycle \/ FailOpen \/ Open
  \/ Resume \/ LoseListing \/ Halt \/ SkipEntry \/ EmitEntry \/ DescendEntry \/ EmitAndDescend
  \/ FailEntry \/ EndListing
Next == Walk \/ NextCall \/ DropStream \/ Cancel \/ Crowd \/ Replace \/ Done

Spec == Init /\ [][Next]_vars

-----------------------------------------------------------------------------
(* Properties of the descriptors and of cancellation.                      *)

\* RetentionPermit (linux_native.rs:191-199): whatever other walks do, permits
\* never exceed the limit, and a serial walk holds at most one descriptor
\* outside the budget, across suspension, restoration and queued children.
WithinBudget ==
  /\ InUse <= Limit
  /\ Cardinality({fd \in Descriptors : fd.permit = "unbudgeted"}) <= 1

\* restore_retained_directory: below a listing that was read with a retained
\* descriptor, nothing is read from a directory that took its place while the
\* listing was suspended.
OneTree ==
  \A parent, child \in Frames :
    (/\ world.relative /\ parent.held
     /\ parent.path = Front(child.path) /\ Last(child.path) # world.site)
    => child.inode = parent.inode

\* usage.md:479-483: the token is read "once every 64 entries" of a listing.
\* After a cancellation each listing under way yields a stride of entries at
\* most, however often it is suspended and resumed.  (All of them together may
\* yield more than the stride per worker that the page promises.)
StopsByStride ==
  \A path \in ToSet(late) : Cardinality({i \in DOMAIN late : late[i] = path}) <= Stride
=============================================================================
