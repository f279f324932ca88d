---------------------------- MODULE SerialWalkInv ----------------------------
(***************************************************************************)
(* The inductive invariant behind the properties of SerialWalk: what is on *)
(* the stack above what, where a descent stands, which descriptor belongs  *)
(* to which listing, and how far a listing got since the token was set.    *)
(***************************************************************************)
EXTENDS SerialWalk

Fds == {NoFd} \cup [permit : {"budgeted", "unbudgeted"}, path : Path, inode : Inodes]
DirTasks == [kind : {"dir"}, path : Path, chain : SUBSET Dir, open : Fds]
RecordTasks == [kind : {"record"}, path : Path]
FrameTasks ==
  [kind : {"frame"}, path : Path, chain : SUBSET Dir, next : Nat, inode : Inodes, fd : Fds,
   held : BOOLEAN, awaited : Inodes \cup {"none"}]
Task == DirTasks \cup RecordTasks \cup FrameTasks

TaskInv ==
  /\ world \in Worlds /\ stack \in Seq(Task) /\ frame \in FrameTasks \cup {NoFrame}
  /\ \A t \in ToSet(stack) : t.kind = "record" => ~Streaming
  /\ \A f \in Frames : f.next <= Len(Names(f.path))

\* The other variables of TypeOK; nothing else holds a permit than "others" and
\* the descriptors.
RestInv ==
  /\ injector \in Seq(ToSet(Roots)) /\ local \in Seq(ToSet(Roots)) /\ begun \in Seq(ToSet(Roots))
  /\ ~Streaming => stash = <<>> /\ turn = "walker"
  /\ turn \in {"caller", "walker"} /\ {stopped, cancelled, token, moved} \subseteq BOOLEAN
  /\ others \in Nat /\ outcome \in {"running", "ended", "failed", "dropped"}

-----------------------------------------------------------------------------
(* The stack.                                                              *)

Deeper(s, t) == Len(s.path) < Len(t.path)

\* The listings form one descent, the one in hand below all others.  A directory
\* still to be opened is a root, or was pushed by the last step.
ShapeInv ==
  /\ \A i, j \in DOMAIN stack : i < j /\ stack[i].kind = "frame" => Deeper(stack[i], stack[j])
  /\ \A i \in DOMAIN stack : stack[i].kind = "dir" =>
       Len(stack[i].path) = 1 \/ (i = Len(stack) /\ frame = NoFrame)
  /\ frame # NoFrame => \A i \in DOMAIN stack : stack[i].kind = "frame" => Deeper(stack[i], frame)

\* The first n names of a path lead through n different directories.
Trail(path, n) ==
  \A i \in 1 .. n : path[i] \in Dir /\ \A j \in 1 .. n : Target[path[i]] = Target[path[j]] => i = j
Keys(path, n) == {Target[path[i]] : i \in 1 .. n}
Follows(t, n) ==
  /\ Len(t.path) - 1 \in DOMAIN Level /\ t.path \in Level[Len(t.path) - 1]
  /\ Trail(t.path, n) /\ (world.follow => t.chain = Keys(t.path, n))

\* A chain holds what its descent went through, so none goes through a directory
\* twice: with follow_symlinks because cycles are closed, otherwise because no
\* link is descended into.
DescentInv ==
  /\ \A f \in Frames : Follows(f, Len(f.path))
  /\ \A i \in DOMAIN stack : stack[i].kind = "dir" =>
       /\ Follows(stack[i], Len(stack[i].path) - 1) /\ Last(stack[i].path) \in Dir
       /\ ~world.follow => Trail(stack[i].path, Len(stack[i].path))

-----------------------------------------------------------------------------
(* Descriptors.                                                            *)

\* What is kept of a directory, open or not, is what its listing was read from.
More(f) == f.next < Len(Names(f.path))
FrameTrue(f) ==
  /\ HasFd(f.fd) => f.fd.inode = f.inode
  /\ f.awaited # "none" => f.awaited = f.inode
  /\ f.held /\ More(f) => HasFd(f.fd) \/ f.awaited # "none"

\* A directory is opened below the descriptor its parent's listing was read from.
Linked(parent, t) ==
  world.relative /\ parent.held /\ parent.path = Front(t.path) =>
    IF t.kind = "dir" THEN HasFd(t.open) /\ t.open.inode = parent.inode
                      ELSE Last(t.path) # world.site => t.inode = parent.inode
LinkInv ==
  /\ \A f \in Frames : FrameTrue(f)
  /\ frame # NoFrame => frame.awaited = "none"
  /\ \A parent \in Frames : \A t \in Tasks : t.kind \in {"dir", "frame"} => Linked(parent, t)

\* The descriptor of a task; one outside the budget is in hand, or will be next.
FdOf(t) == CASE t.kind = "dir" -> t.open [] t.kind = "frame" -> t.fd [] OTHER -> NoFd
BudgetInv ==
  /\ InUse <= Limit
  /\ \A i \in DOMAIN stack : FdOf(stack[i]).permit = "unbudgeted" => i = Len(stack) /\ frame = NoFrame

-----------------------------------------------------------------------------
(* The stride.                                                             *)

\* What a listing yielded since the token was set lies behind its last poll.
Yielded(path) == {i \in DOMAIN late : late[i] = path}
LateInv ==
  /\ late \in Seq(Path) /\ (late # <<>> => token)
  /\ StopsByStride
  /\ \A f \in Frames : f.next % Stride = 0 \/ Cardinality(Yielded(f.path)) <= f.next % Stride

IInv ==
  /\ TaskInv /\ RestInv /\ ShapeInv /\ DescentInv /\ LinkInv /\ BudgetInv /\ LateInv
=============================================================================
