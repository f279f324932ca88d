----------------------------- MODULE WalkerPath -----------------------------
(***************************************************************************)
(* What ferralk-glob tells a walker about a pattern: whether a path below  *)
(* a root can match it at all, and which byte of the source is to blame if *)
(* none can.  The analysis reads the alternatives the compiler built, with *)
(* the offsets of BraceExpansion, and runs the groups of Extglob over sets *)
(* of states.  Only "parent" rejects a pattern whose other alternatives    *)
(* are sound.                                                              *)
(***************************************************************************)
EXTENDS BraceExpansion, Extglob

CONSTANT WalkCandidates   \* paths below a root

-----------------------------------------------------------------------------
(* WalkerComponent: a component is empty, "." or "..", or anything else.   *)

NoOffset == -1
Opened(offset) == [kind |-> "empty", at |-> NoOffset, separator |-> offset]
Opaque(c) == [c EXCEPT !.kind = "other", !.at = NoOffset]
PushLiteral(c, byte, offset) ==
  CASE c.kind = "empty" /\ byte = "." -> [c EXCEPT !.kind = "dot", !.at = offset]
    [] c.kind = "dot" /\ byte = "." -> [c EXCEPT !.kind = "parent"]
    [] OTHER -> Opaque(c)

\* An empty component is located at the separator that closes it.
ClosedAt(c, offset) == IF c.kind = "empty" THEN [c EXCEPT !.separator = offset] ELSE c

-----------------------------------------------------------------------------
(* WalkerPathState: what the components so far have in common.             *)

Fresh(normalized) ==
  [normalized |-> normalized, completed |-> 0, dotsOnly |-> TRUE, parent |-> {}, dot |-> {},
   last |-> {}, empty |-> {}, current |-> Opened(NoOffset)]
FirstOf(known, c, found) == IF known = {} /\ found THEN {c} ELSE known

\* record_component: one leading "." is the conventional prefix.
Recorded(s, c) ==
  [s EXCEPT !.dotsOnly = @ /\ c.kind \in {"empty", "dot"},
            !.parent = FirstOf(@, c, c.kind = "parent"),
            !.dot = FirstOf(@, c, c.kind = "dot" /\ (s.completed > 0 \/ ~s.normalized)),
            !.last = IF c.kind = "empty" THEN @ ELSE {c},
            !.completed = Smaller(@ + 1, 2)]
Closing(s, c) == Recorded([s EXCEPT !.empty = FirstOf(@, c, c.kind = "empty")], c)
Separated(s, offset) == Closing([s EXCEPT !.current = Opened(offset)], ClosedAt(s.current, offset))
Wild(s) == [s EXCEPT !.current = Opaque(@)]

\* finish, and WalkerPathSummary::problem.  One kind comes before the next.
NoProblem == [kind |-> "none", at |-> NoOffset]
Problem(kind, components) ==
  [kind |-> kind, at |-> IF components = {} THEN NoOffset ELSE (CHOOSE c \in components : TRUE).at]
Verdict(s) ==
  [selects |-> s.empty = {},
   emptyAt |-> IF s.empty = {} THEN NoOffset ELSE (CHOOSE e \in s.empty : TRUE).separator,
   problem |-> IF s.dotsOnly THEN Problem("root", s.last)
               ELSE IF s.parent # {} THEN Problem("parent", s.parent)
               ELSE IF \E l \in s.last : l.kind = "dot" THEN Problem("trailing", s.last)
               ELSE IF s.dot # {} THEN Problem("dot", s.dot) ELSE NoProblem]
Evaluated(s) == Verdict(Closing(s, s.current))

-----------------------------------------------------------------------------
(* Walking an alternative.  Offsets are the ones of the alternative.       *)

\* The byte at i as an event of the path: an escaped byte is never a dot or a
\* separator of the path, and a class never one of its bytes.
BehindByte(p, i) == CASE p[i] = "[" -> ClassEnd(p, i) + 1 [] p[i] = "\\" -> i + 2 [] OTHER -> i + 1
AtByte(s, p, i, start) ==
  CASE p[i] = "/" -> Separated(s, start + i - 1)
    [] p[i] \in {"*", "?", "[", "\\"} -> Wild(s)
    [] OTHER -> [s EXCEPT !.current = PushLiteral(@, p[i], start + i - 1)]

\* The code keeps the shape of an arm and appends it; walking its bytes again
\* comes to the same.
RECURSIVE Replayed(_, _, _, _)
Replayed(s, p, i, start) ==
  IF i > Len(p) THEN s ELSE Replayed(AtByte(s, p, i, start), p, BehindByte(p, i), start)

\* exact_states: only an arm with a separator is a path operation.
HasSeparator(p) == \E i \in Stops(p, LAMBDA i : BehindByte(p, i)) : p[i] = "/"
AfterArm(s, arm, start) ==
  IF HasSeparator(arm) THEN Replayed(s, arm, 1, start) ELSE IF arm = <<>> THEN s ELSE Wild(s)

\* States that differ in the place of an empty component only are one state,
\* and the first of them is kept.
Unplaced(s) ==
  LET bare(c) == [c EXCEPT !.separator = NoOffset]
      each(S) == {bare(c) : c \in S}
  IN [s EXCEPT !.current = bare(@), !.parent = each(@), !.dot = each(@), !.last = each(@), !.empty = each(@)]
Known(states) == {Unplaced(s) : s \in ToSet(states)}
Adding(states, more) ==
  FoldLeft(LAMBDA all, s : IF Unplaced(s) \in Known(all) THEN all ELSE Append(all, s), states, more)

Through(p, cuts, states) ==
  Adding(<<>>, FlattenSeq([k \in 1 .. Len(cuts) - 1 |->
                 [n \in DOMAIN states |-> AfterArm(states[n], SubSeq(p, cuts[k] + 1, cuts[k + 1] - 1), cuts[k])]]))
Exact(p, i, states) == Through(p, Cuts(p, Parentheses, i + 1, "|"), states)

\* fixed_point: round after round, as long as one adds a state to those of the
\* rounds before.  (Mutant: one round is enough.)
OneRound(p, i, before, all) == Adding(all, Exact(p, i, all))
RECURSIVE MoreRounds(_, _, _, _)
MoreRounds(p, i, before, all) ==
  IF before = all THEN all
  ELSE MoreRounds(p, i, all, Adding(all, Exact(p, i, SubSeq(all, Len(before) + 1, Len(all)))))
Repeated(p, i, distinct, once) ==
  CASE p[i] = "@" -> once
    [] p[i] = "?" -> Adding(distinct, once)
    [] p[i] \in {"*", "+"} -> MoreRounds(p, i, <<>>, IF p[i] = "*" THEN distinct ELSE once)
Applied(p, i, states) ==
  IF p[i] = "!" THEN [n \in DOMAIN states |-> Wild(states[n])]
                ELSE Repeated(p, i, Adding(<<>>, states), Exact(p, i, states))

RECURSIVE WalkedFrom(_, _, _)
WalkedFrom(p, i, states) ==
  IF i > Len(p) THEN states
  ELSE IF IsGroup(p, i) THEN WalkedFrom(p, Rest(p, i), Applied(p, i, states))
  ELSE WalkedFrom(p, BehindByte(p, i), [n \in DOMAIN states |-> AtByte(states[n], p, i, 0)])

\* walker_path_problem, without groups and with them: there, a state that
\* selects nothing is no reason as long as another one is left.
OnePath(seen) ==
  IF seen.problem = NoProblem /\ ~seen.selects THEN [kind |-> "empty", at |-> seen.emptyAt] ELSE seen.problem
SomePath(seen, selecting) ==
  CASE selecting = <<>> -> [kind |-> "empty", at |-> Head(seen).emptyAt]
    [] \E e \in ToSet(selecting) : e.problem = NoProblem -> NoProblem
    [] OTHER -> Head(selecting).problem
Seen(states) == [n \in DOMAIN states |-> Evaluated(states[n])]
AnyPath(seen) == SomePath(seen, SelectSeq(seen, LAMBDA e : e.selects))
PathProblem(p) ==
  IF HasGroup(p) THEN AnyPath(Seen(WalkedFrom(p, 1, <<Fresh(StartsDotted(p))>>)))
                 ELSE OnePath(Evaluated(Replayed(Fresh(StartsDotted(p)), p, 1, 0)))

\* walker_path_analysis, in offsets of the source.
InSource(piece, problem) ==
  IF problem.at = NoOffset THEN problem ELSE [problem EXCEPT !.at = OffsetAt(piece, @)]
Analysis(problems) ==
  LET isParent(p) == p.kind = "parent" IN
  CASE \E p \in ToSet(problems) : isParent(p) -> Head(SelectSeq(problems, isParent))
    [] (\A p \in ToSet(problems) : ~isParent(p)) /\ NoProblem \in ToSet(problems) -> NoProblem
    [] OTHER -> Head(problems)

-----------------------------------------------------------------------------
(* Properties.                                                             *)

\* A path a walker offers: names, no dots, nothing empty.
ComponentsOf(path) ==
  LET cuts == SetToSortSeq({i \in DOMAIN path : path[i] = "/"} \cup {0, Len(path) + 1}, <)
  IN [k \in 1 .. Len(cuts) - 1 |-> SubSeq(path, cuts[k] + 1, cuts[k + 1] - 1)]
IsOffered(path) == ToSet(ComponentsOf(path)) \cap {<<>>, <<".">>, <<".", ".">>} = {}

Widest == [reading |-> "glob", hidden |-> TRUE, folds |-> FALSE, braces |-> FALSE]
Reaches(p, path) == AnswersAny(Asks(<<p>>, StartsDotted(p), path, Widest))
Spelt(p) == \A i \in DOMAIN p : p[i] \in {"a", "b", ".", "/"}

\* What a walker rejects would have selected nothing: an alternative with a
\* problem matches no path below a root, with groups in it (the interpreter
\* says so) or without, and with "./" in front of it or without; and an
\* alternative that is a plain path is sound exactly if it is such a path.  The
\* byte that is blamed is in the source, and is a dot of the component or a
\* separator of the empty one.
RejectsSoundly ==
  /\ outcome = "done" /\ (\A piece \in ToSet(expanded) : ClassesValid(piece.bytes)) =>
       \E problems \in {[k \in DOMAIN expanded |-> PathProblem(expanded[k].bytes)]} :
         /\ \A k \in DOMAIN expanded :
              LET p == expanded[k].bytes sound == problems[k] = NoProblem IN
              /\ ~sound /\ ~HasGroup(p) => \A path \in WalkCandidates : ~Reaches(p, path)
              /\ Spelt(p) => (sound <=> IsOffered(WithoutDotSlash(p)))
         /\ \E blamed \in {Analysis([k \in DOMAIN expanded |-> InSource(expanded[k], problems[k])])} :
              blamed.at # NoOffset => source[blamed.at + 1] = IF blamed.kind = "empty" THEN "/" ELSE "."
  /\ answer = "yes" /\ asked.options.root /\ IsOffered(asked.path) =>
       \A dots \in {<<>>, <<".", "/">>} : PathProblem(dots \o Running.text) = NoProblem
=============================================================================
