------------------------------- MODULE Extglob -------------------------------
(***************************************************************************)
(* Extglob groups of ferralk-glob: the program a pattern with groups       *)
(* compiles to, the interpreter that runs it (match_extglob_task, one turn *)
(* of its loop per step), and the automaton that answers instead when all  *)
(* groups are positive and no star stands outside of them.                 *)
(*                                                                         *)
(* Nested groups are text, as in the code.  Offsets of a pattern count     *)
(* from 1, offsets of a candidate count the bytes before them.             *)
(***************************************************************************)
EXTENDS GlobPattern

CONSTANTS GroupPatterns, GroupCandidates, GroupDialects   \* what is asked

-----------------------------------------------------------------------------
(* The program: compile_extglob.  One step per offset that a walk reaches. *)

Parentheses == <<"(", ")">>
IsGroup(p, i) == OpensGroup(p, i) /\ Closers(p, Parentheses, i + 1) # {}

\* The last star of a run belongs to a group that opens there.
StarEnd(p, i) == Least({j \in i + 1 .. Len(p) + 1 : j > Len(p) \/ p[j] # "*" \/ IsGroup(p, j)})
Rest(p, i) == Least(Closers(p, Parentheses, i + 1)) + 1

Step(p, i) ==
  CASE IsGroup(p, i) -> [kind |-> "group", next |-> Rest(p, i)]
    [] OpensGroup(p, i) /\ ~IsGroup(p, i) -> [kind |-> "unclosed", next |-> i + 1]
    [] ~OpensGroup(p, i) /\ p[i] = "*" -> [kind |-> "star", next |-> StarEnd(p, i)]
    [] ~OpensGroup(p, i) /\ p[i] = "?" -> [kind |-> "any", next |-> i + 1]
    [] p[i] = "[" -> [kind |-> "class", next |-> ClassEnd(p, i) + 1]
    [] p[i] = "\\" /\ i < Len(p) -> [kind |-> "escape", next |-> i + 2]
    [] OTHER -> [kind |-> "byte", next |-> i + 1]
Steps(p) ==
  LET walked[i \in 1 .. Len(p) + 1] == IF i > Len(p) THEN {} ELSE {i} \cup walked[Step(p, i).next]
  IN [i \in DOMAIN p |-> IF i \in walked[1] THEN Step(p, i) ELSE [kind |-> "none", next |-> i + 1]]

\* An alternative that ends in "**" in front of a separator is matched with
\* that separator, as one "**/", and resumes behind it.
EndsRecursive(arm) == arm # <<>> /\ Last(arm).kind = "recursive"
Group(p, i) ==
  LET behind == Rest(p, i)
      bounds == [starts |-> StartsComponent(p, i, Whole), ends |-> EndsComponent(p, behind, Whole)]
      texts == ToSet(Split(p, Parentheses, i + 1, "|"))
      arm(text) == TokensIn(text, bounds)
      absorbed == {text \in texts :
                     p[i] # "!" /\ behind <= Len(p) /\ p[behind] = "/" /\ EndsRecursive(arm(text))}
  IN [kind |-> p[i], rest |-> behind, local |-> i > 1 /\ p[i - 1] = "/",
      texts |-> texts, arms |-> {arm(text) : text \in texts},
      matched |-> {arm(text) : text \in texts \ absorbed},
      through |-> {TokensIn(text \o <<"/">>, bounds) : text \in absorbed}]

\* trailing_globstar_separator: the separator of a trailing "/**", or of a
\* trailing group that may be "**"; 0 when there is none.
TrailingSeparator(p, steps, groups) ==
  LET n == Len(p)
      isStars(i) == steps[i].kind = "star" /\ steps[i].next = n + 1
      ends == {i \in DOMAIN groups : groups[i].rest = n + 1 /\ groups[i].kind # "!"
                                     /\ <<Token("recursive")>> \in groups[i].arms}
      before == IF n >= 2 /\ isStars(n - 1) THEN n - 2 ELSE IF ends # {} THEN Least(ends) - 1 ELSE 0
  IN IF before > 0 /\ steps[before].kind = "byte" /\ StartsComponent(p, before + 1, Whole) THEN before ELSE 0

Assembled(p, steps, groups, trailing) ==
  LET fixed == Least({i \in DOMAIN p : steps[i].kind # "byte" \/ i = trailing} \cup {Len(p) + 1}) - 1
  IN [text |-> p, steps |-> steps, groups |-> groups, trailing |-> trailing, prefix |-> SubSeq(p, 1, fixed)]
Program(p) ==
  LET steps == Steps(p)
      groups == [i \in {j \in DOMAIN p : steps[j].kind = "group"} |-> Group(p, i)]
  IN Assembled(p, steps, groups, TrailingSeparator(p, steps, groups))

-----------------------------------------------------------------------------
(* Positions of the outer program.                                         *)

IsSeparator(program, i) == program.steps[i].kind = "byte" /\ program.text[i] = "/"
StepLocal(program, i, o) == o.component /\ (o.root \/ (i > 1 /\ IsSeparator(program, i - 1)))

\* extglob_star_component_local: a longer run is one "**" when it is a whole
\* component, and ordinary stars in a row otherwise.
StarLocal(program, i, o) ==
  LET next == program.steps[i].next
      whole == /\ i = 1 \/ IsSeparator(program, i - 1)
               /\ next > Len(program.text) \/ IsSeparator(program, next)
  IN IF program.steps[i].kind = "star" /\ next - i >= 2 THEN ~whole /\ o.component /\ o.root
     ELSE StepLocal(program, i, o)

\* Only "**/" may stop in front of a leading period.
BlocksLeadingPeriod(program, i) ==
  LET next == program.steps[i].next IN
  ~(next = i + 2 /\ next <= Len(program.text) /\ program.text[next] = "/" /\ StartsComponent(program.text, i, Whole))
IsRecursivePrefix(program, i) ==
  program.steps[i].kind = "star" /\ ~BlocksLeadingPeriod(program, i) /\ IsSeparator(program, program.steps[i].next)

\* extglob_star_can_consume, and what "?" and a class ask as well.
CanConsume(path, k, local, o) == k < Len(path) /\ ~HiddenAt(path, k, o) /\ (path[k + 1] = "/" => ~local)

\* A literal dot, or a "**/" that leaves the dot to what follows it.
AllowsLeadingPeriod(group) ==
  /\ group.kind # "!"
  /\ \/ \E arm \in group.arms : arm # <<>> /\ Head(arm).kind = "literal" /\ Head(arm).text[1] = "."
     \/ \E arm \in group.through : Head(arm).kind = "prefix"

\* What one step takes; the literal reading of a "?" that its wildcard refused
\* never gets a "?".
StepTakes(program, i, path, k, o) ==
  LET step == program.steps[i] byte == program.text[i]
      wild == CanConsume(path, k, StepLocal(program, i, o), o)
  IN CASE step.kind = "any" \/ (step.kind = "unclosed" /\ byte = "?") -> wild
       [] step.kind = "class" -> wild /\ path[k + 1] \in Class(program.text, i).bytes
       [] step.kind = "escape" -> SpelledAt(<<program.text[i + 1]>>, path, k)
       [] OTHER -> SpelledAt(<<byte>>, path, k)

-----------------------------------------------------------------------------
(* Where a group may end: matching_extglob_group_ends and, for one or more *)
(* rounds, matching_extglob_repetition_ends.                               *)

ComponentEnd(path, k, local, o) ==
  IF o.component /\ (o.root \/ local)
  THEN Least({j \in k .. Len(path) : j = Len(path) \/ path[j + 1] = "/"}) ELSE Len(path)
SpansComponents(group) ==
  \E arm \in group.arms : \E t \in ToSet(arm) :
    t.kind \in {"separator", "recursive", "prefix"} \/ (t.kind = "literal" /\ "/" \in ToSet(t.text))
EndLimit(group, path, k, o) ==
  IF group.kind = "!" THEN ComponentEnd(path, k, group.local, o)
  ELSE IF o.component /\ o.root /\ ~SpansComponents(group) THEN ComponentEnd(path, k, TRUE, o)
  ELSE Len(path)

\* The first round of a repetition stands behind the separator, later ones
\* behind the round before.
FirstDiffers(group) ==
  group.local /\ \E arm \in group.arms : arm # <<>> /\ Head(arm).kind \in OneByte \cup {"star"}
FirstApart(group, o) == FirstDiffers(group) /\ o.component /\ ~o.root
LaterLocal(group, o) == group.local /\ ~FirstApart(group, o)

\* An alternative is asked about a candidate that starts at k.
Standing(path, k, local, o) == [o EXCEPT !.starts = AtComponentStart(path, k, o), !.local = local]
HasWidth(arm) == \A t \in ToSet(arm) : t.kind \notin Stars
ArmEnds(arm, path, k, limit, local, o) ==
  LET standing == Standing(path, k, local, o)
      upto(end) == SubSeq(path, k + 1, end)
  IN IF HasWidth(arm) THEN {end \in {k + Total(arm)} : end <= limit /\ AnswersAlone(arm, FALSE, upto(end), standing)}
     ELSE {end \in k .. limit : SweepMatch(arm, upto(end), standing)}
GroupEnds(group, path, k, o) ==
  UNION {ArmEnds(arm, path, k, EndLimit(group, path, k, o), group.local, o) : arm \in group.matched}

\* One pass over the candidate: where a round may start, its alternatives are
\* injected into the sweeps that are under way.
Inject(group, s, path, start, k, limit, o) ==
  LET apart == k = start /\ FirstApart(group, o)
      local == IF k = start THEN group.local ELSE LaterLocal(group, o)
      swept == {arm \in DOMAIN s.live : ~apart}
      live == [arm \in DOMAIN s.live |->
                 IF apart THEN s.live[arm]
                 ELSE s.live[arm] \cup StartBoundaries(Positions(arm), Standing(path, k, local, o))]
      ends == UNION {ArmEnds(arm, path, k, limit, local, o) : arm \in group.matched \ swept}
      here == {k : arm \in {a \in swept : Accepts(a, live[a])}}
  IN IF k \notin s.reachable THEN s
     ELSE [reachable |-> s.reachable \cup ends, matched |-> s.matched \cup ends \cup here, live |-> live]
AdvanceSweeps(s, path, k, limit, later, o) ==
  LET live == [arm \in DOMAIN s.live |->
                 AdvanceSweep(Positions(arm), s.live[arm], path[k + 1], AtComponentStart(path, k, o),
                              Standing(path, k, later, o))]
      ends == {k + 1 : arm \in {a \in DOMAIN live : Accepts(a, live[a])}}
  IN IF k = limit THEN s
     ELSE [reachable |-> s.reachable \cup ends, matched |-> s.matched \cup ends, live |-> live]
RepetitionEnds(group, path, start, o) ==
  LET limit == EndLimit(group, path, start, o)
      later == LaterLocal(group, o)
      round(s, n) ==
        LET k == start + n - 1
        IN AdvanceSweeps(Inject(group, s, path, start, k, limit, o), path, k, limit, later, o)
      fresh == [reachable |-> {start}, matched |-> {},
                live |-> [arm \in {a \in group.matched : ~HasWidth(a)} |-> {}]]
  IN FoldLeft(round, fresh, [n \in 1 .. limit - start + 1 |-> n]).matched

\* queue_extglob_through_separator: such an alternative can only be the last
\* round.
ThroughEnds(group, path, k, ends, o) ==
  LET of(start, local) ==
        UNION {ArmEnds(arm, path, start, EndLimit(group, path, start, o), local, o) : arm \in group.through}
  IN of(k, group.local)
     \cup (IF group.kind \in {"*", "+"} THEN UNION {of(end, LaterLocal(group, o)) : end \in ends} ELSE {})

\* What a negated group may take: up to the first hidden component.
NegatedStops(path, k, local, o) ==
  LET end == ComponentEnd(path, k, local, o)
      hidden == {j \in k .. end - 1 : HiddenAt(path, j, o)}
  IN k .. (IF hidden = {} THEN end ELSE Least(hidden) - 1)

\* queue_extglob_group: the continuations of a group, nearer ends first.  (The
\* code queues those behind a separator alternative by alternative.)
RunEnds(group, path, k, o) ==
  IF group.kind \in {"*", "+"} THEN RepetitionEnds(group, path, k, o) ELSE GroupEnds(group, path, k, o)
Continuations(group, path, k, ends, o) ==
  LET stops == NegatedStops(path, k, group.local, o) \ ends
      at(offset, S) == LET in == SelectSeq([n \in 1 .. Len(path) + 1 |-> n - 1], LAMBDA end : end \in S)
                       IN [n \in DOMAIN in |-> <<offset, in[n]>>]
  IN IF group.kind = "!" THEN at(group.rest, stops)
     ELSE (IF group.kind \in {"?", "*"} THEN <<<<group.rest, k>>>> ELSE <<>>)
          \o at(group.rest, ends) \o at(group.rest + 1, ThroughEnds(group, path, k, ends, o))

-----------------------------------------------------------------------------
(* The interpreter: match_extglob_from and match_extglob_task.             *)

VARIABLES
  asked,     \* the program, the candidate and the options
  place,     \* the offset in the program and the one in the candidate
  star,      \* the last star: where it resumes, what it has taken
  crossing,  \* the crossing star that a component-local one replaced
  pending,   \* continuations to try, last in first out
  queued,    \* every continuation queued so far (ExtglobFailedStates)
  answer     \* "open", "yes" or "no"
groupVars == <<asked, place, star, crossing, pending, queued, answer>>

NoStar == [resume |-> 0, at |-> 0, local |-> FALSE]
Programs == [p \in GroupPatterns \cup {WithoutDotSlash(q) : q \in GroupPatterns} |-> Program(p)]
Running == asked.program
Question(pattern, candidate, dialect) ==
  LET whole == dialect.reading = "whole" IN
  [program |-> Programs[IF whole THEN pattern ELSE WithoutDotSlash(pattern)],
   path |-> IF whole THEN candidate ELSE WithoutDotSlash(candidate),
   options |-> [component |-> ~whole, root |-> dialect.reading = "glob", hidden |-> dialect.hidden,
                folds |-> FALSE, starts |-> TRUE, local |-> FALSE]]

GroupInit ==
  /\ \E pattern \in GroupPatterns, candidate \in GroupCandidates, dialect \in GroupDialects :
       asked = Question(pattern, candidate, dialect)
  /\ place = <<1, 0>> /\ star = NoStar /\ crossing = NoStar /\ pending = <<>> /\ queued = {<<1, 0>>}
  /\ answer = IF SpelledAt(Running.prefix, asked.path, 0) THEN "open" ELSE "no"

Here == Running.steps[place[1]]
Searching == answer = "open" /\ place # <<Len(Running.text) + 1, Len(asked.path)>>
AtStep(kinds) == Searching /\ place[1] <= Len(Running.text) /\ Here.kind \in kinds
IsHidden == HiddenAt(asked.path, place[2], asked.options)
Forbidden ==
  /\ IsHidden
  /\ \/ Here.kind = "unclosed"
     \/ Here.kind = "group" /\ ~AllowsLeadingPeriod(Running.groups[place[1]])

\* This branch has failed: the continuation queued last is next.
Abandon(waiting) ==
  IF waiting = <<>> THEN answer' = "no" /\ UNCHANGED <<place, star, crossing, pending>>
  ELSE /\ place' = Last(waiting) /\ pending' = Front(waiting)
       /\ star' = NoStar /\ crossing' = NoStar /\ UNCHANGED answer

\* The last star takes one more byte.  A component-local star in front of a
\* separator hands over to the crossing one before it.
Takes(s) == CanConsume(asked.path, s.at, s.local, asked.options)
Backtrack(waiting) ==
  LET stuck == star # NoStar /\ star.at < Len(asked.path) /\ ~Takes(star) /\ crossing # NoStar
      last == IF stuck THEN crossing ELSE star
  IN IF last = NoStar \/ last.at >= Len(asked.path) THEN Abandon(waiting)
     ELSE /\ star' = IF Takes(last) THEN [last EXCEPT !.at = @ + 1] ELSE NoStar
          /\ place' = <<last.resume, IF Takes(last) THEN last.at + 1 ELSE last.at>>
          /\ crossing' = IF stuck THEN NoStar ELSE crossing
          /\ pending' = waiting /\ UNCHANGED answer

\* Each continuation is queued once.
Waiting(continuations) ==
  FoldLeft(LAMBDA q, c : IF c \in queued \cup ToSet(q) THEN q ELSE Append(q, c), pending, continuations)
Queue(continuations) == queued' = queued \cup ToSet(continuations)

Matched ==
  /\ answer = "open" /\ place = <<Len(Running.text) + 1, Len(asked.path)>>
  /\ answer' = "yes" /\ UNCHANGED <<asked, place, star, crossing, pending, queued>>

Exhausted ==
  /\ Searching /\ place[1] > Len(Running.text)
  /\ Backtrack(pending) /\ UNCHANGED <<asked, queued>>

Forbid ==
  /\ AtStep({"group", "unclosed"}) /\ Forbidden
  /\ Abandon(pending) /\ UNCHANGED <<asked, queued>>

GroupStep ==
  /\ AtStep({"group"}) /\ ~Forbidden
  /\ LET group == Running.groups[place[1]] path == asked.path o == asked.options IN
     \E ends \in {RunEnds(group, path, place[2], o)} :
     \E next \in {Continuations(group, path, place[2], ends, o)} :
       Queue(next) /\ Backtrack(Waiting(next))
  /\ UNCHANGED asked

\* remember_crossing_star, and a new last star.  (Mutant: only the last star
\* is remembered.)
ForgetCrossing(local) == NoStar
Remembered(local) ==
  IF ~local THEN NoStar ELSE IF star # NoStar /\ ~star.local THEN star ELSE crossing
IsStarStep == Here.kind = "star" \/ (Here.kind = "unclosed" /\ Running.text[place[1]] = "*")
Blocked == Here.kind = "star" /\ BlocksLeadingPeriod(Running, place[1]) /\ IsHidden
StarStep ==
  /\ AtStep({"star", "unclosed"}) /\ IsStarStep /\ ~Forbidden /\ ~Blocked
  /\ LET local == StarLocal(Running, place[1], asked.options)
         none == IF IsRecursivePrefix(Running, place[1]) THEN <<<<Here.next + 1, place[2]>>>> ELSE <<>>
     IN /\ Queue(none) /\ pending' = Waiting(none)
        /\ crossing' = Remembered(local)
        /\ star' = [resume |-> Here.next, at |-> place[2], local |-> local]
  /\ place' = <<Here.next, place[2]>> /\ UNCHANGED <<asked, answer>>

BlockedStar ==
  /\ AtStep({"star"}) /\ Blocked
  /\ Backtrack(pending) /\ UNCHANGED <<asked, queued>>

OneStep == {"any", "class", "escape", "byte", "unclosed"}
TakesByte == StepTakes(Running, place[1], asked.path, place[2], asked.options)
ConsumeStep ==
  /\ AtStep(OneStep) /\ ~IsStarStep /\ ~Forbidden /\ TakesByte
  /\ place' = <<Here.next, place[2] + 1>>
  /\ UNCHANGED <<asked, star, crossing, pending, queued, answer>>

\* A candidate may end in front of the separator of a trailing "/**".
RefuseStep ==
  /\ AtStep(OneStep) /\ ~IsStarStep /\ ~Forbidden /\ ~TakesByte
  /\ IF place = <<Running.trailing, Len(asked.path)>>
     THEN answer' = "yes" /\ UNCHANGED <<place, star, crossing, pending>>
     ELSE Backtrack(pending)
  /\ UNCHANGED <<asked, queued>>

GroupAnswered == answer # "open" /\ UNCHANGED groupVars

GroupNext == \/ Matched \/ Exhausted \/ Forbid \/ GroupStep \/ StarStep \/ BlockedStar
             \/ ConsumeStep \/ RefuseStep \/ GroupAnswered

-----------------------------------------------------------------------------
(* PositiveExtglobNfa: a node is an offset of the outer program, the hub a *)
(* repetition comes back to, or a position in an alternative.              *)

Positive(program) ==
  /\ \A i \in DOMAIN program.groups : program.groups[i].kind # "!"
  /\ \A i \in DOMAIN program.steps :
       program.steps[i].kind # "star" /\ ~(program.steps[i].kind = "unclosed" /\ program.text[i] = "*")

Node(role, step, arm, local, at) == [role |-> role, step |-> step, arm |-> arm, local |-> local, at |-> at]
Outer(i) == Node("outer", i, <<>>, FALSE, 0)
Hub(i) == Node("hub", i, <<>>, FALSE, 0)
Starts(i, arms, role, local) == {Node(role, i, arm, local, 1) : arm \in arms}
Rounds(group, i, local) == Starts(i, group.matched, "arm", local) \cup Starts(i, group.through, "through", local)

\* Behind an alternative: the hub, or the step behind the group, or behind the
\* separator that was taken along.
Resumes(program, node) ==
  LET group == program.groups[node.step] IN
  IF node.role = "through" THEN Outer(group.rest + 1)
  ELSE IF group.kind \in {"*", "+"} THEN Hub(node.step) ELSE Outer(group.rest)

\* add_closure: where a node leads without a byte.
IntoGroup(program, i, hides) ==
  LET group == program.groups[i]
      local == IF group.kind \in {"*", "+"} THEN FirstDiffers(group) ELSE group.local
  IN IF hides /\ ~AllowsLeadingPeriod(group) THEN {}
     ELSE Rounds(group, i, local) \cup (IF group.kind \in {"?", "*"} THEN {Outer(group.rest)} ELSE {})
HandsOver(kind, hides, starts) == IF kind = "prefix" THEN starts ELSE kind \in Stars /\ ~hides
Moves(program, node, hides, starts) ==
  LET positions == Positions(node.arm) n == Len(positions) IN
  CASE node.role = "outer" ->
         (IF node.step = program.trailing THEN {Outer(Len(program.text) + 1)} ELSE {})
         \cup (IF node.step \in DOMAIN program.groups THEN IntoGroup(program, node.step, hides) ELSE {})
    [] node.role = "hub" ->
         Rounds(program.groups[node.step], node.step, FALSE) \cup {Outer(program.groups[node.step].rest)}
    [] node.role \in {"arm", "through"} /\ node.at > n -> {Resumes(program, node)}
    [] OTHER ->
         (IF HandsOver(positions[node.at].kind, hides, starts) THEN {[node EXCEPT !.at = @ + 1]} ELSE {})
         \cup (IF Elidable(node.arm) /\ node.at = n - 1 THEN {Resumes(program, node)} ELSE {})
RECURSIVE Closure(_, _, _, _)
Closure(program, nodes, hides, starts) ==
  LET more == nodes \cup UNION {Moves(program, node, hides, starts) : node \in nodes} IN
  IF more = nodes THEN nodes ELSE Closure(program, more, hides, starts)

\* Where it leads with the byte behind offset k.
ArmTakes(positions, i, path, k, o) ==
  i <= Len(positions) /\ IF Fixed(positions[i]) THEN SpelledAt(Bytes(positions[i]), path, k)
                                                ELSE WildcardTakes(positions, i, path, k, o)
Consumed(program, node, path, k, o) ==
  LET positions == Positions(node.arm) IN
  CASE node.role = "outer" ->
         IF node.step \in DOMAIN program.steps \ DOMAIN program.groups /\ StepTakes(program, node.step, path, k, o)
         THEN {Outer(program.steps[node.step].next)} ELSE {}
    [] node.role = "hub" -> {}
    [] OTHER ->
         IF ~ArmTakes(positions, node.at, path, k, [o EXCEPT !.local = node.local]) THEN {}
         ELSE IF positions[node.at].kind \in Stars THEN {node} ELSE {[node EXCEPT !.at = @ + 1]}

NfaMatch(program, path, o) ==
  LET closed(nodes, k) == Closure(program, nodes, HiddenAt(path, k, o), AtComponentStart(path, k, o))
      advance(nodes, n) == closed(UNION {Consumed(program, node, path, n - 1, o) : node \in nodes}, n)
  IN Outer(Len(program.text) + 1) \in FoldLeft(advance, closed({Outer(1)}, 0), [n \in DOMAIN path |-> n])

-----------------------------------------------------------------------------
(* What a group means: its alternatives written in its place.              *)

\* A negated group stands for a span of the candidate that none of its
\* alternatives is, spelled with escapes.
InEscapes(text) == FlattenSeq([n \in DOMAIN text |-> <<"\\", text[n]>>])
Refused(group, path, o) ==
  {InEscapes(SubSeq(path, ks[1] + 1, ks[2])) :
     ks \in {<<k, end>> \in (0 .. Len(path)) \X (0 .. Len(path)) :
               /\ end \in k .. ComponentEnd(path, k, group.local, o)
               /\ \A j \in k .. end : ~HiddenAt(path, j, o)
               /\ \A arm \in group.arms : ~Fits(arm, SubSeq(path, k + 1, end), Standing(path, k, group.local, o))}}

\* More rounds than the candidate has bytes add nothing.
InRounds(group, path) ==
  LET rounds[n \in Nat] == IF n = 0 THEN {<<>>} ELSE {r \o text : r \in rounds[n - 1], text \in group.texts}
  IN UNION {rounds[n] : n \in 1 .. Len(path) + 1}
Spellings(group, path, o) ==
  CASE group.kind = "!" -> Refused(group, path, o)
    [] group.kind = "@" -> group.texts
    [] group.kind = "?" -> group.texts \cup {<<>>}
    [] group.kind = "+" -> InRounds(group, path)
    [] group.kind = "*" -> InRounds(group, path) \cup {<<>>}
Inlinings(program, path, o) ==
  LET p == program.text
      tails[i \in 1 .. Len(p) + 1] ==
        IF i > Len(p) THEN {<<>>}
        ELSE IF i \in DOMAIN program.groups
        THEN {text \o tail : text \in Spellings(program.groups[i], path, o), tail \in tails[program.groups[i].rest]}
        ELSE {SubSeq(p, i, program.steps[i].next - 1) \o tail : tail \in tails[program.steps[i].next]}
  IN tails[1]
Inlined(program, path, o) == \E text \in Inlinings(program, path, o) : Fits(Tokens(text), path, o)

\* The text reads like the group unless it joins what the program keeps apart:
\* a star with a separator or another star, or a wildcard with a separator in
\* front of it, across an edge of an alternative.
Joins(before, after) ==
  \/ before \in {"*", "/"} /\ after \in {"*", "?", "["}
  \/ before = "*" /\ after = "/"
Skippable(group) == group.kind \in {"?", "*", "!"} \/ <<>> \in group.texts
NonEmpty(group) == group.texts \ {<<>>}
Seamless(program) ==
  LET p == program.text
      heads(i) == CASE i > Len(p) -> {}
                    [] i \in DOMAIN program.groups -> {Head(t) : t \in NonEmpty(program.groups[i])}
                    [] OTHER -> {p[i]} \ {"/"}
      recursive(arm) == arm # <<>> /\ {Head(arm).kind, Last(arm).kind} \cap {"recursive", "prefix"} # {}
  IN \A i \in DOMAIN program.groups :
       LET group == program.groups[i]
           before == IF i > 1 /\ p[i - 1] = "*" THEN {"*"} ELSE {}
           after == heads(group.rest)
           again == IF group.kind \in {"*", "+"} THEN {Head(t) : t \in NonEmpty(group)} ELSE {}
       IN /\ \A a \in before, t \in NonEmpty(group) : ~Joins(a, Head(t))
          /\ \A t \in NonEmpty(group), b \in after \cup again : ~Joins(Last(t), b)
          /\ Skippable(group) => before = {} /\ after \cap {"*", "?", "["} = {}
          /\ again # {} => \A arm \in group.arms : ~recursive(arm)

\* Where the docs leave the groups a rule of their own.  A group does not take
\* a leading period that none of its alternatives spells.  An outer star is
\* held back by one only where it starts.  The list filter reads an outer
\* wildcard behind "**/" as behind a separator.
HasHidden(path, o) == \E k \in DOMAIN path : HiddenAt(path, k - 1, o)
OuterStars(program) ==
  {i \in DOMAIN program.steps : program.steps[i].kind = "star" /\ ~IsRecursivePrefix(program, i)}
HasEmpty(path) == \E k \in DOMAIN path : path[k] = "/" /\ (k = 1 \/ path[k - 1] = "/")
Comparable(program, path, o) == Seamless(program) /\ ~(o.component /\ ~o.root /\ HasEmpty(path))

-----------------------------------------------------------------------------
(* Properties.                                                             *)

\* A group reads like its alternatives written in its place, in the loop over
\* one program with its two remembered stars as well as in the automaton; and
\* the two of them answer alike.  docs/usage.md:61-66,
\* positive_extglob_nfa_agrees_with_the_fallback_interpreter.
ReadsInlined ==
  answer # "open" =>
    LET program == Running path == asked.path o == asked.options
        yes == answer = "yes"
        inlined == Inlined(program, path, o)
    IN /\ Positive(program) => NfaMatch(program, path, o) = yes
       /\ Comparable(program, path, o) =>
            /\ yes /\ (~HasHidden(path, o) \/ OuterStars(program) = {}) => inlined
            /\ inlined /\ ~HasHidden(path, o) => yes
=============================================================================
