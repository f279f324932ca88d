----------------------------- MODULE GlobMatcher -----------------------------
(***************************************************************************)
(* The memoized engine of ferralk-glob (matches_from) on the scratch       *)
(* buffers of one thread: two matches in a row, the second on what the     *)
(* first left behind.  Each alternative of a pattern is a search of its    *)
(* own.  A step visits one state, that is a token and an offset.  The      *)
(* first star skips to the next place where its literal starts, on cached  *)
(* answers.                                                                *)
(***************************************************************************)
EXTENDS GlobPattern

CONSTANTS
  Patterns, Candidates, Dialects,  \* what a thread may be asked
  Earlier,        \* what it was asked before: an input and a generation
  StalledSkips,   \* STALLED_SKIPS
  MaxGeneration   \* u64::MAX, reached

Nowhere == 1000   \* usize::MAX, behind every candidate
ASSUME GlobAssumption ==
  /\ StalledSkips \in Nat \ {0} /\ MaxGeneration \in Nat \ {0}
  /\ \A e \in Earlier : e.generation \in 1 .. MaxGeneration

VARIABLES
  input,        \* the alternatives, the candidate and the options of this match
  alternative,  \* the one that is tried
  at,           \* the state: a token and an offset
  failed,       \* FailedStates
  deferred,     \* the repetitions still to try, last in first out
  scans,        \* Scratch.scans, per token
  generation,   \* Scratch.generation
  matches,      \* patterns asked on this thread
  verdict       \* "open", "yes" or "no"
vars == <<input, alternative, at, failed, deferred, scans, generation, matches, verdict>>

tokens == input.alternatives[alternative]
path == input.path
o == input.options

-----------------------------------------------------------------------------
(* Cached answers.                                                         *)

\* FirstAtOrAfter and SkipDecision; an entry that answers nothing is empty.
NoAnswer == [from |-> Nowhere, answer |-> 0]
NoDecision == [from |-> Nowhere, upto |-> 0, jump |-> Nowhere]
FreshScans(g) ==
  [generation |-> g, skip |-> NoDecision,
   separator |-> NoAnswer, dot |-> NoAnswer, literal |-> NoAnswer, stalled |-> 0]

Answers(cache, k) == cache.from <= k /\ k <= cache.answer
Decides(cache, k) == cache.from <= k /\ k <= cache.upto
Asked(cache, k, answer) == IF Answers(cache, k) THEN cache ELSE [from |-> k, answer |-> answer]

First(S, k, otherwise) == LET later == {j \in S : j >= k} IN IF later = {} THEN otherwise ELSE Least(later)
Offsets == 0 .. Len(path) - 1
NextSeparator(k) == First({j \in Offsets : path[j + 1] = "/"}, k, Len(path))
NextComponentDot(k) ==
  First({j \in Offsets : path[j + 1] = "." /\ AtComponentStart(path, j, o)}, k, Len(path))
NextLiteral(text, k) == First({j \in Offsets : SpelledAt(text, path, j)}, k, Nowhere)

\* skipping_star: the first star, when a literal follows it.
IsStar(i) == tokens[i].kind \in Stars
SkipsAt(i) ==
  /\ ~o.folds /\ IsStar(i) /\ \A j \in 1 .. i - 1 : ~IsStar(j)
  /\ i < Len(tokens) /\ tokens[i + 1].kind = "literal"

\* A cache of an earlier match is reset when this one first uses it.
\* (Mutant: whatever the thread has left.)
WhoeverFilled(filled) == filled
Current(filled) == IF filled.generation = generation THEN filled ELSE FreshScans(generation)

-----------------------------------------------------------------------------
(* Starting a match: matches_with_scratch.                                 *)

Resized(kept, n) == kept \o [i \in 1 .. (IF n > Len(kept) THEN n - Len(kept) ELSE 0) |-> FreshScans(0)]

\* Generation 0 marks a stale entry: before the counter would wrap, the
\* entries are dropped and it starts over.
Begin(next) ==
  /\ at' = <<1, 0>> /\ failed' = {} /\ deferred' = <<>> /\ verdict' = "open"
  /\ LET wraps == generation = MaxGeneration IN
     /\ scans' = Resized(IF wraps THEN <<>> ELSE scans, Len(next))
     /\ generation' = IF wraps THEN 1 ELSE generation + 1

Init ==
  \E e \in Earlier :
    /\ input = e.input /\ alternative = 1 /\ generation = e.generation
    /\ at = <<1, 0>> /\ failed = {} /\ deferred = <<>> /\ verdict = "open"
    /\ scans = [i \in DOMAIN e.input.alternatives[1] |-> FreshScans(0)] /\ matches = 1

\* match_alternatives goes through them until one matches.
Settled == verdict = "yes" \/ (verdict = "no" /\ alternative = Len(input.alternatives))
NextAlternative ==
  /\ verdict # "open" /\ ~Settled
  /\ alternative' = alternative + 1 /\ Begin(input.alternatives[alternative + 1])
  /\ UNCHANGED <<input, matches>>

NextMatch ==
  /\ Settled /\ matches = 1 /\ matches' = 2
  /\ \E pattern \in Patterns, candidate \in Candidates, dialect \in Dialects :
       input' = Route(pattern, candidate, dialect)
  /\ alternative' = 1 /\ Begin(input'.alternatives[1])

-----------------------------------------------------------------------------
(* The repetition of a star: next_star_position and skip_to_literal.       *)

Kind == tokens[at[1]].kind
Offset == at[2]
Byte(k) == WildcardTakes(tokens, at[1], path, k, o)
ByteWise == IF Byte(Offset) THEN Offset + 1 ELSE Nowhere

Decision(from, upto, jump) == [from |-> from, upto |-> upto, jump |-> jump]
\* An occurrence out of reach stays so up to the barrier.  (Mutant: for good.)
OutOfReachForGood(barrier) == Decision(Offset, Nowhere, Nowhere)
OutOfReach(barrier) == Decision(Offset, barrier, Nowhere)

\* star_barrier, the caches it asks, and where the literal starts behind it.
Searched(s) ==
  LET start == Offset + 1
      text == tokens[at[1] + 1].text
      separator == IF StaysInComponent(tokens, at[1], o)
                   THEN Asked(s.separator, Offset, NextSeparator(Offset)) ELSE s.separator
      dot == IF ~o.hidden THEN Asked(s.dot, Offset, NextComponentDot(Offset)) ELSE s.dot
      barrier == Least({Len(path)}
                       \cup (IF StaysInComponent(tokens, at[1], o) THEN {separator.answer} ELSE {})
                       \cup (IF ~o.hidden THEN {dot.answer} ELSE {}))
      literal == Asked(s.literal, start, NextLiteral(text, start))
      found == literal.answer
      bounded == [s EXCEPT !.separator = separator, !.dot = dot]
      sought == [bounded EXCEPT !.literal = literal]
  IN IF start > barrier THEN [bounded EXCEPT !.skip = Decision(Offset, Offset, Nowhere)]
     ELSE IF found = Nowhere THEN [sought EXCEPT !.skip = Decision(Offset, Nowhere, Nowhere)]
     ELSE IF found > barrier THEN [sought EXCEPT !.skip = OutOfReach(barrier)]
     ELSE [sought EXCEPT !.skip = Decision(Offset, found - 1, found),
                         !.stalled = IF found = start THEN @ + 1 ELSE 0]

\* The repetition's offset and the scans it leaves; a star that keeps landing
\* on the next byte stops skipping.
Repetition ==
  LET s == Current(scans[at[1]]) IN
  IF ~SkipsAt(at[1]) THEN [to |-> ByteWise, scans |-> scans]
  ELSE IF s.stalled >= StalledSkips THEN [to |-> ByteWise, scans |-> [scans EXCEPT ![at[1]] = s]]
  ELSE LET known == IF Decides(s.skip, Offset) THEN s ELSE Searched(s) IN
       [to |-> known.skip.jump, scans |-> [scans EXCEPT ![at[1]] = known]]

-----------------------------------------------------------------------------
(* The loop of matches_from.                                               *)

Nil == <<>>
\* The state to go to, or else the last one deferred, or else no match.
GoTo(to, waiting) ==
  /\ IF to # Nil THEN at' = to /\ deferred' = waiting /\ UNCHANGED verdict
     ELSE IF waiting # <<>> THEN at' = Last(waiting) /\ deferred' = Front(waiting) /\ UNCHANGED verdict
     ELSE verdict' = "no" /\ UNCHANGED <<at, deferred>>
  /\ UNCHANGED <<input, alternative, generation, matches>>
Accept == verdict' = "yes" /\ UNCHANGED <<input, alternative, at, deferred, generation, matches>>

AtEnd == at[1] > Len(tokens)
Visits(kinds) == /\ verdict = "open" /\ ~AtEnd /\ at \notin failed /\ Kind \in kinds
                 /\ failed' = failed \cup {at}
Behind(k) == <<at[1] + 1, k>>

End ==
  /\ verdict = "open" /\ AtEnd
  /\ IF Offset = Len(path) THEN Accept ELSE GoTo(Nil, deferred)
  /\ UNCHANGED <<failed, scans>>

Revisit ==
  /\ verdict = "open" /\ ~AtEnd /\ at \in failed
  /\ GoTo(Nil, deferred)
  /\ UNCHANGED <<failed, scans>>

LiteralToken ==
  /\ Visits({"literal"})
  /\ LET text == tokens[at[1]].text IN
     GoTo(IF SpelledAt(text, path, Offset) THEN Behind(Offset + Len(text)) ELSE Nil, deferred)
  /\ UNCHANGED scans

\* "dir/**" accepts "dir".
SeparatorToken ==
  /\ Visits({"separator"})
  /\ IF SpelledAt(<<"/">>, path, Offset) THEN GoTo(Behind(Offset + 1), deferred)
     ELSE IF Offset = Len(path) /\ Elidable(tokens) /\ at[1] = Len(tokens) - 1 THEN Accept
     ELSE GoTo(Nil, deferred)
  /\ UNCHANGED scans

AnyToken ==
  /\ Visits(OneByte)
  /\ GoTo(IF Byte(Offset) THEN Behind(Offset + 1) ELSE Nil, deferred)
  /\ UNCHANGED scans

\* advance_star defers the repetition and goes on behind the star.
\* (Mutant: it defers what is behind the star and goes on repeating.)
Greedy(repeat, stop) ==
  IF repeat # Nil THEN GoTo(repeat, IF stop # Nil THEN Append(deferred, stop) ELSE deferred)
                  ELSE GoTo(stop, deferred)
Branch(repeat, stop) == GoTo(stop, IF repeat # Nil THEN Append(deferred, repeat) ELSE deferred)
StarToken ==
  /\ Visits(Stars)
  /\ scans' = Repetition.scans
  /\ Branch(IF Repetition.to = Nowhere THEN Nil ELSE <<at[1], Repetition.to>>,
            IF StarStops(tokens, at[1], path, Offset, o) THEN Behind(Offset) ELSE Nil)

Done == Settled /\ matches = 2 /\ UNCHANGED vars

Next == NextAlternative \/ NextMatch \/ End \/ Revisit \/ LiteralToken \/ SeparatorToken \/ AnyToken \/ StarToken \/ Done
Spec == Init /\ [][Next]_vars

-----------------------------------------------------------------------------
(* Properties.                                                             *)

\* The search order, the memo, the skipping and what earlier matches left in
\* the buffers change nothing: the answer about an alternative is whether the
\* candidate can be cut into spans its tokens take.
Correct == verdict # "open" => (verdict = "yes") = Fits(tokens, path, o)

\* Pattern::engines_agree: the pattern as compiled (fast paths, prefilter), the
\* sweep alone and the memoized engine answer alike.
EnginesAgree ==
  Settled => /\ (verdict = "yes") = Compiled(input)
             /\ (verdict = "yes") = \E each \in ToSet(input.alternatives) : SweepMatch(each, path, o)

\* The assertion in matches_from: at most one deferred repetition per token,
\* because the deferred entries hold strictly increasing token indices.  And
\* the buffers of the thread, whatever pattern they were sized for, cover the
\* states of this one.
WorklistBounded ==
  /\ Len(deferred) <= Len(tokens)
  /\ \A i \in 2 .. Len(deferred) : deferred[i - 1][1] < deferred[i][1]
  /\ failed \subseteq (1 .. Len(tokens)) \X (0 .. Len(path))
  /\ Len(scans) >= Len(tokens) /\ generation \in 1 .. MaxGeneration

\* Every cached answer holds for the whole span of offsets it claims, of the
\* candidate it is asked about: not only where it was computed.
Reach(i, k) == {j \in k + 1 .. Len(path) : \A b \in k .. j - 1 : WildcardTakes(tokens, i, path, b, o)}
Jump(i, k) ==
  LET next == NextLiteral(tokens[i + 1].text, k + 1) IN IF next \in Reach(i, k) THEN next ELSE Nowhere
CachesTrue ==
  \A i \in 1 .. Len(tokens) : scans[i].generation = generation =>
    \A k \in 0 .. Len(path) :
      /\ Answers(scans[i].separator, k) => scans[i].separator.answer = NextSeparator(k)
      /\ Answers(scans[i].dot, k) => scans[i].dot.answer = NextComponentDot(k)
      /\ Answers(scans[i].literal, k) => scans[i].literal.answer = NextLiteral(tokens[i + 1].text, k)
      /\ Decides(scans[i].skip, k) => scans[i].skip.jump = Jump(i, k)
=============================================================================
