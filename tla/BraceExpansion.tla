--------------------------- MODULE BraceExpansion ---------------------------
(***************************************************************************)
(* The brace expansion of ferralk-glob as it runs: a work list in place of *)
(* the recursion, three budgets that may refuse the pattern on the way,    *)
(* the offsets in the source that every byte keeps, and the look-ahead     *)
(* that refuses a pattern before any of it is expanded.                    *)
(***************************************************************************)
EXTENDS GlobPattern

CONSTANTS
  Sources,  \* the patterns expanded
  Limits    \* MAX_BRACE_ALTERNATIVES, MAX_BRACE_EXPANSION_BYTES, the spans of a
            \* ProvenanceBudget and MAX_COMPILED_IR_UNITS

VARIABLES
  source, limit,
  worklist,   \* pieces that may still hold a group, last in first out
  expanded,   \* the alternatives so far
  written,    \* bytes written so far
  spent,      \* spans charged to the provenance budget
  outcome     \* "open", "done" or the budget that ran out
braceVars == <<source, limit, worklist, expanded, written, spent, outcome>>

-----------------------------------------------------------------------------
(* SourceProvenance: the spans of the source a piece is made of, in order. *)
(* Offsets count the bytes before them.  The source itself is direct.      *)

Span(output, from, len) == [output |-> output, from |-> from, len |-> len]
Direct(p) == [bytes |-> p, direct |-> TRUE, spans |-> <<Span(0, 0, Len(p))>>]
SpanEnd(span) == span.output + span.len

OffsetAt(piece, i) ==
  LET span == CHOOSE s \in ToSet(piece.spans) : s.output <= i /\ i < SpanEnd(s)
  IN span.from + i - span.output

\* span_count_in: an empty range inside a span counts that span.
SpanCount(piece, start, end) ==
  IF piece.direct THEN (IF start < end THEN 1 ELSE 0)
  ELSE Len(SelectSeq(piece.spans, LAMBDA s : s.output < end /\ SpanEnd(s) > start))

\* append_range: the spans of a range, moved to where it is copied to.
Larger(a, b) == IF a > b THEN a ELSE b
Smaller(a, b) == IF a < b THEN a ELSE b
Clipped(span, start, end, to) ==
  LET left == Larger(span.output, start)
  IN Span(to + left - start, span.from + left - span.output, Smaller(SpanEnd(span), end) - left)
Ranged(piece, start, end, to) ==
  SelectSeq([k \in DOMAIN piece.spans |-> Clipped(piece.spans[k], start, end, to)], LAMBDA s : s.len > 0)

-----------------------------------------------------------------------------
(* The work list: expand_brace_alternatives_with_provenance.               *)

HasPair(p) == Unescaped(p, "{") # {} /\ Closers(p, Braces, Least(Unescaped(p, "{"))) # {}

\* One arm in place of its group, unless a budget runs out first.  The arm is
\* the range from .. to, the group the one from open to close.
Spliced(piece, open, from, to, close) ==
  [bytes |-> SubSeq(piece.bytes, 1, open - 1) \o SubSeq(piece.bytes, from + 1, to)
             \o SubSeq(piece.bytes, close + 1, Len(piece.bytes)),
   direct |-> FALSE,
   spans |-> Ranged(piece, 0, open - 1, 0) \o Ranged(piece, from, to, open - 1)
             \o Ranged(piece, close, Len(piece.bytes), open - 1 + to - from)]
SpansIn(piece, open, from, to, close) ==
  SpanCount(piece, 0, open - 1) + SpanCount(piece, from, to) + SpanCount(piece, close, Len(piece.bytes))
Push(s, arm, count) ==
  IF Len(expanded) + Len(s.worklist) >= limit.alternatives THEN [s EXCEPT !.outcome = "alternatives"]
  ELSE IF s.written + Len(arm.bytes) > limit.bytes THEN [s EXCEPT !.outcome = "bytes"]
  ELSE IF s.spent + count > limit.spans THEN [s EXCEPT !.outcome = "spans"]
  ELSE [s EXCEPT !.worklist = Append(@, arm), !.written = @ + Len(arm.bytes), !.spent = @ + count]
PushArm(piece, cuts, k, s) ==
  LET at(Ranges(_, _, _, _, _)) == Ranges(piece, Head(cuts), cuts[k], cuts[k + 1] - 1, Last(cuts))
  IN IF s.outcome = "open" THEN Push(s, at(Spliced), at(SpansIn)) ELSE s

\* The arms are pushed from the last to the first, so that the first is taken
\* up next.
Backwards(n) == [k \in 1 .. n |-> n + 1 - k]

Expanding == outcome = "open" /\ worklist # <<>>
Emit ==
  /\ Expanding /\ ~HasPair(Last(worklist).bytes)
  /\ expanded' = Append(expanded, Last(worklist))
  /\ worklist' = Front(worklist)
  /\ outcome' = IF Len(worklist) = 1 THEN "done" ELSE "open"
  /\ UNCHANGED <<source, limit, written, spent>>

Rewrite ==
  /\ Expanding /\ HasPair(Last(worklist).bytes)
  /\ \E cuts \in {Cuts(Last(worklist).bytes, Braces, Least(Unescaped(Last(worklist).bytes, "{")), ",")} :
     LET push(s, k) == PushArm(Last(worklist), cuts, k, s)
         start == [worklist |-> Front(worklist), written |-> written, spent |-> spent, outcome |-> "open"]
     IN \E s \in {FoldLeft(push, start, Backwards(Len(cuts) - 1))} :
          worklist' = s.worklist /\ written' = s.written /\ spent' = s.spent /\ outcome' = s.outcome
  /\ UNCHANGED <<source, limit, expanded>>

BraceInit ==
  /\ source \in Sources /\ limit \in Limits
  /\ worklist = <<Direct(source)>> /\ expanded = <<>>
  /\ written = Len(source) /\ spent = 0 /\ outcome = "open"
Expanded == outcome # "open" /\ UNCHANGED braceVars
BraceNext == Emit \/ Rewrite \/ Expanded

-----------------------------------------------------------------------------
(* The look-ahead: ensure_source_brace_compiled_ir_lower_bound.            *)

\* brace_expansion_summary, the bound on its depth aside: what the work list
\* will write, without writing it.
Summary(length, alternatives, minimum, total, nodes, bytes) ==
  [length |-> length, alternatives |-> alternatives, minimum |-> minimum, total |-> total,
   nodes |-> nodes, bytes |-> bytes]
TextSummary(n) == Summary(n, 1, n, n, 1, n)

\* concat.  (Mutant: the suffix is copied along with the alternatives of the
\* prefix, not with every piece of it.)
Followed(a, b, copies) ==
  Summary(a.length + b.length, a.alternatives * b.alternatives, a.minimum + b.minimum,
          b.alternatives * a.total + a.alternatives * b.total,
          a.nodes + a.alternatives * (b.nodes - 1),
          a.bytes + copies * b.length + (b.nodes - 1) * a.total + a.alternatives * (b.bytes - b.length))
CopiedOnce(a, b) == Followed(a, b, a.alternatives)
Concat(a, b) == Followed(a, b, a.nodes)

OverArms(arms, Measure(_)) == FoldSeq(LAMBDA arm, sum : Measure(arm) + sum, 0, arms)
GroupSummary(length, arms) ==
  Summary(length, OverArms(arms, LAMBDA arm : arm.alternatives),
          Least({arm.minimum : arm \in ToSet(arms)}), OverArms(arms, LAMBDA arm : arm.total),
          1 + OverArms(arms, LAMBDA arm : arm.nodes), length + OverArms(arms, LAMBDA arm : arm.bytes))
RECURSIVE Summarized(_)
SummarizedAt(p, cuts) ==
  Concat(Concat(TextSummary(Head(cuts) - 1),
                GroupSummary(Last(cuts) - Head(cuts) + 1,
                             [k \in 1 .. Len(cuts) - 1 |-> Summarized(SubSeq(p, cuts[k] + 1, cuts[k + 1] - 1))])),
         Summarized(SubSeq(p, Last(cuts) + 1, Len(p))))
Summarized(p) ==
  IF HasPair(p) THEN SummarizedAt(p, Cuts(p, Braces, Least(Unescaped(p, "{")), ",")) ELSE TextSummary(Len(p))

\* Where the scans of a source stand: they skip what is escaped, and go from
\* an opening straight to what is behind its end when there is one.
Stops(p, Behind(_)) ==
  LET from[i \in 1 .. Len(p) + 2] ==
        IF i > Len(p) THEN {} ELSE IF p[i] = "\\" THEN from[i + 2] ELSE {i} \cup from[Behind(i)]
  IN from[1]
ClassCloses(p, i) == \E j \in Unescaped(p, "]") : j > ClassStart(p, i)
Classes(p) ==
  {i \in Stops(p, LAMBDA i : IF p[i] = "[" /\ ClassCloses(p, i) THEN ClassEnd(p, i) + 1 ELSE i + 1) : p[i] = "["}
ClassesValid(p) == \A i \in Classes(p) : ClassCloses(p, i)

\* source_classes_are_stable_and_valid: no class that the expansion could cut.
\* Braces inside of classes are never counted, there are none.
ClassesStable(p) ==
  /\ ClassesValid(p)
  /\ \A i \in Classes(p) :
       LET inside(byte) == Unescaped(p, byte) \cap (i .. ClassEnd(p, i))
           depth[j \in 1 .. i] ==
             IF j = 1 THEN 0
             ELSE CASE j - 1 \in Unescaped(p, "{") -> depth[j - 1] + 1
                    [] j - 1 \in Unescaped(p, "}") -> Larger(depth[j - 1] - 1, 0)
                    [] OTHER -> depth[j - 1]
       IN inside("{") = {} /\ inside("}") = {} /\ (depth[i] > 0 => inside(",") = {})

\* unconditional_compiled_units: what stands outside of every group.
Unconditional(p) ==
  LET pair(i) == p[i] = "{" /\ Closers(p, Braces, i) # {}
  IN {i \in Stops(p, LAMBDA i : IF pair(i) THEN Least(Closers(p, Braces, i)) + 1 ELSE i + 1) : ~pair(i)}
LeastUnits(p, minimum) ==
  LET outside == Unconditional(p)
  IN Cardinality({i \in outside : p[i] = "?"})
     + (IF \E i \in outside : OpensGroup(p, i) THEN minimum ELSE 0)

RefusedAhead(p, bounds, sum) ==
  /\ ClassesStable(p)
  /\ sum.alternatives <= bounds.alternatives /\ sum.bytes <= bounds.bytes
  /\ (sum.nodes - 1) * (1 + 2 * Cardinality(Unescaped(p, "{"))) <= bounds.spans
  /\ sum.alternatives * LeastUnits(p, sum.minimum) > bounds.units

-----------------------------------------------------------------------------
(* What compiling the alternatives charges.                                *)

\* compiled_ir_lower_bound, refused before anything is compiled.
MemberCount(values) ==
  LET from[k \in 1 .. Len(values) + 1] ==
        IF k > Len(values) THEN 0
        ELSE 1 + (IF k + 2 <= Len(values) /\ values[k + 1] = [byte |-> "-", escaped |-> FALSE]
                  THEN from[k + 3] ELSE from[k + 1])
  IN from[1]
HasGroup(p) == \E i \in Stops(p, LAMBDA i : i + 1) : OpensGroup(p, i)
Owned(p) ==
  MapThenSumSet(LAMBDA i : MemberCount(ClassValues(p, i)), Classes(p)) + (IF HasGroup(p) THEN Len(p) ELSE 0)
LowerBound(p) ==
  LET tokens == Stops(p, LAMBDA i : IF i \in Classes(p) THEN ClassEnd(p, i) + 1 ELSE i + 1)
  IN Owned(p) + Cardinality({i \in tokens : p[i] \in {"?", "["}})

\* Tokens, the members of classes and the steps of a program, each charged
\* where it is built; the sweeps and tries that come on top are left out.
Charged(p) == Owned(p) + Len(Tokens(p))

InTotal(Units(_)) == FoldSeq(LAMBDA piece, sum : Units(piece.bytes) + sum, 0, expanded)

-----------------------------------------------------------------------------
(* Properties.                                                             *)

\* Every byte of every piece is the byte of the source at the offset its spans
\* name, and the offsets keep the order of the source: an error about a piece
\* can be shown in what the caller wrote.
OffsetsTrue ==
  \A piece \in ToSet(worklist) \cup ToSet(expanded) :
    \E offsets \in {[i \in DOMAIN piece.bytes |-> OffsetAt(piece, i - 1)]} :
      /\ \A i \in DOMAIN offsets : piece.bytes[i] = source[offsets[i] + 1]
      /\ \A i, j \in DOMAIN offsets : i < j => offsets[i] < offsets[j]

\* The work list yields what the recursion yields, in its order, and writes
\* what the summary says without writing.  A budget refuses a pattern only if
\* all of its alternatives would exceed it; the look-ahead refuses one only if
\* no other error comes before (it expands, and its classes are valid) and
\* compiling it would run out of units.
ExpandsOrRefuses ==
  /\ OffsetsTrue
  /\ outcome # "open" =>
       \E all \in {Alternatives(source)}, sum \in {Summarized(source)} :
         LET valid == \A p \in ToSet(all) : ClassesValid(p) IN
         /\ outcome = "done" =>
              /\ [k \in DOMAIN expanded |-> expanded[k].bytes] = all
              /\ HasPair(source) => Len(all) <= limit.alternatives
              /\ sum.alternatives = Len(all) /\ sum.bytes = written
              /\ sum.total = InTotal(LAMBDA p : Len(p)) /\ sum.minimum = Least({Len(p) : p \in ToSet(all)})
              /\ valid => InTotal(LowerBound) <= InTotal(Charged)
         /\ outcome = "alternatives" => Len(all) > limit.alternatives
         /\ outcome = "bytes" => sum.bytes > limit.bytes
         /\ RefusedAhead(source, limit, sum) => outcome = "done" /\ InTotal(Charged) > limit.units /\ valid
=============================================================================
