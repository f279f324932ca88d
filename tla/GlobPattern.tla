----------------------------- MODULE GlobPattern -----------------------------
(***************************************************************************)
(* ferralk-glob: the alternatives and tokens a pattern compiles to, and    *)
(* what the engines behind Pattern's entry points answer about a           *)
(* candidate: the fast paths, the sets of suffixes, the prefilter and the  *)
(* Shift-And sweep.  GlobMatcher models the memoized engine they are held  *)
(* against.                                                                *)
(*                                                                         *)
(* Patterns and candidates are sequences of bytes, offsets count the bytes *)
(* before them.  Extglobs are in Extglob, the named classes are left out;  *)
(* case folding leaves a fixed byte alone and only turns off the skipping  *)
(* of the memoized engine.                                                 *)
(***************************************************************************)
EXTENDS Integers, FiniteSets, SequencesExt

CONSTANTS
  Ascending,  \* the bytes patterns and candidates are made of, in order
  WordBits    \* u64::BITS, the width of a word of a sweep
ASSUME WordAssumption == WordBits \in Nat \ {0}

-----------------------------------------------------------------------------
(* Alternatives: expand_brace_alternatives, depth first in their order.    *)

EscapedAt(p, i) ==
  LET bars == {j \in 1 .. i - 1 : \A k \in j .. i - 1 : p[k] = "\\"} IN Cardinality(bars) % 2 = 1
Unescaped(p, byte) == {i \in DOMAIN p : p[i] = byte /\ ~EscapedAt(p, i)}
Least(S) == CHOOSE i \in S : \A j \in S : i <= j

\* A pair is the brackets of braces, or those of an extglob.  The least of the
\* closers matches the opening one, and its content is cut at its own commas
\* or bars.
DepthAt(p, pair, open, i) ==
  Cardinality(Unescaped(p, pair[1]) \cap (open .. i)) - Cardinality(Unescaped(p, pair[2]) \cap (open .. i))
Closers(p, pair, open) == {i \in Unescaped(p, pair[2]) : i > open /\ DepthAt(p, pair, open, i) = 0}
Cuts(p, pair, open, byte) ==
  LET close == Least(Closers(p, pair, open))
      own == {i \in Unescaped(p, byte) : open < i /\ i < close /\ DepthAt(p, pair, open, i) = 1}
  IN SetToSortSeq(own \cup {open, close}, <)
Split(p, pair, open, byte) ==
  LET cuts == Cuts(p, pair, open, byte)
  IN [k \in 1 .. Len(cuts) - 1 |-> SubSeq(p, cuts[k] + 1, cuts[k + 1] - 1)]
Braces == <<"{", "}">>

\* An unmatched brace is text, and so are the ones behind it.
RECURSIVE Alternatives(_)
Alternatives(p) ==
  LET braces == Unescaped(p, "{") open == Least(braces) close == Least(Closers(p, Braces, open)) IN
  IF braces = {} \/ Closers(p, Braces, open) = {} THEN <<p>>
  ELSE FlattenSeq([k \in DOMAIN Split(p, Braces, open, ",") |->
         Alternatives(SubSeq(p, 1, open - 1) \o Split(p, Braces, open, ",")[k] \o SubSeq(p, close + 1, Len(p)))])

\* detect_extglob_at.
OpensGroup(p, i) == i < Len(p) /\ p[i] \in {"?", "*", "+", "@", "!"} /\ p[i + 1] = "("

-----------------------------------------------------------------------------
(* Classes: parse_class, for one that is closed and not empty.             *)

\* A "]" right behind the opening is a member.
ClassStart(p, i) == IF i < Len(p) /\ p[i + 1] \in {"!", "^"} THEN i + 2 ELSE i + 1
ClassEnd(p, i) == Least({j \in Unescaped(p, "]") : j > ClassStart(p, i)})
ClassValues(p, i) ==
  LET spelled == {j \in ClassStart(p, i) .. ClassEnd(p, i) - 1 : p[j] # "\\" \/ EscapedAt(p, j)}
  IN [k \in 1 .. Cardinality(spelled) |-> LET j == SetToSortSeq(spelled, <)[k] IN
                                          [byte |-> p[j], escaped |-> EscapedAt(p, j)]]

\* class_members: an unescaped "-" between two values spans a range, and
\* ranges are read from the left.
Order(byte) == CHOOSE k \in DOMAIN Ascending : Ascending[k] = byte
Members(values) ==
  LET from[k \in 1 .. Len(values) + 1] ==
        IF k > Len(values) THEN {}
        ELSE IF k + 2 <= Len(values) /\ values[k + 1] = [byte |-> "-", escaped |-> FALSE]
        THEN {Ascending[n] : n \in Order(values[k].byte) .. Order(values[k + 2].byte)} \cup from[k + 3]
        ELSE {values[k].byte} \cup from[k + 1]
  IN from[1]
Class(p, i) ==
  LET members == Members(ClassValues(p, i)) IN
  [kind |-> "class",
   bytes |-> IF ClassStart(p, i) = i + 2 THEN ToSet(Ascending) \ members ELSE members]

-----------------------------------------------------------------------------
(* Tokens: the loop of compile_within.                                     *)

Token(kind) == [kind |-> kind, text |-> <<>>]
Literal(text) == [kind |-> "literal", text |-> text]
Stars == {"star", "recursive", "prefix"}
OneByte == {"any", "class"}
Wildcards == Stars \cup OneByte

\* What stands around a pattern: nothing, or for an alternative of a group
\* whatever stands around the group.
Whole == [starts |-> TRUE, ends |-> TRUE]
StartsComponent(p, i, bounds) == IF i = 1 THEN bounds.starts ELSE p[i - 1] = "/" /\ ~EscapedAt(p, i - 1)
EndsComponent(p, end, bounds) == IF end > Len(p) THEN bounds.ends ELSE p[end] = "/"

\* star_run_is_whole_component, for the run of stars around offset i.
RunAround(p, i) == {j \in DOMAIN p : \A k \in (i .. j) \cup (j .. i) : p[k] = "*"}
WholeComponent(p, i, bounds) ==
  LET stars == RunAround(p, i)
      last == CHOOSE j \in stars : \A k \in stars : j >= k
  IN StartsComponent(p, Least(stars), bounds) /\ EndsComponent(p, last + 1, bounds)

\* Literal bytes are flushed as one token.
WithLiteral(byte, tokens) ==
  IF tokens # <<>> /\ Head(tokens).kind = "literal"
  THEN <<Literal(<<byte>> \o Head(tokens).text)>> \o Tail(tokens)
  ELSE <<Literal(<<byte>>)>> \o tokens

TokensIn(p, bounds) ==
  LET from[i \in 1 .. Len(p) + 1] ==
        IF i > Len(p) THEN <<>>
        ELSE LET pair == i < Len(p) /\ p[i + 1] = "*"
                 skip(kind, n) == <<Token(kind)>> \o from[i + n]
             IN CASE p[i] = "/" -> skip("separator", 1)
                  [] p[i] = "?" -> skip("any", 1)
                  [] p[i] = "[" -> <<Class(p, i)>> \o from[ClassEnd(p, i) + 1]
                  [] p[i] = "*" /\ pair /\ WholeComponent(p, i, bounds) ->
                       IF i + 2 <= Len(p) /\ p[i + 2] = "/" THEN skip("prefix", 3) ELSE skip("recursive", 2)
                  [] p[i] = "*" /\ ~(pair /\ WholeComponent(p, i, bounds)) -> skip("star", 1)
                  [] p[i] = "\\" /\ i < Len(p) -> WithLiteral(p[i + 1], from[i + 2])
                  [] OTHER -> WithLiteral(p[i], from[i + 1])
  IN from[1]
Tokens(p) == TokensIn(p, Whole)

-----------------------------------------------------------------------------
(* What a token may consume.  component and root are the two options that  *)
(* an entry point sets, hidden is match_hidden, folds is case_insensitive; *)
(* starts and local say where the candidate stands: at the start of a      *)
(* component, and directly behind a separator of the pattern.              *)

AtComponentStart(path, at, o) == IF at = 0 THEN o.starts ELSE path[at] = "/"
HiddenAt(path, at, o) ==
  ~o.hidden /\ at < Len(path) /\ path[at + 1] = "." /\ AtComponentStart(path, at, o)

\* component_wildcard, for an ordinary wildcard.
StaysInComponent(tokens, i, o) ==
  /\ tokens[i].kind \in OneByte \cup {"star"}
  /\ o.component /\ (o.root \/ IF i = 1 THEN o.local ELSE tokens[i - 1].kind = "separator")

\* advance_one and star_consumes_byte.
WildcardTakes(tokens, i, path, at, o) ==
  /\ at < Len(path) /\ ~HiddenAt(path, at, o)
  /\ path[at + 1] = "/" => ~StaysInComponent(tokens, i, o)
  /\ tokens[i].kind = "class" => path[at + 1] \in tokens[i].bytes

\* StarSemantics: where a star may hand over to the next token.
StarStops(tokens, i, path, at, o) ==
  IF tokens[i].kind = "prefix" THEN AtComponentStart(path, at, o)
  ELSE (i < Len(tokens) /\ tokens[i + 1].kind \in Stars) \/ ~HiddenAt(path, at, o)

SpelledAt(text, path, at) ==
  at >= 0 /\ at + Len(text) <= Len(path) /\ SubSeq(path, at + 1, at + Len(text)) = text

\* "dir/**" accepts "dir".
Elidable(tokens) ==
  LET n == Len(tokens) IN n >= 2 /\ tokens[n - 1].kind = "separator" /\ tokens[n].kind = "recursive"

\* The meaning of a token list, without a search order, a memo or a shortcut:
\* the candidate can be cut into one span per token that the token may take.
Spans(tokens, i, path, from, to, o) ==
  CASE tokens[i].kind = "literal" -> to = from + Len(tokens[i].text) /\ SpelledAt(tokens[i].text, path, from)
    [] tokens[i].kind = "separator" ->
         \/ to = from + 1 /\ SpelledAt(<<"/">>, path, from)
         \/ to = from /\ from = Len(path) /\ Elidable(tokens) /\ i = Len(tokens) - 1
    [] tokens[i].kind \in OneByte -> to = from + 1 /\ WildcardTakes(tokens, i, path, from, o)
    [] OTHER -> /\ \A at \in from .. to - 1 : WildcardTakes(tokens, i, path, at, o)
                /\ StarStops(tokens, i, path, to, o)
RECURSIVE FitsFrom(_, _, _, _, _)
FitsFrom(tokens, i, path, from, o) ==
  IF i > Len(tokens) THEN from = Len(path)
  ELSE \E to \in from .. Len(path) :
         Spans(tokens, i, path, from, to, o) /\ FitsFrom(tokens, i + 1, path, to, o)
Fits(tokens, path, o) == FitsFrom(tokens, 1, path, 0, o)

-----------------------------------------------------------------------------
(* Prefilter: conditions every match satisfies.                            *)

Fixed(token) == token.kind \in {"literal", "separator"}
Bytes(token) == IF token.kind = "separator" THEN <<"/">> ELSE token.text
RunBytes(run) == FlattenSeq([i \in DOMAIN run |-> Bytes(run[i])])
Elided(tokens) == IF Elidable(tokens) THEN 1 ELSE 0
MinLength(token) == CASE token.kind = "literal" -> Len(token.text)
                      [] token.kind \in {"separator"} \cup OneByte -> 1
                      [] OTHER -> 0
LeadingRun(tokens) ==
  LET n == Least({i \in DOMAIN tokens : ~Fixed(tokens[i])} \cup {Len(tokens) + 1}) - 1
  IN SubSeq(tokens, 1, IF n + 1 = Len(tokens) THEN n - Elided(tokens) ELSE n)
TrailingRun(tokens) ==
  LET n == Cardinality({i \in DOMAIN tokens : \A j \in i .. Len(tokens) : Fixed(tokens[j])})
  IN SubSeq(tokens, Len(tokens) - n + 1, Len(tokens))

\* interior_literal: some longest run strictly between the fixed ends, and
\* none that is separators only.
InteriorRuns(tokens) ==
  LET first == Len(LeadingRun(tokens)) + 1
      last == Len(tokens) - Len(TrailingRun(tokens))
      joins(i) == Fixed(tokens[i]) /\ ~(Elidable(tokens) /\ i = Len(tokens) - 1)
  IN {RunBytes(SubSeq(tokens, i, j)) :
        <<i, j>> \in {ij \in (first .. last) \X (first .. last) :
                        ij[1] <= ij[2] /\ \A k \in ij[1] .. ij[2] : joins(k)}}
Interior(tokens) ==
  LET runs == {r \in InteriorRuns(tokens) : ToSet(r) \ {"/"} # {}}
  IN {r \in runs : \A s \in runs : Len(s) <= Len(r)}

Total(tokens) == FoldSeq(LAMBDA token, sum : sum + MinLength(token), 0, tokens)
Rejects(tokens, path, o) ==
  LET prefix == RunBytes(LeadingRun(tokens)) suffix == RunBytes(TrailingRun(tokens)) IN
  \/ Len(path) < Total(tokens) - Elided(tokens)
  \/ ~SpelledAt(prefix, path, 0) \/ ~SpelledAt(suffix, path, Len(path) - Len(suffix))
  \/ ~o.folds /\ \E run \in Interior(tokens) : \A at \in 0 .. Len(path) : ~SpelledAt(run, path, at)

-----------------------------------------------------------------------------
(* FastPath: shapes answered without a search.                             *)

Kinds(tokens) == [i \in DOMAIN tokens |-> tokens[i].kind]
OneStar(tokens) ==
  \E s \in DOMAIN tokens :
    tokens[s].kind = "star" /\ \A i \in DOMAIN tokens \ {s} : Fixed(tokens[i])
RecursiveSuffix == {<<"prefix", "star", "literal">>,
                    <<"literal", "separator", "prefix", "star", "literal">>}
FastShape(tokens, componentCopy) ==
  CASE ToSet(Kinds(tokens)) \subseteq {"literal", "separator"} \cup OneByte -> "fixed"
    [] componentCopy -> "none"
    [] OneStar(tokens) -> "star"
    [] Kinds(tokens) = <<"literal", "separator", "recursive">> -> "subtree"
    [] Kinds(tokens) \in RecursiveSuffix -> "suffix"
    [] OTHER -> "none"
SupportsComponentWildcards(tokens, shape) ==
  shape \in {"fixed", "suffix"} \/ (shape = "star" /\ Kinds(tokens) = <<"star", "literal">>)

HiddenIn(path, from, to, o) == \E at \in from .. to - 1 : HiddenAt(path, at, o)
StarEnds(path, end, o) == ~HiddenAt(path, end, o)

\* LiteralTokens and DeterministicTokens: every token has a width.
FixedMatch(tokens, path, o) ==
  LET start(i) == FoldSeq(LAMBDA t, sum : sum + MinLength(t), 0, SubSeq(tokens, 1, i - 1)) IN
  /\ Len(path) = Total(tokens)
  /\ \A i \in DOMAIN tokens : IF tokens[i].kind \in OneByte THEN WildcardTakes(tokens, i, path, start(i), o)
                                                       ELSE SpelledAt(Bytes(tokens[i]), path, start(i))

\* Every shape around one star, the one of "**/" and "*" in a row included.
StarMatch(tokens, path, o) ==
  LET star == CHOOSE i \in DOMAIN tokens : tokens[i].kind = "star"
      head == RunBytes(SelectSeq(SubSeq(tokens, 1, star - 1), Fixed))
      tail == RunBytes(SubSeq(tokens, star + 1, Len(tokens)))
      end == Len(path) - Len(tail)
  IN /\ Len(head) <= end /\ SpelledAt(head, path, 0) /\ SpelledAt(tail, path, end)
     /\ StarEnds(path, end, o) /\ ~HiddenIn(path, Len(head), end, o)
     /\ (o.component /\ (o.root \/ o.local) /\ Len(tokens) = 2) => "/" \notin ToSet(SubSeq(path, 1, end))

SubtreeMatch(tokens, path, o) ==
  LET root == tokens[1].text n == Len(root) IN
  /\ SpelledAt(root, path, 0)
  /\ \/ Len(path) = n
     \/ path[n + 1] = "/" /\ ~HiddenIn(path, n + 1, Len(path), o)

FastMatch(shape, tokens, path, o) ==
  CASE shape = "fixed" -> FixedMatch(tokens, path, o)
    [] shape = "subtree" -> SubtreeMatch(tokens, path, o)
    [] OTHER -> StarMatch(tokens, path, o)

-----------------------------------------------------------------------------
(* SweepEngine: every token is one or more byte-consuming positions, the   *)
(* state is the set of boundaries reached.  Position p sits between the    *)
(* boundaries p - 1 and p.                                                 *)

Positions(tokens) ==
  FlattenSeq([i \in DOMAIN tokens |->
    IF tokens[i].kind = "literal" THEN [k \in DOMAIN tokens[i].text |-> Literal(<<tokens[i].text[k]>>)]
                                  ELSE <<tokens[i]>>])
Where(positions, kinds) == {p \in DOMAIN positions : positions[p].kind \in kinds}

\* eclose_wide: a star may take nothing.  Adding the boundaries before stars
\* to the stars carries each boundary to the end of its run of stars, through
\* as many words as the run has; eclose is the case of one word.
\* (Mutant: the carry out of a word is lost.)
WordOf(bits, w) == {b \in bits : b \div WordBits = w}
Value(bits) == FoldSet(LAMBDA b, sum : sum + 2 ^ (b % WordBits), 0, bits)
NeverSpilling(sum) == 0
Spilling(sum) == sum \div 2 ^ WordBits
Close(boundaries, stars) ==
  LET bits == {p - 1 : p \in stars}
      sum[w \in Nat] == Value(WordOf(bits, w)) + Value(WordOf(bits \cap boundaries, w))
                        + (IF w = 0 THEN 0 ELSE Spilling(sum[w - 1]))
      set(b) == (sum[b \div WordBits] \div 2 ^ (b % WordBits)) % 2 = 1
  IN boundaries \cup {b \in bits \cup stars : set(b) # (b \in bits)}

DotStopBlock(positions, o) == IF o.hidden THEN {} ELSE Where(positions, {"star", "recursive"})
SepBlock(positions, o) == {p \in DOMAIN positions : StaysInComponent(positions, p, o)}

AdvanceSweep(positions, boundaries, byte, atStart, o) ==
  LET hides == byte = "." /\ atStart
      from == IF hides THEN boundaries \ DotStopBlock(positions, o) ELSE boundaries
      reached(p) == CASE positions[p].kind = "class" -> byte \in positions[p].bytes
                      [] Fixed(positions[p]) -> Bytes(positions[p]) = <<byte>>
                      [] OTHER -> TRUE
      blocked == (IF byte = "/" THEN SepBlock(positions, o) ELSE {})
                 \cup (IF hides /\ ~o.hidden THEN Where(positions, Wildcards) ELSE {})
      consuming == {p \in DOMAIN positions \ blocked : p - 1 \in from /\ reached(p)}
      stars == Where(positions, Stars)
  IN Close((consuming \ stars) \cup {p - 1 : p \in consuming \cap stars},
           IF byte = "/" THEN stars ELSE stars \ Where(positions, {"prefix"}))

\* The boundaries before the first byte: a "**/" hands over only where a
\* component starts.
StartBoundaries(positions, o) ==
  Close({0}, Where(positions, IF o.starts THEN Stars ELSE Stars \ {"prefix"}))

\* The boundaries reached behind the last byte.
Reached(positions, path, o) ==
  LET advance(boundaries, n) ==
        IF boundaries = {} THEN {}
        ELSE AdvanceSweep(positions, boundaries, path[n], AtComponentStart(path, n - 1, o), o)
  IN FoldLeft(advance, StartBoundaries(positions, o), [n \in DOMAIN path |-> n])
Accepts(tokens, boundaries) ==
  LET last == Len(Positions(tokens)) IN
  last \in boundaries \/ (Elidable(tokens) /\ last - 2 \in boundaries)
SweepMatch(tokens, path, o) == Accepts(tokens, Reached(Positions(tokens), path, o))

-----------------------------------------------------------------------------
(* AlternativeFastPath: alternatives that differ in literals only.         *)

SetKinds == {<<"star", "literal">>, <<"prefix", "star", "literal">>}
ScopedKinds == <<"literal", "separator", "prefix", "star", "literal">>

\* A scoped set has two tries, for the first and for the last literals: every
\* combination has to be an alternative.
EveryPairing(alternatives) ==
  \A a, b \in ToSet(alternatives) : \E c \in ToSet(alternatives) : Head(c) = Head(a) /\ Last(c) = Last(b)
SetShape(alternatives) ==
  CASE Len(alternatives) < 2 -> "none"
    [] \E kinds \in SetKinds : \A a \in ToSet(alternatives) : Kinds(a) = kinds -> "suffixes"
    [] (\A a \in ToSet(alternatives) : Kinds(a) = ScopedKinds) /\ EveryPairing(alternatives) -> "scoped"
    [] OTHER -> "none"

\* The offsets where a suffix of the trie starts, behind a span that begins at
\* offset start.
SuffixStarts(alternatives, path, start, o) ==
  {end \in start .. Len(path) :
     /\ \E a \in ToSet(alternatives) :
          end + Len(Last(a).text) = Len(path) /\ SpelledAt(Last(a).text, path, end)
     /\ StarEnds(path, end, o) /\ ~HiddenIn(path, start, end, o)}
SuffixesMatch(alternatives, path, o) ==
  \E end \in SuffixStarts(alternatives, path, 0, o) :
    (Len(Head(alternatives)) = 2 /\ o.component) => "/" \notin ToSet(SubSeq(path, 1, end))

\* The trie of the prefixes stops at the first one that a separator follows.
PrefixEnds(alternatives, path) ==
  {n \in 1 .. Len(path) - 1 : path[n + 1] = "/"
                              /\ \E a \in ToSet(alternatives) : Head(a).text = SubSeq(path, 1, n)}
ScopedMatch(alternatives, path, o) ==
  LET ends == PrefixEnds(alternatives, path) IN
  ends # {} /\ SuffixStarts(alternatives, path, Least(ends) + 1, o) # {}

-----------------------------------------------------------------------------
(* The entry points of Pattern: which copy of the alternative is asked,    *)
(* about which part of the candidate, under which options.                 *)

StartsDotted(s) == Len(s) >= 2 /\ s[1] = "." /\ s[2] = "/"
WithoutDotSlash(s) == IF StartsDotted(s) THEN SubSeq(s, 3, Len(s)) ELSE s
WildBehindSeparator(tokens) ==
  \E i \in 2 .. Len(tokens) : tokens[i - 1].kind = "separator" /\ tokens[i].kind \in OneByte \cup {"star"}
NeedsCopy(p) == StartsDotted(p) \/ WildBehindSeparator(Tokens(p))

\* Once one alternative needs a copy, every one gets one.
CopyNeeded(sources, reading) ==
  CASE reading = "path" -> \E p \in ToSet(sources) : NeedsCopy(p)
    [] reading \in {"glob", "crossing"} -> \E p \in ToSet(sources) : StartsDotted(p)
    [] reading = "whole" -> FALSE
Asks(sources, copied, candidate, dialect) ==
  LET reading == dialect.reading IN
  [alternatives |-> [k \in DOMAIN sources |-> Tokens(IF copied THEN WithoutDotSlash(sources[k]) ELSE sources[k])],
   path |-> IF reading = "whole" THEN candidate ELSE WithoutDotSlash(candidate),
   copied |-> copied,
   options |-> [component |-> reading = "glob" \/ (reading = "path" /\ copied),
                root |-> reading = "glob", hidden |-> dialect.hidden, folds |-> dialect.folds,
                starts |-> TRUE, local |-> FALSE]]
Route(pattern, candidate, dialect) ==
  LET sources == IF dialect.braces THEN Alternatives(pattern) ELSE <<pattern>>
  IN Asks(sources, CopyNeeded(sources, dialect.reading), candidate, dialect)

\* match_alternatives, for one of them: the fast path when there is one, else
\* the sweep behind the prefilter.  Under component wildcards no fast path but
\* the fixed ones survives in a copy.
AnswersAlone(tokens, copied, path, o) ==
  LET shape == FastShape(tokens, copied) IN
  IF shape # "none" /\ (o.component => SupportsComponentWildcards(tokens, shape))
  THEN FastMatch(shape, tokens, path, o)
  ELSE ~Rejects(tokens, path, o) /\ SweepMatch(tokens, path, o)
AnswersAny(route) ==
  \E tokens \in ToSet(route.alternatives) : AnswersAlone(tokens, route.copied, route.path, route.options)

Compiled(route) ==
  LET all == route.alternatives path == route.path o == route.options IN
  CASE route.copied \/ SetShape(all) = "none" -> AnswersAny(route)
    [] SetShape(all) = "suffixes" -> SuffixesMatch(all, path, o)
    [] SetShape(all) = "scoped" -> StarMatch(Head(all), path, o) \/ ScopedMatch(all, path, o)
=============================================================================
