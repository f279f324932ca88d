----------------------------- MODULE MCMatchers -----------------------------
(* Patterns, rules and candidates for the three matching loops and the brace  *)
(* expansion: every short one over a few bytes, and longer ones around the    *)
(* rules of stars.  One of the four runs in a behavior, the other three stay  *)
(* where they began.                                                          *)
EXTENDS GlobMatcher, IgnoreMatcher, WalkerPath

Alphabet ==
  <<"!", "(", ")", "*", "+", ",", "-", ".", "/", "?", "@", "[", "\\", "]", "^", "a", "b", "{", "|", "}">>

Spell(s) == [i \in 1 .. Len(s) |-> SubSeq(s, i, i)]
Spelled(names) == {Spell(s) : s \in names}
UpTo(bytes, n) == UNION {[1 .. k -> bytes] : k \in 0 .. n}

ClassPatterns ==
  Spelled({"[a]", "[!a]", "a[^.]", "[.-a]", "[a-.]", "[]]", "[!]/]", "[]-a]", "[a\\]]", "[-.]", "[a-]", "[.\\-a]",
           "[\\--a]", "[a/]*", "*[!.]", "*[/a]", "/[!/]", "a/[!a]", "**/[.a]", "[!a]/**", "?[./]a", "*a[.]a"})
\* Nested, empty, escaped and unmatched braces; sets of suffixes and of scoped
\* suffixes, complete and not; alternatives of which some need a copy.
Braced ==
  Spelled({"{a,.a}", "{a", "a}/", "{}a", "{a,}", "a{,/{,a}}", "{{a}", "{a\\,a}", "\\{a,a}", "{a,b}{,.}", "{*a,*.a}",
           "{**/*a,**/*.a}", "{*.a,**/*a}", "{a,aa}/**/*{a,.a}", "{a/**/*a,aa/**/*.a}", "{a,.a}/**/*a",
           "{./a,*a}", "{./*a,.a}", "{a/*a,*.a}", "{*,?}/a", "{a/**,*/a}", "{[a]a,*a}", "a/{*,.}a", "{.,a}/*a"})
GlobPatterns ==
  ClassPatterns \cup Braced \cup {p \in UpTo({"a", ".", "/", "*"}, 3) : Len(p) < 3 \/ "*" \in ToSet(p)}
  \cup Spelled({"?", "?a", "a?", "/?", "?/a", "*?", ".?", "\\*", "\\/**", "a\\", "\\.*"})
  \cup Spelled({"a/**", "**/a", "**/.a", "**/*a", "**/*.a", "a/**/a", "a/**/*a", "a/*a", "*a*a", "**/a*",
                "****/.a", "***a", "/***", "a**/", "**a/", "*/**", "*/*a", ".a*a", "a*.a", "a/**/",
                "**/**", "**/**/a", "*/./a", "./*a", "./**", "./a?", "*a/*", "*a/**", "*.a/**", "?*a*.a"})
\* A prefix that ends in front of a separator spelled by an escape in another.
Overlapping == Spelled({"{a,a\\/.b}/**/*a", "{.b,a}/**/*a"})
GlobCandidates ==
  UpTo({"a", ".", "/"}, 3)
  \cup Spelled({"a/.a", "./a/", "./.a", ".//a", "././", "a//a", "//.a", "aa/a", "a/aa", ".a/a", "/a/a", "..a/",
                "a.a/", "a/a.", "a/./", "aa.a", "a..a", "aaaa",
                "..a/a", "a//.a", "a/aa/", ".aa/a", "aa..a",
                "a/a/a", "a/.a/a", "a/.b/a", "a/a.a", "aa/a.a", "./a/a", "././a",
                "aaaaa.a", "a/aa/.a", "aa/aa/a", ".a/.a.a", "a/a/a/a"})

GlobDialects ==
  [reading : {"whole", "path", "glob", "crossing"}, hidden : BOOLEAN, folds : {FALSE}, braces : {TRUE}]
  \cup [reading : {"glob"}, hidden : {FALSE}, folds : {TRUE}, braces : {TRUE}]

\* What the thread was asked before: it leaves answers for a first star before
\* a literal, and the second one the counter at its limit.
AskedAs(p, c) == Route(Spell(p), Spell(c), [reading |-> "glob", hidden |-> FALSE, folds |-> FALSE, braces |-> TRUE])
Before == {[input |-> AskedAs("*a", ".aa/a"), generation |-> 1],
           [input |-> AskedAs("a/*.a", "a/aaa.a/"), generation |-> 2]}

\* Lines over a few bytes, and chains of one and of two files: with two rules
\* each, rules that re-include, and rules for directories.
Bodies == UpTo({"a", "*", "/"}, 4) \ {<<>>}
Longer ==
  Spelled({"**/a/**/b", "a/**/b", "**/a/b", "a/**/a/**/b", "**/ab/**", "a**b/", "*b", "/a*/b", "**\\/a",
           "a/**\\/b", "**\\/**/b", "a\\/b", "a\\", "\\*a", "ab/*", "**/*a*/b"})
Some == Spelled({"a", "!a", "b/", "!a/b", "a/**", "!**/b"})
RuleLines == Some \cup Bodies \cup Longer \cup Spelled({"!a", "!b", "!a/", "a/", "!**/a/b", "!/a", "!a/**", "b", "/b", "!"})
Files == {<<l>> : l \in Some} \cup {<<k, l>> : k, l \in Some}
RuleChains ==
  {<<[depth |-> 0, lines |-> <<l>>]>> : l \in RuleLines}
  \cup {<<[depth |-> 0, lines |-> f], [depth |-> 1, lines |-> g]>> : f \in Files, g \in {<<l>> : l \in Some}}

RuleNames ==
  [1 .. 2 -> Spelled({"a", "b", "ab"})] \cup UNION {[1 .. k -> Spelled({"a", "b"})] : k \in 3 .. 4}
  \cup {<<Spell("a"), Spell("ab"), Spell("b")>>, <<Spell("ab"), Spell("a"), Spell("ab")>>}
RuleEntries == [names : RuleNames, isDir : BOOLEAN]

\* Groups beside recursive stars, at the start of a component, behind a star
\* of either kind; nested, empty, unclosed and repeated ones.
Grouped ==
  Spelled({"@(a|b)/**", "?(a)/**", "a/@(**)", "a/?(**|b)", "@(**)/a", "@(**|b)/a", "?(**)/a", "@(**)/.a",
           "@(**)/*", "a/@(**)/b", "@(a/**)/b", "@(**/**)/a", "@(**/a|**)/b", "@(**)//a", "/@(**)/", "@(***)/a",
           "!(b)/**", "*(a)/**", "+(**)/a", "*(**)/a", "+(b|**)/a", "a/*(**)", "a/!(**)", "!(**)/a", "**/@(a)",
           "**/*.@(a)", "a/@(*.b)", "a*/*.@(b)", "*/*.@(a)", "*/@(a/b)", "a/+(*.b)", "+(a|.b)", "@(.a|b)*",
           "*@(a)b", "a@(b|[a-b])/?(.a|b)", "!(a)b", "a!(.b)", "*(a|b/)a", "?(a)?(b)@(/|.)", "**(a)", "***(a)b",
           "@(a", "*@(a", "?(/", "@(a|b)*(", "a/@(?*)/b", "@(|a)b", "+(|a)b", "a/!(a)", "@(**)a", "a\\@(b)@(a)",
           "?(a/)./b", "*(./)a", "+(./)a", "*(a/)b", "+(a/|)b", "@(a/..|b)/a", "@(/a|b)", "@(a|)/b", "a/?()b",
           "@(./a|b)", "?(a)/b", "@(a/|./)b/a", "*(a/..|./b)", "*(a*|b?)a", "**/?@(a)", "**/[!a]@(b)", "@(b)/***/a", "a/+(?b|*.a)", "@(a@(b)|.)", "./@(a)*"})
GroupedNames ==
  UpTo({"a", "b", ".", "/"}, 3)
  \cup Spelled({"a/a/b", "a/.b/", "a/b/a", ".a/b", "a/b.a", "b/a.b/a", "a/a/a.b", "a.b/a.b", "a/a.ba.b", "aa/a/b.b",
                "b/.a/a", "a(b)", "./a/", "a/.../b"})
GroupedDialects == [reading : {"whole", "path", "glob"}, hidden : BOOLEAN]

\* Nested, empty, escaped and unmatched groups, classes that a comma would cut,
\* components that are dots or empty before or after the expansion, groups with
\* separators in them; and bounds that are met at the last alternative, byte,
\* span and unit, or exceeded before.
BraceSources ==
  UpTo({"{", "}", ",", "a", "\\"}, 4) \cup UpTo({".", "/", "a", "*"}, 3)
  \cup Spelled({"{a,b}{,.}", "a{,b{,.}}", "{a,b}c", "{{a,b},{,.}}/a", "a{b,}{a,b}", "{a\\,b,a}", "{a,b}}", "{}{a,b}",
                "{a,{b}", "??{a,b}", "{?,??}?", "?{a,b}@(a)", "@(a|b){a,b}?", "{a,b}[a,b]?", "{[a,b],a}?", "[{a,b}]?",
                "[a{,b}]", "{a,[b}?", "\\{a,b}?", "{a,\\b}[!a]?", "[a-b]{a,b}?", "{a,b}{a,b}{a,b}", "{,,,,}{,,,,}",
                "{?,[a]}{a,b}", "?(a){,b}??", "{a/,b}", "{./a,b}", "a/{}", "{a,..}/b", "{,.}/a", "{a,b/}/a", "./{a,.}",
                "{.,./.}", "a{/,/./}b", "{a,..}{/b,.}", "{@(a/|b),..}", "*(./)a", "?(a/)./b", "{?(a)/,a}b", "./../a",
                "a//b", "a/\\./b", "a/[.]/b", "././a", "a/..b", ".../a"})
Bounds(alternatives, bytes, spans, units) ==
  [alternatives |-> alternatives, bytes |-> bytes, spans |-> spans, units |-> units]
BraceBounds == {Bounds(16, 99, 99, 99), Bounds(2, 99, 99, 6), Bounds(16, 24, 99, 9), Bounds(16, 99, 9, 6)}
Offered == {name \in GlobCandidates \cup GroupedNames : IsOffered(name)}

IgnoreIdle ==
  /\ chain = <<>> /\ entry = [names |-> <<>>, isDir |-> FALSE]
  /\ node = 0 /\ rule = 0 /\ part = 1 /\ rest = <<>> /\ run = NoRun /\ opinion = "asking"
GlobIdle ==
  /\ alternative = 1 /\ input = CHOOSE i \in {e.input : e \in Earlier} : TRUE
  /\ at = <<1, 0>> /\ failed = {} /\ deferred = <<>> /\ verdict = "open" /\ matches = 1
  /\ generation = 1 /\ scans = [i \in DOMAIN tokens |-> FreshScans(0)]
GroupIdle ==
  /\ asked = Question(CHOOSE p \in Grouped : TRUE, <<>>, [reading |-> "whole", hidden |-> FALSE])
  /\ place = <<1, 0>> /\ star = NoStar /\ crossing = NoStar /\ pending = <<>> /\ queued = {} /\ answer = "open"

BraceIdle ==
  /\ source = <<>> /\ limit = CHOOSE b \in Limits : TRUE
  /\ worklist = <<>> /\ expanded = <<>> /\ written = 0 /\ spent = 0 /\ outcome = "open"

VARIABLE side
MCInit == \/ side = "glob" /\ Init /\ IgnoreIdle /\ GroupIdle /\ BraceIdle
          \/ side = "ignore" /\ IgnoreInit /\ GlobIdle /\ GroupIdle /\ BraceIdle
          \/ side = "group" /\ GroupInit /\ GlobIdle /\ IgnoreIdle /\ BraceIdle
          \/ side = "brace" /\ BraceInit /\ GlobIdle /\ IgnoreIdle /\ GroupIdle
MCNext == \/ side = "glob" /\ Next /\ UNCHANGED <<ruleVars, groupVars, braceVars, side>>
          \/ side = "ignore" /\ IgnoreNext /\ UNCHANGED <<vars, groupVars, braceVars, side>>
          \/ side = "group" /\ GroupNext /\ UNCHANGED <<vars, ruleVars, braceVars, side>>
          \/ side = "brace" /\ BraceNext /\ UNCHANGED <<vars, ruleVars, groupVars, side>>
MCVars == <<vars, ruleVars, groupVars, braceVars, side>>
GlobSpec == side = "glob" /\ Init /\ IgnoreIdle /\ GroupIdle /\ BraceIdle /\ [][MCNext]_MCVars
MCSpec == MCInit /\ [][MCNext]_MCVars
=============================================================================
