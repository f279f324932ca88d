------------------------------ MODULE Selection ------------------------------
(***************************************************************************)
(* What the filters of a Walker make of an entry (classify_entry), and the *)
(* two things they are asked for: which entries a walk selects, whatever   *)
(* the pruning of directories skips on the way.                            *)
(*                                                                         *)
(* A plan is one configuration: includes and excludes, match_hidden,       *)
(* wildcard mode and WalkOptions, the rules of each directory's ignore     *)
(* file, what the links among the files reach, and the names whose         *)
(* requested metadata cannot be read.  Paths are those of SerialWalk.      *)
(***************************************************************************)
EXTENDS SerialReport, IgnoreRule

CONSTANTS
  Spelling,    \* Spelling[name]: the bytes of a name
  IgnoreFile,  \* the name of the ignore files
  GitDir,      \* the directory called .git
  Chosen       \* Chosen[plan]: the paths the plan is to select
ASSUME SelectionAssumption ==
  \A plan \in Plans \ {NoPlan} :
    /\ \A d \in Dir : plan.rules[d] # <<>> => IgnoreFile \in ToSet(Listing[d])
    /\ DOMAIN plan.links \subseteq File

Spelled(path) == [i \in 1 .. Len(path) - 1 |-> Spelling[path[i + 1]]]
Relative(path) == Joined(Spelled(path))
Depth(path) == Len(path) - 1

-----------------------------------------------------------------------------
(* TraversalPattern.                                                       *)

IncludeDialect(plan) ==
  [reading |-> IF plan.crossing THEN "crossing" ELSE "glob", hidden |-> plan.matchHidden, folds |-> FALSE,
   braces |-> TRUE]
ExcludeDialect(plan) == [IncludeDialect(plan) EXCEPT !.hidden = TRUE]

DirectoriesOnly(pattern) == Len(pattern) > 1 /\ Last(pattern) = "/"
Body(pattern) == IF DirectoriesOnly(pattern) THEN Front(pattern) ELSE pattern
Matches(pattern, bytes, isDir, dialect) ==
  /\ DirectoriesOnly(pattern) => isDir
  /\ Compiled(Route(Body(pattern), bytes, dialect))

\* An exclude "X/**" closes what X matches, when it matches that itself.
CoversSubtree(pattern, bytes, dialect) ==
  LET n == Len(pattern) - 3 IN
  /\ n >= 0 /\ SubSeq(pattern, n + 1, n + 3) = <<"/", "*", "*">> /\ ~EscapedAt(pattern, n + 1)
  /\ Compiled(Route(SubSeq(pattern, 1, n), bytes, dialect))
  /\ Matches(pattern, bytes, TRUE, dialect)

\* literal_pattern_root; empty for a pattern that has none.
\* (Mutant: the literal before a wildcard is taken for a whole component.)
Magic == {"*", "?", "[", "\\"}
IsMagic(pattern, i) == pattern[i] \in Magic \/ (pattern[i] = "{" /\ Closers(pattern, Braces, i) # {})
LiteralHead(pattern) ==
  SubSeq(pattern, 1, Least({i \in DOMAIN pattern : IsMagic(pattern, i)} \cup {Len(pattern) + 1}) - 1)
WholeHead(pattern) ==
  LET head == LiteralHead(pattern) IN IF IsLast(head, "/") THEN Front(head) ELSE head
LiteralRoot(pattern) ==
  LET head == LiteralHead(pattern) IN
  IF head = pattern THEN pattern
  ELSE SubSeq(head, 1, SelectLastInSeq(head, LAMBDA byte : byte = "/") - 1)

SharesALineOfDescent(root, bytes) ==
  LET within(outer, inner) ==
        IsPrefix(outer, inner) /\ (Len(inner) > Len(outer) => inner[Len(outer) + 1] = "/")
  IN within(root, bytes) \/ within(bytes, root)

Relatives(pattern) == {WithoutDotSlash(p) : p \in ToSet(Alternatives(Body(pattern)))}
\* A prefilter that not every brace alternative has is off.
CouldMatchDescendant(pattern, bytes) ==
  LET heads == {LiteralRoot(p) : p \in Relatives(pattern)} IN
  <<>> \in heads \/ \E head \in heads : SharesALineOfDescent(head, bytes)

\* literal_extension; empty for a pattern that has none.
LiteralExtension(pattern) ==
  LET separator == SelectLastInSeq(pattern, LAMBDA byte : byte = "/")
      dot == SelectLastInSeq(pattern, LAMBDA byte : byte = ".")
      extension == SubSeq(pattern, dot + 1, Len(pattern))
  IN IF dot <= separator \/ ToSet(extension) \cap (Magic \cup {"]", "{", "}", "(", ")", "|"}) # {} THEN <<>> ELSE extension
MatchesExtension(pattern, bytes) ==
  LET extensions == {LiteralExtension(p) : p \in Relatives(pattern)} IN
  <<>> \in extensions \/ \E extension \in extensions : IsSuffix(<<".">> \o extension, bytes)

-----------------------------------------------------------------------------
(* classify_entry.                                                         *)

\* A link to a directory is a directory of SerialWalk with another target.
IsLink(plan, name) == name \in DOMAIN plan.links \/ (name \in Dir /\ Target[name] # name)
Reaches(plan, name) ==
  IF name \in Dir THEN "dir" ELSE IF name \in DOMAIN plan.links THEN plan.links[name] ELSE "file"

Filtered(plan, path) ==
  \/ Depth(path) > plan.maxDepth
  \/ plan.skipHidden /\ \E i \in DOMAIN Spelled(path) : Head(Spelled(path)[i]) = "."
  \/ plan.gitIgnore /\ ~plan.keepGitDir /\ Last(path) = GitDir

\* The rules a directory inherits and its own, which enter put on the chain.
Chain(plan, path) ==
  [k \in 1 .. Len(path) - 1 |->
     [depth |-> k - 1,
      rules |-> LET lines == plan.rules[Target[path[k]]] IN
                SelectSeq([i \in DOMAIN lines |-> Rule(lines[i])], IsRule)]]
IgnoredAs(plan, path, isDir) ==
  plan.gitIgnore /\ Decided(Chain(plan, path), Spelled(path), isDir) = "ignored"

ExcludedAs(plan, path, isDir) ==
  \E pattern \in plan.excludes : Matches(pattern, Relative(path), isDir, ExcludeDialect(plan))

MayDescendInto(plan, path) ==
  plan.includes = {} \/ \E pattern \in plan.includes : CouldMatchDescendant(pattern, Relative(path))
MayIncludeFile(plan, path) ==
  plan.includes = {} \/ \E pattern \in plan.includes : MatchesExtension(pattern, Relative(path))
ProvesNoReAdmission(plan, path, excluded) ==
  \/ excluded /\ (plan.includes = {} \/ ~MayDescendInto(plan, path))
  \/ \E pattern \in plan.excludes : CoversSubtree(pattern, Relative(path), ExcludeDialect(plan))

\* The kind filters; "missing" is neither kind.
PassesKind(plan, kind) == (plan.directoriesOnly => kind = "dir") /\ (plan.filesOnly => kind = "file")
Included(plan, path, isDir) ==
  plan.includes = {} \/ \E pattern \in plan.includes : Matches(pattern, Relative(path), isDir, IncludeDialect(plan))

Classify(plan, path) ==
  LET name == Last(path)
      followed == IsLink(plan, name) /\ plan.follow
      resolved == IsLink(plan, name) /\ ~plan.follow /\ plan.resolveKind /\ (plan.filesOnly \/ plan.directoriesOnly)
      reached == Reaches(plan, name)
      isDir == reached = "dir" /\ (IsLink(plan, name) => followed)
      excluded == ExcludedAs(plan, path, isDir)
      ignored == IgnoredAs(plan, path, isDir)
      descends == /\ isDir /\ ~ignored /\ ~ProvesNoReAdmission(plan, path, excluded)
                  /\ Depth(path) < plan.maxDepth /\ MayDescendInto(plan, path)
      kind == IF resolved THEN reached ELSE IF isDir THEN "dir" ELSE "file"
      emits == ~excluded /\ ~ignored /\ PassesKind(plan, kind) /\ Included(plan, path, isDir)
  IN CASE Filtered(plan, path) -> "skip"
       [] ~Filtered(plan, path) /\ followed
          /\ (IgnoredAs(plan, path, FALSE) \/ ProvesNoReAdmission(plan, path, ExcludedAs(plan, path, FALSE))) -> "skip"
       [] OTHER ->
          IF followed /\ reached \in {"missing", "denied"}
          THEN IF reached = "missing" /\ ExcludedAs(plan, path, FALSE) THEN "skip" ELSE "fail"
          ELSE IF ~isDir /\ (excluded \/ ignored \/ ~MayIncludeFile(plan, path)) THEN "skip"
          ELSE IF resolved /\ reached = "denied" THEN "fail"
          ELSE IF emits /\ name \in plan.unreadable THEN IF descends THEN "failDescend" ELSE "fail"
          ELSE IF emits THEN IF descends THEN "both" ELSE "emit"
          ELSE IF descends THEN "descend" ELSE "skip"

\* The world of a plan: allows_descriptor_relative_descent, and no other faults.
WorldOf(plan, front) ==
  [front |-> front, follow |-> plan.follow,
   relative |-> ~(plan.gitIgnore \/ plan.follow \/ plan.unreadable # {} \/ plan.resolveKind),
   policy |-> "collect", plan |-> plan,
   action |-> [path \in Path |-> IF Depth(path) = 0 THEN "skip" ELSE Classify(plan, path)],
   verdict |-> [n \in Name |-> "keep"], fault |-> [d \in Dir |-> {}], may |-> {}, site |-> Roots[1]]

-----------------------------------------------------------------------------
(* What the filters promise, entry by entry and without any pruning.       *)

Meets(pattern, path, isDir, dialect) ==
  LET route == Route(Body(pattern), Relative(path), dialect) IN
  /\ DirectoriesOnly(pattern) => isDir
  /\ \E tokens \in ToSet(route.alternatives) : Fits(tokens, route.path, route.options)
IsDirectory(plan, path) ==
  Last(path) \in Dir /\ (IsLink(plan, Last(path)) => plan.follow)
Excluded(plan, path) ==
  \E pattern \in plan.excludes : Meets(pattern, path, IsDirectory(plan, path), ExcludeDialect(plan))
\* A rule that takes the link for a file has the first say.
Ignored(plan, path) ==
  IgnoredAs(plan, path, IsDirectory(plan, path))
  \/ (plan.follow /\ IsLink(plan, Last(path)) /\ IgnoredAs(plan, path, FALSE))

CountsAs(plan, path) ==
  IF IsLink(plan, Last(path)) /\ ~plan.follow /\ ~plan.resolveKind THEN "file" ELSE Reaches(plan, Last(path))
Selected(plan, path) ==
  /\ ~Filtered(plan, path) /\ ~Ignored(plan, path) /\ ~Excluded(plan, path)
  /\ plan.follow => Reaches(plan, Last(path)) \in {"dir", "file"}
  /\ PassesKind(plan, CountsAs(plan, path))
  /\ plan.includes = {} \/ \E pattern \in plan.includes :
                              Meets(pattern, path, IsDirectory(plan, path), IncludeDialect(plan))
  /\ Last(path) \notin plan.unreadable
Reachable(plan, path) ==
  \A n \in 2 .. Len(path) - 1 :
    LET above == SubSeq(path, 1, n) IN
    /\ IsDirectory(plan, above) /\ ~Filtered(plan, above) /\ ~Ignored(plan, above)
    /\ plan.includes = {} => ~Excluded(plan, above)

Wanted(plan) ==
  {path \in Path : Len(path) > 1 /\ Selected(plan, path) /\ Reachable(plan, path)}

\* usage.md:174-176: a directory is pruned "only when the walker can prove that
\* no include can re-admit a descendant".  A walk hands out every entry that
\* passes the filters itself and lies below no ignored directory - without
\* includes, below no excluded one - and no other entry, although it decides
\* from literal roots, extensions, covering excludes and unresolved links
\* which directories it never opens.  (Chosen holds Wanted of every plan.)
SelectsAll ==
  Finished /\ world.plan # NoPlan =>
    {item[2] : item \in {i \in ToSet(items) : ~IsError(i)}} = Chosen[world.plan]
ASSUME ChosenAssumption == \A plan \in Plans \ {NoPlan} : Chosen[plan] = Wanted(plan)
=============================================================================
