---------------------------- MODULE IgnoreMatcher ----------------------------
(***************************************************************************)
(* Whether an entry is ignored: the chain of ignore files a directory      *)
(* inherits (gitignore.rs), the rules of each from the last to the first,  *)
(* and the components of a rule against the names of the entry             *)
(* (ignore_rules.rs).  A step is one turn of one of these loops.           *)
(***************************************************************************)
EXTENDS IgnoreRule

CONSTANTS
  Lines,    \* the lines of ignore files
  Chains,   \* what a directory inherits: [depth, lines] per file, outermost first
  Entries   \* the paths asked about: [names, isDir]

Parsed == [line \in Lines |-> Rule(line)]
\* add_line adds nothing for a line that is no rule, link drops an empty set.
RulesOf(lines) == SelectSeq([k \in DOMAIN lines |-> Parsed[lines[k]]], IsRule)
Linked(chain) ==
  SelectSeq([n \in DOMAIN chain |-> [depth |-> chain[n].depth, rules |-> RulesOf(chain[n].lines)]],
            LAMBDA node : node.rules # <<>>)

VARIABLES
  chain, entry,     \* the nodes of the scope and the candidate
  node, rule,       \* the node asked and the rule of it tried
  part,             \* the component of the rule that is next
  rest,             \* the names still to match
  run,              \* where the last "**" began and what it had not swallowed
  opinion           \* "asking" (for a rule), "matching", "ignored", "kept", "none"
ruleVars == <<chain, entry, node, rule, part, rest, run, opinion>>

NoRun == [part |-> 0, rest |-> <<>>]

IgnoreInit ==
  /\ \E c \in Chains : chain = Linked(c)
  /\ entry \in Entries
  /\ node = Len(chain) /\ rule = (IF chain = <<>> THEN 0 ELSE Len(Last(chain).rules))
  /\ part = 1 /\ rest = <<>> /\ run = NoRun /\ opinion = "asking"

Tried == chain[node].rules[rule]
Pieces == Tried.components
Candidate == SubSeq(entry.names, chain[node].depth + 1, Len(entry.names))

\* The gate of a rule is searched in the bytes of the candidate.
GateOpen ==
  Tried.gate = <<>>
  \/ \E at \in 0 .. Len(Joined(Candidate)) : SpelledAt(Tried.gate, Joined(Candidate), at)

\* find over the reversed rules.
NextRule ==
  /\ rule' = rule - 1
  /\ UNCHANGED <<node, part, rest, run>>

\* IgnoreNode::verdict: a file without an opinion leaves it to the next outer one.
AskParent ==
  /\ opinion = "asking" /\ node > 0 /\ rule = 0
  /\ node' = node - 1
  /\ rule' = IF node > 1 THEN Len(chain[node - 1].rules) ELSE 0
  /\ UNCHANGED <<chain, entry, part, rest, run, opinion>>

NoOpinion ==
  /\ opinion = "asking" /\ node = 0
  /\ opinion' = "none"
  /\ UNCHANGED <<chain, entry, node, rule, part, rest, run>>

Asking == opinion = "asking" /\ node > 0 /\ rule > 0
Applies == (Tried.directoryOnly => entry.isDir) /\ GateOpen
SkipRule ==
  /\ Asking /\ ~Applies
  /\ NextRule
  /\ UNCHANGED <<chain, entry, opinion>>

TryRule ==
  /\ Asking /\ Applies
  /\ part' = 1 /\ rest' = Candidate /\ run' = NoRun /\ opinion' = "matching"
  /\ UNCHANGED <<chain, entry, node, rule>>

-----------------------------------------------------------------------------
(* The loop of matches_components.                                         *)

Matching == opinion = "matching" /\ rest # <<>>
NextIs(kind) == part <= Len(Pieces) /\ Pieces[part].kind = kind
Dialect == [reading |-> "glob", hidden |-> TRUE, folds |-> FALSE, braces |-> FALSE]
Fitting == NextIs("one") /\ Compiled(Route(Pieces[part].glob, Head(rest), Dialect))

BeginRun ==
  /\ Matching /\ NextIs("anyDirs")
  /\ run' = [part |-> part, rest |-> rest] /\ part' = part + 1
  /\ UNCHANGED <<chain, entry, node, rule, rest, opinion>>

BeginFullRun ==
  /\ Matching /\ NextIs("someDirs")
  /\ run' = [part |-> part, rest |-> Tail(rest)] /\ part' = part + 1 /\ rest' = Tail(rest)
  /\ UNCHANGED <<chain, entry, node, rule, opinion>>

MatchName ==
  /\ Matching /\ Fitting
  /\ part' = part + 1 /\ rest' = Tail(rest)
  /\ UNCHANGED <<chain, entry, node, rule, run, opinion>>

\* A mismatch is for the last run to absorb: one name more than before.
\* (Mutant: the names matched since the run began stay matched.)
Mismatch == Matching /\ ~Fitting /\ ~NextIs("anyDirs") /\ ~NextIs("someDirs")
FromHere == Tail(rest)
Unswallowed == Tail(run.rest)
Absorb ==
  /\ Mismatch /\ run.rest # <<>>
  /\ run' = [run EXCEPT !.rest = Unswallowed] /\ part' = run.part + 1 /\ rest' = Unswallowed
  /\ UNCHANGED <<chain, entry, node, rule, opinion>>

GiveUp ==
  /\ Mismatch /\ run.rest = <<>>
  /\ opinion' = "asking" /\ NextRule
  /\ UNCHANGED <<chain, entry>>

\* The candidate is spent: what is left of the rule may match nothing.
Spent ==
  /\ opinion = "matching" /\ rest = <<>>
  /\ IF \A k \in part .. Len(Pieces) : Pieces[k] = AnyDirs
     THEN opinion' = (IF Tried.negated THEN "kept" ELSE "ignored") /\ UNCHANGED <<node, rule, part, rest, run>>
     ELSE opinion' = "asking" /\ NextRule
  /\ UNCHANGED <<chain, entry>>

Answered == opinion \in {"ignored", "kept", "none"}
IgnoreDone == Answered /\ UNCHANGED ruleVars

IgnoreNext ==
  \/ AskParent \/ NoOpinion \/ SkipRule \/ TryRule
  \/ BeginRun \/ BeginFullRun \/ MatchName \/ Absorb \/ GiveUp \/ Spent \/ IgnoreDone
IgnoreSpec == IgnoreInit /\ [][IgnoreNext]_ruleVars

-----------------------------------------------------------------------------
(* Properties.                                                             *)

\* gitignore(5): of all the rules in force, the last that selects the entry
\* decides, the ones of the directory closest to it after the others; and one
\* backtracking point for several "**" answers what trying every way of
\* dividing the names among them would.
IgnoresAsGit == Answered => opinion = Decided(chain, entry.names, entry.isDir)
=============================================================================
