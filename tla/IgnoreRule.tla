------------------------------ MODULE IgnoreRule ------------------------------
(***************************************************************************)
(* A line of a .gitignore file (ignore_rules.rs): what it is parsed to,    *)
(* and what it means.  IgnoreMatcher models how it is matched.             *)
(*                                                                         *)
(* Lines are sequences of bytes without spaces, comments and bracket       *)
(* classes, names are sequences of bytes, a candidate is the sequence of   *)
(* the names from the directory of the file down to the entry.             *)
(***************************************************************************)
EXTENDS GlobPattern

IsLast(s, byte) == s # <<>> /\ Last(s) = byte
\* Whether the byte after s is escaped (trailing_backslashes).
Escaped(s) == EscapedAt(s \o <<"/">>, Len(s) + 1)
WithoutHead(s, byte) == IF s # <<>> /\ Head(s) = byte THEN Tail(s) ELSE s

-----------------------------------------------------------------------------
(* Parsing: parse_rule_with_options.                                       *)

\* split_rule_components: an escaped slash separates too, and keeps a "**"
\* before it from matching nothing.
Ends(body) == SetToSortSeq({i \in DOMAIN body : body[i] = "/"} \cup {Len(body) + 1}, <)
Parts(body) ==
  [k \in DOMAIN Ends(body) |->
     LET first == IF k = 1 THEN 1 ELSE Ends(body)[k - 1] + 1
         escaped == Ends(body)[k] <= Len(body) /\ EscapedAt(body, Ends(body)[k])
     IN [bytes |-> SubSeq(body, first, Ends(body)[k] - (IF escaped THEN 2 ELSE 1)), escaped |-> escaped]]

WholeRun(part) == Len(part.bytes) >= 2 /\ ToSet(part.bytes) = {"*"}

\* collapse_partial_stars: inside a component a run of stars is one star.
Collapsed(bytes) ==
  LET kept == {i \in DOMAIN bytes : ~(bytes[i] = "*" /\ i > 1 /\ bytes[i - 1] = "*" /\ ~EscapedAt(bytes, i - 1))}
  IN [k \in 1 .. Cardinality(kept) |-> bytes[SetToSortSeq(kept, <)[k]]]

Component(kind, bytes) == [kind |-> kind, glob |-> bytes]
Compile(part) ==
  IF ~WholeRun(part) THEN Component("one", Collapsed(part.bytes))
  ELSE Component(IF part.escaped THEN "someDirs" ELSE "anyDirs", <<>>)
AnyDirs == Component("anyDirs", <<>>)

\* Runs in a row are one, unanchored rules start with one, and a trailing one
\* gains a component that something has to fill.
Components(parts, anchored) ==
  LET append(components, part) ==
        IF Compile(part) = AnyDirs /\ IsLast(components, AnyDirs) THEN components
                                                                ELSE Append(components, Compile(part))
  IN FoldLeft(append, IF anchored THEN <<>> ELSE <<AnyDirs>>, parts)
     \o (IF WholeRun(Last(parts)) THEN <<Component("one", <<"*">>)>> ELSE <<>>)

\* gate: a longest run of literal bytes, when it has two at least.
Gate(parts) ==
  LET runs == UNION {{t.text : t \in ToSet(Tokens(Collapsed(part.bytes)))} : part \in ToSet(parts)} IN
  IF \E run \in runs : Len(run) >= 2 THEN CHOOSE run \in runs : \A other \in runs : Len(other) <= Len(run)
                                     ELSE <<>>

\* A line that is no rule has no components.
Rule(line) ==
  LET negated == line # <<>> /\ Head(line) = "!"
      text == WithoutHead(line, "!")
      directoryOnly == IsLast(text, "/") /\ ~Escaped(Front(text))
      spelled == IF directoryOnly THEN Front(text) ELSE text
      anchored == "/" \in ToSet(spelled)
      body == WithoutHead(spelled, "/")
      parts == Parts(body)
      none == line = <<>> \/ body = <<>> \/ Escaped(text) \/ \E part \in ToSet(parts) : part.bytes = <<>>
  IN [components |-> IF none THEN <<>> ELSE Components(parts, anchored),
      parts |-> parts, anchored |-> anchored, gate |-> IF none THEN <<>> ELSE Gate(parts),
      negated |-> negated, directoryOnly |-> directoryOnly]
IsRule(rule) == rule.components # <<>>

-----------------------------------------------------------------------------
(* Meaning.                                                                *)

\* gitignore(5), as one glob over the whole candidate.
Joined(names) ==
  FoldLeft(LAMBDA path, name : path \o (IF path = <<>> THEN <<>> ELSE <<"/">>) \o name, <<>>, names)
AsGlob(rule) ==
  LET glob(part) == IF ~WholeRun(part) THEN Collapsed(part.bytes)
                    ELSE IF part.escaped THEN <<"*", "/", "*", "*">> ELSE <<"*", "*">>
  IN Joined((IF rule.anchored THEN <<>> ELSE <<<<"*", "*">>>>)
            \o [k \in DOMAIN rule.parts |-> glob(rule.parts[k])]
            \o (IF WholeRun(Last(rule.parts)) THEN <<<<"*">>>> ELSE <<>>))

Scoped == [component |-> TRUE, root |-> TRUE, hidden |-> TRUE, folds |-> FALSE, starts |-> TRUE, local |-> FALSE]
Selects(rule, names, isDir) ==
  /\ rule.directoryOnly => isDir
  /\ Fits(Tokens(AsGlob(rule)), Joined(names), Scoped)

\* The rules in force, the outermost file's first; each one sees the names
\* below its own directory.  The last one that selects the entry decides.
InForce(chain) ==
  FlattenSeq([n \in DOMAIN chain |-> [k \in DOMAIN chain[n].rules |->
                                        [depth |-> chain[n].depth, rule |-> chain[n].rules[k]]]])
Decided(chain, names, isDir) ==
  LET rules == InForce(chain)
      hits == {k \in DOMAIN rules : Selects(rules[k].rule, SubSeq(names, rules[k].depth + 1, Len(names)), isDir)}
  IN IF hits = {} THEN "none"
     ELSE IF rules[CHOOSE k \in hits : \A j \in hits : j <= k].rule.negated THEN "kept" ELSE "ignored"
=============================================================================
