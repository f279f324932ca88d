---------------------------- MODULE MCSerialWalk ----------------------------
(* Trees, worlds and constants for the model-checking runs of SerialWalk.     *)
EXTENDS Selection

\* m is a link to a: an alias of it below r, a cycle below r/a/c.  s is q, added
\* as a root again.
TreeDir == {"r", "q", "s", "a", "b", "c", "e", "m"}
TreeFile == {"f", "g", "h"}
TreeRoots == <<"r", "q", "s">>
TreeListing ==
  [d \in Dir |-> CASE d = "r" -> <<"a", "f", "m", "b">>
                   [] d = "a" -> <<"c", "g">>
                   [] d = "c" -> <<"m", "f">>
                   [] d = "b" -> <<"e", "g">>
                   [] d = "q" -> <<"h">>
                   [] OTHER -> <<>>]
TreeTarget == [d \in Dir |-> CASE d = "m" -> "a" [] d = "s" -> "q" [] OTHER -> d]

\* Everything classified as an entry of its own and kept, and no call fails;
\* a link is an entry, and with follow_symlinks a directory too.
Plain(front, follow) ==
  [front |-> front, follow |-> follow, relative |-> ~follow, policy |-> "collect",
   action |-> [p \in Path |-> IF Last(p) \in File \/ (Last(p) = "m" /\ ~follow)
                              THEN "emit" ELSE "both"],
   verdict |-> [n \in Name |-> "keep"],
   fault |-> [d \in Dir |-> {}],
   plan |-> NoPlan, may |-> {}, site |-> "r"]
Fronts == {"stream", "collect"}
Plains == {Plain(front, follow) : front \in Fronts, follow \in BOOLEAN}

Troubles(w) ==
  {w,
   [w EXCEPT !.fault["a"] = {"read"}, !.fault["r"] = {"carried", "rules"}],
   [w EXCEPT !.fault["q"] = {"read"}, !.fault["c"] = {"rules"}],
   [w EXCEPT !.fault["m"] = {"key"}, !.fault["s"] = {"carried"}],
   [w EXCEPT !.fault["r"] = {"carried", "rules", "deferred", "deferredToo"},
             !.action[<<"r", "f">>] = "fail"],
   [w EXCEPT !.action[<<"r", "a">>] = "failDescend", !.fault["a"] = {"deferred", "deferredToo"},
             !.action[<<"r", "a", "g">>] = "fail"],
   [w EXCEPT !.action[<<"r", "a">>] = "descend", !.action[<<"r", "f">>] = "skip",
             !.action[<<"r", "a", "c">>] = "emit"]}
Policies(ws) == {[w EXCEPT !.policy = p] : w \in ws, p \in {"abort", "skip", "collect"}}
Troubled == Policies(UNION {Troubles(w) : w \in Plains})

\* The visitor drops, prunes or stops; the caller cancels.
Judged ==
  {[Plain("collect", follow) EXCEPT !.verdict[n] = v, !.may = {"cancel"}] :
     follow \in BOOLEAN, n \in {"a", "c", "g"}, v \in {"skip", "prune", "stop"}}
Cancelled == {[w EXCEPT !.may = {"cancel"}] : w \in Policies(Plains)}

\* Other walks crowd the budget while a directory is replaced.
Rough ==
  {[Plain(front, FALSE) EXCEPT !.policy = p, !.may = {"crowd", "replace"}, !.site = site] :
     front \in Fronts, p \in {"abort", "skip", "collect"}, site \in {"r", "a", "c"}}

\* A root whose repository has an unreadable rule file and that cannot be read.
Unreadable ==
  {[Plain(front, follow) EXCEPT !.fault["q"] = {"carried"} \cup f] :
     front \in Fronts, follow \in BOOLEAN, f \in {{"read"}, {"key"}}}

\* Plans.  f is the ignore file, e the repository, c and f are hidden, h is
\* a link in some of them.
TreeBytes ==
  <<"*", ",", "-", ".", "/", "?", "[", "\\", "]", "a", "b", "c", "g", "h", "i", "m", "q", "r", "s", "t", "x", "{", "}">>
Spell(s) == [i \in 1 .. Len(s) |-> SubSeq(s, i, i)]
SpellAll(names) == {Spell(s) : s \in names}
TreeSpelling ==
  [n \in Name |-> Spell(CASE n = "b" -> "ab" [] n = "c" -> ".c" [] n = "e" -> ".git" [] n = "f" -> ".i"
                           [] n = "g" -> "g.x" [] OTHER -> n)]
NoRules == [d \in Dir |-> <<>>]
Everything ==
  [includes |-> {}, excludes |-> {}, rules |-> NoRules, links |-> <<>>, unreadable |-> {},
   matchHidden |-> FALSE, crossing |-> FALSE, follow |-> FALSE, skipHidden |-> FALSE, gitIgnore |-> FALSE,
   keepGitDir |-> FALSE, filesOnly |-> FALSE, directoriesOnly |-> FALSE, resolveKind |-> FALSE, maxDepth |-> 9]

Includes ==
  {{}, SpellAll({"a*/g.x"}), SpellAll({"**/*.x"}), SpellAll({"a/**", "./m/g.?"}), SpellAll({"a/.c/*", "ab"}),
   SpellAll({"*/"}), SpellAll({"{a/.c,*b}/*", "[g-h]*"}), SpellAll({"a/{,m/}*.{i,x}", "h"}), SpellAll({"*"}), SpellAll({"**/m", "h"})}
Excludes ==
  {{}, SpellAll({"a"}), SpellAll({"a/**"}), SpellAll({"m/"}), SpellAll({"m/**/**"}), SpellAll({"**/*.x", "a/"}),
   SpellAll({"*\\/**"}), SpellAll({"{a?,m}/**", "[h]"})}
Patterned ==
  {[Everything EXCEPT !.includes = i, !.excludes = x, !.follow = follow, !.links = ("h" :> "missing")] :
     i \in Includes, x \in Excludes, follow \in BOOLEAN}
Read ==
  {[Everything EXCEPT !.includes = i, !.excludes = x, !.matchHidden = hidden, !.crossing = ~hidden] :
     i \in Includes, x \in Excludes, hidden \in BOOLEAN}

RootRules == {<<>>, <<"m">>, <<"a/", "!a/g.x">>, <<"/a*/*">>, <<"m", "!m/">>, <<"*.x", "!ab/*.x", "m/">>}
OwnRules == {<<>>, <<"!m">>, <<"*">>}
Ruled ==
  {[Everything EXCEPT !.gitIgnore = TRUE, !.keepGitDir = follow, !.follow = follow, !.includes = i,
      !.rules["r"] = [k \in DOMAIN outer |-> Spell(outer[k])],
      !.rules["c"] = [k \in DOMAIN inner |-> Spell(inner[k])]] :
     outer \in RootRules, inner \in OwnRules, follow \in BOOLEAN, i \in {{}, SpellAll({"**/g.x", "m"})}}
Kinds3 == {<<FALSE, FALSE>>, <<TRUE, FALSE>>, <<FALSE, TRUE>>}
Kinded ==
  {[Everything EXCEPT !.filesOnly = k[1], !.directoriesOnly = k[2], !.resolveKind = resolve, !.follow = follow,
      !.links = ("h" :> reached), !.excludes = x, !.unreadable = u] :
     k \in Kinds3, resolve, follow \in BOOLEAN, reached \in {"file", "missing", "denied"},
     x \in {{}, SpellAll({"h"})}, u \in {{}, {"a", "g"}}}
Limited ==
  {[Everything EXCEPT !.skipHidden = skips, !.maxDepth = n, !.includes = i] :
     skips \in BOOLEAN, n \in {0, 1, 2, 9}, i \in {{}, SpellAll({"**/.c/**", "a/*"})}}
AllPlans == Patterned \cup Read \cup Ruled \cup Kinded \cup Limited
TreeChosen == LET all == AllPlans IN [plan \in all |-> Wanted(plan)]

Ordinary == Troubled \cup Judged \cup Cancelled \cup Rough \cup Unreadable
\* Both frontends act on the same classification: each takes some of the plans.
Filtering ==
  LET streamed == Patterned \cup Limited
      collected == AllPlans \ streamed
  IN Ordinary \cup {WorldOf(p, "stream") : p \in streamed} \cup {WorldOf(p, "collect") : p \in collected}
=============================================================================
