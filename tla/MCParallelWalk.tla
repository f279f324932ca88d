---------------------------- MODULE MCParallelWalk ----------------------------
(* Trees, worlds and constants for the model-checking runs of ParallelWalk.   *)
EXTENDS ParallelWalk

\* Everything classified as an entry of its own and kept, and no call fails.
Plain ==
  [action |-> [n \in Name |-> IF n \in Dir THEN "both" ELSE "emit"],
   verdict |-> [n \in Name |-> "keep"],
   fault |-> [d \in Dir |-> {}],
   policy |-> "collect",
   may |-> {}]

\* One thing goes differently at one name.
Differs(field, n, what) == [Plain EXCEPT ![field][n] = what]

\* Two roots; the first is wider than a batch of two, and so is a directory
\* below it.
SmallDir == {"r", "q", "a", "b", "c"}
SmallFile == {"f", "g", "h", "k"}
SmallRoots == <<"r", "q">>
SmallListing ==
  [d \in Dir |-> CASE d = "r" -> <<"a", "f", "b">>
                   [] d = "q" -> <<"h">>
                   [] d = "a" -> <<"c", "g", "k">>
                   [] OTHER -> <<>>]

\* One or two of everything that can go wrong at once, under every policy.
Troubles ==
  {Differs("fault", "a", {"read"}), Differs("fault", "r", {"carried", "deferred"}),
   Differs("action", "f", "fail"), Differs("action", "a", "failDescend"),
   Differs("action", "b", "skip"), Differs("fault", "b", {"rules"}),
   Differs("fault", "c", {"loop"}), Differs("verdict", "b", "prune"),
   Differs("verdict", "a", "prune"), Differs("verdict", "a", "skip"), Differs("fault", "r", {"read"}),
   [Differs("fault", "a", {"rules", "deferred"}) EXCEPT !.action["g"] = "fail", !.fault["b"] = {"read"}]}
Troubled == {[w EXCEPT !.policy = p] : w \in Troubles, p \in {"collect", "skip", "abort"}}

\* The visitor stops the walk, or a token does, with and without a pruned
\* directory and an error.
Stopped ==
  {[Plain EXCEPT !.may = {"cancel"}],
   [Differs("verdict", "g", "stop") EXCEPT !.verdict["b"] = "prune"],
   [Differs("verdict", "c", "stop") EXCEPT !.fault["b"] = {"rules"}]}

Ordinary == Troubled \cup Stopped

Calm == {Plain}
Refusing == {[Plain EXCEPT !.may = {"refuse"}]}
Rough == {[Plain EXCEPT !.may = {"panic", "refuse"}],
          [Differs("fault", "a", {"read"}) EXCEPT !.policy = "abort", !.may = {"panic"}]}

\* Seven directories without entries of their own below one root: four batches
\* of two.  As in the code, a listing that is cut is past every floor
\* (HELPER_WORK_FLOOR < HELPER_LISTING_FLOOR = LISTING_BATCH_SIZE), so this walk
\* widens before any continuation is taken.
FlatDir == {"r", "1", "2", "3", "4", "5", "6", "7"}
FlatFile == {}
FlatRoots == <<"r">>
FlatListing == [d \in Dir |-> IF d = "r" THEN <<"1", "2", "3", "4", "5", "6", "7">> ELSE <<>>]
=============================================================================
