-------------------------- MODULE MCParallelStream --------------------------
(* Worlds and constants for the model-checking runs of ParallelStream.      *)
EXTENDS ParallelStream

Sizes == [i \in Item |-> IF i = Root THEN 2 ELSE 1]

\* Read to the end or cancelled, with errors in none, all or some directories.
Ordinary ==
  {[size |-> Sizes, fails |-> f, panics |-> {}, policy |-> p, may |-> {"cancel"}] :
     f \in {{}, Item, Item \ {Root}}, p \in {"abort", "skip", "collect"}}

\* Dropped early, with panics in none, one or all directories.
Abandoned ==
  {[size |-> Sizes, fails |-> f, panics |-> p, policy |-> "collect", may |-> {"drop"}] :
     f \in {{}, {Root}}, p \in {{}, {Root}, Item}}

\* The driver may be refused.
Refused ==
  {[size |-> Sizes, fails |-> {Root}, panics |-> {}, policy |-> p, may |-> {"refuse", "drop"}] :
     p \in {"abort", "skip", "collect"}}

Everything == Ordinary \cup Abandoned \cup Refused
=============================================================================
