------------------------------ MODULE TaskPool ------------------------------
(***************************************************************************)
(* What the worker pool of one parallel walk promises, without queues,     *)
(* locks or notifications: directories become known, are taken by one      *)
(* worker and are finished, and a worker leaves an uninterrupted walk only *)
(* when every known directory is finished.  Coordinator implements it.     *)
(***************************************************************************)
CONSTANTS Worker,   \* the caller and every helper slot
          Task,     \* the directories (and listing continuations) of the tree
          Roots     \* the directories the walk starts from

VARIABLES phase,    \* phase[t]: how far task t has come
          halted,   \* cancelled, aborted, stopped by the visitor or panicked
          gone      \* the workers that have left the walk

poolVars == <<phase, halted, gone>>

Outstanding == {t \in Task : phase[t] \in {"queued", "running"}}

PoolTypeOK ==
  /\ phase \in [Task -> {"unborn", "queued", "running", "done"}]
  /\ halted \in BOOLEAN
  /\ gone \subseteq Worker

PoolInit ==
  /\ phase = [t \in Task |-> "unborn"]
  /\ halted = FALSE
  /\ gone = {}

\* The caller starts reading a root, before any worker has left.
StartRoot(t) ==
  /\ t \in Roots /\ phase[t] = "unborn" /\ gone = {} /\ ~halted
  /\ phase' = [phase EXCEPT ![t] = "running"]
  /\ UNCHANGED <<halted, gone>>

\* Only a directory that is being read makes another one known.
Announced(t) ==
  /\ t \in Task \ Roots /\ phase[t] = "unborn"
  /\ \E parent \in Task : phase[parent] = "running"
  /\ phase' = [phase EXCEPT ![t] = "queued"]
  /\ UNCHANGED <<halted, gone>>

Taken(t) ==
  /\ phase[t] = "queued"
  /\ phase' = [phase EXCEPT ![t] = "running"]
  /\ UNCHANGED <<halted, gone>>

Finished(t) ==
  /\ phase[t] = "running"
  /\ phase' = [phase EXCEPT ![t] = "done"]
  /\ UNCHANGED <<halted, gone>>

Halt == halted' = TRUE /\ UNCHANGED <<phase, gone>>

\* The promise: nothing known is left behind, and no root is left unread.
Leave(w) ==
  /\ w \notin gone
  /\ \/ halted
     \/ Outstanding = {} /\ \A t \in Roots : phase[t] = "done"
  /\ gone' = gone \cup {w}
  /\ UNCHANGED <<phase, halted>>

PoolNext ==
  \/ \E t \in Task : StartRoot(t) \/ Announced(t) \/ Taken(t) \/ Finished(t)
  \/ Halt
  \/ \E w \in Worker : Leave(w)

PoolSpec == PoolInit /\ [][PoolNext]_poolVars
=============================================================================
