--------------------------- MODULE ParallelStream ---------------------------
(***************************************************************************)
(* stream_parallel(): the thread that iterates, the driver that walks as   *)
(* the caller worker, its helpers, the bounded channel between them and    *)
(* the StreamControl through which the consumer stops the walk             *)
(* (parallel_stream.rs, and what parallel.rs does with a sink).            *)
(*                                                                         *)
(* Abstracted: which directories there are and what each yields is given   *)
(* by the world (ParallelWalk has the traversal), a directory's entries    *)
(* fit one message, a worker without work waits without a step of its own  *)
(* (Coordinator has the parking), and handing the walker over never fails. *)
(***************************************************************************)
EXTENDS SequencesExt

CONSTANTS
  Worker, Driver,   \* the threads of the walk
  Item, Root,       \* its directories
  Worlds,           \* what each directory yields and what else may happen
  Capacity          \* CHANNEL_MESSAGES_PER_WORKER times the threads

ASSUME ThreadAssumption == Driver \in Worker /\ Capacity \in Nat \ {0}
ASSUME ItemAssumption == Root \in Item

\* The entries a directory keeps, whether it fails and whether reading it
\* panics; Walker.error_policy; and whether the caller sets its token, drops
\* the stream early, or is refused a thread.
World ==
  [size : [Item -> 0 .. 2], fails : SUBSET Item, panics : SUBSET Item,
   policy : {"abort", "skip", "collect"},
   may : SUBSET {"cancel", "drop", "refuse"}]
ASSUME WorldAssumption == Worlds \subseteq World

VARIABLES
  world,
  state,      \* ParallelWalkStream.state
  consumer,   \* the next step of the iterating thread
  purpose,    \* why it lets go of the walk
  receiver,   \* Threaded.receiver is Some
  batch,      \* Threaded.batch, or what a serial stream has at hand
  joined,     \* Threaded.driver is None
  yielded,    \* every item next() returned
  outcome,    \* how the iteration ended
  channel,    \* the messages sent and not received
  closed,     \* ControlState.closed
  attached,   \* ControlState.stop_walk is Some
  token,      \* the caller's CancellationToken
  pc,         \* pc[w]: the next step of thread w of the walk
  item,       \* item[w]: the directory it reads
  left,       \* the directories nobody has taken
  stopped,    \* Shared.stopped
  abort,      \* Shared.abort_error, as the items that set it
  panic       \* Shared.panic is Some

stream == <<state, consumer, purpose, receiver, batch, joined, yielded, outcome>>
control == <<closed, attached>>
threads == <<pc, item, left>>
failure == <<stopped, abort, panic>>
vars == <<world, stream, channel, control, token, threads, failure>>

Entries(i) == [k \in 1 .. world.size[i] |-> <<"entry", i, k>>]
Error(i) == <<"error", i, 0>>
SpawnError == <<"spawn_worker", Root, 0>>
Output == {<<kind, i, k>> : kind \in {"entry", "error", "spawn_worker"}, i \in Item, k \in 0 .. 2}

TypeOK ==
  /\ world \in Worlds /\ state \in {"idle", "serial", "threaded", "done"}
  /\ consumer \in {"out", "next", "recv", "close", "stop", "letgo", "join", "gone"}
  /\ purpose \in {"none", "cancelled", "ended", "dropping"}
  /\ batch \in Seq(Output) /\ yielded \in Seq(Output)
  /\ outcome \in {"none", "end", "cancelled", "panic"}
  /\ channel \in Seq(Seq(Output)) /\ Len(channel) <= Capacity
  /\ {receiver, joined, closed, attached, token, stopped, panic} \subseteq BOOLEAN
  /\ pc \in [Worker -> {"unborn", "build", "attach", "carryout", "idle", "read", "report", "flush",
                        "send", "unwind", "join", "finish", "ended"}]
  /\ item \in [Worker -> Item] /\ left \subseteq Item /\ abort \subseteq world.fails

Goto(w, label) == pc' = [pc EXCEPT ![w] = label]
Stopping == stopped \/ token
\* The errors that go through the channel when they happen.  (Mutant: the one
\* that aborts the walk does, too.)
KeptOrAborts(i) == i \in world.fails /\ (world.policy # "skip" \/ i = Root)
Kept(i) == i \in world.fails /\ (world.policy = "collect" \/ (world.policy = "skip" /\ i = Root))

\* The walk's Shared, which the driver builds and drops, owns the only sender;
\* the handle the consumer stops the walk with keeps nothing of it alive.
WalkAlive == pc[Driver] \notin {"unborn", "build", "ended"}

Init ==
  /\ world \in Worlds
  /\ state = "idle" /\ consumer = "out" /\ purpose = "none" /\ receiver = FALSE
  /\ batch = <<>> /\ joined = FALSE /\ yielded = <<>> /\ outcome = "none"
  /\ channel = <<>> /\ closed = FALSE /\ attached = FALSE /\ token = FALSE
  /\ pc = [w \in Worker |-> "unborn"] /\ item = [w \in Worker |-> Root] /\ left = Item
  /\ stopped = FALSE /\ abort = {} /\ panic = FALSE

-----------------------------------------------------------------------------
(* The thread that iterates.                                               *)

Yield(output) == yielded' = Append(yielded, output)
Return == consumer' = "out"

\* The iteration ends: next() returns None.
End(how) == state' = "done" /\ outcome' = how

CallNext ==
  /\ consumer = "out" /\ state # "done" /\ outcome # "panic"
  /\ consumer' = "next"
  /\ UNCHANGED <<world, state, purpose, receiver, batch, joined, yielded, outcome, channel, control,
                 token, threads, failure>>

\* Dropping the stream before its end, or after it.
DropStream ==
  /\ consumer = "out" /\ ("drop" \in world.may \/ state = "done" \/ outcome = "panic")
  /\ IF state = "threaded" THEN consumer' = "close" /\ purpose' = "dropping"
                           ELSE consumer' = "gone" /\ UNCHANGED purpose
  /\ UNCHANGED <<world, state, receiver, batch, joined, yielded, outcome, channel, control, token,
                 threads, failure>>

\* start(): a token that is set already is the end of it.
StartCancelled ==
  /\ consumer = "next" /\ state = "idle" /\ token
  /\ End("cancelled") /\ Return
  /\ UNCHANGED <<world, purpose, receiver, batch, joined, yielded, channel, control, token, threads,
                 failure>>

StartThreaded ==
  /\ consumer = "next" /\ state = "idle" /\ ~token
  /\ state' = "threaded" /\ receiver' = TRUE
  /\ Goto(Driver, "build")
  /\ UNCHANGED <<world, consumer, purpose, batch, joined, yielded, outcome, channel, control, token,
                 item, left, failure>>

\* fall_back_to_serial.
StartRefused ==
  /\ consumer = "next" /\ state = "idle" /\ ~token /\ "refuse" \in world.may
  /\ state' = IF world.policy = "abort" THEN "done" ELSE "serial"
  /\ outcome' = IF world.policy = "abort" THEN "end" ELSE outcome
  /\ IF world.policy = "skip" THEN UNCHANGED <<consumer, yielded>>
                              ELSE Yield(SpawnError) /\ Return
  /\ UNCHANGED <<world, purpose, receiver, batch, joined, channel, control, token, threads, failure>>

\* The serial stream reads the token before each item it yields.
SerialEnds ==
  /\ consumer = "next" /\ state = "serial"
  /\ \/ token /\ End("cancelled")
     \/ ~token /\ batch = <<>> /\ left = {} /\ End("end")
  /\ Return
  /\ UNCHANGED <<world, purpose, receiver, batch, joined, yielded, channel, control, token, threads,
                 failure>>

SerialReads ==
  /\ consumer = "next" /\ state = "serial" /\ ~token /\ batch = <<>>
  /\ \E i \in left :
       /\ batch' = Entries(i) \o (IF Kept(i) THEN <<Error(i)>> ELSE <<>>)
       /\ left' = left \ {i}
  /\ UNCHANGED <<world, state, consumer, purpose, receiver, joined, yielded, outcome, channel, control,
                 token, pc, item, failure>>

\* step(): the token comes first, then the batch at hand.
StepCancelled ==
  /\ consumer = "next" /\ state = "threaded" /\ token
  /\ consumer' = "close" /\ purpose' = "cancelled"
  /\ UNCHANGED <<world, state, receiver, batch, joined, yielded, outcome, channel, control, token,
                 threads, failure>>

StepBatch ==
  /\ consumer = "next" /\ state \in {"serial", "threaded"} /\ ~token /\ batch # <<>>
  /\ Yield(Head(batch)) /\ batch' = Tail(batch) /\ Return
  /\ UNCHANGED <<world, state, purpose, receiver, joined, outcome, channel, control, token, threads,
                 failure>>

StepOver ==
  /\ consumer = "next" /\ state = "threaded" /\ ~token /\ batch = <<>> /\ ~receiver
  /\ End("end") /\ Return
  /\ UNCHANGED <<world, purpose, receiver, batch, joined, yielded, channel, control, token, threads,
                 failure>>

StepReceive ==
  /\ consumer = "next" /\ state = "threaded" /\ ~token /\ batch = <<>> /\ receiver
  /\ consumer' = "recv"
  /\ UNCHANGED <<world, state, purpose, receiver, batch, joined, yielded, outcome, channel, control,
                 token, threads, failure>>

\* recv() blocks while the channel is empty and the walk alive.
Receive ==
  /\ consumer = "recv" /\ channel # <<>>
  /\ channel' = Tail(channel)
  /\ Yield(Head(Head(channel))) /\ batch' = Tail(Head(channel)) /\ Return
  /\ UNCHANGED <<world, state, purpose, receiver, joined, outcome, control, token, threads, failure>>

Disconnected ==
  /\ consumer = "recv" /\ channel = <<>> /\ pc[Driver] = "ended"
  /\ consumer' = "close" /\ purpose' = "ended"
  /\ UNCHANGED <<world, state, receiver, batch, joined, yielded, outcome, channel, control, token,
                 threads, failure>>

\* close(): the control first, outside its lock the walk's own stop, then the
\* receiver and what was received.
Close ==
  /\ consumer = "close"
  /\ closed' = TRUE /\ attached' = FALSE
  /\ consumer' = IF attached THEN "stop" ELSE "letgo"
  /\ UNCHANGED <<world, state, purpose, receiver, batch, joined, yielded, outcome, channel, token,
                 threads, failure>>

StopWalk ==
  /\ consumer = "stop"
  /\ stopped' = (stopped \/ WalkAlive)
  /\ consumer' = "letgo"
  /\ UNCHANGED <<world, state, purpose, receiver, batch, joined, yielded, outcome, channel, control,
                 token, threads, abort, panic>>

\* (Mutant: the channel outlives the wait for the driver.)
ReceiverKept == UNCHANGED <<receiver, channel>>
ReceiverDropped == receiver' = FALSE /\ channel' = <<>>

LetGo ==
  /\ consumer = "letgo"
  /\ ReceiverDropped /\ batch' = <<>>
  /\ consumer' = "join"
  /\ UNCHANGED <<world, state, purpose, joined, yielded, outcome, control, token, threads, failure>>

\* finish() or drop() joins the driver, once: a panic of the walk resumes here,
\* and the error that ended it is the last item unless the token came first.
Join ==
  /\ consumer = "join" /\ (joined \/ pc[Driver] = "ended")
  /\ joined' = TRUE
  /\ consumer' = IF purpose = "dropping" THEN "gone" ELSE "out"
  /\ IF panic /\ ~joined
     THEN outcome' = "panic" /\ UNCHANGED <<state, yielded>>
     ELSE CASE purpose = "ended" /\ abort # {} ->
                 (\E i \in abort : Yield(Error(i))) /\ UNCHANGED <<state, outcome>>
            [] purpose = "ended" /\ abort = {} ->
                 End(IF token THEN "cancelled" ELSE "end") /\ UNCHANGED yielded
            [] purpose = "cancelled" -> End("cancelled") /\ UNCHANGED yielded
            [] OTHER -> UNCHANGED <<state, outcome, yielded>>
  /\ UNCHANGED <<world, purpose, receiver, batch, channel, control, token, threads, failure>>

ConsumerCall ==
  \/ StartCancelled \/ StartThreaded \/ StartRefused \/ SerialEnds \/ SerialReads \/ StepCancelled
  \/ StepBatch \/ StepOver \/ StepReceive \/ Receive \/ Disconnected \/ Close \/ StopWalk \/ LetGo
  \/ Join

-----------------------------------------------------------------------------
(* The threads of the walk.                                                *)

\* parallel::stream builds the walk, and then attaches its stop.
Build ==
  /\ pc[Driver] = "build"
  /\ Goto(Driver, "attach")
  /\ UNCHANGED <<world, stream, channel, control, token, item, left, failure>>

\* (Mutant: an attach that does not look whether the consumer is gone.)
NeverClosed == FALSE
AlreadyClosed == closed

Attach ==
  /\ pc[Driver] = "attach"
  /\ attached' = ~AlreadyClosed
  /\ Goto(Driver, IF AlreadyClosed THEN "carryout" ELSE "idle")
  /\ UNCHANGED <<world, stream, channel, closed, token, item, left, failure>>

CarryOut ==
  /\ pc[Driver] = "carryout"
  /\ stopped' = TRUE
  /\ Goto(Driver, "idle")
  /\ UNCHANGED <<world, stream, channel, control, token, item, left, abort, panic>>

\* grow(), for any worker with work in hand.
StartHelper(h) ==
  /\ pc[h] = "unborn" /\ left # {} /\ ~Stopping
  /\ \E w \in Worker : pc[w] \in {"idle", "read"}
  /\ Goto(h, "idle")
  /\ UNCHANGED <<world, stream, channel, control, token, item, left, failure>>

Take(w) ==
  /\ pc[w] = "idle" /\ ~Stopping
  /\ \E i \in left : left' = left \ {i} /\ item' = [item EXCEPT ![w] = i]
  /\ Goto(w, "read")
  /\ UNCHANGED <<world, stream, channel, control, token, failure>>

\* walk_directory with the error policy: Abort keeps the first error and stops.
Read(w) ==
  /\ pc[w] = "read" /\ item[w] \notin world.panics
  /\ IF item[w] \in world.fails /\ world.policy = "abort"
     THEN /\ abort' = IF abort = {} THEN {item[w]} ELSE abort
          /\ stopped' = TRUE
     ELSE UNCHANGED <<abort, stopped>>
  /\ Goto(w, IF Kept(item[w]) THEN "report" ELSE "flush")
  /\ UNCHANGED <<world, stream, channel, control, token, item, left, panic>>

ReadPanics(w) ==
  /\ pc[w] = "read" /\ item[w] \in world.panics
  /\ Goto(w, "unwind")
  /\ UNCHANGED <<world, stream, channel, control, token, item, left, failure>>

\* (Mutant: a channel without a bound.)
Unbounded == TRUE
HasRoom == Len(channel) < Capacity

\* A send: it blocks while the channel is full, and fails once the consumer
\* has let go, which stops the walk.
Send(w, message) ==
  IF receiver
  THEN HasRoom /\ channel' = Append(channel, message) /\ UNCHANGED failure
  ELSE stopped' = TRUE /\ UNCHANGED <<channel, abort, panic>>

Report(w) ==
  /\ pc[w] = "report"
  /\ Send(w, <<Error(item[w])>>)
  /\ Goto(w, "flush")
  /\ UNCHANGED <<world, stream, control, token, item, left>>

\* flush_stream: a walk that stops drops what it buffered.
DropsBuffer(w) == Entries(item[w]) = <<>> \/ Stopping

Flush(w) ==
  /\ pc[w] = "flush"
  /\ Goto(w, IF DropsBuffer(w) THEN "idle" ELSE "send")
  /\ UNCHANGED <<world, stream, channel, control, token, item, left, failure>>

SendEntries(w) ==
  /\ pc[w] = "send"
  /\ Send(w, Entries(item[w]))
  /\ Goto(w, "idle")
  /\ UNCHANGED <<world, stream, control, token, item, left>>

\* (Mutant: a panic that ends its worker only.)
PanicSwallowed == UNCHANGED failure
PanicRecorded == panic' = TRUE /\ stopped' = TRUE /\ UNCHANGED abort

Exit(w) == Goto(w, IF w = Driver THEN "join" ELSE "ended")

RecordPanic(w) ==
  /\ pc[w] = "unwind"
  /\ PanicRecorded
  /\ Exit(w)
  /\ UNCHANGED <<world, stream, channel, control, token, item, left>>

Busy(w) == pc[w] \in {"read", "report", "flush", "send"}
Leave(w) ==
  /\ pc[w] = "idle"
  /\ Stopping \/ (left = {} /\ ~\E v \in Worker : Busy(v))
  /\ Exit(w)
  /\ UNCHANGED <<world, stream, channel, control, token, item, left, failure>>

\* (Mutant: the driver does not wait for its helpers.)
NobodyAwaited == TRUE
HelpersJoined == \A h \in Worker \ {Driver} : pc[h] \in {"unborn", "ended"}

\* The scope joins the helpers; then the walk, its sender with it, is dropped.
JoinHelpers ==
  /\ pc[Driver] = "join" /\ HelpersJoined
  /\ Goto(Driver, "finish")
  /\ UNCHANGED <<world, stream, channel, control, token, item, left, failure>>

EndDriver ==
  /\ pc[Driver] = "finish"
  /\ Goto(Driver, "ended")
  /\ UNCHANGED <<world, stream, channel, control, token, item, left, failure>>

WalkStep(w) ==
  \/ Take(w) \/ Read(w) \/ ReadPanics(w) \/ Report(w) \/ Flush(w) \/ SendEntries(w) \/ RecordPanic(w)
  \/ Leave(w)
DriverStep == Build \/ Attach \/ CarryOut \/ JoinHelpers \/ EndDriver

Cancel ==
  /\ "cancel" \in world.may /\ ~token /\ consumer # "gone"
  /\ token' = TRUE
  /\ UNCHANGED <<world, stream, channel, control, threads, failure>>

Gone == consumer = "gone" /\ HelpersJoined /\ UNCHANGED vars

Next ==
  \/ CallNext \/ DropStream \/ ConsumerCall \/ DriverStep \/ Cancel \/ Gone
  \/ \E w \in Worker : WalkStep(w) \/ StartHelper(w)

Spec == Init /\ [][Next]_vars

\* Every thread that can take a step takes one; the consumer owes no further
\* call once one has returned, and nobody owes a helper.
FairSpec ==
  /\ Spec /\ WF_vars(ConsumerCall) /\ WF_vars(DriverStep)
  /\ \A w \in Worker : WF_vars(WalkStep(w))

-----------------------------------------------------------------------------
(* Properties.                                                             *)

Times(output) == Cardinality({k \in 1 .. Len(yielded) : yielded[k] = output})
AllEntries == UNION {ToSet(Entries(i)) : i \in Item}
KeptErrors == {Error(i) : i \in {k \in Item : Kept(k)}}
AbortErrors == IF world.policy = "abort" THEN {Error(i) : i \in world.fails} \cup {SpawnError} ELSE {}

\* The contract of stream_parallel (lib.rs:2758-2789): a stream that ends
\* neither cancelled nor with a panic or an abort error has yielded every
\* entry and every kept error once, whichever thread met it, and nothing else
\* but the refusal of its driver.
EndsComplete ==
  outcome = "end" /\ ToSet(yielded) \cap AbortErrors = {} =>
    /\ \A output \in AllEntries \cup KeptErrors : Times(output) = 1
    /\ ToSet(yielded) \subseteq AllEntries \cup KeptErrors \cup {SpawnError}
    /\ world.policy = "abort" => world.fails = {}
    /\ joined => world.panics = {}

\* "Under Abort the first error as the stream's last item": no entry another
\* worker had buffered, and no second error, comes after it; what was yielded
\* is never yielded twice.
AbortErrorLast ==
  /\ \A k \in 1 .. Len(yielded) : yielded[k] \in AbortErrors => k = Len(yielded)
  /\ IsInjective(yielded)

\* "Dropping the stream stops the walk and joins its threads before drop
\* returns", and so does the last next().
NoThreadOutlives ==
  consumer = "gone" \/ outcome # "none" =>
    \A w \in Worker : pc[w] \in {"unborn", "ended"}

\* StreamControl: a consumer that lets go while the walk is being built is not
\* forgotten; whichever of attach and close comes second carries the stop out.
CloseReachesWalk ==
  closed /\ pc[Driver] \notin {"unborn", "build", "attach", "carryout", "finish", "ended"} =>
    stopped \/ consumer = "stop"

\* Every call returns: next() and drop(), with workers blocked on a full
\* channel, walks that panic, and a driver that is still starting.
CallsReturn == consumer \notin {"out", "gone"} ~> consumer \in {"out", "gone"}
=============================================================================
