# Ferralk in TLA+

Ferralk is a file walker and a glob matcher in Rust. `crates/ferralk-glob`
parses and matches patterns; `crates/ferralk` walks a tree with them, serially
or on a pool of worker threads, collecting, streaming or visiting what it
finds, and honours gitignore rules.

This directory holds TLA+ modules of the parts whose correctness is hard to
test. Some depend on order: the protocol by which workers hand directories to
each other, sleep and end; the traversal that runs on it; the stream that hands
entries to a consumer while the walk goes on; the serial frontends with the
directory descriptors they keep. Others are decisions with many ways to the
same answer: which directories a filter may prune, what the rules of a chain of
ignore files say, and the engines that answer for a glob. TLC checks them on
small instances. TLAPS proves the safety of the protocol, of the traversal, of
the stream and of the serial frontends for any number of workers and tasks and
any tree. `PROJECT.json`
lists the runs, the source lines behind every definition, and the mutated
definitions with which each property was seen to fail.

    cd tla
    tlc -workers 2 -config MCCoordinator_safety.cfg MCCoordinator.tla
    tlapm CoordinatorProofs.tla
    tlapm ParallelStreamProofs.tla
    tlapm ParallelWalkQueues.tla      (and ...Workers, ...Hands, ...Proofs)
    tlapm SerialWalkProofs.tla
    tlapm SerialReportProofs.tla

All line numbers are those of this commit; paths are relative to
`crates/ferralk/src` unless they say otherwise.

## Inventory

### Worker coordination (`scheduler.rs`) - modelled

State: `pending` (tasks counted and not finished), `wake_state` (an epoch and
the number of sleepers in one word), `wake_lock` and its condvar, `lone` (the
caller has not started helpers), `active_workers`; one deque per worker and a
shared queue (`injector`).

Operations: `begin_task`, `schedule`, `widen`, `claim_task`, `wait_for_task`,
`announce_one`, `announce_batch_handoff`, `wake_waiters`, `finish_task`,
`claim_worker_slot`, and the guards that undo a task and a slot on unwinding.

Hard: everything is an interleaving. A waiter scans queues it cannot lock, then
sleeps; a publisher counts, pushes and announces in three steps; a batch steal
empties one queue before it fills another; panics leave through the guards; the
cancellation token is outside the pool and notifies nobody.

Correct means: no worker sleeps while queued work is unattended; the counters
are right between any two accesses; no worker leaves before the tree is
finished unless the walk was stopped; every walk ends.

### Parallel traversal (`parallel.rs`) - modelled

State: `Shared` (stop flag, abort error, errors, panic, evidence for helpers,
`helpers_capped`), a scratch per worker, the task in hand and a position in its
listing, the results of each worker.

Operations: `run` (roots, then alone, then on the pool), `drain_alone`,
`run_worker`, `try_take`, `HelperPool::grow` and `spawn`, `walk_directory`,
`act`, `record_error`, `record_spawn_failure`, `record_panic`, `finish`.

Hard: a wide listing is cut in batches that other workers continue; errors of
several workers race under `Abort`; helpers are refused; the visitor prunes,
stops or panics; the token is set anywhere.

Correct means: the outcome is the one the tree determines, on every schedule;
what a stopped walk returns is a part of that; the pool stays in its budget;
the walk notices a stop within a stride; it returns.

### Parallel stream (`parallel_stream.rs`) - modelled

State: `idle`, `serial`, `threaded` or `done`; the receiver, the batch at hand,
the handle of the driver thread; `StreamControl` (`closed`, `stop_walk`); the
bounded channel.

Operations: `next` (with `start`, `fall_back_to_serial`, `step`, `finish`),
`drop`, `attach`, `close`, `StreamSink::send`, and `flush_stream`,
`record_error` and `finish` of `parallel.rs` with a sink.

Hard: the consumer lets go while the driver is still building the walk; workers
block on a full channel; a panic has to cross threads; the abort error must be
the last item although several workers still send.

Correct means: a stream that ends has yielded everything once; an abort error
comes last; no thread outlives the stream; every call returns.

### Serial walk and stream (`lib.rs` 2862-5096) - modelled

State: `WalkStream` keeps a stack of roots and of suspended frames (listing,
position, ignore scope, ancestor chain), the errors it still owes, its stopped
and cancelled flags; `WalkState` does the same traversal from an injector and a
stack of tasks, among them the directories it records after their subtree.

Operations: `next`, `prepare_directory`, `start_directory`, `resume_directory`
of both, `error`, `queue_ignore_errors`, `handle_error`, entering the chain of
directory identities, suspending and restoring a listing, dropping the stream.

Hard: the frames between calls; a call that fails in the middle of a listing;
several errors met by one step of an iterator that yields one item; links that
close a cycle; and that four frontends (collect, visit, stream, stream_parallel)
must agree on entries, errors and their order.

Correct means: both hand out what a recursive descent would, in its order; the
error policy only removes errors; what is missing is reported; a cancelled walk
stops within a stride per listing.

### Native backends (`linux_native.rs` - partly, `macos_native.rs` - not modelled)

State: one process-wide count of retained directory descriptors; per listing a
descriptor with or without a permit, or an identity to find again.

Hard: permits on every path out, walks that compete for the budget, a directory
replaced while its listing is suspended. Correct means: the count is exact, and
a listing is never continued below another directory.

### Classification (`classify.rs`, `TraversalPattern` in `lib.rs`) - modelled

Stateless: depth, hidden names, ignores, excludes, the kind an entry has or a
link reaches, includes and metadata decide whether an entry is emitted, entered,
both, skipped or an error. Hard: the shortcuts that decide which directories
are never opened and which files never matched (literal roots, extensions,
excludes that cover a subtree, unresolved links). Correct means that pruning a
directory never drops an entry the filters would accept.

### Gitignore scope and rules (`gitignore.rs`, `ignore_rules.rs`) - partly modelled

State: a chain of rule sets, one per directory that has rules, deepest first,
and what `core.ignorecase` and `core.precomposeunicode` ask for. Operations:
discovering the repository, reading its excludes, entering a directory, parsing
a line, the verdict for an entry. Hard: precedence, negation, `**`, escapes.
Correct means Git's answer: the last match of the deepest file that has an
opinion. Discovery and configuration are not modelled.

### Glob matcher (`crates/ferralk-glob/src`) - partly modelled

State: none between matches in what it means, but the memoized engine runs on
buffers of its thread that survive from one match to the next. Operations:
expanding braces under budgets, telling a walker whether a pattern can match at
all, compiling tokens, classifying a pattern into one of the fast
shapes, the sets of suffixes, the prefilter, the sweep over words of bits, the
memoized engine with cached searches, and the entry points that choose a copy
of the pattern and options. A pattern with extglob groups is compiled to a
program of its own, for an automaton when all groups are positive and for an
interpreter with a list of continuations otherwise. Hard: one question, seven
engines; hidden components; stars that meet separators; stale answers; a group
that may end in many places. Correct means that they all answer as the spans of
the tokens do, and a group as its alternatives written in its place.

### The rest - not modelled

`absolute.rs` (a literal root in front of a pattern), `sort_order.rs` (a
comparison), `thread_budget.rs` (a minimum of three positive numbers), the
configuration of `Walker`, and `set.rs` (an index over compiled alternatives).
`native_parity.rs`, `tests/`, `tools/`, `fuzz/`, `corpus/` and `homepage/` are
tests, benchmarks, generators and documentation.

### How they interact

`Walker::collect`, `visit` and `stream_parallel` call `parallel::run` when the
budget is above one, on the calling thread or on a driver thread. `run` reads
the roots through `walk_directory`, which asks the backend for a listing, the
ignore scope and `classify_entry` for an action, the visitor for a verdict, and
the coordinator to schedule what lies below. Workers share the coordinator, the
queues and `Shared`; they keep entries in their own scratch, or send them
through the channel. The consumer reaches a running walk only by the receiver
it drops and by `StreamControl`; the owner of a `CancellationToken` only by a
flag the workers poll.

A serial `collect` or `visit` and every `stream` use the same backend, scope and
classification without the pool. `classify_entry` asks the compiled patterns of
`ferralk-glob` and the chain of ignore rules, whose rules are compiled globs
again. All walks of a process share the budget of retained descriptors, and all
matches of a thread its scratch buffers.

## Modules

| Module | Models | Role |
| --- | --- | --- |
| `TaskPool` | what the pool promises | abstract specification |
| `Coordinator` | `scheduler.rs` and the loops that drive it | protocol, one access per step |
| `CoordinatorInv` | | its inductive invariant |
| `CoordinatorProofs` | | theorems, among them that `Coordinator` implements `TaskPool` |
| `ParallelWalk` | `parallel.rs` over a fixed tree | traversal, one stage or entry per step |
| `ParallelWalkInv` | | its inductive invariant |
| `ParallelWalkQueues` | | lemmas: listings, queues and steals, bags, the names of a tree, frames of the actions |
| `ParallelWalkWorkers` | | each action keeps the types, the stations of the workers, the helpers and the budget |
| `ParallelWalkHands` | | each action keeps positions, lateness and counts, and moves directories one way |
| `ParallelWalkProofs` | | reports and losses, and the theorems |
| `ParallelStream` | `parallel_stream.rs`, sink side of `parallel.rs` | consumer, driver, helpers, channel |
| `ParallelStreamInv` | | its inductive invariant |
| `ParallelStreamProofs` | | theorems |
| `SerialWalk` | `WalkStream` and `WalkState` of `lib.rs`, retention of `linux_native.rs` | both serial frontends, one entry per step |
| `SerialWalkInv` | | its inductive invariant |
| `SerialWalkProofs` | | theorems |
| `SerialReport` | the recursive descent they stand for | reference, and the properties that use it |
| `SerialReportInv` | | its inductive invariant |
| `SerialReportProofs` | | theorems |
| `Selection` | `classify.rs`, `TraversalPattern`, the scope of `gitignore.rs` | what a filter decides about each path, and what it promises |
| `GlobPattern` | `ferralk-glob`: alternatives, tokens, fast paths, sets, prefilter, sweep, entry points | operators, and the meaning of a token list |
| `GlobMatcher` | the memoized engine of `ferralk-glob` | one visited state per step |
| `Extglob` | extglob groups of `ferralk-glob`: program, interpreter, automaton | one turn of the interpreter's loop per step |
| `BraceExpansion` | brace expansion of `ferralk-glob`: work list, budgets, offsets, look-ahead | one piece of the work list per step |
| `WalkerPath` | analysis of walker paths in `ferralk-glob` | operators, and what a rejection must mean |
| `IgnoreRule` | parsing in `ignore_rules.rs` | operators, and the meaning of a rule |
| `IgnoreMatcher` | matching in `ignore_rules.rs`, verdict of `gitignore.rs` | one component per step |
| `MC...` | | constants, worlds, symmetry and views for TLC |

The protocol, the traversal and the stream are one program seen at three grains.
`Coordinator` has every atomic access and knows nothing about a tree.
`ParallelWalk` keeps the queues
with their order, the pool and the accounting, and lets a worker without work
be idle; that an idle worker finds work or leaves is what `Coordinator` shows.
`ParallelStream` keeps the threads, the channel and the control block, and lets
a worker take any directory nobody has taken.

`SerialWalk`, `SerialReport`, `Selection` and the glob and rule modules compose:
the world a serial walk starts in fixes what is decided about each path, and
`Selection` computes these decisions for a plan (patterns, rules and options)
with `GlobPattern` and `IgnoreRule`. A run of `SerialWalk` over such worlds is
the serial program from pattern bytes to the items handed out.

### Coordinator

`pc[w]` is the next access of worker `w`. The caller starts in `root`
(`run`, `BeginRoot`, `RootsDone`) and `drain` (`drain_alone`), widens at most
once, and joins the helpers in the loop `check` - `observe` - `own` - `inject` -
`scan` - `lock` - `recheck` - `recheckStop` - `register` - `park` of
`wait_for_task`. A task taken leads to `run`, then `work`, where a worker may
schedule (`BeginTask`, `Publish`, `Announce`, `NotifyOne`), grow the pool
(`StartHelper`), stop the walk, return or panic, and ends in `FinishTask`.
`ret[w]` is where an announcement returns to, since several callers share it.

`place[t]` and `owner[t]` say where a task is. `moving` is the rest of a stolen
batch, which is in nobody's queue while the thief copies it; a steal takes the
task it returns and fewer than half of the others, any of them. A deque is a
set: nothing here depends on the order in which it hands tasks out.

`Register` is the compare-exchange on `wake_state`: it succeeds only if the
epoch is the observed one, and counts the sleeper in the same step. `TimeOut`
stands for the 10 ms timer and for spurious wake-ups, and is never required to
happen except where `CancelEnds` says so.

Left out: a failed or spurious `Steal::Retry`, which only loops; a repeated
`stop`, which notifies again; the width of the epoch (58 bits, wrapping).

### ParallelWalk

The world, chosen in the initial state, fixes what classification says about
each name, what the visitor answers, which directories fail and how, the error
policy, and whether anyone may cancel, panic or be refused a thread. The
listing of each directory is a constant. A directory goes through `begin`,
`carried` (ignore errors of the root), `read`, `ruled` (ignore errors of its own
files), `list` and `entry`, and ends in a continuation or in the deferred
errors. `grow` is visited between the strides of a listing and before a task is
released, as in the code. The queues are sequences: the own deque is taken from
the end, the shared queue and other deques from the front, and a steal moves a
batch.

The reference the result is compared with (`Reached`, `Listed`, `Wanted`,
`Failures`, `Reported`) is written from the tree and the world alone and shares
no operator with the actions.

`TreeAssumption` gives every place in the walk a name of its own: no root is
added twice or lies below another, no name is listed twice, and nothing lies
below itself. A path the code meets twice (overlapping roots, a link beside its
target) is two names with the same answers; a link that closes a cycle is a
directory with the fault `loop`, which is never opened. `WorldAssumption` says
what classification guarantees: only directories are descended into, and only
the tasks of roots carry errors.

Left out: the retained directory, buffers and their reuse, the sort at the end
(results are bags), metadata, and several ignore errors at one stage.

### ParallelStream

`consumer` is the step of the iterating thread inside `next` or `drop`; `pc`
those of the driver and its helpers. Both can hold the channel up: `Send` waits
for room while the receiver exists, and fails once it is dropped, which stops
the walk. `Attach` and `Close` are the two sides of `StreamControl`; the stop
that follows is a step of its own on either side, because the code runs it
outside the lock. `Join` is `finish` or `drop` waiting for the driver.

Left out: `begin_walk` (it raises the limit of open files), a walker that cannot
be handed to the driver, entries that need several messages, and the metadata of
results.

### SerialWalk and SerialReport

`stack` is `pending` of either frontend: directories to open, listings to
resume, and for `collect` the directories to record after their subtree.
`frame` is the listing in hand. `stash` is `pending_errors`, `turn` whether the
consumer or `next` is running. A step takes a task (`Open`, `CloseCycle`,
`FailOpen`, `DropTask`, `Resume`, `LoseListing`, `Record`), classifies an entry
(`SkipEntry`, `EmitEntry`, `DescendEntry`, `EmitAndDescend`, `FailEntry`), or
ends a listing. The frontends differ inside these actions exactly where the
two functions do: who looks at the token and when, where a directory is handed
out, when a frame goes back on the stack, in which order carried errors and a
failed read are reported. `Report` is the error policy for the errors one step
meets.

Descriptors are values; a clone in a queued child and the parent's own are the
same value, so the set of them counts the open ones, and `InUse` is the number
of permits. `Suspended` gives a descriptor up under pressure and keeps the
identity; `Resume` opens the path again and compares. `Crowd` is every other
walk of the process, `Replace` somebody who replaces one directory.

A world answers for every path. `WorldAssumption` keeps those the program can
meet: `classify_entry` descends into directories only, and without
`follow_symlinks` a link is none, so no path leads back to a directory it came
through; descent relative to a descriptor is switched off under
`follow_symlinks`.

The reference is the recursive descent over the tree and the world, written as
the set of its items and their order, so that it can be reasoned about: `Met`
says which paths the descent comes to, `Yields` what it says of one, `Before`
which of two items it says first. It shares the naming of errors with the actions
and nothing else: it knows neither the stack nor the listings under way. A root
stands for its place among the roots (`DirectoryTask::root`), so the same
directory added twice is two names with one target, like `q` and `s` in the tree
of the runs.

Left out: reads of directories that end in the middle with an error of the
system (they are an error like a deferred one), the metadata of entries, and
the root spelling of outputs.

### Selection

`Classify` is `classify_entry`: the filters that need no kind, the early
rejection of a link by what holds for it unresolved, the resolution of links
under `follow_symlinks` and `resolve_symlink_kind`, exclude and ignore, descent,
the extension test in front of an include match, and the failures that leave an
entry out but not its subtree. The promise (`Wanted`) is entry by entry: what
passes every filter by the meaning of its patterns (`Meets`, on spans) and lies
below nothing that hides it. `SelectsAll` compares a whole walk with it, so that
a wrong literal root, covering exclude or extension test shows as an entry lost.

Left out: absolute patterns, the Windows spelling of candidates, the option to
match against a path with a prefix, metadata other than that it cannot be read.

### GlobPattern and GlobMatcher

`GlobPattern` has what is computed at once: brace alternatives, classes, tokens
with the rules for runs of stars, the prefilter, the fast shapes, the two sets
of suffixes, and the sweep over words of `WordBits` bits with the carry between
words that the closure over stars needs. `Fits` gives a token list its meaning
without any of them: the candidate can be cut into spans. `Route` and
`Compiled` are the entry points of `Pattern`.

`GlobMatcher` runs the memoized engine: `at` is the token and offset to visit,
`deferred` the repetitions to try later, `failed` the states seen, `scans` what
the first star has cached about separators, hidden components and occurrences
of its literal. Two matches run in a row on the same buffers; the first leaves
its scans and generation. `StarToken` is a star with its skip decision.

Left out: named classes (`[[:alpha:]]`), case folding other than the skipping
it turns off, unclosed and empty classes.

### BraceExpansion

`Alternatives` in `GlobPattern` expands braces by recursion. The code keeps a
work list, and gives up when the alternatives, the bytes or the spans of the
source it has written pass a budget. A step takes one piece: it is finished
(`Emit`), or its first group is replaced by each of its arms (`Rewrite`). Every
byte keeps the offset it has in the source (`spans`), because an error in an
alternative is shown in what the caller wrote. Before any of this the code adds
up what the expansion will cost (`Summarized`) and what compiling it must cost
at least (`LeastUnits`), to refuse a pattern without expanding it.

`ExpandsOrRefuses` compares all of these: the work list ends with what the
recursion gives, in its order, with true offsets (`OffsetsTrue`); the summary is
exact; a budget refuses only what exceeds it; and the look-ahead refuses only a
pattern for which compiling would run out of units, and for which no other error
would have been reported first.

Left out: the bound on the depth of the summary, and the units that the sweeps
and tries of a compiled pattern charge on top, which only make it cost more.

### WalkerPath

A walker rejects a pattern that no path below a root can match: one with a
component that is empty, `.` or `..`. The analysis replays the tokens of each
alternative and keeps the first component of each kind, with the offset to
blame; through an extglob group it follows sets of such states, with repetition
up to a fixed point (`MoreRounds`). `RejectsSoundly` compares it with the
engines: an alternative with a problem matches no path a walker offers, and no
text that the interpreter of the groups has accepted has a problem; a plain path
is sound exactly if it is one a walker offers; and the byte that is blamed is a
dot or a separator of the source.

### Extglob

`Program` is what `compile_extglob` makes of a pattern: a step per offset that a
walk reaches and, per group, its alternatives as token lists. An alternative
that ends in `**` in front of a separator is compiled again with the separator
(`through`). `RunEnds` says where a group may end, with the streaming sweeps of
repetitions and their first round apart; `Continuations` what is queued then.

The interpreter is a state machine. `place` is where it stands in the program
and in the candidate, `star` the last star, `crossing` the star that crossed
separators before it, `pending` the continuations to try and `queued` all it has
ever queued. One step is one turn of the loop of `match_extglob_task`, with the
backtracking behind it; `NfaMatch` is the automaton over the same program.

`ReadsInlined` compares both with a reference without groups: every text that
arises when the alternatives are written in place of their groups (a negated
group: every span of the candidate none of them matches), read by `Fits`. The
interpreter runs on every program, also where the code would ask the automaton,
because a test of the code wants them to agree
(`positive_extglob_nfa_agrees_with_the_fallback_interpreter`).

The comparison with the texts is made where the text reads as the group does.
`Seamless` leaves out patterns in which an edge joins what the program keeps
apart (a star with a star or a separator, a recursive wildcard between rounds),
and the list filter on candidates with empty components. On candidates with a
hidden component only soundness is asked, and of patterns with a star outside of
the groups nothing, because a group and a star in front of it judge a leading
period by rules of their own: with `match_hidden` off `*.@(b)` accepts `a/.b`
where `*.b` refuses it. Reading showed more such places, on patterns nobody
would write; the inputs leave them out and no property says which answer is
right:

- A group behind an escaped separator (`\/@(*)`) counts as one behind a
  separator; an inlined `*` does not.
- A run of four stars in an alternative is two `**` to the tokens. The sweep lets
  one hand over to the other in front of a hidden name (`handing_over_to`), the
  automaton does not: `@(a/****/.a)` on `a/.a`.
- Under the list filter an empty first round of `a/+(?b|*)` lets a later round
  start at the same offset. The automaton allows it, the interpreter does not
  inject it: `a//`.

### IgnoreRule and IgnoreMatcher

`Rule` parses a line: negation, anchoring, directory-only, escaped slashes,
collapsed stars, components and the literal gate. `IgnoreMatcher` walks the
chain of files from the deepest outwards and the rules of each from the last,
and runs the loop with one backtracking point; `Decided` is the meaning, which
divides the names among the `**` in every way.

Left out: comments, trailing spaces, bracket classes, case folding and
precomposition, finding the repository and its excludes.

## Runs

Twelve runs, each a question.

| Run | Instance | Question | Result |
| --- | --- | --- | --- |
| `protocol` | 3 workers, 1 root, 4 tasks, token, stops, panics | is the hand-off safe, and does it implement `TaskPool`? | 622,000 states, holds |
| `ends` | 3 workers, 1 root, 2 tasks, token, fair | does every walk end, with and without the token? | 124,000 states, holds |
| `handoff` | 3 workers, 5 queued tasks | does hand-off depend on the timer? | violated, see findings |
| `walk` | 3 workers, 9 names, 39 worlds | is the outcome the one the tree determines? | 1,500,000 states, holds |
| `returns` | 3 workers, panics, refusals, aborts, fair | does the walk return? | 224,000 states, holds |
| `refused` | 4 workers, refused starts | is a refusal reported once? | violated |
| `frontier` | 2 workers, 7 directories below one root, the floors in the code's relation to the batch | is the frontier bounded as documented? | violated |
| `stream` | driver, helper, 3 directories, 18 worlds, fair | does the consumer get everything, and let go of everything? | 377,000 states, holds |
| `serial` | 3 roots, 11 names, a link, 690 worlds, 550 of them computed from filters | do both frontends deliver what the descent would, on exact descriptors, and what the filters promise? | 164,000 states, holds |
| `carried` | the same tree, an unreadable root whose repository has a bad rule file | do the frontends report the same errors? | violated, see findings |
| `matcher` | 145 patterns against 75 candidates in 9 readings, after 2 earlier matches; 71 patterns with groups against 99 candidates in 6 readings; 400 chains of rules against 70 entries; 908 sources of braces under 4 sets of budgets | do all engines, the two of the groups and the rule matcher answer as their definitions, and are braces expanded and patterns rejected as they should be? | 982,000 states, holds |
| `alternation` | 2 patterns whose prefixes overlap | does a set of scoped suffixes answer as its alternatives? | violated |

### Bounds, and why they are enough

- Three workers: one that publishes or steals, one that prepares to sleep, and
  one that is busy or asleep already. `handoff` shows that the instance is large
  enough for the one case in which this goes wrong. Helpers are symmetric.
- Four tasks besides the root: the smallest number at which a steal leaves the
  thief with a rest while the source keeps something. `handoff` needs five and
  starts from a state that a walk with one root reaches, to stay small.
- `ends` starts either where a walk starts or in the middle of a larger tree
  (`Underway`): three workers are only ever alive together while three tasks
  are unfinished, and from the start that many cannot be run to the end within
  reach. A sleeper that a cancelled walk forgets needs the third worker.
- The view of `MCCoordinator` drops the value of the epoch, because every step
  that reads it only compares it with the value the same worker observed. No fairness
  condition or property tells apart what it merges, so `ends` may use it too; it
  uses no symmetry.
- A batch of two in listings of three: every listing that is longer than a
  batch is cut, at a directory and at a file. Strides of one and of two put
  stop tests between all entries and between some.
- `Troubled` has one to four faults at once under each of the three policies,
  `Stopped` the visitor's stop and the token. Combinations of more faults meet
  no further test in the code: each is handled where it happens.
- The floors are small, so that a walk widens in the middle of the tree, and not
  at its first entry, and goes on alone where a prune leaves one task; the limit of the floors for a single listing
  (`ListingFloor`) is above what the trees reach. So the outcome, the stop and
  the budget are checked on more divisions of the walk into a lone and a pooled
  part than the code's numbers allow. `frontier` is about those numbers and keeps
  their relation (`HELPER_WORK_FLOOR` < `HELPER_LISTING_FLOOR` =
  `LISTING_BATCH_SIZE`): a listing that is cut is past every floor, and the walk
  widens before a continuation is taken. Three full batches are
  what its trace needs.
- One message of room in the channel, so that it is full whenever one is under
  way. `Threads` times `CHANNEL_MESSAGES_PER_WORKER` only makes it fuller.

- `serial`: a stride of two in listings of up to four entries, so that a
  listing is polled in its middle and a suspended one is resumed on and between
  polls. A limit of four permits makes pressure begin at two: the third open
  directory of a descent already has to give its listing up. The tree is three
  levels deep below a root, with a directory that is reached by a name and by a
  link, once beside and once below itself, and a directory that is two roots. One directory is replaced at most,
  while the other walks take and return permits at every step.
- The plans are products of a few patterns per shortcut (literal roots, braces,
  extensions, covering excludes, escaped separators, trailing slashes), the kinds
  and link targets, depth limits and two levels of rule files. Each frontend
  takes a part of them, because the decisions do not depend on the frontend.
- `matcher`: every pattern of up to two bytes over a letter, a dot, a separator and a star, those of three
  with a star, and longer ones around each rule of the code; candidates of up to eight bytes, long
  enough for an occurrence behind a barrier, a star that stalls
  (`StalledSkips` 2 instead of 32) and a skip that is asked again. The generation
  counter wraps after two matches. A word of three bits makes most patterns
  wider than a word, some wider than two.
- The patterns with groups have each kind, alone, repeated, nested (which is text),
  empty, unclosed, negated, beside a recursive wildcard on either side, behind
  stars of either kind and behind an escape, with alternatives of one byte, of
  several, over a separator and of every wildcard. The candidates are all of up
  to three bytes over two letters, a dot and a separator, and longer ones with
  the separators and dots that the second remembered star and the rounds need.
- The sources of the expansion are all of up to four bytes over braces, a comma, an escape and a
  letter, all of up to three over what makes components, and longer ones with nested, empty and cut
  groups, classes a comma would cut, and groups with separators. Each budget is met at its last unit
  and exceeded before (`BraceBounds`); one set is generous, so that every source is also expanded to
  the end.
- `Nowhere` (1000) stands for `usize::MAX`: it is behind every candidate.

### Fairness, and why the code justifies it

A thread that can take a step takes one (weak fairness per thread): nothing but
the system scheduler stands between. A thread that waits for `wake_lock` gets it
(strong fairness of the lock steps in `Coordinator`): the sections are a few
instructions, and a holder always releases. Not assumed: that the timer fires,
except in `CancelEnds`, which says so in its premise; that anyone cancels,
panics or is refused; that a helper is started; that the consumer calls again
after `next` returned. `DrainTake` and `Leave` rest on the fairness of their own
thread only.

### Findings

1. **Hand-off can wait for the timer** (`handoff`). Five tasks are queued and
   three workers X, Y and Z look for one. X steals a batch of three; while two
   of them are in transit Y finishes the two that were left, finds every queue
   empty and parks, and so does Z. X's batch arrives and X announces it with one
   `notify_one`, which is all `announce_batch_handoff` sends. Y wakes, takes one
   of the two, leaves the other in X's deque and has no batch to announce. X and
   Y are now each in a directory, a task is queued, and Z sleeps until its timer
   fires. `scheduler.rs` 25-27 says that progress never depends on the timer.
   Work is not lost (`NoStrandedTask`), only started up to 10 ms late.
2. **Two refusals** (`refused`). `grow` tests `helpers_capped` at 297;
   `record_spawn_failure` sets it at 567. Two workers between the two lines both
   report. `docs/usage.md` 554-556 promises one error.
3. **More than a batch per worker** (`frontier`). `parallel.rs` 255-258 and
   `docs/usage.md` 561-563 bound the frontier by a batch per active worker. The
   continuation of a wide root is queued in front of the root's own first batch,
   because `flush_into` moves the children to the end of a first-in first-out
   queue. In the trace one root has four batches and both workers run: the caller
   takes the first continuation, with a directory of the first batch that the
   same steal moves to its deque, and lists the second batch on top. While it is
   not scheduled, the helper drains what is left of the first batch, reaches the
   second continuation and lists the third batch: five directories wait, for two
   workers and batches of two. No start is refused and no floor is bypassed.
4. **Errors of a root that cannot be read** (`carried`).
   `WalkStream::prepare_directory` (`lib.rs` 4430) returns the cycle-key or read
   error of a root before it queues the ignore errors the root's task carries,
   and drops them with the task; `WalkState::start_directory` reports them first.
   `lib.rs` 5602-5604 asks the frontends for the same errors under every policy.
   `Delivers` leaves out what the stream forgets so (`Forgotten`);
   `FrontendsAgree`, checked on the worlds with both faults on one root, does not.
5. **A set of scoped suffixes misses a match** (`alternation`).
   `ScopedSuffixSet::is_match` (`ferralk-glob/src/lib.rs` 2922) takes the first
   prefix of its trie that a separator follows. A literal may hold an escaped
   separator, and then one prefix can begin another: with `match_hidden` off,
   `{a,a\/.b}/**/*a` answers no about `a/.b/a`, although its second alternative
   matches and the sweep and the memoized engine say so.

A difference too small for a run of its own: `docs/usage.md` 479-483 says that a
cancelled `collect` classifies at most 64 more entries per worker. The token is
polled at multiples of 64 of each listing. A listing that ends before its next
poll hands over to the suspended one above it, which goes on to a poll of its
own, and so on up the path: together they may classify more than 64 entries.
`StopsByStride` states what holds, a stride per listing.

## Proofs

`CoordinatorProofs` proves, for every finite set of workers and of tasks and
for every choice of roots (the assumptions named in `Coordinator`):

- `TypeCorrect`, `CountersCorrect` - types, and that both counters are exact;
- `Invariance` - the invariant `IInv`;
- `NoLostWakeup`, `WorkNotStranded`, `NobodyLeftBehind` - the three properties
  of the `protocol` run that say nobody sleeps through something.

The argument is in `CoordinatorInv`. `Shape` says who may be where: who holds
the lock, that a task has an owner exactly while it is in someone's queue or
hands, that a lone caller has no company, and where a shared call returns to.
`ProbeInv` is the heart: as long as the epoch has not moved since a worker
observed it, every task in a queue that the worker has already found empty was
put there by someone whose announcement is still to come (`Owed`). The
announcement moves the epoch, so `Register` fails, or it comes after the
registration and finds the sleeper. `ParkInv` and `AwakeInv` carry this over the
last step before the condvar and into it, where the properties themselves are
not inductive: they do not know what a worker that is still scanning has missed.
`WakeInv` does the same for the two other reasons to wake up, the last task and
a stop: they are signalled under the lock, so a worker that was past its test
either saw them or is already in the wait set.

`IInv` was checked by TLC before it was proved. Each action has a lemma or a
step; steps that only move `pc` share a lemma. Counting steps rest on the
library's theorems about cardinality.

The second half proves `Refinement`: the protocol implements `TaskPool`, again
for every number of workers and tasks. `IInv` does not say enough for it.
`HandsInv` adds that a worker has exactly one task in hands while it is inside a
directory and none otherwise, so that an announced child has a running parent.
`FlushedInv` and `LeaveInv` add what a worker about to leave has seen: the walk
is stopping, or every root has been begun and the count is zero. A count of zero
leaves no task outstanding because `CountersTrue` makes it exact. With these,
each action changes the phase of one task the way the pool allows, lets a worker
leave, sets the stop, or is invisible to the pool (`Unseen`). The invariant was
checked by TLC on the `protocol` instance first.

`ParallelStreamProofs` proves every safety property of the `stream` run for any
number of workers and directories, any capacity of the channel, and any world:
what each directory keeps, which of them fail or panic, the policy, and whether
the caller cancels, drops the stream early or is refused a thread:

- `TypeCorrect` - types, and the bound of the channel;
- `NoThreadLeft`, `CloseNotForgotten` - letting go of a stream ends its threads,
  and is noticed whichever of `attach` and `close` comes first;
- `AbortIsLast`, `EndIsComplete` - nothing follows an error that aborts, nothing
  is handed over twice, and a stream that says it is at its end has handed over
  everything.

The argument is in `ParallelStreamInv`. None of the properties is inductive: each
speaks of what the consumer sees, and says nothing of what is still under way.
`ThreadInv` and `CloseInv` say which threads there are and who carries a stop
out. Then every output is followed from the tree to the consumer. It is `Due`
while its directory is untaken or in a worker's hands, then in the channel, in
the batch, or yielded: in one of these places only, and once (`HandsInv`,
`UniqueInv`), and nothing else is on its way (`SoundInv`). `LossInv` says that
none of them goes missing before something stops the walk, and that nobody leaves
the walk before every directory is taken and released. A stop has a reason the
consumer knows of or gave itself (`StopInv`, `LetGoInv`), so a stream that
reports neither a cancellation, a panic nor an error was not stopped, and
`CompleteInv` follows when the channel runs dry after the driver has ended. TLC
checked `IInv` on the `stream` instance before it was proved.

`ParallelWalkProofs` proves every safety property of the `walk` run for any tree
and any world (what classification and the visitor answer, what fails, the
policy, who may cancel, panic or be refused a thread), any budget of threads, any
floors, and any stride that divides the batch:

- `TypeCorrect`, `BudgetKept` - types, and the pool never exceeds its budget;
- `PendingCounts` - each directory is in one place, and the pending count is the
  number of tasks queued or taken and not yet released;
- `PromptStop` - a stride of entries at most after the stop;
- `SoundResult` - what a walk reads and returns, cut short or not, is part of
  what the tree says, each once;
- `CompleteResult` - a walk that returns uncancelled has everything.

The argument is in `ParallelWalkInv`. `StationInv`, `HelperInv` and `ResultInv`
say who may be where, and `StaysInBudget` is inductive once they hold. `HandInv`
is the core: every directory waits in one queue, once, or is in one worker's
hands, through steals that move half a deque and through listings cut in
batches. A task carries the entry it goes on at, so that `Underway` tells for
each directory whether it is waiting, begun, or going on at an entry; what is
`Behind` that entry, and which directories have been `Met`, only ever grows.
`DirectoryInv`, `FoundInv` and `ErrorInv` say that only what is behind is
reported, and once, and `LossInv` that all of it is, as long as nothing has
stopped the walk, and that nobody leaves an undisturbed walk before the count is
zero. `PositionInv` keeps batches on strides, which `LateInv` needs. At the end,
nothing is pending, so nothing is under way, and what was met is closed under
the children of what was read: that is the set `Reached` of the tree.

`Reached` is a recursive function, and the prover has no induction over data.
The tree needs none. The equation that defines `Reached` has a solution, the
least set closed under it. By `TreeAssumption` every nonempty set of directories
has one that no other of the set lists, and the directories on which `Reached`
and the walk disagree, were there any, would be such a set; the proof refutes
the one it takes from it.

`IInv` was checked by TLC before it was proved: 1,490,000 states of the ordinary
worlds of the `walk` run, and 224,000 states of those with panics and refused
threads. Making it inductive turned up two assumptions that the model had made
in silence, and that are now stated and evaluated by every run: that a name
stands for one place, and that only roots carry errors.

`SerialWalkProofs` proves what `SerialWalk` itself states, for any finite tree
with links, any roots, any stride and budget, and any world: both frontends, all
policies, any failing calls, other walks that take and return permits, one
directory replaced, a token set at any time:

- `TypeCorrect` - types; in particular the permits of other walks and this one's
  never exceed the limit together;
- `BudgetKept` - no more permits than the limit, and one descriptor at most
  outside of it, through suspension, restoration and queued children;
- `OneTreeKept` - nothing below a listing that was read with a descriptor is read
  from a directory that took its place;
- `StopsInStride` - a stride of entries per listing after the token is set,
  however often the listing is suspended and resumed.

The argument is in `SerialWalkInv`. `ShapeInv` says that the stack is one
descent: a listing lies under deeper tasks only, and a directory to be opened is
a root or was pushed by the last step. That makes the listing a child belongs to
unique, which is what `LinkInv` (a child is opened below the descriptor its
parent's listing was read from; what is kept of a suspended listing is its
identity) and `LateInv` need, and leaves only the last task a place outside the
budget (`BudgetInv`). `DescentInv` says where the descent stands: the
chain of a task holds the directories its path goes through, each once, because
`enter` closes cycles or because links are not followed.

The names of a path come from `Level`, a recursive function as deep as the tree
has directories. That an entry of a listing under way is still a path of the
tree takes `TrailShort`, a pigeonhole: a descent through different directories
is no longer than their number. That the function has a value at all is
`LevelExists`, the least relation closed under its rule; where a proof would go
by induction over the depth, `LeastNatural` gives the least depth at which it
fails, from the well-founded order of the finite sets of numbers.

TLC checked this `IInv` on the whole instance of the `serial` run, 164,000
states, in slices. Making it inductive turned up what `WorldAssumption`
now says of descents, and that the set of directories is finite.

`SerialReportProofs` proves what a serial walk hands out, for every tree, every
order of roots and every world, under the same assumptions and one more: that a
name stands once in its listing and once among the roots (`NamesAssumption`):

- `DeliversAlways` - both frontends hand out items of the recursive descent only,
  in its order and none twice, under every policy and however the walk ends; one
  that ends undisturbed hands out all of them, or aborts with the first error as
  its last item;
- `LossesReported` - what is missing from a walk that ended by itself lies below a
  listing whose loss it reported, unless the policy skips errors.

Neither is inductive: they speak of what has been handed out and not of what is
still to come. The argument is in `SerialReportInv`. Every task `Owes` items: a
directory to open everything at or below its path but its own entry, a listing
what lies at or below the names it has not passed and its deferred errors, a
record its entry. `PlaceInv` says that tasks stand where the descent comes to.
`AgendaInv` says that what lies further up the stack is owed first in the order
`Before`, and `OutInv` that what was handed out comes before all that is owed; so
a step has to show only that it splits what the top task owed into what it hands out,
what the tasks it pushes owe and what the listing in hand owes, in this order
(`Splits`), and the rest of the stack follows (`AgendaStep`, `OutStep`). This is
where the frontends differ most, since the stream owes a directory before its
subtree and `collect` after it. `CompleteInv` says that an item owed by none has
been handed out, or that there is a reason why not: it lies below a lost listing,
comes after an error that aborts, or the walk was cancelled. `StopInv`
ties the ends of a walk to those reasons, `RootInv` keeps the roots of `collect`
in one place each while they are split between the two queues, and `InodeInv`
that nothing is lost unless a directory was replaced.

`Before` itself has to be shown an order that no two items satisfy both ways
(`BeforeOnce`): two paths part at one place (`Parted`), and there a listing names
each name once. That a prefix of a path is a directory whose listing has the next
name (`PathGrows`) is again an induction over the levels of the tree, done by the
least level at which it fails.

TLC checked the conjuncts of `RInv`, with `IInv`, on the worlds of the `serial` run
that are not computed from filters, in slices: 123,000
states. Making it inductive turned up that a `collect` that was stopped has
failed (in `StopInv`), without which the roots it has not begun would not be
accounted for.

Not proved, only model-checked:

- `WalkEnds`, `CancelEnds`, `Returns`, `CallsReturn`: liveness under fairness is
  out of the prover's reach.
- Everything about `Selection`, `GlobMatcher`, `Extglob`, `BraceExpansion`,
  `WalkerPath` and `IgnoreMatcher`: `SelectsAll`, `Correct`, `EnginesAgree`,
  `WorklistBounded`, `CachesTrue`, `ReadsInlined`, `ExpandsOrRefuses`,
  `RejectsSoundly`, `IgnoresAsGit`. They compare the code with references that are
  recursive over the text of a pattern; `GlobPattern`, which these modules extend,
  defines them with `RECURSIVE`, which takes the prover's arithmetic away from
  every module that reaches it, and what a recursive definition yields for every
  text would take an induction over data.
- `FrontendsAgree` and the properties of the other runs that expect a violation: they
  do not hold.

## Plan

In order of importance; done means modelled, checked and, where said, proved.

1. `TaskPool`, `Coordinator`, `CoordinatorInv`, `CoordinatorProofs`: done, proved
   but for liveness.
2. `ParallelWalk`, `ParallelWalkInv` and the proofs on it: done, proved but for
   liveness.
3. `ParallelStream`, `ParallelStreamInv`, `ParallelStreamProofs`: done, proved but
   for liveness.
4. `SerialWalk` with the retention of descriptors, `SerialWalkInv`,
   `SerialWalkProofs`, `SerialReport`, `SerialReportInv`, `SerialReportProofs`:
   done, proved.
5. `Selection`, `IgnoreRule`, `IgnoreMatcher`, `GlobPattern`, `GlobMatcher`,
   `Extglob`: done for the constructs named above, model-checked.
6. `BraceExpansion`, `WalkerPath`: done, model-checked. Next in the glob matcher:
   what a walker asks a pattern about a directory, with and without groups, named
   classes, and the index of `set.rs`.
7. Next around it: absolute patterns, the discovery of a repository and its
   configuration, batches of `getdents64`.
8. Proofs: `OffsetsTrue` of `BraceExpansion`, once what it uses of `GlobPattern`
   has a module of its own.

## Not modelled, and why

- System calls and the records they fill (`getdents64`, `getattrlistbulk`,
  `dirent`), the Windows spelling of paths, SIMD searches, and the macOS
  backend: byte layout, with the retention protocol already in `SerialWalk`.
- Named classes, `set.rs`, `absolute.rs`, the discovery of a repository and its configuration: within reach of the method, see the plan.
- `sort_order.rs`, `thread_budget.rs`, setters of `Walker`: a comparison, a
  minimum and records.
- The share of the mapped lines counts everything in the repository's
  Rust and JavaScript sources. About half of it is unit tests inside the source files,
  benchmarks, harnesses, differential oracles and generators, which are not part
  of the program; of the rest the backends of other platforms, byte parsing,
  setters and documentation comments are a third.
