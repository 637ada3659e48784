# Deep Diff Forge: TLA+ development

Deep Diff Forge (DDF) reviews diffs: it takes a patch or a Git comparison, parses, analyses and
ranks it, shows it in a terminal, to agents over MCP or from a local daemon, and runs review
councils whose reports and human decisions are kept on disk. This directory holds TLA+ modules of
those parts, the TLC configurations that check them, and TLAPS proofs about the daemon, the
bounded process, the decision journal, the export and the review council. `PROJECT.json` maps every definition to its lines, lists every part of the system
with its status and, under `hazards`, what each is exposed to.

Source paths below are relative to the repository root; `D` is `crates/deep-diff-forge-daemon/src`,
`R` is `crates/deep-diff-forge-review/src`, and another crate goes by its short name (`cli/main.rs`
is `crates/deep-diff-forge-cli/src/main.rs`).

## 1. The system

| Component | State | Operations | Hard behaviour | What makes it correct |
| --- | --- | --- | --- | --- |
| Admission gate, `D/admission.rs` | tickets, abandoned tickets, bytes in flight | `admit`, `Permit` drop | a condition variable shared by all waiters, deadlines, abandoned turns | exact counters, budget, FIFO, no lost wakeup, no endless wait |
| Server, `D/serve.rs` | running flag, slots, read budget, answers in progress, backlog | accept, read, answer, stop, signal, drain | a stop against late requests, the wake of a blocked poll | exact counts on every path, no answer cut off, a stop ends |
| Start and stop, `D/serve.rs`, `cli/main.rs` | socket file, start lock | `daemon start`, `daemon stop` | check-then-act on files, crash leftovers | one daemon listens and stays reachable, a stop outlives its daemon |
| Sessions and handlers, `D/handler.rs`, `D/deadline.rs` | entries, bytes, tick, next id, counters | open, snapshot, close, review, rank | eviction, wrap-around, a poisoned lock, requests at once | limits, LRU, counters that add up, bounded overrun |
| Views, `D/views.rs` | cursor of a client | outline, hunks, select | byte budgets, resuming | paging gives everything once |
| Doctor, `D/inspect.rs`, `cli/doctor.rs` | none | inspect a location | must agree with a start | a failed check is a failing start |
| Decision journal, `R/journal.rs` | `decisions.jsonl`, checkpoints, lock file | `council import-tuicr` | crash, full disk or power loss between append, sync and checkpoint; reads before the lock | one chain, checkpoints that hold, right attribution, no repetition |
| tuicr export, `R/tuicr.rs` | markers, ledger | `council export-tuicr` | a crash or a lost answer between marker, add and record | a note is filed once |
| Council runs, `R/execution.rs`, `storage.rs`, `policy.rs`, `cli.rs` | sealed run directory, job slots, reports | prepare, run, import, status | killed controllers, unlocked imports, an edited workspace | the status is never better than the evidence |
| Gates, `R/sandbox.rs`, `mutation_scope.rs` | none | refuse, copy, mount; regions to mutate | candidate files that would shadow the gate's own | the sealed bytes are measured, all of the change is |
| Patch parser, `patch/parser.rs`, `render.rs` | a line machine | feed, finish, render | counts at their limits, headers of one section leaking into the next | nothing lost or made up, rendering says the same |
| Git acquisition, `patch/git_acquire.rs`, `git_raw.rs` | a repository others edit | capture, pair records with blocks | several calls over a moving tree | what is captured is the comparison that was named |
| Bounded process, `core/process.rs` | child, pipes, threads | `run_bounded` | a timeout against an exit, pipes held by helpers | whole output or a stated limit, the caller returns |
| Learning, `learning/*.rs` | receipts file | append, load, score, plan, promote | appends without a lock, sums at their limits | receipts kept, evidence counts its own way |
| Scheduler, `cluster/scheduler.rs` | none | chunk, run lanes, join | a panicking lane | all files, in order, or an abort |
| Graph, `graph/*.rs` | none | scan, rules, score, rank | scanning from the middle of a file | evidence and files are not hidden |
| Review service, `pipeline/review.rs`, `syntax/structural.rs` | none | match sources, diff tokens, enrich | tokens over several lines, budgets | full coverage is claimed only when it is so |
| Agent findings, `agent/findings.rs` | none | verify | old and new numbering, duplicate hunks | a note points where it says |
| MCP server, `cli/mcp.rs` | handshake, partial line | one message per line | chunks, over-long lines, two protocol eras | one answer per line |
| Command line, `cli/*.rs` | none | admit words, run stages, exit | failures between stages, closed pipes | options are read, exit codes are true |
| Terminal UI, `tui/*.rs` | selection, tree, overlays, terminal mode | events, frames | bursts applied behind the last frame | a click means what was seen, the window is a slice |

Interaction: a connection thread (`Serve`) reads a line under the read budget, counts itself as
answering, checks the running flag and calls the handler (`Handlers`), which waits at the gate
(`Admission`), uses the session table (`Sessions`) and answers with pages (`Views`). A stop clears
the flag and wakes the accept loop, which removes the socket, closes the listener, drains, and
releases the start lock by exiting (`Startup`). `Serve` treats a handler call as one phase;
`Admission` says that its wait ends. `Startup` treats serving as one phase and takes from `Serve`
(`StopEnds`) that a daemon asked to stop leaves its loop. A review reaches the daemon, the MCP
server and the command line from the parser, directly or through Git acquisition, whose calls are
bounded processes. An export files a council run's notes in a tuicr session from which an import
journals what a human made of them.

## 2. Modules

| Module | Contents |
| --- | --- |
| `Weights` | the sum of weights over a set, as a cardinality, so that it can be proved about |
| `AdmissionContract`, `Admission` | a first-come-first-served line in front of a budget; the ticket gate as written |
| `Serve` | accept loop, connection threads, signal watcher, drain |
| `Startup` | processes at one socket path, one system call per step |
| `SessionContract`, `Sessions` | an LRU cache with two limits; the table with its counters |
| `Handlers` (extends `Sessions`) | the stages of every method, deadlines, counters |
| `Views` | selection, budgets, cursors, the fitting loop |
| `Inspect` | a location as a start, a client and the doctor see it |
| `Journal`, `TuicrExport` | imports with their failures; exports with theirs |
| `CouncilPrepare`, `Council` | the sealing of a run; a sealed run being worked on and assessed |
| `GateInputs` | what a gate's container gets; the regions of a changed file that are mutated |
| `PatchParser`, `PatchReview` | the line machine and the renderer; feeding them, and what must hold |
| `GitAcquire` | the series of Git calls; raw records and their blocks |
| `BoundedProcess`, `Receipts`, `Scheduler` | run_bounded; the receipt store; lanes |
| `CodeEvidence`, `Ranking`, `Learning`, `Findings` | scan of a hunk; rules, score and order; the learning loop; verified findings |
| `ReviewService` | token diff; the review with its coverage |
| `Mcp`, `ExitCodes`, `Cli`, `Textfile` | the MCP server; the command line with its envelope; its metrics file |
| `Cockpit`, `DiffView` | event loop and terminal; the window of the diff |
| `MC*` | values of the constants for TLC; they put modules side by side, one of which moves in a behaviour (its "scene") |
| `*Proofs` | lemmas and theorems; see Proofs |

Definitions whose comment begins "A fault of ..." are variants of the definition they name, as a
plausible slip in the code would have it; `PROJECT.json` says which property notices each. They
occur in no specification.

### The daemon

`Admission`: the fields of `Queue` and, per request thread, its place, ticket, weight and whether
its deadline has passed. `Enter` and `Recheck` are one critical section each; unlocking and
`notify_all` are separate steps, because other threads run between them. `SpuriousWakeup`,
`TimedOut` and `Expire` are what a condition variable and a clock may do. Tickets are bounded by
`MaxTickets` instead of wrapping at 2^64. `Asked` and `Ahead` map the state to the contract's.

`Serve`: `loop` walks through the accept loop, `conn[c]` through `handle_connection`. A line is its
size (up to `LineCap + 1`, one over the limit) and arrives in chunks. `Move` is the one place where
a connection's place, its reservation and the answering count change together, as the guards' drops
do. A thread's last step gives back its slot and, if the daemon is stopping, wakes the loop.

`Startup`: processes share the socket path, named by the process that bound it, and the start lock.
Every stat, connect, unlink, bind, flock and close is a step, so every check-then-act window is
open; that of `cleanup_owned_socket` is open twice, on the serving thread (`StatOwned`,
`RemoveOwned`) and on the signal watcher beside it (`ForceStat`, `ForcedExit`), which ends the
process. `Killed` releases what a process holds and leaves its files; `OutsiderRemoves` takes the
socket away once. Nobody outside binds at the path, and device and inode identify a socket for good.

`Sessions`: one record, as the mutex hides intermediate states, except that `OpenPanics` stops
between two updates and poisons it. `MaxTick` and `MaxId` stand for `u64::MAX`, so that rebasing and
wrapping happen. `Handlers` runs the methods' scripts over it: a deadline may pass at any time, a
stage is one step, and `past` counts the stages begun after it. `Views` keeps a client's pages so
far; a rendered item is its size.

### The council

`Journal`: an import reads the session, then the ledger, then takes the lock; it verifies, plans,
checks the length, writes, syncs and writes a checkpoint, each a step. `Plan` is the three planners
as functions of the journal, what was seen and the ledger. A hash is what it digests: an event
supersedes a position, a checkpoint is a prefix of the journal. `WriteFails`, `CheckpointFails`,
`Dies` and `PowerLoss` leave whole lines, an incomplete line or an incomplete checkpoint.
`RefusePlan` covers the checks whose inputs are abstract. Of an export `Journal` has what an import
can see: the markers, the comments and the records. A marker goes (`ExportFails`, `ExportGivesUp`)
when the session lacks the note as it was filed, because tuicr failed or because an operator was
told to look; a note that had landed and that a human has rewritten is then `abandoned`, with
neither marker nor record, and the next export files another one. `TuicrExport` has the export
itself, whose `tuicr review add` outlives it. In both nobody writes a note that was given up back
word for word: a later export, which knows its notes by their text, would adopt it.

`Council`: a run directory as write-once slots, reports and the lock; each file is a step, and one a
killed controller was writing is torn. Beside it the model keeps what really happened (`worked`,
`shown`, `imported`), and `ReadyIsEarned` compares the status with that. At the start all but a few
of the jobs have passed, so that short behaviours reach a status. `CouncilPrepare` reads a tree file
by file while it is edited, there and back again.

### Patches

A line is a token of its kind with what the kind carries; a path is its components. `PatchParser`
has the parser's state as one record and a function per method; `PatchReview` feeds it and compares
what it accepts with what the fed lines say, stated without the parser (`Segment`, `SectionOf`).
`GitAcquire` runs its calls over a repository that is edited, staged and committed to between any
two of them, and pairs raw records with blocks.

### Pure parts

`CodeEvidence`, `Ranking`, `Learning`, `Findings`, `ReviewService`, `GateInputs`,
the chunks of `Scheduler`, `DiffView` and the words of `Cli` are functions of their input, checked
over every small input: a state is an input, or one that grows line by line, and the properties
compare the result with a definition that does not use the code's algorithm. Rates of `Learning`
are compared by cross-multiplication where the code divides in `f64`. The lanes of `Scheduler` end in
any order, one may panic, and they are joined in the order of their chunks.

### Front ends

`Mcp` reads chunks of any size; a line is its length and what the server tells apart in it. `Cli`
has a command as its sequence of stages with the codes each may leave with (the drain of a `daemon
start` also with 128 + N on a second signal N, which is no code of the registry), and for the
envelope a child, two pipes and two readers; `Textfile` runs that overlap, are killed, and whose pid comes again.
`Cockpit` applies bursts of events behind the last frame; the terminal may be resized, and any
terminal call may fail.

## 3. Runs

| Run | Shows | Bounds |
| --- | --- | --- |
| `admission` | `GateSound` (counters, budget, owned turn, no lost wakeup), refinement of the contract, no request waits for ever | 3 requests, weights below, at and over the budget, 5 tickets: two can give up and re-enter |
| `serve` | accounts exact, a drained stop cuts nothing off, stops end and the backlog moves | 3 clients for 2 data slots and 1 control slot, lines of up to 1 + 1, so that two exceed the read budget |
| `startup` | the path and a stop's answer tell the truth, a stop returns | 3 starts, 2 stops, the lock file exists |
| `requests` | one stage of overrun, sessions and counters add up, LRU refinement, paging | 3 sessions, wraps at 4 ids and 5 ticks; 2 requests at once, 4 served; two patches with items over every budget, budgets 3 to 9 that change from page to page |
| `journal` | chain and checkpoints, attribution, idempotence, a note filed once | 2 imports beside 1 export, 1 note, 1 human comment and 2 changes (only a note's text is edited), or 1 file and 3 changes (on, off, on), cap 3; 2 exports of 2 notes |
| `council` | a ready status is earned, what is sealed belongs together, the scope leaves nothing out, gates see the sealed bytes | 2 controllers, 2 reviewers, 2 starts, any 2 open jobs of 8 or 3 of one kind, 1 edit; 2 files with 2 edits; files of up to 3 lines; 7 paths |
| `patch` | hunks, paths and statuses are the input's, rendering says the same; what is acquired is what was compared | inputs of up to 8 lines over six themes; 2 paths, 1 edit at any point |
| `tools` | whole output or a limit, the caller returns, receipts kept, lanes total, evidence, ranking, learning, findings, spans | a pipe of 2 and a limit of 2 for up to 4 units; 4 appends; 5 files; hunks of 4 lines; 4 receipts; 3 findings; small sources |
| `frontends` | one answer per line, options count, exit codes tell the outcome, whole metrics file, clicks, windows, the envelope ends with all | all triples of 11 protocol lines in chunks of up to 3, 5 words, 4 options, 3 writers with 2 pids, 3 tree files in 2 directories with bursts of 3, blocks of up to 5 lines |

Three runs end in a counterexample; see Findings.

Three processes suffice for the gate and the slots because an error needs one holder, one waiter
and one that gives up between them; two imports, exports or controllers because a lock knows only
held and free; three starts because a stale socket needs one that died and two that race for it.
Input bounds are chosen so that every branch of the function is taken and every budget exceeded.
Symmetry is used in `journal` and `council`, whose properties are all invariants, and over the
requests in `requests`, whose refinement is a step property that names no request. Every model stops where
the program does (tickets used up, daemon exited, input at its end, process returned) or at a bound
on the environment, so no run checks deadlock; that processes which must go on do is stated by the
liveness properties `NoRequestWaitsForever`, `ServerMovesOn`, `StopReturns`, `CallerReturns` and
`EnvelopeEndsWithAll`.

### Fairness

`Admission`: threads that can run do; and either admitted requests finish or time passes. The
disjunction in `FairSpec` makes each mechanism, wakeups and deadlines, suffice by itself.
`Serve`: the loop, the watcher and the threads run, and every read of a line meets its end or its
deadline (`READ_TIMEOUT` on every read); clients, failures and signals are not fair. `Startup`:
processes run, and a daemon that was asked to stop leaves its loop, which `ServerMovesOn` shows.
`BoundedProcess`: the caller, its reader and writer threads and the clock run; the child and its
helper need not do anything, and `CallerReturns` is stated for a helper that does not hold the
pipes. The envelope of `Cli`: the two readers run, and the child writes on while its pipe has room and exits
once all is written. All of it is weak fairness of single threads, which the operating system's
scheduler gives.

## 4. Findings

Each is a place where the code and a sentence about it disagree. The first three have a run of
their own and are quoted in `PROJECT.json`.

| Run | Disagreement |
| --- | --- |
| `process_deadline` | a child that exits in time and leaves a helper holding its pipes keeps the caller in `join` past the deadline |
| `journal_tombstone` | session and ledger are read at different times: a note nobody removed gets a tombstone |
| `doctor_default_dir` | at the default location the doctor fails a directory that a start would make private and use |

The following were met on the way. The first three can be repeated by adding the formula to the
run's configuration.

- `LoopEndCutsNothingOff` in `Serve` (with `serve.cfg`): a fatal accept error (`D/serve.rs:1316`)
  does not stop the engine, so a request whose first byte comes after the drain found the daemon
  idle is worked on and cut off. `D/serve.rs:1289` says that such an error "ends the loop like a
  shutdown, so the socket is still removed and the answers in progress still drain".
- `StopMeansExited` in `Startup` with `LockExists = FALSE`: a stop that looks for the lock file
  before the very first start has made it (`D/serve.rs:193`) does not wait for that daemon's exit.
  `cli/main.rs:620` says "`stop` returns once the daemon has exited".
- `StartAfterStopFindsLockFree` in `Startup`: with two stops at once the shared lock of the one
  refuses a start after the other returned true (`D/serve.rs:204`). `D/serve.rs:197` says that
  such a start "finds the lock free".
- `Respond` of `Serve` gives the read bytes back before the answer is written, while
  `D/admission.rs:295` says "after the answer is written".
- A note whose `add` landed but failed, and which a human rewrites before the export reads the
  session again, loses its marker (`R/tuicr.rs:954`, `ExportGivesUp` of `Journal`); an operator who
  clears the marker of an interrupted export does the same. An import then takes it for a human's
  and journals it as added, with the author tuicr shows (`R/journal.rs:874`), while
  `docs/REVIEW_COUNCIL.md` says that `comment_added` is "a comment not written by this run's
  export". `AddedByHumans` states what is left: only notes that were given up, and no note is given
  up that no human has touched.
- `WriteFails` and `CheckpointFails` of `Journal` are error exits after an append, while
  `docs/REVIEW_COUNCIL.md:207` says "Exit 4 is a refusal, and nothing is appended."
- A council note that was removed and comes back changed is journaled as `restored`, not as a
  conflict (`R/journal.rs`, `plan_comments`). When a write is cut between a `revised` event and the
  lifecycle event after it, the transition's own event is never journaled: replay takes the new
  state from the `revised` event.
- `cluster/scheduler.rs:55-58` says that a panicking lane loses its chunk, detectable "as a short
  output"; the code resumes the panic instead (`JoinChunk` of `Scheduler`).
- `D/deadline.rs:8-9` lists a check per line of a findings file; `findings_verify` has none.
- A write failure of a council command exits 3, which is a code of the engine family only; `learn
  record` may exit 3 after its receipt was stored.
- `tui/run.rs:116`: in a burst, Esc closing a popup followed by a click where it was selects the
  file of the tree behind it, which the reviewer did not see. `ClickIsAsSeen` judges a click by the
  tree's rows of the last frame and allows it.
- `patch_matches` (`pipeline/review.rs`) compares joined text: a "\ No newline" mark on an added
  line that further old lines follow is accepted against a source with the two lines joined. The
  hunks of `ReviewService` end their side at a mark, as the parser's do.

## 5. Proofs

Every theorem holds for every value of the constants that satisfies the named assumptions of the
module it is about. Those marked with a run's property state for all instances what the run checks
on one.

| Module | Theorem | States |
| --- | --- | --- |
| `AdmissionProofs` | `GateAlwaysSound` | `GateSound`; its parts are theorems of their own (`TypeCorrect`, `TurnAlwaysOwned`, `CountersAlwaysExact`, `BudgetAlwaysRespected`, `WakeupAlwaysComing`) |
| | `GateKeepsContract` | the gate implements `AdmissionContract` |
| `ServeProofs` | `AccountsAlwaysExact` | `AccountsExact` |
| | `StopNeverCutsOff` | `StopCutsNothingOff` |
| | `PagesAlwaysCoverOnce` | `PagesCoverOnce` of `Views` |
| `ProcessProofs` | `OneDaemonAlwaysListens`, `SocketIsItsDaemons` | `OneDaemonListens`; `NotOrphaned` and `NoSocketLeft` |
| | `PathAlwaysTellsTruth` | `PathTellsTruth`, where the lock file exists |
| | `FileAlwaysWhole` | `FileIsWhole` of `Textfile` |
| | `EnvelopeAlwaysTells` | the safety half of `EnvelopeEndsWithAll` (`Cli`): a document that is there says what the child wrote and how it ended |
| | `EveryLineAlwaysAnswered` | `OneAnswerPerLine` of `Mcp` |
| | `EveryOptionAlwaysCounts`, `ExitAlwaysTellsOutcome` | `EveryOptionCounts` and `ExitTellsOutcome` of `Cli` |
| | `TerminalAlwaysGivenBack` | that the application of `Cockpit` means a file and a command that are there, and `TerminalGivenBack` |
| | `ClicksAlwaysMeanWhatWasSeen` | `ClickMeansWhatWasSeen` of `Cockpit` |
| `SessionsProofs` | `SessionsAlwaysAddUp` | `SessionsAddUp` |
| | `OverrunsAlwaysBounded` | `OverrunsOneStage` |
| | `TableKeepsLru`, `HandlersKeepLru` | the table, and the handlers' use of it, implement `SessionContract` |
| `ToolProofs` | `FinishedAlwaysWhole` | `FinishedIsWhole` of `BoundedProcess` |
| | `LaneAlwaysTotal` | `LaneIsTotal` of `Scheduler` |
| | `ReceiptsAlwaysKept` | `ReceiptsKept` of `Receipts` |
| | `NotesAlwaysPointTrue` | `NotesPointTrue` of `Findings` |
| | `CodeAlwaysFound` | `CodeIsFound` of `CodeEvidence` |
| `JournalProofs` | `ChainAlwaysLinear`, `AlwaysAttributedRight`, `AlwaysIdempotent` | `ChainLinear`, `AttributedRight`, `Idempotent` |
| | `AlwaysFiledOnce` | `FiledOnce` of `TuicrExport` |
| `CouncilProofs` | `CouncilTypeCorrect` | `CouncilTypeOK`, the types of run directory, controllers and reader |
| | `ReadyOnlyWhenEarned` | `ReadyIsEarned` of `Council` |
| | `SealsWhatItShows` | `SealedTogether` of `CouncilPrepare` |
| | `GatesAlwaysSeeSealedBytes` | `GatesSeeTheSealedBytes` of `GateInputs`, a theorem about every input of a gate |

`WeightsProofs` holds the facts about sums, ranges and cardinalities that the others cite, induction
over the naturals stated with sets instead of operators, and from it what the recursive functions
compute: that one defined on `0 .. n` exists and is stepwise (`Recursion`), and what the community
module's `FoldLeft` and `FlattenSeq` return (`FoldSteps`, `Flattened`, `FlattenedAppend`), and where in the joined sequence an element stands
(`JoinedInPlace`, `JoinedCount`).
`ProcessProofs` is about what a process reads and answers (a command line, the lines of the MCP
server) and leaves behind when it ends (a socket, a file, a document, a terminal), `ToolProofs` about
a child process, lanes, the learning store, findings and the readings of a hunk's lines.

### Assumptions

Processes, requests, notes and files are finite sets (`RequestsFinite`, `ClientsFinite`,
`IdsFinite`); limits, weights and sizes are naturals; ids of different kinds differ
(`DistinctIds`, `DistinctProcesses`). `PageBounds`: the least budget a page is asked under is above the envelope's
bytes, as `views.rs` says. `ReviewsAreFiles`: what is rendered has a size, and a hunk has a line, since the
parser refuses one without a change. `AttemptsPos` and `MaxSessionsPos` are the code's own positive
constants. `MaxIdEnough` and `MaxTickEnough` say that there are more ids and ticks than sessions,
which `u64` and a limit of sessions give. `RunsAreNew` says that the content a run writes is not one
that was at the destination before. `CouncilAssumption` says that the fuzz targets are a finite set
that is not empty, which `policy.rs` requires of a request, and that a report has the form of one;
`PrepareAssumption` that the inventory names each path once and has the candidate. `LaneBounds`: there
is a processor. `StoreLimits`: there is an appender. `EnvelopeValues`: caps and
outputs are naturals, and a child alive, ended by a signal or ended by itself tells apart.
`SentValues`: the MCP server's input has lines and sizes that are naturals; `NoVersion`:
"no protocol version" is not a version.
`TreesAreEntries`: a tree is a set of entries as the walk classifies them. `PaletteNotEmpty`: the
palette has a command; `HeightsAreNumbers`: the heights of a terminal are naturals. `FindingValues`: sections and hunks are numbered from one, and a finding names
at most one path; `ReadingsCapped`: the cap on readings is a natural. `PathAlwaysTellsTruth` has the premise `LockExists`; without it
the last part is false, as Findings says.

### Arguments

**Admission.** `TurnIsOwned` is not inductive: giving up skips over abandoned tickets, and what
follows them must be known. `LineInv` says that the tickets from `serving` to `next` are exactly the
abandoned ones and those of the requests in line, each held once, and that the serving one is not
abandoned. `AdvanceStops` shows that skipping ends at the first ticket of that range that is not
abandoned, or at `next`; from it `TypeAndLine` follows action by action. `CountersExact` rests on
`HoldersGrow`, `HoldersShrink` and `HoldersSame`: a step adds one holder, removes one or changes no
weight of one; the saturating subtractions of `Permit::drop` never saturate because of it. For the
refinement, `WeightsKnown` adds that a request in line or running keeps the weight it asked for.

**Serve.** The counters are a cardinality or a sum over connections, and every step moves one
connection: the lemmas about `Move` say what that does to each count, so that each action needs only
the old and new place. `BacklogInv` and `RolesInv` say that a connection is queued or served, once, and
has a slot exactly while it has a thread. `StopCutsNothingOff` needs `StopInv`: a loop that ended
without an error cleared the flag first, so a drain that found the answering count at zero leaves
no data request being worked on, and none can pass the check of the flag any more.

**Pages.** A view is items, each with a head and parts, and a place in it is an item and a part. What
comes before a place is one sequence (`Reached`), and that before the end another (`Ahead`): both hold
each part once, in order (`ReachedCovers`, `AheadCovers`), because the items are the selected hunks or
the files once each (`SelectFacts`, `RiskOrder`, `ItemsFacts`). `TurnFacts` says that a turn of the loop
takes what was given before to a place or past an item, and keeps the page in its budget or to a
single part; `FilledFacts` follows the loop and `EmittedBudget` the lowering of the budget. So the
invariant (`Reading`) is that a client has what comes before its cursor, and `resume` that the next
page begins there. The model's sort is by rank: `RiskOrder` shows that each rank is taken once.

**Startup.** `LockInv` says that the start lock is held by the one start between taking it and its
end, and by no stop then; so what one start does to the socket it does before or after another.
`GoneInv` adds that a daemon past its cleanup has no socket at the path, `WatcherInv` that a daemon
or its watcher about to unlink finds its own socket or none, as it still holds the lock, and
`AskedInv` that the daemon a stop asked held the lock, and has ended once the stop's helper got it.

**Sessions.** A table is sound (`TableOK`) when its byte counter is the sum of its entries, their
ticks differ and are below the next one, and it is within its limits. `MakeRoomOK` shows that the
eviction loop ends, with the least number of evictions that makes room. `OldestAreLru` ties the
loop, which takes the entry with the least tick each time, to the contract's set of the least
recently used: a downward-closed set of k entries is `Lru(t, k)`. `NextTickOK` shows that rebasing
ticks at the limit keeps their order and hence the contract's. `FreeAtOK` is a pigeonhole: with more
ids than sessions the search for a free id finds one. A panic leaves a table that is not sound, and
a poisoned one that nobody reads: the invariant is "poisoned or sound". For the handlers, a request
past its deadline has either begun no stage or one and is at a check (`ReqOK`); `ScriptShape` says
that in every method's script a check follows the work.

**Child process and metrics file.** `ProcInv` says that what a thread which is done has seen stays so:
past the cap the pipe is not read again, and once nobody holds the pipe nobody will. In `Textfile` a
name belongs to the run that created it exclusively, so a rename moves only what its own run wrote.

**Lanes.** With `n = k * q + r` the chunks are `q + 1` long `r` times and then `q`, so each begins
where the one before it ends and the last ends at `n`: the arithmetic is a few lemmas over `Divided`.
The invariant is that the results joined so far are those of the first files, up to the end of the last
joined chunk, none of which had the panic.

**Receipts.** Appends are not locked, so an invariant about the bytes of one append must say where the
others may stand. Every piece of a text is there once, and belongs to an append that is done
(`PiecesWritten`); the text of an append that succeeded stays where it was placed
(`KeptPlaced`); and while an append has been the only one in flight since it looked at the end of the
store, what it saw is still so, and the newline it puts first or leaves out is right
(`AloneInFlight`). `SizeBudget` bounds the store by what is written and what may still be.

**Findings.** `check` accepts a finding at a hunk only if that hunk holds its line (`ResolvedIsThere`,
`CheckedPoints`), and the note is placed by path and address alone. It is right because an address
holds the body of its hunk: the first hunk of the path with that address has the same lines
(`NotesPoint`), although it need not be the hunk the finding was checked against. Indices up to the
limit are dealt once each, to an accepted or to a refused finding (`VerdictCounts`).

**Envelope.** What the child wrote is what was read and what is in the pipe; a reader that is done
found the pipe empty with its writer gone, passed its cap or failed; and the document is made of what
the readers gave when all are done.

**Terminal.** The guard is armed from the first change of the terminal until it has given it back, and
no session that is on its way to success passes through the guard's drop (`TerminalInv`). That the
application means something (`Points`) is kept by each handler.

**Clicks.** The tree is drawn by joining the groups of files, each below its header, and a click is
looked up by counting. `GroupsInPlace` shows that the two agree: the headers and files above a group
number as many as `RowOf` counts, so the tree has each file at its row, and a row has one file. The
invariant (`SeenInv`) says that the last frame is the window of that tree its hit map tells, although
the application has moved on since: nothing an event does changes what was drawn or where.

**MCP server.** A reply depends on the version of the protocol agreed on before its line, and a line
is read in several pieces. `ReaderInv` says what is held of the line being read and that what is
buffered is of the input; `RepliesInv` that the replies are those of the lines consumed that are owed
one, in order, each as it is given by some version that can have been agreed on before that line.

**Command line.** The parser is a fold over the words: `ReadTo` says what it holds after the first k
of them (what it wants next, the values and flags taken so far, and the words that are left over),
and `AdmitReads` that each word keeps it. From the state after the last word, `OptionsAre` gives each
option one value, and `AtMostOne` that a line naming two modes is refused. How a command ends follows
from the order of its stages: `WellOrdered` says that nothing refuses the input after something
lasting was done, and that nothing fails after something was written but once everything was. Checks
put before such a sequence leave it so (`OrderedThen`), so each script is its ending and what comes
before. `CommandInv` adds that what was written or kept was so by a stage already passed.

**Gates.** `GatesSeeTheSealedBytes` is about one input, so there is no induction: a snapshot that is
not refused has no path a mount or a missing file could cover, whatever the inventory.

**Journal.** The import's planner goes over its agenda (the items of session and ledger in order) and
each item's events depend on the events so far. `Idempotent` needs what a whole plan leaves, which is
an induction over the agenda. It is done as a least counterexample: the first item whose events would
not be empty on a second pass. Each item's events settle that item (its own replay is then its
state), and the events of other items do not touch it. `ChainLinear` rests on the lock: an import
between its read and its append holds it, so what it read is what it extends; a cut line is a prefix
of the plan. `AttributedRight` rests on the order of the export's writes: what an import saw of a
note (`NotesFiled`, `NotesKnown`) is marked, recorded or given up by the time the ledger is read, a
marker is refused, and a note given up stays so (`SoundLater`). `FiledOnce` follows the markers (`ExportInv`): a note without one is neither in the session nor
on its way there, and the exporter that made one answers for its note alone and takes it back only
after seeing that tuicr ended and the comment is not there.

**Council.** `ReadyIsEarned` is about many files read at three moments, and its proof uses that they
are written once (`WriteOnce`): a step of anyone changes a receipt, a marker or a qualification only
from "none", and a report only from none. So what `status` read stays as it was read (`StaysTrue`),
and a fact established when a file was written holds when it is read. That is independent of the
lock, which an operator may remove under a controller that only seems dead: two controllers then meet
at the job directory, which one of them creates. `SlotsInv` says what a slot's files prove: a receipt
that counts as passed was written after the process ended well on the fresh tree and, where a
qualification is needed, after the work was done; an aggregate that passed had every target pass.
`ControllerInv` carries the same between two files of one controller, `ReaderInv` between the
status' three reads. A challenge was shown exactly the reports its reviewer is judged by because it
starts when all independent reports are there, and none of them changes again. An imported report
leaves its job without a receipt, so it never makes a run ready.

**Readings.** `Carried` says of each side of a hunk that the readings kept begin with the plain one
and that the right one is among them until one was dropped. `AllAreRead` and `CarriedOn` follow it
through `code_view` and `from_readings`: every reading is read on as if it carried no string and, if
it carries one, as resuming it, repeats are taken out without losing a reading, and the cap takes from
the end. What one line scans to stays opaque to the proof.

**Preparation.** `SealedTogether` follows the candidate through two fingerprints of the tree, with the
text in between (`CandidateInv`): an edit after the text was taken is seen by the second fingerprint
unless it is taken back, and an edit before it by the text unless it was before the first one. So a
text that is not the sealed one took two edits of the candidate.

### Only model-checked

All liveness properties (`NoRequestWaitsForever`, `ServerMovesOn`, `StopReturns`, `CallerReturns`,
`EnvelopeEndsWithAll`): fairness and ENABLED are beyond the installed provers. `RankingHidesNothing`
and `EvidenceCountsItsWay` are about what ranking and learning compute, of two inputs.
`HunksAreTheirSegments`, `RenderingSaysTheSame`, `PathsFromTheirSections`,
`SpansTellAll`, `ScopeLeavesNothingOut` and `WindowIsSlice` say what parsers, sorts and
filters return for every input: the prover cannot expand `SelectSeq`, which is built in, and a sort
is a CHOOSE over permutations. `CapturedIsCompared` needs what the patch parser computes.

## 6. Plan

To model next: the clustering of files, the evidence bundle of the agent store, the dry run of an
import.

## 7. Not modelled

Text and its layout (highlighting, painting, projection to text, exposition, JSON forms), decoding
of bytes and quoted names, hashing, the metrics and log of the daemon, benchmarks, SDKs and the test
kit, and the external programs (Git, tuicr, tree-sitter, the container program, model providers)
beyond what the code makes of their answers. In the modelled parts: prompts and argument lists;
links between comments and findings in the journal; weights computed from requests; poisoned
mutexes of the gate (its code recovers the guard and goes on); wrap-around of tickets.
