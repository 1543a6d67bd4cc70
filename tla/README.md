# LogLens in TLA+

Modules, model-checking configurations and proofs about LogLens, the log
analysis program of this repository. All paths below start at `src/`; those of
Python modules start at `src/src/loglens/`.

- [The system](#the-system): components, their state, what makes them hard
- [The modules](#the-modules): how state and actions correspond to the code
- [The runs](#the-runs): what each shows, its bounds, the fairness it assumes
- [The proofs](#the-proofs): theorems, assumptions and the inductive invariants
- [Where code and documentation disagree](#where-code-and-documentation-disagree)
- [What is not modelled](#what-is-not-modelled) and [the plan](#the-plan)

To repeat a check, for instance of the pool: `tlc -config WorkerPool.cfg
WorkerPool`. To repeat a proof: `tlapm WorkerPoolProofs.tla`.

## The system

LogLens reads log files or streams, parses them into entries, vectorizes the
entries, detects anomalies against the file itself or a learned baseline, and
reports them. Around that numerical core are the parts that keep state, run
concurrently, or retry; most of the models are about these. The rules of the
core itself (what is scored, grouped, shown) are modelled as operators.

| Component | Code | State it keeps | Operations | Hard because |
|---|---|---|---|---|
| Process pool | `infrastructure/workerpool.py` | results, attempts, the `isolate` flag, the pending list of a round | `run_pool`, `_run_batch` | workers die at any time, and take the futures of other tasks with them; retries; a fallback that shares the caller's process |
| Ingest queue | `application/pipeline.py` | a deque, `_closed`, a sample counter, drop counts, two condition variables | `put`, `get`, `close` | several producers and consumers, time-outs, four overflow policies |
| Degradation ladder | `application/pipeline.py` | mode and two dwell counters | `observe` | hysteresis, off-by-one |
| Warm daemon | `application/daemon.py`, `interface/daemon_server.py`, `interface/cli.py` | state file, socket path and cooldown file, none locked; the accept loop | forward a command, start, stop, serve | several CLI processes and daemons, time-outs, SIGPIPE, versions |
| Live detector | `application/live.py` | a rolling window, `_seq`, `_reported`, `_since`, `_hits` | `feed`, `feed_entry`, `flush` | every entry is judged many times and may be reported once |
| Stream parser | `detection/parser.py` | one unfinished entry | `feed`, `flush` | the last entry waits for the next one |
| Alerting | `infrastructure/alerts.py`, `interface/monitor.py` | last alert of each problem, stamps of the last hour, counters; a bounded queue and its thread | `dispatch`, `_enqueue`, `_drain`, crash hooks, `stop` | limits reserved under a lock, alerts sent outside it; shutdown against running threads |
| Logging handler | `interface/handler.py` | a detector and a lock | `emit`, `flush`, `close` | called by any thread; the callback runs outside the lock |
| Learned baselines | `application/baseline_store.py`, `autotrain.py` | JSON files, a training buffer, a model file | load, update, save, refit | concurrent read-modify-write through one temporary name; files written in place; crashes |
| Slice analysis | `application/parallel_scan.py`, `detection/turbo.py` | byte ranges and partial counts | split, scan, merge | each line in exactly one slice; a format and verdicts for each slice by itself; a pool that fails half-way |
| Multi-source analysis | `application/multisource.py`, `scheduler.py`, `sources.py`, `loadstats.py` | groups of sources, credits of a deficit scheduler | assign, select, correlate | fairness and bounds of the scheduler |
| Incidents, calibration | `detection/incidents.py`, `calibration.py`, `grouping.py` | none between calls | group, assess, calibrate | spans that touch, ties, families without times |
| Results, scaling | `application/results_store.py`, `autoscale.py` | saved results | query, choose workers | time windows, small machines |
| Command source | `detection/ingestion/*.py` | child process, a reader task per pipe, a queue | iterate, terminate | end of file of either pipe in any order, over-long lines, exit status, a consumer that stops |
| Async entry pool | `detection/worker.py` | a bounded asyncio queue | producer, workers | sentinels, failure of the producer |
| LLM client | `infrastructure/llm/*.py` | none between calls | resolve, cut the context, a request with retries, parse | each attempt answered, retried or failed |
| Detection pipeline | `detection/*.py`, `domain/*.py` | none between calls, but a score cache | score, detect, fuse, floor, group | many rules that lift or quiet the same line |
| Programming interface | `api.py`, `application/api.py` | none | glue | - |
| Command line | `interface/cli.py` | none of its own; files it writes | `main`, `analyze` and a dozen other commands | three pipelines for one command, failures and Ctrl-C at every step, exit codes |
| Benchmarks, reports | `detection/benchmark.py`, `application/suite_bench.py`, `routineness_bench.py`, ... | downloaded archives and reports | fetch, run, compare, gate | partial failures, temporary files |

How they interact. `main` forwards a command to the warm daemon or runs it
itself. A run over a large file or over several sources goes through the
process pool, each task a slice or a source. `watch`, `monitor()` and the
logging handler feed the live detector, directly or through the stream parser;
the handler's callback puts anomalies into the monitor's queue, whose thread
dispatches them, and the crash hooks dispatch from the crashing thread at the
same time. The ingest queue and the ladder are the back-pressure pieces for
streaming; nothing in the repository but its tests connects them to a source
yet. `analyze` takes one of three pipelines: the exact one loads the baseline,
detects, learns and may refit the model; the turbo and the parallel one scan
slices. `watch` reads a child process through the command source and feeds its
lines to the live detector. `analyze` and `ask` may call a language model.

What makes each modelled component correct:

- *Process pool.* Every task gets one truthful result; only a task that can
  kill its process is blamed for a crash; executions are bounded; the call ends.
- *Ingest queue.* Order, one fate for every line, no protected line shed,
  losses counted; no thread sleeps while there is something for it to do;
  `close` releases everyone.
- *Ladder.* It moves if and only if load has been sustained for `dwell`
  observations, by one rung.
- *Daemon.* Each command is executed, whatever the daemons do; a client never
  finds a daemon announced that does not listen; each daemon goes away.
- *Live detector.* Each problem is reported, none twice, in bounded memory.
- *Alerting.* At most `max_per_hour` alerts in an hour, a cooldown between
  alerts for one problem, true counters, no anomaly lost but by a full queue,
  `stop` drains what was queued.
- *Learning.* Nothing flagged is learned; runs that do not overlap add up, and a
  crash costs one of them at most; the model is refitted when it is due, whatever
  died before.
- *Slices.* Whatever the cut, each line is counted once, in the format of its
  slice; where the slices agree on the format, the counts are those of the uncut
  file. A scan that lost slices never overstates. The verdicts of a parallel scan
  are those of each slice alone, and the code says so ("per-slice approximate").
- *Scheduling.* No source saves up credit, none waits past its turn, and no
  worker is overloaded.
- *Stream parser.* Every line is in exactly one entry, read in a format that
  fits it.
- *Command source.* Every line of the child is yielded; the child's own failure,
  and only that, is reported as one; no child outlives its reader.
- *Entry pool, LLM client.* Every entry counted once; every caller answered;
  retries only when they can help, and nothing sent without cause.
- *Commands.* Exit code 0 means that what was asked for was done (but see
  `exit_codes` below); a gate acts after the report; no temporary file stays
  behind that could be removed, unless Ctrl-C hits a download.
- *Scoring and detection.* A score depends on its line alone, worse levels do not
  score lower, and what one detector finds no later stage takes back.
- *Findings and views.* Groups, families and incidents are exactly those of the
  flagged lines; a view counts every anomaly that it leaves out (but see
  `explain_undated`).

## The modules

| Module | Models | Kind |
|---|---|---|
| `TaskFates` | what a task does when it runs, and what may be reported of it | shared constants |
| `PoolContract` | what a caller of `run_pool` relies on | abstract specification |
| `WorkerPool` | `run_pool`, `_run_batch` and the executor they use | refines `PoolContract` |
| `WorkerPoolProofs` | theorems about `WorkerPool` | proofs |
| `AccountableQueue` | what the ingest queue promises | abstract specification |
| `SheddingQueue` | `put`, `get`, `close` with their waits | refines `AccountableQueue` |
| `CountingLemmas` | lemmas about sequences (how many places hold what, longer and shorter ones, flattened ones), recursive functions and sums over finite sets | proofs |
| `SheddingQueueProofs` | theorems about `SheddingQueue` | proofs |
| `DegradationLadder` | `observe`, `_transition` | state machine |
| `Daemon` | clients, daemons and the files they share | composition of both sides |
| `DaemonProofs` | theorems about `Daemon` | proofs |
| `LiveDetector` | stream parser and live detector | state machine |
| `LiveDetectorProofs` | theorems about `LiveDetector` | proofs |
| `AlertDispatcher` | `dispatch` and `_allowed` with their threads | state machine |
| `AlertMonitor` | the monitor around the dispatcher | extends `AlertDispatcher` |
| `AlertMonitorProofs` | theorems about `AlertDispatcher` and `AlertMonitor` | proofs |
| `BaselineStore` | `load`, `update` and `save` of a baseline by concurrent runs | state machine with crashes |
| `AutoTrain` | `record_and_maybe_fit`, its buffer and model files | state machine with crashes |
| `SlicedScan` | `split_chunks`, the slices' workers, the merge and the fallback | state machine |
| `DeficitScheduler` | `DeficitScheduler` with `add`, `remove`, `select` | state machine |
| `StreamParser` | `feed`, `flush` and `sniff_format` | state machine |
| `CommandSource` | `AsyncCommandReader` and its child | state machine |
| `EntryPool` | `run_worker_pool` | state machine |
| `LlmCall` | settings, context, `HttpTransport`, answer | state machine |
| `AnalyzeCommand` | `analyze` with its three pipelines | state machine |
| `Commands` | the other commands | state machine |
| `SourcePlan` | `parse_sources`, workers, `plan_assignment`, `correlate` | operators |
| `ScoringPolicy` | signals of a line and its score | operators |
| `Detectors` | the four detectors, the safety floor, routineness | operators |
| `Fusion` | bursts, fusion, flags, groups and patterns | operators, extends `Detectors` |
| `Findings` | families, incidents, assessment, calibration, queries | operators |
| `ExplainView` | `explain`: window, cards, sparklines, impact | operators |
| `MCStreaming` | the ingest queue and the live detector, part by part | composition for TLC |
| `MCAnalysis` | everything from the ladder to the views, part by part | composition for TLC |
| `AnalysisProofs` | theorems about `MCAnalysis`, its stateful parts and its rules | proofs |
| `MCCommands` | the commands and what they call on, part by part | composition for TLC |
| `CommandsProofs` | theorems about `MCCommands` and each of its parts | proofs |

Definitions described as *mutants* in a comment (and the ones directly before
the definition they vary) are faulty versions of it, kept to show that a
property notices the fault; no specification uses them. A property that is a
conjunction has such versions for its parts.

### WorkerPool

`pc` is the coordinator's place in the code: the head of `run_pool`'s loop,
the submission loop, the `as_completed` loop, leaving the `with` block
(`drain`), the isolate loop, and the serial loops. `results` and `attempts` are
the code's lists, `pending` and `todo` the list of the round and the part of it
still to walk, `fut` the futures of the round. The fate of each task (returns,
raises, kills its process, or does either) is chosen at the start and never
read by the coordinator. The executor is the standard library's
`ProcessPoolExecutor`: it starts tasks in order, at most `Workers` at once, and
a death breaks all unfinished futures. A death may come while the coordinator
is still submitting (`SubmitOnBrokenPool`), and starting a process may raise
`OSError` (`SpawnMayFail`). `PoolContract` lets a call do three things:
decide slots truthfully, return when all are decided, or die with a task that
kills. Its variable `outcome` is `results` and `phase` is read off `pc`.

### SheddingQueue

`put` and `get` hold the lock except in `wait`, so that each is one step up to
its wait and one step from the wake-up on. The two conditions are CPython's: a
list of waiters; `notify` takes the first off the list, even when its time-out
has passed but it has not yet taken the lock again. A timed `put` gives up at
its first wake-up, and a timed `get` whose wait expired returns None without
looking at the queue. A line is a number, its producer, and whether
`is_protected` holds of its level. `patient` says whether the consumers of this
program wait without a time-out. In `AccountableQueue` the deque becomes `held`.

### DegradationLadder

`level` is the index of the mode, `up` and `down` the dwell counters, `recent`
a history of the last observations used only by the properties. The ratio of
depth to capacity is compared as integers (percent). Depths past the capacity
are included because protected lines are admitted to a full queue.

### Daemon

Clients walk through `main`, `run_via_daemon`, `ensure_running` and `stop`;
daemons through `serve`. Each file operation, request and reply is its own
step. A request reads the state file, probes the pid and connects in one step,
and may be given up at any time afterwards. `state` names the daemon that the
state file describes and `sock` the one that bound the path; they may differ,
and then the token does not match. Reply to a peer that has hung up: SIGPIPE,
whose default action `main` restores, kills the process, which cleans nothing
up. Assumed: `local_ipc_viable()` is true, the two removals of `_remove_state`
are one step, and a pid is not reused.

### LiveDetector

Entries are numbers (`_seq`); the window is the interval `first .. seq-1`. An
entry has a class: severe (reported on arrival), problem (what the judgement
always flags), plain and benign (which it may flag, now or later, and change
its mind about). A call is one step because the detector is used under a lock
or by one thread. `_due` decides by count or by time; time is abstracted to a
judgement that may come with any entry once the window holds `MinWindow`. The
judgement may raise. Left out: the list of kept anomalies and the totals per
level, which nothing reads back. `Window >= 1` is assumed.

### AlertDispatcher and AlertMonitor

A dispatch is `Reserve` (the limits, under the lock), a step for each channel
(which takes the alert or raises), and `Finish` (the counters, under the lock).
Grants are numbered, and a stamp of the last hour is known by its grant, so
that the code's pruning of stamps is the set `Recent`. `AlertMonitor` adds
the callers of the logging handler (detect under the handler's lock, queue
after it), the drain thread, a crashing thread that dispatches itself, and
`stop()`: remove the handler and the hooks, queue the sentinel if there is
room, join for two seconds at most. Anomalies below the alerting bar end in
the first line of `_enqueue` and are left out. Assumed: the clock does not run
backwards, and the epoch is at least a cooldown away from zero.

### BaselineStore

A name and the file it stands for are kept apart: `path` and `tmp` are what the
published name and `path + ".tmp"` stand for, `files` the contents. `open(tmp,
"w")` truncates the file if the name exists, so that two runs that save at once
write into one file, and the rename by one moves it under the other's hands. A
file being written reads as `Torn`, which `load` treats as no baseline. Each of
load, detect, open, dump and replace is a step, and a process may die between
them. `lone` and `met` record whether runs have overlapped.

### AutoTrain

The buffer is read, appended to, cut to `MaxRows`, and the model fitted if it is
due (`should_fit`); then the model and the buffer are written, in place, one
after the other. A death in the middle of a write leaves a file that reads as
empty (buffer) or cannot be loaded (model). An upgrade of the program changes
the number of features, and the buffer of another shape is dropped. `unseen`
counts the rows the model has not seen.

### SlicedScan

A line is a record: its bytes in the file (`size`), the bytes it has once decoded
and encoded again, as the workers count (`seen`), what `detect_format` makes of it
(`detects`), and the level and template of the entry that `parse_line` makes of it
in each format (`as`). `split_chunks` makes the byte ranges, and `Reads` the lines
that a worker, counting as the code counts, reads of one. Turbo reads a slice in
the format of the slice's own first line (`Used`); a parallel scan has one format
for all, sniffed or asked for (`given`). What a parallel slice flags depends on the
lines that happen to be in it, so it is a choice of each slice; `judged` remembers
the lines flagged. A parallel slice may be lost; the turbo way may find the pool
broken in the middle of the merge and starts over serially.

### DeficitScheduler and SourcePlan

A step is a call of `add`, `remove` or `select` with any set of ready sources.
Credits are integers in units of `1/Unit`. `waits` counts what others got while a
source was ready all the time. `SourcePlan` has the identifiers of sources,
`effective_workers`, the reserve of cores and memory, `plan_assignment` and
`correlate`.

### StreamParser

The regular expressions are facts about a line: blank, looks like a
continuation, which sticky formats it passes for, what `detect_format` says, by
which formats `parse_line` makes something of it. `feed` is one action for each
of its ways (blank, continuation within or past the limit, a new entry), with
the statistics each keeps. `LiveDetector` has the buffering of entries alone.

### CommandSource, EntryPool, LlmCall

`CommandSource`: `pump` is the place of each reader task; the end marker of a
pipe comes after its last line, or after `readline` raised for an over-long one.
The child may close its pipes and live on, and ignore SIGTERM; the consumer may
stop at any yield. The child may be a shell: what it has started may hold the pipes
open when it dies, write to them still, and gets none of the signals. `proc.wait()`
is taken to return when the child is reaped, whoever holds its pipes. `EntryPool`: the bounded queue with its producer, workers and
sentinels; the source or the processing of an entry may raise, and `gather` hands
the first exception on. `LlmCall`: settings from options and environment, the cut
of the context at `MAX_ANOMALY_LINES`, and `HttpTransport`'s loop, with every
status and a dead connection possible at every attempt.

### AnalyzeCommand and Commands

The steps of a command are its effects in the order of the code: what is said,
learned, written, gated. What an analysis finds, and whether a step fails, is a
choice; an exception that no handler catches may come at every stage and ends in
`main` with code 1 (`Uncaught`). `analyze` starts with the choice of the pipeline;
its parallel pipeline halves the workers while every slice is lost. In `Commands`,
`disk` is what a command has left behind, and `held` what the system does not let
it remove: the code tries `os.unlink` and ignores the errors of `rmtree`. `Ctrl-C`
may come once, at every step. `watch` keeps count of the lines heard, those a
rescore has judged, those that slid out of the window before one did (`slid`), and
whether the last rescore raised; its summary is printed before the model is asked,
and of the model only `LLMError` is caught.

### ScoringPolicy, Detectors, Fusion, Findings, ExplainView

Operators, evaluated for every input of a small set. Numbers are scaled
integers (1/10000 or percent, rounded down); `soft_cap` is increasing and the
identity below every threshold that a total is compared with. A line, template
or family is a record of what the rule in question reads. Properties compare the
result with a definition of its own (families are the classes of their key;
incidents the maximal chains of close spans), or state a law that the rules must
obey together (monotony, nothing found is lost). Two rules have a case that is
easily forgotten: a query over saved results lists every family if it has no
window, the worst ones first and no more than its limit (`FamiliesInWindow`); and
EMERGENCY and ALERT are no levels that `diagnosis.py` knows, so that a family of
theirs without other signs has the impact "unknown" (`BySeverity`).

### MCStreaming, MCAnalysis and MCCommands

These put parts that do not share state into one run: the variable `part`
(`MCStreaming`, `MCAnalysis`), or which part's `Init` holds while the others are over
(`MCCommands`), says which one a behaviour exercises. The parts' properties keep
their names; the runs check conjunctions of them by theme, listed at the end of
each module.

## The runs

| Run | Configuration | Expect | Question |
|---|---|---|---|
| `pool` | `WorkerPool` | pass | contract, fair blame, bounded executions, decisions that stand, termination, with every combination of task fates and spawn failures |
| `pool_innocents` | `WorkerPoolInnocents` | violation | do innocent tasks always complete? |
| `streaming` | `MCStreaming` | pass | queue: the account of lines; does anyone sleep for nothing; does everyone leave? detector: nothing twice, nothing missed, bounded memory |
| `daemon` | `Daemon` | pass | execution counts, order of bind and announcement; does every command finish, does every daemon leave? |
| `daemon_twice` | `DaemonTwice` | violation | is a command executed at most once? |
| `daemon_killed` | `DaemonKilled` | violation | does the daemon survive a run? |
| `alerting` | `AlertMonitor` | pass | limits, counters, accounting of anomalies, shutdown |
| `analysis` | `MCAnalysis` | pass | work shared out, slices that add up, safe learning, and the rules of scoring, detection, findings and views |
| `commands` | `MCCommands` | pass | honest exit codes and files, faithful input, disciplined calls, everything ends |
| `gate_parallel` | `AnalyzeGate` (module `AnalyzeCommand`) | violation | is `--fail-on` honoured by every pipeline? |
| `exit_codes` | `AnalyzeExitCodes` (module `AnalyzeCommand`) | violation | does a run without entries, or whose root-cause analysis failed, fail? |
| `explain_undated` | `ExplainUndated` (module `MCAnalysis`) | violation | does `explain` show anomalies without a time, as it says it does? |

The conjunctions of the last two passing runs:

| Property | Parts |
|---|---|
| `LoadLimited` | `SustainedLoadMoves`, `CreditBounded`, `HeadroomKept` |
| `WorkShared` | `ServedInTurn`, `UniqueIds`, `AssignmentBalanced` |
| `ScanAddsUp` | `CutIndependent`, `FaultsOnlyLose` |
| `LearningSafe` | `CrashLeavesReadable`, `LearnsNormalOnly`, `RefittedWhenDue` |
| `ReportComplete` | `FamiliesPartition`, `IncidentsAreGrouping`, `StampsOwnIncidentIfUnique`, `CorrelateIsGrouping`, `CutoffFits`, `GroupsTellFlagged`, `ListIsHead`, `EveryAnomalyPlaced`, `NewestOnTop`, `SparklineTruthful` |
| `VerdictsFollow` | `CacheTransparent`, `HardFlagged`, `WorseLevelNotLower`, `BaselineQuiets`, `MoreIsWorse`, `WindowCounts`, `BlockStaysInRecord`, `ImpactOrdered` |
| `DetectorsSound` | `BurstsStandOut`, `BinsEven`, `OutliersUnmasked`, `SessionsWhole`, `LiftedInCompany`, `RareSevereSurfaced`, `KnownMoreRoutine`, `BurstsExceptional`, `EvidenceReachesFlag` |
| `AnalyzeHonest` | `GateHonoured`, `OneDocument`, `LearnsOnceIfAllowed`, `LostScanFails` |
| `CommandsHonest` | `EphemeralLeavesNothing`, `NoArchiveLeft`, `ZeroMeansDone`, `GateStopsAfterReport`, `WatchKeepsResults`, `SurvivorsSuffice` |
| `InputFaithful` | `EveryLineYielded`, `OwnFailureReported`, `NoOrphan`, `EveryEntryCounted`, `LinesKept`, `FormatsFit`, `SniffMajority` |
| `CallDisciplined` | `TransientOnly`, `NothingSentInVain` |
| `AllEnd` | `Ends`, `ReaderEnds`, `CallerAnswered`, `CallEnds` |

The action properties `MovesAreEarned` (ladder) and `LoneRunAddsItself`
(baseline) are checked by `analysis` under their own names.

### Bounds, and why they are enough

- **pool**: three tasks, two workers, two attempts (the default). Three tasks
  are a crasher, one that shares the pool with it and one not yet submitted,
  in every order; two workers make a crash beside a finished answer possible.
  Every assignment of the four fates is explored. The proofs cover all sizes.
- **streaming**, the queue: two producers, two consumers, capacity one, three lines: one line
  in the queue while both producers wait, or both consumers waiting while two
  lines come; protected lines make the queue longer than its capacity, so that
  an eviction from the middle happens. All four policies; sample rate 2.
- **daemon**: two clients, two daemons, a backlog of one; the system starts with
  no daemon, an older one, or the one of the systemd unit. Two daemons are what it
  takes to remove each other's files, and with a backlog of one stopping, replacing
  and a full backlog all happen. The theorems cover longer backlogs.
- **streaming**, the detector: window and interval three, six entries, so that the window
  slides past three judgements by count, and more by time; a continuation line
  may worsen a pending entry.
- **alerting**: two keys, two channels, a queue of two, three anomalies and a
  crash, two in an hour, a cooldown of one and an hour of two ticks: the cap,
  the cooldown, a full queue and the sentinel that finds no room all happen.

- **analysis**: the ladder has its default thresholds, dwell 3, counters cut at
  5, past every comparison the code makes. Two processes share a baseline that
  keeps two of four templates and is saved three times: enough for a save that
  writes into another's file and for an eviction. The training buffer holds five
  rows, is due after two, and sees two deaths and one upgrade. Files have up to
  three lines of four kinds (empty, of a format, the rest of a stack trace, which
  only plain text makes an entry, and one with CRLF), in one to four slices, so that
  slices are empty, whole or one line and disagree on the format. The scheduler has three sources of weights 1, 1 and 9 and
  six units a turn, so that a turn is worth less than an item and more than one.
  The inputs of the pure parts are listed by kind in the module, each around the
  rule's own boundaries.
- **commands**: a watched child of four lines over a window of two, three sources, a child with two
  pipes of two lines and three lines to write, two workers with a queue of one
  and three entries, two retries, a parser fed four lines of seven kinds with at
  most two continuation lines, up to four workers for a parallel scan (hence
  three halvings). `gate_parallel` needs no more than two workers.

`CHECK_DEADLOCK FALSE` is set where behaviours end because a bound on inputs is
used up (streaming, alerting), or because the program does (pool,
daemon, commands, and the scans of `analysis`).

### Fairness

- *WorkerPool*: weak fairness of the coordinator and of the executor. The
  coordinator is a running thread; every task terminates, by returning,
  raising or dying (a task that hangs for ever is outside the code's promise).
- *SheddingQueue*: released threads get the lock, time-outs pass, and consumers
  call `get` again. Nothing makes a producer put or anyone close.
- *Daemon*: processes run, requests time out (all of them have one), and the
  loops that ping are bounded in the code, so that their exits are strongly
  fair. Nothing is assumed of Ctrl-C or the cooldown.
- *AlertMonitor*: the drain thread and a caller between detection and queue are
  scheduled, and channels have time-outs. No fairness for new anomalies,
  crashes, the passing of time, or the call of `stop()`.

- *MCCommands*: a command runs on until it ends; the event loop runs every task
  that is ready, and its time-outs fire. Nothing makes a child write, close or
  exit before it is killed; one that was killed is reaped. The processing of an
  entry returns or raises. An LLM request has a time-out.
- *MCStreaming*: that of the queue, in the behaviours that exercise it.
- *MCAnalysis*: none; it has no liveness property.

### Limits worth knowing

- `NobodySleepsInVain`: its part `NoLostWakeup` holds only when the consumers
  never use a time-out: a notified consumer whose time is up consumes the
  notification. The line is then only delayed, since consumers call again;
  `EveryoneLeaves` covers both manners.
- `DecisionsStand` excepts the fallback that an `OSError` in an isolating round
  leads to: `run_pool` then walks the whole round again, decided tasks included,
  and the progress count passes the total.
- The failure of a judgement (`run()` raises) resets `_since`, so what it was
  to judge may leave the window unseen: `ProblemsReported` excepts it.
- `CrashLeavesReadable` and `LoneRunAddsItself` are about runs that did not
  overlap. With two runs at once, one save may publish a file the other is still
  writing, which the next run reads as no baseline; and one of two runs that
  learn at once is lost.
- `RefittedWhenDue` holds until the buffer has been cut or the features have
  changed: `len(X) - last_fit` then no longer counts the new rows, and a full
  buffer is never refitted (`application/autotrain.py:60`).
- `CutIndependent` is about UTF-8 text with one-byte line ends. Otherwise the
  position in a slice, counted by encoding decoded lines, drifts, and lines at
  the cuts are read twice or not at all (`application/parallel_scan.py:34`). It
  says that the counts are those of the uncut file only where the slices agree on
  a format: turbo detects one for each slice (`detection/turbo.py:71`). About the
  verdicts it says nothing, because each parallel slice is judged alone;
  `FaultsOnlyLose` says that a line flagged by its slice counts once.
- `EveryLineYielded` excepts over-long lines, at which a pump stops reading.
  `OwnFailureReported` is about a child that was not signalled. `NoOrphan` is about
  the direct child: what a shell has started gets no signal and may live on
  (`detection/ingestion/command.py:41`). `ReaderEnds` needs the pipes closed, which
  such descendants may put off for ever.
- `DrainProceeds` is about a sentinel that found room in the queue.
- `EphemeralLeavesNothing` and `NoArchiveLeft` except what the system does not let
  the program remove, and the first one Ctrl-C during the download.
- `WatchKeepsResults`: a line may stay without a verdict if the last rescore
  raises, or if it slides out of a window that is smaller than what waits in it;
  both with code 0. The HTML report is lost to an exception of the model other
  than `LLMError`, with code 1; the summary is not, being printed before.
- `RareSevereSurfaced` and `HardFlagged` are about the thresholds of the named
  sensitivities; a threshold given as a number, or one found automatically, may
  be above the floor.
- `StampsOwnIncidentIfUnique`: families that share a template get the incident of
  the last of them.
- `GateHonoured` leaves out the parallel pipeline: see `gate_parallel`. Nothing in
  `AnalyzeHonest` says that a run without entries or with a failed root-cause
  analysis fails, since it does not: see `exit_codes`.
- `EveryAnomalyPlaced` asks that an anomaly without a time be counted as such, not
  that it be shown: see `explain_undated`.
- `CutoffFits` bounds what a cutoff admits up to the alerts that tie with it.
- `ImpactOrdered` is about the levels that `diagnosis.py` knows, and says of the
  others, EMERGENCY and ALERT among them, that their impact is "unknown".

## The proofs

`tlapm` checks these for all values of the constants that satisfy the named
assumptions of the modules.

| Theorem | States | Also checked by |
|---|---|---|
| `WorkerPoolProofs!TypeCorrect` | `TypeOK` | `pool` |
| `WorkerPoolProofs!BlameIsFair` | `OnlyCrashersQuarantined` | `pool` |
| `WorkerPoolProofs!ExecutionsBounded` | `RunsBounded` | `pool` |
| `WorkerPoolProofs!ContractKept` | `KeepsContract`: implementation of `PoolContract` | `pool` |
| `WorkerPoolProofs!DecisionsAreFinal` | `DecisionsStand`, an action property | `pool` |
| `SheddingQueueProofs!QueueTypeCorrect` | `TypeOK` | `streaming` |
| `SheddingQueueProofs!QueueAccounts` | `LinesAccounted` | `streaming` |
| `SheddingQueueProofs!QueueWakesSleepers` | `NobodySleepsInVain` | `streaming` |
| `SheddingQueueProofs!QueueKeepsAccount` | `KeepsAccount`: implementation of `AccountableQueue` | `streaming` |
| `DaemonProofs!DaemonTypeCorrect` | `TypeOK` | `daemon` |
| `DaemonProofs!EveryCommandAccounted` | `CommandsAccounted` | `daemon` |
| `DaemonProofs!AnnouncedOnlyAfterBind` | `AnnouncedAfterBind` | `daemon` |
| `LiveDetectorProofs!TypeCorrect` | `DetectorTypeOK` | `streaming` |
| `LiveDetectorProofs!NeverReportedTwice` | `ReportedOnce` | `streaming` |
| `LiveDetectorProofs!MemoryBounded` | `RemembersOnlyWindow` | `streaming` |
| `LiveDetectorProofs!NoProblemEscapes` | `ProblemsReported`, for windows of at least `RescoreEvery` and `MinWindow` | `streaming` |
| `AlertMonitorProofs!DispatcherTypeCorrect` | `DispatcherTypeOK` | `alerting` |
| `AlertMonitorProofs!AtMostMaxPerHour` | `HourlyCap` | `alerting` |
| `AlertMonitorProofs!CooldownBetweenAlerts` | `CooldownKept` | `alerting` |
| `AlertMonitorProofs!CountersExact` | the counters of a dispatcher | a part of `AlertsAccounted` |
| `AlertMonitorProofs!MonitorDispatches` | the monitor implements `DispatcherSpec` | - |
| `AlertMonitorProofs!MonitorTypeCorrect` | `TypeOK` | `alerting` |
| `AlertMonitorProofs!MonitorHourlyCap`, `MonitorCooldown` | `HourlyCap`, `CooldownKept` | `alerting` |
| `AlertMonitorProofs!EveryAlertAccounted` | `AlertsAccounted` | `alerting` |
| `AnalysisProofs!AnalysisTyped` | `TypesOK` | `analysis` |
| `AnalysisProofs!LoadAlwaysLimited` | `LoadLimited` | `analysis` |
| `AnalysisProofs!MovesAlwaysEarned` | `MovesAreEarned`, an action property | `analysis` |
| `AnalysisProofs!ScanAlwaysAddsUp` | `ScanAddsUp` | `analysis` |
| `AnalysisProofs!LearningAlwaysSafe` | `LearningSafe` | `analysis` |
| `AnalysisProofs!LoneRunAlwaysAdds` | `LoneRunAddsItself`, an action property | `analysis` |
| `AnalysisProofs!DetectorsAlwaysSound` | `DetectorsSound` | `analysis` |
| `AnalysisProofs!VerdictsAlwaysFollow` | `VerdictsFollow` | `analysis` |
| `AnalysisProofs!CacheAlwaysTransparent`, `HardAlwaysFlagged`, `WorseLevelNeverLower`, `BaselineAlwaysQuiets`, `MoreAlwaysWorse`, `WindowAlwaysCounts`, `BlockAlwaysInRecord`, `ImpactAlwaysOrdered` | the parts of `VerdictsFollow`, for every input | - |
| `AnalysisProofs!BurstsAlwaysStandOut`, `BinsAlwaysEven`, `OutliersNeverMasked`, `SessionsAlwaysWhole`, `AlwaysLiftedInCompany`, `RareSevereAlwaysSurfaced`, `KnownNeverLessRoutine`, `BurstsAlwaysExceptional`, `EvidenceAlwaysReachesFlag` | the parts of `DetectorsSound`, for every input | - |
| `AnalysisProofs!HeadroomAlwaysKept` | a part of `LoadLimited`, for every input | - |
| `CommandsProofs!CommandsAreTyped` | `TypesOK` | `commands` |
| `CommandsProofs!AnalyzeTellsTheTruth` | `AnalyzeHonest` | `commands` |
| `CommandsProofs!CommandsTellTheTruth` | `CommandsHonest` | `commands` |
| `CommandsProofs!NoInputIsLost` | `InputFaithful` | `commands` |
| `CommandsProofs!CallIsDisciplined` | `CallDisciplined` | `commands` |

**Pool.** "Only crashers are quarantined" says nothing about attempts, and so
does not survive a step: a task is quarantined when it has used up its
attempts, and an innocent task uses one when a shared pool breaks. The
invariant `IInv` adds: slots and futures tell the truth (`Truthful`); undecided
tasks are in a list the coordinator still walks (`Accounted`); an undecided
task has used one attempt by the time the pool isolates, and another only by
killing a process of its own (`Earned`); attempts pay for executions (`Paid`).
Fair blame follows because quarantine needs two attempts or more
(`PoolAssumption`; the default is 2 and no caller passes less: with
`max_attempts = 1` one broken pool would blame everybody in it). The refinement
maps every step of the coordinator to `Decide`, `Die` or a stutter, and every
step of the executor to a stutter.

That decisions stand needs two more facts: slots that are decided are not in the
part of the round still to walk (`Fresh`), but for the fallback of an isolating
round, which is why the property excepts it; and the progress count is the
number of decided slots (`Counted`).

**Live detector.** `Sound` says that whatever was ever reported and is still in
the window is in `_reported`; numbers are unique and never re-enter, so
forgetting a number with its entry is safe. `Prompt` says that a problem not yet
reported came after the last judgement, and that fewer than `RescoreEvery`
entries have come since (or the window is too small to be judged). An entry only
leaves a full window, hence after more than `RescoreEvery` others, and must
have been judged. The premise `Window >= RescoreEvery` is needed: with a
smaller window a problem slides out between two judgements.

**Alerting.** `Limits` says that the stamps contain every grant of the last
hour and that `_last_sent` is never behind a grant. Both are kept because the
lock makes the look at the limits and the reservation one step; sending, however
slow, does not touch them. The monitor's variables beyond the dispatcher's are
read by no step of the dispatcher, so that each of its steps is a dispatcher's or
a stutter, and the limits carry over. The account of alerts adds that an alert
is dropped, queued, held by one thread, or among the dispatches that the
counters count.

**Queue.** Three invariants together. Lines: what is in the deque, with
consumers, shed or refused are different lines, in order for each producer, and
protected ones are never shed. Waits: who is on the list of a condition is in
its wait. Going: if a consumer waits while there are lines, or a producer while
there is room, then somebody that was notified has not yet run and will pass it
on. A producer whose time is up and who is still on the list does not count as
such, since it gives up at its wake-up; it may take a notification with it only
while nobody else needs it. The steps of the refinement follow from the first
of these.

**Daemon.** The invariant follows connections. A process has at most one open
connection, and only while it waits for the reply (`Requests`). A client has at
most one connection with its command, ever, which is with one daemon or nowhere
(`Sole`, `Nowhere`) and may outlive the client's patience. A command was executed
as often as the connection was served, plus once if the client ran it itself: so
exactly once if it was taken for served, and at most twice.

**Commands.** The parts of `MCCommands` do not share state; each has its own
invariant (`CommandsIInv` joins them), and the last section puts them together.
For `analyze` it is what each stage has done so far; for the other commands one
formula for each, of what is on disk and has been said at each step, Ctrl-C
included. In the pool of entries every entry is left, queued, in work or counted,
in one place only; the sentinels come last and there is one for each worker. The
reader adds up: what the child has written is what was yielded, what is queued and
what is in the pipes, and each pipe ends once. The parser's invariant is about
the finished entries with the unfinished one: flattened they are the lines fed,
the statistics are theirs, and the format that sticks is the one of the last
entry, unless no entry has had one. `SniffIsFair` shows that the most frequent
format exists, that two formats do not both have half of the lines, and that
plain text is told only if no format has half.

**Ladder and scheduler.** The ladder keeps a history of the last `Dwell`
observations for its properties alone. `LadderIInv` ties the counters to it:
a counter is the length of the spell that goes on, and one that has reached
`Dwell` means that the ladder is at its end. So a full spell always finds the
counter at `Dwell`, which moves the ladder, and a move always finds a full
spell. `SchedulerIInv` says that between two turns only the source under the
cursor, once credited, has the price of an item or more; the loop of `select` is
a recursive function of the turns left, and each turn keeps the invariant.

**Slices.** `SliceIInv` says that what is merged is at most the sum of the tallies
of the slices so far, each in the format of its slice, and exactly that sum while
no slice has faulted; and that the families are the tally of the lines that were
flagged. A sum of tallies in one format is the tally of the union, since the slices
are disjoint. The rest is about `split_chunks`: for a plain file every line begins
in exactly one chunk, the chunks are in order, and a worker's count of bytes stops
where the next begins. Offsets are sums of lengths, so this rests on the lemmas
about sums.

**Learning.** `StoreIInv`: a run that has had the store for itself will publish
the document it found plus its own lines; until two runs have overlapped, what is
published is whole, and no file under the temporary name is the published one.
`TrainingIInv`: while all rows are kept and have one shape, the rows since the
last fit are those the buffer counts, in the file and in the run's hands, and what
is written back has been fitted if it was due.

**Rules.** Scoring, detection and verdicts have no steps. The theorems about them
are of the form "for all lines (families, tallies, ...) the law holds", without
the bounds of the run; the corresponding property of `MCAnalysis` follows since
`AnalysisIInv` keeps `input` among the inputs of its part. Most are about an
argument that a small instance does not show: that fewer than half of the values
exceed twice a median (`BurstsAlwaysStandOut`), that the median of the deviations
is no further out than most values are from each other (`OutliersNeverMasked`),
that bins cut by an integer quotient differ by one line at most
(`BinsAlwaysEven`), that the key of the score cache determines the score
(`CacheAlwaysTransparent`), that every stage after the detectors is monotone in
each piece of evidence (`EvidenceAlwaysReachesFlag`), and that the counts of whole
hours add up to the lines of these hours (`WindowAlwaysCounts`).

`AnalysisIInv` joins the invariants of the parts; `OneMoves` says that in a step
one part moves and the others rest.

Some of these need a fact about every number or every length. The induction
theorems of the library take an operator as a parameter and are of no use to the
provers; instead `LeastNumber` (from well-foundedness) gives the least number for
which a fact would fail. With it `CountingLemmas` shows that recursive functions
exist and what `FlattenSeq` makes of a longer sequence, and `BackoffDoubles`
what the pauses of a model call are. `SmallestSet` does the same for finite sets:
with it the sum that `FoldFunction` computes is shown to be one number whatever
the order (`SumOnIs`), to be additive (`SumOfUnion`) and to grow with its terms.

Assumed of the constants, in named assumptions of the modules: sets of threads,
processes, workers and entries are finite; special values (`None`, `Sentinel`,
`"none"`, `"PLAINTEXT"`) are not among the ordinary ones; sizes are natural
numbers, and those the code requires to be positive are (weights, prices, lengths
of lines, the dwell of the ladder, the interval of refits); labels are 0 or 1, and
the ladder's low threshold is below its high one (`LadderAssumption`). Beyond that:
`max_attempts` is at least 2 (`PoolAssumption`), and the entry pool has a worker
(`CommandsAssumption`): the code turns 0 into 4, but does not refuse a negative
`--workers` (`interface/cli.py:1479`), with which no entry is processed and more
than a queue of them block the producer for ever.

Only model-checked:

- everything about liveness (`Terminates`, `EveryoneLeaves`, `AllComeToAnEnd`,
  `DrainProceeds`, `AllEnd`), which the prover does not handle;
- `WorkShared`. `ServedInTurn` does not hold of all weights: where they are so
  small that nobody reaches a credit in `4n + 2` turns, the fallback of `select`
  serves without charging, so the bound on the wait is that of the configuration.
  `UniqueIds` is about strings put together, of which the prover knows nothing,
  and `AssignmentBalanced` sorts and folds;
- `ReportComplete`. Its rules sort (`SortSeq`, `SetToSortSeq`) and fold
  (`FoldLeft`). What a fold of a sequence computes for every input would need an
  induction for each; and `SortSeq` is defined by the choice of a permutation,
  which does not exist if two different elements tie, as cards of the same time
  do: there TLC's own sort is what the run checks, and the definition says nothing
  a proof could use.

## Where code and documentation disagree

Each of these has a run that ends in a counterexample.

- `pool_innocents`: a task that dies while later ones are still being submitted
  makes `ex.submit` raise outside the `try` of `_run_batch`; the fallback then
  runs the crasher in the caller's own process, and innocent tasks do not
  complete, which `src/tests/test_workerpool.py:49` expects.
- `daemon_twice`: a run that outlives the client's patience is executed by the
  daemon and again in-process.
- `daemon_killed`: the reply to a client that has hung up kills the daemon.
- `gate_parallel`: the parallel pipeline of `analyze`, which large files take of
  themselves, never looks at `--fail-on`, so that a gate in CI passes.
- `exit_codes`: `analyze` exits with 0 when it has found no valid entry
  (`interface/cli.py:1221`) and after a root-cause analysis that failed
  (`interface/cli.py:551`); `docs/DOCUMENTATION.md:626` has code 1 for both.
- `explain_undated`: without a readable time among the anomalies `explain` shows
  none of them (`interface/cli.py:1840`); the comment before it says "explain
  everything, and say so", and the message "showing all".

Seen while modelling, without a run of their own:

- Ctrl-C while `bench-routineness --download` is loading leaves its directory
  (`interface/cli.py:2692`), although its help says that nothing is left on disk;
  and "nothing kept on disk" is said also when the directory could not be removed
  (`interface/cli.py:2708`).
- Two processes that save one baseline at once write into one temporary file, and
  the rename of one may publish what the other is still writing
  (`application/baseline_store.py:52`), which is commented as atomic; and of two
  learning runs that overlap the later save drops what the earlier one has learned
  (`interface/cli.py:1281`), although `--learn` is to improve with every run.
- If the queue is full when `stop()` is called, its sentinel is dropped and the
  drain thread never ends (`interface/monitor.py:198` says it will).
- Where several alerts have the cutoff's score, the cutoff of `calibrate` admits
  more than the budget allows; `detection/calibration.py:43` says exactly that
  many.
- A daemon of another version is stopped and replaced, and serves the command
  (`application/daemon.py:281`); `docs/DOCUMENTATION.md:206` says that the CLI
  then runs in-process.
- A CRITICAL line waits in the stream parser until the next entry begins
  (`detection/parser.py:676`); `docs/DOCUMENTATION.md:250` says it is shown
  without any waiting.
- An alert that every channel refused still silences its problem for the
  cooldown (`infrastructure/alerts.py:231`).
- `--idle-timeout 0` ends the accept loop at once; `systemd/loglens.service:8`
  uses it for a daemon that stays.
- With a live window below `rescore_every` problems leave the window unjudged and
  are never reported; `docs/DOCUMENTATION.md:349` says that each problem is
  reported exactly once.
- `group_incidents` stamps families by template, so that two families with one
  template and different levels or services get the same incident
  (`detection/incidents.py:126`).
- `_SEVERE` has neither EMERGENCY nor ALERT: a report may say `incident: true`
  and list no incident, and a family of these levels alone has impact "unknown".
- `_apply_fail_on` says nothing of an unknown threshold with `--format json`,
  although its docstring promises that a typo never silently passes.
- A model that cannot be loaded ends `analyze` with code 1 after it has learned
  (`interface/cli.py:1370`).
- `analyze-multi --format json` with nothing analysed exits with 0.
- The counts of saved results take whole hours, so that events up to an hour
  older than the window are counted (`application/results_store.py:100`); the
  families listed beside the count are cut exactly.
- An indented line, also one of indented JSON, is glued to the entry before it
  by the stream parser.
- The model file is written in place: a crash leaves one that cannot be loaded.

## What is not modelled

- Numerical library computations: embeddings, clustering, the isolation forest,
  Otsu's threshold, the fit of a model. What they decide is a choice (a place
  among the clusters, a score) in the models that use it.
- Text: the regular expressions of formats and templates, masking, prompts and
  the payloads of providers, the rendering of results, HTML and reports. A model
  has what a rule makes of a text, never the text.
- Readers that only pass lines on (files, HTTP, standard input), load statistics
  (plain counters), reading a container's limits, the names of result files, and
  the metrics of the benchmarks.
- The programming interface, which only calls the parser and the detector.
- The `daemon stop`, `status` and `restart` commands make requests that clients
  already make in `Daemon`; `version` and `help` only print.
- The logging handler beyond its place between a log call and the alert queue.

## The plan

Modelled: the concurrent and stateful components first (pool, queue, ladder,
daemon, live detector, alerting), then learning, slices, scheduling, the
readers and the commands, then the rules of the core. Proved: every safety
property that the runs check, but for `WorkShared` and `ReportComplete`
(see [the proofs](#the-proofs) for the reasons).

Left, in this order:

1. `AssignmentBalanced` and `CutoffFits`, which sort numbers, so that only equal
   elements tie: a lemma that says that a sorted permutation exists.
2. `ServedInTurn` for weights that reach a credit within the turns of one call.
3. Of `interface/cli.py` the commands' rendering, and of `detection/parser.py` the
   formats, should a property of their text be wanted.
