----------------------------- MODULE MCCommands -----------------------------
(***************************************************************************)
(* Model checking of the commands and of what they call on: analyze, the   *)
(* other commands, the reader of a child process, the parser of a stream,  *)
(* the pool of entries and the call of a language model.  These parts do   *)
(* not share state: a behaviour runs one of them, and the others are over  *)
(* from the start, so that none of their actions is enabled.               *)
(***************************************************************************)
EXTENDS Integers, FiniteSets, Sequences

CONSTANTS
    MaxWorkers, MaxScans,                     \* of analyze
    Window, WatchedLines, MaxSources,         \* of the other commands
    Stream, ChildLines, PipeMax,              \* of the reader
    Line, Format, MaxContinuation, FedLines,  \* of the parser
    Worker, Entry, QueueSize, Sentinel,       \* of the pool of entries
    Retries, Anomalies, MaxAnomalyLines       \* of the call

\* The formats a line passes for have names of their own; None ends a worker and
\* is no entry.
ASSUME CommandsAssumption ==
    /\ MaxWorkers \in Nat \ {0} /\ MaxScans \in Nat
    /\ Window \in Nat /\ WatchedLines \in Nat /\ MaxSources \in Nat \ {0}
    /\ IsFiniteSet(Stream) /\ ChildLines \in Nat /\ PipeMax \in Nat
    /\ "none" \notin Format /\ "PLAINTEXT" \notin Format
    /\ \A line \in Line :
          /\ line.blank \in BOOLEAN /\ line.continues \in BOOLEAN
          /\ line.fits \subseteq Format /\ line.parses \subseteq Format
          /\ line.detected \in Format \cup {"PLAINTEXT"}
    /\ MaxContinuation \in Nat /\ FedLines \in Nat
    /\ IsFiniteSet(Worker) /\ Worker # {} /\ IsFiniteSet(Entry)
    /\ QueueSize \in Nat \ {0}
    /\ Sentinel \notin Entry
    /\ (Entry \cup {Sentinel}) \cap {"idle", "ended", "raised"} = {}
    /\ Retries \in Nat /\ Anomalies \subseteq Nat /\ MaxAnomalyLines \in Nat

VARIABLES
    opt, route, nw, found, lost, scans, trail, exit, pc,             \* of analyze
    cmd, flags, step, disk, held, said, low, tally, broken, exitcode,  \* of the others
    child, status, open, pipe, pump, lines, at, eof_seen, produced_any,
    result, written, got, cut, signalled,                            \* of the reader
    forced_fmt, sticky, first_format, pending, pending_continuations, stats,
    fed, out,                                                        \* of the parser
    left, sentinels, producer, queue, worker, processed, skipped, debug,
    outcome,                                                         \* of the pool
    config, anomalies, stage, attempt, served, codes, slept, sent, answer  \* of the call

Analyze == INSTANCE AnalyzeCommand
Other == INSTANCE Commands WITH
    MaxLines <- WatchedLines,
    opt <- flags, pc <- step, cut <- broken, exit <- exitcode
Reader == INSTANCE CommandSource WITH
    MaxLines <- ChildLines, queue <- lines, pc <- at, outcome <- result
Parser == INSTANCE StreamParser WITH MaxLines <- FedLines
Pool == INSTANCE EntryPool
Call == INSTANCE LlmCall WITH pc <- stage, outcome <- answer

\* A blank line, one of a stack trace, one of the format A, one of J that passes
\* for A too, a JSON list, broken JSON, and an indented line of J.
ParserLine(cont, fits, detected, parses) ==
    [blank |-> FALSE, continues |-> cont, fits |-> fits, detected |-> detected,
     parses |-> parses]
ParserLines ==
    {[ParserLine(FALSE, {}, "PLAINTEXT", {}) EXCEPT !.blank = TRUE],
     ParserLine(TRUE, {}, "PLAINTEXT", {}), ParserLine(FALSE, {"A"}, "A", {"A"}),
     ParserLine(FALSE, {"A", "J"}, "J", {"J"}), ParserLine(FALSE, {}, "J", {}),
     ParserLine(FALSE, {"J"}, "PLAINTEXT", {}), ParserLine(TRUE, {"J"}, "J", {"J"})}

analyzeVars == <<opt, route, nw, found, lost, scans, trail, exit, pc>>
otherVars == <<cmd, flags, step, disk, held, said, low, tally, broken, exitcode>>
readerVars == <<child, status, open, pipe, pump, lines, at, eof_seen, produced_any,
                result, written, got, cut, signalled>>
parserVars == <<forced_fmt, sticky, first_format, pending, pending_continuations, stats,
                fed, out>>
poolVars == <<left, sentinels, producer, queue, worker, processed, skipped, debug, outcome>>
callVars == <<config, anomalies, stage, attempt, served, codes, slept, sent, answer>>
----------------------------------------------------------------------------
\* What a part looks like that is over.

AnalyzeOver ==
    /\ opt = [way |-> "auto", deep |-> FALSE, json |-> FALSE, fail_on |-> "none",
              learn |-> FALSE, model |-> "none"]
    /\ route = "none" /\ nw = 0 /\ found = {} /\ lost = FALSE /\ scans = 0 /\ trail = <<>>
    /\ exit = 1 /\ pc = "done"
OtherOver ==
    /\ cmd = "ask" /\ flags = {} /\ step = "done" /\ disk = {} /\ held = {} /\ said = {}
    /\ low = FALSE /\ tally = [a |-> 0, b |-> 0, slid |-> 0, raised |-> FALSE]
    /\ broken = "nowhere" /\ exitcode = 1
ReaderOver ==
    /\ child = "reaped" /\ status = 0 /\ open = {}
    /\ pipe = [s \in Stream |-> <<>>] /\ pump = [s \in Stream |-> "over"]
    /\ lines = <<>> /\ at = "done" /\ eof_seen = Cardinality(Stream) /\ produced_any = FALSE
    /\ result = "returned" /\ written = 0 /\ got = 0 /\ cut = FALSE /\ signalled = FALSE
ParserOver ==
    /\ forced_fmt = "none" /\ sticky = "none" /\ first_format = "none" /\ pending = <<>>
    /\ pending_continuations = 0 /\ fed = <<>> /\ out = <<>>
    /\ stats = [lines |-> FedLines, blank |-> FedLines, continuations |-> 0, fallback |-> 0,
                format_switches |-> 0]
PoolOver ==
    /\ left = {} /\ sentinels = Cardinality(Worker) /\ producer = "ended" /\ queue = <<>>
    /\ worker = [w \in Worker |-> "ended"] /\ processed = Entry /\ skipped = {}
    /\ debug = FALSE /\ outcome = "returned"
CallOver ==
    /\ config = [provider |-> "none", key |-> FALSE, model |-> FALSE, endpoint |-> FALSE,
                 deployment |-> FALSE]
    /\ anomalies = 0 /\ stage = "done" /\ attempt = 0 /\ served = FALSE /\ codes = {}
    /\ slept = 0 /\ sent = 0 /\ answer = "LLMError"

MCInit ==
    \/ Analyze!Init /\ OtherOver /\ ReaderOver /\ ParserOver /\ PoolOver /\ CallOver
    \/ Other!Init /\ AnalyzeOver /\ ReaderOver /\ ParserOver /\ PoolOver /\ CallOver
    \/ Reader!Init /\ AnalyzeOver /\ OtherOver /\ ParserOver /\ PoolOver /\ CallOver
    \/ Parser!Init /\ AnalyzeOver /\ OtherOver /\ ReaderOver /\ PoolOver /\ CallOver
    \/ Pool!Init /\ AnalyzeOver /\ OtherOver /\ ReaderOver /\ ParserOver /\ CallOver
    \/ Call!Init /\ AnalyzeOver /\ OtherOver /\ ReaderOver /\ ParserOver /\ PoolOver

MCNext ==
    \/ Analyze!Next /\ UNCHANGED <<otherVars, readerVars, parserVars, poolVars, callVars>>
    \/ Other!Next /\ UNCHANGED <<analyzeVars, readerVars, parserVars, poolVars, callVars>>
    \/ Reader!Next /\ UNCHANGED <<analyzeVars, otherVars, parserVars, poolVars, callVars>>
    \/ Parser!Next /\ UNCHANGED <<analyzeVars, otherVars, readerVars, poolVars, callVars>>
    \/ Pool!Next /\ UNCHANGED <<analyzeVars, otherVars, readerVars, parserVars, callVars>>
    \/ Call!Next /\ UNCHANGED <<analyzeVars, otherVars, readerVars, parserVars, poolVars>>

MCVars == <<analyzeVars, otherVars, readerVars, parserVars, poolVars, callVars>>
MCSpec ==
    /\ MCInit /\ [][MCNext]_MCVars
    /\ Analyze!Fairness /\ Reader!Fairness /\ Pool!Fairness /\ Call!Fairness
----------------------------------------------------------------------------
\* The state of every part is well formed.
TypesOK ==
    /\ Analyze!TypeOK /\ Other!TypeOK /\ Reader!TypeOK /\ Parser!TypeOK
    /\ Pool!TypeOK /\ Call!TypeOK

\* --fail-on decides the exit code of the exact and the turbo pipeline.
GateHonoured == Analyze!GateHonoured
\* A build that asks for JSON gets one document, the failing build too.
OneDocument == Analyze!OneDocument
\* A run learns once at most, if it may, from the exact pipeline.
LearnsOnceIfAllowed == Analyze!LearnsOnceIfAllowed
\* A parallel scan that lost every slice is a failure without results.
LostScanFails == Analyze!LostScanFails
\* However many scans are lost, analyze ends.
Ends == Analyze!Ends

\* bench-routineness --download leaves nothing on disk that can be removed.
EphemeralLeavesNothing == Other!EphemeralLeavesNothing
\* No command leaves the archive it downloaded, if that can be removed.
NoArchiveLeft == Other!NoArchiveLeft
\* Code 0 means that what was asked for is there.
ZeroMeansDone == Other!ZeroMeansDone
\* A build that the gate of bench-suite stops gets its report all the same.
GateStopsAfterReport == Other!GateStopsAfterReport
\* watch accounts for every line and shows and writes what was asked for.
WatchKeepsResults == Other!WatchKeepsResults
\* analyze-multi succeeds when some source survived.
SurvivorsSuffice == Other!SurvivorsSuffice

\* A reader that comes to its end has yielded every line, unless one was too long.
EveryLineYielded == Reader!EveryLineYielded
\* CommandError is about the child's own failure.
OwnFailureReported == Reader!OwnFailureReported
\* The child that was started does not outlive the iteration over its output.
NoOrphan == Reader!NoOrphan
\* The reader ends after the child and those that hold its pipes, and after it was
\* abandoned.
ReaderEnds == Reader!ReaderEnds

\* Every line of a stream is in one entry, and the statistics add up.
LinesKept == Parser!LinesKept
\* Entries are read in a format that fits them.
FormatsFit == Parser!FormatsFit
\* The format told of a file is that of most of its lines.
SniffMajority == Parser!SniffMajority

\* The statistics of a pool that returns count every entry once.
EveryEntryCounted == Pool!EveryEntryCounted
\* Whatever raises, the caller of the pool gets an answer.
CallerAnswered == Pool!CallerAnswered

\* Only transient failures are tried again, after growing pauses.
TransientOnly == Call!TransientOnly
\* Nothing leaves the machine without settings and anomalies.
NothingSentInVain == Call!NothingSentInVain
\* Every call ends with a report or an error.
CallEnds == Call!CallEnds

----------------------------------------------------------------------------
\* analyze: the code of the gate (but on the parallel pipeline), one document, what it
\* may learn, and a scan that was lost.  Other codes differ from what is documented,
\* see FailuresExitOne of AnalyzeCommand.
AnalyzeHonest == GateHonoured /\ OneDocument /\ LearnsOnceIfAllowed /\ LostScanFails

\* The other commands: code 0 means that what was asked for is there, results are not
\* lost by what fails after them, and they leave on disk what they were asked for and
\* what cannot be removed, whatever fails and whenever Ctrl-C comes, the download of
\* bench-routineness excepted.
CommandsHonest ==
    /\ EphemeralLeavesNothing /\ NoArchiveLeft /\ ZeroMeansDone
    /\ GateStopsAfterReport /\ WatchKeepsResults /\ SurvivorsSuffice

\* No line of a child or of a stream and no entry of a pool is lost, lines are read
\* in a format that fits them, and the child neither outlives its reader nor is
\* blamed for what the reader did to it.
InputFaithful ==
    /\ EveryLineYielded /\ OwnFailureReported /\ NoOrphan /\ EveryEntryCounted
    /\ LinesKept /\ FormatsFit /\ SniffMajority

\* A model is only called with cause and again only when that may help.
CallDisciplined == TransientOnly /\ NothingSentInVain

\* analyze, the reader, the pool and the call end, whatever fails.
AllEnd == Ends /\ ReaderEnds /\ CallerAnswered /\ CallEnds
==============================================================================
