---------------------------- MODULE CommandSource ----------------------------
(***************************************************************************)
(* AsyncCommandReader (detection/ingestion/command.py): a child process    *)
(* writes to one or two pipes, a task per pipe pumps lines into a queue,   *)
(* the reader yields them until it has seen the end of every pipe, and     *)
(* then makes sure that the child is gone.  The child may close its pipes  *)
(* and live on, ignore SIGTERM, or write a line that is longer than the    *)
(* stream's buffer; the consumer may stop iterating at any time.  The      *)
(* child may be a shell: what it has started may hold the pipes open and   *)
(* write to them after it has died, and gets none of the signals.          *)
(***************************************************************************)
EXTENDS Integers, Sequences, FiniteSets

CONSTANTS Stream,    \* pipes that are read: {"stdout"} or {"stdout", "stderr"}
          MaxLines,  \* bound: lines the child writes
          PipeMax    \* lines that fit into a pipe

VARIABLES
    child,     \* running, exited or reaped (its status is known to the loop)
    status,    \* returncode of a child that is not running
    open,      \* pipes the child, or a process it has started, can still write to
    pipe,      \* pipe[s]: lines in the pipe; "long" is a line past the limit
    pump,      \* pump[s]: reads, broken (readline raised), or over (EOF queued)
    queue,     \* asyncio.Queue without a bound: lines and "EOF"
    pc,        \* iterate, terminate, wait, killed, done
    eof_seen, produced_any,
    outcome,   \* none, returned, CommandError, abandoned
    written, got,   \* history: lines written, lines yielded
    cut,            \* history: a pump broke on a long line
    signalled       \* history: terminate or kill reached a running child

vars == <<child, status, open, pipe, pump, queue, pc, eof_seen, produced_any,
          outcome, written, got, cut, signalled>>
childVars == <<child, status, open, written>>
readerVars == <<pc, eof_seen, produced_any, outcome, got>>

Init ==
    /\ child = "running" /\ status = 0 /\ open = Stream
    /\ pipe = [s \in Stream |-> <<>>] /\ pump = [s \in Stream |-> "reads"]
    /\ queue = <<>> /\ pc = "iterate" /\ eof_seen = 0 /\ produced_any = FALSE
    /\ outcome = "none" /\ written = 0 /\ got = 0 /\ cut = FALSE /\ signalled = FALSE

----------------------------------------------------------------------------
\* The child and what it starts, external.

Write(s) ==
    /\ s \in open /\ Len(pipe[s]) < PipeMax /\ written < MaxLines
    /\ \E line \in {"line", "long"} : pipe' = [pipe EXCEPT ![s] = Append(@, line)]
    /\ written' = written + 1
    /\ UNCHANGED <<child, status, open, pump, queue, readerVars, cut, signalled>>

Close(s) ==
    /\ s \in open
    /\ open' = open \ {s}
    /\ UNCHANGED <<child, status, pipe, pump, queue, readerVars, written, cut, signalled>>

\* Its end of a pipe closes with it, unless another process has it, too.
Dies(code) ==
    child' = "exited" /\ status' = code /\ open' \in SUBSET open /\ UNCHANGED written

Exit ==
    /\ child = "running" /\ \E code \in {0, 1} : Dies(code)
    /\ UNCHANGED <<pipe, pump, queue, readerVars, cut, signalled>>

\* The child watcher tells the loop.
Reap ==
    /\ child = "exited" /\ child' = "reaped"
    /\ UNCHANGED <<status, open, pipe, pump, queue, readerVars, written, cut, signalled>>

----------------------------------------------------------------------------
\* pump

PumpLine(s) ==
    /\ pump[s] = "reads" /\ pc = "iterate" /\ pipe[s] # <<>> /\ Head(pipe[s]) = "line"
    /\ pipe' = [pipe EXCEPT ![s] = Tail(@)]
    /\ queue' = Append(queue, "line")
    /\ UNCHANGED <<childVars, pump, readerVars, cut, signalled>>

\* Mutant of PumpBreaks: no finally.
PumpBreaksSilent(s) ==
    /\ pump[s] = "reads" /\ pc = "iterate" /\ pipe[s] # <<>> /\ Head(pipe[s]) = "long"
    /\ pump' = [pump EXCEPT ![s] = "broken"] /\ cut' = TRUE
    /\ UNCHANGED <<childVars, pipe, queue, readerVars, signalled>>
\* readline raises ValueError; finally queues the end of the pipe all the same,
\* and the exception stays in a task that nobody awaits.
PumpBreaks(s) ==
    /\ pump[s] = "reads" /\ pc = "iterate" /\ pipe[s] # <<>> /\ Head(pipe[s]) = "long"
    /\ pump' = [pump EXCEPT ![s] = "broken"] /\ cut' = TRUE
    /\ queue' = Append(queue, "EOF")
    /\ UNCHANGED <<childVars, pipe, readerVars, signalled>>

PumpEnds(s) ==
    /\ pump[s] = "reads" /\ pc = "iterate" /\ pipe[s] = <<>> /\ s \notin open
    /\ pump' = [pump EXCEPT ![s] = "over"]
    /\ queue' = Append(queue, "EOF")
    /\ UNCHANGED <<childVars, pipe, readerVars, cut, signalled>>

----------------------------------------------------------------------------
\* __aiter__ and _terminate

\* Mutant of Streams: one end of a pipe is enough.
OneStream == 1
Streams == Cardinality(Stream)

Get ==
    /\ pc = "iterate" /\ eof_seen < Streams /\ queue # <<>>
    /\ queue' = Tail(queue)
    /\ IF Head(queue) = "EOF"
       THEN eof_seen' = eof_seen + 1 /\ UNCHANGED <<produced_any, got>>
       ELSE produced_any' = TRUE /\ got' = got + 1 /\ UNCHANGED eof_seen
    /\ UNCHANGED <<childVars, pipe, pump, pc, outcome, cut, signalled>>

\* The finally block: the pumps are cancelled.
Finally ==
    /\ pc = "iterate"
    /\ \/ eof_seen = Streams /\ UNCHANGED outcome
       \/ outcome' = "abandoned"  \* Ctrl-C, or the consumer leaves its loop
    /\ pc' = "terminate"
    /\ UNCHANGED <<childVars, pipe, pump, queue, eof_seen, produced_any, got, cut, signalled>>

\* Mutant of Over: what was yielded does not count.
OverAnyway(code) ==
    /\ pc' = "done"
    /\ outcome' = IF outcome = "abandoned" THEN "abandoned"
                  ELSE IF code # 0 THEN "CommandError" ELSE "returned"
\* Past finally: nothing written and a status other than 0 is an error.
Over(code) ==
    /\ pc' = "done"
    /\ outcome' = IF outcome = "abandoned" THEN "abandoned"
                  ELSE IF code # 0 /\ ~produced_any THEN "CommandError" ELSE "returned"

\* A known status needs no signal; SIGTERM to a child that has exited is lost.
Terminate ==
    /\ pc = "terminate"
    /\ IF child = "reaped" THEN Over(status) ELSE pc' = "wait" /\ UNCHANGED outcome
    /\ signalled' = (signalled \/ child = "running")
    /\ UNCHANGED <<childVars, pipe, pump, queue, eof_seen, produced_any, got, cut>>

\* The child obeys SIGTERM (-15), or may have a handler of its own.
Obey ==
    /\ pc = "wait" /\ child = "running" /\ \E code \in {-15, 0} : Dies(code)
    /\ UNCHANGED <<pipe, pump, queue, readerVars, cut, signalled>>

\* Mutant of KillTimeout: the reader gives up.
TimeoutOnly ==
    /\ pc = "wait" /\ child # "reaped" /\ Over(0)
    /\ UNCHANGED <<childVars, pipe, pump, queue, eof_seen, produced_any, got, cut, signalled>>
\* wait_for times out after kill_timeout: SIGKILL.
KillTimeout ==
    /\ pc = "wait" /\ child # "reaped"
    /\ pc' = "killed"
    /\ IF child = "running" THEN Dies(-9) ELSE UNCHANGED childVars
    /\ UNCHANGED <<pipe, pump, queue, eof_seen, produced_any, outcome, got, cut, signalled>>

Waited ==
    /\ pc \in {"wait", "killed"} /\ child = "reaped"
    /\ Over(status)
    /\ UNCHANGED <<childVars, pipe, pump, queue, eof_seen, produced_any, got, cut, signalled>>

Reader == Get \/ Finally \/ Terminate \/ KillTimeout \/ Waited
Pumps == \E s \in Stream : PumpLine(s) \/ PumpBreaks(s) \/ PumpEnds(s)
Child == (\E s \in Stream : Write(s) \/ Close(s)) \/ Exit \/ Obey

Next == Reader \/ Pumps \/ Child \/ Reap

\* The event loop runs what is ready and the timeout fires; the child and what it
\* has started need not ever write, close a pipe or end.
Fairness ==
    /\ WF_vars(Get) /\ WF_vars(Terminate \/ KillTimeout \/ Waited)
    /\ WF_vars(eof_seen = Streams /\ Finally)
    /\ WF_vars(Pumps) /\ WF_vars(Reap)
Spec == Init /\ [][Next]_vars /\ Fairness
----------------------------------------------------------------------------
TypeOK ==
    /\ child \in {"running", "exited", "reaped"} /\ status \in {0, 1, -15, -9}
    /\ pc \in {"iterate", "terminate", "wait", "killed", "done"}
    /\ eof_seen \in 0 .. Cardinality(Stream) /\ got <= written /\ open \subseteq Stream

\* A reader that comes to its end has yielded every line written before the pipe
\* was closed, whichever pump was last, unless a line was too long.
EveryLineYielded ==
    pc = "done" /\ outcome # "abandoned" /\ ~cut /\ ~signalled => got = written

\* CommandError is about the child's own failure: a child that wrote nothing and
\* ended with 0 by itself is no error, one that ended with another status is.
OwnFailureReported ==
    pc = "done" /\ outcome # "abandoned" /\ ~signalled
        => (outcome = "CommandError" <=> status # 0 /\ got = 0)

\* However the iteration ends, the child it has started does not outlive it; what
\* that child has started may.
NoOrphan == pc = "done" => child # "running"

\* The reader ends some time after the child has and nobody holds a pipe, and
\* after it was abandoned, even if the child ignores SIGTERM.
ReaderEnds ==
    /\ (child = "reaped" /\ open = {}) ~> (pc = "done")
    /\ (outcome = "abandoned") ~> (pc = "done")
============================================================================
