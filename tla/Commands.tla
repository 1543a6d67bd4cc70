------------------------------ MODULE Commands ------------------------------
(***************************************************************************)
(* The commands of interface/cli.py beside analyze, explain and daemon:    *)
(* what each does in which order, which failures it catches, what it       *)
(* leaves on disk and with which code it exits.  Every command may be      *)
(* interrupted at every step (Ctrl-C), and an exception that it does not   *)
(* catch ends it in main with code 1.                                      *)
(***************************************************************************)
EXTENDS Integers, FiniteSets

CONSTANTS Window,      \* --window of watch
          MaxLines,    \* bound: lines a watched command writes
          MaxSources   \* bound: sources of analyze-multi

VARIABLES
    cmd, opt,   \* the command and its options
    pc,
    disk,       \* files the command has left: tmp, archive, log, labels, ...
    held,       \* what the system does not let the command remove
    said,       \* what has been shown: answer, document, table, summary, gate
    low,        \* the measured F1 is below --min-f1
    tally,      \* analyze-multi: a sources, b of them faulted; watch: a lines heard,
                \* b judged, slid out of the window before, and whether the last
                \* rescore raised
    cut,        \* history: where Ctrl-C hit, "nowhere" if it did not
    exit        \* -1 while the command runs

vars == <<cmd, opt, pc, disk, held, said, low, tally, cut, exit>>

Flags(c) ==
    CASE c = "ask"                -> {}
      [] c = "benchmark"          -> {"gate"}
      [] c = "train"              -> {}
      [] c = "bench"              -> {"out"}
      [] c = "bench-suite"        -> {"json", "out", "md", "gate"}
      [] c = "bench-fetch"        -> {"download", "sample", "from"}
      [] c = "bench-routineness"  -> {"download", "keep", "dir", "json"}
      [] c = "watch"              -> {"rca", "rca-out", "html"}
      [] c = "analyze-multi"      -> {"json"}
      [] c = "explore"            -> {}
Commands == {"ask", "benchmark", "train", "bench", "bench-suite", "bench-fetch",
             "bench-routineness", "watch", "analyze-multi", "explore"}

\* What a command removes: tmp stands for whatever is in the temporary directory.
Removes(c) ==
    CASE c = "bench-fetch"       -> {"archive", "sample"}
      [] c = "bench-routineness" -> {"archive", "tmp"}
      [] OTHER                   -> {}

Init ==
    /\ cmd \in Commands /\ opt \in SUBSET Flags(cmd)
    /\ pc = cmd /\ disk = {} /\ said = {} /\ low \in BOOLEAN /\ held \in SUBSET Removes(cmd)
    /\ tally = [a |-> 0, b |-> 0, slid |-> 0, raised |-> FALSE]
    /\ cut = "nowhere" /\ exit = -1

At(label) == pc = label /\ UNCHANGED <<cmd, opt, low, held, cut>>
Goto(label) == pc' = label /\ UNCHANGED exit
Exit(code) == pc' = "done" /\ exit' = code
Quiet == UNCHANGED <<disk, said, tally>>
Leaves(f) == disk' = disk \cup {f} /\ UNCHANGED <<said, tally>>
Says(what) == said' = said \cup {what} /\ UNCHANGED <<disk, tally>>

\* main: an exception that comes to it, clean or unexpected, exits with 1.
Uncaught == Exit(1) /\ Quiet

----------------------------------------------------------------------------
\* ask: detection, then one call of the model; LLMError exits with 1 too.
Ask ==
    \/ At("ask") /\ (Uncaught \/ (Goto("asking") /\ Quiet))  \* no entries, no library
    \/ At("asking") /\ (Uncaught \/ (Exit(0) /\ Says("answer")))

----------------------------------------------------------------------------
\* benchmark, train, bench

\* Mutant of Gate: a result on the limit's wrong side passes.
GateOpen == Exit(0)
\* --min-f1, in the last step of benchmark and bench-suite.
Gate == IF "gate" \in opt /\ low THEN Exit(1) ELSE Exit(0)

Benchmark ==
    \/ At("benchmark") /\ (Uncaught \/ (Goto("measured") /\ Says("table")))
    \/ At("measured") /\ Gate /\ Says("gate")

\* One class only is refused; the model is written in place.
Train ==
    \/ At("train") /\ (Uncaught \/ (Goto("saving") /\ Leaves("torn-model")))
    \/ At("saving") /\ (Uncaught \/ (Exit(0) /\ disk' = {"model"} /\ UNCHANGED <<said, tally>>))

Bench ==
    \/ At("bench") /\ (Uncaught \/ (Goto("timed") /\ Says("table")))
    \/ At("timed") /\ IF "out" \in opt THEN Uncaught \/ (Exit(0) /\ Leaves("results"))
                      ELSE Exit(0) /\ Quiet

----------------------------------------------------------------------------
\* bench-suite: the report is shown and saved before the gate is looked at.

SuiteShown == Goto("report") /\ Says(IF "json" \in opt THEN "document" ELSE "table")

\* Mutant of Written: what fails the gate is not saved.
WrittenIfPassed(flag, file, next) ==
    IF flag \in opt /\ ~("gate" \in opt /\ low)
    THEN Uncaught \/ (Goto(next) /\ Leaves(file)) ELSE Goto(next) /\ Quiet
Written(flag, file, next) ==
    IF flag \in opt THEN Uncaught \/ (Goto(next) /\ Leaves(file)) ELSE Goto(next) /\ Quiet

BenchSuite ==
    \/ At("bench-suite") /\ (Uncaught \/ SuiteShown)  \* no labels.json, no file
    \/ At("report") /\ Written("out", "report", "markdown")
    \/ At("markdown") /\ Written("md", "markdown", "gate")
    \/ At("gate") /\ Gate /\ Says("gate")

----------------------------------------------------------------------------
\* bench-fetch and application/loghub.py

\* The archive goes to a temporary file, which fetch_dataset removes whatever
\* happens; the sample goes to a file in the suite, which is removed at the end.
FetchStart ==
    /\ At("bench-fetch")
    /\ \/ Uncaught  \* unknown system, no source, no file
       \/ opt # {} /\ Goto(IF "download" \in opt THEN "fetch" ELSE "convert")
          /\ IF "download" \in opt THEN Leaves("archive")
             ELSE IF "sample" \in opt THEN Leaves("sample") ELSE Quiet

\* A file that cannot be removed stays, and nobody hears of it: os.unlink and
\* os.remove are tried, rmtree ignores its errors.
Without(files) == disk \ (files \ held)

\* Mutant of Unlinked: nothing is removed.
UnlinkedNever == disk
\* The finally of fetch_dataset.
Unlinked == Without({"archive"})

Fetch ==
    /\ At("fetch")
    /\ \/ Goto("convert") /\ Quiet
       \/ Exit(1) /\ disk' = Unlinked /\ UNCHANGED <<said, tally>>

\* _write: the log first, then labels.json, both in place.
Convert ==
    \/ At("convert") /\ (\/ Goto("labels") /\ Leaves("log")
                         \/ Exit(1) /\ disk' = Unlinked /\ UNCHANGED <<said, tally>>)
    \/ At("labels")
       /\ \/ Exit(1) /\ disk' = Unlinked
          \/ Exit(0) /\ disk' = Without({"archive", "sample"}) \cup {"labels"}
       /\ UNCHANGED <<said, tally>>

----------------------------------------------------------------------------
\* bench-routineness: with --download the suite is in a temporary directory.
RoutinenessStart ==
    /\ At("bench-routineness")
    /\ \/ Uncaught  \* neither --dir nor --download, or an unknown dataset
       \/ "download" \in opt /\ Goto("ephemeral") /\ disk' = {"tmp", "archive"}
          /\ UNCHANGED <<said, tally>>
       \/ "download" \notin opt /\ "dir" \in opt /\ Goto("evaluate") /\ Quiet

RemoveTmp == Without({"tmp", "archive", "log", "labels"})

\* except Exception: the directory is removed.
EphemeralFetch ==
    /\ At("ephemeral")
    /\ \/ Exit(1) /\ disk' = RemoveTmp
       \/ Goto("evaluate") /\ disk' = Unlinked \cup {"log", "labels"}
    /\ UNCHANGED <<said, tally>>

\* Mutant of Swept: the directory is removed only after a success.
SweptOnSuccess == IF pc = "evaluated" THEN RemoveTmp ELSE disk
\* The finally of the evaluation.
Swept == IF "download" \in opt /\ "keep" \notin opt THEN RemoveTmp ELSE disk

\* It tells the user, too: "fetched data deleted (nothing kept on disk)".
Tidied ==
    /\ disk' = Swept
    /\ said' = IF "download" \in opt /\ opt \cap {"keep", "json"} = {}
               THEN said \cup {"deleted"} ELSE said

Evaluate ==
    \/ At("evaluate")
       /\ \/ Exit(1) /\ Tidied /\ UNCHANGED tally
          \/ Goto("evaluated") /\ Says("table")
    \/ At("evaluated") /\ Exit(0) /\ Tidied /\ UNCHANGED tally

----------------------------------------------------------------------------
\* watch: the parser holds the last line back; the detector has those before it.

\* Lines in the window that no rescore has judged.
Waiting(t) == t.a - 1 - t.b - t.slid

\* feed_entry: the held line enters the window; the oldest one leaves, unjudged
\* if all of them wait.
Fed(t) == IF t.a = 0 \/ Waiting(t) < Window THEN t ELSE [t EXCEPT !.slid = @ + 1]

\* _rescore judges all that is in the window.
Judged(t) == [t EXCEPT !.b = t.a - t.slid]

\* It may not be due yet, and one that raises judges nothing; the next one may.
WatchLine ==
    /\ At("watch") /\ tally.a < MaxLines
    /\ \E t \in {Fed(tally), Judged(Fed(tally))} : tally' = [t EXCEPT !.a = @ + 1]
    /\ UNCHANGED <<pc, disk, said, exit>>

\* The stream ends; CommandError comes only when it has yielded nothing.
WatchEnds ==
    /\ At("watch")
    /\ Goto("flush") \/ (tally.a = 0 /\ Exit(1))
    /\ Quiet

\* Mutant of Flush: what the detector still holds is not asked for.
FlushNothing ==
    /\ At("flush") /\ Goto("watch-rca") /\ said' = said \cup {"summary"}
    /\ UNCHANGED <<disk, tally>>
\* The held line is fed, and may be judged at once; then all are, unless that
\* rescore raises, which the command does not tell.
Flush ==
    /\ At("flush") /\ Goto("watch-rca") /\ said' = said \cup {"summary"}
    /\ \E t \in {Fed(tally), Judged(Fed(tally))} :
          tally' = Judged(t) \/ (t.a > 0 /\ tally' = [t EXCEPT !.raised = TRUE])
    /\ UNCHANGED disk

\* --rca or --rca-out: LLMError is reported and the command goes on; every other
\* exception ends it, with the summary on the screen and no HTML report.
WatchRca ==
    /\ At("watch-rca")
    /\ IF opt \cap {"rca", "rca-out"} = {} THEN Goto("watch-html") /\ Quiet
       ELSE \/ Goto("watch-html") /\ Says("rca-failed")
            \/ /\ Goto("watch-html") /\ said' = said \cup {"answer"} /\ UNCHANGED tally
               /\ disk' = IF "rca-out" \in opt THEN disk \cup {"rca"} ELSE disk
            \/ Exit(1) /\ (Quiet \/ Says("answer"))

WatchHtml ==
    /\ At("watch-html")
    /\ IF "html" \in opt THEN Uncaught \/ (Exit(0) /\ Leaves("html"))
       ELSE Exit(0) /\ Quiet

Watch == WatchLine \/ WatchEnds \/ Flush \/ WatchRca \/ WatchHtml

----------------------------------------------------------------------------
\* analyze-multi: a source that faults has a row, and after the table its error.
Counted(n, f) == [tally EXCEPT !.a = n, !.b = f]

MultiAnalyze ==
    /\ At("analyze-multi")
    /\ \/ Exit(2) /\ Quiet  \* BadParameter: overflow policy or source
       \/ /\ \E n \in 1 .. MaxSources : \E f \in 0 .. n : tally' = Counted(n, f)
          /\ IF "json" \in opt THEN Exit(0) /\ said' = {"document"}
             ELSE Goto("rows") /\ said' = {"table"}
          /\ UNCHANGED disk

\* Mutant of Hopeless: one faulted source fails the command.
OneFaulted(t) == t.b > 0
Hopeless(t) == t.b = t.a

MultiRows == At("rows") /\ Exit(IF Hopeless(tally) THEN 1 ELSE 0) /\ Quiet

----------------------------------------------------------------------------
\* explore: the menu, and a prompt inside of three of its four choices; the end
\* of input is caught at the menu only.
Explore ==
    \/ At("explore") /\ (Uncaught \/ (Goto("menu") /\ Says("header")))
    \/ At("menu") /\ (Exit(0) \/ Goto("menu") \/ Goto("prompt")) /\ Quiet
    \/ At("prompt") /\ (Uncaught \/ (Goto("menu") /\ Says("table")))

----------------------------------------------------------------------------
\* Ctrl-C.  finally blocks run, except clauses for Exception do not; watch and
\* the menu of explore catch it; main exits with 130.
CtrlC ==
    /\ pc # "done" /\ cut = "nowhere" /\ cut' = pc
    /\ CASE pc = "watch" -> Goto("flush") /\ UNCHANGED <<disk, said>>
         [] pc = "menu"  -> Exit(0) /\ UNCHANGED <<disk, said>>
         [] pc \in {"evaluate", "evaluated"} -> Exit(130) /\ Tidied
         [] OTHER -> Exit(130) /\ disk' = Unlinked /\ UNCHANGED said
    /\ UNCHANGED <<cmd, opt, low, held, tally>>

Next ==
    \/ Ask \/ Benchmark \/ Train \/ Bench \/ BenchSuite
    \/ FetchStart \/ Fetch \/ Convert
    \/ RoutinenessStart \/ EphemeralFetch \/ Evaluate
    \/ Watch \/ MultiAnalyze \/ MultiRows \/ Explore \/ CtrlC

Spec == Init /\ [][Next]_vars
----------------------------------------------------------------------------
TypeOK ==
    /\ cmd \in Commands /\ opt \subseteq Flags(cmd) /\ exit \in {-1, 0, 1, 2, 130}
    /\ tally.a \in 0 .. MaxLines \cup 1 .. MaxSources /\ tally.b \in 0 .. tally.a
    /\ tally.slid \in 0 .. tally.a /\ tally.raised \in BOOLEAN
    /\ held \subseteq Removes(cmd) /\ (pc = "done" <=> exit # -1)

\* bench-routineness --download without --keep has removed its directory and the
\* archive when it ends, in whatever way, but for what cannot be removed and
\* unless Ctrl-C hit the download itself.
EphemeralLeavesNothing ==
    pc = "done" /\ cmd = "bench-routineness" /\ "keep" \notin opt /\ cut # "ephemeral"
        => disk \subseteq held

\* No command leaves the archive it has downloaded, whoever ends it, if it can be
\* removed.
NoArchiveLeft == pc = "done" => "archive" \notin disk \ held

\* Code 0 means that what was asked for is there: the answer, the whole model, the
\* log with its labels and nothing else that could be removed, every report file,
\* and a result that passed the gate.
ZeroMeansDone ==
    exit = 0 =>
        /\ cmd = "ask" => "answer" \in said
        /\ cmd = "train" => disk = {"model"}
        /\ cmd = "bench-fetch" => disk \ held = {"log", "labels"}
        /\ cmd \in {"benchmark", "bench-suite"} => ~("gate" \in opt /\ low)
        /\ cmd = "bench-suite" => \A f \in opt \ {"json", "gate"} :
                                     (IF f = "md" THEN "markdown" ELSE "report") \in disk
        /\ cmd = "analyze-multi" /\ "json" \notin opt => tally.b < tally.a

\* A build that the gate stops gets its report all the same.
GateStopsAfterReport ==
    cmd = "bench-suite" /\ exit = 1 /\ cut = "nowhere" /\ "gate" \in said
        => /\ (IF "json" \in opt THEN "document" ELSE "table") \in said
           /\ "out" \in opt => "report" \in disk
           /\ "md" \in opt => "markdown" \in disk

\* A watch that heard something shows its summary even if the model or the HTML
\* report then fails it.  One that returns 0 has told of a model that was asked
\* and written the report; every line was judged or slid out before, none slid
\* out of a session that fits the window, and only a last rescore that raised
\* leaves lines unjudged.
WatchKeepsResults ==
    cmd = "watch" =>
        /\ exit = 0 \/ (exit = 1 /\ tally.a > 0) => "summary" \in said
        /\ exit = 0 =>
              /\ tally.raised \/ tally.b + tally.slid = tally.a
              /\ tally.slid > 0 => tally.a > Window
              /\ "html" \in opt => "html" \in disk
              /\ opt \cap {"rca", "rca-out"} # {} => said \cap {"answer", "rca-failed"} # {}

\* A run that some source survived is a success, with the failed ones named.
SurvivorsSuffice == cmd = "analyze-multi" /\ tally.b < tally.a /\ cut = "nowhere" => exit # 1
============================================================================
