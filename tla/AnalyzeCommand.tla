--------------------------- MODULE AnalyzeCommand ---------------------------
(***************************************************************************)
(* `loglens analyze` (interface/cli.py): which of its three pipelines a    *)
(* run takes, what each does in which order, what it leaves behind, and    *)
(* its exit code.  What an analysis finds is a choice; the trail lists the *)
(* effects others can see.                                                 *)
(***************************************************************************)
EXTENDS Integers, Sequences, FiniteSets, SequencesExt

CONSTANTS MaxWorkers,  \* bound on the workers of a parallel scan
          MaxScans     \* bound on the history counter scans

VARIABLES
    opt,     \* the options
    route,   \* the pipeline taken: none yet, exact, turbo or parallel
    nw,      \* workers of the next parallel scan
    found,   \* levels of the families that the run reports
    lost,    \* the last parallel scan lost every slice
    scans,   \* history: parallel scans made
    trail,   \* effects: learned, banked, rca, html, json, results, and what the
             \* user is told of: empty, rca-failed
    exit,    \* exit code, -1 while it runs
    pc

vars == <<opt, route, nw, found, lost, scans, trail, exit, pc>>

Levels == {"error", "info"}

\* The options that decide the course of a run.  Those that only decide a step
\* (dry-run, rca, html, headroom, limit, sort-by) are chosen at that step.
Options ==
    [way : {"auto", "exact", "turbo", "parallel"}, deep : BOOLEAN, json : BOOLEAN,
     fail_on : {"none", "unknown", "any", "error"}, learn : BOOLEAN,
     model : {"none", "bundled", "auto", "path"}]

Init ==
    /\ opt \in Options
    /\ route = "none" /\ nw = 0 /\ found = {} /\ lost = FALSE
    /\ scans = 0 /\ trail = <<>> /\ exit = -1 /\ pc = "start"

Goto(label) == pc' = label /\ UNCHANGED exit
Exit(code) == pc' = "done" /\ exit' = code
Leaves(effect) == trail' = Append(trail, effect)
Same == UNCHANGED <<opt, route, nw, found, lost, scans>>

\* check_source rejects what is not a readable text log.
RejectSource == pc = "start" /\ Exit(1) /\ Same /\ UNCHANGED trail

\* A file that looks too large is scanned in parallel unless told otherwise;
\* only a local file can be.
ChooseRoute ==
    /\ pc = "start"
    /\ \E local, large \in BOOLEAN :
          route' = IF local /\ (opt.way = "parallel" \/ (opt.way = "auto" /\ large))
                   THEN "parallel"
                   ELSE IF opt.way = "turbo" THEN "turbo" ELSE "exact"
    /\ Goto(CASE route' = "parallel" -> "resolve"
              [] route' = "turbo"    -> "turbo"
              [] OTHER               -> "collect")
    /\ UNCHANGED <<opt, nw, found, lost, scans, trail>>

----------------------------------------------------------------------------
\* _run_parallel

\* _resolve_model_path: a head that is asked for by path, or a torn one, may not
\* load; auto may find none yet.  Deep runs have no head.
ResolveModel ==
    /\ pc = "resolve"
    /\ \/ ~opt.deep /\ opt.model # "none" /\ Exit(1) /\ UNCHANGED nw
       \/ Goto("scan") /\ nw' \in 1 .. MaxWorkers
    /\ UNCHANGED <<opt, route, found, lost, scans, trail>>

\* Mutant of Fewer: the same scan again.
SameAgain(w) == w
Fewer(w) == w \div 2

\* parallel_analyze_file, again with half the workers while every slice is lost.
Scan ==
    /\ pc = "scan" /\ scans < MaxScans /\ scans' = scans + 1
    /\ \/ lost' = FALSE /\ found' \in SUBSET Levels /\ Goto("report") /\ UNCHANGED nw
       \/ /\ lost' = TRUE /\ UNCHANGED found
          /\ IF nw <= 1 THEN Goto("report") /\ UNCHANGED nw
             ELSE Goto("scan") /\ nw' = Fewer(nw)
    /\ UNCHANGED <<opt, route, trail>>

\* Mutant of Report: a scan without a result is a success too.
ReportSucceeds ==
    /\ pc = "report"
    /\ IF opt.json THEN Leaves("json")
       ELSE IF lost THEN UNCHANGED trail
       ELSE Leaves("results") \/ UNCHANGED trail
    /\ Exit(0)
    /\ Same
\* The results as a document, or on the terminal and in a file next to the log.
Report ==
    /\ pc = "report"
    /\ IF opt.json THEN Leaves("json")
       ELSE IF lost THEN UNCHANGED trail
       ELSE Leaves("results") \/ UNCHANGED trail  \* could not save results
    /\ Exit(IF lost THEN 1 ELSE 0)
    /\ Same

----------------------------------------------------------------------------
\* The turbo and the exact pipeline

Turbo ==
    /\ pc = "turbo"
    /\ found' \in SUBSET Levels
    /\ Goto("rca")
    /\ UNCHANGED <<opt, route, nw, lost, scans, trail>>

\* _collect_entries; a dry run and a source without entries end here, a deep run
\* without its library too.
Collect ==
    /\ pc = "collect"
    /\ \/ Exit(0) /\ UNCHANGED trail      \* --dry-run
       \/ Exit(0) /\ Leaves("empty")      \* No valid log entries found.
       \/ opt.deep /\ Exit(1) /\ UNCHANGED trail
       \/ Goto("learn") /\ UNCHANGED trail
    /\ Same

\* Mutant of Learn: --no-learn is not looked at.
LearnAlways ==
    /\ pc = "learn" /\ Goto("model")
    /\ \E saved \in SUBSET {"learned", "banked"} : trail' = trail \o SetToSeq(saved)
    /\ Same
\* Detection against the baseline; then the baseline and the training buffer
\* are saved, each if it can be.
Learn ==
    /\ pc = "learn" /\ Goto("model")
    /\ \E saved \in IF opt.learn THEN SUBSET {"learned", "banked"} ELSE {{}} :
          trail' = trail \o SetToSeq(saved)
    /\ Same

\* The supervised head decides in the detector's place, if there is one; one
\* that does not load ends the run, which has learned by now.  INFO lines
\* without a keyword are not reported.
Judge ==
    /\ pc = "model"
    /\ \/ opt.model # "none" /\ Exit(1) /\ UNCHANGED found
       \/ found' \in SUBSET Levels /\ Goto("pool")
    /\ UNCHANGED <<opt, route, nw, lost, scans, trail>>

\* run_worker_pool counts the entries; families are grouped, ordered and shown.
Present == pc = "pool" /\ Goto("rca") /\ Same /\ UNCHANGED trail

\* --rca, with something to explain: LLMError is reported and the run goes on;
\* another exception, an OSError of the saved report among them, is not caught.
Rca ==
    /\ pc = "rca"
    /\ \/ Goto("html") /\ UNCHANGED trail
       \/ found # {} /\ Goto("html") /\ (Leaves("rca") \/ Leaves("rca-failed"))
       \/ found # {} /\ Exit(1) /\ UNCHANGED trail
    /\ Same

\* --html; a file that cannot be written ends the run.
Html ==
    /\ pc = "html"
    /\ \/ Goto("emit") /\ UNCHANGED trail
       \/ Goto("emit") /\ Leaves("html")
       \/ Exit(1) /\ UNCHANGED trail
    /\ Same

\* Mutant of Trips: any anomaly trips the gate.
TripsOnAny(fail_on, items) == fail_on # "none" /\ items # {}
\* _apply_fail_on: an unknown threshold is reported and does not gate.
Trips(fail_on, items) ==
    (fail_on = "any" /\ items # {}) \/ (fail_on = "error" /\ "error" \in items)

\* Mutant of Emit: the gate first.
EmitGated ==
    /\ pc = "emit"
    /\ IF Trips(opt.fail_on, found) THEN Exit(2) /\ UNCHANGED trail
       ELSE Goto("gate") /\ IF opt.json THEN Leaves("json") ELSE UNCHANGED trail
    /\ Same
\* _emit_json
Emit ==
    /\ pc = "emit" /\ Goto("gate")
    /\ IF opt.json THEN Leaves("json") ELSE UNCHANGED trail
    /\ Same

Gate ==
    /\ pc = "gate"
    /\ Exit(IF Trips(opt.fail_on, found) THEN 2 ELSE 0)
    /\ Same /\ UNCHANGED trail

\* main: an exception that no step catches ends the run with 1.  A file that is
\* gone raises out of the turbo scan, and out of every round of a parallel one.
Uncaught ==
    /\ pc \in {"scan", "turbo", "collect", "learn", "model", "pool"} /\ Exit(1)
    /\ scans' = IF pc = "scan" THEN scans + 1 ELSE scans
    /\ scans' <= MaxScans
    /\ UNCHANGED <<opt, route, nw, found, lost, trail>>

Next ==
    \/ RejectSource \/ ChooseRoute \/ ResolveModel \/ Scan \/ Report \/ Turbo
    \/ Collect \/ Learn \/ Judge \/ Present \/ Rca \/ Html \/ Emit \/ Gate
    \/ Uncaught

\* A command runs until it ends.
Fairness == WF_vars(Next)
Spec == Init /\ [][Next]_vars /\ Fairness
----------------------------------------------------------------------------
Times(effect) == Cardinality({i \in DOMAIN trail : trail[i] = effect})

TypeOK ==
    /\ opt \in Options /\ route \in {"none", "exact", "turbo", "parallel"}
    /\ nw \in 0 .. MaxWorkers /\ scans \in 0 .. MaxScans /\ found \subseteq Levels
    /\ exit \in -1 .. 2

\* A reported family is as bad as the threshold, if there is a threshold.
AsBad == found # {} /\ (opt.fail_on = "any" \/ (opt.fail_on = "error" /\ "error" \in found))

\* --fail-on: on the exact and the turbo pipeline, a run that comes to its end
\* exits with 2 if and only if a reported family is as bad as the threshold.
GateHonoured == exit \in {0, 2} /\ route # "parallel" => (exit = 2 <=> AsBad)

\* "Exit non-zero (code 2) if any anomaly is this severity or worse": the same
\* on every pipeline.
GateHonouredEverywhere == exit \in {0, 2} => (exit = 2 <=> AsBad)

\* A build that asks for JSON gets one document with the anomalies, the build
\* that the gate stops too, and never a second one.
OneDocument ==
    /\ Times("json") <= 1
    /\ opt.json /\ exit \in {0, 2} /\ found # {} => Times("json") = 1

\* A run learns once at most, only if it may, and only on the exact pipeline:
\* per-slice results never enter the baseline.
LearnsOnceIfAllowed ==
    /\ Times("learned") <= 1
    /\ Times("learned") + Times("banked") > 0 => opt.learn /\ route = "exact"

\* A parallel scan that lost every slice is a failure and leaves no results to
\* explore, and it is reported as lost only after one worker was tried.
LostScanFails ==
    /\ route = "parallel" /\ pc = "done" /\ lost => exit = 1 /\ Times("results") = 0
    /\ pc = "report" /\ lost => nw = 1

\* "1: Failure - no valid entries, ... LLM/RCA error", says the table of exit codes:
\* a run without entries, or with a root-cause analysis that failed, is no success.
FailuresExitOne ==
    exit = 0 => Times("empty") = 0 /\ Times("rca-failed") = 0

\* However many scans are lost, the command ends.
Ends == <>(pc = "done")
============================================================================
