----------------------------- MODULE MCAnalysis -----------------------------
(***************************************************************************)
(* Model checking of what happens to lines on their way from the sources   *)
(* to the report and into what is learned: the ladder, the scheduler of    *)
(* sources, the scan in slices, the baseline and the training buffer, and  *)
(* the pure parts (plan of the work, scoring, detectors, findings, view).  *)
(* These parts do not share state: a behaviour exercises one of them, and  *)
(* the others stay where they start.                                       *)
(***************************************************************************)
EXTENDS DegradationLadder, FiniteSets, TLC

CONSTANTS
    Source, Weight, Price, WaitMax,                      \* of the scheduler
    Key, Format, Files, Slices,                          \* of the scan
    Process, Template, Batches, MaxTemplates, MaxSaves,  \* of the baseline
    MaxRows, MinPerClass, RefitEvery, Labels, MaxDeaths, Many  \* of the training

\* Weights are positive, lines take space, and labels are 0 or 1.
ASSUME AnalysisAssumption ==
    /\ IsFiniteSet(Source) /\ "none" \notin Source
    /\ Weight \in [Source -> Nat \ {0}] /\ Price \in Nat \ {0} /\ WaitMax \in Nat
    /\ \A f \in Files :
          f \in Seq([size : Nat \ {0}, seen : Nat, detects : Format \cup {"none"},
                    as : [Format -> Key \cup {"none"}]])
    /\ "none" \notin Key /\ "none" \notin Format
    /\ Slices \subseteq Nat
    /\ IsFiniteSet(Process) /\ IsFiniteSet(Template)
    /\ \A b \in Batches : b \in Seq([key : Template, flagged : BOOLEAN])
    /\ MaxTemplates \in Nat /\ MaxSaves \in Nat
    /\ MaxRows \in Nat /\ MinPerClass \in Nat /\ RefitEvery \in Nat \ {0}
    /\ \A y \in Labels : y \in Seq({0, 1})
    /\ MaxDeaths \in Nat /\ Many \in Nat /\ Many >= RefitEvery

VARIABLES
    part,                                        \* the part exercised
    order, deficit, cursor, credited, waits,     \* of the scheduler
    file, n, way, given, chunks, next, counts, flagged, judged, faults, pc,  \* of the scan
    path, tmp, files, step, base, doc, fd, lone, met,         \* of the baseline
    buffer, model, dim, stage, work, unseen, deaths, full, upgraded,  \* of the training
    input                                        \* of the pure parts

Scheduler == INSTANCE DeficitScheduler WITH Unit <- Price
Scan == INSTANCE SlicedScan
Store == INSTANCE BaselineStore WITH pc <- step
Training == INSTANCE AutoTrain WITH pc <- stage

Plan == INSTANCE SourcePlan
Found == INSTANCE Findings
View == INSTANCE ExplainView
Policy == INSTANCE ScoringPolicy
Detect == INSTANCE Detectors
Fuse == INSTANCE Fusion
----------------------------------------------------------------------------
\* Constants of the parts, as the configuration has them.

Weights == "a" :> 1 @@ "b" :> 1 @@ "c" :> 9

\* An empty line, one of the format L, the rest of a stack trace, which is an entry
\* only as plain text P, and a line that ends in CRLF and so is longer than it seems.
ScanLine(size, seen, told, asL, asP) ==
    [size |-> size, seen |-> seen, detects |-> told, as |-> "L" :> asL @@ "P" :> asP]
ScanLines == {ScanLine(1, 1, "none", "none", "none"), ScanLine(2, 2, "L", "a", "b"),
              ScanLine(3, 3, "P", "none", "b"), ScanLine(3, 2, "L", "b", "b")}
UpTo(k, S) == UNION {[1 .. m -> S] : m \in 0 .. k}
ScanFiles == UpTo(3, ScanLines)

Line(k, f) == [key |-> k, flagged |-> f]
LearnedBatches ==
    {<<Line("a", FALSE), Line("a", FALSE), Line("bad", TRUE)>>, <<Line("b", FALSE)>>,
     <<Line("c", FALSE), Line("b", FALSE), Line("b", TRUE)>>}
PseudoLabels == {<<0>>, <<1>>, <<0, 0>>}
----------------------------------------------------------------------------
\* Inputs of the pure parts, one operator for each kind.

NamedItems == UpTo(4, {"a", "a-2", "b"})
Machines == [cores : 1 .. 12, headroom : -1 .. 5, size : {0, 63, 64, 9000},
             available : {0, 700, 3000, 100000}]
Digests == [digests : UNION {[1 .. m -> 0 .. 3] : m \in 0 .. 4}, workers : {4},
            sizes : {<<10, 20, 30>>, <<17>>, <<>>}]
           \cup [digests : UpTo(4, {0}), workers : {1}, sizes : {<<17>>}]
EventLists == [events : UpTo(3, [time : {0, 2, 3, 7}, source : {1, 2}, rank : {1}])
                        \cup UpTo(2, [time : {0, 2}, source : {1, 2}, rank : {1, 4}]),
               gap : {1, 2}]

AnomalyLists == UpTo(3, [level : {"ERROR", "INFO"}, service : {"a", "b"},
                         template : {"t"}, score : {1, 2}])
\* First and last time; -1 is a family without times, or with one only.
Spans == {<<-1, -1>>, <<0, -1>>, <<0, 9>>, <<2, 3>>, <<6, 6>>, <<7, 8>>}
FamilyLists == UpTo(3, {[level |-> l, service |-> "a", template |-> t, count |-> 2,
                         first |-> s[1], last |-> s[2]] :
                            l \in {"ERROR"}, t \in {"t", "u"}, s \in Spans}
                       \cup {[level |-> "ALERT", service |-> "a", template |-> "t",
                              count |-> 1, first |-> 2, last |-> 3]})
Impacts == [rank : {1, 3, 6}, count : {1, 5}, score : {20, 90}]
Assessed == [families : UpTo(2, Impacts), more : Impacts, lines : {0, 5, 20}]
Budgets == [scores : UpTo(4, 1 .. 3), budget : {1, 2, 5}, hours : {0, 6, 12, 24}]
\* Without a time in the whole file there is no reference; a window of 0 is none.
Windows == [times : UpTo(2, 0 .. 10), ref : {10, 13}, window : 0 .. 9]
           \cup [times : {<<>>}, ref : {Found!NoTime}, window : {0, 5}]
Rankings == [families : UpTo(3, [last : {Found!NoTime, 2, 9}, score : {1, 2}, count : {1, 2}]),
             ref : {Found!NoTime, 10}, window : {0, 5}, limit : {1, 2}]

Explained ==
    [anomalies : UpTo(2, [at : {View!NoTime, 30, 41, 56}, key : {"k", "l"},
                          impact : {"blocking"}])
                 \cup UpTo(3, [at : {View!NoTime, 30, 56}, key : {"k"},
                              impact : {"blocking"}]),
     options : [since : {{}, {View!NoTime}, {41}}, until : {{}, {50}},
                last : {0, 2, 13}, now : {View!NoTime, 60}]]
Records == [lines : UpTo(4, [record : BOOLEAN, blank : BOOLEAN]) \ {<<>>}, most : 1 .. 3]
Failures == [service : {1, 2}, recovers : BOOLEAN]
Impacted == [lines : UpTo(2, Failures) \ {<<>>}, more : Failures,
             words : SUBSET {"hard", "soft", "block"}, timed : BOOLEAN]

Total == 100
Groups ==
    {g \in [sev : {1, 3, 4, 6}, count : {4, 20, 40}, level : {40, 100}, first : {1},
            last : {30, 90}, head : {0, 4, 20}, burst : BOOLEAN] :
        g.head <= g.count /\ g.last - g.first + 1 >= g.count}
Neighbourhoods == {p \in [label : {"noise", "in", "none"}, size : {1, 50}, outlier : BOOLEAN] :
              p.label # "in" => p.size = 50}
Baselines == {[total |-> 0, base |-> 0], [total |-> 50, base |-> 0], [total |-> 50, base |-> 40]}
Grouped == [group : Groups, baseline : Baselines, place : Neighbourhoods]
Cached == [signals : {Policy!SignalsOf(g, Total, b, p) :
                         g \in {h \in Groups : h.sev \in {3, 4, 6} /\ h.head = 0 /\ h.count > 4},
                         b \in {c \in Baselines : c.base = 0},
                         p \in {q \in Neighbourhoods : q.label # "none" /\ q.size = 50}},
           messages : UpTo(2, [burst : BOOLEAN, cat : BOOLEAN, fail : BOOLEAN])]

Ascending(s) == \A i \in DOMAIN s : i = 1 \/ s[i - 1] <= s[i]
Rates == {[b \in 0 .. 5 |-> s[b + 1]] :
             s \in {u \in [1 .. 6 -> {0, 1, 2, 9, 12, 30}] : Ascending(u)}}
Bins == [lines : 20 .. 60, least : {8, 10}]
\* The values 1, 2, 9 and 60, each as often as c says.
Slots == {[i \in 1 .. c[1] + c[2] + c[3] + c[4] |->
              IF i <= c[1] THEN 1 ELSE IF i <= c[1] + c[2] THEN 2
              ELSE IF i <= c[1] + c[2] + c[3] THEN 9 ELSE 60] :
             c \in {d \in [1 .. 4 -> 0 .. 6] : d[1] + d[2] + d[3] + d[4] \in 11 .. 13}}
\* Four sessions, with lines that have no session before the second.
Sessions == [paths : [1 .. 4 -> {<<"a", "b", "c">>, <<"a", "c">>, <<"a", "b">>}],
             others : UpTo(2, {[session |-> 0, template |-> "n"]})]
InSession(s, p) == [k \in DOMAIN p |-> [session |-> s, template |-> p[k]]]
SessionLines(x) ==
    InSession(1, x.paths[1]) \o x.others \o InSession(2, x.paths[2])
        \o InSession(3, x.paths[3]) \o InSession(4, x.paths[4])
\* Two templates, three lines each, at the start of 48 lines.
Companies == [1 .. 2 -> [template : {"t", "u"}, service : {"", "x", "y"}, score : {20, 50}]]
CompanyLines(b) ==
    [i \in 1 .. 48 |-> IF i <= 3 THEN b[1] ELSE IF i <= 6 THEN b[2]
                       ELSE [template |-> "z", service |-> "", score |-> 20]]
Floored == [lines : UpTo(3, [sev : {2, 4}, template : {"t", "u"}, score : {10, 65}]),
            rare : {1, 2}, near : SUBSET {"t"}, flag_at : {60, 80}]
\* Errors per window among warnings, notices and lines without a time.
Bursty == [1 .. 5 -> {0, 2, 12}]
Times(k, sev, w) == [i \in 1 .. k |-> [sev |-> sev, window |-> w]]
BurstyLines(c) ==
    Times(c[1], 3, 0) \o Times(c[2], 3, 1) \o Times(c[3], 3, 2) \o Times(c[4], 3, 3)
        \o Times(c[5], 3, 4) \o Times(2, 4, 0) \o Times(8, 4, 1)
        \o Times(8, 6, 2) \o Times(2, 3, -1)
\* Two templates again, three lines each, the others quiet.
Evidence == [template : {"t", "u"}, service : {"x", "y"}, sev : {3, 6}, base : {20, 50},
             seq : {0, 80}, par : {0}, rate : {0}]
FusedLines == [both : {b \in [1 .. 2 -> Evidence] : b[1].template = "t" /\ b[2].seq = 0},
               part : {"seq", "rate"}, near : SUBSET {"t"}, flag_at : {60, 80}]
EvidenceLines(b) ==
    [i \in 1 .. 16 |->
        IF i % 2 = 1 /\ i <= 6 THEN b[1] ELSE IF i <= 6 THEN b[2]
        ELSE [template |-> "z", service |-> "", sev |-> 6, base |-> 20, seq |-> 0,
              par |-> 0, rate |-> 0]]
Listed == [lines : UpTo(4, [sev : {3, 4, 6}, template : {"t", "u"}]), flags : SUBSET (1 .. 4),
           high : SUBSET (1 .. 2)]
Routines == [positions : {p \in SUBSET (1 .. 8) : 1 \in p}, buckets : {0, 4, 24},
             spread : {-1, 0, 50, 100}, score : {60, 80, 99}]

Inputs(kind) ==
    CASE kind = "names" -> NamedItems      [] kind = "machines" -> Machines
      [] kind = "digests" -> Digests       [] kind = "events" -> EventLists
      [] kind = "anomalies" -> AnomalyLists [] kind = "families" -> FamilyLists
      [] kind = "assessed" -> Assessed     [] kind = "budgets" -> Budgets
      [] kind = "windows" -> Windows       [] kind = "explained" -> Explained
      [] kind = "records" -> Records       [] kind = "impacted" -> Impacted
      [] kind = "grouped" -> Grouped       [] kind = "cached" -> Cached
      [] kind = "rates" -> Rates           [] kind = "bins" -> Bins
      [] kind = "slots" -> Slots           [] kind = "sessions" -> Sessions
      [] kind = "companies" -> Companies   [] kind = "floored" -> Floored
      [] kind = "routines" -> Routines     [] kind = "bursty" -> Bursty
      [] kind = "fused" -> FusedLines      [] kind = "listed" -> Listed
      [] kind = "rankings" -> Rankings
      [] OTHER -> {"none"}
Pure == {"names", "machines", "digests", "events", "anomalies", "families", "assessed",
         "budgets", "windows", "explained", "records", "impacted", "grouped", "cached",
         "rates", "bins", "slots", "sessions", "companies", "floored", "routines",
         "bursty", "fused", "listed", "rankings"}
----------------------------------------------------------------------------
scanVars == <<file, n, way, given, chunks, next, counts, flagged, judged, faults, pc>>
schedulerVars == <<order, deficit, cursor, credited, waits>>
storeVars == <<path, tmp, files, step, base, doc, fd, lone, met>>
trainingVars == <<buffer, model, dim, stage, work, unseen, deaths, full, upgraded>>

MCInit ==
    /\ part \in {"ladder", "scheduler", "scan", "store", "training"} \cup Pure
    /\ input \in Inputs(part)
    /\ part = "scan" \/ (part # "scan" /\ file = <<>> /\ n = 1 /\ way = "turbo")
    /\ Init /\ Scheduler!Init /\ Scan!Init /\ Store!Init /\ Training!Init

MCNext ==
    \/ /\ part = "ladder" /\ Next
       /\ UNCHANGED <<part, input, schedulerVars, scanVars, storeVars, trainingVars>>
    \/ /\ part = "scheduler" /\ Scheduler!Next
       /\ UNCHANGED <<part, input, vars, scanVars, storeVars, trainingVars>>
    \/ /\ part = "scan" /\ Scan!Next
       /\ UNCHANGED <<part, input, vars, schedulerVars, storeVars, trainingVars>>
    \/ /\ part = "store" /\ Store!Next
       /\ UNCHANGED <<part, input, vars, schedulerVars, scanVars, trainingVars>>
    \/ /\ part = "training" /\ Training!Next
       /\ UNCHANGED <<part, input, vars, schedulerVars, scanVars, storeVars>>

MCVars == <<part, input, vars, schedulerVars, scanVars, storeVars, trainingVars>>
MCSpec == MCInit /\ [][MCNext]_MCVars

\* Processes are alike.
Symmetric == Permutations(Process)
----------------------------------------------------------------------------
\* The state of every part is well formed.
TypesOK ==
    TypeOK /\ Scheduler!TypeOK /\ Scan!TypeOK /\ Store!TypeOK /\ Training!TypeOK

\* No source can save up credit for a burst (DeficitScheduler!CreditBounded).
CreditBounded == Scheduler!CreditBounded
\* A source that stays ready is served within its turns.
ServedInTurn == Scheduler!ServedInTurn

\* Where the slices agree on the format, what is counted depends neither on the cut
\* nor on failures of the pool.
CutIndependent == Scan!CutIndependent
\* A scan that lost slices never overstates the file, and its families are the lines
\* that the slices have flagged.
FaultsOnlyLose == Scan!FaultsOnlyLose

\* A crash in a save costs at most that run, unless two runs have overlapped.
CrashLeavesReadable == Store!CrashLeavesReadable
\* No anomaly is learned from, and the cut to the largest templates keeps count.
LearnsNormalOnly == Store!LearnsNormalOnly
\* A run that no other overlapped adds itself to what was published.
LoneRunAddsItself == Store!LoneRunAddsItself
\* The model is refitted as often as it should be, whatever processes died.
RefittedWhenDue == Training!RefittedWhenDue

\* Sources never share an identifier.
UniqueIds == part = "names" => Plan!UniqueIds(input)
\* A scan never takes the cores it has promised to leave.
HeadroomKept ==
    part = "machines" =>
        Plan!HeadroomKept(input.cores, input.headroom, input.size, input.available)
\* No worker has two sources more than another; wide scans use idle workers.
AssignmentBalanced ==
    part = "digests" => Plan!AssignmentBalanced(input.digests, input.workers, input.sizes)
\* Shared incidents are the groups between pauses that several sources have.
CorrelateIsGrouping == part = "events" => Plan!CorrelateIsGrouping(input.events, input.gap)

\* Families are the classes of their key, with the worst score first.
FamiliesPartition == part = "anomalies" => Found!FamiliesPartition(input)
\* Incidents are the groups of severe families whose spans are close.
IncidentsAreGrouping == part = "families" => Found!IncidentsAreGrouping(input, 2)
\* A family whose template is its own gets the number of its own incident.
StampsOwnIncidentIfUnique == part = "families" => Found!StampsOwnIncidentIfUnique(input, 2)
\* One more family never makes the assessment of a run milder.
MoreIsWorse == part = "assessed" => Found!MoreIsWorse(input.families, input.more, input.lines)
\* The suggested cutoff lets pass what the budget allows, up to equal scores.
CutoffFits == part = "budgets" => Found!CutoffFits(input.scores, input.budget, input.hours)
\* The families that a query over saved results lists are the worst ones.
ListIsHead ==
    part = "rankings" =>
        Found!ListIsHead(input.families, input.ref, input.window, input.limit)
\* A query over saved results counts the hours of its window.
WindowCounts == part = "windows" => Found!WindowCounts(input.times, input.ref, input.window)

\* explain shows every anomaly that has a time, or says why it does not.
EveryAnomalyPlaced ==
    part = "explained" => View!EveryAnomalyPlaced(input.anomalies, input.options)
\* The message of explain: without a window it shows all.
UndatedShown == part = "explained" => View!UndatedShown(input.anomalies, input.options)
\* The newest window comes first and ends at the newest anomaly.
NewestOnTop == part = "explained" => View!NewestOnTop(input.anomalies, input.options.last)
\* The sparkline has every event in the column of its time.
SparklineTruthful ==
    part = "explained" => View!SparklineTruthful(input.anomalies, input.options, 4)
\* A block of raw lines never runs into the next record.
BlockStaysInRecord ==
    part = "records" =>
        \A i \in DOMAIN input.lines : View!BlockStaysInRecord(input.lines, i, input.most)
\* More evidence of impact never lowers the impact, at any level.
ImpactOrdered ==
    part = "impacted" => View!ImpactOrdered(input.lines, input.more, input.words, input.timed)

\* The score cache never changes a score.
CacheTransparent == part = "cached" => Policy!CacheTransparent(input.signals, input.messages)
\* Hard failures are flagged whatever dampens the score.
HardFlagged ==
    part = "grouped" => Policy!HardFlagged(input.group, Total, input.baseline, input.place)
\* A worse level never scores lower.
WorseLevelNotLower ==
    part = "grouped" => Policy!WorseLevelNotLower(input.group, Total, input.baseline, input.place)
\* What the baseline knows to be usual never scores higher for it.
BaselineQuiets ==
    part = "grouped" =>
        \A k \in {4, 20} : Policy!BaselineQuiets(input.group, Total, k, input.place)

\* A burst is flagged in its bins and nowhere else.
BurstsStandOut == part = "rates" => Detect!BurstsStandOut(input)
\* The bins cover the file evenly and in order.
BinsEven == part = "bins" => Detect!BinsEven(input.lines, input.least)
\* Unusual values do not hide each other.
OutliersUnmasked == part = "slots" => Detect!OutliersUnmasked(input, 1)
\* A session is anomalous as a whole or not at all.
SessionsWhole == part = "sessions" => Detect!SessionsWhole(SessionLines(input), 3, 2, 70)
\* A line is lifted only by another template on its service.
LiftedInCompany == part = "companies" => Detect!LiftedInCompany(CompanyLines(input), 8)
\* A rare severe line is flagged at every sensitivity.
RareSevereSurfaced ==
    part = "floored" =>
        Detect!RareSevereSurfaced(input.lines, input.near, input.rare, input.flag_at)
\* Knowing a template never makes it look less routine.
KnownMoreRoutine ==
    part = "routines" =>
        Detect!KnownMoreRoutine(input.positions, 8, input.buckets, input.spread, input.score)
\* Bursts are exceptions of their severity.
BurstsExceptional == part = "bursty" => Fuse!BurstsExceptional(BurstyLines(input), 5, 4)
\* What one detector finds, no other stage takes back.
EvidenceReachesFlag ==
    part = "fused" =>
        Fuse!EvidenceReachesFlag(EvidenceLines(input.both), 1, input.part, 75, 2,
                                 input.near, 3, input.flag_at)
\* The groups and patterns of a report tell of every flagged line.
GroupsTellFlagged ==
    part = "listed" =>
        Fuse!GroupsTellFlagged(
            input.lines,
            [i \in DOMAIN input.lines |->
                IF i \notin input.flags THEN 10 ELSE IF i \in input.high THEN 90 ELSE 70],
            70, 2, 1)

----------------------------------------------------------------------------
\* Load has its limits: load that lasts moves the ladder, no source saves up credit
\* for a burst, and no scan takes the cores it should leave.
LoadLimited == SustainedLoadMoves /\ CreditBounded /\ HeadroomKept

\* Work is shared out: no source waits past its turn, shares its name or overloads
\* one worker.
WorkShared == ServedInTurn /\ UniqueIds /\ AssignmentBalanced

\* The counts of a sliced scan add up to the file, whatever the cut, less what its
\* lost slices held, and its families to what the slices have flagged.
ScanAddsUp == CutIndependent /\ FaultsOnlyLose

\* What is learned is normal, survives a crash, and is put to use when due.
LearningSafe == CrashLeavesReadable /\ LearnsNormalOnly /\ RefittedWhenDue

\* A report follows from the findings and leaves none out: groups, families,
\* incidents over one source and over several, their stamps, the suggested cutoff,
\* the ranking of saved families, and the cards and sparklines of explain, the
\* newest first; what has no time is counted and not shown.
ReportComplete ==
    /\ FamiliesPartition /\ IncidentsAreGrouping /\ StampsOwnIncidentIfUnique
    /\ CorrelateIsGrouping /\ CutoffFits /\ ListIsHead /\ GroupsTellFlagged
    /\ EveryAnomalyPlaced /\ NewestOnTop /\ SparklineTruthful

\* What is said of a line or a finding follows from its evidence: a score depends on
\* its line and is ordered by what the line says, one more finding never makes a
\* verdict or an impact milder, a query counts its window, if there is one, and a
\* quotation keeps to one record.
VerdictsFollow ==
    /\ CacheTransparent /\ HardFlagged /\ WorseLevelNotLower /\ BaselineQuiets
    /\ MoreIsWorse /\ WindowCounts /\ BlockStaysInRecord /\ ImpactOrdered

\* Each detector flags what it is there for and no usual line, and what one has
\* found reaches the report.
DetectorsSound ==
    /\ BurstsStandOut /\ BinsEven /\ OutliersUnmasked /\ SessionsWhole
    /\ LiftedInCompany /\ RareSevereSurfaced /\ KnownMoreRoutine
    /\ BurstsExceptional /\ EvidenceReachesFlag
==============================================================================
