----------------------------- MODULE SourcePlan -----------------------------
(***************************************************************************)
(* How work is laid out before it starts and put together when it is done: *)
(* identifiers of sources (application/sources.py), cores and workers      *)
(* (scheduler.py, autoscale.py), and the incidents several sources share   *)
(* (multisource.py).  Pure operators.                                      *)
(***************************************************************************)
EXTENDS Integers, Sequences, FiniteSets, FiniteSetsExt, SequencesExt, Functions, TLC

AtLeast1(k) == Max({1, k})

----------------------------------------------------------------------------
\* Identifiers of the sources on a command line.

Numbered(b, k) == IF k = 1 THEN b ELSE b \o "-" \o ToString(k)

\* Mutant of FreshId: the number is taken without looking.
FreshIdUnseen(b, used) == IF b \in used THEN Numbered(b, 2) ELSE b
\* while sid in used: sid = f"{base}-{n}"
FreshId(b, used) ==
    Numbered(b, Min({k \in 1 .. Cardinality(used) + 1 : Numbered(b, k) \notin used}))

\* parse_sources: one identifier for each item, from its name or its target.
ParseSources(items) ==
    FoldLeft(LAMBDA ids, b : Append(ids, FreshId(b, Range(ids))), <<>>, items)

----------------------------------------------------------------------------
\* Cores and workers.

\* detect_cores: the least of the limits that are known; a quota is rounded up.
DetectCores(limits) == IF limits = {} THEN 1 ELSE Min(limits)

\* effective_workers with its default cap; requested = 0 stands for None.
EffectiveWorkers(sources, requested, cores) ==
    LET budget == AtLeast1(cores - 1)
        asked  == IF requested > 0 THEN Min({budget, requested}) ELSE budget
    IN  IF cores <= 1 THEN 1 ELSE AtLeast1(Min({asked, sources, 32}))

\* round(cores * 0.25), halves to the even side.
Quarter(cores) ==
    LET q == cores \div 4 IN
    IF cores % 4 = 3 \/ (cores % 4 = 2 /\ q % 2 = 1) THEN q + 1 ELSE q

\* Mutant of ReservedCores: the wish is taken as it is.
ReservedUnclamped(cores, headroom) ==
    IF headroom < 0 THEN AtLeast1(Quarter(cores)) ELSE headroom
\* _reserved_cores; headroom = -1 stands for None.
ReservedCores(cores, headroom) ==
    IF cores <= 1 THEN 0
    ELSE IF headroom < 0 THEN AtLeast1(Quarter(cores))
    ELSE Min({headroom, cores - 1})

WorkerBudget(cores, headroom) == AtLeast1(cores - ReservedCores(cores, headroom))

\* mem_capped_workers, in megabytes; available = 0 when it is not known.  A
\* slice needs three times its size, and 768 MB at the least.
MemCapped(workers, size, available) ==
    LET need == Max({768, (3 * size) \div AtLeast1(workers * 4)})
        cap  == Max({2, (available * 60) \div (100 * need)})
    IN  IF workers <= 1 \/ size = 0 THEN AtLeast1(workers)
        ELSE IF size < 64 \/ available = 0 THEN workers
        ELSE AtLeast1(Min({workers, cap}))

\* plan: the exact pipeline below the threshold, the parallel scan from it on.
ScalePlan(lines, threshold, size, available, cores, headroom) ==
    IF lines < threshold THEN [strategy |-> "exact", workers |-> 1]
    ELSE [strategy |-> "scan",
          workers  |-> MemCapped(WorkerBudget(cores, headroom), size, available)]

----------------------------------------------------------------------------
\* plan_assignment: a source goes to the worker its digest names unless
\* another one has fewer; sources are taken in the order of their identifiers.
Load(owner, w) == Cardinality({s \in DOMAIN owner : owner[s] = w})

\* Mutant of Place: the digest decides.
PlaceByDigest(owner, digest, workers) == digest
Place(owner, digest, workers) ==
    LET least == Min({Load(owner, w) : w \in 0 .. workers - 1})
    IN  IF Load(owner, digest) > least
        THEN Min({w \in 0 .. workers - 1 : Load(owner, w) = least})
        ELSE digest

WorkerOf(digests, workers) ==
    IF workers <= 1 THEN [s \in DOMAIN digests |-> 0]
    ELSE FoldLeft(LAMBDA owner, d : Append(owner, Place(owner, d, workers)), <<>>, digests)

\* The idle workers widen the largest files, at most seven for one: split_width
\* of the files over 16 MB, largest first.
SplitWidths(sizes, idle) ==
    LET large == Reverse(SortSeq(SelectSeq(sizes, LAMBDA z : z > 16), <))
    IN  FoldLeft(LAMBDA t, z :
                    IF t.spare <= 0 THEN t
                    ELSE [spare  |-> t.spare - Min({t.spare, 7}),
                          widths |-> Append(t.widths, Min({t.spare, 7}) + 1)],
                 [spare |-> idle, widths |-> <<>>], large).widths

----------------------------------------------------------------------------
\* correlate: anomalies of all sources on one time line; an event is
\* [time, source, rank], rank 0 the most severe; anomalies without a time are
\* left out before.
Earlier(a, b) ==
    \/ a.time < b.time
    \/ a.time = b.time /\ a.source < b.source
    \/ a.time = b.time /\ a.source = b.source /\ a.rank < b.rank

\* _window_to_incident: only a window that several sources share is one.
Incident(win) ==
    [start |-> Head(win).time, end |-> Last(win).time,
     sources |-> {e.source : e \in Range(win)}, count |-> Len(win),
     worst |-> Min({e.rank : e \in Range(win)})]
Closed(t) ==
    IF Cardinality({e.source : e \in Range(t.win)}) < 2 THEN t.out
    ELSE Append(t.out, Incident(t.win))

\* Mutant of Joins: the window is closed by its age.
JoinsByAge(win, e, gap) == e.time - Head(win).time <= gap
Joins(win, e, gap) == e.time - Last(win).time <= gap

Correlate(events, gap) ==
    LET sorted == SortSeq(events, Earlier)
        Step(t, e) == IF Joins(t.win, e, gap) THEN [t EXCEPT !.win = Append(@, e)]
                      ELSE [out |-> Closed(t), win |-> <<e>>]
    IN  IF events = <<>> THEN <<>>
        ELSE Closed(FoldLeft(Step, [out |-> <<>>, win |-> <<Head(sorted)>>], Tail(sorted)))

----------------------------------------------------------------------------
\* Sources never share an identifier, though one may be named like the number
\* that another would get: results and statistics are kept by identifier.
UniqueIds(items) ==
    LET ids == ParseSources(items)
    IN  Len(ids) = Len(items) /\ Cardinality(Range(ids)) = Len(items)

\* "leaves CPU headroom free": a scan, however it is sized, never takes the
\* cores it has promised to leave, and always has one worker.
HeadroomKept(cores, headroom, size, available) ==
    LET w == ScalePlan(2, 1, size, available, cores, headroom).workers
    IN  /\ w >= 1
        /\ w + ReservedCores(cores, headroom) <= AtLeast1(cores)
        /\ headroom # 0 /\ cores > 1 => w < cores

\* Every source has one of the workers, no worker has two sources more than
\* another, and the widths given to large files use idle workers only.
AssignmentBalanced(digests, workers, sizes) ==
    LET owner  == WorkerOf(digests, workers)
        Loads  == {Load(owner, w) : w \in 0 .. workers - 1}
        idle   == Cardinality({w \in 0 .. workers - 1 : Load(owner, w) = 0})
        widths == SplitWidths(sizes, idle)
    IN  /\ DOMAIN owner = DOMAIN digests
        /\ \A s \in DOMAIN owner : owner[s] \in 0 .. workers - 1
        /\ Max(Loads) - Min(Loads) <= 1
        /\ FoldFunction(LAMBDA a, b : a + b, 0, widths) - Len(widths) <= idle

\* The incidents are what their definition says: the events fall into groups
\* at the pauses longer than the gap, and a group with several sources is one.
CorrelateIsGrouping(events, gap) ==
    LET T      == {e.time : e \in Range(events)}
        Starts == {t \in T : \A u \in T : u < t => t - u > gap}
        End(t) == Max({u \in T : u >= t /\ \A s \in Starts : s > t => u < s})
        In(t)  == SelectSeq(events, LAMBDA e : e.time >= t /\ e.time <= End(t))
        Shared == {t \in Starts : Cardinality({e.source : e \in Range(In(t))}) >= 2}
        Expected == {[start |-> t, end |-> End(t), count |-> Len(In(t)),
                      sources |-> {e.source : e \in Range(In(t))},
                      worst |-> Min({e.rank : e \in Range(In(t))})] : t \in Shared}
        out == Correlate(events, gap)
    IN  Range(out) = Expected /\ Len(out) = Cardinality(Expected)
============================================================================
