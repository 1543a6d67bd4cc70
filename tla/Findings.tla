------------------------------ MODULE Findings ------------------------------
(***************************************************************************)
(* What is made of the flagged lines: families (detection/grouping.py),    *)
(* incidents (incidents.py and _build_incidents), the verdict on the run   *)
(* (_assess_incident), the alert budget (calibration.py) and the queries   *)
(* on saved results (results_store.py).  Pure operators.  An anomaly is    *)
(* [level, service, template, score]; a family adds count, first and last; *)
(* severity ranks are those of domain/severity.py, 0 the worst.            *)
(***************************************************************************)
EXTENDS Integers, Sequences, FiniteSets, FiniteSetsExt, SequencesExt, Functions

NoTime == -1

SumOver(S, f(_)) == FoldFunction(LAMBDA a, b : a + b, 0, [x \in S |-> f(x)])
Where(s, Test(_)) == {i \in DOMAIN s : Test(s[i])}

----------------------------------------------------------------------------
\* group_anomalies

\* Mutant of FamilyKey: the service is not part of the key.
FamilyKeyNoService(a) == <<a.level, a.template>>
FamilyKey(a) == <<a.level, a.service, a.template>>

\* One family for each key, with its lines, its best score and the service of
\* its first line; worst first.
GroupAnomalies(anomalies) ==
    LET Members(k) == Where(anomalies, LAMBDA a : FamilyKey(a) = k)
        Family(k)  == [level |-> anomalies[Min(Members(k))].level,
                       service |-> anomalies[Min(Members(k))].service,
                       template |-> anomalies[Min(Members(k))].template,
                       indices |-> Members(k), count |-> Cardinality(Members(k)),
                       score |-> Max({anomalies[i].score : i \in Members(k)})]
    IN  SetToSortSeq({Family(FamilyKey(anomalies[i])) : i \in DOMAIN anomalies},
                     LAMBDA f, g : \/ f.score > g.score
                                   \/ f.score = g.score /\ f.count > g.count
                                   \/ f.score = g.score /\ f.count = g.count
                                      /\ Min(f.indices) < Min(g.indices))

----------------------------------------------------------------------------
\* incidents.py.  A family is identified by its template alone (_template_id).

Severe(f) == f.level \in {"CRITICAL", "FATAL", "ERROR"}
End(f) == IF f.last = NoTime THEN f.first ELSE f.last

\* Mutant of Further: the last family's end, not the furthest.
FurtherLast(f, reach) == End(f)
Further(f, reach) == Max({reach, End(f)})

\* The dated families in order of their first line, closed where the next one
\* begins more than gap after everything before has ended; indices of families.
Spans(families, gap) ==
    LET dated == SetToSortSeq(
                    Where(families, LAMBDA f : Severe(f) /\ f.first # NoTime),
                    LAMBDA i, j : \/ families[i].first < families[j].first
                                  \/ families[i].first = families[j].first /\ i < j)
        Step(t, i) == IF families[i].first - t.reach <= gap
                      THEN [t EXCEPT !.cur = @ \cup {i}, !.reach = Further(families[i], @)]
                      ELSE [out |-> Append(t.out, t.cur), cur |-> {i},
                            reach |-> End(families[i])]
        last == FoldLeft(Step, [out |-> <<>>, cur |-> {Head(dated)},
                                reach |-> End(families[Head(dated)])], Tail(dated))
    IN  IF dated = <<>> THEN <<>> ELSE Append(last.out, last.cur)

\* Severe families without a time are one incident of their own.
Undated(families) == Where(families, LAMBDA f : Severe(f) /\ f.first = NoTime)
Clusters(families, gap) ==
    Spans(families, gap)
    \o IF Undated(families) = {} THEN <<>> ELSE <<Undated(families)>>

\* _incident_id hashes the source and the template identifiers of the members.
IncidentId(families, members) ==
    [t \in {families[i].template : i \in members} |->
        Cardinality({i \in members : families[i].template = t})]

\* _finish
Finish(families, members) ==
    [id |-> IncidentId(families, members),
     families |-> {families[i].template : i \in members},
     events |-> SumOver(members, LAMBDA i : families[i].count)]

GroupIncidents(families, gap) ==
    LET clusters == Clusters(families, gap)
    IN  [k \in DOMAIN clusters |-> Finish(families, clusters[k])]

\* Mutant of Stamped: an earlier incident keeps its claim.
StampedFirst(incidents, template) ==
    Min({k \in DOMAIN incidents : template \in incidents[k].families})
\* The mapping of group_incidents: a later incident takes a template over.
Stamped(incidents, template) ==
    Max({k \in DOMAIN incidents : template \in incidents[k].families})

\* _build_incidents: every family whose template is mapped is stamped, 0 is None.
BuildIncidents(families, gap) ==
    LET incidents == GroupIncidents(families, gap)
        known     == UNION {incidents[k].families : k \in DOMAIN incidents}
    IN  [incidents |-> incidents,
         stamps |-> [i \in DOMAIN families |->
                        IF families[i].template \in known
                        THEN Stamped(incidents, families[i].template) ELSE 0]]

----------------------------------------------------------------------------
\* _assess_incident, in percent.  A family is [rank, count, score].

Ratio(families, lines) ==
    LET severe == SumOver(Where(families, LAMBDA f : f.rank <= 3),
                          LAMBDA i : families[i].count)
    IN  IF lines = 0 THEN 0 ELSE (100 * severe) \div lines

\* Mutant of Alarmed: the critical families' share among the families.
AlarmedByShare(crit, ratio, families) ==
    \/ crit > 0 /\ 2 * crit >= Len(families)
    \/ ratio >= 30
Alarmed(crit, ratio, families) == crit > 0 \/ ratio >= 30

AssessIncident(families, lines) ==
    LET crit  == Cardinality(Where(families, LAMBDA f : f.rank <= 2))
        ratio == Ratio(families, lines)
        parts == (IF crit > 0 THEN {60 + 4 * crit} ELSE {})
                 \cup (IF ratio >= 30 THEN {30 + ratio} ELSE {})
                 \cup (IF crit >= 5 THEN {85} ELSE {})
                 \cup {families[i].score : i \in DOMAIN families}
    IN  IF Alarmed(crit, ratio, families)
        THEN [incident |-> TRUE, score |-> Min({100, Max(parts)})]
        ELSE [incident |-> FALSE, score |-> 0]

----------------------------------------------------------------------------
\* calibrate, for one service: scores, budget per day, window in hours (0 when
\* it is not known).

\* round, halves to the even side.
RoundHalfEven(a, b) ==
    LET q == a \div b  r == a % b IN
    IF 2 * r > b \/ (2 * r = b /\ q % 2 = 1) THEN q + 1 ELSE q

Within(n, budget, hours) == hours = 0 \/ n * 24 <= budget * hours

\* Mutant of Admitted: the alert that goes over the budget is let pass too.
AdmittedOver(budget, hours) == 1 + (budget * hours) \div 24
\* How many alerts the budget allows over the window, at least one.
Admitted(budget, hours) == Max({1, RoundHalfEven(budget * hours, 24)})

NoCutoff == -1
Cutoff(scores, budget, hours) ==
    LET k == Admitted(budget, hours)
    IN  IF ~Within(Len(scores), budget, hours) /\ Len(scores) > k
        THEN Reverse(SortSeq(scores, <))[k] ELSE NoCutoff

----------------------------------------------------------------------------
\* results_store.py: lines of one level as hours of the clock, times in
\* quarters of an hour.

HourBucket(t) == t \div 4
Histogram(times) ==
    [h \in {HourBucket(times[i]) : i \in DOMAIN times} |->
        Cardinality({i \in DOMAIN times : HourBucket(times[i]) = h})]

\* Mutant of OldestHour: the window begins at the next full hour.
OldestHourNext(ref, window) == HourBucket(ref - window) + 1
OldestHour(ref, window) == HourBucket(ref - window)

SeverityCount(times, ref, window) ==
    LET hist == Histogram(times)
    IN  IF ref = NoTime THEN 0
        ELSE SumOver({h \in DOMAIN hist : h >= OldestHour(ref, window)}, LAMBDA h : hist[h])

\* families_in_window: without a window or a reference time every family is in.
Listed(families, ref, window) ==
    IF ref = NoTime \/ window = 0 THEN DOMAIN families
    ELSE Where(families, LAMBDA f : f.last # NoTime /\ f.last >= ref - window)

\* Mutant of Ahead: the more frequent family first.
AheadByCount(f, g) == f.count > g.count \/ (f.count = g.count /\ f.score > g.score)
Ahead(f, g) == f.score > g.score \/ (f.score = g.score /\ f.count > g.count)

\* The families that are shown, as indices: worst first, at most limit of them.
FamiliesInWindow(families, ref, window, limit) ==
    LET sorted == SetToSortSeq(Listed(families, ref, window),
                     LAMBDA i, j : \/ Ahead(families[i], families[j])
                                   \/ ~Ahead(families[j], families[i]) /\ i < j)
    IN  SubSeq(sorted, 1, Min({limit, Len(sorted)}))

----------------------------------------------------------------------------
\* The families are a partition of the anomalies: two lines share one exactly if
\* level, service and template agree, and the worst line is in the first one.
FamiliesPartition(anomalies) ==
    LET out == GroupAnomalies(anomalies)
    IN  /\ \A i, j \in DOMAIN anomalies :
              (\E f \in Range(out) : {i, j} \subseteq f.indices)
              <=> [anomalies[i] EXCEPT !.score = 0] = [anomalies[j] EXCEPT !.score = 0]
        /\ SumOver(DOMAIN out, LAMBDA k : out[k].count) = Len(anomalies)
        /\ anomalies # <<>> => Head(out).score = Max({a.score : a \in Range(anomalies)})

\* The incidents are what their definition says: a quiet time longer than the
\* gap, in which no severe family is active, separates two of them; and every
\* severe event is in exactly one.
IncidentsAreGrouping(families, gap) ==
    LET D == Where(families, LAMBDA f : Severe(f) /\ f.first # NoTime)
        Starts == {families[i].first : i \in
                     {i \in D : \A j \in D : families[j].first < families[i].first
                                   => families[i].first - End(families[j]) > gap}}
        StartOf(i) == Max({s \in Starts : s <= families[i].first})
        Expected == {{i \in D : StartOf(i) = s} : s \in Starts}
    IN  /\ Range(Spans(families, gap)) = Expected
        /\ SumOver(DOMAIN Clusters(families, gap),
                   LAMBDA k : GroupIncidents(families, gap)[k].events)
           = SumOver(Where(families, Severe), LAMBDA i : families[i].count)

\* "stamp every participating family with its incident_id": a severe family
\* carries the identifier of the incident it is in, another one carries none.
StampsOwnIncident(families, gap) ==
    LET built == BuildIncidents(families, gap)
        clusters == Clusters(families, gap)
    IN  \A i \in DOMAIN families :
           LET own == {k \in DOMAIN clusters : i \in clusters[k]}
           IN  IF own = {} THEN built.stamps[i] = 0
               ELSE \A k \in own : built.incidents[built.stamps[i]].id = built.incidents[k].id

\* So it is wherever no two families have the same template; and in every run
\* a severe family is stamped with an incident that lists its template, the
\* latest one that does.
StampsOwnIncidentIfUnique(families, gap) ==
    LET built == BuildIncidents(families, gap)
    IN  /\ IsInjective([i \in DOMAIN families |-> families[i].template])
              => StampsOwnIncident(families, gap)
        /\ \A i \in DOMAIN families : Severe(families[i]) =>
              /\ built.stamps[i] # 0
              /\ \A k \in DOMAIN built.incidents :
                    families[i].template \in built.incidents[k].families
                        => k <= built.stamps[i]

\* Worse news never calm the verdict: one more family, or a family with more
\* lines, neither clears an incident nor lowers its score.
MoreIsWorse(families, more, lines) ==
    LET before == AssessIncident(families, lines)
        after  == AssessIncident(Append(families, more), lines)
    IN  /\ before.incident => after.incident
        /\ before.score <= after.score

\* The suggested cutoff never hides everything, is only suggested to a service over
\* its budget, and is tight whatever scores are equal: above it there are fewer
\* alerts than the budget allows, to the nearest alert, and with those at the
\* cutoff at least as many.
CutoffFits(scores, budget, hours) ==
    LET c == Cutoff(scores, budget, hours)
        Above == {i \in DOMAIN scores : scores[i] > c}
        Shown == {i \in DOMAIN scores : scores[i] >= c}
        over(k) == 2 * (24 * k - budget * hours)
    IN  c # NoCutoff =>
           /\ ~Within(Len(scores), budget, hours)
           /\ \E k \in 1 .. Len(scores) :
                 /\ -24 <= over(k) /\ (k = 1 \/ over(k) <= 24)
                 /\ Cardinality(Above) < k /\ k <= Cardinality(Shown)

\* The menu's window misses nothing that is in it, counts nothing an hour older
\* than it, and never shows less when it is widened; without a reference time it
\* counts nothing.  A family is in the window exactly if a line of it is; without
\* a window or a reference every family is in.
WindowCounts(times, ref, window) ==
    LET In(w) == Cardinality({i \in DOMAIN times : times[i] >= ref - w})
        c     == SeverityCount(times, ref, window)
        family == [last |-> IF times = <<>> THEN NoTime ELSE Max(Range(times))]
    IN  /\ IF ref = NoTime THEN c = 0
           ELSE /\ In(window) <= c /\ c <= In(window + 3)
                /\ SeverityCount(times, ref, window + 1) >= c
        /\ Listed(<<family>>, ref, window) # {}
              <=> ref = NoTime \/ window = 0 \/ In(window) > 0

\* The list of families is the head of the whole ranking: all of those in the
\* window if they fit, none twice, and none that is left out has a higher score
\* than one that is shown, or the same score and more lines.
ListIsHead(families, ref, window, limit) ==
    LET shown == FamiliesInWindow(families, ref, window, limit)
        in    == Listed(families, ref, window)
        Below(i, j) == \/ families[i].score < families[j].score
                       \/ families[i].score = families[j].score
                          /\ families[i].count < families[j].count
    IN  /\ Range(shown) \subseteq in /\ Cardinality(Range(shown)) = Len(shown)
        /\ Len(shown) = limit \/ (Range(shown) = in /\ Len(shown) < limit)
        /\ \A k \in DOMAIN shown :
              \A i \in in \ {shown[m] : m \in 1 .. k} : ~Below(shown[k], i)
============================================================================
