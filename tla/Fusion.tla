------------------------------- MODULE Fusion -------------------------------
(***************************************************************************)
(* How detect (detection/detector.py) puts the evidence together: bursts   *)
(* of severe lines (detect_bursts), the fusion of the detectors with the   *)
(* score of the policy, the boost and the floor that follow, the flagged   *)
(* lines, and the groups and patterns made of them.  Pure operators.  A    *)
(* line is [sev, template, service, base, seq, par, rate]: its level (as a *)
(* severity rank), its template and service, and what the policy and three *)
(* detectors score it, in percent.                                         *)
(***************************************************************************)
EXTENDS Detectors

----------------------------------------------------------------------------
\* detect_bursts.  A line is [sev, window]: its severity rank and the window of
\* its time, -1 if it has none.

\* Mutant of Hot: the windows without a line count, too.
HotOverAll(count, least, factor) ==
    LET all == [w \in 0 .. Max(DOMAIN count) |-> IF w \in DOMAIN count THEN count[w] ELSE 0]
    IN  {w \in DOMAIN count : count[w] >= least /\ 2 * count[w] >= factor * TwiceMedian(all)}
\* Of the windows with lines of one severity, those far over the usual count.
Hot(count, least, factor) ==
    {w \in DOMAIN count :
        count[w] >= least /\ 2 * count[w] >= factor * Max({2, TwiceMedian(count)})}

Bursts(lines, least, factor) ==
    LET Timed(s) == {i \in DOMAIN lines : lines[i].window >= 0 /\ lines[i].sev = s}
        count(s) == [w \in {lines[i].window : i \in Timed(s)} |->
                        Cardinality({i \in Timed(s) : lines[i].window = w})]
        Bursting(s) == {i \in Timed(s) : lines[i].window \in Hot(count(s), least, factor)}
        enough == Cardinality({i \in DOMAIN lines : lines[i].window >= 0})
                     >= Max({2 * least, 20})
    IN  UNION {Bursting(s) : s \in {t \in 0 .. 4 : /\ enough
                                                   /\ Cardinality(Timed(t)) >= least
                                                   /\ Cardinality(DOMAIN count(t)) >= 2}}

----------------------------------------------------------------------------
\* Mutant of Fused: the last detector that has something to say.
FusedLast(e) == IF e.rate > 0 THEN e.rate ELSE IF e.par > 0 THEN e.par
                ELSE IF e.seq > 0 THEN e.seq ELSE e.base
Fused(e) == Max({e.base, e.seq, e.par, e.rate})

\* The final scores: fused, boosted in company, lifted to the floor.
Scores(lines, bins, Near, rare, flag_at) ==
    LET At(score) == [i \in DOMAIN lines |->
                         [sev |-> lines[i].sev, template |-> lines[i].template,
                          service |-> lines[i].service, score |-> score[i]]]
        fused == [i \in DOMAIN lines |-> Fused(lines[i])]
    IN  Backstop(At(Cooccurrence(At(fused), bins)), Near, rare, flag_at)

\* Mutant of Worse: the most frequent group first.
WorseByCount(a, b) == a.count > b.count
\* The order of groups.
Worse(a, b) ==
    \/ a.score > b.score
    \/ a.score = b.score /\ a.sev < b.sev
    \/ a.score = b.score /\ a.sev = b.sev /\ a.count > b.count

\* _build_groups: the flagged lines by severity and template, worst first.
AnomalyGroups(lines, score, flagged) ==
    LET Kind(i)  == <<lines[i].sev, lines[i].template>>
        Group(k) == LET I == {i \in flagged : Kind(i) = k}
                    IN  [sev |-> k[1], template |-> k[2], count |-> Cardinality(I),
                         score |-> Max({score[i] : i \in I}), first |-> Min(I),
                         since |-> Min({i \in DOMAIN lines : Kind(i) = k})]
    IN  SetToSortSeq({Group(Kind(i)) : i \in flagged},
                     LAMBDA a, b : \/ Worse(a, b)
                                   \/ ~Worse(b, a) /\ a.since < b.since)

\* _build_patterns: the most frequent of the severe templates, flagged or not.
Patterns(lines, flagged, least, most) ==
    LET Of(k) == {i \in DOMAIN lines : <<lines[i].sev, lines[i].template>> = k}
        Keys  == {k \in {<<lines[i].sev, lines[i].template>> : i \in DOMAIN lines} :
                    k[1] <= 4 /\ Cardinality(Of(k)) >= least}
        Before(k, l) ==
            LET a == Cardinality(Of(k))
                b == Cardinality(Of(l))
            IN  \/ k[1] < l[1]
                \/ k[1] = l[1] /\ a > b
                \/ k[1] = l[1] /\ a = b /\ Min(Of(k)) < Min(Of(l))
        Pattern(k) == [sev |-> k[1], template |-> k[2], count |-> Cardinality(Of(k)),
                       flagged |-> Of(k) \cap flagged # {}]
        sorted == SetToSortSeq(Keys, Before)
    IN  [j \in 1 .. Min({most, Len(sorted)}) |-> Pattern(sorted[j])]
----------------------------------------------------------------------------
\* A burst is an exception: it is at most half of the windows in which its
\* severity occurs, so that a steady stream of errors never is one; and it is
\* whole: a line in the burst of its severity bursts.
BurstsExceptional(lines, least, factor) ==
    LET B == Bursts(lines, least, factor)
        Windows(I, s) == {lines[i].window : i \in {j \in I : lines[j].sev = s}}
        Timed == {i \in DOMAIN lines : lines[i].window >= 0}
    IN  /\ B \subseteq Timed
        /\ \A s \in 0 .. 7 : 2 * Cardinality(Windows(B, s)) <= Cardinality(Windows(Timed, s))
        /\ \A i \in Timed : i \in B <=> lines[i].window \in Windows(B, lines[i].sev)

\* No stage takes back what another has found: a line that one detector alone
\* would flag is flagged, and more evidence for one line takes the flag from no
\* other.
EvidenceReachesFlag(lines, i, part, more, bins, Near, rare, flag_at) ==
    LET Out(f) == Flagged(Scores(f, bins, Near, rare, flag_at), flag_at)
        e      == lines[i]
        raised == IF part = "base" THEN [e EXCEPT !.base = Max({@, more})]
                  ELSE IF part = "seq" THEN [e EXCEPT !.seq = Max({@, more})]
                  ELSE [e EXCEPT !.rate = Max({@, more})]
    IN  /\ \A j \in DOMAIN lines : flag_at <= Max({lines[j].base, lines[j].seq,
                                                  lines[j].par, lines[j].rate})
                                      => j \in Out(lines)
        /\ Out(lines) \subseteq Out([lines EXCEPT ![i] = raised])

\* Every flagged line is counted in one group, the group of the highest score
\* comes first, and a severe template with flagged lines is marked as flagged
\* among the patterns, unless there are too few of it or worse ones fill them.
GroupsTellFlagged(lines, score, flag_at, least, most) ==
    LET F == Flagged(score, flag_at)
        G == AnomalyGroups(lines, score, F)
        P == Patterns(lines, F, least, most)
    IN  /\ SumOf([j \in DOMAIN G |-> G[j].count]) = Cardinality(F)
        /\ \A i \in F : score[i] <= G[1].score
        /\ \A j \in DOMAIN G :
              G[j].sev <= 4 /\ G[j].count >= least =>
                 \/ Len(P) = most /\ \A p \in DOMAIN P : P[p].sev <= G[j].sev
                 \/ \E p \in DOMAIN P : /\ P[p].sev = G[j].sev /\ P[p].flagged
                                        /\ P[p].template = G[j].template
                                        /\ P[p].count >= G[j].count
=============================================================================
