------------------------------ MODULE Detectors ------------------------------
(***************************************************************************)
(* The detectors that detect (detection/detector.py) fuses with the score  *)
(* of the policy: rate.py, parameters.py, sequence.py, cooccurrence.py and *)
(* safety_floor.py, and routineness.py, which only describes.  Pure        *)
(* operators; scores are in percent, rounded down.  The lines of a file    *)
(* are a sequence; what a detector looks at in a line is a record.         *)
(***************************************************************************)
EXTENDS Integers, Sequences, FiniteSets, FiniteSetsExt, SequencesExt, Functions

SumOf(f) == FoldFunction(LAMBDA a, b : a + b, 0, f)
Where(s, Test(_)) == {i \in DOMAIN s : Test(s[i])}

\* Twice the median of the values of f: the middle one, or the middle two.
TwiceMedian(f) ==
    LET Below(v) == Cardinality({i \in DOMAIN f : f[i] <= v})
        n        == Cardinality(DOMAIN f)
        Nth(k)   == Min({f[i] : i \in {j \in DOMAIN f : Below(f[j]) >= k}})
    IN  Nth((n + 1) \div 2) + Nth((n + 2) \div 2)

----------------------------------------------------------------------------
\* rate_burst_scores.  The file is cut in bins of lines, not of time.
BinCount(n, least) == Max({least, Min({80, n \div 10})})
\* Mutant of BinOf: bins of the same size, the rest in the last one.
BinOfShort(i, n, bins) == Min({bins - 1, (i - 1) \div (n \div bins)})
BinOf(i, n, bins) == Min({bins - 1, ((i - 1) * bins) \div n})

\* Mutant of BurstBins: five times the baseline is enough.
BurstBinsEager(counts, base2) ==
    {b \in DOMAIN counts : counts[b] >= 5 /\ 2 * counts[b] >= 5 * base2}
\* base2 is twice the baseline.
BurstBins(counts, base2) ==
    {b \in DOMAIN counts : counts[b] >= 10 /\ 2 * counts[b] >= 6 * base2}

\* The score in each bin of a template's lines; counts are its lines per bin.
RateScores(counts) ==
    LET active == {b \in DOMAIN counts : counts[b] > 0}
        base2  == TwiceMedian(Restrict(counts, active))
        \* 30 times the excess over six, in sixths
        Over(b) == (30 * (2 * counts[b] - 6 * base2)) \div (6 * base2)
    IN  IF SumOf(counts) < 12 \/ Cardinality(active) < 4
        THEN [b \in DOMAIN counts |-> 0]
        ELSE [b \in DOMAIN counts |->
                IF b \in BurstBins(counts, base2) THEN Min({100, 70 + Over(b)}) ELSE 0]

----------------------------------------------------------------------------
\* parameter_anomaly_scores, for one slot of one template: the values of its
\* lines.  z is a robust one, against the median and the median deviation.

Abs(x) == IF x < 0 THEN -x ELSE x

\* Mutant of Spread: the range.
SpreadRange(values, med2) == Max(Range(values)) - Min(Range(values))
\* Four times the median deviation; med2 is twice the median.
Spread(values, med2) == TwiceMedian([i \in DOMAIN values |-> Abs(2 * values[i] - med2)])

\* z = 0.6745 * |x - med| / mad >= 5, and three times the median away from it.
ParameterOutliers(values) ==
    LET med2 == TwiceMedian(values)
        mad4 == Spread(values, med2)
        Far(x) == /\ 6745 * 2 * Abs(2 * x - med2) >= 50000 * mad4
                  /\ Abs(2 * x - med2) >= 3 * Max({Abs(med2), 2})
    IN  IF Len(values) < 12 \/ mad4 <= 0 THEN {} ELSE Where(values, Far)

----------------------------------------------------------------------------
\* sequence_anomaly_scores.  A line is [session, template], session 0 if it has
\* no key.  A first-order chain over the templates of every session, its start
\* and its end, with one added to every count.
Bos == "start"
Eos == "end"

Sessions(lines) == {lines[i].session : i \in DOMAIN lines} \ {0}
Path(lines, s) ==
    LET own    == {i \in DOMAIN lines : lines[i].session = s}
        Nth(k) == CHOOSE i \in own : Cardinality({j \in own : j <= i}) = k
    IN  <<Bos>> \o [k \in 1 .. Cardinality(own) |-> lines[Nth(k)].template] \o <<Eos>>

\* How often a session goes from a to a template, or to the end, of the set To.
Steps(lines, a, To) ==
    SumOf([s \in Sessions(lines) |->
        LET p == Path(lines, s)
        IN  Cardinality({k \in 1 .. Len(p) - 1 : p[k] = a /\ p[k + 1] \in To})])

\* In percent, 1 - p of the step from a to b; 0 where a is seen too seldom.
Surprise(lines, a, b, least) ==
    LET vocab == {lines[i].template : i \in Where(lines, LAMBDA e : e.session # 0)} \cup {Eos}
        pred  == Steps(lines, a, vocab)
    IN  IF pred < least THEN 0
        ELSE 100 - (100 * (Steps(lines, a, {b}) + 1)) \div (pred + Cardinality(vocab))

\* Mutant of Worst: the end of the session is not looked at.
WorstOpen(lines, s, least) ==
    LET p == Path(lines, s)
    IN  Max({0} \cup {Surprise(lines, p[k], p[k + 1], least) : k \in 1 .. Len(p) - 2})
Worst(lines, s, least) ==
    LET p == Path(lines, s)
    IN  Max({0} \cup {Surprise(lines, p[k], p[k + 1], least) : k \in 1 .. Len(p) - 1})

\* A session with a step at or over flag_at is anomalous, and every line of it
\* gets the score of its worst step; elsewhere a line has that of its own step.
SequenceScores(lines, sessions, least, flag_at) ==
    LET keyed == Where(lines, LAMBDA e : e.session # 0)
        \* the position of line i in its session's path
        At(i) == 1 + Cardinality({j \in 1 .. i : lines[j].session = lines[i].session})
        Own(i) == LET p == Path(lines, lines[i].session)
                  IN  Surprise(lines, p[At(i) - 1], p[At(i)], least)
    IN  IF Cardinality(Sessions(lines)) < sessions \/ 2 * Cardinality(keyed) < Len(lines)
        THEN [i \in DOMAIN lines |-> 0]
        ELSE [i \in DOMAIN lines |->
                IF i \notin keyed THEN 0
                ELSE IF Worst(lines, lines[i].session, least) >= flag_at
                     THEN Worst(lines, lines[i].session, least) ELSE Own(i)]

----------------------------------------------------------------------------
\* cooccurrence_boost.  A line is [template, service, score]; service "" is
\* unknown.
Elevated(lines, bins, b) ==
    LET n == Len(lines)
        In(t) == {i \in DOMAIN lines : BinOf(i, n, bins) = b /\ lines[i].template = t}
        All(t) == Where(lines, LAMBDA e : e.template = t)
    IN  {t \in {lines[i].template : i \in DOMAIN lines} :
            /\ Cardinality(In(t)) >= 3
            /\ Cardinality(In(t)) * bins >= 2 * Cardinality(All(t))}

\* Mutant of Partners: services are not compared.
PartnersAnyHost(lines, bins, b) == Elevated(lines, bins, b)
\* Templates that are elevated together: on one service, unless none is known.
Partners(lines, bins, b) ==
    LET n     == Len(lines)
        E     == Elevated(lines, bins, b)
        Hosts(t) == {lines[i].service : i \in {j \in DOMAIN lines :
                        BinOf(j, n, bins) = b /\ lines[j].template = t}}
    IN  IF UNION {Hosts(t) : t \in E} \subseteq {""} THEN E
        ELSE {t \in E : \E u \in E \ {t} : Hosts(t) \cap Hosts(u) # {}}

Cooccurrence(lines, bins) ==
    LET n == Len(lines)
        Lifted(i) == LET P == Partners(lines, bins, BinOf(i, n, bins))
                     IN  /\ lines[i].template \in P /\ Cardinality(P) >= 2
                         /\ lines[i].score >= 40 /\ lines[i].score < 100
    IN  [i \in DOMAIN lines |->
            IF n >= 6 /\ Lifted(i) THEN Min({100, lines[i].score + 30}) ELSE lines[i].score]

----------------------------------------------------------------------------
\* safety_floor and the end of detect.  A line is [sev, template, score]; Near
\* tells the templates that resemble a common one.

\* Mutant of Floor: the constant of the module, whatever the sensitivity.
FloorConstant(flag_at) == 70
Floor(flag_at) == IF flag_at > 70 THEN Max({flag_at, 70}) ELSE flag_at

Backstop(lines, Near, rare, flag_at) ==
    LET Seen(t) == Cardinality(Where(lines, LAMBDA e : e.template = t))
        Floored(e) == /\ e.score < flag_at /\ e.sev <= 3
                      /\ Seen(e.template) <= rare /\ e.template \notin Near
    IN  [i \in DOMAIN lines |->
            IF Floored(lines[i]) THEN Max({lines[i].score, Floor(flag_at)}) ELSE lines[i].score]

\* The threshold is flag_at, or with auto_threshold the one of Otsu's method if
\* enough scores are neither 0 nor 1.
Flagged(scores, threshold) == Where(scores, LAMBDA s : s >= threshold)

----------------------------------------------------------------------------
\* compute_routineness, in percent: the mean of the features that are known.
\* positions are those of a template's lines, spread the entropy of its services
\* or -1, known whether the baseline has it.
Routineness(positions, n, buckets, spread, known) ==
    LET c  == Cardinality(positions)
        nb == Min({Max({1, buckets}), n})
        Bucket(p) == Min({nb - 1, ((p - 1) * nb) \div n})
        Seen == {Bucket(p) : p \in positions}
        Fullest == Max({Cardinality({p \in positions : Bucket(p) = b}) : b \in Seen})
        stationarity == (100 * Cardinality(Seen)) \div nb
        age == IF known THEN 100 ELSE (100 * (Max(positions) - Min(positions))) \div (n - 1)
        independence == 100 - (100 * Fullest) \div c
    IN  IF c < 5 \/ n <= 1 THEN -1
        ELSE IF spread = -1 THEN (stationarity + age + independence) \div 3
        ELSE (stationarity + age + independence + spread) \div 4

\* Mutant of Confidence: the sign.
ConfidenceRaised(score, r) ==
    LET adjusted == IF r = -1 THEN score ELSE score + (35 * r) \div 100
    IN  IF adjusted >= 85 THEN 3 ELSE IF adjusted >= 65 THEN 2 ELSE 1
\* confidence_label: what the reader is told of a score; routineness lowers it.
Confidence(score, r) ==
    LET adjusted == IF r = -1 THEN score ELSE Max({0, score - (35 * r) \div 100})
    IN  IF adjusted >= 85 THEN 3 ELSE IF adjusted >= 65 THEN 2 ELSE 1
----------------------------------------------------------------------------
\* A burst is always flagged at the normal sensitivity, never in the template's
\* usual bins: fewer than half of the bins where it is active are bursts.
BurstsStandOut(counts) ==
    LET out == RateScores(counts)
    IN  /\ \A b \in DOMAIN counts : out[b] = 0 \/ out[b] \in 70 .. 100
        /\ 2 * Cardinality({b \in DOMAIN out : out[b] > 0})
           < Cardinality({b \in DOMAIN counts : counts[b] > 0}) + 1
        /\ \A b, c \in DOMAIN counts : out[b] > 0 /\ counts[c] >= counts[b] => out[c] >= out[b]

\* The bins hold every line, in order, and no bin one more than another.
BinsEven(n, least) ==
    LET bins == BinCount(n, least)
        Size(b) == Cardinality({i \in 1 .. n : BinOf(i, n, bins) = b})
    IN  /\ \A i \in 1 .. n : BinOf(i, n, bins) \in 0 .. bins - 1
        /\ \A i \in 2 .. n : BinOf(i - 1, n, bins) <= BinOf(i, n, bins)
        /\ \A b, c \in 0 .. bins - 1 : Size(b) <= Size(c) + 1

\* Outliers do not hide each other: while most lines have a value within a
\* factor of two, and no value is that of half of them, every value ten times
\* larger is flagged, however many there are, and no usual one is.
OutliersUnmasked(values, usual) ==
    LET O    == ParameterOutliers(values)
        most == {i \in DOMAIN values : values[i] \in usual .. 2 * usual}
        Same(v) == {i \in DOMAIN values : values[i] = v}
    IN  /\ Len(values) >= 12 /\ 2 * Cardinality(most) > Len(values) + 1
        /\ \A v \in Range(values) : 2 * Cardinality(Same(v)) < Len(values)
        => /\ O \cap most = {}
           /\ \A i \in DOMAIN values : values[i] >= 20 * usual => i \in O

\* A session is anomalous as a whole or not at all: where one of its steps is
\* unlikely, its end too, every line of it is flagged; and a line without a key,
\* or of a session that runs as expected, is not.
SessionsWhole(lines, sessions, least, flag_at) ==
    LET out == SequenceScores(lines, sessions, least, flag_at)
        Bad(s) == LET p == Path(lines, s)
                  IN  \E k \in 1 .. Len(p) - 1 : Surprise(lines, p[k], p[k + 1], least) >= flag_at
        silent == \A i \in DOMAIN lines : out[i] = 0
    IN  \/ silent
        \/ \A i \in DOMAIN lines :
              out[i] >= flag_at <=> lines[i].session # 0 /\ Bad(lines[i].session)

\* Only a line with something wrong is lifted, only in company, and the company
\* has a service with it: for two templates that share no service, neither lifts
\* the other.
LiftedInCompany(lines, bins) ==
    LET out == Cooccurrence(lines, bins)
        n   == Len(lines)
    IN  \A i \in DOMAIN lines :
           /\ out[i] >= lines[i].score
           /\ out[i] > lines[i].score =>
                 \E j, k \in DOMAIN lines :
                    /\ BinOf(j, n, bins) = BinOf(i, n, bins)
                    /\ BinOf(k, n, bins) = BinOf(i, n, bins)
                    /\ lines[j].template = lines[i].template
                    /\ lines[k].template # lines[i].template
                    /\ lines[j].service = lines[k].service

\* The recall backstop: at every sensitivity a severe line with a rare template
\* unlike the common ones is flagged, whatever it scored.
RareSevereSurfaced(lines, Near, rare, flag_at) ==
    \A i \in DOMAIN lines :
       /\ lines[i].sev <= 3 /\ lines[i].template \notin Near
       /\ Cardinality(Where(lines, LAMBDA e : e.template = lines[i].template)) <= rare
       => i \in Flagged(Backstop(lines, Near, rare, flag_at), flag_at)

\* Routineness is a percentage, and a template that the baseline knows is never
\* told to be less routine, nor its anomaly more certain, for it.
KnownMoreRoutine(positions, n, buckets, spread, score) ==
    LET new == Routineness(positions, n, buckets, spread, FALSE)
        old == Routineness(positions, n, buckets, spread, TRUE)
    IN  /\ new \in -1 .. 100 /\ new <= old
        /\ Confidence(score, old) <= Confidence(score, new)
============================================================================
