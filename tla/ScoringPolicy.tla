---------------------------- MODULE ScoringPolicy ----------------------------
(***************************************************************************)
(* The score of a line before the detectors: what detect                   *)
(* (detection/detector.py) derives from its template's place in the file   *)
(* and in the baseline, score (domain/scoring.py) and the cache of         *)
(* _score_entries.  Pure operators.  Scores are in 1/10000, rounded down;  *)
(* soft_cap is increasing and the identity up to 0.80, so that a total is  *)
(* compared with a threshold of at most 0.80 in its place.                 *)
(***************************************************************************)
EXTENDS Integers, Sequences, FiniteSets, FiniteSetsExt, SequencesExt, Functions

----------------------------------------------------------------------------
\* A group of lines with one level and template: its severity rank, how many
\* lines, how many the level has, the positions of the first and the last one,
\* how many are in the first quarter, and whether one of them is in a burst.  A
\* file has n lines.  A baseline has total lines, base of them with the group's
\* key; total = 0: none.

Span(g, n) == (100 * (g.last - g.first)) \div Max({1, n - 1})
History(g) == (100 * g.head) \div g.count

Chronic(g, n) ==
    /\ g.sev \in 2 .. 4
    /\ 100 * g.count >= 15 * n \/ g.count >= 25
    /\ Span(g, n) >= 50
    /\ ~g.burst

Flood(g, n) == g.sev <= 4 /\ 100 * g.count >= 20 * n
GlobalRare(g, n) == 1000 * g.count <= 5 * n

Novel(b) == b.total > 0 /\ b.base = 0

\* Mutant of Surges: counts are compared, not rates.
SurgesByCount(g, n, b) == b.base > 0 /\ g.count > 10 * b.base /\ g.count >= 3
Surges(g, n, b) ==
    b.base > 0 /\ g.count * b.total > 10 * b.base * n /\ g.count >= 3

\* A recurring template that the baseline knows stays quiet.
Recurring(g, n, b) ==
    /\ g.sev <= 4 /\ g.count >= Max({5, (2 * n) \div 1000})
    /\ b.base = 0 \/ Surges(g, n, b)

\* The Signals of a line of the group; place is [label, size, outlier] of the
\* group's vector among the clusters, label one of noise, in, none (turbo).
SignalsOf(g, n, b, place) ==
    [sev |-> g.sev, count |-> g.count, level |-> g.level, file |-> n, place |-> place,
     burst |-> FALSE, flood |-> Flood(g, n), recurring |-> Recurring(g, n, b),
     rare |-> GlobalRare(g, n), span |-> IF g.count > 1 THEN Span(g, n) ELSE 0,
     novel |-> Novel(b), surge |-> Surges(g, n, b), chronic |-> Chronic(g, n),
     history |-> History(g)]

----------------------------------------------------------------------------
\* score

SeverityBase(sev) == <<10000, 10000, 7000, 5500, 4200, 800, 0, 0>>[sev + 1]

\* Mutant of Routine: for errors only.
RoutineErrorsOnly(s) ==
    IF s.sev = 3 /\ s.count >= 5 /\ s.span >= 40
    THEN Min({100, Max({0, (100 * (s.history - 25)) \div 75})}) ELSE 0
\* In percent, how far the group's lines are at the beginning of the file.
Routine(s) ==
    IF s.sev \in 3 .. 4 /\ s.count >= 5 /\ s.span >= 40
    THEN Min({100, Max({0, (100 * (s.history - 25)) \div 75})}) ELSE 0

Damped(s, x) == IF s.chronic THEN (x * 45) \div 100 ELSE x

\* Mutant of Base: the damping for history does not spare the hardest levels.
BaseDamped(s) ==
    (Damped(s, SeverityBase(s.sev)) * (10000 - 45 * Max({0, s.history - 25}))) \div 10000
Base(s) ==
    IF s.sev <= 1 THEN SeverityBase(s.sev)
    ELSE (Damped(s, SeverityBase(s.sev)) * (10000 - 45 * Routine(s))) \div 10000

If(b, w) == IF b THEN w ELSE 0

\* The more alike lines, the less rare; few is what counts as few at this level.
RarityAt(place, level, count) ==
    LET turbo   == place.label = "none"
        few     == Max({3, ((IF turbo THEN 1 ELSE 2) * level) \div 100})
        Rare(c) == 4500 + 3000 - (3000 * c) \div (few + 1)
        byPlace == CASE place.label = "noise" -> 7500
                     [] place.label = "in" /\ place.size <= few -> Rare(place.size)
                     [] turbo /\ count <= few -> Rare(count)
                     [] OTHER -> 0
        outlier == IF place.outlier THEN 5500 ELSE 0  \* z of 4, the exemption's bound
        seldom  == IF count <= Max({2, (5 * level) \div 1000}) THEN 4000 ELSE 0
    IN  Max({byPlace, outlier, seldom})
Rarity(s) ==
    LET rarity == RarityAt(s.place, s.level, s.count)
        mild   == s.sev >= 5 /\ ~s.place.outlier /\ s.place.label # "none"
    IN  Damped(s, IF mild THEN rarity \div 2 ELSE rarity)

\* What the message itself adds: a catastrophe or a failure in a severe line.
Words(s, m) ==
    IF s.sev <= 4 /\ ~s.chronic THEN If(m.cat, 2000) + If(m.fail, 2200) ELSE 0

Score(s, m) ==
    Base(s) + Rarity(s)
    + If(s.rare /\ s.sev <= 4 /\ ~s.chronic, 1800)
    + If(s.burst, 5000)
    + If(s.flood, 3500 + (2500 * s.count) \div s.file)
    + If(s.recurring /\ ~s.chronic,
         200 + (2500 * s.count * (100 - s.span)) \div (100 * (s.count + 8)))
    + Words(s, m)
    + If(s.novel /\ s.sev <= 4, 3500) + If(~s.novel /\ s.surge /\ s.sev <= 4, 3000)

\* threshold_for; a score of soft_cap is at least a threshold exactly if the total
\* is, for these three.
Thresholds == {8000, 7000, 6000}

----------------------------------------------------------------------------
\* _score_entries: the lines of one group in their order, a line being
\* [burst, cat, fail].  The first line with a key is scored for all with it.

\* Mutant of CacheKey: the group's score, but for words in the message.
CacheKeyNoBurst(s, m) ==
    IF s.sev <= 4 /\ ~s.chronic THEN <<FALSE, m.cat, m.fail>> ELSE <<FALSE, FALSE, FALSE>>
CacheKey(s, m) ==
    IF s.sev <= 4 /\ ~s.chronic THEN <<m.burst, m.cat, m.fail>> ELSE <<m.burst, FALSE, FALSE>>

LineScore(s, m) == Score([s EXCEPT !.burst = m.burst], m)
ScoreEntries(s, lines) ==
    [i \in DOMAIN lines |->
        LineScore(s, lines[Min({j \in 1 .. i : CacheKey(s, lines[j]) = CacheKey(s, lines[i])})])]

----------------------------------------------------------------------------
\* "the single scoring policy": with the cache every line has the score that the
\* policy gives to this line.
CacheTransparent(s, lines) ==
    ScoreEntries(s, lines) = [i \in DOMAIN lines |-> LineScore(s, lines[i])]

\* "always flagged": an EMERGENCY, ALERT or FATAL line is flagged at every
\* sensitivity, however common, old or known to the baseline its template is.
HardFlagged(g, n, b, place) ==
    g.sev <= 1 => \A m \in [burst : {g.burst}, cat : BOOLEAN, fail : BOOLEAN], t \in Thresholds :
                     LineScore(SignalsOf(g, n, b, place), m) >= t

\* A worse level never makes a line score less, all else in the file the same,
\* as long as the template is not damped as chronic.
WorseLevelNotLower(g, n, b, place) ==
    \A m \in [burst : BOOLEAN, cat : BOOLEAN, fail : BOOLEAN] :
       LET At(sev) == SignalsOf([g EXCEPT !.sev = sev], n, b, place)
       IN  \A sev \in 1 .. 7 :
              ~At(sev).chronic /\ ~At(sev - 1).chronic
                  => LineScore(At(sev), m) <= LineScore(At(sev - 1), m)

\* "known chronic noise: stay quiet": a baseline that knows the template at the
\* rate it still has never makes one of its lines score higher, and one that
\* does not know it never lower, than no baseline at all.
BaselineQuiets(g, n, k, place) ==
    LET said    == [burst |-> g.burst, cat |-> FALSE, fail |-> FALSE]
        With(b) == LineScore(SignalsOf(g, n, b, place), said)
        none    == [total |-> 0, base |-> 0]
    IN  /\ g.count % k = 0 /\ n % k = 0
              => With([total |-> n \div k, base |-> g.count \div k]) <= With(none)
        /\ With([total |-> n, base |-> 0]) >= With(none)
============================================================================
