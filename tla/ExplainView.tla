----------------------------- MODULE ExplainView -----------------------------
(***************************************************************************)
(* `loglens explain` (interface/cli.py) with detection/timeutil.py: the    *)
(* time window, the families in it, their cards and sparklines.  Pure      *)
(* operators.  An anomaly is [at, key, impact]: its time, NoTime if        *)
(* parse_ts makes nothing of its timestamp; its level, service and         *)
(* template; the impact that diagnose gives its family.                    *)
(***************************************************************************)
EXTENDS Integers, Sequences, FiniteSets, FiniteSetsExt, SequencesExt, Functions

NoTime == -1

----------------------------------------------------------------------------
\* The window.  An option is [since, until, last, now]: a bound is {} when it is
\* not given, and {NoTime} when it is given and cannot be read; last is 0 when
\* it cannot be read or is zero; now is NoTime unless --now is given.
DefaultLast == 24

Dated(anomalies) == {i \in DOMAIN anomalies : anomalies[i].at # NoTime}
Newest(anomalies) == Max({anomalies[i].at : i \in Dated(anomalies)} \cup {NoTime})

The(bound) == CHOOSE t \in bound : TRUE

\* Mutant of Anchor: the log's first event.
AnchorOldest(anomalies, o) ==
    IF o.now # NoTime THEN o.now
    ELSE IF Dated(anomalies) = {} THEN NoTime
    ELSE Min({anomalies[i].at : i \in Dated(anomalies)})
Anchor(anomalies, o) == IF o.now # NoTime THEN o.now ELSE Newest(anomalies)

Hi(anomalies, o) == IF o.until # {} THEN The(o.until) ELSE Anchor(anomalies, o)
Length(o) == IF o.last = 0 THEN DefaultLast ELSE o.last
Lo(anomalies, o) ==
    IF o.since # {} THEN The(o.since)
    ELSE IF Hi(anomalies, o) = NoTime THEN NoTime ELSE Hi(anomalies, o) - Length(o)

\* Times before the first event are negative, so that "no bound" has a test of
\* its own.
Windowed(anomalies, o) ==
    /\ Hi(anomalies, o) # NoTime
    /\ o.since # {NoTime}

\* Mutant of Inside: the upper bound is not part of the window.
InsideOpen(t, lo, hi) == lo <= t /\ t < hi
Inside(t, lo, hi) == lo <= t /\ t <= hi

\* Without a window, the anomalies that have a time; the comment there says
\* "explain everything", and the message "showing all" (see UndatedShown).
InWindow(anomalies, o) ==
    IF Windowed(anomalies, o)
    THEN {i \in Dated(anomalies) : Inside(anomalies[i].at, Lo(anomalies, o), Hi(anomalies, o))}
    ELSE Dated(anomalies)

Undated(anomalies) == DOMAIN anomalies \ Dated(anomalies)

----------------------------------------------------------------------------
\* timeutil.bucketize and sparkline: n buckets, the last one with its end.
\* Mutant of BucketOf: the end has a bucket of its own.
BucketOfOpen(t, lo, hi, n) == 1 + ((t - lo) * n) \div (hi - lo)
BucketOf(t, lo, hi, n) == Min({n, 1 + ((t - lo) * n) \div (hi - lo)})

Bucketize(times, lo, hi, asked) ==
    LET n    == Max({1, asked})
        Kept == {i \in DOMAIN times : lo <= times[i] /\ times[i] <= hi}
        B(i) == IF hi <= lo THEN n ELSE BucketOf(times[i], lo, hi, n)
    IN  [b \in 1 .. n |-> Cardinality({i \in Kept : B(i) = b})]

\* Height 0 to 7 of the bar for a count, hi the highest count.
Bar(c, hi) == IF c = 0 THEN 0 ELSE Min({7, 1 + (c * 6) \div hi})

Sparkline(counts) ==
    LET hi == Max(Range(counts) \cup {0})
    IN  IF hi = 0 THEN [b \in DOMAIN counts |-> 0]
        ELSE [b \in DOMAIN counts |-> Bar(counts[b], hi)]

----------------------------------------------------------------------------
\* The records: one family for each key, newest first.

Members(anomalies, o, k) == {i \in InWindow(anomalies, o) : anomalies[i].key = k}

Record(anomalies, o, k, buckets) ==
    LET M     == Members(anomalies, o, k)
        times == [i \in 1 .. Cardinality(M) |-> anomalies[SetToSortSeq(M, <)[i]].at]
    IN  [key |-> k, count |-> Cardinality(M),
         first |-> Min(Range(times)), last |-> Max(Range(times)),
         impact |-> anomalies[Min(M)].impact,
         buckets |-> IF Windowed(anomalies, o)
                     THEN Bucketize(times, Lo(anomalies, o), Hi(anomalies, o), buckets)
                     ELSE <<>>]

NewestFirst(r, s) == r.last > s.last

Records(anomalies, o, buckets) ==
    LET Keys == {anomalies[i].key : i \in InWindow(anomalies, o)}
    IN  SortSeq(SetToSeq({Record(anomalies, o, k, buckets) : k \in Keys}), NewestFirst)

\* --impact filters the records, --top cuts the cards.
Filtered(records, impact) ==
    IF impact = "" THEN records ELSE SelectSeq(records, LAMBDA r : r.impact = impact)
Cards(records, top) == SubSeq(records, 1, Min({top, Len(records)}))

Total(records) == FoldLeft(LAMBDA n, r : n + r.count, 0, records)

\* The document of --format json.
Payload(anomalies, o, impact, buckets) ==
    LET shown == Filtered(Records(anomalies, o, buckets), impact)
    IN  [applied |-> Windowed(anomalies, o), families |-> Len(shown), records |-> shown,
         events |-> Cardinality(InWindow(anomalies, o)),
         undated |-> Cardinality(Undated(anomalies)),
         impacts |-> [m \in {"blocking", "non-blocking", "unknown"} |->
                         Len(SelectSeq(shown, LAMBDA r : r.impact = m))]]

----------------------------------------------------------------------------
\* diagnosis.py and trace.py: what a family's card says of it.  A line is
\* [record, frames, blank]: it begins a record, it names source positions.

\* Mutant of Continues: a new record does not end the block.
ContinuesPast(line) == ~line.blank
Continues(line) == ~line.blank /\ ~line.record

\* reconstruct_trace and raw_block take the line and what continues it, at most
\* max lines of it.
BlockEnd(lines, i, max) ==
    Max({i} \cup {j \in i + 1 .. Min({Len(lines), i + max}) :
                     \A k \in i + 1 .. j : Continues(lines[k])})

\* _recovery_after: among the reach lines that follow.
RecoveryAfter(lines, i, reach) ==
    \E j \in i + 1 .. Min({Len(lines), i + reach}) :
       lines[j].service = lines[i].service /\ lines[j].recovers

\* By the level, if nothing else speaks: what is not named here, ERROR but ALERT
\* and EMERGENCY too, is blocking only if a stack trace says so.
BySeverity(level, trace) ==
    CASE level \in {"FATAL", "CRITICAL"} -> "blocking"
      [] level \in {"WARNING", "WARN", "NOTICE", "INFO", "DEBUG"} -> "non-blocking"
      [] OTHER -> IF trace THEN "blocking" ELSE "unknown"

\* Mutant of Impact: words of retry or recovery are looked for first.
ImpactSoftFirst(level, words, recovers, trace) ==
    CASE "soft" \in words -> "non-blocking"
      [] "soft" \notin words /\ "hard" \in words -> "blocking"
      [] words \cap {"soft", "hard"} = {} -> IF recovers THEN "non-blocking"
                                          ELSE IF "block" \in words THEN "blocking"
                                          ELSE BySeverity(level, trace)
\* classify_blocking, and diagnose on what it leaves unknown; words holds the
\* kinds of words in the block.
Impact(level, words, recovers, trace) ==
    CASE "hard" \in words -> "blocking"
      [] "hard" \notin words /\ (recovers \/ "soft" \in words) -> "non-blocking"
      [] words = {"block"} /\ ~recovers -> "blocking"
      [] words = {} /\ ~recovers -> BySeverity(level, trace)

----------------------------------------------------------------------------
\* Every anomaly with a time is shown in one family or lies outside of the window,
\* one without a time is counted as undated and not shown, window or no window; no
\* family is empty, and what is shown is what the window holds.
EveryAnomalyPlaced(anomalies, o) ==
    LET p == Payload(anomalies, o, "", 4)
    IN  /\ Total(p.records) = p.events
        /\ p.events + p.undated <= Len(anomalies)
        /\ \A r \in Range(p.records) : r.count > 0
        /\ \A i \in DOMAIN anomalies :
              \/ anomalies[i].at = NoTime
              \/ \E r \in Range(p.records) :
                    r.key = anomalies[i].key /\ r.first <= anomalies[i].at
                    /\ anomalies[i].at <= r.last
              \/ p.applied /\ ~(/\ Lo(anomalies, o) <= anomalies[i].at
                                /\ anomalies[i].at <= Hi(anomalies, o))

\* "no parseable timestamps - showing all (time window not applied)": where no
\* window is applied, every anomaly is shown.
UndatedShown(anomalies, o) ==
    LET p == Payload(anomalies, o, "", 4) IN ~p.applied => p.events = Len(anomalies)

\* The plain command, "from the newest event", shows the newest anomaly, and on
\* its first card.
NewestOnTop(anomalies, last) ==
    LET o == [since |-> {}, until |-> {}, last |-> last, now |-> NoTime]
        cards == Cards(Records(anomalies, o, 4), 1)
    IN  Dated(anomalies) # {} => Len(cards) = 1 /\ cards[1].last = Newest(anomalies)

\* The sparkline of a family holds every one of its events, the one at the end
\* of the window too, and a bar is flat exactly where there is none.
SparklineTruthful(anomalies, o, n) ==
    \A r \in Range(Records(anomalies, o, n)) :
       Windowed(anomalies, o) =>
          LET bars == Sparkline(r.buckets)
          IN  /\ FoldFunction(LAMBDA a, b : a + b, 0, r.buckets) = r.count
              /\ \A b \in DOMAIN bars : bars[b] = 0 <=> r.buckets[b] = 0
              /\ 7 \in Range(bars)

\* A block never reaches into the next record: what it says of a position or a
\* cause belongs to the record it begins in.
BlockStaysInRecord(lines, i, max) ==
    LET e == BlockEnd(lines, i, max)
    IN  /\ e - i <= max
        /\ \A k \in i + 1 .. e : ~lines[k].record
        /\ e < Len(lines) /\ e < i + max => lines[e + 1].record \/ lines[e + 1].blank

\* From DEBUG to FATAL the impact never falls when the level gets worse; ALERT and
\* EMERGENCY are told as ERROR is, so that by their level alone they are "unknown",
\* below CRITICAL.  At every level the impact never falls when the text names a
\* stop, never rises when the text names a retry or the log goes on, and nothing
\* after a hard stop softens it.
ImpactOrdered(lines, more, words, trace) ==
    LET Height(m) == CASE m = "non-blocking" -> 0 [] m = "unknown" -> 1 [] m = "blocking" -> 2
        levels == <<"DEBUG", "INFO", "NOTICE", "WARN", "ERROR", "CRITICAL", "FATAL">>
        alarms == {"ALERT", "EMERGENCY"}
        Of(ls, level, ws) == Height(Impact(level, ws, RecoveryAfter(ls, 1, 3), trace))
    IN  /\ \A k \in 2 .. Len(levels) :
              Of(lines, levels[k - 1], words) <= Of(lines, levels[k], words)
        /\ \A level \in alarms : Of(lines, level, words) = Of(lines, "ERROR", words)
        /\ \A level \in Range(levels) \cup alarms :
              /\ Of(lines, level, words \cup {"soft"}) <= Of(lines, level, words)
              /\ Of(lines, level, words \cup {"hard"}) = 2
              /\ Of(Append(lines, more), level, words) <= Of(lines, level, words)
============================================================================
