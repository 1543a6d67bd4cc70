-------------------------- MODULE DegradationLadder --------------------------
(***************************************************************************)
(* DegradationLadder (application/pipeline.py): analysis steps down one    *)
(* mode when the queue stays deep and up again when it stays shallow.      *)
(* Thresholds are percentages.                                             *)
(***************************************************************************)
EXTENDS Integers, Sequences

CONSTANTS Capacity, High, Low, Dwell,  \* LadderConfig
          Depths,                      \* the queue depths that may be observed
          CounterMax                   \* bound on the dwell counters

ASSUME LadderAssumption ==
    /\ Capacity \in Nat /\ High \in Nat /\ Low \in Nat
    /\ Low < High
    /\ Dwell \in Nat \ {0}
    /\ Depths \subseteq Nat
    /\ CounterMax \in Nat /\ CounterMax >= Dwell

VARIABLES
    level,   \* self._level, an index of LADDER
    up,      \* self._up
    down,    \* self._down
    recent   \* history: the last Dwell zones observed since the last move

vars == <<level, up, down, recent>>

\* LADDER: full, no_embeddings, counts_only, sampling
Top == 3

Zones == {"high", "low", "between"}

TypeOK ==
    /\ level \in 0..Top
    /\ up \in 0..CounterMax
    /\ down \in 0..CounterMax
    /\ recent \in Seq(Zones) /\ Len(recent) <= Dwell

Init == level = 0 /\ up = 0 /\ down = 0 /\ recent = <<>>

\* frac against cfg.high and cfg.low; an empty capacity counts as no load.
Zone(depth) ==
    IF Capacity = 0 THEN "low"
    ELSE IF depth * 100 >= High * Capacity THEN "high"
    ELSE IF depth * 100 <= Low * Capacity THEN "low"
    ELSE "between"

Remember(z) ==
    LET longer == Append(recent, z)
    IN IF Len(longer) > Dwell THEN Tail(longer) ELSE longer

\* _transition: both counters start over.
\* Mutant: only the level changes.
TransitionKeepsCounters(new) ==
    level' = new /\ UNCHANGED <<up, down>> /\ recent' = <<>>
Transition(new) ==
    level' = new /\ up' = 0 /\ down' = 0 /\ recent' = <<>>

Stay(newUp, newDown, z) ==
    /\ up' = newUp
    /\ down' = newDown
    /\ recent' = Remember(z)
    /\ UNCHANGED level

\* Mutants: one observation too late; past the last rung.
ObserveHighLate ==
    /\ down < CounterMax
    /\ IF down >= Dwell /\ level < Top
       THEN Transition(level + 1)
       ELSE Stay(0, down + 1, "high")
ObserveHighUnbounded ==
    /\ down < CounterMax
    /\ IF down + 1 >= Dwell THEN Transition(level + 1) ELSE Stay(0, down + 1, "high")
ObserveHigh ==
    /\ down < CounterMax
    /\ IF down + 1 >= Dwell /\ level < Top
       THEN Transition(level + 1)
       ELSE Stay(0, down + 1, "high")

\* Mutant: a shallow observation does not end the spell of deep ones.
ObserveLowKeepsDown ==
    /\ up < CounterMax
    /\ IF up + 1 >= Dwell /\ level > 0
       THEN Transition(level - 1)
       ELSE Stay(up + 1, down, "low")
ObserveLow ==
    /\ up < CounterMax
    /\ IF up + 1 >= Dwell /\ level > 0
       THEN Transition(level - 1)
       ELSE Stay(up + 1, 0, "low")

\* Mutant: the counters survive an observation between the thresholds.
ObserveBetweenKeeps == Stay(up, down, "between")
ObserveBetween == Stay(0, 0, "between")

Observe(depth) ==
    \/ Zone(depth) = "high" /\ ObserveHigh
    \/ Zone(depth) = "low" /\ ObserveLow
    \/ Zone(depth) = "between" /\ ObserveBetween

Next == \E depth \in Depths : Observe(depth)

Spec == Init /\ [][Next]_vars

AllIn(z, s) == \A i \in DOMAIN s : s[i] = z

\* Hysteresis: the mode moves one rung at a time, and only after dwell - 1
\* observations since the last move that all lay beyond the same threshold.
MovesAreEarned ==
    [][\/ level' = level
       \/ /\ Len(recent) >= Dwell - 1
          /\ LET spell == SubSeq(recent, Len(recent) - Dwell + 2, Len(recent))
             IN \/ level' = level + 1 /\ AllIn("high", spell)
                \/ level' = level - 1 /\ AllIn("low", spell)]_vars

\* Sustained load or calm is never ignored: dwell observations beyond a
\* threshold without a move happen only at that end of the ladder.
SustainedLoadMoves ==
    Len(recent) = Dwell => /\ AllIn("high", recent) => level = Top
                           /\ AllIn("low", recent) => level = 0
==============================================================================
