---------------------------- MODULE AnalysisProofs ----------------------------
(***************************************************************************)
(* What is proved of the way of the lines from the sources to the report   *)
(* and into what is learned (MCAnalysis): of the ladder, the scheduler of  *)
(* sources, the scan in slices, the baseline, the training buffer, the     *)
(* scoring, the detectors, the plan of the work and what is said of a      *)
(* finding, whatever the constants are.                                    *)
(***************************************************************************)
EXTENDS MCAnalysis, CountingLemmas, SequenceTheorems

-----------------------------------------------------------------------------
(* The ladder.                                                             *)

\* The observation that j others have followed.
Ago(j) == recent[Len(recent) - j]

\* A counter is the length of the spell of observations beyond its threshold
\* that goes on; the history forgets what is older than Dwell.
Counts(counter, zone) ==
    /\ counter <= Len(recent) \/ Len(recent) = Dwell
    /\ \A j \in 0 .. Len(recent) - 1 : j < counter => Ago(j) = zone
    /\ counter < Len(recent) => Ago(counter) # zone

LadderIInv ==
    /\ TypeOK
    /\ Counts(down, "high") /\ Counts(up, "low")
    /\ down >= Dwell => level = Top
    /\ up >= Dwell => level = 0

\* What the history is after one more observation.
LEMMA RememberIs ==
    ASSUME TypeOK, NEW z \in Zones
    PROVE  LET R == Remember(z)
           IN  /\ R \in Seq(Zones)
               /\ Len(R) = IF Len(recent) < Dwell THEN Len(recent) + 1 ELSE Dwell
               /\ R[Len(R)] = z
               /\ \A j \in 1 .. Len(R) - 1 : R[Len(R) - j] = Ago(j - 1)
<1> DEFINE a == Append(recent, z)
           k == Len(recent)
<1>1. recent \in Seq(Zones) /\ k \in Nat /\ k <= Dwell /\ Dwell \in Nat /\ Dwell > 0
  BY LadderAssumption DEF TypeOK
<1>2. /\ a \in Seq(Zones) /\ Len(a) = k + 1 /\ a[k + 1] = z
      /\ \A i \in 1 .. k : a[i] = recent[i]
  BY <1>1
<1> HIDE DEF a
<1>3. CASE k < Dwell
  <2>1. Remember(z) = a BY <1>1, <1>2, <1>3 DEF Remember, a
  <2> QED BY <1>1, <1>2, <1>3, <2>1 DEF Ago
<1>4. CASE k = Dwell
  <2>1. Remember(z) = Tail(a) BY <1>1, <1>2, <1>4 DEF Remember, a
  <2>2. a # <<>> BY <1>1, <1>2
  <2>3. /\ Tail(a) \in Seq(Zones) /\ Len(Tail(a)) = k
        /\ \A i \in 1 .. k : Tail(a)[i] = a[i + 1]
    BY <1>1, <1>2, <2>2, PlacesTail
  <2> QED BY <1>1, <1>2, <1>4, <2>1, <2>3 DEF Ago
<1> QED BY <1>1, <1>3, <1>4

\* A spell goes on, another one is over.
LEMMA SpellsCount ==
    ASSUME LadderIInv, NEW z \in Zones, NEW y \in {"high", "low"}, NEW c \in Nat, NEW d \in Nat,
           Counts(c, y), recent' = Remember(z),
           d = IF z = y THEN c + 1 ELSE 0
    PROVE  Counts(d, y)'
<1> DEFINE R == recent'
<1>1. TypeOK BY DEF LadderIInv
<1>2. /\ Len(R) = IF Len(recent) < Dwell THEN Len(recent) + 1 ELSE Dwell
      /\ R[Len(R)] = z
      /\ \A j \in 1 .. Len(R) - 1 : R[Len(R) - j] = Ago(j - 1)
  BY <1>1, RememberIs
<1>3. Len(recent) \in Nat /\ Dwell \in Nat /\ Dwell > 0 /\ Len(recent) <= Dwell
  BY <1>1, LadderAssumption DEF TypeOK
<1> HIDE DEF R
<1>4. d <= Len(R) \/ Len(R) = Dwell BY <1>2, <1>3 DEF Counts
<1>5. ASSUME NEW j \in 0 .. Len(R) - 1, j < d PROVE R[Len(R) - j] = y
  <2>1. CASE j = 0 BY <1>2, <1>3, <1>5, <2>1
  <2>2. CASE j # 0
    <3>1. j \in 1 .. Len(R) - 1 /\ j - 1 \in 0 .. Len(recent) - 1 /\ j - 1 < c
      BY <1>2, <1>3, <1>5, <2>2
    <3>2. Ago(j - 1) = y BY <3>1 DEF Counts
    <3> QED BY <1>2, <1>5, <3>1, <3>2
  <2> QED BY <2>1, <2>2
<1>6. ASSUME d < Len(R) PROVE R[Len(R) - d] # y
  <2>1. CASE z = y
    <3>1. d \in 1 .. Len(R) - 1 /\ d - 1 = c /\ c < Len(recent) BY <1>2, <1>3, <1>6, <2>1
    <3>2. R[Len(R) - d] = Ago(c) BY <1>2, <3>1
    <3> QED BY <3>1, <3>2 DEF Counts
  <2>2. CASE z # y
    <3>1. d = 0 /\ Len(R) - 0 = Len(R) BY <1>2, <1>3, <2>2
    <3> QED BY <1>2, <2>2, <3>1
  <2> QED BY <2>1, <2>2
<1> QED BY <1>4, <1>5, <1>6 DEF Counts, Ago, R

LEMMA LadderStarts == Init => LadderIInv
BY LadderAssumption DEF Init, LadderIInv, TypeOK, Counts, Top

\* A move starts over.
LEMMA TransitionKeeps ==
    ASSUME LadderIInv, NEW l \in 0 .. Top, Transition(l)
    PROVE  LadderIInv'
BY LadderAssumption DEF Transition, LadderIInv, TypeOK, Counts

LEMMA LadderSteps == LadderIInv /\ Next => LadderIInv'
<1> SUFFICES ASSUME LadderIInv, Next PROVE LadderIInv'
  OBVIOUS
<1>1. PICK depth \in Depths : Observe(depth) BY DEF Next
<1>2. /\ level \in 0 .. Top /\ up \in Nat /\ down \in Nat /\ Dwell \in Nat
      /\ up \in 0 .. CounterMax /\ down \in 0 .. CounterMax /\ CounterMax \in Nat /\ Dwell > 0
  BY LadderAssumption DEF LadderIInv, TypeOK
<1>3. TypeOK /\ Counts(down, "high") /\ Counts(up, "low") BY DEF LadderIInv
<1>4. ASSUME NEW z \in Zones, NEW u \in 0 .. CounterMax, NEW d \in 0 .. CounterMax,
             Stay(u, d, z),
             d = IF z = "high" THEN down + 1 ELSE 0,
             u = IF z = "low" THEN up + 1 ELSE 0,
             d >= Dwell => level = Top, u >= Dwell => level = 0
      PROVE  LadderIInv'
  <2>1. recent' = Remember(z) /\ up' = u /\ down' = d /\ level' = level BY <1>4 DEF Stay
  <2>2. recent' \in Seq(Zones) /\ Len(recent') <= Dwell
    BY <1>2, <1>3, <2>1, RememberIs DEF TypeOK
  <2>3. Counts(d, "high")' BY <1>2, <1>3, <1>4, <2>1, SpellsCount
  <2>4. Counts(u, "low")' BY <1>2, <1>3, <1>4, <2>1, SpellsCount
  <2> QED BY <1>2, <1>4, <2>1, <2>2, <2>3, <2>4 DEF LadderIInv, TypeOK, Counts
<1>5. CASE ObserveHigh
  <2>1. CASE down + 1 >= Dwell /\ level < Top
    <3>1. Transition(level + 1) /\ level + 1 \in 0 .. Top
      BY <1>2, <1>5, <2>1 DEF ObserveHigh, Top
    <3> QED BY <3>1, TransitionKeeps
  <2>2. CASE ~(down + 1 >= Dwell /\ level < Top)
    <3>1. Stay(0, down + 1, "high") /\ down < CounterMax BY <1>5, <2>2 DEF ObserveHigh
    <3>2. down + 1 \in 0 .. CounterMax /\ 0 \in 0 .. CounterMax BY <1>2, <3>1
    <3>3. down + 1 >= Dwell => level = Top BY <1>2, <2>2 DEF Top
    <3> QED BY <1>2, <1>4, <3>1, <3>2, <3>3 DEF Zones
  <2> QED BY <2>1, <2>2
<1>6. CASE ObserveLow
  <2>1. CASE up + 1 >= Dwell /\ level > 0
    <3>1. Transition(level - 1) /\ level - 1 \in 0 .. Top
      BY <1>2, <1>6, <2>1 DEF ObserveLow, Top
    <3> QED BY <3>1, TransitionKeeps
  <2>2. CASE ~(up + 1 >= Dwell /\ level > 0)
    <3>1. Stay(up + 1, 0, "low") /\ up < CounterMax BY <1>6, <2>2 DEF ObserveLow
    <3>2. up + 1 \in 0 .. CounterMax /\ 0 \in 0 .. CounterMax BY <1>2, <3>1
    <3>3. up + 1 >= Dwell => level = 0 BY <1>2, <2>2 DEF Top
    <3> QED BY <1>2, <1>4, <3>1, <3>2, <3>3 DEF Zones
  <2> QED BY <2>1, <2>2
<1>7. CASE ObserveBetween
  <2>1. Stay(0, 0, "between") /\ 0 \in 0 .. CounterMax BY <1>2, <1>7 DEF ObserveBetween
  <2> QED BY <1>2, <1>4, <2>1 DEF Zones
<1> QED BY <1>1, <1>5, <1>6, <1>7 DEF Observe

\* So sustained load moves the ladder.
LEMMA SpellsMove == LadderIInv => TypeOK /\ SustainedLoadMoves
<1> SUFFICES ASSUME LadderIInv, Len(recent) = Dwell
             PROVE  /\ AllIn("high", recent) => level = Top
                    /\ AllIn("low", recent) => level = 0
  BY DEF LadderIInv, SustainedLoadMoves
<1>1. /\ recent \in Seq(Zones) /\ Len(recent) \in Nat /\ DOMAIN recent = 1 .. Len(recent)
      /\ up \in Nat /\ down \in Nat /\ Dwell \in Nat
  BY LadderAssumption DEF LadderIInv, TypeOK
<1>2. ASSUME AllIn("high", recent) PROVE level = Top
  <2>1. ~(down < Len(recent))
    <3>1. SUFFICES ASSUME down < Len(recent) PROVE FALSE
      OBVIOUS
    <3>2. Len(recent) - down \in DOMAIN recent BY <1>1, <3>1
    <3> QED BY <1>2, <3>1, <3>2 DEF AllIn, LadderIInv, Counts, Ago
  <2> QED BY <1>1, <2>1 DEF LadderIInv
<1>3. ASSUME AllIn("low", recent) PROVE level = 0
  <2>1. ~(up < Len(recent))
    <3>1. SUFFICES ASSUME up < Len(recent) PROVE FALSE
      OBVIOUS
    <3>2. Len(recent) - up \in DOMAIN recent BY <1>1, <3>1
    <3> QED BY <1>3, <3>1, <3>2 DEF AllIn, LadderIInv, Counts, Ago
  <2> QED BY <1>1, <2>1 DEF LadderIInv
<1> QED BY <1>2, <1>3

\* And a move takes a spell.
LEMMA SpellsOnly ==
    ASSUME LadderIInv, Next
    PROVE  \/ level' = level
           \/ /\ Len(recent) >= Dwell - 1
              /\ LET spell == SubSeq(recent, Len(recent) - Dwell + 2, Len(recent))
                 IN \/ level' = level + 1 /\ AllIn("high", spell)
                    \/ level' = level - 1 /\ AllIn("low", spell)
<1> DEFINE k == Len(recent)
           spell == SubSeq(recent, k - Dwell + 2, k)
<1>1. PICK depth \in Depths : Observe(depth) BY DEF Next
<1>2. /\ recent \in Seq(Zones) /\ k \in Nat /\ up \in Nat /\ down \in Nat
      /\ Dwell \in Nat /\ Dwell > 0 /\ k <= Dwell
  BY LadderAssumption DEF LadderIInv, TypeOK
<1>3. ASSUME NEW c \in Nat, NEW z \in Zones, Counts(c, z), c + 1 >= Dwell
      PROVE  k >= Dwell - 1 /\ AllIn(z, spell)
  <2>1. k >= Dwell - 1 BY <1>2, <1>3 DEF Counts
  <2>2. k - Dwell + 2 \in Int /\ k - Dwell + 2 >= 1 /\ k \in Int BY <1>2, <2>1
  <2>3. \A i \in (k - Dwell + 2) .. k : recent[i] \in Zones
    <3>1. \A i \in (k - Dwell + 2) .. k : i \in 1 .. k BY <1>2, <2>2
    <3> QED BY <1>2, <3>1
  <2>4. /\ spell \in Seq(Zones)
        /\ Len(spell) = IF k - Dwell + 2 <= k THEN k - (k - Dwell + 2) + 1 ELSE 0
        /\ \A i \in 1 .. (k - (k - Dwell + 2) + 1) : spell[i] = recent[k - Dwell + 2 + i - 1]
    BY <2>2, <2>3, SubSeqProperties
  <2>5. Len(spell) = Dwell - 1 /\ DOMAIN spell = 1 .. Dwell - 1
    <3>1. Len(spell) = Dwell - 1 BY <1>2, <2>4
    <3> QED BY <2>4, <3>1
  <2> HIDE DEF spell
  <2>6. ASSUME NEW i \in 1 .. Dwell - 1 PROVE spell[i] = z
    <3> DEFINE j == Dwell - 1 - i
    <3>1. j \in 0 .. k - 1 /\ j < c /\ k - j = k - Dwell + 2 + i - 1
          /\ i \in 1 .. (k - (k - Dwell + 2) + 1)
      BY <1>2, <1>3, <2>1
    <3>2. Ago(j) = z
      <4> HIDE DEF j
      <4> QED BY <1>3, <3>1 DEF Counts
    <3>3. spell[i] = recent[k - j] BY <2>4, <3>1
    <3> QED BY <3>2, <3>3 DEF Ago
  <2> QED BY <2>1, <2>5, <2>6 DEF AllIn
<1> HIDE DEF spell
<1>4. CASE ObserveHigh
  <2>1. \/ level' = level
        \/ down + 1 >= Dwell /\ level' = level + 1
    BY <1>4 DEF ObserveHigh, Transition, Stay
  <2>2. Counts(down, "high") /\ "high" \in Zones BY DEF LadderIInv, Zones
  <2>3. down + 1 >= Dwell => k >= Dwell - 1 /\ AllIn("high", spell) BY <1>2, <1>3, <2>2
  <2> QED BY <2>1, <2>3 DEF spell
<1>5. CASE ObserveLow
  <2>1. \/ level' = level
        \/ up + 1 >= Dwell /\ level' = level - 1
    BY <1>5 DEF ObserveLow, Transition, Stay
  <2>2. Counts(up, "low") /\ "low" \in Zones BY DEF LadderIInv, Zones
  <2>3. up + 1 >= Dwell => k >= Dwell - 1 /\ AllIn("low", spell) BY <1>2, <1>3, <2>2
  <2> QED BY <2>1, <2>3 DEF spell
<1>6. CASE ObserveBetween BY <1>6 DEF ObserveBetween, Stay
<1> QED BY <1>1, <1>4, <1>5, <1>6 DEF Observe

-----------------------------------------------------------------------------
(* The scheduler of sources.                                               *)

\* A state between two turns of the loop: only the source whose turn it is, once
\* credited, has the price of an item or more.
LoopStates ==
    {t \in [deficit : [Source -> Nat], cursor : 1 .. Len(order), credited : BOOLEAN,
            served : Source \cup {Scheduler!NoSource}] :
        \A s \in Source :
           \/ t.deficit[s] < Price
           \/ t.credited /\ s = order[t.cursor] /\ t.deficit[s] < Price + Weight[s]}

SchedulerTyped ==
    /\ order \in Seq(Source) /\ waits \in [Source -> 0 .. WaitMax]
    /\ deficit \in [Source -> Nat] /\ cursor \in Nat /\ credited \in BOOLEAN

SchedulerIInv ==
    /\ SchedulerTyped
    /\ order = <<>> => cursor = 1 /\ credited = FALSE /\ \A s \in Source : deficit[s] < Price
    /\ order # <<>> => cursor \in 1 .. Len(order)
    /\ order # <<>> =>
          \A s \in Source :
             \/ deficit[s] < Price
             \/ credited /\ s = order[cursor] /\ deficit[s] < Price + Weight[s]

LEMMA SchedulerStarts == Scheduler!Init => SchedulerIInv
<1> SUFFICES ASSUME Scheduler!Init PROVE SchedulerIInv
  OBVIOUS
<1>1. /\ order = <<>> /\ deficit = [s \in Source |-> 0] /\ cursor = 1 /\ credited = FALSE
      /\ waits = [s \in Source |-> 0]
  BY DEF Scheduler!Init
<1>2. Price \in Nat \ {0} /\ WaitMax \in Nat BY AnalysisAssumption
<1>3. \A s \in Source : deficit[s] < Price BY <1>1, <1>2
<1>4. order \in Seq(Source) BY <1>1
<1>5. SchedulerTyped
  <2>1. 0 \in 0 .. WaitMax BY <1>2
  <2>2. waits \in [Source -> 0 .. WaitMax] BY <1>1, <2>1
  <2>3. deficit \in [Source -> Nat] BY <1>1
  <2> QED BY <1>1, <1>4, <2>2, <2>3 DEF SchedulerTyped
<1> QED BY <1>1, <1>3, <1>5 DEF SchedulerIInv

\* The turn passes to a source that is not credited yet.
LEMMA AdvanceIs ==
    ASSUME order \in Seq(Source), order # <<>>,
           NEW t \in [deficit : [Source -> Nat], cursor : 1 .. Len(order), credited : BOOLEAN,
                      served : Source \cup {Scheduler!NoSource}],
           \A s \in Source : t.deficit[s] < Price
    PROVE  Scheduler!Advance(t) \in LoopStates
<1> DEFINE a == Scheduler!Advance(t)
           x == (t.cursor % Len(order)) + 1
<1>1. Len(order) \in Nat /\ Len(order) > 0 BY EmptySeq
<1>2. x \in 1 .. Len(order) BY <1>1
<1>3. a = [t EXCEPT !.cursor = x, !.credited = FALSE] BY DEF Scheduler!Advance
<1> HIDE DEF x
<1>4. a \in [deficit : [Source -> Nat], cursor : 1 .. Len(order), credited : BOOLEAN,
             served : Source \cup {Scheduler!NoSource}]
      /\ a.deficit = t.deficit
  BY <1>2, <1>3
<1> HIDE DEF a
<1> QED BY <1>4 DEF LoopStates, a

\* A turn keeps credit in bounds.
LEMMA TurnIs ==
    ASSUME order \in Seq(Source), order # <<>>, NEW ready, NEW t \in LoopStates
    PROVE  Scheduler!Turn(t, ready) \in LoopStates
<1> DEFINE s == order[t.cursor]
           earned == [t EXCEPT !.deficit[s] = @ + Weight[s], !.credited = TRUE]
           c == IF t.credited THEN t ELSE earned
           gone == [t EXCEPT !.deficit[s] = 0]
           paid == [c EXCEPT !.deficit[s] = @ - Price, !.served = s]
           L == [deficit : [Source -> Nat], cursor : 1 .. Len(order), credited : BOOLEAN,
                 served : Source \cup {Scheduler!NoSource}]
<1>1. t \in L /\ s \in Source /\ Weight[s] \in Nat \ {0} /\ Price \in Nat \ {0}
  BY AnalysisAssumption DEF LoopStates
<1>2. \A q \in Source : t.deficit[q] \in Nat BY <1>1
<1>3. \A q \in Source : q # s => t.deficit[q] < Price BY <1>1 DEF LoopStates
<1>4. Scheduler!Turn(t, ready) =
         IF s \notin ready THEN Scheduler!Advance(gone)
         ELSE IF c.deficit[s] >= Price THEN paid ELSE Scheduler!Advance(c)
  BY DEF Scheduler!Turn
<1> HIDE DEF s
<1>5. gone \in L /\ gone.deficit[s] = 0 /\ \A q \in Source : q # s => gone.deficit[q] = t.deficit[q]
  BY <1>1
<1>6. c \in L /\ c.credited /\ c.cursor = t.cursor /\ c.deficit[s] \in Nat
      /\ c.deficit[s] < Price + Weight[s]
      /\ \A q \in Source : q # s => c.deficit[q] = t.deficit[q]
  <2>1. CASE t.credited
    <3>1. c = t BY <2>1
    <3>2. t.deficit[s] < Price \/ t.deficit[s] < Price + Weight[s] BY <1>1 DEF LoopStates
    <3> QED BY <1>1, <1>2, <2>1, <3>1, <3>2
  <2>2. CASE ~t.credited
    <3>1. c = earned BY <2>2
    <3>2. t.deficit[s] < Price /\ t.deficit[s] \in Nat BY <1>1, <2>2 DEF LoopStates
    <3> DEFINE d == [t.deficit EXCEPT ![s] = t.deficit[s] + Weight[s]]
    <3>3. d \in [Source -> Nat] /\ d[s] = t.deficit[s] + Weight[s]
          /\ \A q \in Source : q # s => d[q] = t.deficit[q]
      BY <1>1, <3>2
    <3>4. earned = [t EXCEPT !.deficit = d, !.credited = TRUE] BY <1>1
    <3> HIDE DEF d
    <3>5. earned \in L /\ earned.credited = TRUE /\ earned.cursor = t.cursor
          /\ earned.deficit[s] = t.deficit[s] + Weight[s]
          /\ \A q \in Source : q # s => earned.deficit[q] = t.deficit[q]
      BY <1>1, <3>3, <3>4
    <3> HIDE DEF earned, c
    <3> QED BY <1>1, <3>1, <3>2, <3>5
  <2> QED BY <2>1, <2>2
<1> HIDE DEF c, gone
<1>7. CASE s \notin ready
  <2>1. ASSUME NEW q \in Source PROVE gone.deficit[q] < Price
    <3>1. CASE q = s BY <1>1, <1>5, <3>1
    <3>2. CASE q # s BY <1>3, <1>5, <3>2
    <3> QED BY <3>1, <3>2
  <2>2. Scheduler!Advance(gone) \in LoopStates BY <1>5, <2>1, AdvanceIs
  <2> QED BY <1>4, <1>7, <2>2
<1>8. CASE s \in ready /\ c.deficit[s] >= Price
  <2>1. paid \in L /\ paid.credited /\ paid.cursor = t.cursor
        /\ paid.deficit[s] = c.deficit[s] - Price
        /\ \A q \in Source : q # s => paid.deficit[q] = t.deficit[q]
    <3> DEFINE d == [c.deficit EXCEPT ![s] = c.deficit[s] - Price]
    <3>1. c.deficit[s] - Price \in Nat BY <1>1, <1>6, <1>8
    <3>2. d \in [Source -> Nat] /\ d[s] = c.deficit[s] - Price
          /\ \A q \in Source : q # s => d[q] = c.deficit[q]
      BY <1>1, <1>6, <3>1
    <3>3. paid = [c EXCEPT !.deficit = d, !.served = s] BY <1>1, <1>6
    <3> HIDE DEF d
    <3> QED BY <1>1, <1>6, <3>2, <3>3
  <2> HIDE DEF paid
  <2>2. paid.deficit[s] < Price + Weight[s]
    <3>1. c.deficit[s] - Price < Price + Weight[s] BY <1>1, <1>6
    <3> QED BY <2>1, <3>1
  <2>3. paid \in LoopStates BY <1>3, <2>1, <2>2 DEF LoopStates, s
  <2> QED BY <1>4, <1>8, <2>3
<1>9. CASE s \in ready /\ ~(c.deficit[s] >= Price)
  <2>1. ASSUME NEW q \in Source PROVE c.deficit[q] < Price
    <3>1. CASE q = s BY <1>1, <1>6, <1>9, <3>1
    <3>2. CASE q # s BY <1>3, <1>6, <3>2
    <3> QED BY <3>1, <3>2
  <2>2. Scheduler!Advance(c) \in LoopStates BY <1>6, <2>1, AdvanceIs
  <2> QED BY <1>4, <1>9, <2>2
<1> QED BY <1>7, <1>8, <1>9

\* So does a whole loop, however many turns it takes.
LEMMA SelectIs ==
    ASSUME SchedulerIInv, NEW ready, Scheduler!Select(ready)
    PROVE  \E t \in LoopStates :
              deficit' = t.deficit /\ cursor' = t.cursor /\ credited' = t.credited
<1> DEFINE start == [deficit |-> deficit, cursor |-> cursor, credited |-> credited,
                     served |-> Scheduler!NoSource]
           go(t) == IF t.served = Scheduler!NoSource THEN Scheduler!Turn(t, ready) ELSE t
           next1 == [p \in Nat \X LoopStates |-> go(p[2])]
           after == CHOOSE g : g = [i \in Nat |-> IF i = 0 THEN start ELSE go(g[i - 1])]
           last == 4 * Len(order) + 2
<1>1. order # <<>> /\ order \in Seq(Source) /\ Len(order) \in Nat
  BY DEF Scheduler!Select, SchedulerIInv, SchedulerTyped
<1>2. start \in LoopStates
  BY <1>1 DEF SchedulerIInv, SchedulerTyped, LoopStates
<1>3. \A t \in LoopStates : go(t) \in LoopStates BY <1>1, TurnIs
<1>4. next1 \in [Nat \X LoopStates -> LoopStates]
  <2> HIDE DEF go, LoopStates
  <2> QED BY <1>3
<1>5. \E g : g = [i \in Nat |-> IF i = 0 THEN start ELSE go(g[i - 1])]
  <2>1. PICK g \in [Nat -> LoopStates] : Recursive(g, start, next1)
    <3> HIDE DEF next1, start
    <3> QED BY <1>2, <1>4, RecursiveFunction
  <2>2. ASSUME NEW i \in Nat PROVE g[i] = IF i = 0 THEN start ELSE go(g[i - 1])
    <3>1. CASE i = 0 BY <2>1, <3>1 DEF Recursive
    <3>2. CASE i # 0
      <4>1. i - 1 \in Nat /\ i - 1 + 1 = i BY <3>2
      <4>2. g[i - 1 + 1] = next1[<<i - 1, g[i - 1]>>] BY <2>1, <4>1 DEF Recursive
      <4>3. g[i - 1] \in LoopStates BY <4>1
      <4> HIDE DEF go
      <4>4. next1[<<i - 1, g[i - 1]>>] = go(g[i - 1]) BY <4>1, <4>3
      <4> QED BY <3>2, <4>1, <4>2, <4>4
    <3> QED BY <3>1, <3>2
  <2> HIDE DEF go, start
  <2>3. g = [i \in Nat |-> IF i = 0 THEN start ELSE go(g[i - 1])] BY <2>1, <2>2
  <2> QED BY <2>3
<1>6. after = [i \in Nat |-> IF i = 0 THEN start ELSE go(after[i - 1])]
  <2> HIDE DEF go, start
  <2> QED BY <1>5
<1>7. last \in Nat BY <1>1
<1>8. deficit' = after[last].deficit /\ cursor' = after[last].cursor
      /\ credited' = after[last].credited
  BY DEF Scheduler!Select
<1> HIDE DEF after, go, start, last
<1>9. \A i \in Nat : after[i] \in LoopStates
  <2> DEFINE Bad == {i \in Nat : after[i] \notin LoopStates}
  <2>1. SUFFICES ASSUME Bad # {} PROVE FALSE
    OBVIOUS
  <2>2. PICK i \in Bad : \A j \in Bad : i <= j
    <3>1. Bad \subseteq Nat OBVIOUS
    <3> HIDE DEF Bad
    <3>2. \E m \in Bad : \A j \in Bad : m <= j BY <2>1, <3>1, LeastNumber
    <3> QED BY <3>2
  <2>3. i \in Nat /\ after[i] \notin LoopStates BY <2>2
  <2>4. i # 0 BY <1>2, <1>6, <2>3
  <2>5. i - 1 \in Nat /\ ~(i <= i - 1) BY <2>3, <2>4
  <2>6. i - 1 \notin Bad BY <2>2, <2>5
  <2>7. after[i - 1] \in LoopStates BY <2>5, <2>6
  <2>8. after[i] = go(after[i - 1]) BY <1>6, <2>3, <2>4
  <2> QED BY <1>3, <2>3, <2>7, <2>8
<1> QED BY <1>7, <1>8, <1>9

LEMMA SchedulerSteps == SchedulerIInv /\ Scheduler!Next => SchedulerIInv'
<1> SUFFICES ASSUME SchedulerIInv, Scheduler!Next PROVE SchedulerIInv'
  OBVIOUS
<1>1. ASSUME NEW s \in Source, Scheduler!Add(s) PROVE SchedulerIInv'
  <2>1. /\ order' = Append(order, s) /\ deficit' = deficit /\ cursor' = cursor
        /\ credited' = credited /\ waits' = waits
    BY <1>1 DEF Scheduler!Add
  <2>2. order \in Seq(Source) /\ Len(order) \in Nat BY DEF SchedulerIInv, SchedulerTyped
  <2>3. /\ order' \in Seq(Source) /\ Len(order') = Len(order) + 1 /\ order' # <<>>
        /\ \A i \in 1 .. Len(order) : order'[i] = order[i]
    BY <2>1, <2>2
  <2>4. SchedulerTyped' BY <2>1, <2>3 DEF SchedulerIInv, SchedulerTyped
  <2>5. CASE order = <<>>
    <3>1. cursor = 1 /\ ~credited /\ \A q \in Source : deficit[q] < Price
      BY <2>5 DEF SchedulerIInv
    <3>2. cursor' \in 1 .. Len(order') BY <2>1, <2>2, <2>3, <3>1
    <3> QED BY <2>1, <2>3, <2>4, <3>1, <3>2 DEF SchedulerIInv
  <2>6. CASE order # <<>>
    <3>1. cursor \in 1 .. Len(order) BY <2>6 DEF SchedulerIInv
    <3>2. cursor' \in 1 .. Len(order') /\ order'[cursor'] = order[cursor]
      BY <2>1, <2>2, <2>3, <3>1
    <3> QED BY <2>1, <2>3, <2>4, <2>6, <3>2 DEF SchedulerIInv
  <2> QED BY <2>5, <2>6
<1>2. ASSUME NEW ready \in SUBSET Source, Scheduler!Select(ready) PROVE SchedulerIInv'
  <2>1. PICK t \in LoopStates :
           deficit' = t.deficit /\ cursor' = t.cursor /\ credited' = t.credited
    BY <1>2, SelectIs
  <2>2. order # <<>> /\ order' = order BY <1>2 DEF Scheduler!Select
  <2>3. waits' \in [Source -> 0 .. WaitMax]
    <3>1. PICK s : waits' = [q \in Source |-> IF q \notin ready \/ q = s THEN 0
                                             ELSE IF waits[q] < WaitMax THEN waits[q] + 1
                                             ELSE WaitMax]
      BY <1>2 DEF Scheduler!Select
    <3>2. WaitMax \in Nat /\ \A q \in Source : waits[q] \in 0 .. WaitMax
      BY AnalysisAssumption DEF SchedulerIInv, SchedulerTyped
    <3> QED BY <3>1, <3>2
  <2>4. /\ t \in [deficit : [Source -> Nat], cursor : 1 .. Len(order), credited : BOOLEAN,
                  served : Source \cup {Scheduler!NoSource}]
        /\ \A s \in Source :
              \/ t.deficit[s] < Price
              \/ t.credited /\ s = order[t.cursor] /\ t.deficit[s] < Price + Weight[s]
    BY DEF LoopStates
  <2>5. /\ deficit' \in [Source -> Nat] /\ cursor' \in 1 .. Len(order) /\ credited' \in BOOLEAN
        /\ \A s \in Source :
              \/ deficit'[s] < Price
              \/ credited' /\ s = order[cursor'] /\ deficit'[s] < Price + Weight[s]
    BY <2>1, <2>4
  <2>6. SchedulerTyped' BY <2>2, <2>3, <2>5 DEF SchedulerIInv, SchedulerTyped
  <2> QED BY <2>2, <2>5, <2>6 DEF SchedulerIInv
<1> QED BY <1>1, <1>2 DEF Scheduler!Next

\* What the invariant says of the scheduler.
LEMMA SchedulerSafe == SchedulerIInv => Scheduler!TypeOK /\ Scheduler!CreditBounded
<1> SUFFICES ASSUME SchedulerIInv PROVE Scheduler!TypeOK /\ Scheduler!CreditBounded
  OBVIOUS
<1>1. order \in Seq(Source) /\ Len(order) \in Nat BY DEF SchedulerIInv, SchedulerTyped
<1>2. cursor \in 1 .. Len(order) + 1
  <2>1. CASE order = <<>> BY <1>1, <2>1 DEF SchedulerIInv
  <2>2. CASE order # <<>> BY <1>1, <2>2 DEF SchedulerIInv
  <2> QED BY <2>1, <2>2
<1>3. Scheduler!TypeOK BY <1>2 DEF SchedulerIInv, SchedulerTyped, Scheduler!TypeOK
<1>4. ASSUME NEW s \in Source PROVE deficit[s] < Price + Weight[s]
  <2>1. Price \in Nat /\ Weight[s] \in Nat \ {0} /\ deficit[s] \in Nat
    BY AnalysisAssumption DEF SchedulerIInv, SchedulerTyped
  <2>2. deficit[s] < Price \/ deficit[s] < Price + Weight[s] BY DEF SchedulerIInv
  <2> QED BY <2>1, <2>2
<1> QED BY <1>3, <1>4 DEF Scheduler!CreditBounded

-----------------------------------------------------------------------------
(* The scan in slices.                                                     *)

LEMMA ScanCardinality == ASSUME NEW S PROVE Scan!Cardinality(S) = Cardinality(S)
BY Zenon DEF Scan!Cardinality, Cardinality
LEMMA ScanSum == ASSUME NEW f, NEW S PROVE Scan!Sum(f, S) = SumOn(f, S)
BY Zenon DEF Scan!Sum, SumOn, Scan!FoldFunctionOnSet, FoldFunctionOnSet,
             Scan!MapThenFoldSet, MapThenFoldSet

ScannedLine ==
    [size : Nat \ {0}, seen : Nat, detects : Format \cup {"none"},
     as : [Format -> Key \cup {"none"}]]
Sizes(f) == [j \in DOMAIN f |-> f[j].size]
Seen(f) == [j \in DOMAIN f |-> f[j].seen]

\* Where the lines of a file start, and where the last one ends.
Starts(f) == {Scan!Offset(f, i) : i \in 1 .. Len(f) + 1}

LEMMA FilesAre ==
    ASSUME NEW f \in Files
    PROVE  /\ f \in Seq(ScannedLine) /\ Len(f) \in Nat /\ DOMAIN f = 1 .. Len(f)
           /\ \A i \in DOMAIN f : Sizes(f)[i] \in Nat \ {0} /\ Seen(f)[i] \in Nat
           /\ IsFiniteSet(DOMAIN f)
<1>1. f \in Seq(ScannedLine) BY AnalysisAssumption DEF ScannedLine
<1>2. Len(f) \in Nat /\ DOMAIN f = 1 .. Len(f) BY <1>1
<1>3. ASSUME NEW i \in DOMAIN f PROVE Sizes(f)[i] \in Nat \ {0} /\ Seen(f)[i] \in Nat
  <2>1. f[i] \in ScannedLine BY <1>1, <1>2, <1>3
  <2> QED BY <2>1 DEF ScannedLine, Sizes, Seen
<1> QED BY <1>1, <1>2, <1>3, FS_Interval

LEMMA OffsetIs ==
    ASSUME NEW f \in Files, NEW i \in 1 .. Len(f) + 1
    PROVE  Scan!Offset(f, i) = SumOn(Sizes(f), 1 .. i - 1) /\ Scan!Offset(f, i) \in Nat
<1>1. Scan!Offset(f, i) = SumOn(Sizes(f), 1 .. i - 1) BY ScanSum DEF Scan!Offset, Sizes
<1>2. IsFiniteSet(1 .. i - 1) /\ \A x \in 1 .. i - 1 : Sizes(f)[x] \in Nat
  <2>1. Len(f) \in Nat /\ i - 1 \in Int /\ 1 \in Int BY FilesAre
  <2>2. \A x \in 1 .. i - 1 : x \in DOMAIN f BY <2>1, FilesAre
  <2>3. IsFiniteSet(1 .. i - 1) BY <2>1, FS_Interval
  <2> QED BY <2>2, <2>3, FilesAre
<1> QED BY <1>1, <1>2, SumIsNat

\* The bytes of a part of the file lie between two starts.
LEMMA OffsetsAdd ==
    ASSUME NEW f \in Files, NEW i \in 1 .. Len(f) + 1, NEW j \in i .. Len(f) + 1
    PROVE  /\ Scan!Offset(f, j) = Scan!Offset(f, i) + SumOn(Sizes(f), i .. j - 1)
           /\ i < j => SumOn(Sizes(f), i .. j - 1) > 0
           /\ SumOn(Sizes(f), i .. j - 1) \in Nat
<1>1. Len(f) \in Nat /\ j \in 1 .. Len(f) + 1 /\ \A x \in 1 .. Len(f) : Sizes(f)[x] \in Nat \ {0}
  BY FilesAre
<1>2. IsFiniteSet(1 .. i - 1) /\ IsFiniteSet(i .. j - 1)
  <2>1. i \in Int /\ i - 1 \in Int /\ j - 1 \in Int /\ 1 \in Int BY <1>1
  <2> QED BY <2>1, FS_Interval
<1>3. 1 .. j - 1 = (1 .. i - 1) \cup (i .. j - 1) /\ (1 .. i - 1) \cap (i .. j - 1) = {}
  BY <1>1
<1>4. \A x \in (1 .. i - 1) \cup (i .. j - 1) : Sizes(f)[x] \in Int /\ Sizes(f)[x] \in Nat
  BY <1>1
<1>5. SumOn(Sizes(f), (1 .. i - 1) \cup (i .. j - 1))
        = SumOn(Sizes(f), 1 .. i - 1) + SumOn(Sizes(f), i .. j - 1)
  BY <1>2, <1>3, <1>4, SumOfUnion
<1>6. SumOn(Sizes(f), 1 .. j - 1) = SumOn(Sizes(f), 1 .. i - 1) + SumOn(Sizes(f), i .. j - 1)
  BY <1>3, <1>5, Zenon
<1>7. SumOn(Sizes(f), i .. j - 1) \in Nat BY <1>2, <1>4, SumIsNat
<1>8. ASSUME i < j PROVE SumOn(Sizes(f), i .. j - 1) > 0
  <2>1. i \in i .. j - 1 /\ \A x \in i .. j - 1 : Sizes(f)[x] \in Int BY <1>1, <1>4, <1>8
  <2>2. SumOn(Sizes(f), i .. j - 1) = Sizes(f)[i] + SumOn(Sizes(f), (i .. j - 1) \ {i})
    BY <1>2, <2>1, SumLess
  <2>3. SumOn(Sizes(f), (i .. j - 1) \ {i}) \in Nat
    <3>1. IsFiniteSet((i .. j - 1) \ {i}) BY <1>2, FS_RemoveElement
    <3>2. \A x \in (i .. j - 1) \ {i} : Sizes(f)[x] \in Nat BY <1>4
    <3> QED BY <3>1, <3>2, SumIsNat
  <2>4. Sizes(f)[i] \in Nat \ {0} BY <1>1, <1>8
  <2> QED BY <2>2, <2>3, <2>4
<1> QED BY <1>1, <1>6, <1>7, <1>8, OffsetIs

LEMMA OffsetsGrow ==
    ASSUME NEW f \in Files, NEW i \in 1 .. Len(f) + 1, NEW j \in 1 .. Len(f) + 1
    PROVE  /\ i < j <=> Scan!Offset(f, i) < Scan!Offset(f, j)
           /\ i = j <=> Scan!Offset(f, i) = Scan!Offset(f, j)
<1>1. Len(f) \in Nat BY FilesAre
<1>2. Scan!Offset(f, i) \in Nat /\ Scan!Offset(f, j) \in Nat BY OffsetIs
<1>3. ASSUME i < j PROVE Scan!Offset(f, i) < Scan!Offset(f, j)
  <2>1. j \in i .. Len(f) + 1 BY <1>1, <1>3
  <2> QED BY <1>2, <1>3, <2>1, OffsetsAdd
<1>4. ASSUME j < i PROVE Scan!Offset(f, j) < Scan!Offset(f, i)
  <2>1. i \in j .. Len(f) + 1 BY <1>1, <1>4
  <2> QED BY <1>2, <1>4, <2>1, OffsetsAdd
<1> QED BY <1>1, <1>2, <1>3, <1>4

LEMMA SizeIs ==
    ASSUME NEW f \in Files
    PROVE  /\ Scan!Size(f) \in Nat /\ Scan!Offset(f, 1) = 0
           /\ f = <<>> <=> Scan!Size(f) = 0
           /\ 0 \in Starts(f) /\ Scan!Size(f) \in Starts(f)
           /\ \A b \in Starts(f) : b \in Nat /\ b <= Scan!Size(f)
           /\ IsFiniteSet(Starts(f))
<1>1. Len(f) \in Nat /\ 1 \in 1 .. Len(f) + 1 /\ Len(f) + 1 \in 1 .. Len(f) + 1 BY FilesAre
<1>2. Scan!Size(f) = Scan!Offset(f, Len(f) + 1) BY DEF Scan!Size
<1>3. Scan!Offset(f, 1) = 0
  <2>1. 1 .. 1 - 1 = {} OBVIOUS
  <2>2. SumOn(Sizes(f), 1 .. 1 - 1) = 0 BY <2>1, SumOfNone
  <2> QED BY <1>1, <2>2, OffsetIs
<1>4. f = <<>> <=> Len(f) = 0 BY FilesAre
<1>5. Scan!Size(f) \in Nat /\ (Scan!Size(f) = 0 <=> Len(f) = 0)
  <2>1. 1 = Len(f) + 1 <=> Scan!Offset(f, 1) = Scan!Offset(f, Len(f) + 1)
    BY <1>1, OffsetsGrow
  <2> QED BY <1>1, <1>2, <1>3, <2>1, OffsetIs
<1>6. ASSUME NEW b \in Starts(f) PROVE b \in Nat /\ b <= Scan!Size(f)
  <2>1. PICK i \in 1 .. Len(f) + 1 : b = Scan!Offset(f, i) BY DEF Starts
  <2>2. b \in Nat BY <2>1, OffsetIs
  <2>3. CASE i = Len(f) + 1 BY <1>2, <1>5, <2>1, <2>3
  <2>4. CASE i < Len(f) + 1
    <3>1. Scan!Offset(f, i) < Scan!Offset(f, Len(f) + 1) BY <1>1, <2>4, OffsetsGrow
    <3> QED BY <1>2, <1>5, <2>1, <2>2, <3>1
  <2> QED BY <1>1, <2>2, <2>3, <2>4
<1>7. 0 \in Starts(f) /\ Scan!Size(f) \in Starts(f) BY <1>1, <1>2, <1>3 DEF Starts
<1>8. IsFiniteSet(Starts(f))
  <2>1. Starts(f) \in SUBSET Nat /\ \A s \in Starts(f) : s <= Scan!Size(f) BY <1>6
  <2> QED BY <1>5, <2>1, FS_BoundedSetOfNaturals
<1> QED BY <1>3, <1>4, <1>5, <1>6, <1>7, <1>8

\* A chunk may begin where some line does.
LEMMA NextStartIs ==
    ASSUME NEW f \in Files, NEW b \in Nat, b < Scan!Size(f)
    PROVE  Scan!NextStart(f, b) \in Starts(f)
<1> DEFINE After == Starts(f) \cap (b + 1 .. Scan!Size(f))
<1>1. Scan!Size(f) \in After /\ After \subseteq Nat BY SizeIs
<1>2. \E m \in After : \A c \in After : m <= c
  <2>1. After # {} BY <1>1
  <2> HIDE DEF After
  <2>2. PICK m \in After : \A c \in After : m <= c BY <1>1, <2>1, LeastNumber
  <2> QED BY <2>2
<1>3. Scan!NextStart(f, b) = CHOOSE m \in After : \A c \in After : m <= c
  BY Zenon DEF Scan!NextStart, Scan!Min, Starts
<1>4. Scan!NextStart(f, b) \in After
  <2> HIDE DEF After
  <2> QED BY <1>2, <1>3, Zenon
<1> QED BY <1>4

\* Ranges between neighbours among some bounds.
Neighbours(B) ==
    {r \in B \X B : r[1] < r[2] /\ \A c \in B : c <= r[1] \/ c >= r[2]}

LEMMA Multiples ==
    ASSUME NEW s \in Nat, NEW k \in Nat, k > 1, s > 0, NEW i \in 1 .. k - 1
    PROVE  i * (s \div k) \in Nat /\ i * (s \div k) < s
<1> DEFINE d == s \div k
<1>1. d \in Nat /\ k * d <= s OBVIOUS
<1> HIDE DEF d
<1>2. CASE d = 0 BY <1>1, <1>2
<1>3. CASE d > 0
  <2>1. i * d < k * d /\ i * d \in Nat BY <1>1, <1>3
  <2> QED BY <1>1, <2>1 DEF d
<1> QED BY <1>1, <1>2, <1>3 DEF d

LEMMA SplitIs ==
    ASSUME NEW f \in Files, f # <<>>, NEW k \in Slices
    PROVE  \E B \in SUBSET Starts(f) : 0 \in B /\ Scan!Size(f) \in B
                                       /\ Scan!SplitChunks(f, k) = Neighbours(B)
<1> DEFINE s == Scan!Size(f)
<1>1. s \in Nat /\ s > 0 /\ 0 \in Starts(f) /\ s \in Starts(f) BY SizeIs
<1>2. k \in Nat BY AnalysisAssumption
<1>3. CASE k <= 1
  <2>1. Scan!SplitChunks(f, k) = {<<0, s>>} BY <1>3 DEF Scan!SplitChunks
  <2> HIDE DEF s
  <2>2. Neighbours({0, s}) = {<<0, s>>} BY <1>1 DEF Neighbours
  <2>3. {0, s} \in SUBSET Starts(f) BY <1>1
  <2> QED BY <2>1, <2>2, <2>3 DEF s
<1>4. CASE k > 1
  <2> DEFINE B == {0, s} \cup {Scan!NextStart(f, i * (s \div k)) : i \in 1 .. k - 1}
  <2>1. \A i \in 1 .. k - 1 : Scan!NextStart(f, i * (s \div k)) \in Starts(f)
    <3> HIDE DEF s
    <3>1. \A i \in 1 .. k - 1 : i * (s \div k) \in Nat /\ i * (s \div k) < s
      BY <1>1, <1>2, <1>4, Multiples
    <3> QED BY <3>1, NextStartIs DEF s
  <2>2. B \in SUBSET Starts(f) BY <1>1, <2>1
  <2>3. ~(k <= 1) /\ s # 0 BY <1>1, <1>2, <1>4
  <2>4. Scan!SplitChunks(f, k) = Neighbours(B)
    BY <2>3, Zenon DEF Scan!SplitChunks, Neighbours
  <2>5. 0 \in B /\ Scan!Size(f) \in B OBVIOUS
  <2> HIDE DEF B
  <2> QED BY <2>2, <2>4, <2>5
<1> QED BY <1>2, <1>3, <1>4

\* Different ranges have nothing in common.
LEMMA NeighboursApart ==
    ASSUME NEW B, B \subseteq Nat, NEW r \in Neighbours(B), NEW q \in Neighbours(B),
           NEW x \in Nat, r[1] <= x, x < r[2], q[1] <= x, x < q[2]
    PROVE  r = q
<1>1. /\ r[1] \in B /\ r[2] \in B /\ q[1] \in B /\ q[2] \in B /\ r = <<r[1], r[2]>>
      /\ q = <<q[1], q[2]>>
      /\ \A c \in B : c <= r[1] \/ c >= r[2]
      /\ \A c \in B : c <= q[1] \/ c >= q[2]
  BY DEF Neighbours
<1>2. r[1] \in Nat /\ r[2] \in Nat /\ q[1] \in Nat /\ q[2] \in Nat BY <1>1
<1>3. q[1] <= r[1] \/ q[1] >= r[2] BY <1>1
<1>4. r[1] <= q[1] \/ r[1] >= q[2] BY <1>1
<1>5. q[2] <= r[1] \/ q[2] >= r[2] BY <1>1
<1>6. r[2] <= q[1] \/ r[2] >= q[2] BY <1>1
<1>7. r[1] = q[1] /\ r[2] = q[2] BY <1>2, <1>3, <1>4, <1>5, <1>6
<1> QED BY <1>1, <1>7

\* And together they leave nothing out.
LEMMA NeighboursReach ==
    ASSUME NEW B, B \subseteq Nat, IsFiniteSet(B), NEW lo \in B, NEW hi \in B,
           NEW x \in Nat, lo <= x, x < hi
    PROVE  \E r \in Neighbours(B) : r[1] <= x /\ x < r[2]
<1> DEFINE Above == {b \in B : b > x}
           Gaps == {x - b : b \in B \ Above}
<1>1. PICK u \in Above : \A c \in Above : u <= c
  <2>1. Above # {} /\ Above \subseteq Nat BY DEF Above
  <2> HIDE DEF Above
  <2>2. \E m \in Above : \A c \in Above : m <= c BY <2>1, LeastNumber
  <2> QED BY <2>2
<1>2. PICK g \in Gaps : \A c \in Gaps : g <= c
  <2>1. Gaps # {} /\ Gaps \subseteq Nat
    <3>1. lo \in B \ Above BY DEF Above
    <3>2. Gaps # {} BY <3>1
    <3>3. \A b \in B \ Above : x - b \in Nat BY DEF Above
    <3> HIDE DEF Above
    <3> QED BY <3>2, <3>3
  <2> HIDE DEF Gaps
  <2>2. \E m \in Gaps : \A c \in Gaps : m <= c BY <2>1, LeastNumber
  <2> QED BY <2>2
<1>3. PICK l \in B \ Above : g = x - l OBVIOUS
<1>4. l \in Nat /\ u \in Nat /\ l <= x /\ x < u /\ l \in B /\ u \in B BY <1>1, <1>3
<1>5. ASSUME NEW c \in B PROVE c <= l \/ c >= u
  <2>1. CASE c \in Above BY <1>1, <2>1
  <2>2. CASE c \notin Above
    <3>1. x - c \in Gaps BY <2>2
    <3>2. x - l <= x - c BY <1>2, <1>3, <3>1
    <3>3. c \in Nat OBVIOUS
    <3> QED BY <1>4, <3>2, <3>3
  <2> QED BY <2>1, <2>2
<1>6. <<l, u>> \in Neighbours(B) BY <1>4, <1>5 DEF Neighbours
<1> QED BY <1>4, <1>6

\* The lines that start in a range.
Within(f, r) == {i \in DOMAIN f : r[1] <= Scan!Offset(f, i) /\ Scan!Offset(f, i) < r[2]}

\* A worker reads lines of the file; if its bytes are what they seem, it reads
\* those that start in its range.
LEMMA ReadsAre ==
    ASSUME NEW f \in Files, NEW B \in SUBSET Starts(f), NEW r \in Neighbours(B)
    PROVE  /\ Scan!Reads(f, r) \subseteq DOMAIN f
           /\ Scan!Plain(f) => Scan!Reads(f, r) = Within(f, r)
<1>1. /\ r[1] \in Starts(f) /\ r[2] \in Starts(f) /\ r[1] < r[2]
  BY DEF Neighbours
<1>2. PICK a \in 1 .. Len(f) + 1 : r[1] = Scan!Offset(f, a) BY <1>1 DEF Starts
<1>3. PICK z \in 1 .. Len(f) + 1 : r[2] = Scan!Offset(f, z) BY <1>1 DEF Starts
<1>4. a < z /\ a \in 1 .. Len(f) /\ Len(f) \in Nat /\ DOMAIN f = 1 .. Len(f)
  <2>1. a < z BY <1>1, <1>2, <1>3, OffsetsGrow
  <2> QED BY <2>1, FilesAre
<1>5. f # <<>>
  <2>1. Len(f) # 0 BY <1>4
  <2> QED BY <2>1
<1> DEFINE first == CHOOSE i \in 1 .. Len(f) : Scan!Offset(f, i) = r[1]
           pos(i) == r[1] + Scan!Sum([j \in DOMAIN f |-> f[j].seen], first .. i)
<1>6. first = a
  <2>1. \A i \in 1 .. Len(f) : Scan!Offset(f, i) = r[1] <=> i = a
    BY <1>2, <1>4, OffsetsGrow
  <2> QED BY <1>4, <2>1
<1>7. Scan!Reads(f, r) = {i \in first .. Len(f) : \A j \in first .. i - 1 : pos(j) < r[2]}
  BY <1>5 DEF Scan!Reads
<1> HIDE DEF first
<1>8. Scan!Reads(f, r) \subseteq DOMAIN f BY <1>4, <1>6, <1>7
<1>9. ASSUME Scan!Plain(f), NEW j \in a .. Len(f) PROVE pos(j) = Scan!Offset(f, j + 1)
  <2>1. pos(j) = Scan!Offset(f, a) + SumOn(Seen(f), a .. j) BY <1>2, <1>6, ScanSum DEF Seen
  <2>2. SumOn(Seen(f), a .. j) = SumOn(Sizes(f), a .. j)
    <3>1. IsFiniteSet(a .. j)
      <4>1. a \in Int /\ j \in Int BY <1>4
      <4> QED BY <4>1, FS_Interval
    <3>2. \A i \in a .. j : i \in DOMAIN f BY <1>4
    <3>3. \A i \in a .. j : Seen(f)[i] \in Int /\ Seen(f)[i] = Sizes(f)[i]
      BY <1>9, <3>2, FilesAre DEF Scan!Plain, Seen, Sizes
    <3> QED BY <3>1, <3>3, SumOfSame
  <2>3. j + 1 \in a .. Len(f) + 1 /\ j + 1 - 1 = j BY <1>4
  <2>4. Scan!Offset(f, j + 1) = Scan!Offset(f, a) + SumOn(Sizes(f), a .. j + 1 - 1)
    BY <2>3, OffsetsAdd
  <2> QED BY <2>1, <2>2, <2>3, <2>4
<1> HIDE DEF pos
<1>10. ASSUME Scan!Plain(f) PROVE Scan!Reads(f, r) = Within(f, r)
  <2>1. ASSUME NEW i \in a .. Len(f)
        PROVE  (\A j \in a .. i - 1 : pos(j) < r[2]) <=> i < z
    <3>1. ASSUME i < z, NEW j \in a .. i - 1 PROVE pos(j) < r[2]
      <4>1. j \in a .. Len(f) /\ j + 1 \in 1 .. Len(f) + 1 /\ j + 1 < z BY <1>4, <3>1
      <4> QED BY <1>3, <1>9, <1>10, <4>1, OffsetsGrow
    <3>2. ASSUME ~(i < z) PROVE \E j \in a .. i - 1 : ~(pos(j) < r[2])
      <4>1. i - 1 \in a .. i - 1 /\ i - 1 \in a .. Len(f) /\ i - 1 + 1 = i
            /\ i \in 1 .. Len(f) + 1
        BY <1>4, <3>2
      <4>2. pos(i - 1) = Scan!Offset(f, i) BY <1>9, <1>10, <4>1
      <4>3. ~(Scan!Offset(f, i) < r[2]) BY <1>3, <3>2, <4>1, OffsetsGrow
      <4> QED BY <4>1, <4>2, <4>3
    <3> QED BY <3>1, <3>2
  <2>2. ASSUME NEW i \in DOMAIN f
        PROVE  i \in Within(f, r) <=> i \in a .. Len(f) /\ i < z
    <3>1. i \in 1 .. Len(f) + 1 BY <1>4
    <3>2. r[1] <= Scan!Offset(f, i) <=> a <= i
      <4>1. Scan!Offset(f, i) \in Nat /\ r[1] \in Nat BY <1>2, <3>1, OffsetIs
      <4>2. i < a <=> Scan!Offset(f, i) < r[1] BY <1>2, <3>1, OffsetsGrow
      <4> QED BY <1>4, <3>1, <4>1, <4>2
    <3>3. Scan!Offset(f, i) < r[2] <=> i < z BY <1>3, <3>1, OffsetsGrow
    <3> QED BY <1>4, <3>2, <3>3 DEF Within
  <2>3. Scan!Reads(f, r) = {i \in a .. Len(f) : i < z}
    BY <1>6, <1>7, <2>1
  <2>4. Within(f, r) = {i \in a .. Len(f) : i < z}
    <3>1. Within(f, r) \subseteq DOMAIN f BY DEF Within
    <3>2. \A i \in a .. Len(f) : i \in DOMAIN f BY <1>4
    <3> QED BY <2>2, <3>1, <3>2
  <2> QED BY <2>3, <2>4
<1> QED BY <1>8, <1>10

\* The chunks of a scan, in order, are those there are.
LEMMA Ranked ==
    ASSUME NEW R, IsFiniteSet(R), \A r \in R : r[1] \in Nat,
           \A r \in R, q \in R : r[1] = q[1] => r = q
    PROVE  LET c == Scan!InOrder(R)
           IN  /\ c \in Seq(R) /\ Len(c) = Cardinality(R) /\ Len(c) \in Nat
               /\ DOMAIN c = 1 .. Len(c)
               /\ \A r \in R : \E j \in 1 .. Len(c) : c[j] = r
               /\ \A i \in 1 .. Len(c), j \in 1 .. Len(c) : c[i] = c[j] => i = j
<1> DEFINE m == Cardinality(R)
           Before(r) == {s \in R : s[1] < r[1]}
           rank == [r \in R |-> Cardinality(Before(r))]
           c == Scan!InOrder(R)
<1>1. m \in Nat BY FS_CardinalityType
<1>2. \A r \in R : /\ Before(r) \in SUBSET R /\ r \notin Before(r)
                   /\ IsFiniteSet(Before(r)) /\ Cardinality(Before(r)) \in Nat
  BY FS_Subset, FS_CardinalityType
<1>3. ASSUME NEW r \in R PROVE rank[r] \in 0 .. m - 1
  <2>1. Before(r) # R BY <1>2
  <2>2. Cardinality(Before(r)) <= m /\ Cardinality(Before(r)) # m BY <1>2, <2>1, FS_Subset
  <2> QED BY <1>1, <1>2, <2>2
<1>4. ASSUME NEW r \in R, NEW q \in R, r[1] < q[1] PROVE rank[r] < rank[q]
  <2>1. Before(r) \in SUBSET Before(q) /\ r \in Before(q) /\ r \notin Before(r)
    BY <1>4
  <2>2. Before(r) # Before(q) BY <2>1
  <2>3. Cardinality(Before(r)) <= Cardinality(Before(q))
        /\ Cardinality(Before(r)) # Cardinality(Before(q))
    <3>1. IsFiniteSet(Before(q)) BY <1>2
    <3> HIDE DEF Before
    <3> QED BY <2>1, <2>2, <3>1, FS_Subset
  <2>4. Cardinality(Before(r)) \in Nat /\ Cardinality(Before(q)) \in Nat BY <1>2
  <2>5. rank[r] = Cardinality(Before(r)) /\ rank[q] = Cardinality(Before(q)) OBVIOUS
  <2> HIDE DEF Before, rank
  <2> QED BY <2>3, <2>4, <2>5
<1>5. ASSUME NEW r \in R, NEW q \in R, rank[r] = rank[q] PROVE r = q
  <2>1. r[1] \in Nat /\ q[1] \in Nat OBVIOUS
  <2>2. rank[r] \in Nat /\ rank[q] \in Nat BY <1>2
  <2> HIDE DEF rank
  <2>3. ~(r[1] < q[1]) /\ ~(q[1] < r[1]) BY <1>4, <1>5, <2>2
  <2> QED BY <2>1, <2>3
<1>6. \A k \in 0 .. m - 1 : \E r \in R : rank[r] = k
  <2>1. rank \in Injection(R, 0 .. m - 1)
    <3>1. DOMAIN rank = R /\ rank \in [R -> 0 .. m - 1]
      <4>1. rank = [r \in R |-> rank[r]] OBVIOUS
      <4> HIDE DEF rank
      <4> QED BY <1>3, <4>1
    <3> HIDE DEF rank
    <3> QED BY <1>5, <3>1 DEF Injection, IsInjective
  <2>2. IsFiniteSet(0 .. m - 1) /\ Cardinality(0 .. m - 1) = m
    <3>1. 0 \in Int /\ m - 1 \in Int BY <1>1
    <3>2. Cardinality(0 .. m - 1) = IF 0 > m - 1 THEN 0 ELSE m - 1 - 0 + 1 BY <3>1, FS_Interval
    <3> HIDE DEF m
    <3> QED BY <1>1, <3>1, <3>2, FS_Interval
  <2> HIDE DEF rank
  <2>3. rank \in Surjection(R, 0 .. m - 1) BY <2>1, <2>2, FS_Injection
  <2> QED BY <2>3 DEF Surjection
<1>7. c = [i \in 1 .. m |-> CHOOSE r \in R : Cardinality(Before(r)) = i - 1]
  BY Zenon DEF Scan!InOrder, Scan!Cardinality, Cardinality
<1>8. ASSUME NEW i \in 1 .. m PROVE c[i] \in R /\ rank[c[i]] = i - 1
  <2>1. i - 1 \in 0 .. m - 1 BY <1>1
  <2>2. PICK r \in R : rank[r] = i - 1
    <3> HIDE DEF rank, m
    <3> QED BY <1>6, <2>1
  <2>3. Cardinality(Before(r)) = i - 1 BY <2>2
  <2>4. c[i] = CHOOSE q \in R : Cardinality(Before(q)) = i - 1
    <3> HIDE DEF c, m, Before
    <3> QED BY <1>7
  <2> HIDE DEF Before
  <2>5. c[i] \in R /\ Cardinality(Before(c[i])) = i - 1
    <3> HIDE DEF c
    <3> QED BY <2>3, <2>4
  <2> HIDE DEF c
  <2> QED BY <2>5
<1>9. c \in Seq(R) /\ Len(c) = m /\ DOMAIN c = 1 .. m
  <2> HIDE DEF rank, m, c
  <2>1. c \in [1 .. m -> R] BY <1>7, <1>8
  <2> QED BY <1>1, <2>1
<1>10. ASSUME NEW r \in R PROVE \E j \in 1 .. m : c[j] = r
  <2>1. rank[r] + 1 \in 1 .. m /\ rank[r] + 1 - 1 = rank[r] /\ rank[r] \in Int
    <3> HIDE DEF rank, m
    <3> QED BY <1>1, <1>3
  <2> HIDE DEF rank, m, c
  <2>2. c[rank[r] + 1] \in R /\ rank[c[rank[r] + 1]] = rank[r]
    <3> DEFINE i == rank[r] + 1
    <3>1. i \in 1 .. m /\ i - 1 = rank[r] BY <2>1
    <3> HIDE DEF i
    <3>2. c[i] \in R /\ rank[c[i]] = rank[r] BY <1>8, <3>1
    <3> QED BY <3>2 DEF i
  <2> QED BY <1>5, <2>1, <2>2
<1> HIDE DEF rank, m, c
<1>11. \A i \in 1 .. m, j \in 1 .. m : c[i] = c[j] => i = j
  <2> SUFFICES ASSUME NEW i \in 1 .. m, NEW j \in 1 .. m, c[i] = c[j] PROVE i = j
    OBVIOUS
  <2>1. i - 1 = j - 1 BY <1>8
  <2> QED BY <2>1
<1> QED BY <1>1, <1>9, <1>10, <1>11 DEF m, c

\* What the slices of a scan read: lines of the file, and, if their bytes are
\* what they seem, no line twice and every line once all are read.
LEMMA ChunksAre ==
    ASSUME NEW f \in Files, NEW k \in Slices
    PROVE  LET c == Scan!InOrder(Scan!SplitChunks(f, k))
           IN  /\ c \in Seq(Nat \X Nat) /\ Len(c) \in Nat
               /\ \A j \in 1 .. Len(c) :
                     /\ Scan!Reads(f, c[j]) \subseteq DOMAIN f
                     /\ Scan!Plain(f) => Scan!Reads(f, c[j]) = Within(f, c[j])
               /\ \A i \in 1 .. Len(c), j \in 1 .. Len(c) :
                     i # j => Within(f, c[i]) \cap Within(f, c[j]) = {}
               /\ \A x \in DOMAIN f : \E j \in 1 .. Len(c) : x \in Within(f, c[j])
<1> DEFINE R == Scan!SplitChunks(f, k)
           c == Scan!InOrder(R)
<1>1. CASE f = <<>>
  <2>1. Scan!Size(f) = 0 BY <1>1, SizeIs
  <2>2. R = {<<0, 0>>} BY <2>1 DEF Scan!SplitChunks
  <2>3. IsFiniteSet(R)
    <3> HIDE DEF R
    <3> QED BY <2>2, FS_Singleton, Zenon
  <2>4. R \subseteq Nat \X Nat /\ (\A r \in R : r[1] \in Nat)
        /\ (\A r \in R, q \in R : r[1] = q[1] => r = q)
    <3> HIDE DEF R
    <3> QED BY <2>2
  <2> HIDE DEF R
  <2>5. c \in Seq(R) /\ Len(c) \in Nat
        /\ \A i \in 1 .. Len(c), j \in 1 .. Len(c) : c[i] = c[j] => i = j
    BY <2>3, <2>4, Ranked
  <2> HIDE DEF c
  <2>6. c \in Seq(Nat \X Nat) BY <2>4, <2>5
  <2>7. DOMAIN f = {} BY <1>1
  <2>8. \A r : Scan!Reads(f, r) = {} BY <1>1 DEF Scan!Reads
  <2>9. \A r : Within(f, r) = {} BY <2>7 DEF Within
  <2> QED BY <2>5, <2>6, <2>7, <2>8, <2>9 DEF c, R
<1>2. CASE f # <<>>
  <2>1. PICK B \in SUBSET Starts(f) : 0 \in B /\ Scan!Size(f) \in B /\ R = Neighbours(B)
    BY <1>2, SplitIs
  <2>2. B \subseteq Nat /\ IsFiniteSet(B) BY SizeIs, FS_Subset
  <2> HIDE DEF R
  <2>3. R \subseteq Nat \X Nat /\ IsFiniteSet(R)
    <3>1. R \subseteq B \X B BY <2>1 DEF Neighbours
    <3>2. IsFiniteSet(B \X B) BY <2>2, FS_Product
    <3> QED BY <2>2, <3>1, <3>2, FS_Subset
  <2>4. ASSUME NEW r \in R, NEW q \in R, r[1] = q[1] PROVE r = q
    <3>1. r[1] \in Nat /\ q[1] \in Nat BY <2>3
    <3>2. r[1] \in Nat /\ r[1] < r[2] /\ r[1] < q[2] /\ r[1] <= r[1] /\ q[1] <= r[1]
      BY <2>1, <2>4, <3>1 DEF Neighbours
    <3> QED BY <2>1, <2>2, <2>4, <3>2, NeighboursApart
  <2>5. \A r \in R : r[1] \in Nat BY <2>3
  <2>6. /\ c \in Seq(R) /\ Len(c) \in Nat
        /\ \A r \in R : \E j \in 1 .. Len(c) : c[j] = r
        /\ \A i \in 1 .. Len(c), j \in 1 .. Len(c) : c[i] = c[j] => i = j
    BY <2>3, <2>4, <2>5, Ranked
  <2> HIDE DEF c
  <2>7. c \in Seq(Nat \X Nat) BY <2>3, <2>6
  <2>8. \A j \in 1 .. Len(c) : c[j] \in Neighbours(B) BY <2>1, <2>6
  <2>9. \A j \in 1 .. Len(c) :
           /\ Scan!Reads(f, c[j]) \subseteq DOMAIN f
           /\ Scan!Plain(f) => Scan!Reads(f, c[j]) = Within(f, c[j])
    BY <2>8, ReadsAre
  <2>10. \A x \in DOMAIN f : Scan!Offset(f, x) \in Nat /\ 0 <= Scan!Offset(f, x)
                             /\ Scan!Offset(f, x) < Scan!Size(f)
    <3> SUFFICES ASSUME NEW x \in DOMAIN f
                 PROVE  Scan!Offset(f, x) \in Nat /\ 0 <= Scan!Offset(f, x)
                        /\ Scan!Offset(f, x) < Scan!Size(f)
      OBVIOUS
    <3>1. /\ x \in 1 .. Len(f) + 1 /\ Len(f) + 1 \in 1 .. Len(f) + 1 /\ x < Len(f) + 1
      BY FilesAre
    <3> QED BY <3>1, OffsetIs, OffsetsGrow DEF Scan!Size
  <2>11. ASSUME NEW i \in 1 .. Len(c), NEW j \in 1 .. Len(c), i # j
         PROVE  Within(f, c[i]) \cap Within(f, c[j]) = {}
    <3>1. SUFFICES ASSUME NEW x \in Within(f, c[i]), x \in Within(f, c[j]) PROVE FALSE
      OBVIOUS
    <3>2. /\ x \in DOMAIN f
          /\ c[i][1] <= Scan!Offset(f, x) /\ Scan!Offset(f, x) < c[i][2]
          /\ c[j][1] <= Scan!Offset(f, x) /\ Scan!Offset(f, x) < c[j][2]
      BY <3>1 DEF Within
    <3>3. c[i] = c[j] BY <2>2, <2>8, <2>10, <3>2, NeighboursApart
    <3> QED BY <2>6, <2>11, <3>3
  <2>12. ASSUME NEW x \in DOMAIN f PROVE \E j \in 1 .. Len(c) : x \in Within(f, c[j])
    <3>1. PICK r \in Neighbours(B) : r[1] <= Scan!Offset(f, x) /\ Scan!Offset(f, x) < r[2]
      BY <2>1, <2>2, <2>10, NeighboursReach
    <3>2. PICK j \in 1 .. Len(c) : c[j] = r BY <2>1, <2>6
    <3> QED BY <3>1, <3>2 DEF Within
  <2> QED BY <2>6, <2>7, <2>9, <2>11, <2>12 DEF c, R
<1> QED BY <1>1, <1>2

\* Two parts that have nothing in common.
LEMMA PartsAdd ==
    ASSUME NEW A, NEW B, IsFiniteSet(A), IsFiniteSet(B), A \cap B = {}
    PROVE  /\ Cardinality(A \cup B) = Cardinality(A) + Cardinality(B)
           /\ Cardinality(A) \in Nat /\ Cardinality(B) \in Nat
<1>1. Cardinality(A \cup B) = Cardinality(A) + Cardinality(B) - Cardinality(A \cap B)
  BY FS_Union
<1>2. Cardinality(A \cap B) = 0 BY FS_EmptySet, Zenon
<1>3. Cardinality(A) \in Nat /\ Cardinality(B) \in Nat BY FS_CardinalityType
<1> QED BY <1>1, <1>2, <1>3

\* Entries are lines, so that there is a number of them.
LEMMA EntriesAre ==
    ASSUME NEW f \in Files, NEW S, S \subseteq DOMAIN f, NEW fmt, NEW k \in Key
    PROVE  /\ Scan!Entries(f, S, fmt, k) \subseteq S
           /\ IsFiniteSet(Scan!Entries(f, S, fmt, k))
           /\ Cardinality(Scan!Entries(f, S, fmt, k)) \in Nat
           /\ Scan!Tally(f, S, fmt)[k] = Cardinality(Scan!Entries(f, S, fmt, k))
<1>1. Scan!Entries(f, S, fmt, k) \subseteq S BY DEF Scan!Entries
<1>2. IsFiniteSet(S) BY FilesAre, FS_Subset
<1>3. IsFiniteSet(Scan!Entries(f, S, fmt, k)) BY <1>1, <1>2, FS_Subset
<1>4. Scan!Tally(f, S, fmt)[k] = Cardinality(Scan!Entries(f, S, fmt, k))
  BY Zenon, ScanCardinality DEF Scan!Tally
<1> QED BY <1>1, <1>3, <1>4, FS_CardinalityType

\* A slice that has a line is read in some format, and a parallel one in the format
\* that the scan was given.
LEMMA UsedIs ==
    ASSUME NEW S, NEW i \in S, file \in Files, S \subseteq DOMAIN file,
           file[i].detects # "none", way = "parallel" => given \in Format
    PROVE  /\ Scan!Used(file, S) \in IF way = "parallel" THEN {given} ELSE Format
           /\ Scan!Used(file, S) # "none"
<1>1. CASE way = "parallel"
  <2>1. Scan!Used(file, S) = given BY <1>1 DEF Scan!Used
  <2> QED BY <1>1, <2>1, AnalysisAssumption
<1>2. CASE way # "parallel"
  <2> DEFINE Told == {j \in S : file[j].detects # "none"}
             least == CHOOSE x \in Told : \A y \in Told : x <= y
  <2>1. \A j \in DOMAIN file : file[j].detects \in Format \cup {"none"}
    <3>1. file \in Seq(ScannedLine) /\ DOMAIN file = 1 .. Len(file) BY FilesAre
    <3>2. \A j \in DOMAIN file : file[j] \in ScannedLine BY <3>1
    <3> QED BY <3>2 DEF ScannedLine
  <2>2. Told \subseteq Nat /\ Told # {}
    <3>1. DOMAIN file \subseteq Nat BY FilesAre
    <3> QED BY <3>1
  <2>3. \E x \in Told : \A y \in Told : x <= y
    <3> HIDE DEF Told
    <3> QED BY <2>2, LeastNumber
  <2>4. least \in Told
    <3> HIDE DEF Told
    <3> QED BY <2>3
  <2>5. Scan!Used(file, S) = file[least].detects
    BY <1>2, <2>2, Zenon DEF Scan!Used, Scan!Min
  <2>6. least \in DOMAIN file /\ file[least].detects # "none"
    <3> HIDE DEF least
    <3> QED BY <2>4
  <2> HIDE DEF least
  <2> QED BY <1>2, <2>1, <2>5, <2>6
<1> QED BY <1>1, <1>2

\* The lines of the slices before the m-th, as far as they start where they seem
\* to, and the entries with a key that these slices count.
ReadBefore(m) == UNION {Within(file, chunks[j]) : j \in 1 .. m - 1}
Counted(j, k) ==
    Scan!Entries(file, Within(file, chunks[j]), Scan!Used(file, Scan!Reads(file, chunks[j])), k)
Merged(m, k) == UNION {Counted(j, k) : j \in 1 .. m - 1}

SliceTyped ==
    /\ file \in Files /\ n \in Slices /\ way \in {"turbo", "parallel"}
    /\ given \in IF way = "parallel" THEN Format ELSE {"none"}
    /\ chunks \in Seq(Nat \X Nat) /\ next \in 1 .. Len(chunks) + 1
    /\ counts \in [Key -> Nat] /\ flagged \in [Key -> Nat]
    /\ judged \subseteq DOMAIN file /\ faults \in 0 .. next - 1
    /\ pc \in {"split", "pool", "serial", "done"}

\* What is merged is at most what the slices read so far hold, and is that unless a
\* slice has faulted; families are the lines that the slices have flagged.
SliceIInv ==
    /\ SliceTyped
    /\ pc = "split" => chunks = <<>>
    /\ pc # "split" => chunks = Scan!InOrder(Scan!SplitChunks(file, n))
    /\ pc = "done" => next = Len(chunks) + 1
    /\ faults # 0 => way = "parallel"
    /\ way = "turbo" => judged = {}
    /\ \A k \in Key : /\ flagged[k] <= counts[k]
                      /\ way = "turbo" => flagged[k] = 0
    /\ Scan!Plain(file) =>
          /\ judged \subseteq ReadBefore(next)
          /\ \A k \in Key :
                /\ counts[k] <= Cardinality(Merged(next, k))
                /\ faults = 0 => counts[k] = Cardinality(Merged(next, k))
                /\ flagged[k] = Cardinality(Scan!Entries(file, judged, given, k))

LEMMA ReadBeforeIs ==
    ASSUME chunks \in Seq(Nat \X Nat), file \in Files, NEW m \in 1 .. Len(chunks) + 1,
           NEW k \in Key
    PROVE  /\ ReadBefore(m) \subseteq DOMAIN file
           /\ ReadBefore(1) = {} /\ Merged(1, k) = {}
           /\ Merged(m, k) \subseteq ReadBefore(m) /\ IsFiniteSet(Merged(m, k))
           /\ m <= Len(chunks) =>
                 /\ ReadBefore(m + 1) = ReadBefore(m) \cup Within(file, chunks[m])
                 /\ Merged(m + 1, k) = Merged(m, k) \cup Counted(m, k)
<1>1. Len(chunks) \in Nat OBVIOUS
<1>2. ReadBefore(m) \subseteq DOMAIN file BY DEF ReadBefore, Within
<1>3. ReadBefore(1) = {} /\ Merged(1, k) = {}
  <2>1. 1 .. 1 - 1 = {} OBVIOUS
  <2> QED BY <2>1 DEF ReadBefore, Merged
<1>4. Merged(m, k) \subseteq ReadBefore(m)
  <2>1. \A j : Counted(j, k) \subseteq Within(file, chunks[j]) BY DEF Counted, Scan!Entries
  <2> QED BY <2>1 DEF Merged, ReadBefore
<1>5. IsFiniteSet(Merged(m, k)) BY <1>2, <1>4, FilesAre, FS_Subset
<1>6. m <= Len(chunks) =>
         /\ ReadBefore(m + 1) = ReadBefore(m) \cup Within(file, chunks[m])
         /\ Merged(m + 1, k) = Merged(m, k) \cup Counted(m, k)
  <2>1. 1 .. m + 1 - 1 = (1 .. m - 1) \cup {m} BY <1>1
  <2> QED BY <2>1 DEF ReadBefore, Merged
<1> QED BY <1>2, <1>3, <1>4, <1>5, <1>6

\* As long as nothing is merged there is nothing to add up.
LEMMA NothingMerged ==
    ASSUME file \in Files, chunks \in Seq(Nat \X Nat), NEW k \in Key
    PROVE  /\ Cardinality(Merged(1, k)) = 0 /\ Scan!None[k] = 0
           /\ Cardinality(Scan!Entries(file, {}, given, k)) = 0
<1>1. 1 \in 1 .. Len(chunks) + 1
  <2>1. Len(chunks) \in Nat OBVIOUS
  <2> QED BY <2>1
<1>2. Merged(1, k) = {} BY <1>1, ReadBeforeIs
<1>3. Scan!Entries(file, {}, given, k) = {} BY DEF Scan!Entries
<1>4. Cardinality(Merged(1, k)) = 0 BY <1>2, FS_EmptySet, Zenon
<1>5. Cardinality(Scan!Entries(file, {}, given, k)) = 0 BY <1>3, FS_EmptySet, Zenon
<1> QED BY <1>4, <1>5 DEF Scan!None

LEMMA SliceStarts == Scan!Init => SliceIInv
<1> SUFFICES ASSUME Scan!Init PROVE SliceIInv
  OBVIOUS
<1>1. /\ file \in Files /\ n \in Slices /\ way \in {"turbo", "parallel"}
      /\ given \in IF way = "parallel" THEN Format ELSE {"none"}
      /\ chunks = <<>> /\ next = 1 /\ counts = Scan!None /\ flagged = Scan!None
      /\ judged = {} /\ faults = 0 /\ pc = "split"
  BY DEF Scan!Init
<1>2. Scan!None \in [Key -> Nat] BY DEF Scan!None
<1>3. chunks \in Seq(Nat \X Nat) /\ Len(chunks) = 0 BY <1>1
<1>4. SliceTyped BY <1>1, <1>2, <1>3 DEF SliceTyped
<1>5. \A k \in Key : /\ Cardinality(Merged(1, k)) = 0 /\ Scan!None[k] = 0
                     /\ Cardinality(Scan!Entries(file, {}, given, k)) = 0
  BY <1>1, <1>3, NothingMerged
<1> QED BY <1>1, <1>4, <1>5 DEF SliceIInv

LEMMA SplitKeeps == ASSUME SliceIInv, Scan!Split PROVE SliceIInv'
<1>1. /\ pc = "split" /\ chunks' = Scan!InOrder(Scan!SplitChunks(file, n))
      /\ pc' \in {"serial", "pool"} /\ file' = file /\ n' = n /\ way' = way
      /\ given' = given /\ next' = next /\ counts' = counts /\ flagged' = flagged
      /\ judged' = judged /\ faults' = faults
  BY DEF Scan!Split
<1>2. chunks = <<>> /\ Len(chunks) = 0 BY <1>1 DEF SliceIInv
<1>3. /\ file \in Files /\ n \in Slices /\ next = 1 /\ faults = 0
  BY <1>2 DEF SliceIInv, SliceTyped
<1>4. chunks' \in Seq(Nat \X Nat) /\ Len(chunks') \in Nat BY <1>1, <1>3, ChunksAre
<1>5. 1 \in 1 .. Len(chunks') + 1 BY <1>4
<1>6. SliceTyped' BY <1>1, <1>3, <1>4, <1>5 DEF SliceIInv, SliceTyped
<1>7. /\ ReadBefore(next)' = ReadBefore(next)
      /\ \A k \in Key : Merged(next, k)' = Merged(next, k)
  <2>1. 1 .. 1 - 1 = {} OBVIOUS
  <2> QED BY <1>1, <1>3, <2>1 DEF ReadBefore, Merged
<1>8. Scan!Plain(file') = Scan!Plain(file) BY <1>1
<1>9. \A k \in Key : Scan!Entries(file, judged, given, k)' = Scan!Entries(file, judged, given, k)
  BY <1>1
<1> QED BY <1>1, <1>6, <1>7, <1>8, <1>9 DEF SliceIInv

\* What the slices of the scan in progress read.
LEMMA SlicesAre ==
    ASSUME SliceIInv, pc # "split", NEW j \in 1 .. Len(chunks)
    PROVE  /\ Scan!Reads(file, chunks[j]) \subseteq DOMAIN file
           /\ Scan!Plain(file) => Scan!Reads(file, chunks[j]) = Within(file, chunks[j])
           /\ \A i \in 1 .. Len(chunks) :
                 i # j => Within(file, chunks[i]) \cap Within(file, chunks[j]) = {}
<1>1. file \in Files /\ n \in Slices BY DEF SliceIInv, SliceTyped
<1>2. chunks = Scan!InOrder(Scan!SplitChunks(file, n)) BY DEF SliceIInv
<1> DEFINE c == Scan!InOrder(Scan!SplitChunks(file, n))
<1>3. /\ \A i \in 1 .. Len(c) :
            /\ Scan!Reads(file, c[i]) \subseteq DOMAIN file
            /\ Scan!Plain(file) => Scan!Reads(file, c[i]) = Within(file, c[i])
      /\ \A i \in 1 .. Len(c), k \in 1 .. Len(c) :
            i # k => Within(file, c[i]) \cap Within(file, c[k]) = {}
  BY <1>1, ChunksAre
<1>4. chunks = c BY <1>2
<1> HIDE DEF c
<1> QED BY <1>3, <1>4

\* A slice is merged, or lost.
LEMMA MergeKeeps == ASSUME SliceIInv, Scan!MergeSlice PROVE SliceIInv'
<1> DEFINE here == Scan!Reads(file, chunks[next])
           fmt == Scan!Used(file, here)
<1>1. /\ pc \in {"pool", "serial"} /\ next <= Len(chunks)
      /\ counts' = Scan!Plus(counts, Scan!Tally(file, here, fmt))
      /\ next' = next + 1
      /\ file' = file /\ n' = n /\ way' = way /\ given' = given /\ chunks' = chunks
      /\ faults' = faults /\ pc' = pc
  BY DEF Scan!MergeSlice, Scan!Merge
<1>2. PICK J \in SUBSET UNION {Scan!Entries(file, here, fmt, k) : k \in Key} :
         /\ way = "turbo" => J = {}
         /\ flagged' = Scan!Plus(flagged, Scan!Tally(file, J, fmt))
         /\ judged' = judged \cup J
  BY DEF Scan!MergeSlice, Scan!Merge
<1>3. /\ file \in Files /\ n \in Slices /\ chunks \in Seq(Nat \X Nat) /\ Len(chunks) \in Nat
      /\ next \in 1 .. Len(chunks) /\ next \in 1 .. Len(chunks) + 1
      /\ chunks = Scan!InOrder(Scan!SplitChunks(file, n))
      /\ counts \in [Key -> Nat] /\ flagged \in [Key -> Nat] /\ faults \in 0 .. next - 1
      /\ judged \subseteq DOMAIN file
  BY <1>1 DEF SliceIInv, SliceTyped
<1>4. /\ here \subseteq DOMAIN file
      /\ Scan!Plain(file) => here = Within(file, chunks[next])
      /\ \A j \in 1 .. Len(chunks) :
            j # next => Within(file, chunks[j]) \cap Within(file, chunks[next]) = {}
  BY <1>1, <1>3, SlicesAre
<1>5. way = "parallel" => fmt = given BY DEF Scan!Used
<1> HIDE DEF here, fmt
<1>6. J \subseteq here BY DEF Scan!Entries
<1>7. J \subseteq DOMAIN file BY <1>4, <1>6
<1>8. ASSUME NEW k \in Key
      PROVE  /\ counts[k] \in Nat /\ flagged[k] \in Nat
             /\ Cardinality(Scan!Entries(file, here, fmt, k)) \in Nat
             /\ Cardinality(Scan!Entries(file, J, fmt, k)) \in Nat
             /\ counts'[k] = counts[k] + Cardinality(Scan!Entries(file, here, fmt, k))
             /\ flagged'[k] = flagged[k] + Cardinality(Scan!Entries(file, J, fmt, k))
             /\ Cardinality(Scan!Entries(file, J, fmt, k))
                   <= Cardinality(Scan!Entries(file, here, fmt, k))
  <2>1. counts'[k] = counts[k] + Scan!Tally(file, here, fmt)[k]
        /\ flagged'[k] = flagged[k] + Scan!Tally(file, J, fmt)[k]
    BY <1>1, <1>2 DEF Scan!Plus
  <2>2. /\ Scan!Tally(file, here, fmt)[k] = Cardinality(Scan!Entries(file, here, fmt, k))
        /\ IsFiniteSet(Scan!Entries(file, here, fmt, k))
        /\ Cardinality(Scan!Entries(file, here, fmt, k)) \in Nat
    BY <1>3, <1>4, EntriesAre
  <2>3. /\ Scan!Tally(file, J, fmt)[k] = Cardinality(Scan!Entries(file, J, fmt, k))
        /\ Cardinality(Scan!Entries(file, J, fmt, k)) \in Nat
    BY <1>3, <1>7, EntriesAre
  <2>4. Scan!Entries(file, J, fmt, k) \in SUBSET Scan!Entries(file, here, fmt, k)
    BY <1>6 DEF Scan!Entries
  <2>5. Cardinality(Scan!Entries(file, J, fmt, k)) <= Cardinality(Scan!Entries(file, here, fmt, k))
    BY <2>2, <2>4, FS_Subset
  <2> QED BY <1>3, <2>1, <2>2, <2>3, <2>5
<1>9. counts' \in [Key -> Nat] /\ flagged' \in [Key -> Nat]
  <2>1. /\ counts' = [k \in Key |-> counts'[k]] /\ flagged' = [k \in Key |-> flagged'[k]]
    BY <1>1, <1>2 DEF Scan!Plus
  <2>2. \A k \in Key : counts'[k] \in Nat /\ flagged'[k] \in Nat BY <1>8
  <2> QED BY <2>1, <2>2
<1>10. SliceTyped' BY <1>1, <1>2, <1>3, <1>7, <1>9 DEF SliceIInv, SliceTyped
<1>11. ASSUME NEW k \in Key
       PROVE  flagged'[k] <= counts'[k] /\ (way = "turbo" => flagged'[k] = 0)
  <2>1. flagged[k] <= counts[k] /\ (way = "turbo" => flagged[k] = 0) BY DEF SliceIInv
  <2>2. way = "turbo" => Cardinality(Scan!Entries(file, J, fmt, k)) = 0
    <3>1. J = {} => Scan!Entries(file, J, fmt, k) = {} BY DEF Scan!Entries
    <3> QED BY <1>2, <3>1, FS_EmptySet, Zenon
  <2> QED BY <1>8, <2>1, <2>2
<1>12. way = "turbo" => judged' = {} BY <1>2 DEF SliceIInv
<1>13. ASSUME Scan!Plain(file)
       PROVE  /\ judged' \subseteq ReadBefore(next + 1)
              /\ \A k \in Key :
                    /\ counts'[k] <= Cardinality(Merged(next + 1, k))
                    /\ faults = 0 => counts'[k] = Cardinality(Merged(next + 1, k))
                    /\ flagged'[k] = Cardinality(Scan!Entries(file, judged', given, k))
  <2>1. judged \subseteq ReadBefore(next) BY <1>13 DEF SliceIInv
  <2>2. ReadBefore(next) \cap here = {}
    <3>1. \A j \in 1 .. next - 1 : j \in 1 .. Len(chunks) /\ j # next BY <1>3
    <3>2. here = Within(file, chunks[next]) BY <1>4, <1>13
    <3>3. \A j \in 1 .. next - 1 : Within(file, chunks[j]) \cap here = {}
      BY <1>4, <3>1, <3>2
    <3> QED BY <3>3 DEF ReadBefore
  <2>3. ASSUME NEW k \in Key
        PROVE  /\ judged' \subseteq ReadBefore(next + 1)
               /\ counts'[k] <= Cardinality(Merged(next + 1, k))
               /\ faults = 0 => counts'[k] = Cardinality(Merged(next + 1, k))
               /\ flagged'[k] = Cardinality(Scan!Entries(file, judged', given, k))
    <3> DEFINE new == Scan!Entries(file, here, fmt, k)
               old == Merged(next, k)
               shown == Scan!Entries(file, judged, given, k)
               seen == Scan!Entries(file, J, given, k)
    <3>1. /\ ReadBefore(next + 1) = ReadBefore(next) \cup here
          /\ Merged(next + 1, k) = old \cup new /\ old \subseteq ReadBefore(next)
          /\ IsFiniteSet(old)
      <4>1. Counted(next, k) = new BY <1>4, <1>13 DEF Counted, here, fmt
      <4> QED BY <1>3, <1>4, <1>13, <4>1, ReadBeforeIs
    <3>2. IsFiniteSet(new) /\ new \subseteq here BY <1>3, <1>4, EntriesAre
    <3>3. old \cap new = {} BY <2>2, <3>1, <3>2
    <3>4. Cardinality(Merged(next + 1, k)) = Cardinality(old) + Cardinality(new)
          /\ Cardinality(old) \in Nat /\ Cardinality(new) \in Nat
      <4> HIDE DEF new, old
      <4>1. Cardinality(old \cup new) = Cardinality(old) + Cardinality(new)
            /\ Cardinality(old) \in Nat /\ Cardinality(new) \in Nat
        BY <3>1, <3>2, <3>3, PartsAdd
      <4> QED BY <3>1, <4>1
    <3>5. /\ counts[k] <= Cardinality(old)
          /\ faults = 0 => counts[k] = Cardinality(old)
          /\ flagged[k] = Cardinality(shown)
      BY <1>13 DEF SliceIInv
    <3>6. counts'[k] = counts[k] + Cardinality(new) /\ counts[k] \in Nat BY <1>8
    <3>7. judged' \subseteq ReadBefore(next + 1) BY <1>2, <1>6, <2>1, <3>1
    <3>8. /\ Scan!Entries(file, judged', given, k) = shown \cup seen
          /\ shown \cap seen = {}
      BY <1>2, <1>6, <2>1, <2>2 DEF Scan!Entries
    <3>9. IsFiniteSet(shown) /\ IsFiniteSet(seen) BY <1>3, <1>7, EntriesAre
    <3>10. seen = Scan!Entries(file, J, fmt, k)
      <4>1. CASE way = "parallel" BY <1>5, <4>1
      <4>2. CASE way # "parallel"
        <5>1. way = "turbo" BY <4>2 DEF SliceIInv, SliceTyped
        <5> QED BY <1>2, <5>1 DEF Scan!Entries
      <4> QED BY <4>1, <4>2
    <3>11. flagged'[k] = flagged[k] + Cardinality(seen)
      <4>1. flagged'[k] = flagged[k] + Cardinality(Scan!Entries(file, J, fmt, k)) BY <1>8
      <4> HIDE DEF seen
      <4> QED BY <3>10, <4>1
    <3> HIDE DEF new, old, shown, seen
    <3>12. Cardinality(shown \cup seen) = Cardinality(shown) + Cardinality(seen)
      BY <3>8, <3>9, PartsAdd
    <3>13. flagged'[k] = Cardinality(Scan!Entries(file, judged', given, k))
      BY <3>5, <3>8, <3>11, <3>12
    <3> QED BY <3>4, <3>5, <3>6, <3>7, <3>13
  <2>4. judged' \subseteq ReadBefore(next + 1)
    <3>1. CASE Key = {}
      <4>1. J = {} BY <3>1
      <4>2. judged' \subseteq ReadBefore(next) BY <1>2, <2>1, <4>1
      <4>3. \A j \in 1 .. next - 1 : j \in 1 .. (next + 1) - 1 BY <1>3
      <4> QED BY <4>2, <4>3 DEF ReadBefore
    <3>2. CASE Key # {} BY <2>3, <3>2
    <3> QED BY <3>1, <3>2
  <2> QED BY <2>3, <2>4
<1>14. /\ ReadBefore(next)' = ReadBefore(next + 1)
       /\ \A k \in Key : Merged(next, k)' = Merged(next + 1, k)
       /\ \A k \in Key : Scan!Entries(file, judged, given, k)'
                            = Scan!Entries(file, judged', given, k)
  <2>1. /\ ReadBefore(next)' = ReadBefore(next + 1)
        /\ \A k \in Key : Merged(next, k)' = Merged(next + 1, k)
    BY <1>1 DEF ReadBefore, Merged, Counted, Within, Scan!Used
  <2>2. \A k \in Key : Scan!Entries(file, judged, given, k)'
                          = Scan!Entries(file, judged', given, k)
    BY <1>1
  <2> QED BY <2>1, <2>2
<1>15. pc' # "split" /\ pc' # "done" BY <1>1
<1> QED BY <1>1, <1>3, <1>10, <1>11, <1>12, <1>13, <1>14, <1>15 DEF SliceIInv

LEMMA FaultKeeps == ASSUME SliceIInv, Scan!SliceFaults PROVE SliceIInv'
<1>1. /\ pc = "pool" /\ way = "parallel" /\ next <= Len(chunks)
      /\ faults' = faults + 1 /\ next' = next + 1
      /\ file' = file /\ n' = n /\ way' = way /\ given' = given /\ chunks' = chunks
      /\ counts' = counts /\ flagged' = flagged /\ judged' = judged /\ pc' = pc
  BY DEF Scan!SliceFaults
<1>2. /\ file \in Files /\ chunks \in Seq(Nat \X Nat) /\ Len(chunks) \in Nat
      /\ next \in 1 .. Len(chunks) /\ next \in 1 .. Len(chunks) + 1
      /\ next + 1 \in 1 .. Len(chunks) + 1
      /\ counts \in [Key -> Nat] /\ flagged \in [Key -> Nat] /\ faults \in 0 .. next - 1
  BY <1>1 DEF SliceIInv, SliceTyped
<1>3. SliceTyped'
  <2>1. faults' \in 0 .. next' - 1 BY <1>1, <1>2
  <2> QED BY <1>1, <1>2, <2>1 DEF SliceIInv, SliceTyped
<1>4. ASSUME Scan!Plain(file), NEW k \in Key
      PROVE  counts[k] <= Cardinality(Merged(next + 1, k))
  <2>1. Merged(next, k) \in SUBSET Merged(next + 1, k) /\ IsFiniteSet(Merged(next + 1, k))
        /\ IsFiniteSet(Merged(next, k))
    <3>1. Merged(next + 1, k) = Merged(next, k) \cup Counted(next, k) BY <1>2, ReadBeforeIs
    <3>2. IsFiniteSet(Merged(next, k)) /\ IsFiniteSet(Merged(next + 1, k)) BY <1>2, ReadBeforeIs
    <3> QED BY <3>1, <3>2
  <2>2. /\ Cardinality(Merged(next, k)) <= Cardinality(Merged(next + 1, k))
        /\ Cardinality(Merged(next, k)) \in Nat /\ Cardinality(Merged(next + 1, k)) \in Nat
    BY <2>1, FS_Subset, FS_CardinalityType
  <2>3. counts[k] <= Cardinality(Merged(next, k)) BY <1>4 DEF SliceIInv
  <2> QED BY <1>2, <2>2, <2>3
<1>5. /\ ReadBefore(next)' = ReadBefore(next + 1)
      /\ \A k \in Key : Merged(next, k)' = Merged(next + 1, k)
  BY <1>1 DEF ReadBefore, Merged, Counted, Within, Scan!Used
<1>6. ReadBefore(next) \subseteq ReadBefore(next + 1)
  <2>1. \A j \in 1 .. next - 1 : j \in 1 .. (next + 1) - 1 BY <1>2
  <2> QED BY <2>1 DEF ReadBefore
<1>7. faults' # 0 BY <1>1, <1>2
<1>8. \A k \in Key : Scan!Entries(file, judged, given, k)' = Scan!Entries(file, judged, given, k)
  BY <1>1
<1> QED BY <1>1, <1>3, <1>4, <1>5, <1>6, <1>7, <1>8 DEF SliceIInv

\* A serial scan starts over, with nothing merged.
LEMMA PoolFailKeeps == ASSUME SliceIInv, Scan!PoolFails PROVE SliceIInv'
<1>1. /\ pc = "pool" /\ way = "turbo" /\ counts' = Scan!None /\ next' = 1
      /\ pc' = "serial" /\ file' = file /\ n' = n /\ way' = way /\ given' = given
      /\ chunks' = chunks /\ flagged' = flagged /\ judged' = judged /\ faults' = faults
  BY DEF Scan!PoolFails, Scan!StartOver
<1>2. /\ file \in Files /\ chunks \in Seq(Nat \X Nat) /\ Len(chunks) \in Nat /\ faults = 0
      /\ judged = {} /\ flagged \in [Key -> Nat] /\ \A k \in Key : flagged[k] = 0
  BY <1>1 DEF SliceIInv, SliceTyped
<1>3. Scan!None \in [Key -> Nat] BY DEF Scan!None
<1>4. SliceTyped'
  <2>1. next' \in 1 .. Len(chunks') + 1 /\ faults' \in 0 .. next' - 1 BY <1>1, <1>2
  <2> QED BY <1>1, <1>2, <1>3, <2>1 DEF SliceIInv, SliceTyped
<1>5. \A k \in Key : /\ Cardinality(Merged(1, k)) = 0 /\ Scan!None[k] = 0
                     /\ Cardinality(Scan!Entries(file, {}, given, k)) = 0
  BY <1>2, NothingMerged
<1>6. /\ ReadBefore(next)' = ReadBefore(1)
      /\ \A k \in Key : Merged(next, k)' = Merged(1, k)
  BY <1>1 DEF ReadBefore, Merged, Counted, Within, Scan!Used
<1>7. \A k \in Key : Scan!Entries(file, judged, given, k)' = Scan!Entries(file, {}, given, k)
  BY <1>1, <1>2
<1> QED BY <1>1, <1>2, <1>4, <1>5, <1>6, <1>7 DEF SliceIInv

LEMMA FinishKeeps == ASSUME SliceIInv, Scan!Finish PROVE SliceIInv'
<1>1. /\ pc \in {"pool", "serial"} /\ next > Len(chunks) /\ pc' = "done"
      /\ file' = file /\ n' = n /\ way' = way /\ given' = given /\ chunks' = chunks
      /\ next' = next /\ counts' = counts /\ flagged' = flagged /\ judged' = judged
      /\ faults' = faults
  BY DEF Scan!Finish
<1>2. next = Len(chunks) + 1
  <2>1. Len(chunks) \in Nat /\ next \in 1 .. Len(chunks) + 1 BY DEF SliceIInv, SliceTyped
  <2> QED BY <1>1, <2>1
<1>3. /\ ReadBefore(next)' = ReadBefore(next)
      /\ \A k \in Key : Merged(next, k)' = Merged(next, k)
  BY <1>1 DEF ReadBefore, Merged, Counted, Within, Scan!Used
<1>4. SliceTyped' BY <1>1 DEF SliceIInv, SliceTyped
<1>5. \A k \in Key : Scan!Entries(file, judged, given, k)' = Scan!Entries(file, judged, given, k)
  BY <1>1
<1> QED BY <1>1, <1>2, <1>3, <1>4, <1>5 DEF SliceIInv

LEMMA SliceSteps == SliceIInv /\ Scan!Next => SliceIInv'
BY SplitKeeps, MergeKeeps, FaultKeeps, PoolFailKeeps, FinishKeeps DEF Scan!Next

\* What the invariant says of the scan.
LEMMA SliceSafe == SliceIInv => Scan!TypeOK /\ Scan!CutIndependent /\ Scan!FaultsOnlyLose
<1> SUFFICES ASSUME SliceIInv PROVE Scan!TypeOK /\ Scan!CutIndependent /\ Scan!FaultsOnlyLose
  OBVIOUS
<1>1. Len(chunks) \in Nat /\ next \in 1 .. Len(chunks) + 1 /\ chunks \in Seq(Nat \X Nat)
      /\ file \in Files /\ n \in Slices /\ faults \in 0 .. next - 1
      /\ counts \in [Key -> Nat] /\ flagged \in [Key -> Nat] /\ judged \subseteq DOMAIN file
      /\ given \in Format \cup {"none"} /\ (way = "parallel" => given \in Format)
  BY DEF SliceIInv, SliceTyped
<1>2. Scan!TypeOK
  <2>1. faults <= Len(chunks) BY <1>1
  <2> QED BY <1>1, <2>1 DEF SliceIInv, SliceTyped, Scan!TypeOK
<1>3. ASSUME pc = "done", NEW k \in Key, NEW x
      PROVE  x \in Merged(next, k) <=>
                \E j \in 1 .. Len(chunks) : x \in Counted(j, k)
  <2>1. next = Len(chunks) + 1 BY <1>3 DEF SliceIInv
  <2>2. 1 .. next - 1 = 1 .. Len(chunks) BY <1>1, <2>1
  <2> QED BY <2>2 DEF Merged
<1>4. ASSUME pc = "done", NEW x \in DOMAIN file
      PROVE  \E j \in 1 .. Len(chunks) : x \in Within(file, chunks[j])
  <2>1. chunks = Scan!InOrder(Scan!SplitChunks(file, n)) BY <1>4 DEF SliceIInv
  <2> QED BY <1>1, <2>1, ChunksAre
<1>5. ASSUME pc = "done", Scan!Plain(file), NEW j \in 1 .. Len(chunks),
             NEW i \in Within(file, chunks[j]), file[i].detects # "none"
      PROVE  /\ Scan!Used(file, Scan!Reads(file, chunks[j]))
                   \in IF way = "parallel" THEN {given} ELSE Format
             /\ Scan!Used(file, Scan!Reads(file, chunks[j])) # "none"
  <2>1. /\ Scan!Reads(file, chunks[j]) \subseteq DOMAIN file
        /\ i \in Scan!Reads(file, chunks[j])
    <3>1. pc # "split" BY <1>5
    <3> QED BY <1>5, <3>1, SlicesAre
  <2> QED BY <1>1, <1>5, <2>1, UsedIs
<1>6. \A j, k, i : i \in Counted(j, k) <=>
         /\ i \in Within(file, chunks[j]) /\ file[i].detects # "none"
         /\ file[i].as[Scan!Used(file, Scan!Reads(file, chunks[j]))] = k
  BY DEF Counted, Scan!Entries
<1>7. ASSUME pc = "done", Scan!Plain(file) PROVE Scan!FaultsOnlyLose
  <2>1. ASSUME NEW k \in Key
        PROVE  counts[k] <= Cardinality(
                  UNION {Scan!Entries(file, DOMAIN file, fmt, k) :
                            fmt \in IF way = "parallel" THEN {given} ELSE Format})
    <3> DEFINE All == UNION {Scan!Entries(file, DOMAIN file, fmt, k) :
                                fmt \in IF way = "parallel" THEN {given} ELSE Format}
    <3>1. ASSUME NEW x \in Merged(next, k) PROVE x \in All
      <4>1. PICK j \in 1 .. Len(chunks) : x \in Counted(j, k) BY <1>3, <1>7
      <4> DEFINE fmt == Scan!Used(file, Scan!Reads(file, chunks[j]))
      <4>2. x \in Within(file, chunks[j]) /\ file[x].detects # "none" /\ file[x].as[fmt] = k
        BY <1>6, <4>1
      <4>3. fmt \in IF way = "parallel" THEN {given} ELSE Format BY <1>5, <1>7, <4>2
      <4>4. x \in DOMAIN file BY <4>2 DEF Within
      <4> HIDE DEF fmt
      <4>5. x \in Scan!Entries(file, DOMAIN file, fmt, k) BY <4>2, <4>4 DEF Scan!Entries
      <4> QED BY <4>3, <4>5
    <3>2. IsFiniteSet(All)
      <4>1. All \subseteq DOMAIN file BY DEF Scan!Entries
      <4> HIDE DEF All
      <4> QED BY <1>1, <4>1, FilesAre, FS_Subset
    <3>3. counts[k] <= Cardinality(Merged(next, k)) BY <1>7 DEF SliceIInv
    <3> HIDE DEF All
    <3>4. /\ Cardinality(Merged(next, k)) <= Cardinality(All)
          /\ Cardinality(Merged(next, k)) \in Nat /\ Cardinality(All) \in Nat
      <4>1. Merged(next, k) \in SUBSET All BY <3>1
      <4> QED BY <3>2, <4>1, FS_Subset, FS_CardinalityType
    <3>5. counts[k] <= Cardinality(All) BY <1>1, <3>3, <3>4
    <3> QED BY <3>5 DEF All
  <2>2. ASSUME NEW k \in Key PROVE flagged[k] = Scan!Tally(file, judged, given)[k]
    BY <1>1, <1>7, EntriesAre DEF SliceIInv
  <2> QED BY <2>1, <2>2, ScanCardinality, Zenon DEF Scan!FaultsOnlyLose
<1>8. ASSUME pc = "done", Scan!Plain(file), faults = 0, NEW fmt \in Format,
             \A j \in DOMAIN chunks :
                Scan!Used(file, Scan!Reads(file, chunks[j])) \in {fmt, "none"}
      PROVE  counts = Scan!Tally(file, DOMAIN file, fmt)
  <2>1. ASSUME NEW k \in Key PROVE counts[k] = Scan!Tally(file, DOMAIN file, fmt)[k]
    <3>1. ASSUME NEW j \in 1 .. Len(chunks), NEW i \in Within(file, chunks[j]),
                 file[i].detects # "none"
          PROVE  Scan!Used(file, Scan!Reads(file, chunks[j])) = fmt
      <4>1. j \in DOMAIN chunks BY <1>1
      <4> QED BY <1>5, <1>8, <3>1, <4>1
    <3>2. \A x \in Merged(next, k) : x \in Scan!Entries(file, DOMAIN file, fmt, k)
      <4> SUFFICES ASSUME NEW x \in Merged(next, k)
                   PROVE  x \in Scan!Entries(file, DOMAIN file, fmt, k)
        OBVIOUS
      <4>1. PICK j \in 1 .. Len(chunks) : x \in Counted(j, k) BY <1>3, <1>8
      <4> QED BY <1>6, <3>1, <4>1 DEF Scan!Entries, Within
    <3>3. \A x \in Scan!Entries(file, DOMAIN file, fmt, k) : x \in Merged(next, k)
      <4> SUFFICES ASSUME NEW x \in Scan!Entries(file, DOMAIN file, fmt, k)
                   PROVE  x \in Merged(next, k)
        OBVIOUS
      <4>1. x \in DOMAIN file /\ file[x].detects # "none" /\ file[x].as[fmt] = k
        BY DEF Scan!Entries
      <4>2. PICK j \in 1 .. Len(chunks) : x \in Within(file, chunks[j]) BY <1>4, <1>8, <4>1
      <4>3. x \in Counted(j, k) BY <1>6, <3>1, <4>1, <4>2
      <4> QED BY <1>3, <1>8, <4>3
    <3>4. Merged(next, k) = Scan!Entries(file, DOMAIN file, fmt, k) BY <3>2, <3>3
    <3>5. counts[k] = Cardinality(Merged(next, k)) BY <1>8 DEF SliceIInv
    <3>6. Scan!Tally(file, DOMAIN file, fmt)[k]
             = Cardinality(Scan!Entries(file, DOMAIN file, fmt, k))
      BY <1>1, EntriesAre
    <3> QED BY <3>4, <3>5, <3>6
  <2>2. counts = [k \in Key |-> counts[k]] BY <1>1
  <2>3. Scan!Tally(file, DOMAIN file, fmt)
           = [k \in Key |-> Scan!Tally(file, DOMAIN file, fmt)[k]]
    BY DEF Scan!Tally
  <2> QED BY <2>1, <2>2, <2>3
<1>9. Scan!FaultsOnlyLose BY <1>7 DEF Scan!FaultsOnlyLose
<1>10. Scan!CutIndependent BY <1>8, Zenon DEF Scan!CutIndependent
<1> QED BY <1>2, <1>9, <1>10

-----------------------------------------------------------------------------
(* The baseline.                                                           *)

\* The library's operators, as the module of the baseline calls them.
LEMMA StoreCardinality == ASSUME NEW S PROVE Store!Cardinality(S) = Cardinality(S)
BY Zenon DEF Store!Cardinality, Cardinality
LEMMA TotalIs == ASSUME NEW t PROVE Store!Total(t) = SumOn(t, DOMAIN t)
BY Zenon DEF Store!Total, SumOn, FoldFunction, Store!FoldFunction, Store!FoldFunctionOnSet,
             FoldFunctionOnSet, Store!MapThenFoldSet, MapThenFoldSet

\* Templates that a normal line of some batch has, and what may be known of them.
Learnable == {k \in Template : \E b \in Batches : \E i \in DOMAIN b :
                                  b[i].key = k /\ ~b[i].flagged}
Tables == UNION {[K -> Nat] : K \in SUBSET Learnable}
Docs ==
    {d \in [templates : Tables, total : Nat, learned_runs : Nat] :
        /\ Cardinality(DOMAIN d.templates) <= MaxTemplates
        /\ d.total >= Store!Total(d.templates)}

\* A run that no other overlaps finds its temporary file as it left it, and it
\* replaces what it has loaded.
Undisturbed(p) ==
    /\ Store!Others(p) = {}
    /\ Store!Published = base[p]
    /\ step[p] = "dump" => fd[p] = tmp /\ files[tmp] = Store!Torn
    /\ step[p] = "replace" => fd[p] = tmp /\ files[tmp] = doc[p]

\* What is being saved counts one run more than what was loaded, and no less.
Advances(p) ==
    /\ fd[p] # 0
    /\ doc[p].learned_runs = base[p].learned_runs + 1
    /\ doc[p].total >= base[p].total

StoreTyped ==
    /\ files \in Seq(Docs)
    /\ path \in 0 .. Len(files) /\ tmp \in 0 .. Len(files)
    /\ step \in [Process -> {"idle", "detect", "dump", "replace"}]
    /\ base \in [Process -> Docs] /\ doc \in [Process -> Docs]
    /\ fd \in [Process -> 0 .. Len(files)]
    /\ lone \in [Process -> BOOLEAN] /\ met \in BOOLEAN

StoreIInv ==
    /\ StoreTyped
    /\ tmp # 0 => tmp # path
    /\ \A p \in Process :
          /\ step[p] \in {"dump", "replace"} => Advances(p)
          /\ step[p] # "idle" /\ lone[p] => Undisturbed(p)
          /\ step[p] # "idle" /\ ~met => lone[p]
    /\ path # 0 /\ ~met => Store!Published # Store!Torn

LEMMA TablesAre ==
    ASSUME NEW t \in Tables
    PROVE  /\ DOMAIN t \subseteq Learnable /\ IsFiniteSet(DOMAIN t)
           /\ t = [k \in DOMAIN t |-> t[k]]
           /\ \A k \in DOMAIN t : t[k] \in Nat
           /\ Store!Total(t) = SumOn(t, DOMAIN t) /\ Store!Total(t) \in Nat
<1>1. PICK K \in SUBSET Learnable : t \in [K -> Nat] BY DEF Tables
<1>2. DOMAIN t = K /\ K \subseteq Template BY <1>1 DEF Learnable
<1>3. IsFiniteSet(DOMAIN t) BY <1>2, AnalysisAssumption, FS_Subset
<1>4. \A k \in DOMAIN t : t[k] \in Nat BY <1>1
<1>5. SumOn(t, DOMAIN t) \in Nat BY <1>3, <1>4, SumIsNat
<1> QED BY <1>1, <1>2, <1>3, <1>4, <1>5, TotalIs

LEMMA ColdIsDoc == Store!Cold \in Docs /\ Store!Torn = Store!Cold /\ Store!Cold.learned_runs = 0
<1> DEFINE e == [k \in {} |-> 0]
<1>1. DOMAIN e = {} OBVIOUS
<1>2. e \in [{} -> Nat] OBVIOUS
<1>3. e \in Tables BY <1>2 DEF Tables
<1>4. Store!Total(e) = 0 BY <1>1, TotalIs, SumOfNone
<1>5. Cardinality(DOMAIN e) = 0 BY <1>1, FS_EmptySet
<1> HIDE DEF e
<1>6. Store!Cold = [templates |-> e, total |-> 0, learned_runs |-> 0] BY DEF Store!Cold, e
<1> QED BY <1>3, <1>4, <1>5, <1>6, AnalysisAssumption DEF Docs, Store!Torn

\* What a batch has of a template is a number, and none of a template that it
\* does not let learn.
LEMMA KeptIs ==
    ASSUME NEW b \in Batches, NEW k \in Template
    PROVE  /\ Store!Kept(b, k) \in Nat
           /\ Store!Kept(b, k) > 0 => k \in Learnable
<1> DEFINE Hits == {i \in DOMAIN b : b[i].key = k /\ ~b[i].flagged}
<1>1. Store!Kept(b, k) = Cardinality(Hits) BY Zenon, StoreCardinality DEF Store!Kept
<1>2. DOMAIN b = 1 .. Len(b) /\ Len(b) \in Nat BY AnalysisAssumption
<1>3. IsFiniteSet(DOMAIN b) BY <1>2, FS_Interval
<1>4. IsFiniteSet(Hits) /\ Cardinality(Hits) \in Nat BY <1>3, FS_Subset, FS_CardinalityType
<1>5. ASSUME Cardinality(Hits) > 0 PROVE k \in Learnable
  <2>1. Hits # {}
    <3>1. SUFFICES ASSUME Hits = {} PROVE FALSE OBVIOUS
    <3>2. Cardinality(Hits) = 0 BY <3>1, FS_EmptySet, Zenon
    <3> HIDE DEF Hits
    <3> QED BY <1>5, <3>2
  <2> QED BY <2>1 DEF Learnable
<1> QED BY <1>1, <1>4, <1>5

\* A cut to the largest templates keeps their counts.
LEMMA CutsAre ==
    ASSUME NEW s \in Tables, NEW t \in Store!Cuts(s)
    PROVE  t \in Tables /\ Cardinality(DOMAIN t) <= MaxTemplates /\ Store!Total(t) <= Store!Total(s)
<1>1. /\ DOMAIN s \subseteq Learnable /\ IsFiniteSet(DOMAIN s)
      /\ \A k \in DOMAIN s : s[k] \in Nat
      /\ Store!Total(s) = SumOn(s, DOMAIN s) /\ Store!Total(s) \in Nat
  BY TablesAre
<1>2. CASE Store!Cardinality(DOMAIN s) <= MaxTemplates
  <2>1. t = s BY <1>2 DEF Store!Cuts
  <2> QED BY <1>1, <1>2, <2>1, StoreCardinality
<1>3. CASE ~(Store!Cardinality(DOMAIN s) <= MaxTemplates)
  <2>1. PICK K \in Store!kSubset(MaxTemplates, DOMAIN s) : t = Store!Restrict(s, K)
    BY <1>3 DEF Store!Cuts
  <2>2. K \subseteq DOMAIN s /\ Cardinality(K) = MaxTemplates
    BY StoreCardinality DEF Store!kSubset
  <2>3. t = [k \in K |-> s[k]] BY <2>1 DEF Store!Restrict
  <2>4. t \in [K -> Nat] /\ K \in SUBSET Learnable /\ DOMAIN t = K BY <1>1, <2>2, <2>3
  <2>5. t \in Tables BY <2>4 DEF Tables
  <2>6. IsFiniteSet(K) /\ IsFiniteSet(DOMAIN s \ K) BY <1>1, <2>2, FS_Subset, FS_Difference
  <2>7. \A k \in K : t[k] = s[k] /\ t[k] \in Int BY <1>1, <2>2, <2>3
  <2>8. SumOn(t, K) = SumOn(s, K) BY <2>6, <2>7, SumOfSame
  <2>9. SumOn(s, K \cup (DOMAIN s \ K)) = SumOn(s, K) + SumOn(s, DOMAIN s \ K)
    <3>1. \A x \in K \cup (DOMAIN s \ K) : s[x] \in Int BY <1>1, <2>2
    <3>2. K \cap (DOMAIN s \ K) = {} OBVIOUS
    <3> QED BY <2>6, <3>1, <3>2, SumOfUnion
  <2>10. K \cup (DOMAIN s \ K) = DOMAIN s BY <2>2
  <2>11. SumOn(s, K) \in Nat /\ SumOn(s, DOMAIN s \ K) \in Nat
    <3>1. \A x \in K : s[x] \in Nat BY <1>1, <2>2
    <3>2. \A x \in DOMAIN s \ K : s[x] \in Nat BY <1>1
    <3> QED BY <2>6, <3>1, <3>2, SumIsNat
  <2>12. SumOn(s, DOMAIN s) = SumOn(s, K) + SumOn(s, DOMAIN s \ K) BY <2>9, <2>10, Zenon
  <2>13. Store!Total(t) = SumOn(s, K) BY <2>4, <2>8, TotalIs, Zenon
  <2> QED BY <1>1, <2>2, <2>4, <2>5, <2>11, <2>12, <2>13, AnalysisAssumption
<1> QED BY <1>2, <1>3

\* An update of a document is one, a run further.
LEMMA UpdatesAre ==
    ASSUME NEW b \in Docs, NEW batch \in Batches, NEW d \in Store!Updates(b, batch)
    PROVE  /\ d \in Docs
           /\ d.learned_runs = b.learned_runs + 1
           /\ d.total >= b.total
<1> DEFINE old == b.templates
           known == DOMAIN old \cup {k \in Template : Store!Kept(batch, k) > 0}
           sum == [k \in known |-> Store!Count(old, k) + Store!Kept(batch, k)]
<1>1. PICK t \in Store!Cuts(sum) :
         d = [templates |-> t, total |-> b.total + Store!Total(sum) - Store!Total(old),
              learned_runs |-> b.learned_runs + 1]
  BY DEF Store!Updates
<1>2. /\ old \in Tables /\ b.total \in Nat /\ b.learned_runs \in Nat
      /\ b.total >= Store!Total(old)
  BY DEF Docs
<1>3. /\ DOMAIN old \subseteq Learnable /\ IsFiniteSet(DOMAIN old)
      /\ \A k \in DOMAIN old : old[k] \in Nat
      /\ Store!Total(old) = SumOn(old, DOMAIN old) /\ Store!Total(old) \in Nat
  BY <1>2, TablesAre
<1>4. known \subseteq Learnable /\ \A k \in known : Store!Kept(batch, k) \in Nat
  BY <1>3, KeptIs DEF Learnable
<1>5. \A k \in known : Store!Count(old, k) \in Nat BY <1>3 DEF Store!Count
<1> HIDE DEF old
<1>6. sum \in [known -> Nat] BY <1>4, <1>5
<1>7. sum \in Tables BY <1>4, <1>6 DEF Tables
<1>8. Store!Total(old) <= Store!Total(sum) /\ Store!Total(sum) \in Nat
  <2> DEFINE new == known \ DOMAIN old
  <2>1. Store!Total(sum) = SumOn(sum, known) /\ Store!Total(sum) \in Nat /\ IsFiniteSet(known)
    <3>1. DOMAIN sum = known OBVIOUS
    <3> HIDE DEF known, sum
    <3> QED BY <1>7, <3>1, TablesAre
  <2>2. IsFiniteSet(new) BY <2>1, FS_Subset
  <2>3. \A k \in DOMAIN old : sum[k] \in Nat /\ old[k] <= sum[k]
    BY <1>3, <1>4 DEF Store!Count
  <2>4. \A k \in new : sum[k] \in Nat BY <1>6
  <2>5. known = DOMAIN old \cup new /\ DOMAIN old \cap new = {} OBVIOUS
  <2> HIDE DEF known, new, sum
  <2>6. SumOn(sum, DOMAIN old \cup new) = SumOn(sum, DOMAIN old) + SumOn(sum, new)
    <3>1. \A x \in DOMAIN old \cup new : sum[x] \in Int BY <2>3, <2>4
    <3> QED BY <1>3, <2>2, <2>5, <3>1, SumOfUnion
  <2>7. SumOn(old, DOMAIN old) <= SumOn(sum, DOMAIN old)
    <3>1. \A x \in DOMAIN old : old[x] \in Int /\ sum[x] \in Int /\ old[x] <= sum[x]
      BY <1>3, <2>3
    <3> QED BY <1>3, <3>1, SumsCompare
  <2>8. SumOn(sum, DOMAIN old) \in Nat /\ SumOn(sum, new) \in Nat
    BY <1>3, <2>2, <2>3, <2>4, SumIsNat
  <2>9. SumOn(sum, known) = SumOn(sum, DOMAIN old) + SumOn(sum, new) BY <2>5, <2>6, Zenon
  <2> QED BY <1>3, <2>1, <2>7, <2>8, <2>9
<1> HIDE DEF known, sum
<1>9. t \in Tables /\ Cardinality(DOMAIN t) <= MaxTemplates /\ Store!Total(t) <= Store!Total(sum)
  BY <1>7, CutsAre
<1>10. Store!Total(t) \in Nat BY <1>9, TablesAre
<1>11. b.total + Store!Total(sum) - Store!Total(old) \in Nat
       /\ b.total + Store!Total(sum) - Store!Total(old) >= Store!Total(t)
       /\ b.total + Store!Total(sum) - Store!Total(old) >= b.total
  BY <1>2, <1>3, <1>8, <1>9, <1>10
<1> QED BY <1>1, <1>2, <1>9, <1>11 DEF Docs

LEMMA StoreStarts == Store!Init => StoreIInv
<1> SUFFICES ASSUME Store!Init PROVE StoreIInv
  OBVIOUS
<1>1. Store!Cold \in Docs BY ColdIsDoc
<1>2. files = <<>> /\ files \in Seq(Docs) /\ Len(files) = 0 BY DEF Store!Init
<1>3. /\ path = 0 /\ tmp = 0 /\ met = FALSE
      /\ step = [p \in Process |-> "idle"] /\ fd = [p \in Process |-> 0]
      /\ base = [p \in Process |-> Store!Cold] /\ doc = [p \in Process |-> Store!Cold]
      /\ lone = [p \in Process |-> TRUE]
  BY DEF Store!Init
<1>4. StoreTyped
  <2>1. path \in 0 .. Len(files) /\ tmp \in 0 .. Len(files) BY <1>2, <1>3
  <2>2. fd \in [Process -> 0 .. Len(files)] BY <1>2, <1>3
  <2>3. base \in [Process -> Docs] /\ doc \in [Process -> Docs] BY <1>1, <1>3
  <2>4. step \in [Process -> {"idle", "detect", "dump", "replace"}] BY <1>3
  <2>5. lone \in [Process -> BOOLEAN] /\ met \in BOOLEAN BY <1>3
  <2> QED BY <1>2, <2>1, <2>2, <2>3, <2>4, <2>5 DEF StoreTyped
<1> QED BY <1>3, <1>4 DEF StoreIInv

\* What is published is a document.
LEMMA PublishedIs == StoreTyped => Store!Published \in Docs
<1> SUFFICES ASSUME StoreTyped PROVE Store!Published \in Docs
  OBVIOUS
<1>1. CASE path = 0 BY <1>1, ColdIsDoc DEF Store!Published
<1>2. CASE path # 0
  <2>1. path \in 1 .. Len(files) BY <1>2 DEF StoreTyped
  <2> QED BY <1>2, <2>1 DEF Store!Published, StoreTyped
<1> QED BY <1>1, <1>2

LEMMA LoadKeeps == ASSUME StoreIInv, NEW p \in Process, Store!Load(p) PROVE StoreIInv'
<1>1. Store!Published \in Docs BY PublishedIs DEF StoreIInv
<1>2. /\ step[p] = "idle" /\ base' = [base EXCEPT ![p] = Store!Published]
      /\ step' = [step EXCEPT ![p] = "detect"]
      /\ lone' = [q \in Process |-> IF q = p THEN Store!Others(p) = {}
                                    ELSE step[q] = "idle" /\ lone[q]]
      /\ met' = (met \/ Store!Others(p) # {})
      /\ path' = path /\ tmp' = tmp /\ files' = files /\ doc' = doc /\ fd' = fd
  BY DEF Store!Load
<1>3. StoreTyped' BY <1>1, <1>2 DEF StoreIInv, StoreTyped
<1>4. Store!Published' = Store!Published BY <1>2 DEF Store!Published
<1>5. ASSUME NEW q \in Process
      PROVE  /\ step'[q] \in {"dump", "replace"} => Advances(q)'
             /\ step'[q] # "idle" /\ lone'[q] => Undisturbed(q)'
             /\ step'[q] # "idle" /\ ~met' => lone'[q]
  <2>1. CASE q = p
    <3>1. step'[p] = "detect" /\ base'[p] = Store!Published /\ lone'[p] = (Store!Others(p) = {})
      BY <1>2 DEF StoreIInv, StoreTyped
    <3>2. Store!Others(p)' = Store!Others(p)
      BY <1>2 DEF Store!Others, StoreIInv, StoreTyped
    <3> QED BY <1>2, <1>4, <2>1, <3>1, <3>2 DEF Undisturbed
  <2>2. CASE q # p
    <3>1. step'[q] = step[q] /\ base'[q] = base[q] /\ lone'[q] = (step[q] = "idle" /\ lone[q])
      BY <1>2, <2>2 DEF StoreIInv, StoreTyped
    <3>2. step[q] # "idle" => Store!Others(p) # {} BY <2>2 DEF Store!Others
    <3> QED BY <1>2, <3>1, <3>2 DEF StoreIInv, Advances
  <2> QED BY <2>1, <2>2
<1> QED BY <1>2, <1>3, <1>4, <1>5 DEF StoreIInv, Store!Torn, Store!Cold

\* Another process's step does not disturb a run, since it does not happen.
LEMMA OthersUndisturbed ==
    ASSUME StoreIInv, NEW p \in Process, NEW q \in Process, q # p,
           step[p] # "idle", step[q] # "idle"
    PROVE  ~lone[q] /\ met
BY DEF StoreIInv, Undisturbed, Store!Others

LEMMA OpenKeeps == ASSUME StoreIInv, NEW p \in Process, Store!OpenTmp(p) PROVE StoreIInv'
<1>1. PICK batch \in Batches :
         \E d \in Store!Updates(base[p], batch) : doc' = [doc EXCEPT ![p] = d]
  BY DEF Store!OpenTmp
<1>2. PICK d \in Store!Updates(base[p], batch) : doc' = [doc EXCEPT ![p] = d]
  BY <1>1
<1>3. /\ step[p] = "detect"
      /\ files' = IF tmp = 0 THEN Append(files, Store!Torn)
                  ELSE [files EXCEPT ![tmp] = Store!Torn]
      /\ tmp' = IF tmp = 0 THEN Len(files') ELSE tmp
      /\ fd' = [fd EXCEPT ![p] = tmp']
      /\ step' = [step EXCEPT ![p] = "dump"]
      /\ path' = path /\ base' = base /\ lone' = lone /\ met' = met
  BY DEF Store!OpenTmp
<1>4. /\ files \in Seq(Docs) /\ Len(files) \in Nat /\ path \in 0 .. Len(files)
      /\ tmp \in 0 .. Len(files) /\ (tmp # 0 => tmp # path)
      /\ fd \in [Process -> 0 .. Len(files)]
  BY DEF StoreIInv, StoreTyped
<1>5. d \in Docs /\ d.learned_runs = base[p].learned_runs + 1 /\ d.total >= base[p].total
  BY UpdatesAre DEF StoreIInv, StoreTyped
<1>6. Store!Torn \in Docs BY ColdIsDoc
<1> HIDE DEF Learnable
<1>7. /\ files' \in Seq(Docs) /\ Len(files') >= Len(files) /\ Len(files') \in Nat
      /\ tmp' \in 1 .. Len(files') /\ tmp' # path
      /\ files'[tmp'] = Store!Torn
      /\ \A i \in 1 .. Len(files) : i # tmp => files'[i] = files[i]
  <2>1. CASE tmp = 0 BY <1>3, <1>4, <1>6, <2>1
  <2>2. CASE tmp # 0
    <3>1. tmp \in 1 .. Len(files) BY <1>4, <2>2
    <3>2. files' = [files EXCEPT ![tmp] = Store!Torn] /\ tmp' = tmp
      BY <1>3, <2>2
    <3>3. files' \in Seq(Docs) /\ Len(files') = Len(files)
      BY <1>4, <1>6, <3>1, <3>2, ExceptSeq
    <3> QED BY <1>4, <2>2, <3>1, <3>2, <3>3
  <2> QED BY <2>1, <2>2
<1>8. StoreTyped'
  <2>1. fd' \in [Process -> 0 .. Len(files')] BY <1>3, <1>4, <1>7
  <2> QED BY <1>2, <1>3, <1>4, <1>5, <1>7, <2>1 DEF StoreIInv, StoreTyped
<1>9. Store!Published' = Store!Published
  <2>1. CASE path = 0 BY <1>3, <2>1 DEF Store!Published, Store!Cold
  <2>2. CASE path # 0
    <3>1. path \in 1 .. Len(files) /\ path # tmp BY <1>4, <2>2
    <3> QED BY <1>3, <1>7, <2>2, <3>1 DEF Store!Published
  <2> QED BY <2>1, <2>2
<1>10. ASSUME NEW q \in Process
       PROVE  /\ step'[q] \in {"dump", "replace"} => Advances(q)'
              /\ step'[q] # "idle" /\ lone'[q] => Undisturbed(q)'
              /\ step'[q] # "idle" /\ ~met' => lone'[q]
  <2>1. CASE q = p
    <3>1. step'[p] = "dump" /\ doc'[p] = d /\ fd'[p] = tmp'
      BY <1>2, <1>3 DEF StoreIInv, StoreTyped
    <3>2. Advances(p)' BY <1>3, <1>5, <1>7, <3>1 DEF Advances
    <3>3. Store!Others(p)' = Store!Others(p)
      BY <1>3 DEF Store!Others, StoreIInv, StoreTyped
    <3>4. lone[p] => Undisturbed(p)' /\ Store!Torn' = Store!Torn
      BY <1>3, <1>7, <1>9, <3>1, <3>3 DEF StoreIInv, Undisturbed, Store!Torn, Store!Cold
    <3> QED BY <1>3, <2>1, <3>2, <3>4 DEF StoreIInv
  <2>2. CASE q # p
    <3>1. step'[q] = step[q] /\ doc'[q] = doc[q] /\ fd'[q] = fd[q]
      BY <1>2, <1>3, <2>2 DEF StoreIInv, StoreTyped
    <3>2. step[q] # "idle" => ~lone[q] /\ met BY <1>3, <2>2, OthersUndisturbed
    <3> QED BY <1>3, <3>1, <3>2 DEF StoreIInv, Advances
  <2> QED BY <2>1, <2>2
<1>11. path' # 0 /\ ~met' => Store!Published' # Store!Torn'
  BY <1>3, <1>9 DEF StoreIInv, Store!Torn, Store!Cold
<1> QED BY <1>3, <1>7, <1>8, <1>10, <1>11 DEF StoreIInv

\* A dump over nobody's bytes is the document.
LEMMA DumpKeeps == ASSUME StoreIInv, NEW p \in Process, Store!Dump(p) PROVE StoreIInv'
<1> DEFINE shared == files[fd[p]] # Store!Torn
                     \/ \E q \in Store!Others(p) : step[q] = "dump" /\ fd[q] = fd[p]
<1>1. PICK c \in {doc[p]} \cup (IF shared THEN {Store!Torn} ELSE {}) :
         files' = [files EXCEPT ![fd[p]] = c]
  BY DEF Store!Dump
<1>2. /\ step[p] = "dump" /\ step' = [step EXCEPT ![p] = "replace"]
      /\ path' = path /\ tmp' = tmp /\ base' = base /\ doc' = doc
      /\ fd' = fd /\ lone' = lone /\ met' = met
  BY DEF Store!Dump
<1>3. /\ files \in Seq(Docs) /\ Len(files) \in Nat /\ path \in 0 .. Len(files)
      /\ fd[p] \in 0 .. Len(files) /\ fd[p] # 0 /\ doc[p] \in Docs
  BY <1>2 DEF StoreIInv, StoreTyped, Advances
<1>4. fd[p] \in 1 .. Len(files) BY <1>3
<1>5. c \in Docs BY <1>1, <1>3, ColdIsDoc
<1>6. files' \in Seq(Docs) /\ Len(files') = Len(files)
      /\ \A i \in 1 .. Len(files) : files'[i] = IF i = fd[p] THEN c ELSE files[i]
  BY <1>1, <1>3, <1>4, <1>5, ExceptSeq
<1>7. StoreTyped' BY <1>2, <1>6 DEF StoreIInv, StoreTyped
<1>8. lone[p] => /\ c = doc[p] /\ fd[p] = tmp /\ Store!Published' = Store!Published
  <2>1. SUFFICES ASSUME lone[p]
                 PROVE  c = doc[p] /\ fd[p] = tmp /\ Store!Published' = Store!Published
    OBVIOUS
  <2>2. fd[p] = tmp /\ files[tmp] = Store!Torn /\ Store!Others(p) = {} /\ tmp # path
    BY <1>2, <1>3, <2>1 DEF StoreIInv, Undisturbed
  <2>3. ~shared BY <2>2
  <2>4. c = doc[p] BY <1>1, <2>3
  <2>5. Store!Published' = Store!Published
    <3>1. CASE path = 0 BY <1>2, <3>1 DEF Store!Published, Store!Cold
    <3>2. CASE path # 0
      <4>1. path \in 1 .. Len(files) BY <1>3, <3>2
      <4> QED BY <1>2, <1>6, <2>2, <3>2, <4>1 DEF Store!Published
    <3> QED BY <3>1, <3>2
  <2> QED BY <2>2, <2>4, <2>5
<1> HIDE DEF shared
<1>9. ASSUME NEW q \in Process
      PROVE  /\ step'[q] \in {"dump", "replace"} => Advances(q)'
             /\ step'[q] # "idle" /\ lone'[q] => Undisturbed(q)'
             /\ step'[q] # "idle" /\ ~met' => lone'[q]
  <2>1. CASE q = p
    <3>1. step'[p] = "replace" BY <1>2 DEF StoreIInv, StoreTyped
    <3>2. Advances(p)' BY <1>2 DEF Advances, StoreIInv
    <3>3. Store!Others(p)' = Store!Others(p)
      BY <1>2 DEF Store!Others, StoreIInv, StoreTyped
    <3>4. lone[p] => Undisturbed(p)'
      BY <1>2, <1>4, <1>6, <1>8, <3>1, <3>3 DEF StoreIInv, Undisturbed
    <3> QED BY <1>2, <2>1, <3>2, <3>4 DEF StoreIInv
  <2>2. CASE q # p
    <3>1. step'[q] = step[q] BY <1>2, <2>2 DEF StoreIInv, StoreTyped
    <3>2. step[q] # "idle" => ~lone[q] /\ met BY <1>2, <2>2, OthersUndisturbed
    <3> QED BY <1>2, <3>1, <3>2 DEF StoreIInv, Advances
  <2> QED BY <2>1, <2>2
<1>10. path' # 0 /\ ~met' => Store!Published' # Store!Torn'
  <2>1. ~met => lone[p] BY <1>2 DEF StoreIInv
  <2> QED BY <1>2, <1>8, <2>1 DEF StoreIInv, Store!Torn, Store!Cold
<1> QED BY <1>2, <1>7, <1>9, <1>10 DEF StoreIInv

\* A run that ends leaves the others as they are.
LEMMA LeavesOthers ==
    ASSUME StoreIInv, NEW p \in Process, step[p] # "idle", Store!Leave(p),
           lone' = lone, met' = met
    PROVE  \A q \in Process :
              /\ step'[q] \in {"dump", "replace"} => Advances(q)'
              /\ step'[q] # "idle" => ~lone'[q] /\ met'
<1>1. SUFFICES ASSUME NEW q \in Process
               PROVE  /\ step'[q] \in {"dump", "replace"} => Advances(q)'
                      /\ step'[q] # "idle" => ~lone'[q] /\ met'
  OBVIOUS
<1>2. /\ step' = [step EXCEPT ![p] = "idle"] /\ fd' = [fd EXCEPT ![p] = 0]
      /\ base' = [base EXCEPT ![p] = Store!Cold] /\ doc' = [doc EXCEPT ![p] = Store!Cold]
  BY DEF Store!Leave
<1>3. CASE q = p BY <1>2, <1>3 DEF StoreIInv, StoreTyped
<1>4. CASE q # p
  <2>1. step'[q] = step[q] /\ fd'[q] = fd[q] /\ base'[q] = base[q] /\ doc'[q] = doc[q]
    BY <1>2, <1>4 DEF StoreIInv, StoreTyped
  <2>2. step[q] # "idle" => ~lone[q] /\ met BY <1>4, OthersUndisturbed
  <2> QED BY <2>1, <2>2 DEF StoreIInv, Advances
<1> QED BY <1>3, <1>4

LEMMA LeaveTyped ==
    ASSUME StoreIInv, NEW p \in Process, Store!Leave(p), files' = files,
           path' \in 0 .. Len(files), tmp' \in 0 .. Len(files), lone' = lone, met' = met
    PROVE  StoreTyped'
<1>1. /\ step' = [step EXCEPT ![p] = "idle"] /\ fd' = [fd EXCEPT ![p] = 0]
      /\ base' = [base EXCEPT ![p] = Store!Cold] /\ doc' = [doc EXCEPT ![p] = Store!Cold]
  BY DEF Store!Leave
<1>2. Store!Cold \in Docs /\ Len(files) \in Nat BY ColdIsDoc DEF StoreIInv, StoreTyped
<1>3. fd' \in [Process -> 0 .. Len(files)] BY <1>1, <1>2 DEF StoreIInv, StoreTyped
<1> QED BY <1>1, <1>2, <1>3 DEF StoreIInv, StoreTyped

LEMMA DieKeeps == ASSUME StoreIInv, NEW p \in Process, Store!Die(p) PROVE StoreIInv'
<1>1. /\ step[p] # "idle" /\ Store!Leave(p)
      /\ path' = path /\ tmp' = tmp /\ files' = files /\ lone' = lone /\ met' = met
  BY DEF Store!Die
<1>2. StoreTyped' BY <1>1, LeaveTyped DEF StoreIInv, StoreTyped
<1>3. Store!Published' = Store!Published /\ Store!Torn' = Store!Torn
  BY <1>1 DEF Store!Published, Store!Cold, Store!Torn
<1> QED BY <1>1, <1>2, <1>3, LeavesOthers DEF StoreIInv

\* What a lone run publishes is what it saved.
LEMMA ReplacePublishes ==
    ASSUME StoreIInv, NEW p \in Process, Store!Replace(p), lone[p]
    PROVE  /\ path' # 0 /\ Store!Published' = doc[p]
           /\ Store!Published = base[p]
<1>1. /\ step[p] = "replace" /\ files' = files
      /\ IF tmp = 0 THEN UNCHANGED <<path, tmp>> ELSE path' = tmp /\ tmp' = 0
  BY DEF Store!Replace
<1>2. Advances(p) /\ Undisturbed(p) BY <1>1 DEF StoreIInv
<1>3. tmp # 0 /\ files[tmp] = doc[p] /\ Store!Published = base[p]
  BY <1>1, <1>2 DEF Advances, Undisturbed
<1> QED BY <1>1, <1>3 DEF Store!Published

LEMMA ReplaceKeeps == ASSUME StoreIInv, NEW p \in Process, Store!Replace(p) PROVE StoreIInv'
<1>1. /\ step[p] = "replace" /\ Store!Leave(p)
      /\ IF tmp = 0 THEN UNCHANGED <<path, tmp>> ELSE path' = tmp /\ tmp' = 0
      /\ files' = files /\ lone' = lone /\ met' = met
  BY DEF Store!Replace
<1>2. path' \in 0 .. Len(files) /\ tmp' \in 0 .. Len(files) /\ (tmp' # 0 => tmp' # path')
  BY <1>1 DEF StoreIInv, StoreTyped
<1>3. StoreTyped' BY <1>1, <1>2, LeaveTyped
<1>4. path' # 0 /\ ~met' => Store!Published' # Store!Torn'
  <2>1. SUFFICES ASSUME ~met PROVE Store!Published' # Store!Torn
    BY <1>1 DEF Store!Torn, Store!Cold
  <2>2. lone[p] /\ Advances(p) BY <1>1, <2>1 DEF StoreIInv
  <2>3. Store!Published' = doc[p] BY <2>2, ReplacePublishes
  <2>4. doc[p].learned_runs = base[p].learned_runs + 1 /\ base[p].learned_runs \in Nat
    BY <2>2 DEF Advances, StoreIInv, StoreTyped, Docs
  <2> QED BY <2>3, <2>4, ColdIsDoc
<1> QED BY <1>1, <1>2, <1>3, <1>4, LeavesOthers DEF StoreIInv

LEMMA StoreSteps == StoreIInv /\ Store!Next => StoreIInv'
BY LoadKeeps, OpenKeeps, DumpKeeps, ReplaceKeeps, DieKeeps DEF Store!Next

\* What the invariant says of the baseline.
LEMMA StoreSafe ==
    StoreIInv => Store!TypeOK /\ Store!CrashLeavesReadable /\ Store!LearnsNormalOnly
<1> SUFFICES ASSUME StoreIInv
             PROVE  Store!TypeOK /\ Store!CrashLeavesReadable /\ Store!LearnsNormalOnly
  OBVIOUS
<1>1. Store!CrashLeavesReadable BY DEF StoreIInv, Store!CrashLeavesReadable
<1>2. ASSUME NEW d \in Store!Documents
      PROVE  /\ d \in Docs /\ DOMAIN d.templates \subseteq Learnable
             /\ Store!Cardinality(DOMAIN d.templates) <= MaxTemplates
             /\ d.total >= Store!Total(d.templates)
  <2>1. d \in Docs BY DEF Store!Documents, StoreIInv, StoreTyped
  <2>2. DOMAIN d.templates \subseteq Learnable BY <2>1, TablesAre DEF Docs
  <2>3. Cardinality(DOMAIN d.templates) <= MaxTemplates /\ d.total >= Store!Total(d.templates)
    BY <2>1 DEF Docs
  <2> QED BY <2>1, <2>2, <2>3, StoreCardinality
<1>3. Store!TypeOK BY <1>2 DEF StoreIInv, StoreTyped, Store!TypeOK, Learnable
<1>4. Store!LearnsNormalOnly BY <1>2 DEF Store!LearnsNormalOnly, Learnable
<1> QED BY <1>1, <1>3, <1>4

\* What one step does that replaces what is published, by a run that no other
\* overlapped.
LEMMA StoreAdds ==
    ASSUME StoreIInv, Store!Next, NEW p \in Process,
           step[p] = "replace", step'[p] = "idle", path' # path, lone[p]
    PROVE  /\ Store!Published'.learned_runs = Store!Published.learned_runs + 1
           /\ Store!Published'.total >= Store!Published.total
<1>1. PICK q \in Process : Store!Load(q) \/ Store!OpenTmp(q) \/ Store!Dump(q)
                           \/ Store!Replace(q) \/ Store!Die(q)
  BY DEF Store!Next
<1>2. Store!Replace(q)
  BY <1>1 DEF Store!Load, Store!OpenTmp, Store!Dump, Store!Die
<1>3. q = p BY <1>2 DEF Store!Replace, Store!Leave, StoreIInv, StoreTyped
<1>4. Store!Published' = doc[p] /\ Store!Published = base[p] BY <1>2, <1>3, ReplacePublishes
<1>5. Advances(p) BY DEF StoreIInv
<1> QED BY <1>4, <1>5 DEF Advances

-----------------------------------------------------------------------------
(* The training buffer.                                                    *)

Buffers == [rows : Seq({0, 1}), dim : 0 .. 2, last_fit : 0 .. MaxRows]
Works == [rows : Seq({0, 1}), dim : 0 .. 2, last_fit : 0 .. MaxRows, new : Nat]

\* No refit of these rows is due.
Current(w) == Training!Fittable(w.rows) => Len(w.rows) < w.last_fit + RefitEvery

TrainingTyped ==
    /\ buffer \in Buffers /\ Len(buffer.rows) <= MaxRows
    /\ work \in Works /\ Len(work.rows) <= MaxRows
    /\ model \in {"none", "torn", "fitted"} /\ dim \in {1, 2}
    /\ stage \in {"idle", "fit", "bank", "close"} /\ unseen \in 0 .. Many
    /\ deaths \in Nat /\ full \in BOOLEAN /\ upgraded \in BOOLEAN

\* While all rows are kept and are of one shape, the rows since the last fit are
\* counted, in the buffer and with those that the run in progress adds; the
\* buffer is current, and so is what is about to be banked.
TrainingIInv ==
    /\ TrainingTyped
    /\ stage = "close" => buffer = Training!Empty
    /\ ~full /\ ~upgraded =>
          /\ dim = 1 /\ (buffer = Training!Empty \/ buffer.dim = 1)
          /\ unseen + buffer.last_fit <= Len(buffer.rows) \/ stage = "close"
          /\ Current(buffer)
          /\ stage # "idle" => unseen + work.new + work.last_fit <= Len(work.rows)
          /\ stage \in {"bank", "close"} => Current(work)
          /\ stage # "idle" => work.dim = 1

LEMMA EmptyIs ==
    /\ Training!Empty \in Buffers /\ Training!Empty.rows = <<>> /\ Training!Empty.last_fit = 0
    /\ Training!NoWork \in Works /\ Training!NoWork.rows = <<>>
    /\ Len(<<>>) = 0 /\ 0 <= MaxRows /\ Current(Training!Empty)
BY AnalysisAssumption DEF Training!Empty, Training!NoWork, Buffers, Works, Current

LEMMA TrainingStarts == Training!Init => TrainingIInv
<1> SUFFICES ASSUME Training!Init PROVE TrainingIInv
  OBVIOUS
<1>1. /\ buffer = Training!Empty /\ work = Training!NoWork /\ model = "none" /\ dim = 1
      /\ stage = "idle" /\ unseen = 0 /\ deaths = 0 /\ full = FALSE /\ upgraded = FALSE
  BY DEF Training!Init
<1>2. Len(buffer.rows) = 0 /\ Len(work.rows) = 0 /\ buffer.last_fit = 0 BY <1>1, EmptyIs
<1>3. TrainingTyped
  <2>1. buffer \in Buffers /\ work \in Works BY <1>1, EmptyIs
  <2>2. Len(buffer.rows) <= MaxRows /\ Len(work.rows) <= MaxRows BY <1>2, EmptyIs
  <2>3. 0 \in 0 .. Many /\ 0 \in Nat BY AnalysisAssumption
  <2> QED BY <1>1, <2>1, <2>2, <2>3 DEF TrainingTyped
<1>4. Current(buffer) BY <1>1, EmptyIs
<1> QED BY <1>1, <1>2, <1>3, <1>4 DEF TrainingIInv

\* The rows kept are the last ones.
LEMMA RecentIs ==
    ASSUME NEW s \in Seq({0, 1})
    PROVE  /\ Training!Recent(s) \in Seq({0, 1}) /\ Len(Training!Recent(s)) <= MaxRows
           /\ Len(s) <= MaxRows => Training!Recent(s) = s
<1>1. Len(s) \in Nat /\ MaxRows \in Nat BY AnalysisAssumption
<1>2. CASE Len(s) <= MaxRows BY <1>1, <1>2 DEF Training!Recent
<1>3. CASE ~(Len(s) <= MaxRows)
  <2> DEFINE m == Len(s) - MaxRows + 1
  <2>1. m \in 1 .. Len(s) + 1 /\ Len(s) \in Int BY <1>1, <1>3
  <2>2. \A i \in m .. Len(s) : s[i] \in {0, 1}
    <3>1. \A i \in m .. Len(s) : i \in 1 .. Len(s) BY <1>1, <2>1
    <3> QED BY <3>1
  <2>3. /\ SubSeq(s, m, Len(s)) \in Seq({0, 1})
        /\ Len(SubSeq(s, m, Len(s))) = IF m <= Len(s) THEN Len(s) - m + 1 ELSE 0
    BY <2>1, <2>2, SubSeqProperties
  <2> QED BY <1>1, <1>3, <2>3 DEF Training!Recent
<1> QED BY <1>2, <1>3

LEMMA RecordKeeps == ASSUME TrainingIInv, Training!Record PROVE TrainingIInv'
<1>1. PICK y \in Labels :
         LET all == IF buffer.dim = dim THEN buffer.rows \o y ELSE y
         IN  /\ work' = [rows |-> Training!Recent(all), dim |-> dim,
                          last_fit |-> buffer.last_fit, new |-> Len(y)]
             /\ full' = (full \/ Len(all) > MaxRows)
  BY DEF Training!Record
<1> DEFINE all == IF buffer.dim = dim THEN buffer.rows \o y ELSE y
<1>2. /\ stage = "idle" /\ stage' = IF Training!Due(work') THEN "fit" ELSE "bank"
      /\ buffer' = buffer /\ model' = model /\ dim' = dim /\ unseen' = unseen
      /\ deaths' = deaths /\ upgraded' = upgraded
  BY DEF Training!Record
<1>3. /\ y \in Seq({0, 1}) /\ Len(y) \in Nat /\ buffer.rows \in Seq({0, 1})
      /\ Len(buffer.rows) \in Nat /\ dim \in {1, 2} /\ buffer.last_fit \in 0 .. MaxRows
      /\ MaxRows \in Nat /\ RefitEvery \in Nat /\ unseen \in Nat
  BY AnalysisAssumption DEF TrainingIInv, TrainingTyped, Buffers
<1>4. all \in Seq({0, 1}) /\ Len(all) \in Nat BY <1>3
<1>5. work' = [rows |-> Training!Recent(all), dim |-> dim,
               last_fit |-> buffer.last_fit, new |-> Len(y)]
      /\ full' = (full \/ Len(all) > MaxRows)
  BY <1>1
<1>6. ASSUME ~upgraded, ~full
      PROVE  Len(all) = Len(buffer.rows) + Len(y)
  <2>1. CASE buffer.dim = dim BY <1>3, <2>1
  <2>2. CASE buffer.dim # dim
    <3>1. buffer.rows = <<>> BY <1>6, <2>2, EmptyIs DEF TrainingIInv
    <3> QED BY <1>3, <2>2, <3>1
  <2> QED BY <2>1, <2>2
<1> HIDE DEF all
<1>7. work' \in Works /\ Len(work'.rows) <= MaxRows /\ full' \in BOOLEAN
  BY <1>3, <1>4, <1>5, RecentIs DEF Works, TrainingIInv, TrainingTyped
<1>8. TrainingTyped' BY <1>2, <1>7 DEF TrainingIInv, TrainingTyped
<1>9. ASSUME ~full', ~upgraded'
      PROVE  /\ unseen' + work'.new + work'.last_fit <= Len(work'.rows) /\ work'.dim = 1
             /\ stage' = "bank" => Current(work)'
  <2>1. ~full /\ ~upgraded /\ Len(all) <= MaxRows
    <3>1. full' = (full \/ Len(all) > MaxRows) /\ ~full' BY <1>5, <1>9
    <3>2. ~full /\ ~(Len(all) > MaxRows) BY <3>1, Zenon
    <3> QED BY <1>2, <1>3, <1>4, <1>9, <3>2
  <2>2. work'.rows = all /\ Len(all) = Len(buffer.rows) + Len(y) /\ work'.new = Len(y)
        /\ work'.last_fit = buffer.last_fit /\ work'.dim = dim
    BY <1>4, <1>5, <1>6, <2>1, RecentIs
  <2>3. unseen + buffer.last_fit <= Len(buffer.rows) /\ dim = 1 BY <1>2, <2>1 DEF TrainingIInv
  <2>4. unseen' + work'.new + work'.last_fit <= Len(work'.rows) BY <1>2, <1>3, <2>2, <2>3
  <2>5. stage' = "bank" => Current(work)'
    <3>1. stage' = "bank" => ~Training!Due(work') BY <1>2
    <3>2. Training!Fittable(work'.rows) /\ ~Training!Due(work') => Len(work'.rows) < work'.last_fit + RefitEvery
      BY <1>3, <1>4, <2>2 DEF Training!Due
    <3> QED BY <3>1, <3>2 DEF Current, Training!Fittable, Training!OfClass
  <2> QED BY <2>2, <2>3, <2>4, <2>5
<1> QED
  BY <1>2, <1>5, <1>8, <1>9
     DEF TrainingIInv, Current, Training!Fittable, Training!OfClass, Training!Empty

LEMMA FitKeeps == ASSUME TrainingIInv, Training!Fit PROVE TrainingIInv'
<1>1. /\ stage = "fit" /\ model' = "fitted" /\ unseen' = 0 /\ stage' = "bank"
      /\ work' = [work EXCEPT !.last_fit = Len(work.rows), !.new = 0]
      /\ buffer' = buffer /\ dim' = dim /\ deaths' = deaths /\ full' = full
      /\ upgraded' = upgraded
  BY DEF Training!Fit
<1>2. /\ work \in Works /\ Len(work.rows) \in 0 .. MaxRows /\ MaxRows \in Nat
      /\ RefitEvery \in Nat \ {0} /\ Many \in Nat
      /\ unseen \in Nat /\ buffer.last_fit \in Nat /\ Len(buffer.rows) \in Nat
  BY AnalysisAssumption DEF TrainingIInv, TrainingTyped, Works, Buffers
<1>3. /\ work' \in Works /\ work'.rows = work.rows /\ work'.last_fit = Len(work.rows)
      /\ work'.new = 0 /\ work'.dim = work.dim
  BY <1>1, <1>2 DEF Works
<1>4. TrainingTyped' BY <1>1, <1>2, <1>3 DEF TrainingIInv, TrainingTyped
<1>5. Current(work)' BY <1>2, <1>3 DEF Current
<1> QED BY <1>1, <1>2, <1>3, <1>4, <1>5
        DEF TrainingIInv, Current, Training!Fittable, Training!OfClass, Training!Empty

LEMMA BankKeeps == ASSUME TrainingIInv, Training!Bank PROVE TrainingIInv'
<1>1. /\ stage = "bank" /\ buffer' = Training!Empty /\ stage' = "close"
      /\ model' = model /\ dim' = dim /\ work' = work /\ unseen' = unseen
      /\ deaths' = deaths /\ full' = full /\ upgraded' = upgraded
  BY DEF Training!Bank
<1>2. Len(buffer'.rows) = 0 /\ buffer' \in Buffers BY <1>1, EmptyIs
<1>3. TrainingTyped'
  BY <1>1, <1>2, AnalysisAssumption DEF TrainingIInv, TrainingTyped
<1>4. Current(buffer)'
  BY <1>1, EmptyIs DEF Current, Training!Fittable, Training!OfClass
<1> QED BY <1>1, <1>3, <1>4
        DEF TrainingIInv, Current, Training!Fittable, Training!OfClass, Training!Empty

LEMMA CloseKeeps == ASSUME TrainingIInv, Training!Close PROVE TrainingIInv'
<1>1. /\ stage = "close" /\ stage' = "idle" /\ work' = Training!NoWork
      /\ buffer' = [rows |-> work.rows, dim |-> work.dim, last_fit |-> work.last_fit]
      /\ unseen' = Training!Least(Many, unseen + work.new)
      /\ model' = model /\ dim' = dim /\ deaths' = deaths /\ full' = full
      /\ upgraded' = upgraded
  BY DEF Training!Close
<1>2. /\ work \in Works /\ Len(work.rows) \in 0 .. MaxRows /\ work.new \in Nat
      /\ unseen \in Nat /\ Many \in Nat /\ work.last_fit \in Nat
  BY AnalysisAssumption DEF TrainingIInv, TrainingTyped, Works
<1>3. unseen' \in 0 .. Many /\ unseen' <= unseen + work.new BY <1>1, <1>2 DEF Training!Least
<1>4. buffer' \in Buffers /\ buffer'.rows = work.rows /\ buffer'.last_fit = work.last_fit
      /\ buffer'.dim = work.dim
  BY <1>1, <1>2 DEF Works, Buffers
<1>5. work' \in Works /\ Len(work'.rows) <= MaxRows BY <1>1, EmptyIs
<1>6. TrainingTyped' BY <1>1, <1>2, <1>3, <1>4, <1>5 DEF TrainingIInv, TrainingTyped
<1>7. ASSUME ~full, ~upgraded
      PROVE  Current(buffer)' /\ buffer'.dim = 1 /\ unseen' + buffer'.last_fit <= Len(buffer'.rows)
  <2>1. Current(work) /\ work.dim = 1 /\ unseen + work.new + work.last_fit <= Len(work.rows)
    BY <1>1, <1>7 DEF TrainingIInv
  <2>2. unseen' + buffer'.last_fit <= Len(buffer'.rows) BY <1>2, <1>3, <1>4, <2>1
  <2> QED BY <1>4, <2>1, <2>2 DEF Current, Training!Fittable, Training!OfClass
<1> QED BY <1>1, <1>6, <1>7 DEF TrainingIInv

LEMMA DeathKeeps == ASSUME TrainingIInv, Training!Die PROVE TrainingIInv'
<1>1. /\ stage # "idle" /\ deaths' = deaths + 1
      /\ model' \in IF stage = "fit" THEN {model, "torn"} ELSE {model}
      /\ unseen' = IF stage = "close" THEN 0 ELSE unseen
      /\ work' = Training!NoWork /\ stage' = "idle"
      /\ buffer' = buffer /\ dim' = dim /\ full' = full /\ upgraded' = upgraded
  BY DEF Training!Die
<1>2. work' \in Works /\ Len(work'.rows) <= MaxRows BY <1>1, EmptyIs
<1>3. unseen' \in 0 .. Many BY <1>1, AnalysisAssumption DEF TrainingIInv, TrainingTyped
<1>4. TrainingTyped' BY <1>1, <1>2, <1>3 DEF TrainingIInv, TrainingTyped
<1>5. Current(buffer)' = Current(buffer)
  BY <1>1 DEF Current, Training!Fittable, Training!OfClass
<1>6. buffer.last_fit \in Nat /\ Len(buffer.rows) \in Nat /\ unseen \in Nat
  BY DEF TrainingIInv, TrainingTyped, Buffers
<1>7. ASSUME ~full, ~upgraded PROVE unseen' + buffer.last_fit <= Len(buffer.rows)
  <2>1. CASE stage = "close"
    <3>1. buffer = Training!Empty BY <2>1 DEF TrainingIInv
    <3>2. buffer.last_fit = 0 /\ Len(buffer.rows) = 0 BY <3>1, EmptyIs
    <3> QED BY <1>1, <2>1, <3>2
  <2>2. CASE stage # "close" BY <1>1, <1>6, <1>7, <2>2 DEF TrainingIInv
  <2> QED BY <2>1, <2>2
<1> QED BY <1>1, <1>4, <1>5, <1>7 DEF TrainingIInv, Training!Empty

LEMMA UpgradeKeeps == ASSUME TrainingIInv, Training!Upgrade PROVE TrainingIInv'
BY DEF Training!Upgrade, TrainingIInv, TrainingTyped

LEMMA TrainingSteps == TrainingIInv /\ Training!Next => TrainingIInv'
BY RecordKeeps, FitKeeps, BankKeeps, CloseKeeps, DeathKeeps, UpgradeKeeps DEF Training!Next

\* What the invariant says of the training.
LEMMA TrainingSafe == TrainingIInv => Training!TypeOK /\ Training!RefittedWhenDue
<1> SUFFICES ASSUME TrainingIInv PROVE Training!TypeOK /\ Training!RefittedWhenDue
  OBVIOUS
<1>1. Training!TypeOK BY DEF TrainingIInv, TrainingTyped, Training!TypeOK, Buffers, Works
<1>2. /\ RefitEvery \in Nat /\ unseen \in Nat /\ buffer.last_fit \in Nat
      /\ Len(buffer.rows) \in Nat
  BY AnalysisAssumption DEF TrainingIInv, TrainingTyped, Buffers
<1>3. Training!RefittedWhenDue
  BY <1>2 DEF TrainingIInv, Current, Training!RefittedWhenDue
<1> QED BY <1>1, <1>3
-----------------------------------------------------------------------------
(* The scores.                                                             *)

\* Groups of lines in a file of size lines, and what is known of them: their
\* place among the clusters and the baseline.
GroupsIn(size) ==
    {g \in [sev : 0 .. 7, count : Nat \ {0}, level : Nat, first : Nat \ {0}, last : Nat,
            head : Nat, burst : BOOLEAN] : g.first <= g.last /\ g.last <= size}
Clusters == [label : {"noise", "in", "none"}, size : Nat, outlier : BOOLEAN]
Known == [total : Nat, base : Nat]
Messages == [burst : BOOLEAN, cat : BOOLEAN, fail : BOOLEAN]

SignalSet ==
    [sev : 0 .. 7, count : Nat \ {0}, level : Nat, file : Nat \ {0}, place : Clusters,
     burst : BOOLEAN, flood : BOOLEAN, recurring : BOOLEAN, rare : BOOLEAN, span : 0 .. 100,
     novel : BOOLEAN, surge : BOOLEAN, chronic : BOOLEAN, history : Int]

\* The terms of a score that are not sums of numbers.
Flooding(s) == 3500 + (2500 * s.count) \div s.file
Recurs(s) == 200 + (2500 * s.count * (100 - s.span)) \div (100 * (s.count + 8))

LEMMA QuotientIs ==
    ASSUME NEW a \in Nat, NEW d \in Nat, d > 0
    PROVE  /\ a \div d \in Nat
           /\ \A q \in Nat : a <= q * d => a \div d <= q
<1>1. a \div d \in Nat OBVIOUS
<1>2. a = d * (a \div d) + (a % d) /\ a % d \in 0 .. d - 1 OBVIOUS
<1>3. ASSUME NEW q \in Nat, a <= q * d PROVE a \div d <= q
  <2> DEFINE r == a \div d
  <2>1. r \in Nat /\ a >= d * r BY <1>1, <1>2
  <2> HIDE DEF r
  <2>2. SUFFICES ASSUME r >= q + 1 PROVE FALSE BY <2>1 DEF r
  <2>3. d * r >= d * (q + 1) BY <2>1, <2>2
  <2>4. d * (q + 1) = q * d + d OBVIOUS
  <2> QED BY <1>3, <2>1, <2>3, <2>4
<1> QED BY <1>1, <1>3

LEMMA PolicyMax ==
    ASSUME NEW a \in Int, NEW b \in Int
    PROVE  /\ Policy!Max({a, b}) = IF a >= b THEN a ELSE b
           /\ Policy!Min({a, b}) = IF a <= b THEN a ELSE b
<1>1. Policy!Max({a, b}) = CHOOSE x \in {a, b} : \A y \in {a, b} : x >= y BY DEF Policy!Max
<1>2. Policy!Min({a, b}) = CHOOSE x \in {a, b} : \A y \in {a, b} : x =< y BY DEF Policy!Min
<1>3. \E x \in {a, b} : \A y \in {a, b} : x >= y
  <2>1. CASE a >= b BY <2>1
  <2>2. CASE ~(a >= b) BY <2>2
  <2> QED BY <2>1, <2>2
<1>4. \E x \in {a, b} : \A y \in {a, b} : x =< y
  <2>1. CASE a <= b BY <2>1
  <2>2. CASE ~(a <= b) BY <2>2
  <2> QED BY <2>1, <2>2
<1> QED BY <1>1, <1>2, <1>3, <1>4

LEMMA PolicyMaxOfThree ==
    ASSUME NEW a \in Nat, NEW b \in Nat, NEW c \in Nat
    PROVE  Policy!Max({a, b, c}) \in Nat
<1>1. Policy!Max({a, b, c}) = CHOOSE x \in {a, b, c} : \A y \in {a, b, c} : x >= y
  BY DEF Policy!Max
<1>2. \E x \in {a, b, c} : \A y \in {a, b, c} : x >= y
  <2>1. CASE a >= b /\ a >= c BY <2>1
  <2>2. CASE b >= a /\ b >= c BY <2>2
  <2>3. CASE c >= a /\ c >= b BY <2>3
  <2> QED BY <2>1, <2>2, <2>3
<1> QED BY <1>1, <1>2

LEMMA SpanIs ==
    ASSUME NEW size \in Nat \ {0}, NEW g \in GroupsIn(size)
    PROVE  Policy!Span(g, size) \in 0 .. 100
<1> DEFINE d == Policy!Max({1, size - 1})
           a == 100 * (g.last - g.first)
<1>1. d = IF 1 >= size - 1 THEN 1 ELSE size - 1 BY PolicyMax
<1>2. g.last \in Nat /\ g.first \in Nat /\ g.first >= 1 /\ g.first <= g.last /\ g.last <= size
  BY DEF GroupsIn
<1>3. d \in Nat /\ d > 0 BY <1>1
<1>4. a \in Nat /\ a <= 100 * d BY <1>1, <1>2
<1>5. a \div d \in Nat /\ a \div d <= 100
  <2> HIDE DEF a, d
  <2> QED BY <1>3, <1>4, QuotientIs
<1>6. Policy!Span(g, size) = a \div d BY DEF Policy!Span
<1> QED BY <1>5, <1>6

LEMMA SignalsAre ==
    ASSUME NEW size \in Nat \ {0}, NEW g \in GroupsIn(size), NEW b \in Known,
           NEW place \in Clusters
    PROVE  Policy!SignalsOf(g, size, b, place) \in SignalSet
<1>1. /\ g.sev \in 0 .. 7 /\ g.count \in Nat \ {0} /\ g.level \in Nat /\ g.burst \in BOOLEAN
      /\ g.head \in Nat
  BY DEF GroupsIn
<1>2. Policy!Span(g, size) \in 0 .. 100 BY SpanIs
<1>3. Policy!History(g) \in Int
  <2>1. 100 * g.head \in Nat /\ g.count \in Nat /\ g.count > 0 BY <1>1
  <2> QED BY <2>1, QuotientIs DEF Policy!History
<1>4. /\ Policy!Flood(g, size) \in BOOLEAN /\ Policy!Recurring(g, size, b) \in BOOLEAN
      /\ Policy!GlobalRare(g, size) \in BOOLEAN /\ Policy!Novel(b) \in BOOLEAN
      /\ Policy!Surges(g, size, b) \in BOOLEAN /\ Policy!Chronic(g, size) \in BOOLEAN
  BY DEF Policy!Flood, Policy!Recurring, Policy!GlobalRare, Policy!Novel, Policy!Surges,
         Policy!Chronic
<1>5. (IF g.count > 1 THEN Policy!Span(g, size) ELSE 0) \in 0 .. 100 BY <1>2
<1> QED BY <1>1, <1>3, <1>4, <1>5, Zenon DEF Policy!SignalsOf, SignalSet

\* A level scores less than a worse one, and the damping for history is at most
\* 45 percent.
LEMMA BaseIs ==
    ASSUME NEW s \in SignalSet
    PROVE  /\ Policy!Base(s) \in Nat
           /\ s.sev <= 1 => Policy!Base(s) = 10000
<1> DEFINE r == Policy!Routine(s)
<1>1. /\ s.sev \in 0 .. 7 /\ s.chronic \in BOOLEAN /\ s.history \in Int BY DEF SignalSet
<1>2. r \in 0 .. 100
  <2> DEFINE x == (100 * (s.history - 25)) \div 75
  <2>1. x \in Int BY <1>1
  <2>2. Policy!Max({0, x}) = IF 0 >= x THEN 0 ELSE x
    <3> HIDE DEF x
    <3> QED BY <2>1, PolicyMax
  <2> DEFINE y == Policy!Max({0, x})
  <2>3. y \in Int /\ y >= 0
    <3> HIDE DEF x
    <3> QED BY <2>1, <2>2
  <2>4. Policy!Min({100, y}) = IF 100 <= y THEN 100 ELSE y
    <3> HIDE DEF y
    <3> QED BY <2>3, PolicyMax
  <2>5. r = Policy!Min({100, y}) \/ r = 0 BY DEF Policy!Routine
  <2> HIDE DEF y, r
  <2> QED BY <2>3, <2>4, <2>5
<1>3. Policy!SeverityBase(s.sev) \in Nat /\ (s.sev <= 1 => Policy!SeverityBase(s.sev) = 10000)
  BY <1>1 DEF Policy!SeverityBase
<1>4. Policy!Damped(s, Policy!SeverityBase(s.sev)) \in Nat
  <2> DEFINE v == Policy!SeverityBase(s.sev)
  <2> HIDE DEF v
  <2> QED BY <1>1, <1>3 DEF Policy!Damped, v
<1>5. CASE s.sev <= 1 BY <1>3, <1>5 DEF Policy!Base
<1>6. CASE ~(s.sev <= 1)
  <2> DEFINE v == Policy!Damped(s, Policy!SeverityBase(s.sev))
             k == 10000 - 45 * r
  <2>1. k \in Nat BY <1>2
  <2>2. Policy!Base(s) = (v * k) \div 10000 BY <1>6 DEF Policy!Base
  <2>3. v \in Nat BY <1>4
  <2> HIDE DEF v, k
  <2>4. v * k \in Nat BY <2>1, <2>3
  <2> QED BY <1>6, <2>2, <2>4, QuotientIs
<1> QED BY <1>5, <1>6

LEMMA BaseOrdered ==
    ASSUME NEW s \in SignalSet, NEW t \in SignalSet, s.sev = t.sev + 1,
           ~s.chronic, ~t.chronic, s.count = t.count, s.span = t.span, s.history = t.history
    PROVE  Policy!Base(s) <= Policy!Base(t)
<1> DEFINE R(x) == Policy!Routine(x)
           q == Policy!Min({100, Policy!Max({0, (100 * (s.history - 25)) \div 75})})
<1>1. /\ s.sev \in 0 .. 7 /\ s.chronic \in BOOLEAN /\ s.history \in Int BY DEF SignalSet
<1>2. t.sev \in 0 .. 6 /\ t.chronic \in BOOLEAN BY <1>1 DEF SignalSet
<1>3. q \in 0 .. 100
  <2> DEFINE x == (100 * (s.history - 25)) \div 75
  <2>1. x \in Int BY <1>1
  <2>2. Policy!Max({0, x}) = IF 0 >= x THEN 0 ELSE x
    <3> HIDE DEF x
    <3> QED BY <2>1, PolicyMax
  <2> DEFINE y == Policy!Max({0, x})
  <2>3. y \in Int /\ y >= 0
    <3> HIDE DEF x
    <3> QED BY <2>1, <2>2
  <2>4. Policy!Min({100, y}) = IF 100 <= y THEN 100 ELSE y
    <3> HIDE DEF y
    <3> QED BY <2>3, PolicyMax
  <2>5. q = Policy!Min({100, y}) OBVIOUS
  <2> HIDE DEF y, q
  <2> QED BY <2>3, <2>4, <2>5
<1>4. /\ s.sev \in 3 .. 4 => R(s) = IF s.count >= 5 /\ s.span >= 40 THEN q ELSE 0
      /\ t.sev \in 3 .. 4 => R(t) = IF s.count >= 5 /\ s.span >= 40 THEN q ELSE 0
      /\ s.sev \notin 3 .. 4 => R(s) = 0
      /\ t.sev \notin 3 .. 4 => R(t) = 0
  BY DEF Policy!Routine
<1>5. /\ Policy!Damped(s, Policy!SeverityBase(s.sev)) = Policy!SeverityBase(s.sev)
      /\ Policy!Damped(t, Policy!SeverityBase(t.sev)) = Policy!SeverityBase(t.sev)
  BY DEF Policy!Damped
<1>6. /\ s.sev > 1 => Policy!Base(s) = (Policy!SeverityBase(s.sev) * (10000 - 45 * R(s))) \div 10000
      /\ t.sev > 1 => Policy!Base(t) = (Policy!SeverityBase(t.sev) * (10000 - 45 * R(t))) \div 10000
      /\ s.sev <= 1 => Policy!Base(s) = Policy!SeverityBase(s.sev)
      /\ t.sev <= 1 => Policy!Base(t) = Policy!SeverityBase(t.sev)
  BY <1>1, <1>2, <1>5 DEF Policy!Base
<1> HIDE DEF R, q
<1>7. CASE t.sev = 0 BY <1>6, <1>7 DEF Policy!SeverityBase
<1>8. CASE t.sev = 1
  <2>1. Policy!Base(t) = 10000 /\ R(s) = 0 BY <1>4, <1>6, <1>8 DEF Policy!SeverityBase
  <2>2. Policy!SeverityBase(s.sev) = 7000 BY <1>8 DEF Policy!SeverityBase
  <2> QED BY <1>6, <1>8, <2>1, <2>2
<1>9. CASE t.sev = 2
  <2>1. R(t) = 0 /\ R(s) \in 0 .. 100 BY <1>3, <1>4, <1>9
  <2>2. Policy!SeverityBase(t.sev) = 7000 /\ Policy!SeverityBase(s.sev) = 5500
    BY <1>9 DEF Policy!SeverityBase
  <2> QED BY <1>6, <1>9, <2>1, <2>2
<1>10. CASE t.sev = 3
  <2>1. R(t) = R(s) /\ R(s) \in 0 .. 100 BY <1>3, <1>4, <1>10
  <2>2. Policy!SeverityBase(t.sev) = 5500 /\ Policy!SeverityBase(s.sev) = 4200
    BY <1>10 DEF Policy!SeverityBase
  <2> QED BY <1>6, <1>10, <2>1, <2>2
<1>11. CASE t.sev = 4
  <2>1. R(t) \in 0 .. 100 /\ R(s) = 0 BY <1>3, <1>4, <1>11
  <2>2. Policy!SeverityBase(t.sev) = 4200 /\ Policy!SeverityBase(s.sev) = 800
    BY <1>11 DEF Policy!SeverityBase
  <2> QED BY <1>6, <1>11, <2>1, <2>2
<1>12. CASE t.sev \in 5 .. 6
  <2>1. R(t) = 0 /\ R(s) = 0 BY <1>4, <1>12
  <2>2. Policy!SeverityBase(t.sev) \in {800, 0} /\ Policy!SeverityBase(s.sev) = 0
    BY <1>12 DEF Policy!SeverityBase
  <2> QED BY <1>6, <1>12, <2>1, <2>2
<1> QED BY <1>2, <1>7, <1>8, <1>9, <1>10, <1>11, <1>12

\* How rare lines are is a number, and halved where they are mild.
LEMMA RarityIs ==
    ASSUME NEW s \in SignalSet
    PROVE  /\ Policy!RarityAt(s.place, s.level, s.count) \in Nat
           /\ Policy!Rarity(s) =
                 Policy!Damped(s, IF s.sev >= 5 /\ ~s.place.outlier /\ s.place.label # "none"
                                  THEN Policy!RarityAt(s.place, s.level, s.count) \div 2
                                  ELSE Policy!RarityAt(s.place, s.level, s.count))
<1> DEFINE turbo   == s.place.label = "none"
           few     == Policy!Max({3, ((IF turbo THEN 1 ELSE 2) * s.level) \div 100})
           Rare(c) == 4500 + 3000 - (3000 * c) \div (few + 1)
           byPlace == CASE s.place.label = "noise" -> 7500
                        [] s.place.label = "in" /\ s.place.size <= few -> Rare(s.place.size)
                        [] turbo /\ s.count <= few -> Rare(s.count)
                        [] OTHER -> 0
           outlier == IF s.place.outlier THEN 5500 ELSE 0
           seldom  == IF s.count <= Policy!Max({2, (5 * s.level) \div 1000}) THEN 4000 ELSE 0
           rarity  == Policy!Max({byPlace, outlier, seldom})
<1>1. /\ s.level \in Nat /\ s.count \in Nat /\ s.place.size \in Nat
      /\ s.place.label \in {"noise", "in", "none"}
  BY DEF SignalSet, Clusters
<1>2. few \in Nat /\ few >= 3
  <2> DEFINE y == ((IF turbo THEN 1 ELSE 2) * s.level) \div 100
  <2>1. y \in Nat BY <1>1
  <2>2. few = Policy!Max({3, y}) OBVIOUS
  <2> HIDE DEF y, few
  <2> QED BY <2>1, <2>2, PolicyMax
<1>3. ASSUME NEW c \in Nat, c <= few PROVE Rare(c) \in Nat
  <2> DEFINE a == 3000 * c
             d == few + 1
  <2>1. a \in Nat /\ d \in Nat /\ d > 0 /\ a <= 3000 * d
    <3> HIDE DEF few
    <3> QED BY <1>2, <1>3
  <2>2. a \div d \in Nat /\ a \div d <= 3000
    <3> HIDE DEF a, d
    <3> QED BY <2>1, QuotientIs
  <2>3. Rare(c) = 7500 - a \div d
    <3> HIDE DEF few
    <3> QED BY <1>2, <1>3
  <2> HIDE DEF a, d, Rare
  <2> QED BY <2>2, <2>3
<1>4. byPlace \in Nat
  <2> HIDE DEF few, Rare
  <2> QED BY <1>1, <1>3
<1>5. outlier \in Nat /\ seldom \in Nat OBVIOUS
<1>6. rarity \in Nat
  <2> HIDE DEF byPlace, outlier, seldom
  <2> QED BY <1>4, <1>5, PolicyMaxOfThree
<1>7. Policy!RarityAt(s.place, s.level, s.count) = rarity BY DEF Policy!RarityAt
<1>8. Policy!RarityAt(s.place, s.level, s.count) \in Nat
  <2> HIDE DEF rarity
  <2> QED BY <1>6, <1>7
<1> QED BY <1>8, Zenon DEF Policy!Rarity

LEMMA RarityIsNat == ASSUME NEW s \in SignalSet PROVE Policy!Rarity(s) \in Nat
<1> DEFINE x == Policy!RarityAt(s.place, s.level, s.count)
           y == IF s.sev >= 5 /\ ~s.place.outlier /\ s.place.label # "none" THEN x \div 2 ELSE x
<1>1. x \in Nat BY RarityIs
<1>2. y \in Nat
  <2> HIDE DEF x
  <2> QED BY <1>1
<1>3. Policy!Rarity(s) = Policy!Damped(s, y) BY RarityIs
<1> HIDE DEF y
<1> QED BY <1>2, <1>3 DEF Policy!Damped

LEMMA RarityOrdered ==
    ASSUME NEW s \in SignalSet, NEW t \in SignalSet, s.sev = t.sev + 1, ~s.chronic, ~t.chronic,
           s.place = t.place, s.level = t.level, s.count = t.count
    PROVE  Policy!Rarity(s) <= Policy!Rarity(t)
<1> DEFINE x == Policy!RarityAt(s.place, s.level, s.count)
           halved == ~s.place.outlier /\ s.place.label # "none"
<1>1. x \in Nat BY RarityIs
<1>2. Policy!Rarity(s) = IF s.sev >= 5 /\ halved THEN x \div 2 ELSE x
  BY RarityIs, Zenon DEF Policy!Damped
<1>3. Policy!Rarity(t) = IF t.sev >= 5 /\ halved THEN x \div 2 ELSE x
  <2>1. Policy!Rarity(t) =
           IF t.sev >= 5 /\ ~t.place.outlier /\ t.place.label # "none"
           THEN Policy!RarityAt(t.place, t.level, t.count) \div 2 ELSE Policy!RarityAt(t.place, t.level, t.count)
    BY RarityIs, Zenon DEF Policy!Damped
  <2> QED BY <2>1, Zenon
<1>4. t.sev \in 0 .. 7 BY DEF SignalSet
<1>5. halved \in BOOLEAN OBVIOUS
<1> HIDE DEF x, halved
<1> QED BY <1>1, <1>2, <1>3, <1>4, <1>5

LEMMA TermsAre ==
    ASSUME NEW s \in SignalSet
    PROVE  Flooding(s) \in Nat /\ Recurs(s) \in Nat
<1>1. s.count \in Nat /\ s.file \in Nat /\ s.file > 0 /\ s.span \in 0 .. 100 BY DEF SignalSet
<1> DEFINE a == 2500 * s.count
           c == 100 - s.span
           d == 100 * (s.count + 8)
<1>2. a \in Nat /\ c \in Nat /\ d \in Nat /\ d > 0 BY <1>1
<1>3. Flooding(s) = 3500 + a \div s.file BY DEF Flooding
<1>4. Recurs(s) = 200 + (a * c) \div d BY DEF Recurs
<1> HIDE DEF a, c, d
<1>5. a * c \in Nat BY <1>2
<1>6. a \div s.file \in Nat /\ (a * c) \div d \in Nat BY <1>1, <1>2, <1>5, QuotientIs
<1> QED BY <1>3, <1>4, <1>6

\* A score is a sum of what is never negative.
LEMMA ScoreIs ==
    ASSUME NEW s \in SignalSet, NEW m \in Messages
    PROVE  /\ Policy!Score(s, m) =
                 Policy!Base(s) + Policy!Rarity(s)
                 + (IF s.rare /\ s.sev <= 4 /\ ~s.chronic THEN 1800 ELSE 0)
                 + (IF s.burst THEN 5000 ELSE 0)
                 + (IF s.flood THEN Flooding(s) ELSE 0)
                 + (IF s.recurring /\ ~s.chronic THEN Recurs(s) ELSE 0)
                 + (IF s.sev <= 4 /\ ~s.chronic
                    THEN (IF m.cat THEN 2000 ELSE 0) + (IF m.fail THEN 2200 ELSE 0) ELSE 0)
                 + (IF s.novel /\ s.sev <= 4 THEN 3500 ELSE 0)
                 + (IF ~s.novel /\ s.surge /\ s.sev <= 4 THEN 3000 ELSE 0)
           /\ Policy!Base(s) \in Nat /\ Policy!Rarity(s) \in Nat
           /\ Flooding(s) \in Nat /\ Recurs(s) \in Nat
<1>1. /\ Policy!Base(s) \in Nat /\ Policy!Rarity(s) \in Nat
      /\ Flooding(s) \in Nat /\ Recurs(s) \in Nat
  BY BaseIs, RarityIsNat, TermsAre
<1>2. Policy!Words(s, m) = IF s.sev <= 4 /\ ~s.chronic
                           THEN (IF m.cat THEN 2000 ELSE 0) + (IF m.fail THEN 2200 ELSE 0) ELSE 0
  BY DEF Policy!Words, Policy!If
<1>3. Policy!Score(s, m) =
        Policy!Base(s) + Policy!Rarity(s)
        + Policy!If(s.rare /\ s.sev <= 4 /\ ~s.chronic, 1800)
        + Policy!If(s.burst, 5000)
        + Policy!If(s.flood, Flooding(s))
        + Policy!If(s.recurring /\ ~s.chronic, Recurs(s))
        + Policy!Words(s, m)
        + Policy!If(s.novel /\ s.sev <= 4, 3500) + Policy!If(~s.novel /\ s.surge /\ s.sev <= 4, 3000)
  BY Zenon DEF Policy!Score, Flooding, Recurs
<1>4. Policy!Score(s, m) =
        Policy!Base(s) + Policy!Rarity(s)
        + (IF s.rare /\ s.sev <= 4 /\ ~s.chronic THEN 1800 ELSE 0)
        + (IF s.burst THEN 5000 ELSE 0)
        + (IF s.flood THEN Flooding(s) ELSE 0)
        + (IF s.recurring /\ ~s.chronic THEN Recurs(s) ELSE 0)
        + Policy!Words(s, m)
        + (IF s.novel /\ s.sev <= 4 THEN 3500 ELSE 0)
        + (IF ~s.novel /\ s.surge /\ s.sev <= 4 THEN 3000 ELSE 0)
  BY <1>3, Zenon DEF Policy!If
<1> QED BY <1>1, <1>2, <1>4

\* The score of a line is that of its group's signals, with the line's burst.
LEMMA LineSignals ==
    ASSUME NEW s \in SignalSet, NEW m \in Messages
    PROVE  /\ [s EXCEPT !.burst = m.burst] \in SignalSet
           /\ Policy!LineScore(s, m) = Policy!Score([s EXCEPT !.burst = m.burst], m)
<1>1. m.burst \in BOOLEAN BY DEF Messages
<1>2. [s EXCEPT !.burst = m.burst] \in SignalSet BY <1>1 DEF SignalSet
<1> QED BY <1>2 DEF Policy!LineScore

\* Two lines with one key have one score, so that the first one stands for all.
LEMMA KeyDecidesScore ==
    ASSUME NEW s, NEW a, NEW b, Policy!CacheKey(s, a) = Policy!CacheKey(s, b)
    PROVE  Policy!LineScore(s, a) = Policy!LineScore(s, b)
<1>1. a.burst = b.burst BY DEF Policy!CacheKey
<1> DEFINE t == [s EXCEPT !.burst = a.burst]
<1>2. t = [s EXCEPT !.burst = b.burst] BY <1>1
<1>3. Policy!Words(t, a) = Policy!Words(t, b)
  <2>1. CASE s.sev <= 4 /\ ~s.chronic
    <3>1. a.cat = b.cat /\ a.fail = b.fail BY <2>1 DEF Policy!CacheKey
    <3> QED BY <3>1 DEF Policy!Words
  <2>2. CASE ~(s.sev <= 4 /\ ~s.chronic)
    <3>1. t.sev = s.sev /\ t.chronic = s.chronic OBVIOUS
    <3> QED BY <2>2, <3>1 DEF Policy!Words
  <2> QED BY <2>1, <2>2
<1> HIDE DEF t
<1>4. Policy!Score(t, a) = Policy!Score(t, b) BY <1>3, Zenon DEF Policy!Score
<1> QED BY <1>2, <1>4 DEF Policy!LineScore, t

\* With the cache of _score_entries every line of every group has the score that
\* the policy gives to this line: the key holds all that a score depends on.
THEOREM CacheAlwaysTransparent ==
    ASSUME NEW s, NEW lines, DOMAIN lines \subseteq Nat \ {0}
    PROVE  Policy!CacheTransparent(s, lines)
<1> DEFINE Matching(i) == {j \in 1 .. i : Policy!CacheKey(s, lines[j]) = Policy!CacheKey(s, lines[i])}
<1>1. ASSUME NEW i \in DOMAIN lines
      PROVE  Policy!LineScore(s, lines[Policy!Min(Matching(i))]) = Policy!LineScore(s, lines[i])
  <2>1. i \in Nat /\ i \in Matching(i) BY <1>1
  <2>2. Matching(i) \subseteq Nat BY <2>1
  <2>3. Policy!Min(Matching(i)) = CHOOSE x \in Matching(i) : \A y \in Matching(i) : x =< y
    BY DEF Policy!Min
  <2>4. \E x \in Matching(i) : \A y \in Matching(i) : x =< y
    <3> HIDE DEF Matching
    <3> QED BY <2>1, <2>2, LeastNumber
  <2>5. Policy!Min(Matching(i)) \in Matching(i)
    <3> HIDE DEF Matching
    <3> QED BY <2>3, <2>4
  <2>6. Policy!CacheKey(s, lines[Policy!Min(Matching(i))]) = Policy!CacheKey(s, lines[i]) BY <2>5
  <2> QED BY <2>6, KeyDecidesScore
<1>2. Policy!ScoreEntries(s, lines)
        = [i \in DOMAIN lines |-> Policy!LineScore(s, lines[Policy!Min(Matching(i))])]
  BY Zenon DEF Policy!ScoreEntries
<1> HIDE DEF Matching
<1> QED BY <1>1, <1>2, Zenon DEF Policy!CacheTransparent

\* A line of the two hardest levels scores at least every threshold (score), however
\* common, old or known to the baseline its template is and wherever it lies.
THEOREM HardAlwaysFlagged ==
    ASSUME NEW size \in Nat \ {0}, NEW g \in GroupsIn(size), NEW b \in Known,
           NEW place \in Clusters
    PROVE  Policy!HardFlagged(g, size, b, place)
<1> SUFFICES ASSUME g.sev <= 1,
                    NEW m \in [burst : {g.burst}, cat : BOOLEAN, fail : BOOLEAN],
                    NEW t \in Policy!Thresholds
             PROVE  Policy!LineScore(Policy!SignalsOf(g, size, b, place), m) >= t
  BY Zenon DEF Policy!HardFlagged
<1> DEFINE s == Policy!SignalsOf(g, size, b, place)
           r == [s EXCEPT !.burst = m.burst]
<1>1. s \in SignalSet BY SignalsAre
<1>2. s.sev <= 1 BY DEF Policy!SignalsOf
<1> HIDE DEF s
<1>3. g.burst \in BOOLEAN BY DEF GroupsIn
<1>4. m \in Messages BY <1>3 DEF Messages
<1>5. r \in SignalSet /\ Policy!LineScore(s, m) = Policy!Score(r, m) BY <1>1, <1>4, LineSignals
<1>6. r.sev <= 1 BY <1>1, <1>2 DEF SignalSet
<1> HIDE DEF r
<1>7. Policy!Base(r) = 10000 BY <1>5, <1>6, BaseIs
<1>8. Policy!Score(r, m) >= 10000
  <2> DEFINE fl == Flooding(r)
             rc == Recurs(r)
             ra == Policy!Rarity(r)
  <2>1. fl \in Nat /\ rc \in Nat /\ ra \in Nat BY <1>5, <1>4, ScoreIs
  <2>2. Policy!Score(r, m) =
                 10000 + ra
                 + (IF r.rare /\ r.sev <= 4 /\ ~r.chronic THEN 1800 ELSE 0)
                 + (IF r.burst THEN 5000 ELSE 0)
                 + (IF r.flood THEN fl ELSE 0)
                 + (IF r.recurring /\ ~r.chronic THEN rc ELSE 0)
                 + (IF r.sev <= 4 /\ ~r.chronic
                    THEN (IF m.cat THEN 2000 ELSE 0) + (IF m.fail THEN 2200 ELSE 0) ELSE 0)
                 + (IF r.novel /\ r.sev <= 4 THEN 3500 ELSE 0)
                 + (IF ~r.novel /\ r.surge /\ r.sev <= 4 THEN 3000 ELSE 0)
    BY <1>4, <1>5, <1>7, ScoreIs
  <2> HIDE DEF fl, rc, ra
  <2> QED BY <2>1, <2>2
<1>9. t \in Nat /\ t <= 10000 BY DEF Policy!Thresholds
<1>10. Policy!Score(r, m) \in Int
  <2>1. Policy!Base(r) \in Nat /\ Policy!Rarity(r) \in Nat /\ Flooding(r) \in Nat
        /\ Recurs(r) \in Nat
    BY <1>4, <1>5, ScoreIs
  <2> QED BY <1>4, <1>5, <2>1, ScoreIs
<1> QED BY <1>5, <1>8, <1>9, <1>10 DEF s

\* Signals that say no less do not score less.
LEMMA ScoreOrdered ==
    ASSUME NEW s \in SignalSet, NEW t \in SignalSet, NEW m \in Messages,
           Policy!Base(s) <= Policy!Base(t), Policy!Rarity(s) <= Policy!Rarity(t),
           s.sev <= 4 => t.sev <= 4, s.chronic = t.chronic, s.burst = t.burst, s.rare = t.rare,
           s.flood => t.flood, Flooding(s) = Flooding(t),
           s.recurring => t.recurring, Recurs(s) = Recurs(t),
           s.novel => t.novel, s.surge => t.surge \/ t.novel
    PROVE  Policy!Score(s, m) <= Policy!Score(t, m)
<1> DEFINE R(x) == IF x.rare /\ x.sev <= 4 /\ ~x.chronic THEN 1800 ELSE 0
           B(x) == IF x.burst THEN 5000 ELSE 0
           F(x) == IF x.flood THEN Flooding(x) ELSE 0
           C(x) == IF x.recurring /\ ~x.chronic THEN Recurs(x) ELSE 0
           W(x) == IF x.sev <= 4 /\ ~x.chronic
                   THEN (IF m.cat THEN 2000 ELSE 0) + (IF m.fail THEN 2200 ELSE 0) ELSE 0
           N(x) == IF x.novel /\ x.sev <= 4 THEN 3500 ELSE 0
           S(x) == IF ~x.novel /\ x.surge /\ x.sev <= 4 THEN 3000 ELSE 0
<1>1. /\ Flooding(t) \in Nat /\ Recurs(t) \in Nat
      /\ Policy!Base(s) \in Nat /\ Policy!Rarity(s) \in Nat
      /\ Policy!Base(t) \in Nat /\ Policy!Rarity(t) \in Nat
  BY ScoreIs
<1>2. /\ s.sev \in 0 .. 7 /\ t.sev \in 0 .. 7 BY DEF SignalSet
<1>3. R(s) \in Nat /\ R(t) \in Nat /\ R(s) <= R(t) OBVIOUS
<1>4. B(s) \in Nat /\ B(t) = B(s) OBVIOUS
<1>5. F(s) \in Nat /\ F(t) \in Nat /\ F(s) <= F(t) BY <1>1
<1>6. C(s) \in Nat /\ C(t) \in Nat /\ C(s) <= C(t) BY <1>1
<1>7. W(s) \in Nat /\ W(t) \in Nat /\ W(s) <= W(t) OBVIOUS
<1>8. N(s) + S(s) \in Nat /\ N(t) + S(t) \in Nat /\ N(s) + S(s) <= N(t) + S(t) OBVIOUS
<1>9. N(s) \in Nat /\ S(s) \in Nat /\ N(t) \in Nat /\ S(t) \in Nat OBVIOUS
<1>10. /\ Policy!Score(s, m) = Policy!Base(s) + Policy!Rarity(s) + R(s) + B(s) + F(s) + C(s)
                               + W(s) + N(s) + S(s)
       /\ Policy!Score(t, m) = Policy!Base(t) + Policy!Rarity(t) + R(t) + B(t) + F(t) + C(t)
                               + W(t) + N(t) + S(t)
  BY ScoreIs
<1> HIDE DEF R, B, F, C, W, N, S
<1> QED BY <1>1, <1>3, <1>4, <1>5, <1>6, <1>7, <1>8, <1>9, <1>10

\* All else the same, a worse level never scores less (score), in every file, with
\* every baseline, unless the template is damped as chronic.
THEOREM WorseLevelNeverLower ==
    ASSUME NEW size \in Nat \ {0}, NEW g \in GroupsIn(size), NEW b \in Known,
           NEW place \in Clusters
    PROVE  Policy!WorseLevelNotLower(g, size, b, place)
<1> DEFINE At(sev) == Policy!SignalsOf([g EXCEPT !.sev = sev], size, b, place)
<1> SUFFICES ASSUME NEW m \in Messages, NEW sev \in 1 .. 7,
                    ~At(sev).chronic, ~At(sev - 1).chronic
             PROVE  Policy!LineScore(At(sev), m) <= Policy!LineScore(At(sev - 1), m)
  BY Zenon DEF Policy!WorseLevelNotLower, Messages
<1> DEFINE u == [g EXCEPT !.sev = sev]
           v == [g EXCEPT !.sev = sev - 1]
           s == [Policy!SignalsOf(u, size, b, place) EXCEPT !.burst = m.burst]
           t == [Policy!SignalsOf(v, size, b, place) EXCEPT !.burst = m.burst]
<1>1. sev - 1 \in 0 .. 7 OBVIOUS
<1>2. u \in GroupsIn(size) /\ v \in GroupsIn(size) BY <1>1 DEF GroupsIn
<1>3. /\ u.sev = v.sev + 1 /\ u.count = v.count /\ u.level = v.level /\ u.first = v.first
      /\ u.last = v.last /\ u.head = v.head /\ v.sev \in 0 .. 6 /\ u.sev \in 1 .. 7
      /\ v.count \in Nat
  BY <1>1 DEF GroupsIn
<1> HIDE DEF u, v
<1>4. /\ Policy!SignalsOf(u, size, b, place) \in SignalSet
      /\ Policy!SignalsOf(v, size, b, place) \in SignalSet
  BY <1>2, SignalsAre
<1>5. /\ s \in SignalSet /\ t \in SignalSet
      /\ Policy!LineScore(Policy!SignalsOf(u, size, b, place), m) = Policy!Score(s, m)
      /\ Policy!LineScore(Policy!SignalsOf(v, size, b, place), m) = Policy!Score(t, m)
  BY <1>4, LineSignals
<1>6. /\ Policy!Span(u, size) = Policy!Span(v, size) /\ Policy!History(u) = Policy!History(v)
      /\ Policy!GlobalRare(u, size) = Policy!GlobalRare(v, size)
      /\ Policy!Surges(u, size, b) = Policy!Surges(v, size, b)
  BY <1>3, Zenon DEF Policy!Span, Policy!History, Policy!GlobalRare, Policy!Surges
<1>7. (u.sev <= 4 => v.sev <= 4) BY <1>3
<1>8. /\ Policy!Flood(u, size) => Policy!Flood(v, size)
      /\ Policy!Recurring(u, size, b) => Policy!Recurring(v, size, b)
  BY <1>3, <1>6, <1>7, Zenon DEF Policy!Flood, Policy!Recurring
<1>9. ~Policy!Chronic(u, size) /\ ~Policy!Chronic(v, size)
  BY DEF Policy!SignalsOf, u, v
<1>10. /\ s.sev = u.sev /\ t.sev = v.sev /\ s.count = u.count /\ t.count = v.count
       /\ s.level = u.level /\ t.level = v.level /\ s.file = size /\ t.file = size
       /\ s.place = place /\ t.place = place /\ s.burst = m.burst /\ t.burst = m.burst
       /\ s.flood = Policy!Flood(u, size) /\ t.flood = Policy!Flood(v, size)
       /\ s.recurring = Policy!Recurring(u, size, b)
       /\ t.recurring = Policy!Recurring(v, size, b)
       /\ s.rare = Policy!GlobalRare(u, size) /\ t.rare = Policy!GlobalRare(v, size)
       /\ s.span = (IF u.count > 1 THEN Policy!Span(u, size) ELSE 0)
       /\ t.span = (IF v.count > 1 THEN Policy!Span(v, size) ELSE 0)
       /\ s.novel = Policy!Novel(b) /\ t.novel = Policy!Novel(b)
       /\ s.surge = Policy!Surges(u, size, b) /\ t.surge = Policy!Surges(v, size, b)
       /\ s.chronic = Policy!Chronic(u, size) /\ t.chronic = Policy!Chronic(v, size)
       /\ s.history = Policy!History(u) /\ t.history = Policy!History(v)
  BY DEF Policy!SignalsOf
<1>11. s.chronic \in BOOLEAN /\ t.chronic \in BOOLEAN BY <1>5 DEF SignalSet
<1> HIDE DEF s, t
<1>12. Policy!Base(s) <= Policy!Base(t)
  BY <1>3, <1>5, <1>6, <1>9, <1>10, BaseOrdered
<1>13. Policy!Rarity(s) <= Policy!Rarity(t)
  BY <1>3, <1>5, <1>9, <1>10, RarityOrdered
<1>14. Flooding(s) = Flooding(t) /\ Recurs(s) = Recurs(t)
  <2>1. s.count = t.count /\ s.file = t.file /\ s.span = t.span BY <1>3, <1>6, <1>10
  <2> QED BY <2>1 DEF Flooding, Recurs
<1>15. s.chronic = t.chronic BY <1>9, <1>10, <1>11
<1>16. Policy!Score(s, m) <= Policy!Score(t, m)
  BY <1>5, <1>6, <1>7, <1>8, <1>10, <1>12, <1>13, <1>14, <1>15, ScoreOrdered
<1> QED BY <1>5, <1>16 DEF u, v

\* What is known of a template only matters to whether it recurs, is new or surges.
LEMMA KnownMatters ==
    ASSUME NEW size \in Nat \ {0}, NEW g \in GroupsIn(size), NEW place \in Clusters,
           NEW m \in Messages, NEW b \in Known, NEW c \in Known,
           Policy!Recurring(g, size, b) => Policy!Recurring(g, size, c),
           Policy!Novel(b) => Policy!Novel(c),
           Policy!Surges(g, size, b) => Policy!Surges(g, size, c) \/ Policy!Novel(c)
    PROVE  Policy!LineScore(Policy!SignalsOf(g, size, b, place), m)
              <= Policy!LineScore(Policy!SignalsOf(g, size, c, place), m)
<1> DEFINE s == [Policy!SignalsOf(g, size, b, place) EXCEPT !.burst = m.burst]
           t == [Policy!SignalsOf(g, size, c, place) EXCEPT !.burst = m.burst]
<1>1. /\ Policy!SignalsOf(g, size, b, place) \in SignalSet
      /\ Policy!SignalsOf(g, size, c, place) \in SignalSet
  BY SignalsAre
<1>2. /\ s \in SignalSet /\ t \in SignalSet
      /\ Policy!LineScore(Policy!SignalsOf(g, size, b, place), m) = Policy!Score(s, m)
      /\ Policy!LineScore(Policy!SignalsOf(g, size, c, place), m) = Policy!Score(t, m)
  BY <1>1, LineSignals
<1>3. /\ s.sev = t.sev /\ s.count = t.count /\ s.level = t.level /\ s.file = t.file
      /\ s.place = t.place /\ s.burst = t.burst /\ s.flood = t.flood /\ s.rare = t.rare
      /\ s.span = t.span /\ s.chronic = t.chronic /\ s.history = t.history
      /\ s.recurring = Policy!Recurring(g, size, b)
      /\ t.recurring = Policy!Recurring(g, size, c)
      /\ s.novel = Policy!Novel(b) /\ t.novel = Policy!Novel(c)
      /\ s.surge = Policy!Surges(g, size, b) /\ t.surge = Policy!Surges(g, size, c)
  BY DEF Policy!SignalsOf
<1> HIDE DEF s, t
<1>4. Policy!Routine(s) = Policy!Routine(t) BY <1>3, Zenon DEF Policy!Routine
<1>5. \A x : Policy!Damped(s, x) = Policy!Damped(t, x) BY <1>3, Zenon DEF Policy!Damped
<1>6. Policy!Base(s) = Policy!Base(t)
  <2> DEFINE x == Policy!SeverityBase(s.sev)
             y == Policy!Damped(s, x)
             z == Policy!Routine(s)
  <2>1. Policy!Base(s) = IF s.sev <= 1 THEN x ELSE (y * (10000 - 45 * z)) \div 10000
    BY Zenon DEF Policy!Base
  <2>2. Policy!SeverityBase(t.sev) = x BY <1>3
  <2>3. Policy!Damped(t, x) = y BY <1>5
  <2>4. Policy!Base(t) = IF s.sev <= 1 THEN x ELSE (y * (10000 - 45 * z)) \div 10000
    <3>1. Policy!Base(t) = IF t.sev <= 1 THEN Policy!SeverityBase(t.sev)
                           ELSE (Policy!Damped(t, Policy!SeverityBase(t.sev))
                                 * (10000 - 45 * Policy!Routine(t))) \div 10000
      BY Zenon DEF Policy!Base
    <3>2. Policy!Damped(t, Policy!SeverityBase(t.sev)) = y BY <2>2, <2>3
    <3>3. Policy!Routine(t) = z /\ t.sev = s.sev BY <1>3, <1>4
    <3> HIDE DEF x, y, z
    <3> QED BY <2>2, <3>1, <3>2, <3>3
  <2> QED BY <2>1, <2>4
<1>7. Policy!Rarity(s) = Policy!Rarity(t)
  <2> DEFINE x == Policy!RarityAt(s.place, s.level, s.count)
             y == IF s.sev >= 5 /\ ~s.place.outlier /\ s.place.label # "none"
                  THEN x \div 2 ELSE x
  <2>1. Policy!Rarity(s) = Policy!Damped(s, y) BY <1>2, RarityIs
  <2>2. Policy!Rarity(t) = Policy!Damped(t, y)
    <3>1. Policy!Rarity(t) =
             Policy!Damped(t, IF t.sev >= 5 /\ ~t.place.outlier /\ t.place.label # "none"
                              THEN Policy!RarityAt(t.place, t.level, t.count) \div 2
                              ELSE Policy!RarityAt(t.place, t.level, t.count))
      BY <1>2, RarityIs
    <3> QED BY <1>3, <3>1, Zenon
  <2> QED BY <1>5, <2>1, <2>2
<1>8. Flooding(s) = Flooding(t) /\ Recurs(s) = Recurs(t) BY <1>3 DEF Flooding, Recurs
<1>9. Policy!Base(s) \in Nat /\ Policy!Rarity(s) \in Nat BY <1>2, ScoreIs
<1>10. Policy!Score(s, m) <= Policy!Score(t, m)
  BY <1>2, <1>3, <1>6, <1>7, <1>8, <1>9, ScoreOrdered
<1> QED BY <1>2, <1>10

\* A baseline that knows a template at the rate it still has never makes one of its
\* lines score higher than no baseline, and one that does not know it never lower
\* (detect), for every file and group.
THEOREM BaselineAlwaysQuiets ==
    ASSUME NEW size \in Nat \ {0}, NEW g \in GroupsIn(size), NEW place \in Clusters,
           NEW k \in Nat \ {0}
    PROVE  Policy!BaselineQuiets(g, size, k, place)
<1> DEFINE said == [burst |-> g.burst, cat |-> FALSE, fail |-> FALSE]
           nothing == [total |-> 0, base |-> 0]
           same == [total |-> size \div k, base |-> g.count \div k]
           novel == [total |-> size, base |-> 0]
           With(b) == Policy!LineScore(Policy!SignalsOf(g, size, b, place), said)
<1>1. g.burst \in BOOLEAN /\ g.count \in Nat /\ g.count > 0 BY DEF GroupsIn
<1>2. said \in Messages BY <1>1 DEF Messages
<1>3. nothing \in Known /\ novel \in Known BY DEF Known
<1>4. ASSUME g.count % k = 0, size % k = 0 PROVE With(same) <= With(nothing)
  <2> DEFINE c == g.count \div k
             f == size \div k
  <2>1. c \in Nat /\ f \in Nat BY <1>1, QuotientIs
  <2>2. g.count = k * c /\ size = k * f BY <1>1, <1>4
  <2> HIDE DEF c, f
  <2>3. c > 0 /\ f > 0
    <3>1. k * 0 = 0 OBVIOUS
    <3> QED BY <1>1, <2>1, <2>2, <3>1
  <2>4. same.total = f /\ same.base = c /\ same \in Known
    <3>1. f \in Nat /\ c \in Nat BY <2>1
    <3> QED BY <3>1 DEF Known, f, c
  <2>5. ~Policy!Novel(same) BY <2>1, <2>3, <2>4 DEF Policy!Novel
  <2>6. ~Policy!Surges(g, size, same)
    <3> DEFINE p == k * (c * f)
    <3>1. c * f \in Nat BY <2>1
    <3>2. p \in Nat
      <4> DEFINE e == c * f
      <4>1. e \in Nat BY <3>1
      <4> HIDE DEF e
      <4>2. k * e \in Nat BY <4>1
      <4> QED BY <4>2 DEF e
    <3>3. g.count * same.total = p
      <4>1. (k * c) * f = k * (c * f) BY <2>1
      <4> QED BY <2>2, <2>4, <4>1
    <3>4. 10 * same.base * size = 10 * p
      <4>1. (10 * c) * (k * f) = 10 * (k * (c * f)) BY <2>1
      <4> QED BY <2>2, <2>4, <4>1
    <3> HIDE DEF p, same
    <3> QED BY <3>2, <3>3, <3>4 DEF Policy!Surges
  <2>7. ~Policy!Recurring(g, size, same) BY <2>1, <2>3, <2>4, <2>6 DEF Policy!Recurring
  <2> HIDE DEF same, nothing, said
  <2> QED BY <1>2, <1>3, <2>4, <2>5, <2>6, <2>7, KnownMatters
<1>5. With(nothing) <= With(novel)
  <2>1. Policy!Novel(novel) BY DEF Policy!Novel
  <2>2. Policy!Recurring(g, size, nothing) => Policy!Recurring(g, size, novel)
    BY Zenon DEF Policy!Recurring
  <2>3. ~Policy!Novel(nothing) /\ ~Policy!Surges(g, size, nothing)
    BY DEF Policy!Novel, Policy!Surges
  <2> HIDE DEF nothing, novel, said
  <2> QED BY <1>2, <1>3, <2>1, <2>2, <2>3, KnownMatters
<1>6. With(novel) \in Nat /\ With(nothing) \in Nat
  <2>1. ASSUME NEW b \in Known PROVE With(b) \in Nat
    <3> DEFINE s == Policy!SignalsOf(g, size, b, place)
    <3>1. s \in SignalSet BY SignalsAre
    <3> HIDE DEF s
    <3>2. [s EXCEPT !.burst = said.burst] \in SignalSet
          /\ Policy!LineScore(s, said) = Policy!Score([s EXCEPT !.burst = said.burst], said)
      BY <1>2, <3>1, LineSignals
    <3> DEFINE r == [s EXCEPT !.burst = said.burst]
    <3>3. r \in SignalSet BY <3>2
    <3> HIDE DEF r, said
    <3>4. Policy!Score(r, said) \in Nat
      <4>1. /\ Policy!Base(r) \in Nat /\ Policy!Rarity(r) \in Nat
            /\ Flooding(r) \in Nat /\ Recurs(r) \in Nat
        BY <1>2, <3>3, ScoreIs
      <4> QED BY <1>2, <3>3, <4>1, ScoreIs
    <3> QED BY <3>2, <3>4 DEF r, s
  <2> QED BY <1>3, <2>1
<1>7. With(novel) >= With(nothing)
  <2> HIDE DEF With
  <2> QED BY <1>5, <1>6
<1> HIDE DEF With
<1> QED BY <1>4, <1>7 DEF Policy!BaselineQuiets, With

\* The inputs that are checked are among those.
LEMMA GroupedAre == Grouped \subseteq [group : GroupsIn(Total), baseline : Known, place : Clusters]
<1>1. ASSUME NEW g \in Groups PROVE g \in GroupsIn(Total)
  <2>1. g \in [sev : 0 .. 7, count : Nat \ {0}, level : Nat, first : Nat \ {0}, last : Nat,
               head : Nat, burst : BOOLEAN]
    BY DEF Groups
  <2>2. g.first <= g.last /\ g.last <= Total BY DEF Groups, Total
  <2> QED BY <2>1, <2>2 DEF GroupsIn
<1>2. ASSUME NEW b \in Baselines PROVE b \in Known BY DEF Baselines, Known
<1>3. ASSUME NEW p \in Neighbourhoods PROVE p \in Clusters BY DEF Neighbourhoods, Clusters
<1> QED BY <1>1, <1>2, <1>3, Zenon DEF Grouped

LEMMA CachedAre == \A c \in Cached : DOMAIN c.messages \subseteq Nat \ {0}
<1> SUFFICES ASSUME NEW c \in Cached PROVE DOMAIN c.messages \subseteq Nat \ {0}
  OBVIOUS
<1> DEFINE M == [burst : BOOLEAN, cat : BOOLEAN, fail : BOOLEAN]
<1>1. c.messages \in UpTo(2, M) BY DEF Cached
<1>2. PICK m \in 0 .. 2 : c.messages \in [1 .. m -> M] BY <1>1, Zenon DEF UpTo
<1> QED BY <1>2

LEMMA ScoringHolds ==
    ASSUME input \in Inputs(part)
    PROVE  CacheTransparent /\ HardFlagged /\ WorseLevelNotLower /\ BaselineQuiets
<1>1. Total \in Nat \ {0} BY DEF Total
<1>2. CacheTransparent
  <2> SUFFICES ASSUME part = "cached" PROVE Policy!CacheTransparent(input.signals, input.messages)
    BY DEF CacheTransparent
  <2>1. input \in Cached BY DEF Inputs
  <2> QED BY <2>1, CachedAre, CacheAlwaysTransparent
<1>3. ASSUME part = "grouped"
      PROVE  input.group \in GroupsIn(Total) /\ input.baseline \in Known /\ input.place \in Clusters
  <2>1. input \in Grouped BY <1>3 DEF Inputs
  <2> QED BY <2>1, GroupedAre
<1>4. HardFlagged BY <1>1, <1>3, HardAlwaysFlagged DEF HardFlagged
<1>5. WorseLevelNotLower BY <1>1, <1>3, WorseLevelNeverLower DEF WorseLevelNotLower
<1>6. BaselineQuiets
  <2>1. \A k \in {4, 20} : k \in Nat \ {0} OBVIOUS
  <2> QED BY <1>1, <1>3, <2>1, BaselineAlwaysQuiets DEF BaselineQuiets
<1> QED BY <1>2, <1>4, <1>5, <1>6

-----------------------------------------------------------------------------
(* The detectors.                                                          *)

\* Without bounds on the sizes of their arguments the detectors count, pick the
\* greatest and divide; these are the facts about that which their laws rest on.

LEMMA DetectCardinality == \A S : /\ Detect!Cardinality(S) = Cardinality(S)
                                  /\ Fuse!Cardinality(S) = Cardinality(S)
BY Zenon DEF Detect!Cardinality, Fuse!Cardinality, Cardinality

\* A finite set of numbers has a greatest one.
LEMMA GreatestElement ==
    ASSUME NEW S, IsFiniteSet(S), S \subseteq Int, S # {}
    PROVE  \E x \in S : \A y \in S : x >= y
<1> DEFINE Above(x) == {y \in S : y > x}
           Tallies == {Cardinality(Above(x)) : x \in S}
<1>1. \A x \in S : IsFiniteSet(Above(x)) /\ Cardinality(Above(x)) \in Nat
  BY FS_Subset, FS_CardinalityType
<1>2. Tallies \subseteq Nat /\ Tallies # {} BY <1>1
<1>3. PICK k \in Tallies : \A j \in Tallies : k <= j
  <2> HIDE DEF Tallies
  <2> QED BY <1>2, LeastNumber
<1>4. PICK x \in S : k = Cardinality(Above(x)) BY <1>3
<1>5. ASSUME NEW y \in S, ~(x >= y) PROVE FALSE
  <2>1. y > x BY <1>5
  <2>2. Above(y) \in SUBSET Above(x) /\ y \in Above(x) /\ y \notin Above(y)
    <3>1. x \in Int /\ y \in Int /\ \A z \in S : z \in Int OBVIOUS
    <3>2. ~(y > y) BY <3>1
    <3>3. \A z \in S : z > y => z > x BY <2>1, <3>1
    <3> QED BY <2>1, <3>2, <3>3
  <2>3. Cardinality(Above(y)) \in Tallies OBVIOUS
  <2> HIDE DEF Above
  <2>4. Cardinality(Above(y)) < Cardinality(Above(x)) BY <1>1, <2>2, FS_Subset
  <2> HIDE DEF Tallies
  <2> QED BY <1>1, <1>3, <1>4, <2>3, <2>4
<1> QED BY <1>5

\* What the library's Max and Min give.
LEMMA MaxIs ==
    ASSUME NEW S, IsFiniteSet(S), S \subseteq Int, S # {}
    PROVE  Detect!Max(S) \in S /\ \A y \in S : y <= Detect!Max(S)
<1>1. PICK x \in S : \A y \in S : x >= y BY GreatestElement
<1>2. Detect!Max(S) = CHOOSE z \in S : \A y \in S : z >= y BY Zenon DEF Detect!Max
<1>3. Detect!Max(S) \in S /\ \A y \in S : Detect!Max(S) >= y BY <1>1, <1>2, Zenon
<1> QED BY <1>3

LEMMA MaxOfTwo ==
    ASSUME NEW a \in Int, NEW b \in Int
    PROVE  /\ Detect!Max({a, b}) = IF a >= b THEN a ELSE b
           /\ Detect!Min({a, b}) = IF a <= b THEN a ELSE b
<1>1. Detect!Max({a, b}) = CHOOSE x \in {a, b} : \A y \in {a, b} : x >= y BY DEF Detect!Max
<1>2. Detect!Min({a, b}) = CHOOSE x \in {a, b} : \A y \in {a, b} : x =< y BY DEF Detect!Min
<1>3. \E x \in {a, b} : \A y \in {a, b} : x >= y
  <2>1. CASE a >= b BY <2>1
  <2>2. CASE ~(a >= b) BY <2>2
  <2> QED BY <2>1, <2>2
<1>4. \E x \in {a, b} : \A y \in {a, b} : x =< y
  <2>1. CASE a <= b BY <2>1
  <2>2. CASE ~(a <= b) BY <2>2
  <2> QED BY <2>1, <2>2
<1> QED BY <1>1, <1>2, <1>3, <1>4

\* The module of the fusion has the same operators.
LEMMA FuseIsDetect ==
    /\ \A S : Fuse!Max(S) = Detect!Max(S) /\ Fuse!Min(S) = Detect!Min(S)
    /\ \A f : Fuse!TwiceMedian(f) = Detect!TwiceMedian(f)
<1>1. \A S : Fuse!Max(S) = Detect!Max(S) BY Zenon DEF Fuse!Max, Detect!Max
<1>2. \A S : Fuse!Min(S) = Detect!Min(S) BY Zenon DEF Fuse!Min, Detect!Min
<1>3. \A f : Fuse!TwiceMedian(f) = Detect!TwiceMedian(f)
  BY <1>2, DetectCardinality, Zenon DEF Fuse!TwiceMedian, Detect!TwiceMedian
<1> QED BY <1>1, <1>2, <1>3

\* The values of a function on a finite set are finitely many.
LEMMA ValuesAreFinite ==
    ASSUME NEW S, IsFiniteSet(S), NEW f
    PROVE  IsFiniteSet({f[x] : x \in S}) /\ Cardinality({f[x] : x \in S}) <= Cardinality(S)
<1> DEFINE T == {f[x] : x \in S}
           g == [x \in S |-> f[x]]
<1>1. g \in Surjection(S, T) BY DEF Surjection
<1> HIDE DEF g, T
<1>2. IsFiniteSet(T) /\ Cardinality(T) <= Cardinality(S) BY <1>1, FS_Surjection
<1> QED BY <1>2 DEF T

\* Quotients are ordered as what is divided.
LEMMA QuotientOrdered ==
    ASSUME NEW a \in Nat, NEW b \in Nat, NEW d \in Nat, d > 0, a <= b
    PROVE  a \div d <= b \div d
<1> DEFINE q == b \div d
<1>1. q \in Nat /\ b = d * q + (b % d) /\ b % d \in 0 .. d - 1 OBVIOUS
<1> HIDE DEF q
<1>2. a <= d * q + (d - 1) BY <1>1
<1> DEFINE r == a \div d
<1>3. r \in Nat /\ d * r <= a BY QuotientIs
<1> HIDE DEF r
<1>4. SUFFICES ASSUME r >= q + 1 PROVE FALSE BY <1>1, <1>3 DEF q, r
<1>5. d * r >= d * (q + 1) BY <1>1, <1>3, <1>4
<1>6. d * (q + 1) = d * q + d BY <1>1
<1> QED BY <1>1, <1>2, <1>3, <1>5, <1>6

\* The floor is never below the threshold.
LEMMA FloorReaches ==
    ASSUME NEW flag_at \in Int
    PROVE  Detect!Floor(flag_at) \in Int /\ Detect!Floor(flag_at) >= flag_at
<1>1. Detect!Max({flag_at, 70}) = IF flag_at >= 70 THEN flag_at ELSE 70 BY MaxOfTwo
<1> QED BY <1>1 DEF Detect!Floor

\* The lines that the backstop lifts: severe, with a rare template of their own.
SeldomIn(lines, t, rare) ==
    Detect!Cardinality(Detect!Where(lines, LAMBDA e : e.template = t)) <= rare
FlooredAt(lines, i, Near, rare, flag_at) ==
    /\ lines[i].score < flag_at /\ lines[i].sev <= 3
    /\ SeldomIn(lines, lines[i].template, rare) /\ lines[i].template \notin Near

\* A line keeps its score at the backstop or is lifted to the floor.
LEMMA BackstopIs ==
    ASSUME NEW lines, NEW Near, NEW rare, NEW flag_at \in Int, NEW i \in DOMAIN lines,
           lines[i].score \in Int
    PROVE  /\ DOMAIN Detect!Backstop(lines, Near, rare, flag_at) = DOMAIN lines
           /\ FlooredAt(lines, i, Near, rare, flag_at) =>
                 /\ Detect!Backstop(lines, Near, rare, flag_at)[i] \in Int
                 /\ Detect!Backstop(lines, Near, rare, flag_at)[i] >= flag_at
                 /\ Detect!Backstop(lines, Near, rare, flag_at)[i] >= lines[i].score
           /\ ~FlooredAt(lines, i, Near, rare, flag_at) =>
                 Detect!Backstop(lines, Near, rare, flag_at)[i] = lines[i].score
<1> DEFINE out == Detect!Backstop(lines, Near, rare, flag_at)
           floor == Detect!Floor(flag_at)
<1>1. DOMAIN out = DOMAIN lines BY DEF Detect!Backstop
<1>2. out[i] = IF FlooredAt(lines, i, Near, rare, flag_at)
               THEN Detect!Max({lines[i].score, floor}) ELSE lines[i].score
  BY Zenon DEF Detect!Backstop, FlooredAt, SeldomIn
<1>3. floor \in Int /\ floor >= flag_at BY FloorReaches
<1>4. Detect!Max({lines[i].score, floor}) = IF lines[i].score >= floor THEN lines[i].score ELSE floor
  <2> HIDE DEF floor
  <2> QED BY <1>3, MaxOfTwo
<1> HIDE DEF out, floor
<1>5. FlooredAt(lines, i, Near, rare, flag_at) =>
         out[i] \in Int /\ out[i] >= flag_at /\ out[i] >= lines[i].score
  BY <1>2, <1>3, <1>4
<1>6. ~FlooredAt(lines, i, Near, rare, flag_at) => out[i] = lines[i].score BY <1>2
<1> QED BY <1>1, <1>5, <1>6 DEF out

\* A severe line with a rare template unlike the common ones is flagged whatever it
\* scored, at every threshold (safety_floor).
THEOREM RareSevereAlwaysSurfaced ==
    ASSUME NEW lines, \A i \in DOMAIN lines : lines[i].score \in Int,
           NEW Near, NEW rare, NEW flag_at \in Int
    PROVE  Detect!RareSevereSurfaced(lines, Near, rare, flag_at)
<1> DEFINE out == Detect!Backstop(lines, Near, rare, flag_at)
<1>1. ASSUME NEW i \in DOMAIN lines, lines[i].sev <= 3, lines[i].template \notin Near,
             SeldomIn(lines, lines[i].template, rare)
      PROVE  i \in DOMAIN out /\ out[i] >= flag_at
  <2>1. lines[i].score \in Int OBVIOUS
  <2>2. CASE lines[i].score < flag_at
    <3>1. FlooredAt(lines, i, Near, rare, flag_at) BY <1>1, <2>2 DEF FlooredAt
    <3> QED BY <2>1, <3>1, BackstopIs
  <2>3. CASE ~(lines[i].score < flag_at)
    <3>1. ~FlooredAt(lines, i, Near, rare, flag_at) BY <2>3 DEF FlooredAt
    <3>2. i \in DOMAIN out /\ out[i] = lines[i].score BY <2>1, <3>1, BackstopIs
    <3> QED BY <2>1, <2>3, <3>2
  <2> QED BY <2>2, <2>3
<1>2. Detect!Flagged(out, flag_at) = {i \in DOMAIN out : out[i] >= flag_at}
  BY DEF Detect!Flagged, Detect!Where
<1> HIDE DEF out
<1>3. \A i \in DOMAIN lines :
         /\ lines[i].sev <= 3 /\ lines[i].template \notin Near
         /\ SeldomIn(lines, lines[i].template, rare)
         => i \in Detect!Flagged(out, flag_at)
  BY <1>1, <1>2
<1> QED BY <1>3, Zenon DEF out, Detect!RareSevereSurfaced, SeldomIn

\* What a line scores in company: the same or more.
LEMMA CooccurrenceIs ==
    ASSUME NEW lines, NEW bins, NEW i \in DOMAIN lines, lines[i].score \in Int
    PROVE  LET out    == Detect!Cooccurrence(lines, bins)
               P      == Detect!Partners(lines, bins, Detect!BinOf(i, Len(lines), bins))
               lifted == /\ Len(lines) >= 6
                         /\ lines[i].template \in P /\ Detect!Cardinality(P) >= 2
                         /\ lines[i].score >= 40 /\ lines[i].score < 100
           IN  /\ DOMAIN out = DOMAIN lines
               /\ out[i] = IF ~lifted THEN lines[i].score
                           ELSE IF lines[i].score >= 70 THEN 100 ELSE lines[i].score + 30
<1> DEFINE out == Detect!Cooccurrence(lines, bins)
           P == Detect!Partners(lines, bins, Detect!BinOf(i, Len(lines), bins))
           lifted == /\ Len(lines) >= 6
                     /\ lines[i].template \in P /\ Detect!Cardinality(P) >= 2
                     /\ lines[i].score >= 40 /\ lines[i].score < 100
           sum == lines[i].score + 30
<1>1. DOMAIN out = DOMAIN lines BY DEF Detect!Cooccurrence
<1>2. out[i] = IF lifted THEN Detect!Min({100, sum}) ELSE lines[i].score
  BY Zenon DEF Detect!Cooccurrence
<1>3. sum \in Int OBVIOUS
<1>4. Detect!Min({100, sum}) = IF 100 <= sum THEN 100 ELSE sum
  <2> HIDE DEF sum
  <2> QED BY <1>3, MaxOfTwo
<1> HIDE DEF out, P, lifted
<1>5. out[i] = IF ~lifted THEN lines[i].score
               ELSE IF lines[i].score >= 70 THEN 100 ELSE lines[i].score + 30
  BY <1>2, <1>4
<1> QED BY <1>1, <1>5 DEF out, P, lifted

\* The lines of a template in a bin.
InBin(lines, bins, b, t) ==
    {i \in DOMAIN lines : Detect!BinOf(i, Len(lines), bins) = b /\ lines[i].template = t}
HostsIn(lines, bins, b, t) == {lines[i].service : i \in InBin(lines, bins, b, t)}

\* Templates are elevated where they have lines.
LEMMA ElevatedAre ==
    ASSUME NEW lines, NEW bins, NEW b, NEW t \in Detect!Elevated(lines, bins, b)
    PROVE  /\ t \in {lines[i].template : i \in DOMAIN lines}
           /\ Cardinality(InBin(lines, bins, b, t)) >= 3
BY DetectCardinality DEF Detect!Elevated, InBin

LEMMA PartnersAre ==
    ASSUME NEW lines, NEW bins, NEW b
    PROVE  Detect!Partners(lines, bins, b) =
              IF UNION {HostsIn(lines, bins, b, t) : t \in Detect!Elevated(lines, bins, b)}
                    \subseteq {""}
              THEN Detect!Elevated(lines, bins, b)
              ELSE {t \in Detect!Elevated(lines, bins, b) :
                      \E u \in Detect!Elevated(lines, bins, b) \ {t} :
                         HostsIn(lines, bins, b, t) \cap HostsIn(lines, bins, b, u) # {}}
BY Zenon DEF Detect!Partners, HostsIn, InBin

\* Only a line with something wrong is lifted, and only by another template in its
\* bin with a service that it has, too (cooccurrence_boost).
THEOREM AlwaysLiftedInCompany ==
    ASSUME NEW lines, IsFiniteSet(DOMAIN lines), \A i \in DOMAIN lines : lines[i].score \in Int,
           NEW bins
    PROVE  Detect!LiftedInCompany(lines, bins)
<1> DEFINE size == Len(lines)
           Bin(j) == Detect!BinOf(j, size, bins)
           out == Detect!Cooccurrence(lines, bins)
<1>1. ASSUME NEW i \in DOMAIN lines PROVE out[i] >= lines[i].score
  <2>1. lines[i].score \in Int OBVIOUS
  <2> QED BY <2>1, CooccurrenceIs
<1>2. ASSUME NEW i \in DOMAIN lines, out[i] > lines[i].score
      PROVE  \E j, k \in DOMAIN lines :
                /\ Bin(j) = Bin(i) /\ Bin(k) = Bin(i)
                /\ lines[j].template = lines[i].template
                /\ lines[k].template # lines[i].template
                /\ lines[j].service = lines[k].service
  <2> DEFINE b == Bin(i)
             t == lines[i].template
             E == Detect!Elevated(lines, bins, b)
             P == Detect!Partners(lines, bins, b)
             H(u) == HostsIn(lines, bins, b, u)
  <2>1. t \in P /\ Detect!Cardinality(P) >= 2
    <3>1. lines[i].score \in Int OBVIOUS
    <3>2. ~(lines[i].score > lines[i].score) BY <3>1
    <3> QED BY <1>2, <3>1, <3>2, CooccurrenceIs
  <2> HIDE DEF b, t
  <2>2. P = IF UNION {H(u) : u \in E} \subseteq {""} THEN E
            ELSE {u \in E : \E v \in E \ {u} : H(u) \cap H(v) # {}}
    BY PartnersAre, Zenon
  <2>3. \A u \in E : u \in {lines[j].template : j \in DOMAIN lines} /\ H(u) # {}
    <3>1. \A u \in E : /\ u \in {lines[j].template : j \in DOMAIN lines}
                       /\ Cardinality(InBin(lines, bins, b, u)) >= 3
      BY ElevatedAre
    <3>2. \A u \in E : InBin(lines, bins, b, u) # {}
      <4>1. ~(0 >= 3) OBVIOUS
      <4> QED BY <3>1, <4>1, FS_EmptySet
    <3> QED BY <3>1, <3>2 DEF HostsIn
  <2>4. \E u \in E \ {t} : t \in E /\ H(t) \cap H(u) # {}
    <3>1. CASE UNION {H(u) : u \in E} \subseteq {""}
      <4>1. P = E BY <2>2, <3>1
      <4>2. PICK u \in E : u # t
        <5>1. SUFFICES ASSUME E \subseteq {t} PROVE FALSE OBVIOUS
        <5>2. E = {t} BY <2>1, <4>1, <5>1
        <5> HIDE DEF E, P
        <5>3. Cardinality(E) = 1 BY <5>2, FS_Singleton
        <5>4. Cardinality(E) >= 2 BY <2>1, <4>1, DetectCardinality
        <5> QED BY <5>3, <5>4
      <4>3. \A v \in E : H(v) = {""}
        <5>1. \A v \in E : H(v) \subseteq {""} BY <3>1, Zenon
        <5> HIDE DEF E, H
        <5> QED BY <2>3, <5>1
      <4> HIDE DEF E, P, H
      <4> QED BY <2>1, <4>1, <4>2, <4>3
    <3>2. CASE ~(UNION {H(u) : u \in E} \subseteq {""})
      <4> HIDE DEF E, P, H
      <4> QED BY <2>1, <2>2, <3>2
    <3> QED BY <3>1, <3>2
  <2>5. PICK u \in E : u # t /\ H(t) \cap H(u) # {} BY <2>4
  <2>6. PICK h : h \in H(t) /\ h \in H(u) BY <2>5
  <2>7. PICK j \in InBin(lines, bins, b, t) : lines[j].service = h BY <2>6 DEF HostsIn
  <2>8. PICK k \in InBin(lines, bins, b, u) : lines[k].service = h BY <2>6 DEF HostsIn
  <2> QED BY <2>5, <2>7, <2>8 DEF InBin, b, t
<1> HIDE DEF out
<1>3. \A i \in DOMAIN lines :
         /\ out[i] >= lines[i].score
         /\ out[i] > lines[i].score =>
               \E j, k \in DOMAIN lines :
                  /\ Bin(j) = Bin(i) /\ Bin(k) = Bin(i)
                  /\ lines[j].template = lines[i].template
                  /\ lines[k].template # lines[i].template
                  /\ lines[j].service = lines[k].service
  BY <1>1, <1>2
<1> QED BY <1>3, Zenon DEF out, Detect!LiftedInCompany

\* Lines that differ in nothing but their scores and levels.
SameLines(f, g) ==
    /\ DOMAIN f = DOMAIN g /\ Len(f) = Len(g)
    /\ \A i \in DOMAIN f : f[i].template = g[i].template /\ f[i].service = g[i].service

\* Who is elevated and who is a partner does not depend on the scores.
LEMMA PartnersSame ==
    ASSUME NEW f, NEW g, SameLines(f, g), NEW bins, NEW b
    PROVE  Detect!Partners(f, bins, b) = Detect!Partners(g, bins, b)
<1> USE DEF SameLines
<1>1. \A t : InBin(f, bins, b, t) = InBin(g, bins, b, t) BY DEF InBin
<1>2. \A t : HostsIn(f, bins, b, t) = HostsIn(g, bins, b, t)
  <2> TAKE t
  <2>1. InBin(f, bins, b, t) = InBin(g, bins, b, t) BY <1>1
  <2>2. \A i \in InBin(f, bins, b, t) : f[i].service = g[i].service BY DEF InBin
  <2> QED BY <2>1, <2>2 DEF HostsIn
<1> DEFINE All(s, t) == {i \in DOMAIN s : s[i].template = t}
           Named(s) == {s[i].template : i \in DOMAIN s}
           Often(s, t) == /\ Detect!Cardinality(InBin(s, bins, b, t)) >= 3
                          /\ Detect!Cardinality(InBin(s, bins, b, t)) * bins
                                >= 2 * Detect!Cardinality(All(s, t))
<1>3. \A t : Often(f, t) <=> Often(g, t)
  <2> TAKE t
  <2>1. All(f, t) = All(g, t) OBVIOUS
  <2>2. InBin(f, bins, b, t) = InBin(g, bins, b, t) BY <1>1
  <2> QED BY <2>1, <2>2, Zenon
<1>4. Named(f) = Named(g) OBVIOUS
<1>5. Detect!Elevated(f, bins, b) = {t \in Named(f) : Often(f, t)}
  BY Zenon DEF Detect!Elevated, Detect!Where, InBin
<1>6. Detect!Elevated(g, bins, b) = {t \in Named(g) : Often(g, t)}
  BY Zenon DEF Detect!Elevated, Detect!Where, InBin
<1> HIDE DEF Often, Named
<1> DEFINE E == Detect!Elevated(f, bins, b)
<1>7. E = Detect!Elevated(g, bins, b) BY <1>3, <1>4, <1>5, <1>6
<1> HIDE DEF E
<1> DEFINE C(s) == {t \in E : \E u \in E \ {t} :
                        HostsIn(s, bins, b, t) \cap HostsIn(s, bins, b, u) # {}}
           U(s) == UNION {HostsIn(s, bins, b, t) : t \in E}
<1>8. C(f) = C(g)
  <2>1. \A t \in E : t \in C(f) <=> t \in C(g)
    <3> TAKE t \in E
    <3>1. \A u : HostsIn(f, bins, b, t) \cap HostsIn(f, bins, b, u)
                   = HostsIn(g, bins, b, t) \cap HostsIn(g, bins, b, u)
      BY <1>2
    <3> QED BY <3>1
  <2> QED BY <2>1
<1>9. U(f) = U(g) BY <1>2
<1> DEFINE Chosen(hosts, some) == IF hosts \subseteq {""} THEN E ELSE some
<1>10. Detect!Partners(f, bins, b) = Chosen(U(f), C(f))
  BY PartnersAre, Zenon DEF E
<1>11. Detect!Partners(g, bins, b) = Chosen(U(g), C(g))
  <2>1. Detect!Partners(g, bins, b) =
              IF UNION {HostsIn(g, bins, b, t) : t \in Detect!Elevated(g, bins, b)}
                    \subseteq {""}
              THEN Detect!Elevated(g, bins, b)
              ELSE {t \in Detect!Elevated(g, bins, b) :
                      \E u \in Detect!Elevated(g, bins, b) \ {t} :
                         HostsIn(g, bins, b, t) \cap HostsIn(g, bins, b, u) # {}}
    BY PartnersAre, Zenon
  <2>2. Detect!Elevated(g, bins, b) = E BY <1>7
  <2> HIDE DEF E
  <2> QED BY <2>1, <2>2, Zenon
<1> HIDE DEF C, U, Chosen
<1> QED BY <1>8, <1>9, <1>10, <1>11

\* A line as the fusion takes it, for any templates and services.
EvidenceOf(T, S) ==
    [template : T, service : S, sev : Int, base : Int, seq : Int, par : Int, rate : Int]

\* The lines with scores of their own, and the fused scores.
Carrying(lines, score) ==
    [i \in DOMAIN lines |-> [sev |-> lines[i].sev, template |-> lines[i].template,
                             service |-> lines[i].service, score |-> score[i]]]
FusedScores(lines) == [i \in DOMAIN lines |-> Fuse!Fused(lines[i])]
Boosted(lines, bins) == Detect!Cooccurrence(Carrying(lines, FusedScores(lines)), bins)

LEMMA FuseUsesDetect ==
    /\ \A f, bins : Fuse!Cooccurrence(f, bins) = Detect!Cooccurrence(f, bins)
    /\ \A f, Near, rare, flag_at : Fuse!Backstop(f, Near, rare, flag_at)
                                     = Detect!Backstop(f, Near, rare, flag_at)
    /\ \A s, flag_at : Fuse!Flagged(s, flag_at) = Detect!Flagged(s, flag_at)
<1>1. ASSUME NEW f, NEW bins PROVE Fuse!Cooccurrence(f, bins) = Detect!Cooccurrence(f, bins)
  <2>1. ASSUME NEW b PROVE Fuse!Elevated(f, bins, b) = Detect!Elevated(f, bins, b)
    BY Zenon
    DEF Fuse!Elevated, Detect!Elevated, Fuse!Where, Detect!Where, Fuse!BinOf, Detect!BinOf,
        Fuse!Min, Detect!Min, Fuse!Cardinality, Detect!Cardinality
  <2>2. ASSUME NEW b PROVE Fuse!Partners(f, bins, b) = Detect!Partners(f, bins, b)
    <3>1. Fuse!Elevated(f, bins, b) = Detect!Elevated(f, bins, b) BY <2>1
    <3> DEFINE In(x, t) == {j \in DOMAIN f : Detect!BinOf(j, Len(f), bins) = x /\ f[j].template = t}
               Hosts(t) == {f[i].service : i \in In(b, t)}
               Both(E) == IF UNION {Hosts(t) : t \in E} \subseteq {""} THEN E
                          ELSE {t \in E : \E u \in E \ {t} : Hosts(t) \cap Hosts(u) # {}}
    <3>2. Fuse!Partners(f, bins, b) = Both(Fuse!Elevated(f, bins, b))
      BY Zenon DEF Fuse!Partners, Fuse!BinOf, Detect!BinOf, Fuse!Min, Detect!Min
    <3>3. Detect!Partners(f, bins, b) = Both(Detect!Elevated(f, bins, b))
      BY Zenon DEF Detect!Partners
    <3> HIDE DEF Both
    <3> QED BY <3>1, <3>2, <3>3, Zenon
  <2> DEFINE P(i) == Detect!Partners(f, bins, Detect!BinOf(i, Len(f), bins))
             Lifted(i) == /\ f[i].template \in P(i) /\ Detect!Cardinality(P(i)) >= 2
                          /\ f[i].score >= 40 /\ f[i].score < 100
             Value(i, lifted) == IF Len(f) >= 6 /\ lifted
                                 THEN Detect!Min({100, f[i].score + 30}) ELSE f[i].score
             Q(i) == Fuse!Partners(f, bins, Fuse!BinOf(i, Len(f), bins))
             Raised(i) == /\ f[i].template \in Q(i) /\ Fuse!Cardinality(Q(i)) >= 2
                          /\ f[i].score >= 40 /\ f[i].score < 100
  <2>3. Fuse!Cooccurrence(f, bins) = [i \in DOMAIN f |-> Value(i, Raised(i))]
    BY Zenon DEF Fuse!Cooccurrence, Fuse!Min, Detect!Min
  <2>4. Detect!Cooccurrence(f, bins) = [i \in DOMAIN f |-> Value(i, Lifted(i))]
    BY Zenon DEF Detect!Cooccurrence
  <2>5. ASSUME NEW i \in DOMAIN f PROVE Value(i, Raised(i)) = Value(i, Lifted(i))
    <3>1. Fuse!BinOf(i, Len(f), bins) = Detect!BinOf(i, Len(f), bins)
      BY Zenon DEF Fuse!BinOf, Detect!BinOf, Fuse!Min, Detect!Min
    <3>2. Q(i) = P(i) BY <2>2, <3>1, Zenon
    <3> HIDE DEF Q, P
    <3>3. Fuse!Cardinality(P(i)) = Detect!Cardinality(P(i)) BY DetectCardinality, Zenon
    <3> QED BY <3>2, <3>3, Zenon
  <2> HIDE DEF Value, Raised, Lifted
  <2> QED BY <2>3, <2>4, <2>5
<1>2. \A f, Near, rare, flag_at : Fuse!Backstop(f, Near, rare, flag_at)
                                    = Detect!Backstop(f, Near, rare, flag_at)
  BY Zenon
  DEF Fuse!Backstop, Detect!Backstop, Fuse!Where, Detect!Where, Fuse!Floor, Detect!Floor,
      Fuse!Max, Detect!Max, Fuse!Cardinality, Detect!Cardinality
<1>3. \A s, flag_at : Fuse!Flagged(s, flag_at) = Detect!Flagged(s, flag_at)
  BY Zenon DEF Fuse!Flagged, Detect!Flagged, Fuse!Where, Detect!Where
<1> QED BY <1>1, <1>2, <1>3

\* What Scores computes, stage by stage.
LEMMA ScoresAre ==
    ASSUME NEW lines, NEW bins, NEW Near, NEW rare, NEW flag_at
    PROVE  Fuse!Scores(lines, bins, Near, rare, flag_at)
              = Detect!Backstop(Carrying(lines, Boosted(lines, bins)), Near, rare, flag_at)
BY FuseUsesDetect, Zenon DEF Fuse!Scores, Carrying, FusedScores, Boosted

LEMMA FusedIs ==
    ASSUME NEW e, e.base \in Int, e.seq \in Int, e.par \in Int, e.rate \in Int
    PROVE  /\ Fuse!Fused(e) \in Int
           /\ Fuse!Fused(e) \in {e.base, e.seq, e.par, e.rate}
           /\ \A x \in {e.base, e.seq, e.par, e.rate} : x <= Fuse!Fused(e)
<1> DEFINE S == {e.base, e.seq, e.par, e.rate}
<1>1. S \subseteq Int /\ S # {} OBVIOUS
<1>2. IsFiniteSet(S)
  <2>1. S = {e.base} \cup {e.seq} \cup {e.par} \cup {e.rate} OBVIOUS
  <2> HIDE DEF S
  <2> QED BY <2>1, FS_Singleton, FS_Union
<1>3. Fuse!Fused(e) = Detect!Max(S) BY FuseIsDetect, Zenon DEF Fuse!Fused
<1> HIDE DEF S
<1>4. Detect!Max(S) \in S /\ \A y \in S : y <= Detect!Max(S) BY <1>1, <1>2, MaxIs
<1> QED BY <1>1, <1>3, <1>4 DEF S

\* What the stages before the backstop make of the lines.
WithFused(lines) == Carrying(lines, FusedScores(lines))
WithBoosted(lines, bins) == Carrying(lines, Boosted(lines, bins))

LEMMA FusedStage ==
    ASSUME NEW T, NEW S, NEW f \in Seq(EvidenceOf(T, S)), NEW j \in DOMAIN f
    PROVE  /\ DOMAIN WithFused(f) = DOMAIN f /\ Len(WithFused(f)) = Len(f)
           /\ WithFused(f)[j].score = Fuse!Fused(f[j]) /\ WithFused(f)[j].score \in Int
           /\ WithFused(f)[j].template = f[j].template
           /\ WithFused(f)[j].service = f[j].service
<1> DEFINE a == WithFused(f)
<1>1. DOMAIN a = DOMAIN f BY DEF Carrying, WithFused
<1>2. Len(a) = Len(f)
  <2>1. DOMAIN f = 1 .. Len(f) /\ Len(f) \in Nat OBVIOUS
  <2>2. a = [i \in 1 .. Len(f) |-> a[i]] BY <2>1 DEF Carrying, WithFused
  <2> HIDE DEF a
  <2> QED BY <2>1, <2>2
<1>3. /\ a[j].score = Fuse!Fused(f[j])
      /\ a[j].template = f[j].template /\ a[j].service = f[j].service
  BY DEF Carrying, FusedScores, WithFused
<1>4. a[j].score \in Int
  <2>1. f[j] \in EvidenceOf(T, S) OBVIOUS
  <2>2. f[j].base \in Int /\ f[j].seq \in Int /\ f[j].par \in Int /\ f[j].rate \in Int
    BY <2>1 DEF EvidenceOf
  <2> QED BY <1>3, <2>2, FusedIs
<1> QED BY <1>1, <1>2, <1>3, <1>4

LEMMA BoostedStage ==
    ASSUME NEW T, NEW S, NEW f \in Seq(EvidenceOf(T, S)), NEW bins, NEW j \in DOMAIN f
    PROVE  /\ DOMAIN WithBoosted(f, bins) = DOMAIN f
           /\ WithBoosted(f, bins)[j].template = f[j].template
           /\ WithBoosted(f, bins)[j].sev = f[j].sev
           /\ WithBoosted(f, bins)[j].score = Boosted(f, bins)[j]
           /\ WithBoosted(f, bins)[j].score \in Int
           /\ WithBoosted(f, bins)[j].score >= Fuse!Fused(f[j])
<1> DEFINE a == WithFused(f)
           c == WithBoosted(f, bins)
<1>1. DOMAIN c = DOMAIN f BY DEF Carrying, WithBoosted
<1>2. /\ c[j].template = f[j].template /\ c[j].sev = f[j].sev
      /\ c[j].score = Boosted(f, bins)[j]
  BY DEF Carrying, WithBoosted
<1>3. Boosted(f, bins)[j] \in Int /\ Boosted(f, bins)[j] >= a[j].score
  <2>1. Boosted(f, bins) = Detect!Cooccurrence(a, bins) BY DEF Boosted, WithFused
  <2>2. j \in DOMAIN a /\ a[j].score \in Int BY FusedStage
  <2> HIDE DEF a
  <2> QED BY <2>1, <2>2, CooccurrenceIs
<1>4. a[j].score = Fuse!Fused(f[j]) BY FusedStage
<1> HIDE DEF a, c
<1>5. c[j].score \in Int /\ c[j].score >= Fuse!Fused(f[j]) BY <1>2, <1>3, <1>4
<1> QED BY <1>1, <1>2, <1>5 DEF c

\* More evidence for some lines, the lines else the same, makes no line score less
\* before the backstop.
LEMMA BoostOrdered ==
    ASSUME NEW T, NEW S, NEW f \in Seq(EvidenceOf(T, S)), NEW g \in Seq(EvidenceOf(T, S)),
           Len(f) = Len(g),
           \A i \in DOMAIN f : /\ f[i].template = g[i].template /\ f[i].service = g[i].service
                               /\ Fuse!Fused(f[i]) <= Fuse!Fused(g[i]),
           NEW bins, NEW j \in DOMAIN f
    PROVE  Boosted(f, bins)[j] <= Boosted(g, bins)[j]
<1> DEFINE a == WithFused(f)
           b == WithFused(g)
           place == Detect!BinOf(j, Len(a), bins)
           P == Detect!Partners(a, bins, place)
<1>1. DOMAIN f = DOMAIN g OBVIOUS
<1>2. \A i \in DOMAIN f : /\ DOMAIN a = DOMAIN f /\ Len(a) = Len(f)
                          /\ a[i].score = Fuse!Fused(f[i]) /\ a[i].score \in Int
                          /\ a[i].template = f[i].template /\ a[i].service = f[i].service
  BY FusedStage
<1>3. \A i \in DOMAIN g : /\ DOMAIN b = DOMAIN g /\ Len(b) = Len(g)
                          /\ b[i].score = Fuse!Fused(g[i]) /\ b[i].score \in Int
                          /\ b[i].template = g[i].template /\ b[i].service = g[i].service
  BY FusedStage
<1>4. Boosted(f, bins) = Detect!Cooccurrence(a, bins)
      /\ Boosted(g, bins) = Detect!Cooccurrence(b, bins)
  BY DEF Boosted, WithFused
<1> HIDE DEF a, b
<1>5. /\ DOMAIN a = DOMAIN b /\ Len(a) = Len(b) /\ j \in DOMAIN a /\ j \in DOMAIN b
      /\ \A i \in DOMAIN a : a[i].template = b[i].template /\ a[i].service = b[i].service
      /\ a[j].score \in Int /\ b[j].score \in Int /\ a[j].score <= b[j].score
  BY <1>1, <1>2, <1>3
<1>6. P = Detect!Partners(b, bins, Detect!BinOf(j, Len(b), bins))
  <2> HIDE DEF place
  <2>1. Detect!Partners(a, bins, place) = Detect!Partners(b, bins, place)
    <3>1. SameLines(a, b) BY <1>5 DEF SameLines
    <3> QED BY <3>1, PartnersSame
  <2>2. place = Detect!BinOf(j, Len(b), bins) BY <1>5 DEF place
  <2> QED BY <2>1, <2>2
<1> DEFINE company == Len(a) >= 6 /\ a[j].template \in P /\ Detect!Cardinality(P) >= 2
<1>7. Boosted(f, bins)[j] =
         IF ~(company /\ a[j].score >= 40 /\ a[j].score < 100) THEN a[j].score
         ELSE IF a[j].score >= 70 THEN 100 ELSE a[j].score + 30
  BY <1>4, <1>5, CooccurrenceIs
<1>8. Boosted(g, bins)[j] =
         IF ~(company /\ b[j].score >= 40 /\ b[j].score < 100) THEN b[j].score
         ELSE IF b[j].score >= 70 THEN 100 ELSE b[j].score + 30
  <2> DEFINE R == Detect!Partners(b, bins, Detect!BinOf(j, Len(b), bins))
             lifted == /\ Len(b) >= 6 /\ b[j].template \in R /\ Detect!Cardinality(R) >= 2
                       /\ b[j].score >= 40 /\ b[j].score < 100
  <2>1. Boosted(g, bins)[j] = IF ~lifted THEN b[j].score
                              ELSE IF b[j].score >= 70 THEN 100 ELSE b[j].score + 30
    BY <1>4, <1>5, CooccurrenceIs
  <2>2. lifted <=> company /\ b[j].score >= 40 /\ b[j].score < 100
    <3>1. R = P BY <1>6
    <3> HIDE DEF R, P
    <3> QED BY <1>5, <3>1
  <2> HIDE DEF lifted, company
  <2> QED BY <2>1, <2>2
<1> HIDE DEF company
<1> QED BY <1>5, <1>7, <1>8

\* More evidence for some lines takes the flag from none.
LEMMA FlagsKept ==
    ASSUME NEW T, NEW S, NEW f \in Seq(EvidenceOf(T, S)), NEW g \in Seq(EvidenceOf(T, S)),
           Len(f) = Len(g),
           \A i \in DOMAIN f : /\ f[i].template = g[i].template /\ f[i].service = g[i].service
                               /\ f[i].sev = g[i].sev
                               /\ Fuse!Fused(f[i]) <= Fuse!Fused(g[i]),
           NEW bins, NEW Near, NEW rare, NEW flag_at \in Int,
           NEW j \in DOMAIN f,
           Fuse!Scores(f, bins, Near, rare, flag_at)[j] >= flag_at
    PROVE  Fuse!Scores(g, bins, Near, rare, flag_at)[j] >= flag_at
<1> DEFINE c == WithBoosted(f, bins)
           d == WithBoosted(g, bins)
<1>1. DOMAIN f = DOMAIN g OBVIOUS
<1>2. \A i \in DOMAIN f : /\ DOMAIN c = DOMAIN f
                          /\ c[i].template = f[i].template /\ c[i].sev = f[i].sev
                          /\ c[i].score \in Int
  BY BoostedStage
<1>3. \A i \in DOMAIN g : /\ DOMAIN d = DOMAIN g
                          /\ d[i].template = g[i].template /\ d[i].sev = g[i].sev
                          /\ d[i].score \in Int
  BY BoostedStage
<1>4. c[j].score <= d[j].score
  <2>1. Boosted(f, bins)[j] <= Boosted(g, bins)[j] BY BoostOrdered
  <2>2. c[j].score = Boosted(f, bins)[j] /\ d[j].score = Boosted(g, bins)[j]
    BY <1>1, BoostedStage
  <2> QED BY <2>1, <2>2
<1>5. /\ Fuse!Scores(f, bins, Near, rare, flag_at) = Detect!Backstop(c, Near, rare, flag_at)
      /\ Fuse!Scores(g, bins, Near, rare, flag_at) = Detect!Backstop(d, Near, rare, flag_at)
  BY ScoresAre DEF WithBoosted
<1> HIDE DEF c, d
<1>6. /\ DOMAIN c = DOMAIN d /\ j \in DOMAIN c
      /\ \A i \in DOMAIN c : c[i].template = d[i].template /\ c[i].sev = d[i].sev
      /\ c[j].score \in Int /\ d[j].score \in Int
  BY <1>1, <1>2, <1>3
<1>7. SeldomIn(c, c[j].template, rare) <=> SeldomIn(d, d[j].template, rare)
  <2> DEFINE t == c[j].template
             All(s) == Detect!Where(s, LAMBDA e : e.template = t)
  <2>1. \A s : All(s) = {i \in DOMAIN s : s[i].template = t} BY DEF Detect!Where
  <2>2. t = d[j].template BY <1>6
  <2> HIDE DEF t
  <2>3. All(c) = All(d) BY <1>6, <2>1
  <2> HIDE DEF All
  <2>4. SeldomIn(c, t, rare) <=> SeldomIn(d, t, rare) BY <2>3, Zenon DEF SeldomIn, All
  <2> QED BY <2>2, <2>4 DEF t
<1>8. CASE d[j].score >= flag_at
  <2>1. ~FlooredAt(d, j, Near, rare, flag_at) BY <1>6, <1>8 DEF FlooredAt
  <2> QED BY <1>5, <1>6, <1>8, <2>1, BackstopIs
<1>9. CASE d[j].score < flag_at
  <2>1. c[j].score < flag_at BY <1>4, <1>6, <1>9
  <2>2. FlooredAt(c, j, Near, rare, flag_at)
    <3>1. SUFFICES ASSUME ~FlooredAt(c, j, Near, rare, flag_at) PROVE FALSE OBVIOUS
    <3>2. Detect!Backstop(c, Near, rare, flag_at)[j] = c[j].score BY <1>6, <3>1, BackstopIs
    <3> QED BY <1>5, <1>6, <2>1, <3>2
  <2>3. FlooredAt(d, j, Near, rare, flag_at) BY <1>6, <1>7, <1>9, <2>2 DEF FlooredAt
  <2> QED BY <1>5, <1>6, <2>3, BackstopIs
<1> QED BY <1>6, <1>8, <1>9

\* Two lines that differ at most in the value of one detector.
DiffersIn(d, e, raised) ==
    /\ raised.template = e.template /\ raised.service = e.service /\ raised.sev = e.sev
    /\ raised.par = e.par
    /\ d = "base" \/ raised.base = e.base
    /\ d = "seq" \/ raised.seq = e.seq
    /\ d = "rate" \/ raised.rate = e.rate

\* A line that one detector alone would flag is flagged, and more evidence for one
\* line takes the flag from no other (detect: fusion, boost and backstop).
THEOREM EvidenceAlwaysReachesFlag ==
    ASSUME NEW T, NEW S, NEW lines \in Seq(EvidenceOf(T, S)), NEW i \in DOMAIN lines,
           NEW which, NEW more \in Int,
           NEW bins, NEW Near, NEW rare, NEW flag_at \in Int
    PROVE  Fuse!EvidenceReachesFlag(lines, i, which, more, bins, Near, rare, flag_at)
<1> DEFINE Scored(f) == Fuse!Scores(f, bins, Near, rare, flag_at)
           Out(f) == Fuse!Flagged(Scored(f), flag_at)
           e == lines[i]
           raised == IF which = "base" THEN [e EXCEPT !.base = Fuse!Max({@, more})]
                     ELSE IF which = "seq" THEN [e EXCEPT !.seq = Fuse!Max({@, more})]
                     ELSE [e EXCEPT !.rate = Fuse!Max({@, more})]
           g == [lines EXCEPT ![i] = raised]
<1>1. ASSUME NEW f \in Seq(EvidenceOf(T, S))
      PROVE  Out(f) = {j \in DOMAIN f : Scored(f)[j] >= flag_at}
  <2>1. Scored(f) = Detect!Backstop(WithBoosted(f, bins), Near, rare, flag_at)
    BY ScoresAre DEF WithBoosted
  <2>2. DOMAIN Scored(f) = DOMAIN f
    <3>1. DOMAIN WithBoosted(f, bins) = DOMAIN f BY DEF WithBoosted, Carrying
    <3>2. DOMAIN Detect!Backstop(WithBoosted(f, bins), Near, rare, flag_at)
            = DOMAIN WithBoosted(f, bins)
      BY DEF Detect!Backstop
    <3> QED BY <2>1, <3>1, <3>2
  <2>3. Out(f) = {j \in DOMAIN Scored(f) : Scored(f)[j] >= flag_at}
    BY Zenon DEF Fuse!Flagged, Fuse!Where
  <2> HIDE DEF Scored, Out
  <2> QED BY <2>2, <2>3
<1>2. ASSUME NEW j \in DOMAIN lines,
             flag_at <= Fuse!Max({lines[j].base, lines[j].seq, lines[j].par, lines[j].rate})
      PROVE  j \in Out(lines)
  <2> DEFINE c == WithBoosted(lines, bins)
  <2>1. /\ DOMAIN c = DOMAIN lines /\ c[j].score \in Int
        /\ c[j].score >= Fuse!Fused(lines[j])
    BY BoostedStage
  <2>2. Fuse!Fused(lines[j]) \in Int
    <3>1. lines[j] \in EvidenceOf(T, S) OBVIOUS
    <3> QED BY <3>1, FusedIs DEF EvidenceOf
  <2>3. flag_at <= Fuse!Fused(lines[j]) BY <1>2, Zenon DEF Fuse!Fused
  <2>4. Scored(lines) = Detect!Backstop(c, Near, rare, flag_at) BY ScoresAre DEF WithBoosted
  <2> HIDE DEF c, Scored, Out
  <2>5. ~FlooredAt(c, j, Near, rare, flag_at) BY <2>1, <2>2, <2>3 DEF FlooredAt
  <2>6. Scored(lines)[j] = c[j].score BY <2>1, <2>4, <2>5, BackstopIs
  <2> QED BY <1>1, <2>1, <2>2, <2>3, <2>6
<1>3. /\ raised \in EvidenceOf(T, S) /\ raised.template = e.template
      /\ raised.service = e.service /\ raised.sev = e.sev
      /\ raised.par = e.par
      /\ raised.base >= e.base /\ raised.seq >= e.seq /\ raised.rate >= e.rate
  <2>1. /\ e \in EvidenceOf(T, S) /\ e.base \in Int /\ e.seq \in Int /\ e.rate \in Int
    <3>1. e \in EvidenceOf(T, S) OBVIOUS
    <3> QED BY <3>1 DEF EvidenceOf
  <2> DEFINE b == Fuse!Max({e.base, more})
             s == Fuse!Max({e.seq, more})
             r == Fuse!Max({e.rate, more})
  <2>2. b \in Int /\ b >= e.base BY <2>1, FuseIsDetect, MaxOfTwo
  <2>3. s \in Int /\ s >= e.seq BY <2>1, FuseIsDetect, MaxOfTwo
  <2>4. r \in Int /\ r >= e.rate BY <2>1, FuseIsDetect, MaxOfTwo
  <2>5. raised = IF which = "base" THEN [e EXCEPT !.base = b]
                 ELSE IF which = "seq" THEN [e EXCEPT !.seq = s] ELSE [e EXCEPT !.rate = r]
    OBVIOUS
  <2> HIDE DEF e, b, s, r, raised
  <2>6. ASSUME raised = [e EXCEPT !.base = b] PROVE <1>3!:
    <3>1. raised \in EvidenceOf(T, S) /\ raised.base = b /\ DiffersIn("base", e, raised)
      <4>1. e \in EvidenceOf(T, S) /\ b \in Int BY <2>1, <2>2
      <4> QED BY <2>6, <4>1 DEF EvidenceOf, DiffersIn
    <3> QED BY <2>1, <2>2, <3>1 DEF DiffersIn
  <2>7. ASSUME raised = [e EXCEPT !.seq = s] PROVE <1>3!:
    <3>1. raised \in EvidenceOf(T, S) /\ raised.seq = s /\ DiffersIn("seq", e, raised)
      <4>1. e \in EvidenceOf(T, S) /\ s \in Int BY <2>1, <2>3
      <4> QED BY <2>7, <4>1 DEF EvidenceOf, DiffersIn
    <3> QED BY <2>1, <2>3, <3>1 DEF DiffersIn
  <2>8. ASSUME raised = [e EXCEPT !.rate = r] PROVE <1>3!:
    <3>1. raised \in EvidenceOf(T, S) /\ raised.rate = r /\ DiffersIn("rate", e, raised)
      <4>1. e \in EvidenceOf(T, S) /\ r \in Int BY <2>1, <2>4
      <4> QED BY <2>8, <4>1 DEF EvidenceOf, DiffersIn
    <3> QED BY <2>1, <2>4, <3>1 DEF DiffersIn
  <2> QED BY <2>5, <2>6, <2>7, <2>8
<1>4. Fuse!Fused(raised) >= Fuse!Fused(e)
  <2> HIDE DEF raised
  <2>1. /\ e \in EvidenceOf(T, S)
        /\ e.base \in Int /\ e.seq \in Int /\ e.par \in Int /\ e.rate \in Int
        /\ raised.base \in Int /\ raised.seq \in Int /\ raised.par \in Int /\ raised.rate \in Int
    <3>1. e \in EvidenceOf(T, S) OBVIOUS
    <3> QED BY <1>3, <3>1 DEF EvidenceOf
  <2> HIDE DEF e
  <2>2. /\ Fuse!Fused(e) \in {e.base, e.seq, e.par, e.rate} /\ Fuse!Fused(raised) \in Int
        /\ raised.base <= Fuse!Fused(raised) /\ raised.seq <= Fuse!Fused(raised)
        /\ raised.par <= Fuse!Fused(raised) /\ raised.rate <= Fuse!Fused(raised)
    BY <2>1, FusedIs
  <2> QED BY <1>3, <2>1, <2>2
<1>5. /\ g \in Seq(EvidenceOf(T, S)) /\ Len(g) = Len(lines) /\ DOMAIN g = DOMAIN lines
      /\ \A j \in DOMAIN lines :
            /\ lines[j].template = g[j].template /\ lines[j].service = g[j].service
            /\ lines[j].sev = g[j].sev /\ Fuse!Fused(lines[j]) <= Fuse!Fused(g[j])
  <2> HIDE DEF raised
  <2>1. g \in Seq(EvidenceOf(T, S)) /\ Len(g) = Len(lines) /\ DOMAIN g = DOMAIN lines BY <1>3
  <2>2. \A j \in DOMAIN lines : g[j] = IF j = i THEN raised ELSE lines[j] OBVIOUS
  <2>3. \A j \in DOMAIN lines : Fuse!Fused(lines[j]) \in Int
    <3> TAKE j \in DOMAIN lines
    <3>1. lines[j] \in EvidenceOf(T, S) OBVIOUS
    <3> QED BY <3>1, FusedIs DEF EvidenceOf
  <2> HIDE DEF g
  <2> QED BY <1>3, <1>4, <2>1, <2>2, <2>3
<1> HIDE DEF g
<1>6. ASSUME NEW j \in Out(lines) PROVE j \in Out(g)
  <2>1. j \in DOMAIN lines /\ Scored(lines)[j] >= flag_at BY <1>1
  <2>2. Scored(g)[j] >= flag_at BY <1>5, <2>1, FlagsKept
  <2> QED BY <1>1, <1>5, <2>1, <2>2
<1>7. Out(lines) \subseteq Out(g) BY <1>6
<1> HIDE DEF Out
<1>8. /\ \A j \in DOMAIN lines :
             flag_at <= Fuse!Max({lines[j].base, lines[j].seq, lines[j].par, lines[j].rate})
                => j \in Out(lines)
      /\ Out(lines) \subseteq Out([lines EXCEPT ![i] = raised])
  BY <1>2, <1>7 DEF g
<1> QED BY <1>8, Zenon DEF Out, Fuse!EvidenceReachesFlag

\* The places of a function where its value is at most, or below, a number.
UpToValue(f, v) == {i \in DOMAIN f : f[i] <= v}
BelowValue(f, v) == {i \in DOMAIN f : f[i] < v}

\* The k-th value of a function on a finite set.
LEMMA NthIs ==
    ASSUME NEW f, IsFiniteSet(DOMAIN f), \A i \in DOMAIN f : f[i] \in Int,
           NEW k \in 1 .. Cardinality(DOMAIN f)
    PROVE  LET S   == {f[i] : i \in {j \in DOMAIN f : Cardinality(UpToValue(f, f[j])) >= k}}
               nth == Detect!Min(S)
           IN  /\ \E i \in DOMAIN f : nth = f[i]
               /\ Cardinality(UpToValue(f, nth)) >= k
               /\ Cardinality(BelowValue(f, nth)) < k
<1> DEFINE I == {j \in DOMAIN f : Cardinality(UpToValue(f, f[j])) >= k}
           S == {f[i] : i \in I}
           V == {f[i] : i \in DOMAIN f}
           nth == Detect!Min(S)
<1>1. Cardinality(DOMAIN f) \in Nat BY FS_CardinalityType
<1>2. DOMAIN f # {} BY <1>1, FS_EmptySet
<1>3. IsFiniteSet(V) /\ V \subseteq Int /\ V # {}
  <2>1. IsFiniteSet(V) BY ValuesAreFinite
  <2> QED BY <1>2, <2>1
<1>4. \A v : /\ IsFiniteSet(UpToValue(f, v)) /\ Cardinality(UpToValue(f, v)) \in Nat
             /\ IsFiniteSet(BelowValue(f, v)) /\ Cardinality(BelowValue(f, v)) \in Nat
  <2> TAKE v
  <2>1. UpToValue(f, v) \in SUBSET DOMAIN f /\ BelowValue(f, v) \in SUBSET DOMAIN f
    BY DEF UpToValue, BelowValue
  <2> QED BY <2>1, FS_Subset, FS_CardinalityType
<1>5. S \subseteq V OBVIOUS
<1>6. IsFiniteSet(S)
  <2> HIDE DEF S, V
  <2> QED BY <1>3, <1>5, FS_Subset
<1>7. S # {}
  <2>1. PICK j \in DOMAIN f : \A i \in DOMAIN f : f[j] >= f[i]
    <3>1. PICK x \in V : \A y \in V : x >= y
      <4> HIDE DEF V
      <4> QED BY <1>3, GreatestElement
    <3> QED BY <3>1
  <2>2. UpToValue(f, f[j]) = DOMAIN f BY <2>1 DEF UpToValue
  <2>3. j \in I BY <1>1, <2>2
  <2> QED BY <2>3
<1>8. PICK x \in S : \A y \in S : x <= y
  <2> DEFINE N == {-y : y \in S}
  <2>1. IsFiniteSet(N)
    <3> DEFINE minus == [y \in S |-> -y]
    <3>1. minus \in Surjection(S, N) BY DEF Surjection
    <3> HIDE DEF minus, S, N
    <3> QED BY <1>6, <3>1, FS_Surjection
  <2>2. N \subseteq Int /\ N # {} /\ \A y \in S : y \in Int /\ -y \in N
    <3> HIDE DEF S
    <3> QED BY <1>3, <1>5, <1>7
  <2>3. PICK z \in N : \A y \in N : z >= y
    <3> HIDE DEF N
    <3> QED BY <2>1, <2>2, GreatestElement
  <2>4. PICK x \in S : z = -x BY <2>3
  <2>5. \A y \in S : x <= y
    <3> HIDE DEF S, N
    <3> QED BY <2>2, <2>3, <2>4
  <2> QED BY <2>4, <2>5
<1>9. nth \in S /\ \A y \in S : nth <= y
  <2>1. nth = CHOOSE z \in S : \A y \in S : z =< y BY Zenon DEF Detect!Min
  <2> HIDE DEF S, nth
  <2> QED BY <1>8, <2>1
<1>10. \E i \in DOMAIN f : nth = f[i] /\ Cardinality(UpToValue(f, nth)) >= k
  <2> HIDE DEF nth
  <2> QED BY <1>9
<1>11. nth \in Int BY <1>3, <1>5, <1>9
<1>12. ASSUME Cardinality(BelowValue(f, nth)) >= k PROVE FALSE
  <2> DEFINE L == BelowValue(f, nth)
             W == {f[i] : i \in L}
  <2>1. L # {}
    <3>1. ~(0 >= k) BY <1>1
    <3> QED BY <1>12, <3>1, FS_EmptySet
  <2>2. IsFiniteSet(W) BY <1>4, ValuesAreFinite
  <2>3. W # {} /\ W \subseteq Int BY <2>1 DEF BelowValue
  <2>4. PICK w \in W : \A y \in W : w >= y
    <3> HIDE DEF W
    <3> QED BY <2>2, <2>3, GreatestElement
  <2>5. PICK j \in L : w = f[j] BY <2>4
  <2>6. j \in DOMAIN f /\ f[j] < nth BY <2>5 DEF BelowValue
  <2> HIDE DEF nth, S
  <2>7. L \in SUBSET UpToValue(f, f[j])
    BY <2>4, <2>5, <2>6 DEF UpToValue, BelowValue
  <2>8. Cardinality(L) <= Cardinality(UpToValue(f, f[j]))
    <3> HIDE DEF L
    <3> QED BY <1>4, <2>7, FS_Subset
  <2>9. Cardinality(UpToValue(f, f[j])) >= k BY <1>4, <1>12, <2>8
  <2>10. f[j] \in S BY <2>6, <2>9 DEF S
  <2> QED BY <1>9, <1>11, <2>6, <2>10
<1> HIDE DEF nth
<1>13. Cardinality(BelowValue(f, nth)) < k BY <1>4, <1>12
<1> QED BY <1>10, <1>13 DEF nth, S, I

\* The median of n values: the sum of the middle ones a <= b, half of the values or
\* more on either side of them.
LEMMA MedianIs ==
    ASSUME NEW f, IsFiniteSet(DOMAIN f), \A i \in DOMAIN f : f[i] \in Int, DOMAIN f # {}
    PROVE  \E i, j \in DOMAIN f :
              LET size == Cardinality(DOMAIN f) IN
              /\ Detect!TwiceMedian(f) = f[i] + f[j]
              /\ 2 * Cardinality(UpToValue(f, f[i])) >= size
              /\ 2 * Cardinality(BelowValue(f, f[i])) < size
              /\ 2 * Cardinality(UpToValue(f, f[j])) > size
              /\ 2 * Cardinality(BelowValue(f, f[j])) <= size
<1> DEFINE size == Cardinality(DOMAIN f)
           k == (size + 1) \div 2
           l == (size + 2) \div 2
           Nth(m) == Detect!Min({f[i] : i \in {j \in DOMAIN f : Cardinality(UpToValue(f, f[j])) >= m}})
<1>1. size \in Nat /\ size >= 1
  <2>1. size \in Nat BY FS_CardinalityType
  <2>2. size # 0 BY FS_EmptySet
  <2> QED BY <2>1, <2>2
<1>2. /\ k \in 1 .. size /\ l \in 1 .. size
      /\ 2 * k >= size /\ 2 * k <= size + 1 /\ 2 * l > size /\ 2 * l <= size + 2
  <2> HIDE DEF size
  <2> QED BY <1>1
<1>3. Detect!TwiceMedian(f) = Nth(k) + Nth(l)
  BY DetectCardinality, Zenon DEF Detect!TwiceMedian, UpToValue
<1> HIDE DEF k, l
<1>4. \A m \in 1 .. size : /\ \E i \in DOMAIN f : Nth(m) = f[i]
                           /\ Cardinality(UpToValue(f, Nth(m))) >= m
                           /\ Cardinality(BelowValue(f, Nth(m))) < m
  BY NthIs
<1>5. \A v : Cardinality(UpToValue(f, v)) \in Nat /\ Cardinality(BelowValue(f, v)) \in Nat
  <2> TAKE v
  <2>1. UpToValue(f, v) \in SUBSET DOMAIN f /\ BelowValue(f, v) \in SUBSET DOMAIN f
    BY DEF UpToValue, BelowValue
  <2> QED BY <2>1, FS_Subset, FS_CardinalityType
<1> HIDE DEF Nth
<1>6. PICK i \in DOMAIN f : Nth(k) = f[i] BY <1>2, <1>4
<1>7. PICK j \in DOMAIN f : Nth(l) = f[j] BY <1>2, <1>4
<1>8. /\ Cardinality(UpToValue(f, f[i])) >= k /\ Cardinality(BelowValue(f, f[i])) < k
      /\ Cardinality(UpToValue(f, f[j])) >= l /\ Cardinality(BelowValue(f, f[j])) < l
  BY <1>2, <1>4, <1>6, <1>7
<1>9. /\ Detect!TwiceMedian(f) = f[i] + f[j]
      /\ 2 * Cardinality(UpToValue(f, f[i])) >= size
      /\ 2 * Cardinality(BelowValue(f, f[i])) < size
      /\ 2 * Cardinality(UpToValue(f, f[j])) > size
      /\ 2 * Cardinality(BelowValue(f, f[j])) <= size
  <2> HIDE DEF size
  <2>1. Detect!TwiceMedian(f) = f[i] + f[j] BY <1>3, <1>6, <1>7
  <2>2. k \in Nat /\ l \in Nat BY <1>2
  <2> QED BY <1>1, <1>2, <1>5, <1>8, <2>1, <2>2
<1> QED BY <1>9

\* Two sets of places that have nothing in common are not more than all places.
LEMMA ApartCount ==
    ASSUME NEW D, IsFiniteSet(D), NEW A \in SUBSET D, NEW B \in SUBSET D, A \cap B = {}
    PROVE  /\ Cardinality(A) \in Nat /\ Cardinality(B) \in Nat /\ Cardinality(D) \in Nat
           /\ Cardinality(A) + Cardinality(B) <= Cardinality(D)
<1>1. IsFiniteSet(A) /\ IsFiniteSet(B) BY FS_Subset
<1>2. Cardinality(A) \in Nat /\ Cardinality(B) \in Nat /\ Cardinality(D) \in Nat
  BY <1>1, FS_CardinalityType
<1>3. Cardinality(A \cup B) = Cardinality(A) + Cardinality(B)
  <2>1. Cardinality(A \cup B) = Cardinality(A) + Cardinality(B) - Cardinality(A \cap B)
    BY <1>1, FS_Union
  <2>2. Cardinality(A \cap B) = 0 BY FS_EmptySet
  <2> QED BY <1>2, <2>1, <2>2
<1>4. Cardinality(A \cup B) <= Cardinality(D)
  <2>1. A \cup B \in SUBSET D OBVIOUS
  <2> QED BY <2>1, FS_Subset
<1> QED BY <1>2, <1>3, <1>4

\* The median is where more than half of the values are.
LEMMA MedianAmong ==
    ASSUME NEW f, IsFiniteSet(DOMAIN f), \A i \in DOMAIN f : f[i] \in Int,
           NEW M \in SUBSET DOMAIN f, 2 * Cardinality(M) > Cardinality(DOMAIN f),
           NEW lo \in Int, NEW hi \in Int, \A i \in M : lo <= f[i] /\ f[i] <= hi
    PROVE  /\ Detect!TwiceMedian(f) \in Int
           /\ 2 * lo <= Detect!TwiceMedian(f) /\ Detect!TwiceMedian(f) <= 2 * hi
<1> DEFINE size == Cardinality(DOMAIN f)
<1>1. size \in Nat /\ Cardinality(M) \in Nat BY FS_CardinalityType, FS_Subset
<1>2. DOMAIN f # {}
  <2>1. SUFFICES ASSUME DOMAIN f = {} PROVE FALSE OBVIOUS
  <2>2. M = {} /\ DOMAIN f = {} BY <2>1
  <2>3. Cardinality(M) = 0 /\ Cardinality(DOMAIN f) = 0 BY <2>2, FS_EmptySet
  <2> QED BY <2>3
<1>3. PICK i, j \in DOMAIN f :
         /\ Detect!TwiceMedian(f) = f[i] + f[j]
         /\ 2 * Cardinality(UpToValue(f, f[i])) >= size
         /\ 2 * Cardinality(BelowValue(f, f[i])) < size
         /\ 2 * Cardinality(UpToValue(f, f[j])) > size
         /\ 2 * Cardinality(BelowValue(f, f[j])) <= size
  BY <1>2, MedianIs
<1>4. ASSUME NEW k \in DOMAIN f, 2 * Cardinality(UpToValue(f, f[k])) >= size,
             2 * Cardinality(BelowValue(f, f[k])) <= size
      PROVE  f[k] \in Int /\ lo <= f[k] /\ f[k] <= hi
  <2>1. ASSUME f[k] < lo PROVE FALSE
    <3>1. UpToValue(f, f[k]) \in SUBSET DOMAIN f /\ UpToValue(f, f[k]) \cap M = {}
      BY <2>1 DEF UpToValue
    <3>2. /\ Cardinality(UpToValue(f, f[k])) \in Nat
          /\ Cardinality(UpToValue(f, f[k])) + Cardinality(M) <= size
      BY <3>1, ApartCount
    <3> QED BY <1>1, <1>4, <3>2
  <2>2. ASSUME f[k] > hi PROVE FALSE
    <3>1. BelowValue(f, f[k]) \in SUBSET DOMAIN f /\ M \in SUBSET BelowValue(f, f[k])
      BY <2>2 DEF BelowValue
    <3>2. IsFiniteSet(BelowValue(f, f[k])) BY <3>1, FS_Subset
    <3>3. /\ Cardinality(BelowValue(f, f[k])) \in Nat
          /\ Cardinality(M) <= Cardinality(BelowValue(f, f[k]))
      BY <3>1, <3>2, FS_Subset, FS_CardinalityType
    <3> QED BY <1>1, <1>4, <3>3
  <2> QED BY <2>1, <2>2
<1>5. /\ Cardinality(BelowValue(f, f[i])) \in Nat /\ Cardinality(UpToValue(f, f[j])) \in Nat
  <2>1. BelowValue(f, f[i]) \in SUBSET DOMAIN f /\ UpToValue(f, f[j]) \in SUBSET DOMAIN f
    BY DEF BelowValue, UpToValue
  <2> QED BY <2>1, FS_Subset, FS_CardinalityType
<1>6. f[i] \in Int /\ lo <= f[i] /\ f[i] <= hi
  <2>1. 2 * Cardinality(BelowValue(f, f[i])) <= size
    <3> HIDE DEF size
    <3> QED BY <1>1, <1>3, <1>5
  <2> QED BY <1>3, <1>4, <2>1
<1>7. f[j] \in Int /\ lo <= f[j] /\ f[j] <= hi
  <2>1. 2 * Cardinality(UpToValue(f, f[j])) >= size
    <3> HIDE DEF size
    <3> QED BY <1>1, <1>3, <1>5
  <2> QED BY <1>3, <1>4, <2>1
<1> QED BY <1>3, <1>6, <1>7

\* Of positive values fewer than half reach the sum of the middle ones.
LEMMA FewReachTwice ==
    ASSUME NEW f, IsFiniteSet(DOMAIN f), \A i \in DOMAIN f : f[i] \in Nat \ {0}, DOMAIN f # {},
           NEW X \in SUBSET DOMAIN f, \A i \in X : f[i] >= Detect!TwiceMedian(f)
    PROVE  /\ Detect!TwiceMedian(f) \in Nat /\ Detect!TwiceMedian(f) >= 2
           /\ 2 * Cardinality(X) < Cardinality(DOMAIN f)
<1> DEFINE size == Cardinality(DOMAIN f)
<1>1. PICK i, j \in DOMAIN f :
         /\ Detect!TwiceMedian(f) = f[i] + f[j]
         /\ 2 * Cardinality(UpToValue(f, f[j])) > size
  <2>1. \A k \in DOMAIN f : f[k] \in Int OBVIOUS
  <2> QED BY <2>1, MedianIs
<1>2. f[i] \in Nat \ {0} /\ f[j] \in Nat \ {0} OBVIOUS
<1>3. UpToValue(f, f[j]) \in SUBSET DOMAIN f /\ X \cap UpToValue(f, f[j]) = {}
  <2>1. ASSUME NEW x \in X, f[x] <= f[j] PROVE FALSE
    <3>1. f[x] >= f[i] + f[j] /\ f[x] \in Nat BY <1>1
    <3> QED BY <1>2, <2>1, <3>1
  <2> QED BY <2>1 DEF UpToValue
<1>4. /\ Cardinality(X) \in Nat /\ Cardinality(UpToValue(f, f[j])) \in Nat /\ size \in Nat
      /\ Cardinality(X) + Cardinality(UpToValue(f, f[j])) <= size
  BY <1>3, ApartCount
<1> HIDE DEF size
<1>5. 2 * Cardinality(X) < size BY <1>1, <1>4
<1> QED BY <1>1, <1>2, <1>5 DEF size

\* The score of a burst is capped.
LEMMA CappedScore ==
    ASSUME NEW more \in Int
    PROVE  Detect!Min({100, 70 + more}) = IF 100 <= 70 + more THEN 100 ELSE 70 + more
<1> DEFINE sum == 70 + more
<1>1. 100 \in Int /\ sum \in Int OBVIOUS
<1> HIDE DEF sum
<1>2. Detect!Min({100, sum}) = IF 100 <= sum THEN 100 ELSE sum BY <1>1, MaxOfTwo
<1> QED BY <1>2 DEF sum

\* A burst is flagged at the normal sensitivity, in fewer than half of the bins where
\* its template is active, and in every bin that has as many of it (rate_burst_scores).
THEOREM BurstsAlwaysStandOut ==
    ASSUME NEW tally, IsFiniteSet(DOMAIN tally), \A b \in DOMAIN tally : tally[b] \in Nat
    PROVE  Detect!BurstsStandOut(tally)
<1> DEFINE out == Detect!RateScores(tally)
           active == {b \in DOMAIN tally : tally[b] > 0}
           u == Detect!Restrict(tally, active)
           base2 == Detect!TwiceMedian(u)
           X == Detect!BurstBins(tally, base2)
           Over(b) == (30 * (2 * tally[b] - 6 * base2)) \div (6 * base2)
           quiet == Detect!SumOf(tally) < 12 \/ Detect!Cardinality(active) < 4
           Flags == {b \in DOMAIN out : out[b] > 0}
<1>1. out = IF quiet THEN [b \in DOMAIN tally |-> 0]
            ELSE [b \in DOMAIN tally |->
                    IF b \in X THEN Detect!Min({100, 70 + Over(b)}) ELSE 0]
  BY Zenon DEF Detect!RateScores
<1>2. IsFiniteSet(active) /\ Cardinality(active) \in Nat BY FS_Subset, FS_CardinalityType
<1>3. DOMAIN u = active /\ \A b \in active : u[b] = tally[b] /\ u[b] \in Nat \ {0}
  BY DEF Detect!Restrict
<1>4. X = {b \in DOMAIN tally : tally[b] >= 10 /\ 2 * tally[b] >= 6 * base2}
  BY Zenon DEF Detect!BurstBins
<1> HIDE DEF u, X
<1> SUFFICES /\ \A b \in DOMAIN tally : out[b] = 0 \/ out[b] \in 70 .. 100
             /\ 2 * Cardinality(Flags) < Cardinality(active) + 1
             /\ \A b, c \in DOMAIN tally :
                   out[b] > 0 /\ tally[c] >= tally[b] => out[c] >= out[b]
  BY DetectCardinality, Zenon DEF Detect!BurstsStandOut
<1>5. CASE quiet
  <2>1. out = [b \in DOMAIN tally |-> 0] BY <1>1, <1>5
  <2> HIDE DEF out, quiet, active
  <2>2. Flags = {} BY <2>1
  <2>3. Cardinality(Flags) = 0 BY <2>2, FS_EmptySet
  <2> HIDE DEF Flags
  <2> QED BY <1>2, <2>1, <2>3
<1>6. CASE ~quiet
  <2>1. out = [b \in DOMAIN tally |->
                  IF b \in X THEN Detect!Min({100, 70 + Over(b)}) ELSE 0]
    BY <1>1, <1>6
  <2>2. DOMAIN u # {}
    <3>1. ~(Cardinality(active) < 4) BY <1>6, DetectCardinality
    <3> HIDE DEF active
    <3>2. active # {}
      <4>1. 0 < 4 OBVIOUS
      <4> QED BY <3>1, <4>1, FS_EmptySet
    <3> QED BY <1>3, <3>2
  <2> HIDE DEF out, quiet, base2
  <2>3. base2 \in Nat /\ base2 >= 2
    <3>1. {} \in SUBSET DOMAIN u OBVIOUS
    <3>2. IsFiniteSet(DOMAIN u) /\ \A b \in DOMAIN u : u[b] \in Nat \ {0} BY <1>2, <1>3
    <3> QED BY <2>2, <3>1, <3>2, FewReachTwice DEF base2
  <2>4. X \in SUBSET DOMAIN u /\ \A b \in X : u[b] >= base2 BY <1>3, <1>4, <2>3
  <2>5. 2 * Cardinality(X) < Cardinality(active)
    <3>1. IsFiniteSet(DOMAIN u) /\ \A b \in DOMAIN u : u[b] \in Nat \ {0} BY <1>2, <1>3
    <3> QED BY <1>3, <2>2, <2>4, <3>1, FewReachTwice DEF base2
  <2>6. ASSUME NEW b \in X
        PROVE  /\ b \in DOMAIN tally /\ tally[b] \in Nat /\ Over(b) \in Nat
               /\ out[b] = IF 100 <= 70 + Over(b) THEN 100 ELSE 70 + Over(b)
    <3> DEFINE a == 30 * (2 * tally[b] - 6 * base2)
               d == 6 * base2
               more == Over(b)
    <3>1. b \in DOMAIN tally /\ tally[b] \in Nat /\ 2 * tally[b] >= 6 * base2 BY <1>4
    <3>2. a \in Nat /\ d \in Nat /\ d > 0 BY <2>3, <3>1
    <3>3. more = a \div d OBVIOUS
    <3> HIDE DEF a, d, more
    <3>4. more \in Nat BY <3>2, <3>3, QuotientIs
    <3>5. Detect!Min({100, 70 + more}) = IF 100 <= 70 + more THEN 100 ELSE 70 + more
      BY <3>4, CappedScore
    <3>6. out[b] = Detect!Min({100, 70 + more}) BY <2>1, <3>1 DEF more
    <3> QED BY <3>1, <3>4, <3>5, <3>6 DEF more
  <2>7. ASSUME NEW b \in X, NEW c \in DOMAIN tally, tally[c] >= tally[b]
        PROVE  c \in X /\ Over(b) <= Over(c)
    <3>1. tally[b] \in Nat /\ tally[c] \in Nat /\ tally[b] >= 10 /\ 2 * tally[b] >= 6 * base2
      BY <1>4
    <3>2. c \in X BY <1>4, <2>3, <2>7, <3>1
    <3> DEFINE a == 30 * (2 * tally[b] - 6 * base2)
               e == 30 * (2 * tally[c] - 6 * base2)
               d == 6 * base2
    <3>3. a \in Nat /\ e \in Nat /\ d \in Nat /\ d > 0 /\ a <= e BY <2>3, <2>7, <3>1
    <3>4. a \div d <= e \div d
      <4> HIDE DEF a, e, d
      <4> QED BY <3>3, QuotientOrdered
    <3> QED BY <3>2, <3>4
  <2> HIDE DEF Over
  <2>8. \A b \in DOMAIN tally : b \notin X => out[b] = 0 BY <2>1
  <2>9. \A b \in DOMAIN tally : out[b] = 0 \/ out[b] \in 70 .. 100 BY <2>6, <2>8
  <2>10. Flags = X
    <3>1. DOMAIN out = DOMAIN tally /\ X \subseteq DOMAIN tally BY <1>4, <2>1
    <3>2. \A b \in X : out[b] > 0 BY <2>6
    <3>3. \A b \in DOMAIN tally : b \notin X => ~(out[b] > 0) BY <2>8
    <3> QED BY <3>1, <3>2, <3>3
  <2>11. ASSUME NEW b \in DOMAIN tally, NEW c \in DOMAIN tally, out[b] > 0,
                tally[c] >= tally[b]
         PROVE  out[c] >= out[b]
    <3>1. b \in X BY <2>8, <2>11
    <3>2. c \in X /\ Over(b) <= Over(c) BY <2>7, <2>11, <3>1
    <3> QED BY <2>6, <3>1, <3>2
  <2>12. 2 * Cardinality(Flags) < Cardinality(active) + 1
    <3>1. Cardinality(X) \in Nat
      <4>1. IsFiniteSet(X) BY <1>2, <1>3, <2>4, FS_Subset
      <4> QED BY <4>1, FS_CardinalityType
    <3> HIDE DEF active, Flags
    <3> QED BY <1>2, <2>5, <2>10, <3>1
  <2> QED BY <2>9, <2>11, <2>12
<1> QED BY <1>5, <1>6

\* A value far from the median, by the deviations and by the median itself.
FarOut(x, med2, mad4) ==
    /\ 6745 * 2 * Detect!Abs(2 * x - med2) >= 50000 * mad4
    /\ Detect!Abs(2 * x - med2) >= 3 * Detect!Max({Detect!Abs(med2), 2})

LEMMA OutliersAre ==
    ASSUME NEW values, NEW med2, med2 = Detect!TwiceMedian(values),
           NEW mad4, mad4 = Detect!Spread(values, med2)
    PROVE  Detect!ParameterOutliers(values) =
              IF Len(values) < 12 \/ mad4 <= 0 THEN {}
              ELSE {i \in DOMAIN values : FarOut(values[i], med2, mad4)}
BY DEF Detect!ParameterOutliers, Detect!Where, FarOut

\* Values ten times larger than most are flagged however many there are, and none of
\* the usual ones is, unless half of all values are the same (parameter_anomaly_scores).
THEOREM OutliersNeverMasked ==
    ASSUME NEW values \in Seq(Int), NEW usual \in Nat \ {0}
    PROVE  Detect!OutliersUnmasked(values, usual)
<1> DEFINE O == Detect!ParameterOutliers(values)
           most == {i \in DOMAIN values : values[i] \in usual .. 2 * usual}
           Same(v) == {i \in DOMAIN values : values[i] = v}
           size == Len(values)
           med2 == Detect!TwiceMedian(values)
           dev == [i \in DOMAIN values |-> Detect!Abs(2 * values[i] - med2)]
           mad4 == Detect!TwiceMedian(dev)
<1> SUFFICES ASSUME size >= 12, 2 * Cardinality(most) > size + 1,
                    \A v \in {values[i] : i \in DOMAIN values} : 2 * Cardinality(Same(v)) < size
             PROVE  /\ O \cap most = {}
                    /\ \A i \in DOMAIN values : values[i] >= 20 * usual => i \in O
  BY DetectCardinality, Zenon DEF Detect!OutliersUnmasked, Detect!Range
<1>1. /\ DOMAIN values = 1 .. size /\ size \in Nat
      /\ IsFiniteSet(DOMAIN values) /\ Cardinality(DOMAIN values) = size
      /\ \A i \in DOMAIN values : values[i] \in Int
  <2>1. DOMAIN values = 1 .. size /\ size \in Nat OBVIOUS
  <2>2. IsFiniteSet(1 .. size) /\ Cardinality(1 .. size) = size
    <3> HIDE DEF size
    <3>1. 1 \in Int /\ size \in Int BY <2>1
    <3> QED BY <2>1, <3>1, FS_Interval
  <2> QED BY <2>1, <2>2
<1>2. most \in SUBSET DOMAIN values /\ Cardinality(most) \in Nat
      /\ \A i \in most : usual <= values[i] /\ values[i] <= 2 * usual
  <2>1. most \in SUBSET DOMAIN values OBVIOUS
  <2>2. Cardinality(most) \in Nat BY <1>1, <2>1, FS_Subset, FS_CardinalityType
  <2>3. \A i \in most : usual <= values[i] /\ values[i] <= 2 * usual OBVIOUS
  <2> QED BY <2>1, <2>2, <2>3
<1>3. 2 * Cardinality(most) > Cardinality(DOMAIN values) BY <1>1, <1>2
<1>4. med2 \in Int /\ 2 * usual <= med2 /\ med2 <= 4 * usual
  <2>1. 2 * usual \in Int /\ usual \in Int OBVIOUS
  <2>2. /\ med2 \in Int /\ 2 * usual <= med2 /\ med2 <= 2 * (2 * usual)
    <3> HIDE DEF most
    <3> QED BY <1>1, <1>2, <1>3, <2>1, MedianAmong
  <2> HIDE DEF med2
  <2> QED BY <2>2
<1> HIDE DEF med2, size
<1>5. /\ DOMAIN dev = DOMAIN values
      /\ \A i \in DOMAIN values :
            /\ dev[i] \in Nat
            /\ dev[i] = IF 2 * values[i] - med2 < 0 THEN med2 - 2 * values[i]
                                                     ELSE 2 * values[i] - med2
  BY <1>1, <1>4 DEF Detect!Abs
<1> HIDE DEF dev
<1>6. \A i \in most : 0 <= dev[i] /\ dev[i] <= 2 * usual BY <1>2, <1>4, <1>5
<1>7. mad4 \in Int /\ mad4 <= 4 * usual
  <2>1. 2 * usual \in Int /\ 0 \in Int OBVIOUS
  <2>2. /\ IsFiniteSet(DOMAIN dev) /\ \A i \in DOMAIN dev : dev[i] \in Int
        /\ most \in SUBSET DOMAIN dev /\ 2 * Cardinality(most) > Cardinality(DOMAIN dev)
    BY <1>1, <1>2, <1>3, <1>5
  <2>3. mad4 \in Int /\ mad4 <= 2 * (2 * usual)
    <3> HIDE DEF most
    <3> QED BY <1>6, <2>1, <2>2, MedianAmong
  <2> HIDE DEF mad4
  <2> QED BY <2>3
<1>8. mad4 > 0
  <2>1. /\ IsFiniteSet(DOMAIN dev) /\ \A i \in DOMAIN dev : dev[i] \in Int /\ dev[i] \in Nat
        /\ DOMAIN dev # {} /\ Cardinality(DOMAIN dev) = size
    BY <1>1, <1>5
  <2>2. PICK i, j \in DOMAIN dev :
           /\ mad4 = dev[i] + dev[j]
           /\ 2 * Cardinality(UpToValue(dev, dev[j])) > size
    BY <2>1, MedianIs
  <2>3. ASSUME dev[j] = 0 PROVE FALSE
    <3> DEFINE v == values[j]
    <3>1. UpToValue(dev, dev[j]) \in SUBSET Same(v)
      <4>1. ASSUME NEW k \in UpToValue(dev, dev[j]) PROVE k \in DOMAIN values /\ values[k] = v
        <5>1. k \in DOMAIN values /\ dev[k] <= 0 BY <1>5, <2>3, <4>1 DEF UpToValue
        <5>2. dev[k] = 0 BY <1>5, <5>1
        <5>3. j \in DOMAIN values BY <1>5
        <5>4. ASSUME NEW m \in DOMAIN values, dev[m] = 0 PROVE 2 * values[m] = med2
          <6>1. values[m] \in Int /\ med2 \in Int BY <1>1, <1>4
          <6>2. 0 = IF 2 * values[m] - med2 < 0 THEN med2 - 2 * values[m]
                                                ELSE 2 * values[m] - med2
            BY <1>5, <5>4
          <6> QED BY <6>1, <6>2
        <5>5. 2 * values[k] = med2 /\ 2 * values[j] = med2 BY <2>3, <5>1, <5>2, <5>3, <5>4
        <5>6. values[k] \in Int /\ values[j] \in Int BY <1>1, <5>1, <5>3
        <5>7. values[k] = values[j] BY <5>5, <5>6
        <5> QED BY <5>1, <5>7
      <4> QED BY <4>1
    <3>2. IsFiniteSet(Same(v)) /\ Cardinality(Same(v)) \in Nat
      BY <1>1, FS_Subset, FS_CardinalityType
    <3>3. v \in {values[k] : k \in DOMAIN values} BY <1>5
    <3>4. 2 * Cardinality(Same(v)) < size BY <3>3
    <3> HIDE DEF Same, v
    <3>5. /\ Cardinality(UpToValue(dev, dev[j])) \in Nat
          /\ Cardinality(UpToValue(dev, dev[j])) <= Cardinality(Same(v))
      BY <3>1, <3>2, FS_Subset, FS_CardinalityType
    <3> QED BY <1>1, <2>2, <3>2, <3>4, <3>5
  <2> QED BY <2>1, <2>2, <2>3
<1>9. O = IF size < 12 \/ mad4 <= 0 THEN {}
          ELSE {i \in DOMAIN values : FarOut(values[i], med2, mad4)}
  <2>1. mad4 = Detect!Spread(values, med2) BY Zenon DEF Detect!Spread, dev
  <2>2. med2 = Detect!TwiceMedian(values) BY DEF med2
  <2> HIDE DEF mad4, O
  <2>3. O = IF Len(values) < 12 \/ mad4 <= 0 THEN {}
            ELSE {i \in DOMAIN values : FarOut(values[i], med2, mad4)}
    BY <2>1, <2>2, OutliersAre DEF O
  <2> QED BY <2>3 DEF size
<1> HIDE DEF mad4
<1>10. O = {i \in DOMAIN values : FarOut(values[i], med2, mad4)}
  <2>1. ~(size < 12 \/ mad4 <= 0) BY <1>1, <1>7, <1>8
  <2> HIDE DEF O
  <2> QED BY <1>9, <2>1
<1> HIDE DEF O
<1>11. Detect!Max({Detect!Abs(med2), 2}) = med2
  <2>1. Detect!Abs(med2) = med2 BY <1>4 DEF Detect!Abs
  <2>2. Detect!Max({med2, 2}) = IF med2 >= 2 THEN med2 ELSE 2 BY <1>4, MaxOfTwo
  <2> QED BY <1>4, <2>1, <2>2
<1>12. \A i \in DOMAIN values : Detect!Abs(2 * values[i] - med2) = dev[i] BY DEF dev
<1>13. ASSUME NEW i \in most PROVE i \notin O
  <2>1. i \in DOMAIN values /\ dev[i] <= 2 * usual /\ dev[i] \in Nat BY <1>2, <1>5, <1>6
  <2>2. ~(dev[i] >= 3 * med2) BY <1>4, <2>1
  <2>3. ~FarOut(values[i], med2, mad4) BY <1>11, <1>12, <2>1, <2>2 DEF FarOut
  <2> QED BY <1>10, <2>3
<1>14. ASSUME NEW i \in DOMAIN values, values[i] >= 20 * usual PROVE i \in O
  <2>1. dev[i] \in Nat /\ dev[i] >= 36 * usual BY <1>1, <1>4, <1>5, <1>14
  <2>2. 6745 * 2 * dev[i] >= 50000 * mad4 BY <1>7, <2>1
  <2>3. dev[i] >= 3 * med2 BY <1>4, <2>1
  <2>4. FarOut(values[i], med2, mad4) BY <1>11, <1>12, <2>2, <2>3 DEF FarOut
  <2> QED BY <1>10, <2>4
<1> QED BY <1>13, <1>14

\* The lines of a severity that have a time, and how many there are in each window.
TimedOf(lines, s) == {i \in DOMAIN lines : lines[i].window >= 0 /\ lines[i].sev = s}
WindowCount(lines, s) ==
    [w \in {lines[i].window : i \in TimedOf(lines, s)} |->
        Fuse!Cardinality({i \in TimedOf(lines, s) : lines[i].window = w})]

\* The lines in bursts are those of some severities in their hot windows.
LEMMA BurstsAre ==
    ASSUME NEW lines, NEW least, NEW factor
    PROVE  \E T : \A i : i \in Fuse!Bursts(lines, least, factor) <=>
              \E s \in T : /\ i \in TimedOf(lines, s)
                           /\ lines[i].window \in Fuse!Hot(WindowCount(lines, s), least, factor)
<1> DEFINE enough == Fuse!Cardinality({i \in DOMAIN lines : lines[i].window >= 0})
                     >= Fuse!Max({2 * least, 20})
           T == {t \in 0 .. 4 : /\ enough
                                /\ Fuse!Cardinality(TimedOf(lines, t)) >= least
                                /\ Fuse!Cardinality(DOMAIN WindowCount(lines, t)) >= 2}
           Bursting(s) == {i \in TimedOf(lines, s) :
                             lines[i].window \in Fuse!Hot(WindowCount(lines, s), least, factor)}
<1>1. Fuse!Bursts(lines, least, factor) = UNION {Bursting(s) : s \in T}
  BY Zenon DEF Fuse!Bursts, TimedOf, WindowCount
<1> HIDE DEF T
<1>2. \A i : i \in UNION {Bursting(s) : s \in T} <=> \E s \in T : i \in Bursting(s)
  OBVIOUS
<1> WITNESS T
<1> QED BY <1>1, <1>2

\* Hot windows are fewer than half.
LEMMA HotAreFew ==
    ASSUME NEW tally, IsFiniteSet(DOMAIN tally), \A w \in DOMAIN tally : tally[w] \in Nat \ {0},
           NEW least, NEW factor \in Int, factor >= 2
    PROVE  /\ Fuse!Hot(tally, least, factor) \in SUBSET DOMAIN tally
           /\ 2 * Cardinality(Fuse!Hot(tally, least, factor)) <= Cardinality(DOMAIN tally)
<1> DEFINE X == Fuse!Hot(tally, least, factor)
           med2 == Detect!TwiceMedian(tally)
           m == Detect!Max({2, med2})
<1>1. X = {w \in DOMAIN tally : tally[w] >= least /\ 2 * tally[w] >= factor * m}
  BY FuseIsDetect, Zenon DEF Fuse!Hot
<1> HIDE DEF X, m
<1>2. X \in SUBSET DOMAIN tally BY <1>1
<1>3. CASE DOMAIN tally = {}
  <2>1. X = {} BY <1>2, <1>3
  <2>2. Cardinality(X) = 0 /\ Cardinality(DOMAIN tally) = 0 BY <1>3, <2>1, FS_EmptySet
  <2> QED BY <1>2, <2>2 DEF X
<1>4. CASE DOMAIN tally # {}
  <2>1. med2 \in Nat
    <3>1. {} \in SUBSET DOMAIN tally OBVIOUS
    <3> QED BY <1>4, <3>1, FewReachTwice
  <2> HIDE DEF med2
  <2>2. m = IF 2 >= med2 THEN 2 ELSE med2 BY <2>1, MaxOfTwo DEF m
  <2>3. m \in Nat /\ m >= med2 BY <2>1, <2>2
  <2>4. factor * m >= 2 * m
    <3>1. (factor - 2) * m >= 0
      <4>1. factor - 2 \in Nat OBVIOUS
      <4> QED BY <2>3, <4>1
    <3>2. factor * m = (factor - 2) * m + 2 * m BY <2>3
    <3> QED BY <2>3, <3>1, <3>2
  <2>5. \A w \in X : tally[w] >= med2
    <3> TAKE w \in X
    <3>1. tally[w] \in Nat /\ 2 * tally[w] >= factor * m BY <1>1
    <3>2. factor * m \in Int BY <2>3
    <3> DEFINE fm == factor * m
    <3> HIDE DEF fm
    <3>3. 2 * tally[w] >= fm /\ fm >= 2 * m /\ fm \in Int BY <2>4, <3>1, <3>2 DEF fm
    <3> QED BY <2>1, <2>3, <3>1, <3>3
  <2>6. 2 * Cardinality(X) < Cardinality(DOMAIN tally) BY <1>2, <1>4, <2>5, FewReachTwice DEF med2
  <2>7. Cardinality(X) \in Nat /\ Cardinality(DOMAIN tally) \in Nat
    BY <1>2, FS_Subset, FS_CardinalityType
  <2>8. 2 * Cardinality(X) <= Cardinality(DOMAIN tally) BY <2>6, <2>7
  <2> QED BY <1>2, <2>8 DEF X
<1> QED BY <1>3, <1>4

\* A burst is at most half of the windows of its severity, for every factor of two
\* or more, and takes all lines of its severity in its windows (detect_bursts).
THEOREM BurstsAlwaysExceptional ==
    ASSUME NEW lines, IsFiniteSet(DOMAIN lines), NEW least, NEW factor \in Int, factor >= 2
    PROVE  Fuse!BurstsExceptional(lines, least, factor)
<1> DEFINE B == Fuse!Bursts(lines, least, factor)
           Timed == {i \in DOMAIN lines : lines[i].window >= 0}
           Panes(I, s) == {lines[i].window : i \in {j \in I : lines[j].sev = s}}
           H(s) == Fuse!Hot(WindowCount(lines, s), least, factor)
<1>1. PICK T : \A i : i \in B <=> \E s \in T : i \in TimedOf(lines, s) /\ lines[i].window \in H(s)
  BY BurstsAre
<1> HIDE DEF B
<1>2. \A i : i \in B <=> /\ i \in Timed /\ lines[i].sev \in T
                         /\ lines[i].window \in H(lines[i].sev)
  <2> HIDE DEF H
  <2> QED BY <1>1 DEF TimedOf
<1>3. B \subseteq Timed BY <1>2
<1>4. ASSUME NEW s
      PROVE  /\ H(s) \in SUBSET DOMAIN WindowCount(lines, s)
             /\ 2 * Cardinality(H(s)) <= Cardinality(DOMAIN WindowCount(lines, s))
             /\ IsFiniteSet(DOMAIN WindowCount(lines, s))
  <2> DEFINE I == TimedOf(lines, s)
             tally == WindowCount(lines, s)
             f == [i \in I |-> lines[i].window]
  <2>1. IsFiniteSet(I)
    <3>1. I \in SUBSET DOMAIN lines BY DEF TimedOf
    <3> HIDE DEF I
    <3> QED BY <3>1, FS_Subset
  <2>2. DOMAIN tally = {f[i] : i \in I} BY DEF WindowCount
  <2>3. IsFiniteSet(DOMAIN tally)
    <3> HIDE DEF f, I, tally
    <3> QED BY <2>1, <2>2, ValuesAreFinite
  <2>4. \A w \in DOMAIN tally : tally[w] \in Nat \ {0}
    <3> TAKE w \in DOMAIN tally
    <3> DEFINE J == {i \in I : lines[i].window = w}
    <3>1. tally[w] = Cardinality(J) BY DetectCardinality DEF WindowCount
    <3>2. J # {} BY <2>2
    <3>3. IsFiniteSet(J)
      <4>1. J \in SUBSET I OBVIOUS
      <4> HIDE DEF J, I
      <4> QED BY <2>1, <4>1, FS_Subset
    <3> HIDE DEF J
    <3>4. Cardinality(J) \in Nat /\ Cardinality(J) # 0 BY <3>2, <3>3, FS_EmptySet, FS_CardinalityType
    <3> QED BY <3>1, <3>4
  <2> HIDE DEF tally
  <2> QED BY <2>3, <2>4, HotAreFew DEF tally
<1>5. ASSUME NEW s PROVE 2 * Cardinality(Panes(B, s)) <= Cardinality(Panes(Timed, s))
  <2>1. Panes(Timed, s) = DOMAIN WindowCount(lines, s) BY DEF WindowCount, TimedOf
  <2>2. Panes(B, s) \in SUBSET H(s)
    <3> HIDE DEF H
    <3> QED BY <1>2
  <2> DEFINE W == Panes(B, s)
             D == DOMAIN WindowCount(lines, s)
  <2> HIDE DEF W, D
  <2>3. H(s) \in SUBSET D /\ 2 * Cardinality(H(s)) <= Cardinality(D) /\ IsFiniteSet(D)
    BY <1>4 DEF D
  <2> HIDE DEF H
  <2>4. W \in SUBSET H(s) BY <2>2 DEF W
  <2>5. IsFiniteSet(H(s)) BY <2>3, FS_Subset
  <2>6. /\ Cardinality(W) \in Nat /\ Cardinality(H(s)) \in Nat /\ Cardinality(D) \in Nat
        /\ Cardinality(W) <= Cardinality(H(s))
    <3>1. IsFiniteSet(W) /\ Cardinality(W) <= Cardinality(H(s)) BY <2>4, <2>5, FS_Subset
    <3> QED BY <2>3, <2>5, <3>1, FS_CardinalityType
  <2>7. 2 * Cardinality(W) <= Cardinality(D) BY <2>3, <2>6
  <2> QED BY <2>1, <2>7 DEF W, D
<1>6. ASSUME NEW i \in Timed PROVE i \in B <=> lines[i].window \in Panes(B, lines[i].sev)
  <2>1. ASSUME i \in B PROVE lines[i].window \in Panes(B, lines[i].sev) BY <2>1
  <2>2. ASSUME lines[i].window \in Panes(B, lines[i].sev) PROVE i \in B
    <3>1. PICK j \in B : lines[j].sev = lines[i].sev /\ lines[j].window = lines[i].window
      BY <2>2
    <3> HIDE DEF H, Timed
    <3> QED BY <1>2, <3>1
  <2> QED BY <2>1, <2>2
<1> HIDE DEF H
<1> QED BY <1>3, <1>5, <1>6, DetectCardinality, Zenon DEF Fuse!BurstsExceptional, B

\* A quotient and its rest.
LEMMA QuotientRest ==
    ASSUME NEW a \in Nat, NEW d \in Nat, d > 0
    PROVE  a \div d \in Nat /\ (a \div d) * d <= a /\ a < (a \div d) * d + d
<1> DEFINE q == a \div d
<1>1. q \in Nat /\ a = d * q + (a % d) /\ a % d \in 0 .. d - 1 OBVIOUS
<1> HIDE DEF q
<1>2. d * q = q * d BY <1>1
<1>3. q * d \in Nat BY <1>1
<1>4. q * d <= a /\ a < q * d + d BY <1>1, <1>2, <1>3
<1> QED BY <1>1, <1>4 DEF q

\* The bin of a line, by its place.
LEMMA BinIs ==
    ASSUME NEW size \in Nat \ {0}, NEW bins \in Nat \ {0}, NEW i \in 1 .. size
    PROVE  LET b == Detect!BinOf(i, size, bins)
           IN  /\ b \in 0 .. bins - 1 /\ b = ((i - 1) * bins) \div size
               /\ b * size <= (i - 1) * bins /\ (i - 1) * bins < b * size + size
<1> DEFINE a == (i - 1) * bins
           q == a \div size
           last == bins - 1
<1>1. i - 1 \in Nat /\ i - 1 <= size - 1 /\ bins \in Nat /\ size \in Nat /\ size > 0 OBVIOUS
<1>2. a \in Nat BY <1>1
<1>3. a < size * bins
  <2>1. (size - (i - 1)) * bins > 0
    <3>1. size - (i - 1) \in Nat \ {0} BY <1>1
    <3> QED BY <3>1
  <2>2. (size - (i - 1)) * bins = size * bins - a BY <1>1
  <2>3. size * bins \in Nat BY <1>1
  <2> HIDE DEF a
  <2> QED BY <1>2, <2>1, <2>2, <2>3
<1>4. q \in Nat /\ q * size <= a /\ a < q * size + size
  <2> HIDE DEF a
  <2> QED BY <1>1, <1>2, QuotientRest
<1>5. last \in Nat OBVIOUS
<1> HIDE DEF a, q
<1>6. q <= last
  <2>1. SUFFICES ASSUME q >= bins PROVE FALSE BY <1>4, <1>5
  <2>2. (q - bins) * size >= 0
    <3>1. q - bins \in Nat BY <1>4, <2>1
    <3> QED BY <1>1, <3>1
  <2>3. (q - bins) * size = q * size - size * bins BY <1>1, <1>4
  <2>4. q * size \in Nat /\ size * bins \in Nat BY <1>1, <1>4
  <2> QED BY <1>2, <1>3, <1>4, <2>2, <2>3, <2>4
<1>7. Detect!BinOf(i, size, bins) = q
  <2>1. Detect!BinOf(i, size, bins) = Detect!Min({last, q}) BY Zenon DEF Detect!BinOf, a, q
  <2> HIDE DEF last
  <2>2. Detect!Min({last, q}) = IF last <= q THEN last ELSE q BY <1>4, <1>5, MaxOfTwo
  <2> QED BY <1>4, <1>5, <1>6, <2>1, <2>2
<1> QED BY <1>4, <1>5, <1>6, <1>7 DEF q, a

\* How many lines a bin has: as many as fit, rounded up or down.
LEMMA BinSize ==
    ASSUME NEW size \in Nat \ {0}, NEW bins \in Nat \ {0}, NEW b \in 0 .. bins - 1
    PROVE  LET here == Cardinality({i \in 1 .. size : Detect!BinOf(i, size, bins) = b})
           IN  here \in Nat /\ here * bins <= size + bins - 1 /\ here * bins >= size - bins + 1
<1> DEFINE Here == {i \in 1 .. size : Detect!BinOf(i, size, bins) = b}
           Up(x) == (x * size + bins - 1) \div bins
           lo == Up(b)
           hi == Up(b + 1)
<1>1. b \in Nat /\ b + 1 \in Nat /\ b + 1 <= bins /\ bins \in Nat /\ bins > 0 /\ size \in Nat /\ size > 0
  OBVIOUS
<1>2. ASSUME NEW x \in Nat
      PROVE  Up(x) \in Nat /\ x * size <= Up(x) * bins /\ Up(x) * bins <= x * size + bins - 1
  <2> DEFINE a == x * size
             e == a + bins - 1
  <2>1. a \in Nat /\ e \in Nat BY <1>1
  <2>2. Up(x) = e \div bins OBVIOUS
  <2>3. e \div bins \in Nat /\ (e \div bins) * bins <= e /\ e < (e \div bins) * bins + bins
    <3> HIDE DEF e
    <3> QED BY <1>1, <2>1, QuotientRest
  <2> DEFINE p == (e \div bins) * bins
  <2>4. p \in Nat /\ p <= e /\ e < p + bins BY <1>1, <2>3
  <2>5. a <= p /\ p <= a + bins - 1
    <3> HIDE DEF a, p
    <3> QED BY <1>1, <2>1, <2>4
  <2> QED BY <2>2, <2>3, <2>5
<1>3. /\ lo \in Nat /\ b * size <= lo * bins /\ lo * bins <= b * size + bins - 1
      /\ hi \in Nat /\ (b + 1) * size <= hi * bins /\ hi * bins <= (b + 1) * size + bins - 1
  BY <1>1, <1>2
<1> HIDE DEF lo, hi, Up
<1> DEFINE at == b * size
           l == lo * bins
           h == hi * bins
<1>4. /\ at \in Nat /\ l \in Nat /\ h \in Nat /\ (b + 1) * size = at + size
      /\ at <= l /\ l <= at + bins - 1 /\ at + size <= h /\ h <= at + size + bins - 1
  <2>1. at \in Nat /\ l \in Nat /\ h \in Nat /\ (b + 1) * size = at + size BY <1>1, <1>3
  <2> QED BY <1>3, <2>1
<1>5. ASSUME NEW i \in 1 .. size PROVE Detect!BinOf(i, size, bins) = b <=> lo + 1 <= i /\ i <= hi
  <2> DEFINE j == i - 1
             k == j * bins
             c == Detect!BinOf(i, size, bins)
  <2>1. j \in Nat /\ k \in Nat BY <1>1
  <2>2. c \in 0 .. bins - 1 /\ c * size <= k /\ k < c * size + size BY BinIs
  <2> HIDE DEF c
  <2>3. c = b <=> at <= k /\ k < at + size
    <3>1. CASE c = b BY <2>2, <3>1
    <3>2. CASE c >= b + 1
      <4>1. (c - (b + 1)) * size >= 0
        <5>1. c - (b + 1) \in Nat BY <1>1, <2>2, <3>2
        <5> QED BY <1>1, <5>1
      <4>2. (c - (b + 1)) * size = c * size - (at + size) BY <1>1, <2>2
      <4>3. c * size \in Nat BY <1>1, <2>2
      <4> HIDE DEF at, k
      <4> QED BY <1>1, <1>4, <2>1, <2>2, <3>2, <4>1, <4>2, <4>3
    <3>3. CASE b >= c + 1
      <4>1. (b - (c + 1)) * size >= 0
        <5>1. b - (c + 1) \in Nat BY <1>1, <2>2, <3>3
        <5> QED BY <1>1, <5>1
      <4>2. (b - (c + 1)) * size = at - (c * size + size) BY <1>1, <2>2
      <4>3. c * size \in Nat BY <1>1, <2>2
      <4> HIDE DEF at, k
      <4> QED BY <1>1, <1>4, <2>1, <2>2, <3>3, <4>1, <4>2, <4>3
    <3> QED BY <1>1, <2>2, <3>1, <3>2, <3>3
  <2>4. at <= k <=> lo <= j
    <3>1. ASSUME lo <= j PROVE at <= k
      <4>1. (j - lo) * bins >= 0
        <5>1. j - lo \in Nat BY <1>3, <2>1, <3>1
        <5> QED BY <1>1, <5>1
      <4>2. (j - lo) * bins = k - l BY <1>1, <1>3, <2>1
      <4> HIDE DEF at, k, l
      <4> QED BY <1>4, <2>1, <4>1, <4>2
    <3>2. ASSUME lo >= j + 1 PROVE ~(at <= k)
      <4>1. (lo - (j + 1)) * bins >= 0
        <5>1. lo - (j + 1) \in Nat BY <1>3, <2>1, <3>2
        <5> QED BY <1>1, <5>1
      <4>2. (lo - (j + 1)) * bins = l - k - bins BY <1>1, <1>3, <2>1
      <4> HIDE DEF at, k, l
      <4> QED BY <1>1, <1>4, <2>1, <4>1, <4>2
    <3>3. lo <= j \/ lo >= j + 1 BY <1>3, <2>1
    <3> HIDE DEF at, k, j
    <3> QED BY <1>3, <2>1, <3>1, <3>2, <3>3
  <2>5. k < at + size <=> j < hi
    <3>1. ASSUME hi <= j PROVE ~(k < at + size)
      <4>1. (j - hi) * bins >= 0
        <5>1. j - hi \in Nat BY <1>3, <2>1, <3>1
        <5> QED BY <1>1, <5>1
      <4>2. (j - hi) * bins = k - h BY <1>1, <1>3, <2>1
      <4> HIDE DEF at, k, h
      <4> QED BY <1>1, <1>4, <2>1, <4>1, <4>2
    <3>2. ASSUME hi >= j + 1 PROVE k < at + size
      <4>1. (hi - (j + 1)) * bins >= 0
        <5>1. hi - (j + 1) \in Nat BY <1>3, <2>1, <3>2
        <5> QED BY <1>1, <5>1
      <4>2. (hi - (j + 1)) * bins = h - k - bins BY <1>1, <1>3, <2>1
      <4> HIDE DEF at, k, h
      <4> QED BY <1>1, <1>4, <2>1, <4>1, <4>2
    <3>3. hi <= j \/ hi >= j + 1 BY <1>3, <2>1
    <3>4. hi <= j <=> ~(j < hi) BY <1>3, <2>1
    <3> HIDE DEF at, k, j
    <3> QED BY <1>3, <2>1, <3>1, <3>2, <3>3, <3>4
  <2>6. lo <= j /\ j < hi <=> lo + 1 <= i /\ i <= hi BY <1>3
  <2> HIDE DEF at, k, j
  <2> QED BY <2>3, <2>4, <2>5, <2>6 DEF c
<1>6. hi <= size
  <2>1. SUFFICES ASSUME hi >= size + 1 PROVE FALSE BY <1>3
  <2>2. (hi - (size + 1)) * bins >= 0
    <3>1. hi - (size + 1) \in Nat BY <1>3, <2>1
    <3> QED BY <1>1, <3>1
  <2>3. (hi - (size + 1)) * bins = h - size * bins - bins BY <1>1, <1>3
  <2>4. (bins - (b + 1)) * size >= 0
    <3>1. bins - (b + 1) \in Nat BY <1>1
    <3> QED BY <1>1, <3>1
  <2>5. (bins - (b + 1)) * size = size * bins - (at + size) BY <1>1
  <2>6. size * bins \in Nat BY <1>1
  <2> HIDE DEF h, at
  <2> QED BY <1>1, <1>4, <2>2, <2>3, <2>4, <2>5, <2>6
<1>7. lo <= hi
  <2>1. SUFFICES ASSUME lo >= hi + 1 PROVE FALSE BY <1>3
  <2>2. (lo - (hi + 1)) * bins >= 0
    <3>1. lo - (hi + 1) \in Nat BY <1>3, <2>1
    <3> QED BY <1>1, <3>1
  <2>3. (lo - (hi + 1)) * bins = l - h - bins BY <1>1, <1>3
  <2> HIDE DEF h, l, at
  <2> QED BY <1>1, <1>4, <2>2, <2>3
<1>8. Here = lo + 1 .. hi
  <2>1. \A i : i \in Here <=> i \in 1 .. size /\ lo + 1 <= i /\ i <= hi BY <1>5
  <2>2. \A i : i \in lo + 1 .. hi <=> i \in 1 .. size /\ lo + 1 <= i /\ i <= hi BY <1>3, <1>6
  <2> HIDE DEF Here
  <2> QED BY <2>1, <2>2
<1> HIDE DEF Here
<1>9. Cardinality(Here) = hi - lo
  <2> DEFINE first == lo + 1
  <2>1. first \in Int /\ hi \in Int BY <1>3
  <2>2. Cardinality(first .. hi) = IF first > hi THEN 0 ELSE hi - first + 1
    <3> HIDE DEF first
    <3> QED BY <2>1, FS_Interval
  <2> QED BY <1>3, <1>7, <1>8, <2>2
<1>10. (hi - lo) * bins = h - l BY <1>1, <1>3
<1>11. h - l <= size + bins - 1 /\ h - l >= size - bins + 1
  <2> HIDE DEF h, l, at
  <2> QED BY <1>1, <1>4
<1> HIDE DEF h, l
<1>12. hi - lo \in Nat BY <1>3, <1>7
<1>13. Cardinality(Here) * bins = h - l BY <1>9, <1>10
<1> QED BY <1>9, <1>11, <1>12, <1>13 DEF Here

\* The bins hold every line, in order, and none has two lines more than another, for
\* any number of lines (BinOf in rate.py and cooccurrence.py).
THEOREM BinsAlwaysEven ==
    ASSUME NEW size \in Nat \ {0}, NEW least \in Nat \ {0}
    PROVE  Detect!BinsEven(size, least)
<1> DEFINE bins == Detect!BinCount(size, least)
           Bin(i) == Detect!BinOf(i, size, bins)
           Size(b) == Detect!Cardinality({i \in 1 .. size : Bin(i) = b})
<1>1. bins \in Nat \ {0}
  <2> DEFINE tenth == size \div 10
             some  == Detect!Min({80, tenth})
  <2>1. tenth \in Nat BY QuotientRest
  <2> HIDE DEF tenth
  <2>2. some = IF 80 <= tenth THEN 80 ELSE tenth BY <2>1, MaxOfTwo
  <2>3. some \in Nat BY <2>1, <2>2
  <2>4. bins = Detect!Max({least, some}) BY Zenon DEF Detect!BinCount, tenth
  <2> HIDE DEF some, bins
  <2>5. bins = IF least >= some THEN least ELSE some BY <2>3, <2>4, MaxOfTwo
  <2> QED BY <2>3, <2>5
<1> HIDE DEF bins
<1>2. \A i \in 1 .. size : Bin(i) \in 0 .. bins - 1 BY <1>1, BinIs
<1>3. ASSUME NEW i \in 2 .. size PROVE Bin(i - 1) <= Bin(i)
  <2> DEFINE j == i - 1
             a == (j - 1) * bins
             e == (i - 1) * bins
  <2>1. i \in 1 .. size /\ j \in 1 .. size OBVIOUS
  <2>2. a \in Nat /\ e \in Nat /\ a <= e
    <3>1. j \in Nat /\ j >= 1 /\ bins \in Nat BY <1>1
    <3>2. e = a + bins BY <1>1, <3>1
    <3>3. j - 1 \in Nat BY <3>1
    <3>4. a \in Nat BY <1>1, <3>3
    <3> HIDE DEF a, e
    <3> QED BY <1>1, <3>2, <3>4
  <2>3. Bin(i) = e \div size BY <1>1, <2>1, BinIs
  <2>4. Bin(j) = a \div size
    <3> HIDE DEF j
    <3> QED BY <1>1, <2>1, BinIs
  <2> HIDE DEF a, e
  <2>5. a \div size <= e \div size BY <2>2, QuotientOrdered
  <2> QED BY <2>3, <2>4, <2>5
<1>4. ASSUME NEW b \in 0 .. bins - 1, NEW c \in 0 .. bins - 1 PROVE Size(b) <= Size(c) + 1
  <2> DEFINE x == Size(b)
             y == Size(c)
  <2>1. /\ x \in Nat /\ x * bins <= size + bins - 1
        /\ y \in Nat /\ y * bins >= size - bins + 1
    BY <1>1, BinSize, DetectCardinality
  <2> HIDE DEF x, y
  <2>2. SUFFICES ASSUME x >= y + 2 PROVE FALSE BY <2>1 DEF x, y
  <2>3. (x - (y + 2)) * bins >= 0
    <3>1. x - (y + 2) \in Nat /\ bins \in Nat BY <1>1, <2>1, <2>2
    <3> QED BY <3>1
  <2>4. (x - (y + 2)) * bins = x * bins - y * bins - 2 * bins BY <1>1, <2>1
  <2> DEFINE v == x * bins
             w == y * bins
  <2>5. v \in Nat /\ w \in Nat BY <1>1, <2>1
  <2> HIDE DEF v, w
  <2>6. v - w - 2 * bins >= 0 /\ v <= size + bins - 1 /\ w >= size - bins + 1
    BY <2>1, <2>3, <2>4 DEF v, w
  <2> QED BY <1>1, <2>5, <2>6
<1> HIDE DEF Size
<1>5. \A b, c \in 0 .. bins - 1 : Size(b) <= Size(c) + 1 BY <1>4
<1>6. \A i \in 2 .. size : Bin(i - 1) <= Bin(i) BY <1>3
<1> QED BY <1>2, <1>5, <1>6, Zenon DEF Detect!BinsEven, Size, bins

\* A part of a whole, in percent.
LEMMA PercentIs ==
    ASSUME NEW a \in Nat, NEW d \in Nat, d > 0, a <= d
    PROVE  (100 * a) \div d \in 0 .. 100
<1> DEFINE c == 100 * a
<1>1. c \in Nat /\ c <= 100 * d OBVIOUS
<1> HIDE DEF c
<1>2. c \div d \in Nat /\ c \div d <= 100 BY <1>1, QuotientIs
<1> QED BY <1>2 DEF c

\* The mean of percentages is one, and no smaller if one of them is not.
LEMMA MeanIs ==
    ASSUME NEW rest \in Nat, NEW k \in Nat, k > 0, rest <= 100 * (k - 1), NEW age \in 0 .. 100
    PROVE  /\ (rest + age) \div k \in 0 .. 100 /\ (rest + 100) \div k \in 0 .. 100
           /\ (rest + age) \div k <= (rest + 100) \div k
<1> DEFINE a == rest + age
           b == rest + 100
<1>1. a \in Nat /\ b \in Nat /\ a <= b /\ a <= 100 * k /\ b <= 100 * k OBVIOUS
<1> HIDE DEF a, b
<1>2. a \div k \in Nat /\ a \div k <= 100 /\ b \div k \in Nat /\ b \div k <= 100
  BY <1>1, QuotientIs
<1>3. a \div k <= b \div k BY <1>1, QuotientOrdered
<1> QED BY <1>2, <1>3 DEF a, b

\* How far a template's lines reach over the file, and how many of the buckets they
\* and the fullest of them hold, are parts of a whole.
LEMMA ReachIs ==
    ASSUME NEW size \in Nat, size > 1, NEW S \in SUBSET (1 .. size), S # {}
    PROVE  (100 * (Detect!Max(S) - Detect!Min(S))) \div (size - 1) \in 0 .. 100
<1>1. IsFiniteSet(S) /\ S \subseteq Nat /\ S \subseteq Int
  <2>1. IsFiniteSet(1 .. size) BY FS_Interval
  <2>2. IsFiniteSet(S) BY <2>1, FS_Subset
  <2> QED BY <2>2
<1>2. Detect!Max(S) \in S /\ \A y \in S : y <= Detect!Max(S) BY <1>1, MaxIs
<1>3. Detect!Min(S) \in S
  <2>1. Detect!Min(S) = CHOOSE z \in S : \A y \in S : z =< y BY Zenon DEF Detect!Min
  <2>2. \E z \in S : \A y \in S : z <= y BY <1>1, LeastNumber
  <2> QED BY <2>1, <2>2
<1> DEFINE a == Detect!Max(S) - Detect!Min(S)
           d == size - 1
<1>4. a \in Nat /\ d \in Nat /\ d > 0 /\ a <= d
  <2> DEFINE hi == Detect!Max(S)
             lo == Detect!Min(S)
  <2>1. hi \in 1 .. size /\ lo \in 1 .. size /\ lo <= hi BY <1>2, <1>3
  <2>2. a = hi - lo OBVIOUS
  <2> HIDE DEF hi, lo, a
  <2> QED BY <2>1, <2>2
<1> HIDE DEF a, d
<1>5. (100 * a) \div d \in 0 .. 100 BY <1>4, PercentIs
<1> QED BY <1>5 DEF a, d

FullestIn(S, f) ==
    Detect!Max({Detect!Cardinality({p \in S : f[p] = b}) : b \in {f[p] : p \in S}})

LEMMA BucketsAre ==
    ASSUME NEW S, IsFiniteSet(S), S # {}, NEW nb \in Nat \ {0}, NEW f,
           \A p \in S : f[p] \in 0 .. nb - 1
    PROVE  /\ (100 * Detect!Cardinality({f[p] : p \in S})) \div nb \in 0 .. 100
           /\ (100 * FullestIn(S, f)) \div Detect!Cardinality(S) \in 0 .. 100
<1> DEFINE Hit == {f[p] : p \in S}
           Fullest == FullestIn(S, f)
<1>0. /\ Hit = {f[p] : p \in S}
      /\ Fullest = Detect!Max({Detect!Cardinality({p \in S : f[p] = b}) : b \in Hit})
  BY Zenon DEF FullestIn
<1> HIDE DEF Hit, Fullest
<1> DEFINE In(b) == {p \in S : f[p] = b}
           sizes == [b \in Hit |-> Detect!Cardinality(In(b))]
           V == {sizes[b] : b \in Hit}
<1>1. Cardinality(S) \in Nat /\ Cardinality(S) > 0
  <2>1. Cardinality(S) \in Nat /\ Cardinality(S) # 0 BY FS_EmptySet, FS_CardinalityType
  <2> QED BY <2>1
<1>2. IsFiniteSet(Hit) /\ Hit # {}
  <2>1. IsFiniteSet(Hit) BY <1>0, ValuesAreFinite
  <2> QED BY <1>0, <2>1
<1>3. Cardinality(Hit) \in Nat /\ Cardinality(Hit) <= nb
  <2> DEFINE last == nb - 1
  <2>1. 0 \in Int /\ last \in Int /\ last >= 0 OBVIOUS
  <2>2. Hit \in SUBSET (0 .. last) BY <1>0
  <2> HIDE DEF last
  <2>3. IsFiniteSet(0 .. last) /\ Cardinality(0 .. last) = last - 0 + 1 BY <2>1, FS_Interval
  <2>4. Cardinality(Hit) <= last - 0 + 1 BY <2>2, <2>3, FS_Subset
  <2>5. Cardinality(Hit) \in Nat BY <1>2, FS_CardinalityType
  <2> QED BY <2>1, <2>4, <2>5 DEF last
<1>4. (100 * Detect!Cardinality(Hit)) \div nb \in 0 .. 100
  <2>1. (100 * Cardinality(Hit)) \div nb \in 0 .. 100 BY <1>3, PercentIs
  <2> QED BY <2>1, DetectCardinality
<1>5. \A b \in Hit : sizes[b] \in Nat /\ sizes[b] <= Cardinality(S)
  <2> TAKE b \in Hit
  <2>1. In(b) \in SUBSET S OBVIOUS
  <2>2. sizes[b] = Cardinality(In(b)) BY DetectCardinality
  <2> HIDE DEF In, sizes
  <2>3. IsFiniteSet(In(b)) /\ Cardinality(In(b)) <= Cardinality(S) BY <2>1, FS_Subset
  <2> QED BY <2>2, <2>3, FS_CardinalityType
<1>6. V \subseteq Int /\ V # {} /\ IsFiniteSet(V)
  <2> HIDE DEF sizes
  <2>1. IsFiniteSet(V) BY <1>2, ValuesAreFinite
  <2> QED BY <1>2, <1>5, <2>1
<1>7. Fullest \in V
  <2>1. V = {Detect!Cardinality(In(b)) : b \in Hit} BY Zenon
  <2>2. Fullest = Detect!Max(V) BY <1>0, <2>1, Zenon
  <2> HIDE DEF V
  <2> QED BY <1>6, <2>2, MaxIs
<1>8. Fullest \in Nat /\ Fullest <= Cardinality(S)
  <2> HIDE DEF sizes
  <2> QED BY <1>5, <1>7
<1>9. (100 * Fullest) \div Cardinality(S) \in 0 .. 100 BY <1>1, <1>8, PercentIs
<1> QED BY <1>4, <1>9, DetectCardinality DEF Hit, Fullest

\* Routineness is a mean of three or four parts, of which one is raised for a template
\* that the baseline knows.
LEMMA RoutinenessIs ==
    ASSUME NEW size \in Nat, NEW S \in SUBSET (1 .. size), NEW buckets \in Int,
           NEW spread \in -1 .. 100
    PROVE  LET R(known) == Detect!Routineness(S, size, buckets, spread, known)
           IN  \/ R(FALSE) = -1 /\ R(TRUE) = -1
               \/ R(FALSE) \in 0 .. 100 /\ R(TRUE) \in 0 .. 100 /\ R(FALSE) <= R(TRUE)
<1> DEFINE c  == Detect!Cardinality(S)
           nb == Detect!Min({Detect!Max({1, buckets}), size})
           f == [p \in S |-> Detect!BinOf(p, size, nb)]
           Hit == {f[p] : p \in S}
           Fullest == FullestIn(S, f)
           st == (100 * Detect!Cardinality(Hit)) \div nb
           Age(known) == IF known THEN 100
                         ELSE (100 * (Detect!Max(S) - Detect!Min(S))) \div (size - 1)
           ind == 100 - (100 * Fullest) \div c
           R(known) == Detect!Routineness(S, size, buckets, spread, known)
<1>1. \A known : R(known) =
         IF c < 5 \/ size <= 1 THEN -1
         ELSE IF spread = -1 THEN (st + Age(known) + ind) \div 3
         ELSE (st + Age(known) + ind + spread) \div 4
  <2>1. Hit = {Detect!BinOf(p, size, nb) : p \in S} BY Zenon
  <2>2. \A b : {p \in S : f[p] = b} = {p \in S : Detect!BinOf(p, size, nb) = b} BY Zenon
  <2>3. Fullest = Detect!Max({Detect!Cardinality({p \in S : Detect!BinOf(p, size, nb) = b}) :
                                 b \in {Detect!BinOf(p, size, nb) : p \in S}})
    <3> DEFINE In(b) == {p \in S : f[p] = b}
               At(b) == {p \in S : Detect!BinOf(p, size, nb) = b}
    <3>1. \A b : In(b) = At(b) BY <2>2, Zenon
    <3> HIDE DEF In, At
    <3>2. {Detect!Cardinality(In(b)) : b \in Hit} = {Detect!Cardinality(At(b)) : b \in Hit}
      BY <3>1
    <3>3. Detect!Max({Detect!Cardinality(In(b)) : b \in Hit})
             = Detect!Max({Detect!Cardinality(At(b)) : b \in Hit})
      BY <3>2, Zenon
    <3> HIDE DEF f
    <3> QED BY <2>1, <3>3, Zenon DEF In, At, FullestIn
  <2> HIDE DEF Fullest, Hit
  <2> QED BY <2>1, <2>3, Zenon DEF Detect!Routineness, Detect!BinOf
<1>2. IsFiniteSet(S) /\ c \in Nat /\ c = Cardinality(S)
  <2>1. IsFiniteSet(1 .. size) BY FS_Interval
  <2>2. IsFiniteSet(S) BY <2>1, FS_Subset
  <2> QED BY <2>2, FS_CardinalityType, DetectCardinality
<1>3. CASE c < 5 \/ size <= 1
  <2>1. R(FALSE) = -1 /\ R(TRUE) = -1
    <3> HIDE DEF R
    <3> QED BY <1>1, <1>3
  <2> QED BY <2>1
<1>4. CASE ~(c < 5 \/ size <= 1)
  <2>1. size > 1 /\ S # {}
    <3>1. ~(0 < 5) => FALSE OBVIOUS
    <3>2. size > 1 BY <1>4
    <3>3. ASSUME S = {} PROVE FALSE BY <1>2, <1>4, <3>3, FS_EmptySet
    <3> QED BY <3>2, <3>3
  <2>2. nb \in Nat \ {0}
    <3> DEFINE m == Detect!Max({1, buckets})
    <3>1. m = IF 1 >= buckets THEN 1 ELSE buckets BY MaxOfTwo
    <3> HIDE DEF m
    <3>2. m \in Nat \ {0} BY <3>1
    <3>3. Detect!Min({m, size}) = IF m <= size THEN m ELSE size BY <3>2, MaxOfTwo
    <3> QED BY <2>1, <3>2, <3>3 DEF m
  <2> HIDE DEF c, nb
  <2>3. \A p \in S : f[p] \in 0 .. nb - 1
    <3> TAKE p \in S
    <3>1. size \in Nat \ {0} /\ p \in 1 .. size BY <2>1
    <3> QED BY <2>2, <3>1, BinIs
  <2>4. st \in 0 .. 100 /\ (100 * Fullest) \div c \in 0 .. 100
    <3> HIDE DEF f
    <3> QED BY <1>2, <2>1, <2>2, <2>3, BucketsAre DEF c
  <2> HIDE DEF Fullest, st
  <2>5. ind \in 0 .. 100
    <3> DEFINE x == (100 * Fullest) \div c
    <3>1. x \in 0 .. 100 BY <2>4
    <3>2. ind = 100 - x OBVIOUS
    <3> HIDE DEF x, ind
    <3> QED BY <3>1, <3>2
  <2> DEFINE age == Age(FALSE)
  <2>6. age \in 0 .. 100 /\ Age(TRUE) = 100 BY <2>1, ReachIs
  <2> HIDE DEF Age, ind, R
  <2>7. CASE spread = -1
    <3> DEFINE rest == st + ind
    <3>1. \A known \in BOOLEAN : R(known) = (st + Age(known) + ind) \div 3
      BY <1>1, <1>4, <2>7
    <3>2. rest \in Nat /\ rest <= 200 BY <2>4, <2>5
    <3>3. R(FALSE) = (st + age + ind) \div 3 /\ R(TRUE) = (st + 100 + ind) \div 3
      BY <2>6, <3>1
    <3>4. st + age + ind = rest + age /\ st + 100 + ind = rest + 100
      <4> HIDE DEF age
      <4> QED BY <2>4, <2>5, <2>6
    <3> HIDE DEF rest, age
    <3>5. /\ (rest + age) \div 3 \in 0 .. 100 /\ (rest + 100) \div 3 \in 0 .. 100
          /\ (rest + age) \div 3 <= (rest + 100) \div 3
      <4>1. rest <= 100 * (3 - 1) /\ 3 > 0 /\ 3 \in Nat BY <3>2
      <4> QED BY <2>6, <3>2, <4>1, MeanIs
    <3>6. R(FALSE) = (rest + age) \div 3 /\ R(TRUE) = (rest + 100) \div 3 BY <3>3, <3>4
    <3> QED BY <3>5, <3>6 DEF R
  <2>8. CASE spread # -1
    <3> DEFINE rest == st + ind + spread
    <3>1. \A known \in BOOLEAN : R(known) = (st + Age(known) + ind + spread) \div 4
      BY <1>1, <1>4, <2>8
    <3>2. rest \in Nat /\ rest <= 300 BY <2>4, <2>5, <2>8
    <3>3. /\ R(FALSE) = (st + age + ind + spread) \div 4
          /\ R(TRUE) = (st + 100 + ind + spread) \div 4
      BY <2>6, <3>1
    <3>4. st + age + ind + spread = rest + age /\ st + 100 + ind + spread = rest + 100
      <4> HIDE DEF age
      <4> QED BY <2>4, <2>5, <2>6
    <3> HIDE DEF rest, age
    <3>5. /\ (rest + age) \div 4 \in 0 .. 100 /\ (rest + 100) \div 4 \in 0 .. 100
          /\ (rest + age) \div 4 <= (rest + 100) \div 4
      <4>1. rest <= 100 * (4 - 1) /\ 4 > 0 /\ 4 \in Nat BY <3>2
      <4> QED BY <2>6, <3>2, <4>1, MeanIs
    <3>6. R(FALSE) = (rest + age) \div 4 /\ R(TRUE) = (rest + 100) \div 4 BY <3>3, <3>4
    <3> QED BY <3>5, <3>6 DEF R
  <2> QED BY <2>7, <2>8 DEF R
<1> QED BY <1>3, <1>4

\* A template that the baseline knows is never told to be less routine, nor its anomaly
\* more certain, for it (compute_routineness, confidence_label).
THEOREM KnownNeverLessRoutine ==
    ASSUME NEW size \in Nat, NEW S \in SUBSET (1 .. size), NEW buckets \in Int,
           NEW spread \in -1 .. 100, NEW score \in Int
    PROVE  Detect!KnownMoreRoutine(S, size, buckets, spread, score)
<1> DEFINE new == Detect!Routineness(S, size, buckets, spread, FALSE)
           old == Detect!Routineness(S, size, buckets, spread, TRUE)
           Level(a) == IF a >= 85 THEN 3 ELSE IF a >= 65 THEN 2 ELSE 1
           Eased(r) == Detect!Max({0, score - (35 * r) \div 100})
<1>1. \/ new = -1 /\ old = -1
      \/ new \in 0 .. 100 /\ old \in 0 .. 100 /\ new <= old
  BY RoutinenessIs
<1> HIDE DEF new, old
<1>2. new \in -1 .. 100 /\ new <= old BY <1>1
<1>3. \A r : Detect!Confidence(score, r) = Level(IF r = -1 THEN score ELSE Eased(r))
  BY Zenon DEF Detect!Confidence
<1>4. ASSUME NEW r \in 0 .. 100
      PROVE  /\ (35 * r) \div 100 \in Nat
             /\ Eased(r) = IF 0 >= score - (35 * r) \div 100 THEN 0 ELSE score - (35 * r) \div 100
  <2> DEFINE a == 35 * r
             d == score - a \div 100
  <2>1. a \in Nat OBVIOUS
  <2>2. a \div 100 \in Nat
    <3> HIDE DEF a
    <3> QED BY <2>1, QuotientIs
  <2>3. d \in Int BY <2>2
  <2>4. Detect!Max({0, d}) = IF 0 >= d THEN 0 ELSE d
    <3> HIDE DEF d
    <3> QED BY <2>3, MaxOfTwo
  <2> QED BY <2>2, <2>4
<1>5. Detect!Confidence(score, old) <= Detect!Confidence(score, new)
  <2>1. CASE new = -1 /\ old = -1
    <3>1. Detect!Confidence(score, old) = Detect!Confidence(score, new) BY <2>1
    <3>2. Detect!Confidence(score, new) = Level(score) BY <1>3, <2>1
    <3>3. Level(score) \in Int OBVIOUS
    <3> HIDE DEF Level
    <3> QED BY <3>1, <3>2, <3>3
  <2>2. CASE new \in 0 .. 100 /\ old \in 0 .. 100 /\ new <= old
    <3> DEFINE a == 35 * new
               b == 35 * old
               x == Eased(new)
               y == Eased(old)
    <3>1. (35 * new) \div 100 <= (35 * old) \div 100
      <4>1. a \in Nat /\ b \in Nat /\ a <= b BY <2>2
      <4> HIDE DEF a, b
      <4>2. a \div 100 <= b \div 100 BY <4>1, QuotientOrdered
      <4> QED BY <4>2 DEF a, b
    <3>2. /\ (35 * new) \div 100 \in Nat /\ (35 * old) \div 100 \in Nat
          /\ x = IF 0 >= score - (35 * new) \div 100 THEN 0 ELSE score - (35 * new) \div 100
          /\ y = IF 0 >= score - (35 * old) \div 100 THEN 0 ELSE score - (35 * old) \div 100
      BY <1>4, <2>2
    <3>3. new # -1 /\ old # -1 BY <2>2
    <3>4. Detect!Confidence(score, old) = Level(y) /\ Detect!Confidence(score, new) = Level(x)
      <4> HIDE DEF Level, Eased
      <4> QED BY <1>3, <3>3
    <3> DEFINE u == (35 * new) \div 100
               v == (35 * old) \div 100
    <3> HIDE DEF x, y, u, v
    <3>5. x \in Int /\ y \in Int /\ y <= x BY <3>1, <3>2 DEF u, v
    <3>6. Level(y) <= Level(x) BY <3>5
    <3> HIDE DEF Level
    <3> QED BY <3>4, <3>6
  <2> QED BY <1>1, <2>1, <2>2
<1> QED BY <1>2, <1>5, Zenon DEF Detect!KnownMoreRoutine, new, old

\* The lines of a session, and those of them that come up to a line.
OwnLines(lines, s) == {i \in DOMAIN lines : lines[i].session = s}
OwnUpTo(lines, i) == {j \in 1 .. i : lines[j].session = lines[i].session}

LEMMA DetectSum == ASSUME NEW f PROVE Detect!SumOf(f) = SumOn(f, DOMAIN f)
BY Zenon DEF Detect!SumOf, SumOn, Detect!FoldFunction, FoldFunctionOnSet,
             Detect!FoldFunctionOnSet, Detect!MapThenFoldSet, MapThenFoldSet

\* The path of a session has its start, its lines and its end.
LEMMA PathIs ==
    ASSUME NEW lines, IsFiniteSet(DOMAIN lines), NEW s
    PROVE  /\ Cardinality(OwnLines(lines, s)) \in Nat
           /\ Len(Detect!Path(lines, s)) = Cardinality(OwnLines(lines, s)) + 2
<1> DEFINE own == OwnLines(lines, s)
           size == Cardinality(own)
           Nth(k) == CHOOSE i \in own : Detect!Cardinality({j \in own : j <= i}) = k
           first == <<Detect!Bos>>
           middle == [k \in 1 .. size |-> lines[Nth(k)].template]
           last == <<Detect!Eos>>
           S == {Detect!Bos, Detect!Eos} \cup {lines[Nth(k)].template : k \in 1 .. size}
<1>1. Detect!Path(lines, s) = first \o middle \o last
  <2>1. Detect!Cardinality(own) = size BY DetectCardinality
  <2>2. Detect!Path(lines, s) =
          <<Detect!Bos>> \o [k \in 1 .. Detect!Cardinality(own) |-> lines[Nth(k)].template]
            \o <<Detect!Eos>>
    BY Zenon DEF Detect!Path, OwnLines
  <2> HIDE DEF size, own, Nth
  <2> QED BY <2>1, <2>2
<1>2. IsFiniteSet(own) /\ size \in Nat
  <2>1. own \in SUBSET DOMAIN lines BY DEF OwnLines
  <2> HIDE DEF own
  <2> QED BY <2>1, FS_Subset, FS_CardinalityType
<1> HIDE DEF size
<1>3. middle \in Seq(S) /\ Len(middle) = size
  <2>1. size \in Nat BY <1>2
  <2>2. \A k \in 1 .. size : lines[Nth(k)].template \in S OBVIOUS
  <2> HIDE DEF Nth, S
  <2> QED BY <2>1, <2>2
<1>4. first \in Seq(S) /\ Len(first) = 1 /\ last \in Seq(S) /\ Len(last) = 1
  <2>1. Detect!Bos \in S /\ Detect!Eos \in S OBVIOUS
  <2> HIDE DEF S
  <2> QED BY <2>1
<1> HIDE DEF first, middle, last, S
<1>5. first \o middle \in Seq(S) /\ Len(first \o middle) = 1 + size
  <2>1. /\ first \o middle \in Seq(S)
        /\ Len(first \o middle) = Len(first) + Len(middle)
    BY <1>3, <1>4, ConcatProperties, Zenon
  <2> QED BY <1>3, <1>4, <2>1
<1> DEFINE begun == first \o middle
<1> HIDE DEF begun
<1>6. Len(begun \o last) = Len(begun) + 1
  <2>1. begun \in Seq(S) BY <1>5 DEF begun
  <2> QED BY <1>4, <2>1, ConcatProperties
<1>7. Len(Detect!Path(lines, s)) = (1 + size) + 1 BY <1>1, <1>5, <1>6 DEF begun
<1>8. size + 2 = (1 + size) + 1 BY <1>2
<1> QED BY <1>2, <1>7, <1>8 DEF size

\* Counts of steps are numbers, and so is the surprise of one.
LEMMA StepsAreNat ==
    ASSUME NEW lines, IsFiniteSet(DOMAIN lines), NEW a, NEW To
    PROVE  Detect!Steps(lines, a, To) \in Nat
<1> DEFINE Taken(s) == {k \in 1 .. Len(Detect!Path(lines, s)) - 1 :
                           /\ Detect!Path(lines, s)[k] = a
                           /\ Detect!Path(lines, s)[k + 1] \in To}
           f == [s \in Detect!Sessions(lines) |-> Cardinality(Taken(s))]
<1>1. Detect!Steps(lines, a, To) = Detect!SumOf(f)
  BY DetectCardinality, Zenon DEF Detect!Steps
<1>2. IsFiniteSet(Detect!Sessions(lines))
  <2> DEFINE g == [i \in DOMAIN lines |-> lines[i].session]
             V == {g[i] : i \in DOMAIN lines}
  <2>1. IsFiniteSet(V)
    <3> HIDE DEF g
    <3> QED BY ValuesAreFinite
  <2>2. Detect!Sessions(lines) \in SUBSET V BY DEF Detect!Sessions
  <2> HIDE DEF V
  <2> QED BY <2>1, <2>2, FS_Subset
<1>3. ASSUME NEW s PROVE Cardinality(Taken(s)) \in Nat
  <2> DEFINE ends == Len(Detect!Path(lines, s)) - 1
  <2>1. ends \in Int BY PathIs
  <2>2. Taken(s) \in SUBSET (1 .. ends) OBVIOUS
  <2> HIDE DEF ends, Taken
  <2>3. IsFiniteSet(1 .. ends)
    <3>1. 1 \in Int OBVIOUS
    <3> QED BY <2>1, <3>1, FS_Interval
  <2> QED BY <2>2, <2>3, FS_Subset, FS_CardinalityType
<1> HIDE DEF Taken
<1>4. DOMAIN f = Detect!Sessions(lines) /\ \A s \in DOMAIN f : f[s] \in Nat BY <1>3
<1> HIDE DEF f
<1> QED BY <1>1, <1>2, <1>4, DetectSum, SumIsNat

LEMMA SurpriseIsInt ==
    ASSUME NEW lines, IsFiniteSet(DOMAIN lines), NEW a, NEW b, NEW least
    PROVE  Detect!Surprise(lines, a, b, least) \in Int
<1> DEFINE keyed == {i \in DOMAIN lines : lines[i].session # 0}
           vocab == {lines[i].template : i \in keyed} \cup {Detect!Eos}
           pred == Detect!Steps(lines, a, vocab)
           taken == Detect!Steps(lines, a, {b})
           size == Cardinality(vocab)
           odds == (100 * (taken + 1)) \div (pred + size)
<1>1. Detect!Surprise(lines, a, b, least) = IF pred < least THEN 0 ELSE 100 - odds
  BY DetectCardinality, Zenon DEF Detect!Surprise, Detect!Where
<1>2. IsFiniteSet(vocab) /\ size \in Nat /\ size # 0
  <2> DEFINE g == [i \in keyed |-> lines[i].template]
             V == {g[i] : i \in keyed}
  <2>1. IsFiniteSet(keyed)
    <3>1. keyed \in SUBSET DOMAIN lines OBVIOUS
    <3> HIDE DEF keyed
    <3> QED BY <3>1, FS_Subset
  <2>2. vocab = V \cup {Detect!Eos} OBVIOUS
  <2>3. IsFiniteSet(V)
    <3> HIDE DEF g, keyed
    <3> QED BY <2>1, ValuesAreFinite
  <2> HIDE DEF V, vocab
  <2>4. IsFiniteSet(vocab) BY <2>2, <2>3, FS_AddElement
  <2>5. vocab # {} BY <2>2
  <2> QED BY <2>4, <2>5, FS_EmptySet, FS_CardinalityType
<1> HIDE DEF size, vocab
<1>3. pred \in Nat /\ taken \in Nat BY StepsAreNat
<1> HIDE DEF pred, taken
<1>4. odds \in Nat
  <2> DEFINE above == 100 * (taken + 1)
             below == pred + size
  <2>1. above \in Nat /\ below \in Nat /\ below > 0 BY <1>2, <1>3
  <2> HIDE DEF above, below
  <2>2. above \div below \in Nat BY <2>1, QuotientRest
  <2> QED BY <2>2 DEF above, below
<1> HIDE DEF odds
<1> QED BY <1>1, <1>4

\* The worst step of a session is one of its steps, and none is worse.
LEMMA WorstIs ==
    ASSUME NEW lines, IsFiniteSet(DOMAIN lines), NEW s, NEW least
    PROVE  LET p == Detect!Path(lines, s)
               At(k) == Detect!Surprise(lines, p[k], p[k + 1], least)
               worst == Detect!Worst(lines, s, least)
           IN  /\ worst \in Int
               /\ worst = 0 \/ \E k \in 1 .. Len(p) - 1 : worst = At(k)
               /\ \A k \in 1 .. Len(p) - 1 : At(k) <= worst
<1> DEFINE p == Detect!Path(lines, s)
           At(k) == Detect!Surprise(lines, p[k], p[k + 1], least)
           ends == Len(p) - 1
           f == [k \in 1 .. ends |-> At(k)]
           V == {f[k] : k \in 1 .. ends}
           X == V \cup {0}
           worst == Detect!Worst(lines, s, least)
<1>1. worst = Detect!Max(X)
  <2>1. X = {0} \cup {At(k) : k \in 1 .. Len(p) - 1} OBVIOUS
  <2> HIDE DEF X
  <2> QED BY <2>1, Zenon DEF Detect!Worst
<1>2. IsFiniteSet(1 .. ends)
  <2>1. ends \in Int /\ 1 \in Int BY PathIs
  <2> HIDE DEF ends
  <2> QED BY <2>1, FS_Interval
<1>3. \A k : At(k) \in Int BY SurpriseIsInt
<1> HIDE DEF At, ends
<1>4. \A k \in 1 .. ends : f[k] = At(k) OBVIOUS
<1>5. V \subseteq Int BY <1>3
<1>6. IsFiniteSet(V)
  <2> HIDE DEF f
  <2> QED BY <1>2, ValuesAreFinite
<1>7. \A k \in 1 .. ends : At(k) \in V OBVIOUS
<1>8. \A x \in V : \E k \in 1 .. ends : x = At(k) OBVIOUS
<1> HIDE DEF V
<1>9. IsFiniteSet(X) /\ X \subseteq Int /\ X # {} BY <1>5, <1>6, FS_AddElement
<1>10. worst \in X /\ \A y \in X : y <= worst
  <2> HIDE DEF X, worst
  <2> QED BY <1>1, <1>9, MaxIs
<1> HIDE DEF worst
<1>11. worst \in Int /\ (worst = 0 \/ \E k \in 1 .. ends : worst = At(k)) BY <1>8, <1>9, <1>10
<1>12. \A k \in 1 .. ends : At(k) <= worst BY <1>7, <1>10
<1> QED BY <1>11, <1>12 DEF worst, At, ends

\* The step of a line is one of its session's path.
LEMMA OwnStepIs ==
    ASSUME NEW T, NEW lines \in Seq(T), NEW i \in DOMAIN lines
    PROVE  LET s == lines[i].session
               k == Cardinality(OwnUpTo(lines, i))
           IN  k \in Nat /\ k \in 1 .. Len(Detect!Path(lines, s)) - 1
<1> DEFINE s == lines[i].session
           U == OwnUpTo(lines, i)
           W == OwnLines(lines, s)
<1>1. i \in Nat /\ i >= 1 /\ \A j \in 1 .. i : j \in DOMAIN lines OBVIOUS
<1>2. IsFiniteSet(DOMAIN lines)
  <2>1. DOMAIN lines = 1 .. Len(lines) /\ Len(lines) \in Int /\ 1 \in Int OBVIOUS
  <2> QED BY <2>1, FS_Interval
<1>3. U \in SUBSET W /\ i \in U BY <1>1 DEF OwnUpTo, OwnLines
<1>4. IsFiniteSet(W)
  <2>1. W \in SUBSET DOMAIN lines BY DEF OwnLines
  <2> HIDE DEF W
  <2> QED BY <1>2, <2>1, FS_Subset
<1>5. /\ Cardinality(W) \in Nat
      /\ Len(Detect!Path(lines, s)) = Cardinality(W) + 2
  BY <1>2, PathIs
<1> HIDE DEF U, W, s
<1>6. IsFiniteSet(U) /\ Cardinality(U) <= Cardinality(W) BY <1>3, <1>4, FS_Subset
<1>7. Cardinality(U) \in Nat /\ Cardinality(U) # 0 BY <1>3, <1>6, FS_EmptySet, FS_CardinalityType
<1>8. Cardinality(U) \in 1 .. Len(Detect!Path(lines, s)) - 1 BY <1>5, <1>6, <1>7
<1> QED BY <1>7, <1>8 DEF U, s

\* What the detector of sequences gives a line.
OwnStep(lines, i, least) ==
    LET p == Detect!Path(lines, lines[i].session)
        k == Cardinality(OwnUpTo(lines, i))
    IN  Detect!Surprise(lines, p[k], p[k + 1], least)

LEMMA SequenceScoresAre ==
    ASSUME NEW T, NEW lines \in Seq(T), NEW sessions, NEW least, NEW flag_at
    PROVE  LET out == Detect!SequenceScores(lines, sessions, least, flag_at)
               Score(i) == IF lines[i].session = 0 THEN 0
                           ELSE IF Detect!Worst(lines, lines[i].session, least) >= flag_at
                                THEN Detect!Worst(lines, lines[i].session, least)
                                ELSE OwnStep(lines, i, least)
           IN  \/ \A i \in DOMAIN lines : out[i] = 0
               \/ \A i \in DOMAIN lines : out[i] = Score(i)
<1> DEFINE out == Detect!SequenceScores(lines, sessions, least, flag_at)
           keyed == {i \in DOMAIN lines : lines[i].session # 0}
           few == \/ Detect!Cardinality(Detect!Sessions(lines)) < sessions
                  \/ 2 * Detect!Cardinality(keyed) < Len(lines)
           Reach(i) == 1 + Detect!Cardinality({j \in 1 .. i : lines[j].session = lines[i].session})
           Own(i) == Detect!Surprise(lines, Detect!Path(lines, lines[i].session)[Reach(i) - 1],
                                     Detect!Path(lines, lines[i].session)[Reach(i)], least)
           Most(i) == Detect!Worst(lines, lines[i].session, least)
<1>1. out = IF few THEN [i \in DOMAIN lines |-> 0]
            ELSE [i \in DOMAIN lines |->
                    IF i \notin keyed THEN 0 ELSE IF Most(i) >= flag_at THEN Most(i) ELSE Own(i)]
  BY Zenon DEF Detect!SequenceScores, Detect!Where
<1>2. ASSUME NEW i \in DOMAIN lines PROVE Own(i) = OwnStep(lines, i, least)
  <2> DEFINE k == Cardinality(OwnUpTo(lines, i))
  <2>1. k \in Nat BY OwnStepIs
  <2>2. Reach(i) = 1 + k BY DetectCardinality DEF OwnUpTo
  <2> HIDE DEF Reach
  <2>3. OwnStep(lines, i, least)
        = Detect!Surprise(lines, Detect!Path(lines, lines[i].session)[k],
                          Detect!Path(lines, lines[i].session)[k + 1], least)
    BY DEF OwnStep
  <2> HIDE DEF k
  <2>4. Reach(i) - 1 = k /\ Reach(i) = k + 1 BY <2>1, <2>2
  <2> QED BY <2>3, <2>4
<1> HIDE DEF Own, Most, few, out
<1>3. CASE few
  <2>1. \A i \in DOMAIN lines : out[i] = 0 BY <1>1, <1>3
  <2> QED BY <2>1 DEF out
<1>4. CASE ~few
  <2>1. \A i \in DOMAIN lines :
          out[i] = IF i \notin keyed THEN 0
                   ELSE IF Most(i) >= flag_at THEN Most(i) ELSE Own(i)
    BY <1>1, <1>4
  <2>2. \A i \in DOMAIN lines :
          out[i] = IF lines[i].session = 0 THEN 0
                   ELSE IF Most(i) >= flag_at THEN Most(i) ELSE OwnStep(lines, i, least)
    BY <1>2, <2>1
  <2> QED BY <2>2 DEF out, Most
<1> QED BY <1>3, <1>4

\* A session with an unlikely step or end is flagged with all its lines, and no line
\* of another session, or of none, is (sequence_anomaly_scores).
THEOREM SessionsAlwaysWhole ==
    ASSUME NEW T, NEW lines \in Seq(T), NEW sessions, NEW least,
           NEW flag_at \in Int, flag_at > 0
    PROVE  Detect!SessionsWhole(lines, sessions, least, flag_at)
<1> DEFINE out == Detect!SequenceScores(lines, sessions, least, flag_at)
           Most(s) == Detect!Worst(lines, s, least)
           At(s, k) == Detect!Surprise(lines, Detect!Path(lines, s)[k],
                                       Detect!Path(lines, s)[k + 1], least)
           Ends(s) == Len(Detect!Path(lines, s)) - 1
           Bad(s) == \E k \in 1 .. Ends(s) : At(s, k) >= flag_at
           Score(i) == IF lines[i].session = 0 THEN 0
                       ELSE IF Most(lines[i].session) >= flag_at THEN Most(lines[i].session)
                       ELSE OwnStep(lines, i, least)
<1>1. \/ \A i \in DOMAIN lines : out[i] = 0
      \/ \A i \in DOMAIN lines : out[i] = Score(i)
  <2> HIDE DEF out
  <2> QED BY SequenceScoresAre DEF out
<1>2. IsFiniteSet(DOMAIN lines)
  <2>1. DOMAIN lines = 1 .. Len(lines) /\ Len(lines) \in Int /\ 1 \in Int OBVIOUS
  <2> QED BY <2>1, FS_Interval
<1>3. ASSUME NEW s
      PROVE  /\ Most(s) \in Int
             /\ Most(s) = 0 \/ \E k \in 1 .. Ends(s) : Most(s) = At(s, k)
             /\ \A k \in 1 .. Ends(s) : At(s, k) <= Most(s)
             /\ \A k : At(s, k) \in Int
  BY <1>2, WorstIs, SurpriseIsInt
<1>4. ASSUME NEW i \in DOMAIN lines
      PROVE  \E k \in 1 .. Ends(lines[i].session) :
                OwnStep(lines, i, least) = At(lines[i].session, k)
  <2> DEFINE k == Cardinality(OwnUpTo(lines, i))
  <2>1. k \in 1 .. Ends(lines[i].session) BY OwnStepIs
  <2>2. OwnStep(lines, i, least) = At(lines[i].session, k) BY DEF OwnStep
  <2> HIDE DEF k, At, Ends
  <2> QED BY <2>1, <2>2
<1> HIDE DEF At, Ends, Most
<1>5. ASSUME NEW s PROVE Bad(s) <=> Most(s) >= flag_at BY <1>3
<1>6. ASSUME NEW i \in DOMAIN lines
      PROVE  Score(i) >= flag_at <=> lines[i].session # 0 /\ Bad(lines[i].session)
  <2>1. CASE lines[i].session = 0 BY <2>1
  <2>2. CASE lines[i].session # 0 /\ Most(lines[i].session) >= flag_at BY <1>5, <2>2
  <2>3. CASE lines[i].session # 0 /\ ~(Most(lines[i].session) >= flag_at)
    <3>1. Score(i) = OwnStep(lines, i, least) BY <2>3
    <3>2. ~Bad(lines[i].session) BY <1>5, <2>3
    <3>3. ~(OwnStep(lines, i, least) >= flag_at) BY <1>4, <3>2
    <3> HIDE DEF Bad, Score
    <3> QED BY <2>3, <3>1, <3>2, <3>3
  <2> QED BY <2>1, <2>2, <2>3
<1> HIDE DEF Score
<1>7. \/ \A i \in DOMAIN lines : out[i] = 0
      \/ \A i \in DOMAIN lines :
            out[i] >= flag_at <=> lines[i].session # 0 /\ Bad(lines[i].session)
  <2> HIDE DEF Bad, out
  <2> QED BY <1>1, <1>6
<1> QED BY <1>7, Zenon DEF Detect!SessionsWhole, At, Ends

\* What the inputs of the detectors are.
LEMMA ArraysAreSequences ==
    ASSUME NEW S, NEW m \in Nat, NEW f \in [1 .. m -> S]
    PROVE  f \in Seq(S)
OBVIOUS

LEMMA UpToAre ==
    ASSUME NEW k, NEW S, NEW s \in UpTo(k, S), k \in Nat
    PROVE  s \in Seq(S)
<1>1. PICK m \in 0 .. k : s \in [1 .. m -> S] BY DEF UpTo
<1> QED BY <1>1, ArraysAreSequences

LEMMA SequencesAreFinite ==
    ASSUME NEW T, NEW s \in Seq(T)
    PROVE  IsFiniteSet(DOMAIN s)
<1>1. DOMAIN s = 1 .. Len(s) /\ Len(s) \in Int /\ 1 \in Int OBVIOUS
<1> QED BY <1>1, FS_Interval

SessionLine == [session : Nat, template : {"a", "b", "c", "n"}]

LEMMA SessionLinesAre ==
    ASSUME NEW x \in Sessions PROVE SessionLines(x) \in Seq(SessionLine)
<1>1. /\ x.paths \in [1 .. 4 -> {<<"a", "b", "c">>, <<"a", "c">>, <<"a", "b">>}]
      /\ x.others \in UpTo(2, {[session |-> 0, template |-> "n"]})
  BY DEF Sessions
<1>2. x.others \in Seq(SessionLine)
  <2>1. x.others \in Seq({[session |-> 0, template |-> "n"]}) BY <1>1, UpToAre
  <2>2. [session |-> 0, template |-> "n"] \in SessionLine BY DEF SessionLine
  <2> HIDE DEF SessionLine
  <2> QED BY <2>1, <2>2
<1>3. ASSUME NEW s \in Nat, NEW p \in Seq({"a", "b", "c"})
      PROVE  InSession(s, p) \in Seq(SessionLine)
  <2>1. DOMAIN p = 1 .. Len(p) /\ Len(p) \in Nat OBVIOUS
  <2>2. \A k \in DOMAIN p : [session |-> s, template |-> p[k]] \in SessionLine BY DEF SessionLine
  <2> HIDE DEF SessionLine
  <2> QED BY <2>1, <2>2 DEF InSession
<1>4. \A s \in 1 .. 4 : x.paths[s] \in Seq({"a", "b", "c"})
  <2> TAKE s \in 1 .. 4
  <2>1. x.paths[s] \in {<<"a", "b", "c">>, <<"a", "c">>, <<"a", "b">>} BY <1>1
  <2>2. /\ <<"a", "b", "c">> \in Seq({"a", "b", "c"}) /\ <<"a", "c">> \in Seq({"a", "b", "c"})
        /\ <<"a", "b">> \in Seq({"a", "b", "c"})
    OBVIOUS
  <2> QED BY <2>1, <2>2, Zenon
<1> DEFINE own(s) == InSession(s, x.paths[s])
<1>5. \A s \in 1 .. 4 : own(s) \in Seq(SessionLine)
  <2> TAKE s \in 1 .. 4
  <2>1. s \in Nat /\ x.paths[s] \in Seq({"a", "b", "c"}) BY <1>4
  <2> QED BY <1>3, <2>1, Zenon
<1>6. SessionLines(x) = own(1) \o x.others \o own(2) \o own(3) \o own(4) BY DEF SessionLines
<1>7. /\ own(1) \in Seq(SessionLine) /\ own(2) \in Seq(SessionLine)
      /\ own(3) \in Seq(SessionLine) /\ own(4) \in Seq(SessionLine)
  BY <1>5
<1> HIDE DEF own
<1> QED BY <1>2, <1>6, <1>7, ConcatProperties

LEMMA CompanyLinesAre ==
    ASSUME NEW b \in Companies
    PROVE  /\ IsFiniteSet(DOMAIN CompanyLines(b))
           /\ \A i \in DOMAIN CompanyLines(b) : CompanyLines(b)[i].score \in Int
<1>1. DOMAIN CompanyLines(b) = 1 .. 48 BY DEF CompanyLines
<1>2. IsFiniteSet(1 .. 48)
  <2>1. 1 \in Int /\ 48 \in Int OBVIOUS
  <2> QED BY <2>1, FS_Interval
<1>3. b[1].score \in Int /\ b[2].score \in Int
  <2> DEFINE host == {"", "x", "y"}
             L == [template : {"t", "u"}, service : host, score : {20, 50}]
  <2>1. b \in [1 .. 2 -> L] BY DEF Companies
  <2> HIDE DEF host
  <2>2. \A l \in L : l.score \in Int OBVIOUS
  <2> HIDE DEF L
  <2>3. b[1] \in L /\ b[2] \in L BY <2>1
  <2> QED BY <2>2, <2>3
<1> DEFINE none == ""
<1>4. ASSUME NEW i \in 1 .. 48 PROVE CompanyLines(b)[i].score \in Int
  <2>1. CompanyLines(b)[i] = IF i <= 3 THEN b[1] ELSE IF i <= 6 THEN b[2]
                             ELSE [template |-> "z", service |-> none, score |-> 20]
    BY DEF CompanyLines
  <2> HIDE DEF none
  <2>2. CASE i <= 3 BY <1>3, <2>1, <2>2
  <2>3. CASE ~(i <= 3) /\ i <= 6 BY <1>3, <2>1, <2>3
  <2>4. CASE ~(i <= 3) /\ ~(i <= 6)
    <3>1. CompanyLines(b)[i] = [template |-> "z", service |-> none, score |-> 20] BY <2>1, <2>4
    <3> QED BY <3>1
  <2> QED BY <2>2, <2>3, <2>4
<1> QED BY <1>1, <1>2, <1>4

TimedLine == [sev : Nat, window : Int]

LEMMA BurstyLinesAre ==
    ASSUME NEW c \in Bursty PROVE IsFiniteSet(DOMAIN BurstyLines(c))
<1>1. ASSUME NEW k \in Nat, NEW sev \in Nat, NEW w \in Int PROVE Times(k, sev, w) \in Seq(TimedLine)
  <2>1. [sev |-> sev, window |-> w] \in TimedLine BY DEF TimedLine
  <2> HIDE DEF TimedLine
  <2> QED BY <2>1 DEF Times
<1>2. /\ c[1] \in Nat /\ c[2] \in Nat /\ c[3] \in Nat /\ c[4] \in Nat /\ c[5] \in Nat
  BY DEF Bursty
<1> DEFINE U(k, sev, w) == Times(k, sev, w)
<1>3. /\ U(c[1], 3, 0) \in Seq(TimedLine) /\ U(c[2], 3, 1) \in Seq(TimedLine)
      /\ U(c[3], 3, 2) \in Seq(TimedLine) /\ U(c[4], 3, 3) \in Seq(TimedLine)
      /\ U(c[5], 3, 4) \in Seq(TimedLine)
  <2>1. 3 \in Nat /\ 0 \in Int /\ 1 \in Int /\ 2 \in Int /\ 3 \in Int /\ 4 \in Int OBVIOUS
  <2> QED BY <1>1, <1>2, <2>1, Zenon
<1>4. /\ U(2, 4, 0) \in Seq(TimedLine) /\ U(8, 4, 1) \in Seq(TimedLine)
      /\ U(8, 6, 2) \in Seq(TimedLine) /\ U(2, 3, -1) \in Seq(TimedLine)
  <2>1. /\ 2 \in Nat /\ 3 \in Nat /\ 4 \in Nat /\ 6 \in Nat /\ 8 \in Nat
        /\ 0 \in Int /\ 1 \in Int /\ 2 \in Int /\ -1 \in Int
    OBVIOUS
  <2> QED BY <1>1, <2>1, Zenon
<1>5. BurstyLines(c) = U(c[1], 3, 0) \o U(c[2], 3, 1) \o U(c[3], 3, 2) \o U(c[4], 3, 3)
                         \o U(c[5], 3, 4) \o U(2, 4, 0) \o U(8, 4, 1) \o U(8, 6, 2) \o U(2, 3, -1)
  BY DEF BurstyLines
<1> HIDE DEF U
<1>6. BurstyLines(c) \in Seq(TimedLine) BY <1>3, <1>4, <1>5, ConcatProperties
<1> QED BY <1>6, SequencesAreFinite

LEMMA EvidenceLinesAre ==
    ASSUME NEW x \in FusedLines
    PROVE  /\ EvidenceLines(x.both) \in Seq(EvidenceOf({"t", "u", "z"}, {"x", "y", ""}))
           /\ 1 \in DOMAIN EvidenceLines(x.both)
           /\ x.flag_at \in Int
<1>1. x.both[1] \in Evidence /\ x.both[2] \in Evidence /\ x.flag_at \in Int BY DEF FusedLines
<1> DEFINE E == EvidenceOf({"t", "u", "z"}, {"x", "y", ""})
           quiet == [template |-> "z", service |-> "", sev |-> 6, base |-> 20, seq |-> 0,
                     par |-> 0, rate |-> 0]
<1>2. quiet \in E BY DEF EvidenceOf
<1>3. x.both[1] \in E /\ x.both[2] \in E
  <2> DEFINE none == ""
             A == {"t", "u"}
             B == {"x", "y"}
             A2 == {"t", "u", "z"}
             B2 == {"x", "y", none}
             V == {0, 20, 50, 80}
  <2>1. Evidence \in SUBSET [template : A, service : B, sev : V \cup {3, 6}, base : V, seq : V,
                             par : V, rate : V]
    BY DEF Evidence
  <2>2. E = EvidenceOf(A2, B2) OBVIOUS
  <2>3. A \subseteq A2 /\ B \subseteq B2 /\ V \cup {3, 6} \subseteq Int /\ V \subseteq Int
    <3> HIDE DEF none
    <3> QED OBVIOUS
  <2> HIDE DEF A, A2, B, B2, V, E
  <2>4. \A l \in Evidence : l \in E BY <2>1, <2>2, <2>3 DEF EvidenceOf
  <2> QED BY <1>1, <2>4
<1>4. EvidenceLines(x.both) = [i \in 1 .. 16 |-> IF i % 2 = 1 /\ i <= 6 THEN x.both[1]
                                                ELSE IF i <= 6 THEN x.both[2] ELSE quiet]
  BY DEF EvidenceLines
<1> HIDE DEF quiet, E
<1>5. EvidenceLines(x.both) \in [1 .. 16 -> E] BY <1>2, <1>3, <1>4
<1>6. 1 \in DOMAIN EvidenceLines(x.both) /\ EvidenceLines(x.both) \in Seq(E)
  <2> DEFINE f == EvidenceLines(x.both)
  <2>1. 1 \in 1 .. 16 /\ 16 \in Nat OBVIOUS
  <2>2. f \in [1 .. 16 -> E] BY <1>5
  <2> HIDE DEF f
  <2>3. 1 \in DOMAIN f BY <2>1, <2>2
  <2>4. f \in Seq(E)
    <3> HIDE DEF E
    <3> QED BY <2>1, <2>2, ArraysAreSequences
  <2> QED BY <2>3, <2>4 DEF f
<1> QED BY <1>1, <1>6 DEF E

\* The inputs of the detectors are some of those of the theorems about them.
LEMMA DetectorsHold == ASSUME input \in Inputs(part) PROVE DetectorsSound
<1>1. BurstsStandOut
  <2> SUFFICES ASSUME part = "rates" PROVE Detect!BurstsStandOut(input) BY DEF BurstsStandOut
  <2>1. input \in Rates BY DEF Inputs
  <2>2. DOMAIN input = 0 .. 5 /\ \A b \in DOMAIN input : input[b] \in Nat BY <2>1 DEF Rates
  <2>3. IsFiniteSet(0 .. 5)
    <3>1. 0 \in Int /\ 5 \in Int OBVIOUS
    <3> QED BY <3>1, FS_Interval
  <2> QED BY <2>2, <2>3, BurstsAlwaysStandOut
<1>2. BinsEven
  <2> SUFFICES ASSUME part = "bins" PROVE Detect!BinsEven(input.lines, input.least)
    BY DEF BinsEven
  <2>1. input \in Bins BY DEF Inputs
  <2>2. input.lines \in Nat \ {0} /\ input.least \in Nat \ {0} BY <2>1 DEF Bins
  <2> QED BY <2>2, BinsAlwaysEven
<1>3. OutliersUnmasked
  <2> SUFFICES ASSUME part = "slots" PROVE Detect!OutliersUnmasked(input, 1)
    BY DEF OutliersUnmasked
  <2>1. input \in Slots BY DEF Inputs
  <2>2. PICK c \in [1 .. 4 -> 0 .. 6] :
           input = [i \in 1 .. c[1] + c[2] + c[3] + c[4] |->
                       IF i <= c[1] THEN 1 ELSE IF i <= c[1] + c[2] THEN 2
                       ELSE IF i <= c[1] + c[2] + c[3] THEN 9 ELSE 60]
    BY <2>1 DEF Slots
  <2>3. c[1] + c[2] + c[3] + c[4] \in Nat OBVIOUS
  <2>4. input \in Seq(Int) BY <2>2, <2>3
  <2> QED BY <2>4, OutliersNeverMasked
<1>4. SessionsWhole
  <2> SUFFICES ASSUME part = "sessions"
               PROVE  Detect!SessionsWhole(SessionLines(input), 3, 2, 70)
    BY DEF SessionsWhole
  <2>1. input \in Sessions BY DEF Inputs
  <2> QED BY <2>1, SessionLinesAre, SessionsAlwaysWhole
<1>5. LiftedInCompany
  <2> SUFFICES ASSUME part = "companies" PROVE Detect!LiftedInCompany(CompanyLines(input), 8)
    BY DEF LiftedInCompany
  <2>1. input \in Companies BY DEF Inputs
  <2> QED BY <2>1, CompanyLinesAre, AlwaysLiftedInCompany
<1>6. RareSevereSurfaced
  <2> SUFFICES ASSUME part = "floored"
               PROVE  Detect!RareSevereSurfaced(input.lines, input.near, input.rare, input.flag_at)
    BY DEF RareSevereSurfaced
  <2>1. input \in Floored BY DEF Inputs
  <2> DEFINE L == [sev : {2, 4}, template : {"t", "u"}, score : {10, 65}]
  <2>2. input.lines \in UpTo(3, L) /\ input.flag_at \in Int BY <2>1 DEF Floored
  <2>3. input.lines \in Seq(L) BY <2>2, UpToAre
  <2>4. \A i \in DOMAIN input.lines : input.lines[i].score \in Int
    <3> TAKE i \in DOMAIN input.lines
    <3>1. \A l \in L : l.score \in Int OBVIOUS
    <3> HIDE DEF L
    <3>2. input.lines[i] \in L BY <2>3
    <3> QED BY <3>1, <3>2
  <2> QED BY <2>2, <2>4, RareSevereAlwaysSurfaced
<1>7. KnownMoreRoutine
  <2> SUFFICES ASSUME part = "routines"
               PROVE  Detect!KnownMoreRoutine(input.positions, 8, input.buckets, input.spread,
                                              input.score)
    BY DEF KnownMoreRoutine
  <2>1. input \in Routines BY DEF Inputs
  <2>2. /\ input.positions \in SUBSET (1 .. 8) /\ input.buckets \in Int
        /\ input.spread \in -1 .. 100 /\ input.score \in Int
    BY <2>1 DEF Routines
  <2> QED BY <2>2, KnownNeverLessRoutine
<1>8. BurstsExceptional
  <2> SUFFICES ASSUME part = "bursty" PROVE Fuse!BurstsExceptional(BurstyLines(input), 5, 4)
    BY DEF BurstsExceptional
  <2>1. input \in Bursty BY DEF Inputs
  <2> QED BY <2>1, BurstyLinesAre, BurstsAlwaysExceptional
<1>9. EvidenceReachesFlag
  <2> SUFFICES ASSUME part = "fused"
               PROVE  Fuse!EvidenceReachesFlag(EvidenceLines(input.both), 1, input.part, 75, 2,
                                               input.near, 3, input.flag_at)
    BY DEF EvidenceReachesFlag
  <2>1. input \in FusedLines BY DEF Inputs
  <2>2. 75 \in Int OBVIOUS
  <2> DEFINE lines == EvidenceLines(input.both)
  <2>3. /\ lines \in Seq(EvidenceOf({"t", "u", "z"}, {"x", "y", ""}))
        /\ 1 \in DOMAIN lines /\ input.flag_at \in Int
    BY <2>1, EvidenceLinesAre
  <2> HIDE DEF lines
  <2>4. Fuse!EvidenceReachesFlag(lines, 1, input.part, 75, 2, input.near, 3, input.flag_at)
    BY <2>2, <2>3, EvidenceAlwaysReachesFlag
  <2> QED BY <2>4 DEF lines
<1> QED BY <1>1, <1>2, <1>3, <1>4, <1>5, <1>6, <1>7, <1>8, <1>9 DEF DetectorsSound

-----------------------------------------------------------------------------
(* The plan of the work, and what is said of a finding: the quoted block,  *)
(* the impact, the counts of a window, the verdict on a run.               *)

\* The library is the same in every module that uses it.
LEMMA SameLibrary ==
    \A S : /\ Plan!Max(S) = Detect!Max(S) /\ Plan!Min(S) = Detect!Min(S)
           /\ View!Max(S) = Detect!Max(S) /\ View!Min(S) = Detect!Min(S)
           /\ Found!Max(S) = Detect!Max(S) /\ Found!Min(S) = Detect!Min(S)
           /\ Found!Cardinality(S) = Cardinality(S)
BY Zenon DEF Plan!Max, Detect!Max, Plan!Min, Detect!Min, View!Max, View!Min, Found!Max,
             Found!Min, Found!Cardinality, Cardinality

LEMMA AtLeastOne ==
    ASSUME NEW k \in Int PROVE Plan!AtLeast1(k) = IF 1 >= k THEN 1 ELSE k
<1>1. Plan!AtLeast1(k) = Detect!Max({1, k}) BY SameLibrary, Zenon DEF Plan!AtLeast1
<1>2. 1 \in Int OBVIOUS
<1> QED BY <1>1, <1>2, MaxOfTwo

\* The cores that are left to others: some where there are several, not all.
LEMMA ReservedIs ==
    ASSUME NEW cores \in Int, NEW headroom \in Int
    PROVE  LET kept == Plan!ReservedCores(cores, headroom)
           IN  /\ kept \in Nat
               /\ cores <= 1 => kept = 0
               /\ cores > 1 => kept <= cores - 1 /\ (headroom # 0 => kept >= 1)
<1> DEFINE kept == Plan!ReservedCores(cores, headroom)
<1>1. kept = IF cores <= 1 THEN 0
             ELSE IF headroom < 0 THEN Plan!AtLeast1(Plan!Quarter(cores))
             ELSE Detect!Min({headroom, cores - 1})
  BY SameLibrary, Zenon DEF Plan!ReservedCores
<1> HIDE DEF kept
<1>2. CASE cores <= 1 BY <1>1, <1>2 DEF kept
<1>3. CASE cores > 1 /\ headroom < 0
  <2> DEFINE quarter == Plan!Quarter(cores)
             q == cores \div 4
  <2>1. q \in Nat /\ 4 * q <= cores /\ cores = 4 * q + (cores % 4) BY <1>3
  <2>2. quarter = IF cores % 4 = 3 \/ (cores % 4 = 2 /\ q % 2 = 1) THEN q + 1 ELSE q
    BY DEF Plan!Quarter
  <2>3. quarter \in Nat /\ (quarter = q \/ (quarter = q + 1 /\ cores % 4 >= 2))
    BY <2>1, <2>2, <1>3
  <2>4. kept = Plan!AtLeast1(quarter) BY <1>1, <1>3
  <2>5. cores % 4 \in 0 .. 3 OBVIOUS
  <2> HIDE DEF quarter, q
  <2>6. kept = IF 1 >= quarter THEN 1 ELSE quarter BY <2>3, <2>4, AtLeastOne
  <2>7. quarter <= cores - 1 \/ quarter <= 1 BY <1>3, <2>1, <2>3, <2>5
  <2> QED BY <1>3, <2>3, <2>6, <2>7 DEF kept
<1>4. CASE cores > 1 /\ ~(headroom < 0)
  <2> DEFINE rest == cores - 1
  <2>1. rest \in Int /\ rest >= 1 BY <1>4
  <2>2. kept = Detect!Min({headroom, rest}) BY <1>1, <1>4
  <2> HIDE DEF rest
  <2>3. kept = IF headroom <= rest THEN headroom ELSE rest BY <2>1, <2>2, MaxOfTwo
  <2> QED BY <1>4, <2>1, <2>3 DEF rest, kept
<1> QED BY <1>2, <1>3, <1>4

\* Memory takes workers from a scan, and leaves it one.
LEMMA MemCappedIs ==
    ASSUME NEW workers \in Nat \ {0}, NEW size \in Nat, NEW available \in Nat
    PROVE  Plan!MemCapped(workers, size, available) \in 1 .. workers
<1> DEFINE asked == (3 * size) \div Plan!AtLeast1(workers * 4)
           need == Detect!Max({768, asked})
           room == (available * 60) \div (100 * need)
           cap == Detect!Max({2, room})
<1>1. Plan!MemCapped(workers, size, available) =
        IF workers <= 1 \/ size = 0 THEN Plan!AtLeast1(workers)
        ELSE IF size < 64 \/ available = 0 THEN workers
        ELSE Plan!AtLeast1(Detect!Min({workers, cap}))
  BY SameLibrary, Zenon DEF Plan!MemCapped
<1>2. asked \in Nat
  <2> DEFINE threads == workers * 4
             bytes == 3 * size
             d == Plan!AtLeast1(threads)
  <2>1. threads \in Int /\ bytes \in Nat OBVIOUS
  <2> HIDE DEF threads, bytes
  <2>2. d = IF 1 >= threads THEN 1 ELSE threads BY <2>1, AtLeastOne
  <2>3. d \in Nat /\ d > 0 BY <2>1, <2>2
  <2> HIDE DEF d
  <2>4. bytes \div d \in Nat BY <2>1, <2>3, QuotientRest
  <2> QED BY <2>4 DEF d, bytes, threads
<1> HIDE DEF asked
<1>3. need \in Nat /\ need > 0
  <2>1. need = IF 768 >= asked THEN 768 ELSE asked
    <3>1. 768 \in Int /\ asked \in Int BY <1>2
    <3> QED BY <3>1, MaxOfTwo
  <2> QED BY <1>2, <2>1
<1> HIDE DEF need
<1>4. room \in Nat
  <2> DEFINE above == available * 60
             below == 100 * need
  <2>1. above \in Nat /\ below \in Nat /\ below > 0 BY <1>3
  <2> HIDE DEF above, below
  <2>2. above \div below \in Nat BY <2>1, QuotientRest
  <2> QED BY <2>2 DEF above, below
<1> HIDE DEF room
<1>5. cap \in Nat /\ cap >= 2
  <2>1. cap = IF 2 >= room THEN 2 ELSE room
    <3>1. 2 \in Int /\ room \in Int BY <1>4
    <3> QED BY <3>1, MaxOfTwo
  <2> QED BY <1>4, <2>1
<1> HIDE DEF cap
<1> DEFINE least == Detect!Min({workers, cap})
<1>6. least = IF workers <= cap THEN workers ELSE cap
  <2>1. workers \in Int /\ cap \in Int BY <1>5
  <2> QED BY <2>1, MaxOfTwo
<1> HIDE DEF least
<1>7. least \in 1 .. workers BY <1>5, <1>6
<1>8. Plan!AtLeast1(least) = IF 1 >= least THEN 1 ELSE least BY <1>7, AtLeastOne
<1>9. Plan!AtLeast1(workers) = IF 1 >= workers THEN 1 ELSE workers BY AtLeastOne
<1> QED BY <1>1, <1>7, <1>8, <1>9 DEF least

\* A scan leaves the cores it has promised to leave, whatever it was asked for and
\* however large the file is (_reserved_cores, mem_capped_workers, plan).
THEOREM HeadroomAlwaysKept ==
    ASSUME NEW cores \in Int, NEW headroom \in Int, NEW size \in Nat, NEW available \in Nat
    PROVE  Plan!HeadroomKept(cores, headroom, size, available)
<1> DEFINE kept == Plan!ReservedCores(cores, headroom)
           rest == cores - kept
           budget == Plan!AtLeast1(rest)
           w == Plan!MemCapped(budget, size, available)
<1>1. /\ kept \in Nat
      /\ cores <= 1 => kept = 0
      /\ cores > 1 => kept <= cores - 1 /\ (headroom # 0 => kept >= 1)
  BY ReservedIs
<1>2. Plan!ScalePlan(2, 1, size, available, cores, headroom).workers = w
  <2>1. ~(2 < 1) OBVIOUS
  <2>2. Plan!ScalePlan(2, 1, size, available, cores, headroom)
          = [strategy |-> "scan",
             workers |-> Plan!MemCapped(Plan!WorkerBudget(cores, headroom), size, available)]
    BY <2>1, Zenon DEF Plan!ScalePlan
  <2>3. Plan!WorkerBudget(cores, headroom) = budget BY Zenon DEF Plan!WorkerBudget
  <2> HIDE DEF budget
  <2> QED BY <2>2, <2>3
<1> HIDE DEF kept
<1>3. rest \in Int BY <1>1
<1> HIDE DEF rest
<1>4. budget = IF 1 >= rest THEN 1 ELSE rest BY <1>3, AtLeastOne
<1> HIDE DEF budget
<1>5. budget \in Nat \ {0} BY <1>3, <1>4
<1>6. w \in 1 .. budget BY <1>5, MemCappedIs
<1> HIDE DEF w
<1>7. Plan!AtLeast1(cores) = IF 1 >= cores THEN 1 ELSE cores BY AtLeastOne
<1>8. /\ w >= 1 /\ w + kept <= Plan!AtLeast1(cores)
      /\ headroom # 0 /\ cores > 1 => w < cores
  BY <1>1, <1>3, <1>4, <1>5, <1>6, <1>7 DEF rest
<1> QED BY <1>2, <1>8, Zenon DEF Plan!HeadroomKept, kept

\* A block of raw lines ends before the next record, an empty line or at its length,
\* and not sooner (reconstruct_trace, raw_block).
THEOREM BlockAlwaysInRecord ==
    ASSUME NEW T, NEW lines \in Seq(T), NEW i \in DOMAIN lines, NEW most \in Nat
    PROVE  View!BlockStaysInRecord(lines, i, most)
<1> DEFINE e == View!BlockEnd(lines, i, most)
           size == Len(lines)
           stop == i + most
           reach == Detect!Min({size, stop})
           Goes(k) == ~lines[k].blank /\ ~lines[k].record
           X == {j \in i + 1 .. reach : \A k \in i + 1 .. j : Goes(k)}
           Y == X \cup {i}
<1>1. i \in Nat /\ size \in Nat /\ i <= size /\ stop \in Nat /\ i <= stop OBVIOUS
<1>2. e = Detect!Max(Y)
  <2>1. e = Detect!Max({i} \cup X) BY SameLibrary, Zenon DEF View!BlockEnd, View!Continues
  <2>2. {i} \cup X = Y OBVIOUS
  <2> HIDE DEF X, Y, e
  <2> QED BY <2>1, <2>2
<1>3. reach = IF size <= stop THEN size ELSE stop
  <2>1. size \in Int /\ stop \in Int BY <1>1
  <2> HIDE DEF size, stop
  <2> QED BY <2>1, MaxOfTwo
<1>4. stop = i + most OBVIOUS
<1> HIDE DEF reach, stop, e, size
<1>5. IsFiniteSet(Y) /\ Y \subseteq Int /\ Y # {}
  <2>1. X \in SUBSET (i + 1 .. reach) OBVIOUS
  <2>2. i + 1 \in Int /\ reach \in Int BY <1>1, <1>3
  <2>3. IsFiniteSet(i + 1 .. reach)
    <3> DEFINE first == i + 1
    <3>1. first \in Int BY <2>2
    <3> HIDE DEF first
    <3>2. IsFiniteSet(first .. reach) BY <2>2, <3>1, FS_Interval
    <3> QED BY <3>2 DEF first
  <2> HIDE DEF X
  <2>4. IsFiniteSet(X) BY <2>1, <2>3, FS_Subset
  <2>5. X \subseteq Int
    <3>1. i + 1 .. reach \subseteq Int BY <2>2
    <3> QED BY <2>1, <3>1
  <2>6. IsFiniteSet(Y) BY <2>4, FS_AddElement
  <2>7. i \in Int BY <1>1
  <2>8. Y \subseteq Int /\ Y # {}
    <3> HIDE DEF reach
    <3> QED BY <2>5, <2>7, Zenon
  <2> QED BY <2>6, <2>8
<1>6. e \in Y /\ \A y \in Y : y <= e
  <2> HIDE DEF Y
  <2> QED BY <1>2, <1>5, MaxIs
<1>7. e \in Int /\ i <= e /\ e <= stop /\ e <= size /\ \A k \in i + 1 .. e : Goes(k)
  <2>1. CASE e = i BY <1>1, <2>1
  <2>2. CASE e \in X
    <3>1. e \in i + 1 .. reach /\ \A k \in i + 1 .. e : Goes(k) BY <2>2
    <3> HIDE DEF Goes
    <3> QED BY <1>1, <1>3, <3>1
  <2> QED BY <1>6, <2>1, <2>2
<1>8. ASSUME e < size, e < stop, Goes(e + 1) PROVE FALSE
  <2>1. e + 1 \in i + 1 .. reach BY <1>1, <1>3, <1>7, <1>8
  <2>2. \A k \in i + 1 .. e + 1 : Goes(k)
    <3> TAKE k \in i + 1 .. e + 1
    <3>1. k \in i + 1 .. e \/ k = e + 1 BY <1>1, <1>7
    <3> HIDE DEF Goes
    <3> QED BY <1>7, <1>8, <3>1
  <2>3. e + 1 \in Y BY <2>1, <2>2
  <2> HIDE DEF Y
  <2> QED BY <1>6, <1>7, <2>3
<1>9. e - i <= most BY <1>1, <1>4, <1>7
<1>10. \A k \in i + 1 .. e : ~lines[k].record BY <1>7
<1>11. e < size /\ e < stop => lines[e + 1].record \/ lines[e + 1].blank BY <1>8
<1> QED BY <1>4, <1>9, <1>10, <1>11, Zenon DEF View!BlockStaysInRecord, e, stop, size

\* What is told of the impact of a family, by what its block says first.
Height(m) == IF m = "non-blocking" THEN 0 ELSE IF m = "unknown" THEN 1 ELSE 2
ByLevel(lvl, trace) ==
    IF lvl \in {"FATAL", "CRITICAL"} THEN 2
    ELSE IF lvl \in {"WARNING", "WARN", "NOTICE", "INFO", "DEBUG"} THEN 0
    ELSE IF trace THEN 2 ELSE 1
ImpactOf(lvl, words, recovers, trace) ==
    IF "hard" \in words THEN 2
    ELSE IF recovers \/ "soft" \in words THEN 0
    ELSE IF "block" \in words THEN 2 ELSE ByLevel(lvl, trace)
Told == {"non-blocking", "unknown", "blocking"}

LEMMA ImpactIs ==
    ASSUME NEW lvl, NEW words \in SUBSET {"hard", "soft", "block"}, NEW recovers, NEW trace
    PROVE  LET impact == View!Impact(lvl, words, recovers, trace)
           IN  impact \in Told /\ Height(impact) = ImpactOf(lvl, words, recovers, trace)
<1>1. View!BySeverity(lvl, trace)
        = IF lvl \in {"FATAL", "CRITICAL"} THEN "blocking"
          ELSE IF lvl \in {"WARNING", "WARN", "NOTICE", "INFO", "DEBUG"} THEN "non-blocking"
          ELSE IF trace THEN "blocking" ELSE "unknown"
  BY DEF View!BySeverity
<1>2. CASE "hard" \in words
  <2>1. View!Impact(lvl, words, recovers, trace) = "blocking" BY <1>2 DEF View!Impact
  <2> QED BY <1>2, <2>1 DEF Height, ImpactOf, Told
<1>3. CASE "hard" \notin words /\ (recovers \/ "soft" \in words)
  <2>1. words # {"block"} \/ recovers BY <1>3
  <2>2. View!Impact(lvl, words, recovers, trace) = "non-blocking"
    BY <1>3 DEF View!Impact
  <2> QED BY <1>3, <2>2 DEF Height, ImpactOf, Told
<1>4. CASE "hard" \notin words /\ ~(recovers \/ "soft" \in words) /\ "block" \in words
  <2>1. words = {"block"} BY <1>4
  <2>2. View!Impact(lvl, words, recovers, trace) = "blocking" BY <1>4, <2>1 DEF View!Impact
  <2> QED BY <1>4, <2>2 DEF Height, ImpactOf, Told
<1>5. CASE "hard" \notin words /\ ~(recovers \/ "soft" \in words) /\ "block" \notin words
  <2>1. words = {} BY <1>5
  <2>2. View!Impact(lvl, words, recovers, trace) = View!BySeverity(lvl, trace)
    BY <1>5, <2>1 DEF View!Impact
  <2> QED BY <1>1, <1>5, <2>2 DEF Height, ImpactOf, ByLevel, Told
<1> QED BY <1>2, <1>3, <1>4, <1>5

\* What follows a line goes on to follow it.
LEMMA RecoveryStays ==
    ASSUME NEW T, NEW lines \in Seq(T), lines # <<>>, NEW more \in T,
           View!RecoveryAfter(lines, 1, 3)
    PROVE  View!RecoveryAfter(Append(lines, more), 1, 3)
<1> DEFINE longer == Append(lines, more)
           size == Len(lines)
           Reach(k) == Detect!Min({k, 4})
<1>1. size \in Nat /\ size >= 1 /\ Len(longer) = size + 1
      /\ \A j \in 1 .. size : longer[j] = lines[j]
  OBVIOUS
<1>2. \A f : View!RecoveryAfter(f, 1, 3) <=>
         \E j \in 2 .. Reach(Len(f)) : f[j].service = f[1].service /\ f[j].recovers
  <2>1. 1 + 1 = 2 /\ 1 + 3 = 4 OBVIOUS
  <2> QED BY <2>1, SameLibrary DEF View!RecoveryAfter
<1> HIDE DEF size, longer
<1>3. PICK j \in 2 .. Reach(size) : lines[j].service = lines[1].service /\ lines[j].recovers
  BY <1>2 DEF size
<1>4. Reach(size) = IF size <= 4 THEN size ELSE 4
  <2>1. 4 \in Int /\ size \in Int BY <1>1
  <2> QED BY <2>1, MaxOfTwo
<1>5. Reach(size + 1) = IF size + 1 <= 4 THEN size + 1 ELSE 4
  <2> DEFINE next1 == size + 1
  <2>1. 4 \in Int /\ next1 \in Int BY <1>1
  <2> HIDE DEF next1
  <2>2. Reach(next1) = IF next1 <= 4 THEN next1 ELSE 4 BY <2>1, MaxOfTwo
  <2> QED BY <2>2 DEF next1
<1> HIDE DEF Reach
<1>6. j \in 1 .. size /\ 1 \in 1 .. size /\ j \in 2 .. Reach(size + 1) BY <1>1, <1>3, <1>4, <1>5
<1>7. longer[j] = lines[j] /\ longer[1] = lines[1] BY <1>1, <1>6
<1> QED BY <1>1, <1>2, <1>3, <1>6, <1>7 DEF longer

\* From DEBUG to FATAL the impact told of a family does not fall when its level is
\* worse; ALERT and EMERGENCY, which classify_blocking does not name, are told as
\* ERROR is.  At every level the impact does not fall when the text names a stop, and
\* does not rise when it names a retry or the log goes on (classify_blocking, diagnose).
THEOREM ImpactAlwaysOrdered ==
    ASSUME NEW T, NEW lines \in Seq(T), lines # <<>>, NEW more \in T,
           NEW words \in SUBSET {"hard", "soft", "block"}, NEW trace
    PROVE  View!ImpactOrdered(lines, more, words, trace)
<1> DEFINE levels == <<"DEBUG", "INFO", "NOTICE", "WARN", "ERROR", "CRITICAL", "FATAL">>
           alarms == {"ALERT", "EMERGENCY"}
           Rec(ls) == View!RecoveryAfter(ls, 1, 3)
           H(m) == CASE m = "non-blocking" -> 0 [] m = "unknown" -> 1 [] m = "blocking" -> 2
           Of(ls, lvl, ws) == H(View!Impact(lvl, ws, Rec(ls), trace))
           Is(ls, lvl, ws) == ImpactOf(lvl, ws, Rec(ls), trace)
           longer == Append(lines, more)
           L(lvl) == ByLevel(lvl, trace)
<1>1. ASSUME NEW ls, NEW lvl, NEW ws \in SUBSET {"hard", "soft", "block"}
      PROVE  Of(ls, lvl, ws) = Is(ls, lvl, ws)
  <2> DEFINE impact == View!Impact(lvl, ws, Rec(ls), trace)
  <2> HIDE DEF Rec
  <2>1. impact \in Told /\ Height(impact) = Is(ls, lvl, ws) BY ImpactIs
  <2> HIDE DEF impact
  <2>2. H(impact) = Height(impact) BY <2>1 DEF Told, Height
  <2> QED BY <2>1, <2>2 DEF impact
<1>2. Rec(lines) => Rec(longer) BY RecoveryStays
<1>3. words \cup {"soft"} \in SUBSET {"hard", "soft", "block"}
      /\ words \cup {"hard"} \in SUBSET {"hard", "soft", "block"}
  OBVIOUS
<1>4. \A lvl : L(lvl) \in 0 .. 2 BY DEF ByLevel
<1>5. \A k \in 2 .. 7 : L(levels[k - 1]) <= L(levels[k])
  <2>1. /\ L(levels[1]) = 0 /\ L(levels[2]) = 0 /\ L(levels[3]) = 0 /\ L(levels[4]) = 0
        /\ L(levels[5]) \in {1, 2} /\ L(levels[6]) = 2 /\ L(levels[7]) = 2
    BY DEF ByLevel
  <2> HIDE DEF L, levels
  <2> QED BY <2>1
<1>6. \A lvl \in alarms : L(lvl) = L("ERROR") BY DEF ByLevel
<1>7. \A ls, lvl, ws : Is(ls, lvl, ws) = IF "hard" \in ws THEN 2
                                         ELSE IF Rec(ls) \/ "soft" \in ws THEN 0
                                         ELSE IF "block" \in ws THEN 2 ELSE L(lvl)
  BY DEF ImpactOf
<1>8. Len(levels) = 7 OBVIOUS
<1> HIDE DEF L, Is, Rec, longer, levels, alarms
<1>9. ASSUME NEW lvl, NEW other, L(lvl) <= L(other)
      PROVE  Of(lines, lvl, words) <= Of(lines, other, words)
  <2>1. Is(lines, lvl, words) <= Is(lines, other, words) BY <1>4, <1>7, <1>9
  <2> HIDE DEF Of
  <2> QED BY <1>1, <2>1
<1>10. ASSUME NEW lvl, NEW other, L(lvl) = L(other)
       PROVE  Of(lines, lvl, words) = Of(lines, other, words)
  <2>1. Is(lines, lvl, words) = Is(lines, other, words) BY <1>7, <1>10
  <2> HIDE DEF Of
  <2> QED BY <1>1, <2>1
<1>11. ASSUME NEW lvl
       PROVE  /\ Of(lines, lvl, words \cup {"soft"}) <= Of(lines, lvl, words)
              /\ Of(lines, lvl, words \cup {"hard"}) = 2
              /\ Of(longer, lvl, words) <= Of(lines, lvl, words)
  <2>1. /\ Is(lines, lvl, words \cup {"soft"}) <= Is(lines, lvl, words)
        /\ Is(lines, lvl, words \cup {"hard"}) = 2
        /\ Is(longer, lvl, words) <= Is(lines, lvl, words)
    BY <1>2, <1>4, <1>7
  <2> HIDE DEF Of
  <2> QED BY <1>1, <1>3, <2>1
<1> HIDE DEF Of
<1>12. /\ \A k \in 2 .. Len(levels) :
              Of(lines, levels[k - 1], words) <= Of(lines, levels[k], words)
       /\ \A lvl \in alarms : Of(lines, lvl, words) = Of(lines, "ERROR", words)
       /\ \A lvl \in View!Range(levels) \cup alarms :
              /\ Of(lines, lvl, words \cup {"soft"}) <= Of(lines, lvl, words)
              /\ Of(lines, lvl, words \cup {"hard"}) = 2
              /\ Of(longer, lvl, words) <= Of(lines, lvl, words)
  BY <1>5, <1>6, <1>8, <1>9, <1>10, <1>11
<1> QED BY <1>12, Zenon DEF View!ImpactOrdered, Of, levels, alarms, longer, Rec

\* How many lines of one level each hour has, of the lines in some hours.
InHours(times, H) == {i \in DOMAIN times : times[i] \div 4 \in H}

LEMMA HistogramSums ==
    ASSUME NEW T, NEW times \in Seq(T), NEW hist, DOMAIN hist = {times[i] \div 4 : i \in DOMAIN times},
           \A h \in DOMAIN hist : hist[h] = Cardinality(InHours(times, {h})),
           NEW H \in SUBSET DOMAIN hist, IsFiniteSet(DOMAIN hist)
    PROVE  SumOn(hist, H) = Cardinality(InHours(times, H))
<1> DEFINE Lines(s) == InHours(times, s)
           B == {s \in SUBSET H : SumOn(hist, s) # Cardinality(Lines(s))}
<1>1. SUFFICES ASSUME B # {} PROVE FALSE
  OBVIOUS
<1>2. IsFiniteSet(DOMAIN times)
  <2>1. DOMAIN times = 1 .. Len(times) /\ Len(times) \in Int /\ 1 \in Int OBVIOUS
  <2> QED BY <2>1, FS_Interval
<1>3. \A s : IsFiniteSet(Lines(s)) /\ Cardinality(Lines(s)) \in Nat
  <2> TAKE s
  <2>1. Lines(s) \in SUBSET DOMAIN times BY DEF InHours
  <2> HIDE DEF Lines
  <2> QED BY <1>2, <2>1, FS_Subset, FS_CardinalityType
<1>4. PICK s \in B : IsFiniteSet(s) /\ \A r \in B : r \subseteq s => r = s
  <2>1. B \subseteq SUBSET H /\ IsFiniteSet(H) BY FS_Subset
  <2> HIDE DEF B
  <2> QED BY <1>1, <2>1, SmallestSet
<1>5. s \in SUBSET H /\ SumOn(hist, s) # Cardinality(Lines(s)) BY <1>4
<1>6. s # {}
  <2>1. ASSUME s = {} PROVE FALSE
    <3>1. Lines(s) = {} BY <2>1 DEF InHours
    <3> HIDE DEF Lines
    <3>2. SumOn(hist, s) = 0 /\ Cardinality(Lines(s)) = 0 BY <2>1, <3>1, SumOfNone, FS_EmptySet
    <3> QED BY <1>5, <3>2
  <2> QED BY <2>1
<1>7. PICK h \in s : TRUE BY <1>6
<1> DEFINE r == s \ {h}
<1>8. r \in SUBSET H /\ r \subseteq s /\ r # s BY <1>5, <1>7
<1>9. SumOn(hist, r) = Cardinality(Lines(r)) BY <1>4, <1>8
<1>10. SumOn(hist, s) = hist[h] + SumOn(hist, r)
  <2>1. \A x \in s : hist[x] = Cardinality(Lines({x})) BY <1>5
  <2> HIDE DEF Lines
  <2>2. \A x \in s : hist[x] \in Int
    <3> TAKE x \in s
    <3>1. hist[x] = Cardinality(Lines({x})) BY <2>1
    <3>2. Cardinality(Lines({x})) \in Nat BY <1>3
    <3> QED BY <3>1, <3>2
  <2> QED BY <1>4, <1>7, <2>2, SumLess
<1>11. hist[h] = Cardinality(Lines({h})) BY <1>5, <1>7
<1>12. Lines(s) = Lines(r) \cup Lines({h}) /\ Lines(r) \cap Lines({h}) = {}
  BY <1>7 DEF InHours
<1> HIDE DEF Lines, r
<1>13. Cardinality(Lines(r) \cup Lines({h})) = Cardinality(Lines(r)) + Cardinality(Lines({h}))
  <2>1. Cardinality(Lines(r) \cup Lines({h}))
          = Cardinality(Lines(r)) + Cardinality(Lines({h})) - Cardinality(Lines(r) \cap Lines({h}))
    BY <1>3, FS_Union
  <2>2. Cardinality(Lines(r) \cap Lines({h})) = 0 BY <1>12, FS_EmptySet, Zenon
  <2> QED BY <1>3, <2>1, <2>2
<1>14. Cardinality(Lines(s)) = Cardinality(Lines(r)) + Cardinality(Lines({h}))
  BY <1>12, <1>13, Zenon
<1> QED BY <1>3, <1>5, <1>9, <1>10, <1>11, <1>14

LEMMA FoundSum ==
    ASSUME NEW S, IsFiniteSet(S), NEW f, \A x \in S : f[x] \in Int
    PROVE  Found!SumOver(S, LAMBDA x : f[x]) = SumOn(f, S)
<1> DEFINE g == [x \in S |-> f[x]]
<1>1. Found!SumOver(S, LAMBDA x : f[x]) = SumOn(g, DOMAIN g)
  BY Zenon DEF Found!SumOver, SumOn, Found!FoldFunction, FoldFunctionOnSet,
               Found!FoldFunctionOnSet, Found!MapThenFoldSet, MapThenFoldSet
<1>2. DOMAIN g = S /\ \A x \in S : f[x] = g[x] OBVIOUS
<1> HIDE DEF g
<1>3. SumOn(f, S) = SumOn(g, S) BY <1>2, SumOfSame
<1> QED BY <1>1, <1>2, <1>3

\* The menu counts the lines of the hours of its window.
LEMMA SeverityCountIs ==
    ASSUME NEW times \in Seq(Int), NEW ref \in Int, ref # Found!NoTime, NEW window \in Int
    PROVE  LET Lines == {i \in DOMAIN times : times[i] \div 4 >= (ref - window) \div 4}
           IN  /\ Found!SeverityCount(times, ref, window) = Cardinality(Lines)
               /\ IsFiniteSet(Lines)
<1> DEFINE hist == Found!Histogram(times)
           oldest == (ref - window) \div 4
           H == {h \in DOMAIN hist : h >= oldest}
           Lines == {i \in DOMAIN times : times[i] \div 4 >= oldest}
<1>1. Found!SeverityCount(times, ref, window) = Found!SumOver(H, LAMBDA h : hist[h])
  BY Zenon DEF Found!SeverityCount, Found!OldestHour, Found!HourBucket
<1>2. hist = [h \in {times[i] \div 4 : i \in DOMAIN times} |-> Cardinality(InHours(times, {h}))]
  <2>1. \A h : {i \in DOMAIN times : times[i] \div 4 = h} = InHours(times, {h}) BY DEF InHours
  <2>2. hist = [h \in {times[i] \div 4 : i \in DOMAIN times} |->
                  Found!Cardinality({i \in DOMAIN times : times[i] \div 4 = h})]
    BY Zenon DEF Found!Histogram, Found!HourBucket
  <2> HIDE DEF hist
  <2> QED BY <2>1, <2>2, SameLibrary
<1>3. IsFiniteSet(DOMAIN times)
  <2>1. DOMAIN times = 1 .. Len(times) /\ Len(times) \in Int /\ 1 \in Int OBVIOUS
  <2> QED BY <2>1, FS_Interval
<1> HIDE DEF hist
<1>4. DOMAIN hist = {times[i] \div 4 : i \in DOMAIN times} BY <1>2
<1>5. IsFiniteSet(DOMAIN hist)
  <2> DEFINE g == [i \in DOMAIN times |-> times[i] \div 4]
             V == {g[i] : i \in DOMAIN times}
  <2>1. DOMAIN hist = V BY <1>4
  <2>2. IsFiniteSet(V)
    <3> HIDE DEF g
    <3> QED BY <1>3, ValuesAreFinite
  <2> QED BY <2>1, <2>2
<1>6. \A h \in DOMAIN hist : hist[h] = Cardinality(InHours(times, {h})) BY <1>2
<1>7. \A h \in DOMAIN hist : hist[h] \in Nat
  <2> TAKE h \in DOMAIN hist
  <2>1. InHours(times, {h}) \in SUBSET DOMAIN times BY DEF InHours
  <2> QED BY <1>3, <1>6, <2>1, FS_Subset, FS_CardinalityType
<1>8. H \in SUBSET DOMAIN hist /\ \A h \in H : hist[h] \in Int BY <1>7
<1>9. Lines = InHours(times, H)
  <2>1. \A i \in DOMAIN times : times[i] \div 4 \in H <=> times[i] \div 4 >= oldest BY <1>4
  <2> HIDE DEF H, oldest
  <2> QED BY <2>1 DEF InHours
<1> HIDE DEF H
<1>10. IsFiniteSet(H) BY <1>5, <1>8, FS_Subset
<1>11. SumOn(hist, H) = Cardinality(InHours(times, H)) BY <1>4, <1>5, <1>6, <1>8, HistogramSums
<1>12. Found!SumOver(H, LAMBDA h : hist[h]) = SumOn(hist, H) BY <1>8, <1>10, FoundSum
<1>13. IsFiniteSet(Lines)
  <2>1. Lines \in SUBSET DOMAIN times OBVIOUS
  <2> HIDE DEF Lines
  <2> QED BY <1>3, <2>1, FS_Subset
<1>14. Found!SeverityCount(times, ref, window) = Cardinality(Lines)
  BY <1>1, <1>9, <1>11, <1>12, Zenon
<1> QED BY <1>13, <1>14

\* The menu's window (severity_count) misses no line in it, counts none an hour older,
\* and shows no less when it is wider; without a reference time it counts nothing.  A
\* family is in the window (families_in_window) if a line of it is, and only then,
\* unless there is no window or no reference, where every family is in.
THEOREM WindowAlwaysCounts ==
    ASSUME NEW times \in Seq(Nat), NEW ref \in Int, NEW window \in Int
    PROVE  Found!WindowCounts(times, ref, window)
<1> DEFINE Recent(w) == {i \in DOMAIN times : times[i] >= ref - w}
           Covered(w) == {i \in DOMAIN times : times[i] \div 4 >= (ref - w) \div 4}
           values == {times[i] : i \in DOMAIN times}
           latest == IF times = <<>> THEN Found!NoTime ELSE Detect!Max(values)
           shown == Found!Listed(<<[last |-> latest]>>, ref, window)
           Free == ref = Found!NoTime \/ window = 0
<1>1. /\ times \in Seq(Int) /\ \A i \in DOMAIN times : times[i] \in Nat
      /\ DOMAIN times = 1 .. Len(times) /\ Len(times) \in Nat
  OBVIOUS
<1>2. IsFiniteSet(DOMAIN times)
  <2>1. Len(times) \in Int /\ 1 \in Int BY <1>1
  <2> QED BY <1>1, <2>1, FS_Interval
<1>3. ref # Found!NoTime =>
         \A w \in Int : Found!SeverityCount(times, ref, w) = Cardinality(Covered(w))
  BY <1>1, SeverityCountIs
<1>4. \A w \in Int : Recent(w) \in SUBSET DOMAIN times /\ Covered(w) \in SUBSET DOMAIN times
  OBVIOUS
<1>5. ASSUME NEW A \in SUBSET DOMAIN times, NEW C \in SUBSET A
      PROVE  Cardinality(C) <= Cardinality(A) /\ IsFiniteSet(A)
  BY <1>2, FS_Subset
<1>6. Recent(window) \subseteq Covered(window)
  <2>1. \A a, b \in Int : a >= b => a \div 4 >= b \div 4 OBVIOUS
  <2>2. ref - window \in Int OBVIOUS
  <2> QED BY <1>1, <2>1, <2>2
<1>7. Covered(window) \subseteq Recent(window + 3)
  <2>1. \A a, b \in Int : a \div 4 >= b \div 4 => a >= b - 3 OBVIOUS
  <2>2. ref - window \in Int /\ ref - (window + 3) = (ref - window) - 3 OBVIOUS
  <2> QED BY <1>1, <2>1, <2>2
<1>8. Covered(window) \subseteq Covered(window + 1)
  <2>1. \A a \in Int : (a - 1) \div 4 <= a \div 4 OBVIOUS
  <2>2. ref - window \in Int /\ ref - (window + 1) = (ref - window) - 1 OBVIOUS
  <2>3. (ref - (window + 1)) \div 4 <= (ref - window) \div 4 BY <2>1, <2>2
  <2>4. \A i \in DOMAIN times : times[i] \div 4 \in Int BY <1>1
  <2>5. (ref - (window + 1)) \div 4 \in Int /\ (ref - window) \div 4 \in Int OBVIOUS
  <2> QED BY <2>3, <2>4, <2>5
<1>9. window + 3 \in Int /\ window + 1 \in Int OBVIOUS
<1>10. shown # {} <=> Free \/ Recent(window) # {}
  <2>1. shown = IF Free THEN {1}
                ELSE {k \in {1} : latest # Found!NoTime /\ latest >= ref - window}
    <3> DEFINE fams == <<[last |-> latest]>>
    <3>1. DOMAIN fams = {1} /\ fams[1].last = latest
      <4> HIDE DEF latest
      <4> QED OBVIOUS
    <3> HIDE DEF fams, latest
    <3>2. shown = IF Free THEN DOMAIN fams
                  ELSE {k \in DOMAIN fams : /\ fams[k].last # Found!NoTime
                                            /\ fams[k].last >= ref - window}
      BY DEF Found!Listed, Found!Where, fams
    <3> HIDE DEF shown
    <3> QED BY <3>1, <3>2
  <2>2. shown # {} <=> Free \/ (latest # Found!NoTime /\ latest >= ref - window)
    <3> HIDE DEF shown, latest
    <3> QED BY <2>1
  <2>3. CASE times = <<>>
    <3>1. Recent(window) = {} /\ latest = Found!NoTime BY <2>3
    <3> QED BY <2>2, <3>1
  <2>4. CASE times # <<>>
    <3>1. values # {} /\ values \subseteq Int BY <1>1, <2>4
    <3>2. IsFiniteSet(values) BY <1>2, ValuesAreFinite
    <3>3. latest = Detect!Max(values) BY <2>4
    <3>4. latest \in values /\ \A v \in values : v <= latest
      <4> HIDE DEF values, latest
      <4> QED BY <3>1, <3>2, <3>3, MaxIs
    <3> HIDE DEF latest
    <3>5. latest \in Nat /\ latest # Found!NoTime BY <1>1, <3>4 DEF Found!NoTime
    <3>6. latest >= ref - window <=> \E i \in DOMAIN times : times[i] >= ref - window
      <4>1. ref - window \in Int OBVIOUS
      <4>2. ASSUME latest >= ref - window
            PROVE  \E i \in DOMAIN times : times[i] >= ref - window
        BY <3>4, <4>2
      <4>3. ASSUME NEW i \in DOMAIN times, times[i] >= ref - window PROVE latest >= ref - window
        <5>1. times[i] <= latest /\ times[i] \in Nat BY <1>1, <3>4
        <5> QED BY <3>5, <4>1, <4>3, <5>1
      <4> QED BY <4>2, <4>3
    <3> HIDE DEF shown
    <3> QED BY <2>2, <3>5, <3>6
  <2> QED BY <2>3, <2>4
<1>11. Recent(window) # {} <=> Cardinality(Recent(window)) > 0
  <2> DEFINE X == Recent(window)
  <2>1. IsFiniteSet(X)
    <3>1. X \in SUBSET DOMAIN times OBVIOUS
    <3> HIDE DEF X
    <3> QED BY <1>2, <3>1, FS_Subset
  <2> HIDE DEF X
  <2>2. Cardinality(X) \in Nat /\ (Cardinality(X) = 0 <=> X = {})
    BY <2>1, FS_EmptySet, FS_CardinalityType
  <2>3. X # {} <=> Cardinality(X) > 0 BY <2>2
  <2> QED BY <2>3 DEF X
<1> HIDE DEF Recent, Covered, shown, Free
<1>12. /\ Cardinality(Recent(window)) <= Cardinality(Covered(window))
       /\ Cardinality(Covered(window)) <= Cardinality(Recent(window + 3))
       /\ Cardinality(Covered(window)) <= Cardinality(Covered(window + 1))
  BY <1>4, <1>5, <1>6, <1>7, <1>8, <1>9
<1>13. /\ Cardinality(Covered(window)) \in Nat /\ Cardinality(Covered(window + 1)) \in Nat
  BY <1>2, <1>4, <1>9, FS_Subset, FS_CardinalityType
<1>14. ref # Found!NoTime =>
         /\ Cardinality(Recent(window)) <= Found!SeverityCount(times, ref, window)
         /\ Found!SeverityCount(times, ref, window) <= Cardinality(Recent(window + 3))
         /\ Found!SeverityCount(times, ref, window + 1) >= Found!SeverityCount(times, ref, window)
  BY <1>3, <1>9, <1>12, <1>13
<1>15. shown # {} <=> Free \/ Cardinality(Recent(window)) > 0 BY <1>10, <1>11
<1>16. ref = Found!NoTime => Found!SeverityCount(times, ref, window) = 0
  BY DEF Found!SeverityCount
<1> QED BY <1>14, <1>15, <1>16, SameLibrary, Zenon
        DEF Found!WindowCounts, Found!Range, Recent, shown, Free

\* What the verdict on a run is made of: the families that are critical, the share of
\* severe lines, and the scores.
CriticalIn(f) == {i \in DOMAIN f : f[i].rank <= 2}
SevereIn(f) == {i \in DOMAIN f : f[i].rank <= 3}
CountsOf(f) == [i \in DOMAIN f |-> f[i].count]
ScoresOf(f) == {f[i].score : i \in DOMAIN f}
RatioOf(f, size) == IF size = 0 THEN 0 ELSE (100 * SumOn(CountsOf(f), SevereIn(f))) \div size
Grounds(c, r, V) ==
    (IF c > 0 THEN {60 + 4 * c} ELSE {}) \cup (IF r >= 30 THEN {30 + r} ELSE {})
        \cup (IF c >= 5 THEN {85} ELSE {}) \cup V
AssessedFamily == [rank : Int, count : Nat, score : Int]

LEMMA AssessIs ==
    ASSUME NEW f \in Seq(AssessedFamily), NEW size \in Nat
    PROVE  LET c == Cardinality(CriticalIn(f))
               r == RatioOf(f, size)
           IN  /\ c \in Nat /\ r \in Nat /\ IsFiniteSet(ScoresOf(f)) /\ ScoresOf(f) \subseteq Int
               /\ IsFiniteSet(SevereIn(f)) /\ SumOn(CountsOf(f), SevereIn(f)) \in Nat
               /\ IsFiniteSet(CriticalIn(f))
               /\ Found!AssessIncident(f, size) =
                     IF c > 0 \/ r >= 30
                     THEN [incident |-> TRUE,
                           score |-> Detect!Min({100, Detect!Max(Grounds(c, r, ScoresOf(f)))})]
                     ELSE [incident |-> FALSE, score |-> 0]
<1> DEFINE c == Cardinality(CriticalIn(f))
           r == RatioOf(f, size)
           g == CountsOf(f)
<1>1. /\ DOMAIN f = 1 .. Len(f) /\ Len(f) \in Int /\ 1 \in Int
      /\ \A i \in DOMAIN f : f[i].rank \in Int /\ f[i].count \in Nat /\ f[i].score \in Int
  <2>1. \A i \in DOMAIN f : f[i] \in AssessedFamily OBVIOUS
  <2>2. \A a \in AssessedFamily : a.rank \in Int /\ a.count \in Nat /\ a.score \in Int
    BY DEF AssessedFamily
  <2> HIDE DEF AssessedFamily
  <2> QED BY <2>1, <2>2
<1>2. IsFiniteSet(DOMAIN f) BY <1>1, FS_Interval
<1>3. /\ IsFiniteSet(CriticalIn(f)) /\ IsFiniteSet(SevereIn(f))
      /\ c \in Nat
  <2>1. CriticalIn(f) \in SUBSET DOMAIN f /\ SevereIn(f) \in SUBSET DOMAIN f
    BY DEF CriticalIn, SevereIn
  <2> QED BY <1>2, <2>1, FS_Subset, FS_CardinalityType
<1>4. IsFiniteSet(ScoresOf(f)) /\ ScoresOf(f) \subseteq Int
  <2> DEFINE h == [i \in DOMAIN f |-> f[i].score]
             V == {h[i] : i \in DOMAIN f}
  <2>1. V = ScoresOf(f) BY DEF ScoresOf
  <2>2. IsFiniteSet(V)
    <3> HIDE DEF h
    <3> QED BY <1>2, ValuesAreFinite
  <2> HIDE DEF V
  <2> QED BY <1>1, <2>1, <2>2 DEF ScoresOf
<1>5. \A i \in SevereIn(f) : g[i] \in Nat /\ g[i] \in Int /\ g[i] = f[i].count
  BY <1>1 DEF SevereIn, CountsOf
<1>6. SumOn(g, SevereIn(f)) \in Nat
  <2> HIDE DEF g
  <2> QED BY <1>3, <1>5, SumIsNat
<1>7. Found!SumOver(SevereIn(f), LAMBDA i : f[i].count) = SumOn(g, SevereIn(f))
  <2> DEFINE k == [i \in SevereIn(f) |-> f[i].count]
  <2>1. Found!SumOver(SevereIn(f), LAMBDA i : f[i].count) = SumOn(k, DOMAIN k)
    BY Zenon DEF Found!SumOver, SumOn, Found!FoldFunction, FoldFunctionOnSet,
                 Found!FoldFunctionOnSet, Found!MapThenFoldSet, MapThenFoldSet
  <2>2. DOMAIN k = SevereIn(f) /\ \A i \in SevereIn(f) : g[i] = k[i] BY <1>5
  <2> HIDE DEF g, k
  <2>3. SumOn(g, SevereIn(f)) = SumOn(k, SevereIn(f)) BY <1>3, <1>5, <2>2, SumOfSame
  <2> QED BY <2>1, <2>2, <2>3
<1>8. Found!Ratio(f, size) = r
  <2>1. Found!Ratio(f, size)
          = IF size = 0 THEN 0
            ELSE (100 * Found!SumOver(SevereIn(f), LAMBDA i : f[i].count)) \div size
    BY Zenon DEF Found!Ratio, Found!Where, SevereIn
  <2> HIDE DEF g
  <2> QED BY <1>7, <2>1, Zenon DEF RatioOf, g
<1>9. r \in Nat
  <2> DEFINE above == 100 * SumOn(g, SevereIn(f))
  <2>1. above \in Nat BY <1>6
  <2>2. r = IF size = 0 THEN 0 ELSE above \div size BY DEF RatioOf
  <2> HIDE DEF above, r
  <2>3. size # 0 => above \div size \in Nat
    <3> SUFFICES ASSUME size # 0 PROVE above \div size \in Nat OBVIOUS
    <3>1. size > 0 OBVIOUS
    <3> QED BY <2>1, <3>1, QuotientRest
  <2> QED BY <2>2, <2>3
<1>10. Found!AssessIncident(f, size) =
          IF c > 0 \/ r >= 30
          THEN [incident |-> TRUE,
                score |-> Detect!Min({100, Detect!Max(Grounds(c, r, ScoresOf(f)))})]
          ELSE [incident |-> FALSE, score |-> 0]
  <2> DEFINE c2 == Found!Cardinality({i \in DOMAIN f : f[i].rank <= 2})
             r2 == Found!Ratio(f, size)
  <2>1. Found!AssessIncident(f, size) =
          IF c2 > 0 \/ r2 >= 30
          THEN [incident |-> TRUE,
                score |-> Found!Min({100, Found!Max(Grounds(c2, r2, ScoresOf(f)))})]
          ELSE [incident |-> FALSE, score |-> 0]
    BY Zenon DEF Found!AssessIncident, Found!Alarmed, Found!Where, Grounds, ScoresOf
  <2>2. c2 = c BY SameLibrary DEF CriticalIn
  <2>3. r2 = r BY <1>8
  <2> HIDE DEF c, r, c2, r2
  <2> QED BY <2>1, <2>2, <2>3, SameLibrary
<1> QED BY <1>3, <1>4, <1>6, <1>9, <1>10

\* More grounds make no lower score.
LEMMA GroundsGrow ==
    ASSUME NEW c \in Nat, NEW d \in Nat, c <= d, NEW r \in Nat, NEW q \in Nat, r <= q,
           c > 0 \/ r >= 30,
           NEW V \in SUBSET Int, NEW W \in SUBSET Int, IsFiniteSet(V), IsFiniteSet(W),
           V \subseteq W
    PROVE  LET Score(a, b, X) == Detect!Min({100, Detect!Max(Grounds(a, b, X))})
           IN  /\ Score(c, r, V) \in Int /\ Score(d, q, W) \in Nat
               /\ Score(c, r, V) <= Score(d, q, W)
<1>1. ASSUME NEW a \in Nat, NEW b \in Nat, a > 0 \/ b >= 30, NEW X \in SUBSET Int, IsFiniteSet(X)
      PROVE  LET G == Grounds(a, b, X)
             IN  /\ Detect!Max(G) \in G /\ \A y \in G : y <= Detect!Max(G)
                 /\ Detect!Max(G) \in Int /\ Detect!Max(G) >= 0
                 /\ Detect!Min({100, Detect!Max(G)})
                       = IF 100 <= Detect!Max(G) THEN 100 ELSE Detect!Max(G)
  <2> DEFINE G == Grounds(a, b, X)
             A == IF a > 0 THEN {60 + 4 * a} ELSE {}
             B == IF b >= 30 THEN {30 + b} ELSE {}
             D == IF a >= 5 THEN {85} ELSE {}
             top == Detect!Max(G)
  <2>1. G = A \cup B \cup D \cup X BY DEF Grounds
  <2>2. IsFiniteSet(A) /\ IsFiniteSet(B) /\ IsFiniteSet(D) BY FS_EmptySet, FS_Singleton
  <2>3. A \subseteq Int /\ B \subseteq Int /\ D \subseteq Int OBVIOUS
  <2>4. \E y \in A \cup B : y >= 0 BY <1>1
  <2> HIDE DEF A, B, D, G
  <2>5. IsFiniteSet(G) BY <1>1, <2>1, <2>2, FS_Union
  <2>6. G \subseteq Int /\ G # {} BY <1>1, <2>1, <2>3, <2>4
  <2>7. top \in G /\ \A y \in G : y <= top BY <2>5, <2>6, MaxIs
  <2> HIDE DEF top
  <2>8. top \in Int /\ top >= 0
    <3>1. PICK y \in G : y >= 0 BY <2>1, <2>4
    <3>2. y \in Int /\ top \in Int /\ y <= top BY <2>6, <2>7, <3>1
    <3> QED BY <3>1, <3>2
  <2>9. Detect!Min({100, top}) = IF 100 <= top THEN 100 ELSE top
    <3>1. 100 \in Int /\ top \in Int BY <2>8
    <3> QED BY <3>1, MaxOfTwo
  <2> QED BY <2>7, <2>8, <2>9 DEF top, G
<1> DEFINE low == Detect!Max(Grounds(c, r, V))
           high == Detect!Max(Grounds(d, q, W))
<1>2. /\ low \in Grounds(c, r, V) /\ low \in Int
      /\ Detect!Min({100, low}) = IF 100 <= low THEN 100 ELSE low
  BY <1>1
<1>3. d > 0 \/ q >= 30 OBVIOUS
<1>4. /\ \A y \in Grounds(d, q, W) : y <= high
      /\ high \in Int /\ high >= 0
      /\ Detect!Min({100, high}) = IF 100 <= high THEN 100 ELSE high
  BY <1>1, <1>3
<1> HIDE DEF low, high
<1>5. \E y \in Grounds(d, q, W) : y \in Int /\ low <= y
  <2>1. CASE low \in V
    <3>1. low \in Grounds(d, q, W) BY <2>1 DEF Grounds
    <3> QED BY <1>2, <3>1
  <2>2. CASE c > 0 /\ low = 60 + 4 * c
    <3>1. 60 + 4 * d \in Grounds(d, q, W) BY <2>2 DEF Grounds
    <3> QED BY <2>2, <3>1
  <2>3. CASE r >= 30 /\ low = 30 + r
    <3>1. 30 + q \in Grounds(d, q, W) BY <2>3 DEF Grounds
    <3> QED BY <2>3, <3>1
  <2>4. CASE c >= 5 /\ low = 85
    <3>1. 85 \in Grounds(d, q, W) BY <2>4 DEF Grounds
    <3> QED BY <2>4, <3>1
  <2> QED BY <1>2, <2>1, <2>2, <2>3, <2>4 DEF Grounds
<1>6. low <= high BY <1>2, <1>4, <1>5
<1>7. /\ Detect!Min({100, low}) \in Int /\ Detect!Min({100, high}) \in Nat
      /\ Detect!Min({100, low}) <= Detect!Min({100, high})
  BY <1>2, <1>4, <1>6
<1> QED BY <1>7 DEF low, high

\* One more family never makes the verdict on a run milder (_assess_incident).
THEOREM MoreAlwaysWorse ==
    ASSUME NEW f \in Seq(AssessedFamily), NEW more \in AssessedFamily, NEW size \in Nat
    PROVE  Found!MoreIsWorse(f, more, size)
<1> DEFINE e == Append(f, more)
           c == Cardinality(CriticalIn(f))
           d == Cardinality(CriticalIn(e))
           r == RatioOf(f, size)
           q == RatioOf(e, size)
           Score(a, b, X) == Detect!Min({100, Detect!Max(Grounds(a, b, X))})
           some == SumOn(CountsOf(f), SevereIn(f))
           all == SumOn(CountsOf(e), SevereIn(e))
<1>1. /\ e \in Seq(AssessedFamily) /\ DOMAIN f \subseteq DOMAIN e
      /\ \A i \in DOMAIN f : e[i] = f[i]
  OBVIOUS
<1> HIDE DEF e
<1>2. /\ c \in Nat /\ r \in Nat /\ IsFiniteSet(ScoresOf(f)) /\ ScoresOf(f) \subseteq Int
      /\ IsFiniteSet(SevereIn(f)) /\ some \in Nat
      /\ Found!AssessIncident(f, size) =
            IF c > 0 \/ r >= 30
            THEN [incident |-> TRUE, score |-> Score(c, r, ScoresOf(f))]
            ELSE [incident |-> FALSE, score |-> 0]
  BY AssessIs
<1>3. /\ d \in Nat /\ q \in Nat /\ IsFiniteSet(ScoresOf(e)) /\ ScoresOf(e) \subseteq Int
      /\ IsFiniteSet(SevereIn(e)) /\ IsFiniteSet(CriticalIn(e)) /\ all \in Nat
      /\ Found!AssessIncident(e, size) =
            IF d > 0 \/ q >= 30
            THEN [incident |-> TRUE, score |-> Score(d, q, ScoresOf(e))]
            ELSE [incident |-> FALSE, score |-> 0]
  BY <1>1, AssessIs
<1>4. c <= d
  <2>1. CriticalIn(f) \in SUBSET CriticalIn(e) BY <1>1 DEF CriticalIn
  <2> QED BY <1>3, <2>1, FS_Subset
<1>5. ScoresOf(f) \subseteq ScoresOf(e) BY <1>1 DEF ScoresOf
<1>6. some <= all
  <2> DEFINE S == SevereIn(f)
             new == SevereIn(e) \ S
             g == CountsOf(f)
             h == CountsOf(e)
  <2>1. S \subseteq SevereIn(e) BY <1>1 DEF SevereIn
  <2>2. SevereIn(e) = S \cup new /\ S \cap new = {} BY <2>1
  <2>3. \A i \in SevereIn(e) : h[i] \in Nat
    <3>1. \A a \in AssessedFamily : a.count \in Nat BY DEF AssessedFamily
    <3>2. \A i \in DOMAIN e : e[i] \in AssessedFamily BY <1>1
    <3> HIDE DEF AssessedFamily
    <3> QED BY <3>1, <3>2 DEF SevereIn, CountsOf
  <2>4. \A i \in S : h[i] = g[i] BY <1>1 DEF SevereIn, CountsOf
  <2>5. IsFiniteSet(S) /\ IsFiniteSet(new) BY <1>2, <1>3, <2>2, FS_Subset
  <2> HIDE DEF S, new, g, h
  <2>6. \A i \in S \cup new : h[i] \in Nat /\ h[i] \in Int BY <2>2, <2>3
  <2>7. SumOn(h, S \cup new) = SumOn(h, S) + SumOn(h, new) BY <2>2, <2>5, <2>6, SumOfUnion
  <2>8. SumOn(h, new) \in Nat /\ SumOn(h, S) \in Nat BY <2>5, <2>6, SumIsNat
  <2>9. SumOn(h, S) = SumOn(g, S) BY <2>4, <2>5, <2>6, SumOfSame
  <2>10. all = SumOn(h, S \cup new) BY <2>2 DEF h
  <2>11. some = SumOn(g, S) BY DEF g, S
  <2> HIDE DEF some, all
  <2> QED BY <2>7, <2>8, <2>9, <2>10, <2>11
<1>7. r <= q
  <2>1. CASE size = 0 BY <2>1 DEF RatioOf
  <2>2. CASE size # 0
    <3> DEFINE a == 100 * some
               b == 100 * all
    <3>1. a \in Nat /\ b \in Nat /\ a <= b
      <4> HIDE DEF some, all
      <4> QED BY <1>2, <1>3, <1>6
    <3>2. r = a \div size /\ q = b \div size BY <2>2 DEF RatioOf
    <3>3. size > 0 BY <2>2
    <3> HIDE DEF a, b
    <3>4. a \div size <= b \div size BY <3>1, <3>3, QuotientOrdered
    <3> QED BY <3>2, <3>4
  <2> QED BY <2>1, <2>2
<1> HIDE DEF c, d, r, q, some, all, Score
<1>8. CASE c > 0 \/ r >= 30
  <2>1. /\ Score(c, r, ScoresOf(f)) \in Int /\ Score(d, q, ScoresOf(e)) \in Nat
        /\ Score(c, r, ScoresOf(f)) <= Score(d, q, ScoresOf(e))
    <3> DEFINE V == ScoresOf(f)
               W == ScoresOf(e)
    <3>1. V \in SUBSET Int /\ W \in SUBSET Int /\ IsFiniteSet(V) /\ IsFiniteSet(W) /\ V \subseteq W
      BY <1>2, <1>3, <1>5
    <3> HIDE DEF V, W
    <3>2. /\ Score(c, r, V) \in Int /\ Score(d, q, W) \in Nat /\ Score(c, r, V) <= Score(d, q, W)
      BY <1>2, <1>3, <1>4, <1>7, <1>8, <3>1, GroundsGrow DEF Score
    <3> QED BY <3>2 DEF V, W
  <2>2. d > 0 \/ q >= 30 BY <1>2, <1>3, <1>4, <1>7, <1>8
  <2>3. /\ Found!AssessIncident(f, size) = [incident |-> TRUE, score |-> Score(c, r, ScoresOf(f))]
        /\ Found!AssessIncident(e, size) = [incident |-> TRUE, score |-> Score(d, q, ScoresOf(e))]
    BY <1>2, <1>3, <1>8, <2>2
  <2>4. /\ Found!AssessIncident(e, size).incident
        /\ Found!AssessIncident(f, size).score <= Found!AssessIncident(e, size).score
    BY <2>1, <2>3
  <2> QED BY <2>4, Zenon DEF Found!MoreIsWorse, e
<1>9. CASE ~(c > 0 \/ r >= 30)
  <2>1. Found!AssessIncident(f, size) = [incident |-> FALSE, score |-> 0] BY <1>2, <1>9
  <2>2. Found!AssessIncident(e, size).score >= 0
    <3>1. CASE d > 0 \/ q >= 30
      <4> DEFINE W == ScoresOf(e)
      <4>1. W \in SUBSET Int /\ IsFiniteSet(W) BY <1>3
      <4>2. Found!AssessIncident(e, size).score = Score(d, q, W) BY <1>3, <3>1
      <4> HIDE DEF W
      <4>3. d \in Nat /\ q \in Nat /\ d <= d /\ q <= q /\ W \subseteq W BY <1>3
      <4>4. Score(d, q, W) \in Nat BY <3>1, <4>1, <4>3, GroundsGrow DEF Score
      <4> QED BY <4>2, <4>4
    <3>2. CASE ~(d > 0 \/ q >= 30) BY <1>3, <3>2
    <3> QED BY <3>1, <3>2
  <2>3. /\ ~Found!AssessIncident(f, size).incident
        /\ Found!AssessIncident(f, size).score <= Found!AssessIncident(e, size).score
    BY <2>1, <2>2
  <2> QED BY <2>3, Zenon DEF Found!MoreIsWorse, e
<1> QED BY <1>8, <1>9

\* The inputs that are checked are some of those of these theorems.
LEMMA HeadroomHolds == ASSUME input \in Inputs(part) PROVE HeadroomKept
<1> SUFFICES ASSUME part = "machines"
             PROVE  Plan!HeadroomKept(input.cores, input.headroom, input.size, input.available)
  BY DEF HeadroomKept
<1>1. input \in Machines BY DEF Inputs
<1>2. /\ input.cores \in Int /\ input.headroom \in Int /\ input.size \in Nat
      /\ input.available \in Nat
  BY <1>1 DEF Machines
<1> QED BY <1>2, HeadroomAlwaysKept

LEMMA VerdictsHold == ASSUME input \in Inputs(part) PROVE VerdictsFollow
<1>1. MoreIsWorse
  <2> SUFFICES ASSUME part = "assessed"
               PROVE  Found!MoreIsWorse(input.families, input.more, input.lines)
    BY DEF MoreIsWorse
  <2>1. input \in Assessed BY DEF Inputs
  <2>2. Impacts \subseteq AssessedFamily BY DEF Impacts, AssessedFamily
  <2>3. input.families \in UpTo(2, Impacts) /\ input.more \in Impacts /\ input.lines \in Nat
    BY <2>1 DEF Assessed
  <2> HIDE DEF Impacts, AssessedFamily
  <2>4. input.families \in Seq(Impacts) BY <2>3, UpToAre
  <2>5. input.families \in Seq(AssessedFamily) BY <2>2, <2>4
  <2> QED BY <2>2, <2>3, <2>5, MoreAlwaysWorse
<1>2. WindowCounts
  <2> SUFFICES ASSUME part = "windows"
               PROVE  Found!WindowCounts(input.times, input.ref, input.window)
    BY DEF WindowCounts
  <2>1. input \in Windows BY DEF Inputs
  <2>2. input.times \in UpTo(2, 0 .. 10) \cup {<<>>} /\ input.ref \in Int
        /\ input.window \in Int
    BY <2>1 DEF Windows, Found!NoTime
  <2>3. input.times \in Seq(0 .. 10)
    <3>1. <<>> \in Seq(0 .. 10) OBVIOUS
    <3> QED BY <2>2, <3>1, UpToAre
  <2>4. input.times \in Seq(Nat) BY <2>3
  <2> QED BY <2>2, <2>4, WindowAlwaysCounts
<1>3. BlockStaysInRecord
  <2> SUFFICES ASSUME part = "records", NEW i \in DOMAIN input.lines
               PROVE  View!BlockStaysInRecord(input.lines, i, input.most)
    BY DEF BlockStaysInRecord
  <2>1. input \in Records BY DEF Inputs
  <2> DEFINE L == [record : BOOLEAN, blank : BOOLEAN]
  <2>2. input.lines \in UpTo(4, L) /\ input.most \in Nat BY <2>1 DEF Records
  <2> HIDE DEF L
  <2>3. input.lines \in Seq(L) BY <2>2, UpToAre
  <2> QED BY <2>2, <2>3, BlockAlwaysInRecord
<1>4. ImpactOrdered
  <2> SUFFICES ASSUME part = "impacted"
               PROVE  View!ImpactOrdered(input.lines, input.more, input.words, input.timed)
    BY DEF ImpactOrdered
  <2>1. input \in Impacted BY DEF Inputs
  <2>2. /\ input.lines \in UpTo(2, Failures) /\ input.lines # <<>>
        /\ input.more \in Failures /\ input.words \in SUBSET {"hard", "soft", "block"}
    BY <2>1 DEF Impacted
  <2>3. input.lines \in Seq(Failures) BY <2>2, UpToAre
  <2> QED BY <2>2, <2>3, ImpactAlwaysOrdered
<1> QED BY <1>1, <1>2, <1>3, <1>4, ScoringHolds DEF VerdictsFollow

-----------------------------------------------------------------------------
(* All parts together.                                                     *)

\* The parts share no state: each keeps its own invariant, whichever moves.
AnalysisIInv ==
    /\ LadderIInv /\ SchedulerIInv /\ SliceIInv /\ StoreIInv /\ TrainingIInv
    /\ input \in Inputs(part)

LEMMA AnalysisStarts == MCInit => AnalysisIInv
BY LadderStarts, SchedulerStarts, SliceStarts, StoreStarts, TrainingStarts
DEF MCInit, AnalysisIInv

LEMMA LadderRests == ASSUME LadderIInv, UNCHANGED vars PROVE LadderIInv'
BY DEF LadderIInv, vars, TypeOK, Counts, Ago

LEMMA SchedulerRests == ASSUME SchedulerIInv, UNCHANGED schedulerVars PROVE SchedulerIInv'
BY DEF SchedulerIInv, schedulerVars, SchedulerTyped

LEMMA SliceRests == ASSUME SliceIInv, UNCHANGED scanVars PROVE SliceIInv'
<1>1. /\ file' = file /\ n' = n /\ way' = way /\ given' = given /\ chunks' = chunks
      /\ next' = next /\ counts' = counts /\ flagged' = flagged /\ judged' = judged
      /\ faults' = faults /\ pc' = pc
  BY DEF scanVars
<1>2. /\ ReadBefore(next)' = ReadBefore(next)
      /\ \A k \in Key : Merged(next, k)' = Merged(next, k)
  BY <1>1 DEF ReadBefore, Merged, Counted, Within, Scan!Used
<1>3. SliceTyped' BY <1>1 DEF SliceTyped, SliceIInv
<1>4. \A k \in Key : Scan!Entries(file, judged, given, k)' = Scan!Entries(file, judged, given, k)
  BY <1>1
<1> QED BY <1>1, <1>2, <1>3, <1>4 DEF SliceIInv

LEMMA StoreRests == ASSUME StoreIInv, UNCHANGED storeVars PROVE StoreIInv'
<1>1. /\ path' = path /\ tmp' = tmp /\ files' = files /\ step' = step /\ base' = base
      /\ doc' = doc /\ fd' = fd /\ lone' = lone /\ met' = met
  BY DEF storeVars
<1>2. Store!Published' = Store!Published BY <1>1 DEF Store!Published
<1>3. StoreTyped' BY <1>1 DEF StoreTyped, StoreIInv
<1>4. \A p \in Process : (Advances(p) => Advances(p)') /\ (Undisturbed(p) => Undisturbed(p)')
  <2> TAKE p \in Process
  <2>1. Store!Others(p)' = Store!Others(p) BY <1>1 DEF Store!Others
  <2> QED BY <1>1, <1>2, <2>1 DEF Advances, Undisturbed
<1> QED BY <1>1, <1>2, <1>3, <1>4 DEF StoreIInv

LEMMA TrainingRests == ASSUME TrainingIInv, UNCHANGED trainingVars PROVE TrainingIInv'
<1>1. /\ buffer' = buffer /\ model' = model /\ dim' = dim /\ stage' = stage /\ work' = work
      /\ unseen' = unseen /\ deaths' = deaths /\ full' = full /\ upgraded' = upgraded
  BY DEF trainingVars
<1>2. TrainingTyped' BY <1>1 DEF TrainingTyped, TrainingIInv
<1> QED BY <1>1, <1>2 DEF TrainingIInv, Current

\* In a step one part moves and the others rest, or all rest.
LEMMA OneMoves ==
    ASSUME [MCNext]_MCVars
    PROVE  /\ UNCHANGED <<part, input>>
           /\ Next \/ UNCHANGED vars
           /\ Scheduler!Next \/ UNCHANGED schedulerVars
           /\ Scan!Next \/ UNCHANGED scanVars
           /\ Store!Next \/ UNCHANGED storeVars
           /\ Training!Next \/ UNCHANGED trainingVars
BY DEF MCNext, MCVars

LEMMA AnalysisSteps == AnalysisIInv /\ [MCNext]_MCVars => AnalysisIInv'
<1> SUFFICES ASSUME AnalysisIInv, [MCNext]_MCVars PROVE AnalysisIInv'
  OBVIOUS
<1>1. LadderIInv' BY LadderSteps, LadderRests, OneMoves DEF AnalysisIInv
<1>2. SchedulerIInv' BY SchedulerSteps, SchedulerRests, OneMoves DEF AnalysisIInv
<1>3. SliceIInv' BY SliceSteps, SliceRests, OneMoves DEF AnalysisIInv
<1>4. StoreIInv' BY StoreSteps, StoreRests, OneMoves DEF AnalysisIInv
<1>5. TrainingIInv' BY TrainingSteps, TrainingRests, OneMoves DEF AnalysisIInv
<1>6. (input \in Inputs(part))' BY OneMoves, Zenon DEF AnalysisIInv, Inputs
<1> QED BY <1>1, <1>2, <1>3, <1>4, <1>5, <1>6 DEF AnalysisIInv

LEMMA AnalysisAlways == MCSpec => []AnalysisIInv
<1>1. MCInit => AnalysisIInv BY AnalysisStarts
<1>2. AnalysisIInv /\ [MCNext]_MCVars => AnalysisIInv' BY AnalysisSteps
<1> QED BY <1>1, <1>2, PTL DEF MCSpec

\* The state of the ladder, the scheduler, the scan, the store of the baseline
\* and the training buffer is well formed in every reachable state.
THEOREM AnalysisTyped == MCSpec => []TypesOK
<1>1. AnalysisIInv => TypesOK
  BY SpellsMove, SchedulerSafe, SliceSafe, StoreSafe, TrainingSafe DEF AnalysisIInv, TypesOK
<1> QED BY <1>1, AnalysisAlways, PTL

\* A scan in slices (split_chunks, parallel_analyze_file, turbo) that is done has
\* counted every line of a plain file once, each as what it is in the format that its
\* slice was read in, however often the pool failed; if the slices agree on a format,
\* these are the counts of the uncut file.  A scan that lost slices counts less and
\* never more.  What a slice flags is its own affair; a line that is flagged counts
\* once in its family.
THEOREM ScanAlwaysAddsUp == MCSpec => []ScanAddsUp
<1>1. AnalysisIInv => ScanAddsUp
  BY SliceSafe DEF AnalysisIInv, ScanAddsUp, CutIndependent, FaultsOnlyLose
<1> QED BY <1>1, AnalysisAlways, PTL

\* What the baseline has learned is normal and its total complete, a crash leaves
\* it readable unless runs have overlapped (save_baseline), and the model is
\* refitted when due (record_and_maybe_fit).
THEOREM LearningAlwaysSafe == MCSpec => []LearningSafe
<1>1. AnalysisIInv => LearningSafe
  BY StoreSafe, TrainingSafe
  DEF AnalysisIInv, LearningSafe, CrashLeavesReadable, LearnsNormalOnly, RefittedWhenDue
<1> QED BY <1>1, AnalysisAlways, PTL

\* Sustained load or calm moves the ladder unless it is at its end (observe), no
\* source saves up credit for a burst (select), and no scan takes the cores that it
\* should leave (plan).
THEOREM LoadAlwaysLimited == MCSpec => []LoadLimited
<1>1. AnalysisIInv => LoadLimited
  BY SpellsMove, SchedulerSafe, HeadroomHolds DEF AnalysisIInv, LoadLimited, CreditBounded
<1> QED BY <1>1, AnalysisAlways, PTL

\* The ladder moves one rung at a time, and only at the end of a spell of
\* observations beyond one threshold (observe, _transition).
THEOREM MovesAlwaysEarned == MCSpec => MovesAreEarned
<1> DEFINE Earned ==
           \/ level' = level
           \/ /\ Len(recent) >= Dwell - 1
              /\ LET spell == SubSeq(recent, Len(recent) - Dwell + 2, Len(recent))
                 IN \/ level' = level + 1 /\ AllIn("high", spell)
                    \/ level' = level - 1 /\ AllIn("low", spell)
<1>1. AnalysisIInv /\ [MCNext]_MCVars => [Earned]_vars
  <2> SUFFICES ASSUME AnalysisIInv, Next PROVE Earned
    BY OneMoves
  <2> QED BY SpellsOnly DEF AnalysisIInv
<1> QED BY <1>1, AnalysisAlways, PTL DEF MCSpec, MovesAreEarned

\* A run that no other overlapped adds itself to what the runs before it had
\* published, and takes nothing away (update_baseline, save_baseline).
THEOREM LoneRunAlwaysAdds == MCSpec => LoneRunAddsItself
<1> DEFINE Adds ==
           \A p \in Process :
              step[p] = "replace" /\ step'[p] = "idle" /\ path' # path /\ lone[p]
                => /\ Store!Published'.learned_runs = Store!Published.learned_runs + 1
                   /\ Store!Published'.total >= Store!Published.total
<1>1. AnalysisIInv /\ [MCNext]_MCVars => [Adds]_Store!vars
  <2> SUFFICES ASSUME AnalysisIInv, Store!Next PROVE Adds
    BY OneMoves DEF storeVars, Store!vars
  <2> QED BY StoreAdds DEF AnalysisIInv
<1> QED BY <1>1, AnalysisAlways, PTL DEF MCSpec, LoneRunAddsItself, Store!LoneRunAddsItself

\* Bursts stand out, bins are even, outliers do not hide each other, sessions are
\* anomalous as a whole, company lifts, rare severe lines surface, the known is no
\* less routine and no stage takes back what a detector has found (detect): for the
\* inputs that are checked, which are some of those of the nine theorems above.
THEOREM DetectorsAlwaysSound == MCSpec => []DetectorsSound
<1>1. AnalysisIInv => DetectorsSound BY DetectorsHold DEF AnalysisIInv
<1> QED BY <1>1, AnalysisAlways, PTL

\* A score depends on its line alone, hard failures are flagged whatever dampens
\* the score, a worse level never scores lower, and what the baseline knows to be
\* usual never higher (detect, score, _score_entries); one more family never makes a
\* verdict milder, nor one more piece of evidence an impact, at any level, a query
\* counts the hours of its window, if it has one, and a quotation keeps to its record
\* (_assess_incident, severity_count, families_in_window, raw_block, diagnose): for
\* the inputs that are checked, which are some of those of the eight theorems above.
THEOREM VerdictsAlwaysFollow == MCSpec => []VerdictsFollow
<1>1. AnalysisIInv => VerdictsFollow BY VerdictsHold DEF AnalysisIInv
<1> QED BY <1>1, AnalysisAlways, PTL
=============================================================================
