-------------------------- MODULE DeficitScheduler --------------------------
(***************************************************************************)
(* DeficitScheduler (application/scheduler.py): sources take turns, a turn *)
(* earns a source credit in proportion to its weight, and serving one item *)
(* costs one.  Credits are integers, in units of 1/Unit.                   *)
(***************************************************************************)
EXTENDS Naturals, Sequences, Functions

CONSTANTS Source, Weight,  \* Weight[s] > 0: quantum * weight, in units
          Unit,            \* the price of one item
          WaitMax          \* bound on the history counter waits

NoSource == "none"

VARIABLES
    order,     \* self._order
    deficit,   \* self.deficit
    cursor,    \* self._cursor, counted from 1
    credited,  \* self._credited
    waits      \* history: items given to others while a source stayed ready

vars == <<order, deficit, cursor, credited, waits>>

Init ==
    /\ order = <<>> /\ deficit = [s \in Source |-> 0]
    /\ cursor = 1 /\ credited = FALSE /\ waits = [s \in Source |-> 0]

Add(s) ==
    /\ s \notin Range(order)
    /\ order' = Append(order, s)
    /\ UNCHANGED <<deficit, cursor, credited, waits>>

Advance(t) == [t EXCEPT !.cursor = (@ % Len(order)) + 1, !.credited = FALSE]

\* One pass through the body of select's loop, from state t to the next one.
\* Mutant: the turn stays credited once it has been.
TurnCreditedTwice(t, ready) ==
    LET s == order[t.cursor]
        c == [t EXCEPT !.deficit[s] = @ + Weight[s], !.credited = TRUE]
    IN  IF s \notin ready THEN Advance([t EXCEPT !.deficit[s] = 0])
        ELSE IF c.deficit[s] >= Unit
             THEN [c EXCEPT !.deficit[s] = @ - Unit, !.served = s]
             ELSE Advance(c)
\* Mutant: an item costs nothing.
TurnUncharged(t, ready) ==
    LET s == order[t.cursor]
        c == IF t.credited THEN t
             ELSE [t EXCEPT !.deficit[s] = @ + Weight[s], !.credited = TRUE]
    IN  IF s \notin ready THEN Advance([t EXCEPT !.deficit[s] = 0])
        ELSE IF c.deficit[s] >= Unit THEN [c EXCEPT !.served = s] ELSE Advance(c)
Turn(t, ready) ==
    LET s == order[t.cursor]
        c == IF t.credited THEN t
             ELSE [t EXCEPT !.deficit[s] = @ + Weight[s], !.credited = TRUE]
    IN  IF s \notin ready THEN Advance([t EXCEPT !.deficit[s] = 0])
        ELSE IF c.deficit[s] >= Unit
             THEN [c EXCEPT !.deficit[s] = @ - Unit, !.served = s]
             ELSE Advance(c)

\* At most 4n + 2 turns, then a source with the most credit, which is not
\* charged for it.
Select(ready) ==
    LET start == [deficit |-> deficit, cursor |-> cursor, credited |-> credited,
                  served |-> NoSource]
        after[i \in Nat] ==
            IF i = 0 THEN start
            ELSE LET t == after[i - 1]
                 IN  IF t.served = NoSource THEN Turn(t, ready) ELSE t
        end   == after[4 * Len(order) + 2]
        Richest == {s \in ready : \A q \in ready : end.deficit[s] >= end.deficit[q]}
    IN  /\ order # <<>> /\ ready # {} /\ ready \subseteq Range(order)
        /\ deficit' = end.deficit /\ cursor' = end.cursor /\ credited' = end.credited
        /\ \E s \in IF end.served = NoSource THEN Richest ELSE {end.served} :
              waits' = [q \in Source |-> IF q \notin ready \/ q = s THEN 0
                                         ELSE IF waits[q] < WaitMax THEN waits[q] + 1
                                         ELSE WaitMax]
        /\ UNCHANGED order

Next ==
    \/ \E s \in Source : Add(s)
    \/ \E ready \in SUBSET Source : Select(ready)

Spec == Init /\ [][Next]_vars
----------------------------------------------------------------------------
TypeOK ==
    /\ cursor \in 1 .. Len(order) + 1 /\ credited \in BOOLEAN
    /\ waits \in [Source -> 0 .. WaitMax] /\ DOMAIN deficit = Source

\* Credit is bounded, however long a source is ready and however often the loop
\* is cut off: nobody can save up for a burst.
CreditBounded == \A s \in Source : deficit[s] < Unit + Weight[s]

\* No starvation: a source that stays ready waits for no more than what the
\* others may spend while it earns the price of one item.
Turns(s) == (Unit + Weight[s] - 1) \div Weight[s]
ServedInTurn ==
    \A s \in Source :
        waits[s] <= FoldFunction(LAMBDA a, b : a + b, 0, [q \in Source \ {s} |->
                        ((Unit - 1 + Weight[q] * (Turns(s) + 1)) \div Unit)])
============================================================================
