------------------------------ MODULE AutoTrain ------------------------------
(***************************************************************************)
(* record_and_maybe_fit (application/autotrain.py): every learning run     *)
(* banks its rows in one buffer file and refits the model of its source    *)
(* when both classes are there and enough rows are new.  The model and the *)
(* buffer are written in place, one after the other, and the process may   *)
(* die at any step; an upgrade may change the number of features.          *)
(***************************************************************************)
EXTENDS Naturals, Sequences, FiniteSets

CONSTANTS
    MaxRows,      \* _MAX_ROWS
    MinPerClass,  \* _MIN_PER_CLASS
    RefitEvery,   \* _REFIT_EVERY
    Labels,       \* what a run may add: sequences of pseudo-labels, 0 or 1
    MaxDeaths,    \* bound: processes that die
    Many          \* bound on the history counter unseen

VARIABLES
    buffer,   \* [rows, dim, last_fit]; what no reader can read is Empty
    model,    \* the model file: none, torn or fitted
    dim,      \* features per row of the installed program
    pc,       \* idle, fit, bank or close
    work,     \* the run in progress: like buffer, and its new rows
    unseen,   \* history: rows in the buffer that the model has not seen
    deaths,   \* history: processes that died
    full,     \* history: rows have been dropped at MaxRows
    upgraded  \* history: the number of features has changed

vars == <<buffer, model, dim, pc, work, unseen, deaths, full, upgraded>>

Empty == [rows |-> <<>>, dim |-> 0, last_fit |-> 0]
NoWork == [rows |-> <<>>, dim |-> 0, last_fit |-> 0, new |-> 0]
Least(a, b) == IF a < b THEN a ELSE b
OfClass(rows, c) == Cardinality({i \in DOMAIN rows : rows[i] = c})
Fittable(rows) == OfClass(rows, 1) >= MinPerClass /\ OfClass(rows, 0) >= MinPerClass

\* The most recent MaxRows rows.
Recent(all) == IF Len(all) <= MaxRows THEN all
               ELSE SubSeq(all, Len(all) - MaxRows + 1, Len(all))

\* Mutant of Due: the refit comes one row late.
DueLate(w) ==
    Fittable(w.rows) /\ (model = "none" \/ Len(w.rows) > w.last_fit + RefitEvery)
\* should_fit; len(X) - last_fit may be negative.
Due(w) ==
    Fittable(w.rows) /\ (model = "none" \/ Len(w.rows) >= w.last_fit + RefitEvery)

Init ==
    /\ buffer = Empty /\ work = NoWork /\ model = "none" /\ dim = 1 /\ pc = "idle"
    /\ unseen = 0 /\ deaths = 0 /\ full = FALSE /\ upgraded = FALSE

\* _load_buffer, the rows of another shape left out but their last_fit kept,
\* the new rows, and the most recent MaxRows of all.
Record ==
    /\ pc = "idle"
    /\ \E y \in Labels :
          LET all == IF buffer.dim = dim THEN buffer.rows \o y ELSE y
          IN  /\ work' = [rows |-> Recent(all), dim |-> dim,
                          last_fit |-> buffer.last_fit, new |-> Len(y)]
              /\ full' = (full \/ Len(all) > MaxRows)
    /\ pc' = IF Due(work') THEN "fit" ELSE "bank"
    /\ UNCHANGED <<buffer, model, dim, unseen, deaths, upgraded>>

\* SupervisedHead.fit(...).save(mpath)
Fit ==
    /\ pc = "fit"
    /\ model' = "fitted" /\ unseen' = 0
    /\ work' = [work EXCEPT !.last_fit = Len(work.rows), !.new = 0]
    /\ pc' = "bank"
    /\ UNCHANGED <<buffer, dim, deaths, full, upgraded>>

\* np.savez_compressed truncates the buffer, then writes it.
Bank ==
    /\ pc = "bank"
    /\ buffer' = Empty /\ pc' = "close"
    /\ UNCHANGED <<model, dim, work, unseen, deaths, full, upgraded>>

Close ==
    /\ pc = "close"
    /\ buffer' = [rows |-> work.rows, dim |-> work.dim, last_fit |-> work.last_fit]
    /\ unseen' = Least(Many, unseen + work.new)
    /\ work' = NoWork /\ pc' = "idle"
    /\ UNCHANGED <<model, dim, deaths, full, upgraded>>

\* The process dies: in the middle of the fit, the model file may be left
\* unreadable; in the middle of the buffer's write, the buffer is.  The rows of
\* the run were never banked, unless the model has seen them.
Die ==
    /\ pc # "idle" /\ deaths < MaxDeaths
    /\ deaths' = deaths + 1
    /\ model' \in IF pc = "fit" THEN {model, "torn"} ELSE {model}
    /\ unseen' = IF pc = "close" THEN 0 ELSE unseen
    /\ work' = NoWork /\ pc' = "idle"
    /\ UNCHANGED <<buffer, dim, full, upgraded>>

\* Another version of the program computes other features.
Upgrade ==
    /\ pc = "idle" /\ ~upgraded
    /\ dim' = 2 /\ upgraded' = TRUE
    /\ UNCHANGED <<buffer, model, pc, work, unseen, deaths, full>>

Next == Record \/ Fit \/ Bank \/ Close \/ Die \/ Upgrade

Spec == Init /\ [][Next]_vars
----------------------------------------------------------------------------
TypeOK ==
    /\ Len(buffer.rows) <= MaxRows /\ Len(work.rows) <= MaxRows
    /\ buffer.last_fit \in 0 .. MaxRows /\ work.last_fit \in 0 .. MaxRows
    /\ model \in {"none", "torn", "fitted"}
    /\ pc \in {"idle", "fit", "bank", "close"} /\ unseen \in 0 .. Many

\* Usage keeps the model current: once both classes are banked, fewer than
\* RefitEvery of the banked rows are new to it, whatever processes died and
\* whatever files they left torn, until MaxRows or an upgrade ends that.
RefittedWhenDue ==
    pc = "idle" /\ Fittable(buffer.rows) /\ ~full /\ ~upgraded => unseen < RefitEvery
============================================================================
