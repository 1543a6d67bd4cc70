---------------------------- MODULE LiveDetector -----------------------------
(***************************************************************************)
(* LiveDetector (application/live.py) behind its StreamParser              *)
(* (detection/parser.py): entries pass through a rolling window that is    *)
(* judged anew from time to time; severe entries are reported on arrival,  *)
(* the others when a judgement first flags them.                           *)
(*                                                                         *)
(* Entries are numbered by _seq and only their class is kept.  The judge   *)
(* (detection/run.py) may change its mind about an entry from one          *)
(* judgement to the next, except that it flags every problem.              *)
(***************************************************************************)
EXTENDS Integers, FiniteSets

CONSTANTS Window, RescoreEvery, MinWindow, SuppressInfo,  \* the constructor's
          MaxContinuation,  \* _MAX_CONTINUATION
          RunMayFail,       \* whether run() may raise
          MaxEntries        \* bound: how many entries are fed at all

ASSUME LiveAssumption ==
    /\ Window \in Nat \ {0}
    /\ RescoreEvery \in Nat \ {0}      \* max(1, rescore_every)
    /\ MinWindow \in Nat
    /\ MaxContinuation \in Nat
    /\ SuppressInfo \in BOOLEAN /\ RunMayFail \in BOOLEAN
    /\ MaxEntries \in Nat

\* "severe" is CRITICAL or worse, "problem" what run() always flags and is
\* no benign INFO, "benign" an INFO entry without a failure word, "plain"
\* the rest.
Classes == {"severe", "problem", "plain", "benign"}

VARIABLES
    pending,  \* the parser's unfinished entry, "none" if there is none
    conts,    \* how many continuation lines it has taken
    det       \* the detector: see Detectors

detectorVars == <<pending, conts, det>>

\* The window holds the entries first .. (seq-1).
Detectors ==
    [first    : Nat,           \* the number of the leftmost entry of _win
     seq      : Nat,           \* _seq
     problems : SUBSET Nat,    \* the problems of the window
     benign   : SUBSET Nat,    \* its benign entries
     reported : SUBSET Nat,    \* _reported
     since    : Nat,           \* _since
     hits     : Nat,           \* _hits
     ever     : SUBSET Nat,    \* history: the entries ever reported
     failed   : BOOLEAN]       \* history: whether run() ever raised

InWindow(x) == x.first .. (x.seq - 1)
Size(x) == x.seq - x.first

-----------------------------------------------------------------------------
(* feed_entry's first half and the judgement.                              *)

\* The number of the leftmost entry once one more has come and the excess
\* has been popped.
First(x) == IF Size(x) + 1 > Window THEN x.first + 1 ELSE x.first

\* What the popped entry leaves behind: reported \ left forgets its number.
SlidRemembering(x, left) ==
    [x EXCEPT !.first = First(x), !.seq = x.seq + 1,
              !.problems = @ \ left, !.benign = @ \ left]

Slid(x, left) ==
    [x EXCEPT !.first = First(x), !.seq = x.seq + 1,
              !.problems = @ \ left, !.benign = @ \ left,
              !.reported = @ \ left]

\* _mark, for each entry of a set.
MarkedUnremembered(x, new) ==
    [x EXCEPT !.hits = @ + Cardinality(new), !.ever = @ \cup new]
Marked(x, new) ==
    [x EXCEPT !.reported = @ \cup new,
              !.hits = @ + Cardinality(new), !.ever = @ \cup new]

\* An entry of class c is appended, and reported at once if it is severe.
Fed(x, c) ==
    LET y == Slid(x, {i \in InWindow(x) : i < First(x)})
        z == [y EXCEPT !.since = @ + 1,
                       !.problems = @ \cup {i \in {x.seq} : c = "problem"},
                       !.benign = @ \cup {i \in {x.seq} : c = "benign"}]
    IN  Marked(z, {i \in {x.seq} : c = "severe"})

\* The judgement flags the entries of F: those not reported before are, except
\* the benign ones, which are only remembered.
Rescored(x, F) ==
    LET quiet == IF SuppressInfo THEN x.benign ELSE {}
        new   == (F \ x.reported) \ quiet
    IN  [Marked(x, new) EXCEPT !.reported = @ \cup F, !.since = 0]

Verdicts(x) == {F \in SUBSET InWindow(x) : x.problems \subseteq F}

\* _rescore: a run() that raises leaves everything but the count of entries
\* since the last judgement as it was.
Rescorings(x) ==
    {Rescored(x, F) : F \in Verdicts(x)}
        \cup (IF RunMayFail THEN {[x EXCEPT !.since = 0, !.failed = TRUE]} ELSE {})

-----------------------------------------------------------------------------
(* _due: by count, or when rescore_seconds have passed, at any entry.      *)

MayRescore(x) == Size(x) >= MinWindow

MustRescoreLate(x) == MayRescore(x) /\ x.since > RescoreEvery
MustRescore(x) == MayRescore(x) /\ x.since >= RescoreEvery

\* What feed_entry may leave.
Feedings(x, c) ==
    LET y == Fed(x, c)
    IN  (IF MustRescore(y) THEN {} ELSE {y})
            \cup (IF MayRescore(y) THEN Rescorings(y) ELSE {})

\* A forced judgement, which an empty window declines.
Flushings(x) == IF Size(x) = 0 THEN {[x EXCEPT !.since = 0]} ELSE Rescorings(x)

-----------------------------------------------------------------------------
DetectorInit ==
    /\ pending = "none"
    /\ conts = 0
    /\ det = [first |-> 0, seq |-> 0, problems |-> {}, benign |-> {},
              reported |-> {}, since |-> 0, hits |-> 0, ever |-> {}, failed |-> FALSE]

Worsened(c) == IF c = "severe" THEN {c} ELSE {c, "plain", "problem"}

\* A continuation line joins the pending entry, whose text may become worse;
\* its level stays.
ContinueForEver ==
    /\ pending # "none"
    /\ pending' \in Worsened(pending)
    /\ conts' = conts + 1
    /\ UNCHANGED det

Continue ==
    /\ pending # "none"
    /\ conts < MaxContinuation
    /\ pending' \in Worsened(pending)
    /\ conts' = conts + 1
    /\ UNCHANGED det

\* A line that begins an entry of class c releases the pending one.
FeedLine(c) ==
    /\ det.seq < MaxEntries
    /\ pending' = c
    /\ conts' = 0
    /\ IF pending = "none" THEN det' = det
       ELSE det' \in Feedings(det, pending)

\* A caller that has whole entries (LogLensHandler.emit) feeds one directly.
FeedEntry(c) ==
    /\ det.seq < MaxEntries
    /\ det' \in Feedings(det, c)
    /\ UNCHANGED <<pending, conts>>

\* flush: the pending entry is fed, then the window judged whatever its size.
Flush ==
    /\ det.seq < MaxEntries
    /\ pending' = "none"
    /\ UNCHANGED conts
    /\ IF pending = "none" THEN det' \in Flushings(det)
       ELSE \E y \in Feedings(det, pending) : det' \in Flushings(y)

DetectorNext ==
    \/ Continue
    \/ \E c \in Classes : FeedLine(c)
    \/ \E c \in Classes : FeedEntry(c)
    \/ Flush

DetectorSpec == DetectorInit /\ [][DetectorNext]_detectorVars

-----------------------------------------------------------------------------
DetectorTypeOK ==
    /\ pending \in Classes \cup {"none"}
    /\ conts \in 0 .. MaxContinuation
    /\ det \in Detectors
    /\ det.first <= det.seq

\* No entry is reported twice, however often it is judged and whatever a
\* later judgement says of it: the count of anomalies is the number of
\* entries ever reported.
ReportedOnce == det.hits = Cardinality(det.ever)

\* Memory is bounded by the window: what is remembered as reported is still in
\* it (live.py discards a number with its entry).
RemembersOnlyWindow == det.reported \subseteq InWindow(det) /\ Size(det) <= Window

\* A problem is reported before it leaves the window: one that is in the
\* window now and no longer after the step has been reported by then, unless
\* run() raised.
ProblemsReported ==
    [][det.failed' \/
       \A i \in det.problems : i \in InWindow(det)' \/ i \in det.ever']_detectorVars
==============================================================================
