------------------------- MODULE LiveDetectorProofs --------------------------
(***************************************************************************)
(* Proofs about LiveDetector.  The detector's own invariant, Sound, says   *)
(* that what has ever been reported and is still in the window is          *)
(* remembered as reported, which is why it is never reported again.        *)
(* Prompt says that a problem no report knows of came in after the last    *)
(* judgement, which is less than RescoreEvery entries ago.                 *)
(***************************************************************************)
EXTENDS LiveDetector, FiniteSetTheorems, TLAPS

Within(x) ==
    /\ x \in Detectors
    /\ x.first <= x.seq
    /\ x.problems \subseteq InWindow(x)
    /\ x.benign \subseteq InWindow(x)
    /\ x.problems \cap x.benign = {}
    /\ x.reported \subseteq InWindow(x)

Sound(x) ==
    /\ Within(x)
    /\ x.ever \subseteq 0 .. (x.seq - 1)
    /\ x.ever \cap InWindow(x) \subseteq x.reported
    /\ x.reported \subseteq x.ever \cup x.benign
    /\ x.hits = Cardinality(x.ever)

Prompt(x) ==
    \/ x.failed
    \/ /\ \A i \in x.problems : i \in x.ever \/ i >= x.seq - x.since
       /\ x.since < RescoreEvery \/ Size(x) < MinWindow

IInv ==
    /\ pending \in Classes \cup {"none"}
    /\ conts \in 0 .. MaxContinuation
    /\ Sound(det)
    /\ Size(det) <= Window

-----------------------------------------------------------------------------
(* What the operators keep.                                                *)

\* The fields that each operator leaves.
LEMMA MarkedFields ==
    ASSUME NEW x \in Detectors,
           NEW new, new \subseteq Nat, Cardinality(new) \in Nat
    PROVE  LET y == Marked(x, new)
           IN  /\ y \in Detectors
               /\ y.first = x.first /\ y.seq = x.seq /\ y.since = x.since
               /\ y.problems = x.problems /\ y.benign = x.benign
               /\ y.reported = x.reported \cup new
               /\ y.ever = x.ever \cup new
               /\ y.hits = x.hits + Cardinality(new)
               /\ y.failed = x.failed
<1> DEFINE y == Marked(x, new)
<1>1. PICK n \in Nat : n = Cardinality(new) OBVIOUS
<1>2. PICK h \in Nat : h = x.hits + n BY DEF Detectors
<1>3. PICK r \in SUBSET Nat : r = x.reported \cup new BY DEF Detectors
<1>4. PICK e \in SUBSET Nat : e = x.ever \cup new BY DEF Detectors
<1>5. y = [x EXCEPT !.reported = r, !.hits = h, !.ever = e]
  BY <1>1, <1>2, <1>3, <1>4 DEF Marked
<1> HIDE DEF y
<1>6. /\ y \in Detectors
      /\ y.first = x.first /\ y.seq = x.seq /\ y.since = x.since
      /\ y.problems = x.problems /\ y.benign = x.benign
      /\ y.reported = r /\ y.ever = e /\ y.hits = h
      /\ y.failed = x.failed
  BY <1>5 DEF Detectors
<1> QED BY <1>1, <1>2, <1>3, <1>4, <1>6 DEF y

LEMMA SlidFields ==
    ASSUME NEW x \in Detectors, First(x) \in Nat, NEW left
    PROVE  LET y == Slid(x, left)
           IN  /\ y \in Detectors
               /\ y.first = First(x) /\ y.seq = x.seq + 1 /\ y.since = x.since
               /\ y.problems = x.problems \ left
               /\ y.benign = x.benign \ left
               /\ y.reported = x.reported \ left
               /\ y.ever = x.ever /\ y.hits = x.hits
               /\ y.failed = x.failed
<1> DEFINE y == Slid(x, left)
<1>1. PICK f \in Nat : f = First(x) OBVIOUS
<1>2. PICK s \in Nat : s = x.seq + 1 BY DEF Detectors
<1>3. PICK p \in SUBSET Nat : p = x.problems \ left BY DEF Detectors
<1>4. PICK b \in SUBSET Nat : b = x.benign \ left BY DEF Detectors
<1>5. PICK r \in SUBSET Nat : r = x.reported \ left BY DEF Detectors
<1>6. y = [x EXCEPT !.first = f, !.seq = s, !.problems = p, !.benign = b,
                    !.reported = r]
  BY <1>1, <1>2, <1>3, <1>4, <1>5 DEF Slid
<1> HIDE DEF y
<1>7. /\ y \in Detectors
      /\ y.first = f /\ y.seq = s /\ y.since = x.since
      /\ y.problems = p /\ y.benign = b /\ y.reported = r
      /\ y.ever = x.ever /\ y.hits = x.hits
      /\ y.failed = x.failed
  BY <1>6 DEF Detectors
<1> QED BY <1>1, <1>2, <1>3, <1>4, <1>5, <1>7 DEF y

\* Reporting entries of the window that no report knows of counts each once.
LEMMA MarkedSound ==
    ASSUME NEW x, Sound(x),
           NEW new, new \subseteq InWindow(x), new \cap x.reported = {}
    PROVE  Sound(Marked(x, new))
<1>1. x \in Detectors BY DEF Sound, Within
<1>2. IsFiniteSet(x.ever) /\ IsFiniteSet(new)
  <2>1. x.first \in Int /\ x.seq - 1 \in Int BY <1>1 DEF Detectors
  <2>2. IsFiniteSet(0 .. (x.seq - 1)) /\ IsFiniteSet(InWindow(x))
    BY <2>1, FS_Interval DEF InWindow
  <2> QED BY <2>2, FS_Subset DEF Sound
<1>3. x.ever \cap new = {} BY DEF Sound
<1>4. Cardinality(x.ever \cup new) = Cardinality(x.ever) + Cardinality(new)
  <2>1. Cardinality(x.ever \cup new)
           = Cardinality(x.ever) + Cardinality(new) - Cardinality(x.ever \cap new)
    BY <1>2, FS_Union
  <2>2. Cardinality(x.ever \cap new) = 0 BY <1>3, FS_EmptySet
  <2>3. Cardinality(x.ever) \in Nat /\ Cardinality(new) \in Nat
    BY <1>2, FS_CardinalityType
  <2> QED BY <2>1, <2>2, <2>3
<1>5. Cardinality(new) \in Nat BY <1>2, FS_CardinalityType
<1>6. Cardinality(x.ever) = x.hits BY DEF Sound
<1> DEFINE y == Marked(x, new)
<1>7. /\ y \in Detectors
      /\ y.first = x.first /\ y.seq = x.seq /\ y.since = x.since
      /\ y.problems = x.problems /\ y.benign = x.benign
      /\ y.reported = x.reported \cup new /\ y.ever = x.ever \cup new
      /\ y.hits = Cardinality(y.ever)
  <2>1. new \subseteq Nat BY <1>1 DEF InWindow, Detectors
  <2> HIDE DEF y
  <2>2. /\ y \in Detectors
        /\ y.first = x.first /\ y.seq = x.seq /\ y.since = x.since
        /\ y.problems = x.problems /\ y.benign = x.benign
        /\ y.reported = x.reported \cup new /\ y.ever = x.ever \cup new
        /\ y.hits = x.hits + Cardinality(new)
    BY <1>1, <1>5, <2>1, MarkedFields DEF y
  <2> QED BY <1>4, <1>6, <2>2
<1>8. InWindow(y) = InWindow(x) BY <1>7 DEF InWindow
<1>9. new \subseteq 0 .. (x.seq - 1) BY <1>1 DEF InWindow, Detectors
<1> HIDE DEF y
<1>10. Within(y) BY <1>7, <1>8 DEF Sound, Within
<1>11. Sound(y) BY <1>7, <1>8, <1>9, <1>10 DEF Sound
<1> QED BY <1>11 DEF y

\* A new entry keeps the detector sound and its window bounded, and pushes out
\* at most the leftmost entry, and that only from a full window.
LEMMA FedSound ==
    ASSUME NEW x, Sound(x), Size(x) <= Window, NEW c \in Classes
    PROVE  LET y == Fed(x, c)
           IN  /\ Sound(y)
               /\ Size(y) <= Window
               /\ y.seq = x.seq + 1
               /\ y.since = x.since + 1
               /\ y.first = First(x)
               /\ y.failed = x.failed
               /\ x.ever \subseteq y.ever
               /\ \A i \in y.problems : i \in x.problems \/ i = x.seq
               /\ \A i \in x.problems : i \in y.problems \/ i < First(x)
<1> DEFINE left == {i \in InWindow(x) : i < First(x)}
           s == Slid(x, left)
           z == [s EXCEPT !.since = @ + 1,
                          !.problems = @ \cup {i \in {x.seq} : c = "problem"},
                          !.benign = @ \cup {i \in {x.seq} : c = "benign"}]
           new == {i \in {x.seq} : c = "severe"}
           y == Marked(z, new)
<1>1. x \in Detectors /\ x.first <= x.seq /\ Window \in Nat \ {0}
  BY LiveAssumption DEF Sound, Within
<1>2. /\ First(x) \in Nat /\ x.first <= First(x) /\ First(x) <= x.seq
      /\ x.seq + 1 - First(x) <= Window
  BY <1>1 DEF First, Size, Detectors
<1>3. /\ z \in Detectors
      /\ z.first = First(x) /\ z.seq = x.seq + 1 /\ z.since = x.since + 1
      /\ z.problems = (x.problems \ left) \cup {i \in {x.seq} : c = "problem"}
      /\ z.benign = (x.benign \ left) \cup {i \in {x.seq} : c = "benign"}
      /\ z.reported = x.reported \ left
      /\ z.ever = x.ever /\ z.hits = x.hits /\ z.failed = x.failed
  <2> DEFINE p0 == {i \in {x.seq} : c = "problem"}
             b0 == {i \in {x.seq} : c = "benign"}
  <2>1. p0 \subseteq Nat /\ b0 \subseteq Nat BY <1>1 DEF Detectors
  <2>2. z = [s EXCEPT !.since = s.since + 1, !.problems = s.problems \cup p0,
                      !.benign = s.benign \cup b0]
    OBVIOUS
  <2> HIDE DEF s, z, left, p0, b0
  <2>3. s = Slid(x, left) BY DEF s
  <2>4. /\ s \in Detectors
        /\ s.first = First(x) /\ s.seq = x.seq + 1 /\ s.since = x.since
        /\ s.problems = x.problems \ left /\ s.benign = x.benign \ left
        /\ s.reported = x.reported \ left
        /\ s.ever = x.ever /\ s.hits = x.hits /\ s.failed = x.failed
    BY <1>1, <1>2, <2>3, SlidFields
  <2>5. /\ z \in Detectors
        /\ z.first = s.first /\ z.seq = s.seq /\ z.since = s.since + 1
        /\ z.problems = s.problems \cup p0 /\ z.benign = s.benign \cup b0
        /\ z.reported = s.reported /\ z.ever = s.ever /\ z.hits = s.hits
        /\ z.failed = s.failed
    <3> HIDE DEF y, new
    <3>1. PICK t \in Detectors : t = s BY <2>4
    <3>2. PICK n \in Nat : n = s.since + 1 BY <3>1 DEF Detectors
    <3>3. PICK p \in SUBSET Nat : p = s.problems \cup p0
      BY <2>1, <3>1 DEF Detectors
    <3>4. PICK b \in SUBSET Nat : b = s.benign \cup b0
      BY <2>1, <3>1 DEF Detectors
    <3>5. z = [t EXCEPT !.since = n, !.problems = p, !.benign = b]
      BY <2>2, <3>1, <3>2, <3>3, <3>4
    <3>6. /\ z \in Detectors
          /\ z.first = t.first /\ z.seq = t.seq /\ z.since = n
          /\ z.problems = p /\ z.benign = b
          /\ z.reported = t.reported /\ z.ever = t.ever /\ z.hits = t.hits
          /\ z.failed = t.failed
      BY <3>5 DEF Detectors
    <3> QED BY <3>1, <3>2, <3>3, <3>4, <3>6
  <2> QED BY <2>4, <2>5 DEF p0, b0
<1> HIDE DEF z, s
<1>4. InWindow(z) = (InWindow(x) \ left) \cup {x.seq}
  BY <1>1, <1>2, <1>3 DEF InWindow, Detectors
<1>5. x.seq \notin InWindow(x) BY <1>1 DEF InWindow, Detectors
<1>6. x.seq \notin x.ever BY <1>1 DEF Sound, Detectors
<1> HIDE DEF left
<1>7. Sound(z)
  <2>1. z.first <= z.seq BY <1>1, <1>2, <1>3 DEF Detectors
  <2>2. z.problems \subseteq InWindow(z) /\ z.benign \subseteq InWindow(z)
        /\ z.reported \subseteq InWindow(z)
    BY <1>3, <1>4 DEF Sound, Within
  <2>3. z.problems \cap z.benign = {} BY <1>3, <1>5 DEF Sound, Within
  <2>4. z.ever \subseteq 0 .. (z.seq - 1) BY <1>1, <1>3 DEF Sound, Detectors
  <2>5. z.ever \cap InWindow(z) \subseteq z.reported
    BY <1>3, <1>4, <1>6 DEF Sound
  <2>6. z.reported \subseteq z.ever \cup z.benign BY <1>3 DEF Sound
  <2>7. z.hits = Cardinality(z.ever) BY <1>3 DEF Sound
  <2> QED BY <1>3, <2>1, <2>2, <2>3, <2>4, <2>5, <2>6, <2>7 DEF Sound, Within
<1>8. new \subseteq InWindow(z) /\ new \cap z.reported = {}
  BY <1>3, <1>4, <1>5 DEF Sound, Within
<1>9. Sound(y) BY <1>7, <1>8, MarkedSound
<1>10. /\ y.seq = z.seq /\ y.first = z.first /\ y.since = z.since
       /\ y.problems = z.problems /\ y.ever = z.ever \cup new
       /\ y.failed = z.failed
  <2>1. new \subseteq Nat BY <1>3, <1>8 DEF InWindow, Detectors
  <2>2. Cardinality(new) \in Nat
    BY FS_Singleton, FS_EmptySet, FS_Subset, FS_CardinalityType
  <2> HIDE DEF new
  <2> QED BY <1>3, <2>1, <2>2, MarkedFields
<1>11. y = Fed(x, c) BY Zenon DEF Fed, z, s, left
<1> HIDE DEF y
<1>12. Size(y) <= Window BY <1>1, <1>2, <1>3, <1>10 DEF Size, Detectors
<1>13. \A i \in left : i < First(x) BY DEF left
<1> HIDE DEF new
<1> QED BY <1>3, <1>9, <1>10, <1>12, <1>11, <1>13

\* A judgement keeps the detector sound; it moves no entry in or out of the
\* window, and whatever its outcome the count since the last one is zero.  Unless
\* run() raises, every problem of the window is reported by then.
LEMMA RescoredSound ==
    ASSUME NEW x, Sound(x), NEW y \in Rescorings(x)
    PROVE  /\ Sound(y)
           /\ y.seq = x.seq /\ y.first = x.first /\ y.since = 0
           /\ y.problems = x.problems
           /\ x.ever \subseteq y.ever
           /\ x.failed => y.failed
           /\ y.failed \/ y.problems \subseteq y.ever
<1>1. x \in Detectors BY DEF Sound, Within
<1>2. CASE y = [x EXCEPT !.since = 0, !.failed = TRUE]
  <2>1. /\ y \in Detectors
        /\ y.first = x.first /\ y.seq = x.seq /\ y.since = 0
        /\ y.problems = x.problems /\ y.benign = x.benign
        /\ y.reported = x.reported /\ y.ever = x.ever /\ y.hits = x.hits
        /\ y.failed = TRUE
    BY <1>1, <1>2 DEF Detectors
  <2>2. InWindow(y) = InWindow(x) BY <2>1 DEF InWindow
  <2> QED BY <1>2, <2>1, <2>2 DEF Sound, Within
<1>3. CASE \E F \in Verdicts(x) : y = Rescored(x, F)
  <2>1. PICK F \in Verdicts(x) : y = Rescored(x, F) BY <1>3
  <2> DEFINE quiet == IF SuppressInfo THEN x.benign ELSE {}
             new == (F \ x.reported) \ quiet
             z == Marked(x, new)
  <2>2. F \subseteq InWindow(x) /\ x.problems \subseteq F BY DEF Verdicts
  <2>3. quiet \subseteq x.benign OBVIOUS
  <2>4. /\ z.first = x.first /\ z.seq = x.seq
        /\ z.problems = x.problems /\ z.benign = x.benign
        /\ z.reported = x.reported \cup new /\ z.ever = x.ever \cup new
        /\ z.failed = x.failed
    BY <1>1 DEF Marked, Detectors
  <2> HIDE DEF quiet
  <2>5. new \subseteq InWindow(x) /\ new \cap x.reported = {} BY <2>2
  <2>6. Sound(z) BY <2>5, MarkedSound
  <2>7. F \subseteq new \cup x.reported \cup quiet OBVIOUS
  <2>8. y = [z EXCEPT !.reported = @ \cup F, !.since = 0]
    BY <2>1 DEF Rescored, quiet
  <2> HIDE DEF z, new
  <2>9. z \in Detectors BY <2>6 DEF Sound, Within
  <2>10. F \subseteq Nat BY <1>1, <2>2 DEF InWindow, Detectors
  <2>11. /\ y \in Detectors
         /\ y.first = z.first /\ y.seq = z.seq /\ y.since = 0
         /\ y.problems = z.problems /\ y.benign = z.benign
         /\ y.reported = z.reported \cup F /\ y.ever = z.ever /\ y.hits = z.hits
         /\ y.failed = z.failed
    BY <2>8, <2>9, <2>10 DEF Detectors
  <2>12. InWindow(y) = InWindow(z) /\ InWindow(z) = InWindow(x)
    BY <2>4, <2>11 DEF InWindow
  <2>13. Within(y) BY <2>2, <2>6, <2>11, <2>12 DEF Sound, Within
  <2>14. y.reported \subseteq y.ever \cup y.benign
    BY <2>3, <2>4, <2>6, <2>7, <2>11 DEF Sound
  <2>15. Sound(y) BY <2>6, <2>11, <2>12, <2>13, <2>14 DEF Sound
  <2>16. y.problems \subseteq y.ever
    <3>1. y.problems \subseteq y.reported BY <2>2, <2>4, <2>11
    <3> QED BY <2>13, <2>14, <3>1 DEF Within
  <2> QED BY <2>4, <2>11, <2>15, <2>16
<1> QED BY <1>2, <1>3 DEF Rescorings

\* The condition under which no problem escapes: the window holds all the
\* entries between two judgements.
Patient == Window >= RescoreEvery /\ Window >= MinWindow

\* What one call does, from x to y.
Kept(x, y) ==
    /\ Sound(y)
    /\ Size(y) <= Window
    /\ x.failed => y.failed
    /\ Patient /\ Prompt(x) =>
         /\ Prompt(y)
         /\ y.failed \/ \A i \in x.problems : i \in InWindow(y) \/ i \in y.ever

\* After a judgement that comes out nothing is left for Prompt to excuse.
LEMMA RescoredKept ==
    ASSUME NEW x, Sound(x), Size(x) <= Window, NEW y \in Rescorings(x)
    PROVE  Kept(x, y)
<1>1. /\ Sound(y)
      /\ y.seq = x.seq /\ y.first = x.first /\ y.since = 0
      /\ y.problems = x.problems
      /\ x.failed => y.failed
      /\ y.failed \/ y.problems \subseteq y.ever
  BY RescoredSound
<1>2. Size(y) <= Window BY <1>1 DEF Size
<1>3. InWindow(y) = InWindow(x) BY <1>1 DEF InWindow
<1>4. RescoreEvery \in Nat \ {0} BY LiveAssumption
<1>5. ASSUME Patient PROVE Prompt(y)
  BY <1>1, <1>4, <1>5 DEF Prompt, Patient
<1>6. \A i \in x.problems : i \in InWindow(y) BY <1>3 DEF Sound, Within
<1> QED BY <1>1, <1>2, <1>5, <1>6 DEF Kept

\* The heart of the argument: an entry only leaves a full window, and by then
\* fewer than RescoreEvery <= Window entries have come since the last
\* judgement, so that the leftmost one was there to be judged.
LEMMA FeedingKept ==
    ASSUME NEW x, Sound(x), Size(x) <= Window, NEW c \in Classes,
           NEW y \in Feedings(x, c)
    PROVE  Kept(x, y)
<1> DEFINE z == Fed(x, c)
<1>1. /\ Sound(z)
      /\ Size(z) <= Window
      /\ z.seq = x.seq + 1
      /\ z.since = x.since + 1
      /\ z.first = First(x)
      /\ z.failed = x.failed
      /\ x.ever \subseteq z.ever
      /\ \A i \in z.problems : i \in x.problems \/ i = x.seq
      /\ \A i \in x.problems : i \in z.problems \/ i < First(x)
  BY FedSound
<1>2. \/ y = z /\ ~MustRescore(z)
      \/ y \in Rescorings(z)
  BY DEF Feedings
<1> HIDE DEF z
<1>3. x \in Detectors /\ z \in Detectors BY <1>1 DEF Sound, Within
<1>4. x.first \in Nat /\ x.seq \in Nat /\ x.since \in Nat
  BY <1>3 DEF Detectors
<1>5. /\ Window \in Nat \ {0} /\ RescoreEvery \in Nat \ {0}
      /\ MinWindow \in Nat
  BY LiveAssumption
<1>6. x.problems \subseteq InWindow(x) /\ z.problems \subseteq InWindow(z)
  BY <1>1 DEF Sound, Within
<1>7. ASSUME Patient, Prompt(x), ~x.failed
      PROVE  /\ \A i \in z.problems : i \in z.ever \/ i >= z.seq - z.since
             /\ \A i \in x.problems : i \in InWindow(z) \/ i \in z.ever
  <2>1. \A i \in x.problems : i \in x.ever \/ i >= x.seq - x.since
    BY <1>7 DEF Prompt
  <2>2. \A i \in z.problems : i \in z.ever \/ i >= z.seq - z.since
    BY <1>1, <1>4, <2>1
  <2>3. ASSUME NEW i \in x.problems, i < First(x) PROVE i \in z.ever
    <3>1. i \in Int /\ x.first <= i BY <1>4, <1>6 DEF InWindow
    <3>2. Size(x) + 1 > Window BY <1>4, <2>3, <3>1 DEF First
    <3>3. Size(x) \in Int BY <1>4 DEF Size
    <3>4. Size(x) = Window BY <1>5, <3>2, <3>3
    <3>5. x.since < RescoreEvery BY <1>5, <1>7, <3>3, <3>4 DEF Prompt, Patient
    <3>6. i = x.first BY <1>4, <2>3, <3>1, <3>2 DEF First
    <3>7. i < x.seq - x.since
      BY <1>4, <1>5, <1>7, <3>4, <3>5, <3>6 DEF Size, Patient
    <3> QED BY <1>1, <1>4, <2>1, <3>1, <3>7
  <2> QED BY <1>1, <1>6, <2>2, <2>3
<1>8. CASE y = z /\ ~MustRescore(z)
  <2>1. z.since < RescoreEvery \/ Size(z) < MinWindow
    <3>1. z.since \in Nat /\ Size(z) \in Int BY <1>3 DEF Size, Detectors
    <3> QED BY <1>5, <1>8, <3>1 DEF MustRescore, MayRescore
  <2> QED BY <1>1, <1>7, <1>8, <2>1 DEF Kept, Prompt
<1>9. CASE y \in Rescorings(z)
  <2>1. /\ Sound(y)
        /\ y.seq = z.seq /\ y.first = z.first /\ y.since = 0
        /\ y.problems = z.problems
        /\ z.ever \subseteq y.ever
        /\ z.failed => y.failed
        /\ y.failed \/ y.problems \subseteq y.ever
    BY <1>1, <1>9, RescoredSound
  <2>2. Size(y) <= Window BY <1>1, <2>1 DEF Size
  <2>3. InWindow(y) = InWindow(z) BY <2>1 DEF InWindow
  <2>4. ASSUME Patient, Prompt(x) PROVE Prompt(y)
    BY <1>5, <2>1, <2>4 DEF Prompt, Patient
  <2>5. ASSUME Patient, Prompt(x)
        PROVE  y.failed \/ \A i \in x.problems : i \in InWindow(y) \/ i \in y.ever
    BY <1>1, <1>7, <2>1, <2>3, <2>5
  <2> QED BY <1>1, <2>1, <2>2, <2>4, <2>5 DEF Kept
<1> QED BY <1>2, <1>8, <1>9

LEMMA FlushingKept ==
    ASSUME NEW x, Sound(x), Size(x) <= Window, NEW y \in Flushings(x)
    PROVE  /\ Kept(x, y)
           /\ y.seq = x.seq /\ y.first = x.first
           /\ x.ever \subseteq y.ever
<1>1. CASE Size(x) # 0
  BY <1>1, RescoredKept, RescoredSound DEF Flushings
<1>2. CASE Size(x) = 0
  <2>1. x \in Detectors BY DEF Sound, Within
  <2>2. y = [x EXCEPT !.since = 0] BY <1>2 DEF Flushings
  <2>3. /\ y \in Detectors
        /\ y.first = x.first /\ y.seq = x.seq /\ y.since = 0
        /\ y.problems = x.problems /\ y.benign = x.benign
        /\ y.reported = x.reported /\ y.ever = x.ever /\ y.hits = x.hits
        /\ y.failed = x.failed
    BY <2>1, <2>2 DEF Detectors
  <2>4. InWindow(y) = InWindow(x) BY <2>3 DEF InWindow
  <2>5. Sound(y) BY <2>3, <2>4 DEF Sound, Within
  <2>6. Size(y) <= Window BY <2>3 DEF Size
  <2>7. InWindow(x) = {} BY <1>2, <2>1 DEF InWindow, Size, Detectors
  <2>8. x.problems = {} BY <2>7 DEF Sound, Within
  <2>9. Prompt(y) BY <2>3, <2>8, LiveAssumption DEF Prompt
  <2> QED BY <2>3, <2>5, <2>6, <2>8, <2>9 DEF Kept
<1> QED BY <1>1, <1>2

-----------------------------------------------------------------------------
(* The invariant.                                                          *)

LEMMA InitInv == DetectorInit => IInv /\ Prompt(det)
<1> SUFFICES ASSUME DetectorInit PROVE IInv /\ Prompt(det) OBVIOUS
<1>1. /\ det \in Detectors
      /\ det.first = 0 /\ det.seq = 0 /\ det.since = 0 /\ det.hits = 0
      /\ det.problems = {} /\ det.benign = {}
      /\ det.reported = {} /\ det.ever = {}
  BY DEF DetectorInit, Detectors
<1>2. Cardinality({}) = 0 BY FS_EmptySet
<1>3. Sound(det) BY <1>1, <1>2 DEF Sound, Within
<1>4. Size(det) <= Window /\ Prompt(det)
  BY <1>1, LiveAssumption DEF Size, Prompt
<1>5. pending \in Classes \cup {"none"} /\ conts \in 0 .. MaxContinuation
  BY LiveAssumption DEF DetectorInit
<1> QED BY <1>3, <1>4, <1>5 DEF IInv

\* What every step does to the detector, and the rest of the invariant.
LEMMA StepKept ==
    ASSUME IInv, [DetectorNext]_detectorVars
    PROVE  IInv' /\ (UNCHANGED det \/ Kept(det, det'))
<1>1. /\ pending \in Classes \cup {"none"}
      /\ conts \in 0 .. MaxContinuation
      /\ Sound(det) /\ Size(det) <= Window
  BY DEF IInv
<1>2. CASE UNCHANGED detectorVars
  BY <1>1, <1>2 DEF IInv, detectorVars
<1>3. CASE Continue
  <2>1. pending' \in Classes BY <1>1, <1>3 DEF Continue, Worsened, Classes
  <2>2. conts' \in 0 .. MaxContinuation
    BY <1>1, <1>3, LiveAssumption DEF Continue
  <2> QED BY <1>1, <1>3, <2>1, <2>2 DEF Continue, IInv
<1>4. ASSUME NEW c \in Classes, FeedLine(c) PROVE IInv' /\ (UNCHANGED det \/ Kept(det, det'))
  <2>1. pending' \in Classes /\ conts' \in 0 .. MaxContinuation
    BY <1>4, LiveAssumption DEF FeedLine
  <2>2. CASE pending = "none"
    BY <1>1, <1>4, <2>1, <2>2 DEF FeedLine, IInv
  <2>3. CASE pending # "none"
    <3>1. det' \in Feedings(det, pending) /\ pending \in Classes
      BY <1>1, <1>4, <2>3 DEF FeedLine
    <3>2. Kept(det, det') BY <1>1, <3>1, FeedingKept
    <3> QED BY <2>1, <3>2 DEF Kept, IInv
  <2> QED BY <2>2, <2>3
<1>5. ASSUME NEW c \in Classes, FeedEntry(c) PROVE IInv' /\ Kept(det, det')
  <2>1. det' \in Feedings(det, c) BY <1>5 DEF FeedEntry
  <2>2. Kept(det, det') BY <1>1, <2>1, FeedingKept
  <2> QED BY <1>1, <1>5, <2>2 DEF FeedEntry, Kept, IInv
<1>6. CASE Flush
  <2>1. pending' = "none" /\ conts' = conts BY <1>6 DEF Flush
  <2>2. CASE pending = "none"
    <3>1. det' \in Flushings(det) BY <1>6, <2>2 DEF Flush
    <3>2. Kept(det, det') BY <1>1, <3>1, FlushingKept
    <3> QED BY <1>1, <2>1, <3>2 DEF Kept, IInv
  <2>3. CASE pending # "none"
    <3>1. PICK y \in Feedings(det, pending) : det' \in Flushings(y)
      BY <1>6, <2>3 DEF Flush
    <3>2. Kept(det, y) BY <1>1, <2>3, FeedingKept
    <3>3. /\ Kept(y, det')
          /\ det'.seq = y.seq /\ det'.first = y.first
          /\ y.ever \subseteq det'.ever
      BY <3>1, <3>2, FlushingKept DEF Kept
    <3>4. InWindow(det') = InWindow(y) BY <3>3 DEF InWindow
    <3>5. Kept(det, det') BY <3>2, <3>3, <3>4 DEF Kept
    <3> QED BY <1>1, <2>1, <3>5 DEF Kept, IInv
  <2> QED BY <2>2, <2>3
<1> QED BY <1>2, <1>3, <1>4, <1>5, <1>6 DEF DetectorNext

LEMMA Inductive == DetectorSpec => []IInv
<1>1. DetectorInit => IInv BY InitInv
<1>2. IInv /\ [DetectorNext]_detectorVars => IInv' BY StepKept
<1> QED BY <1>1, <1>2, PTL DEF DetectorSpec

-----------------------------------------------------------------------------
(* The theorems.                                                           *)

\* The parser's state and the detector's have their types.
THEOREM TypeCorrect == DetectorSpec => []DetectorTypeOK
<1>1. IInv => DetectorTypeOK BY DEF IInv, Sound, Within, DetectorTypeOK
<1> QED BY <1>1, Inductive, PTL

\* Whatever the judgements say, however the entries come in, and even if run()
\* raises, no entry is counted as an anomaly twice.
THEOREM NeverReportedTwice == DetectorSpec => []ReportedOnce
<1>1. IInv => ReportedOnce BY DEF IInv, Sound, ReportedOnce
<1> QED BY <1>1, Inductive, PTL

\* What is remembered of the reports is bounded by the window.
THEOREM MemoryBounded == DetectorSpec => []RemembersOnlyWindow
<1>1. IInv => RemembersOnlyWindow
  BY DEF IInv, Sound, Within, RemembersOnlyWindow
<1> QED BY <1>1, Inductive, PTL

\* If the window is no smaller than the interval between judgements and than
\* the least window judged, every problem is reported before it leaves the window,
\* unless run() has raised.
THEOREM NoProblemEscapes ==
    ASSUME Window >= RescoreEvery, Window >= MinWindow
    PROVE  DetectorSpec => ProblemsReported
<1>1. Patient BY DEF Patient
<1>2. DetectorInit => Prompt(det) BY InitInv
<1>3. IInv /\ Prompt(det) /\ [DetectorNext]_detectorVars => Prompt(det)'
  <2> SUFFICES ASSUME IInv, Prompt(det), [DetectorNext]_detectorVars PROVE Prompt(det)'
    OBVIOUS
  <2>1. UNCHANGED det \/ Kept(det, det') BY StepKept
  <2> QED BY <1>1, <2>1 DEF Kept
<1>4. IInv /\ Prompt(det) /\ [DetectorNext]_detectorVars =>
        [det.failed' \/
         \A i \in det.problems : i \in InWindow(det)' \/ i \in det.ever']_detectorVars
  <2> SUFFICES ASSUME IInv, Prompt(det), [DetectorNext]_detectorVars, ~det'.failed,
                      NEW i \in det.problems
               PROVE  i \in InWindow(det') \/ i \in det'.ever
    OBVIOUS
  <2>1. CASE UNCHANGED det
    BY <2>1 DEF IInv, Sound, Within
  <2>2. CASE Kept(det, det')
    BY <1>1, <2>2 DEF Kept
  <2> QED BY <2>1, <2>2, StepKept
<1> QED BY <1>2, <1>3, <1>4, Inductive, PTL DEF DetectorSpec, ProblemsReported
==============================================================================
