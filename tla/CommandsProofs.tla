--------------------------- MODULE CommandsProofs ---------------------------
(***************************************************************************)
(* Proofs about the commands and what they call on.  The parts do not      *)
(* share state, so each has an inductive invariant of its own; the part    *)
(* that a behaviour runs keeps its invariant, and the parts that are over  *)
(* have theirs from the start.                                             *)
(***************************************************************************)
EXTENDS MCCommands, CountingLemmas

-----------------------------------------------------------------------------
(* The call of a language model.                                           *)

\* The pauses double.
LEMMA BackoffDoubles ==
    /\ Call!Backoff[0] = 1
    /\ \A k \in Nat : Call!Backoff[k] \in Nat /\ Call!Backoff[k + 1] = 2 * Call!Backoff[k]
<1> DEFINE next == [p \in Nat \X Nat |-> 2 * p[2]]
<1>1. next \in [Nat \X Nat -> Nat] /\ 1 \in Nat OBVIOUS
<1> HIDE DEF next
<1>2. PICK f \in [Nat -> Nat] : Recursive(f, 1, next)
  BY <1>1, RecursiveFunction
<1> USE DEF next
<1>3. f[0] = 1 /\ \A n \in Nat : f[n + 1] = 2 * f[n]
  BY <1>2 DEF Recursive
<1>4. f = [k \in Nat |-> IF k = 0 THEN 1 ELSE 2 * f[k - 1]]
  <2>1. ASSUME NEW k \in Nat PROVE f[k] = IF k = 0 THEN 1 ELSE 2 * f[k - 1]
    <3>1. CASE k = 0 BY <1>3, <3>1
    <3>2. CASE k # 0
      <4>1. k - 1 \in Nat /\ k - 1 + 1 = k BY <3>2
      <4> QED BY <1>3, <3>2, <4>1
    <3> QED BY <3>1, <3>2
  <2> QED BY <1>2, <2>1
<1>5. Call!Backoff = [k \in Nat |-> IF k = 0 THEN 1 ELSE 2 * Call!Backoff[k - 1]]
  BY <1>4 DEF Call!Backoff
<1> DEFINE g == Call!Backoff
<1>6. g = [k \in Nat |-> IF k = 0 THEN 1 ELSE 2 * g[k - 1]] BY <1>5
<1> HIDE DEF g
<1>7. g[0] = 1 BY <1>6
<1>8. ASSUME NEW k \in Nat PROVE g[k + 1] = 2 * g[k]
  <2>1. k + 1 \in Nat /\ k + 1 # 0 /\ k + 1 - 1 = k OBVIOUS
  <2> QED BY <1>6, <2>1
<1>9. ASSUME NEW k \in Nat PROVE g[k] \in Nat
  <2> DEFINE Bad == {m \in Nat : g[m] \notin Nat}
  <2>1. SUFFICES ASSUME Bad # {} PROVE FALSE
    OBVIOUS
  <2>2. PICK m \in Bad : \A j \in Bad : m <= j BY <2>1, LeastNumber
  <2>3. m # 0 /\ m \in Nat BY <1>7, <2>2
  <2>4. m - 1 \in Nat /\ m - 1 + 1 = m BY <2>3
  <2>5. m - 1 \notin Bad
    <3> HIDE DEF Bad
    <3> QED BY <2>2, <2>4
  <2>6. g[m] = 2 * g[m - 1] BY <1>8, <2>4
  <2> QED BY <2>2, <2>4, <2>5, <2>6
<1> USE DEF g
<1> QED BY <1>7, <1>8, <1>9

\* Well-formed; what is true of the answers so far, and of the stages that come
\* after the settings were found complete and after something was found to ask.
CallIInv ==
    /\ config \in Call!Settings /\ anomalies \in Nat
    /\ stage \in {"resolve", "context", "post", "pause", "parse", "done"}
    /\ attempt \in Nat /\ attempt <= Retries
    /\ stage = "pause" => attempt < Retries
    /\ served \in BOOLEAN
    /\ sent \in Nat /\ sent <= anomalies /\ sent <= MaxAnomalyLines
    /\ answer \in {"none", "report", "nothing", "LLMError", "other"}
    /\ codes \ Call!Retryable # {} => stage = "done" /\ answer = "LLMError"
    /\ slept = Call!Backoff[attempt] - 1
    /\ stage \in {"context", "post", "pause", "parse"} => Call!Configured(config)
    /\ stage \in {"post", "pause", "parse"} => anomalies > 0
    /\ served => Call!Configured(config) /\ anomalies > 0

\* A call starts with its invariant, and so does one that is over.
LEMMA CallStarts == Call!Init \/ CallOver => CallIInv
<1> SUFFICES ASSUME Call!Init \/ CallOver PROVE CallIInv
  OBVIOUS
<1>1. Call!Backoff[0] = 1 BY BackoffDoubles
<1>2. CASE Call!Init
  <2>1. config \in Call!Settings /\ anomalies \in Anomalies BY <1>2 DEF Call!Init
  <2>2. anomalies \in Nat BY <2>1, CommandsAssumption
  <2>3. stage = "resolve" /\ answer = "none" BY <1>2 DEF Call!Init
  <2>4. attempt = 0 /\ slept = 0 /\ sent = 0 BY <1>2 DEF Call!Init
  <2>5. served = FALSE /\ codes = {} BY <1>2 DEF Call!Init
  <2>6. served \in BOOLEAN /\ ~served /\ codes \ Call!Retryable = {} BY <2>5
  <2>7. slept = Call!Backoff[attempt] - 1 BY <1>1, <2>4
  <2>8. attempt <= Retries /\ sent <= anomalies /\ sent <= MaxAnomalyLines
    BY <2>2, <2>4, CommandsAssumption
  <2> QED BY <2>1, <2>2, <2>3, <2>4, <2>6, <2>7, <2>8 DEF CallIInv
<1>3. CASE CallOver
  <2>1. config \in Call!Settings BY <1>3 DEF CallOver, Call!Settings
  <2>2. stage = "done" /\ answer = "LLMError" BY <1>3 DEF CallOver
  <2>3. attempt = 0 /\ slept = 0 /\ sent = 0 BY <1>3 DEF CallOver
  <2>4. served = FALSE /\ codes = {} /\ anomalies = 0 BY <1>3 DEF CallOver
  <2>5. served \in BOOLEAN /\ ~served /\ codes \ Call!Retryable = {} BY <2>4
  <2>6. slept = Call!Backoff[attempt] - 1 BY <1>1, <2>3
  <2>7. attempt <= Retries /\ sent <= anomalies /\ sent <= MaxAnomalyLines
    BY <2>3, <2>4, CommandsAssumption
  <2> QED BY <2>1, <2>2, <2>3, <2>4, <2>5, <2>6, <2>7 DEF CallIInv
<1> QED BY <1>2, <1>3

\* Every step of a call keeps it.
LEMMA CallSteps == CallIInv /\ Call!Next => CallIInv'
<1> SUFFICES ASSUME CallIInv, Call!Next PROVE CallIInv'
  OBVIOUS
<1> USE CommandsAssumption
<1>1. CASE Call!Resolve
  BY <1>1 DEF Call!Resolve, Call!Goto, Call!Done, CallIInv
<1>2. CASE Call!Context
  BY <1>2 DEF Call!Context, Call!Goto, Call!Done, CallIInv
<1>3. CASE Call!Answered
  BY <1>3 DEF Call!Answered, Call!Goto, Call!Done, CallIInv
<1>4. CASE Call!HttpError
  <2>1. PICK failure \in Call!Status :
           /\ codes' = codes \cup {failure}
           /\ IF Call!Again(failure) THEN Call!Goto("pause") ELSE Call!Done("LLMError")
    BY <1>4 DEF Call!HttpError
  <2>2. CASE Call!Again(failure)
    BY <1>4, <2>1, <2>2 DEF Call!HttpError, Call!Again, Call!Goto, CallIInv
  <2>3. CASE ~Call!Again(failure)
    BY <1>4, <2>1, <2>3 DEF Call!HttpError, Call!Done, CallIInv
  <2> QED BY <2>2, <2>3
<1>5. CASE Call!NetworkError
  BY <1>5 DEF Call!NetworkError, Call!Goto, Call!Done, CallIInv
<1>6. CASE Call!Pause
  <2>1. Call!Backoff[attempt] \in Nat
        /\ Call!Backoff[attempt + 1] = 2 * Call!Backoff[attempt]
    BY BackoffDoubles DEF CallIInv
  <2> QED BY <1>6, <2>1 DEF Call!Pause, Call!Goto, CallIInv
<1>7. CASE Call!Parse
  BY <1>7 DEF Call!Parse, Call!Done, CallIInv
<1> QED BY <1>1, <1>2, <1>3, <1>4, <1>5, <1>6, <1>7 DEF Call!Next

\* The steps of other parts do, too.
LEMMA CallStays == CallIInv /\ UNCHANGED callVars => CallIInv'
BY DEF CallIInv, callVars

\* What the invariant of the call says of it.
LEMMA CallKept == CallIInv => Call!TypeOK /\ Call!TransientOnly /\ Call!NothingSentInVain
BY DEF CallIInv, Call!TypeOK, Call!TransientOnly, Call!NothingSentInVain, Call!Configured

-----------------------------------------------------------------------------
(* analyze.                                                                *)

\* An effect is in a trail; it is there once at most.
Has(t, e) == \E i \in DOMAIN t : t[i] = e
Once(t, e) == \A i, j \in DOMAIN t : t[i] = e /\ t[j] = e => i = j

Effects == {"learned", "banked", "rca", "html", "json", "results", "empty", "rca-failed"}

\* What of the trail is counted.
LEMMA TimesIs ==
    ASSUME NEW e, trail \in Seq(Effects)
    PROVE  /\ Analyze!Times(e) \in Nat
           /\ Once(trail, e) => Analyze!Times(e) <= 1
           /\ Has(trail, e) <=> Analyze!Times(e) > 0
<1> DEFINE there == {i \in DOMAIN trail : trail[i] = e}
<1>1. IsFiniteSet(there) /\ Cardinality(there) \in Nat
  <2>1. there = Places(trail, {e}) BY DEF Places
  <2> QED BY <2>1, PlacesFinite
<1>2. Analyze!Times(e) = Cardinality(there)
  BY Zenon DEF Analyze!Times, Analyze!Cardinality, Cardinality
<1>3. Has(trail, e) <=> there # {} BY DEF Has
<1>4. ASSUME Once(trail, e), there # {} PROVE \E i : there = {i}
  BY <1>4 DEF Once
<1> HIDE DEF there
<1>5. Cardinality(there) = 0 <=> there = {} BY <1>1, FS_EmptySet
<1>6. (\E i : there = {i}) => Cardinality(there) = 1 BY FS_Singleton
<1>7. Cardinality(there) <= 1 \/ ~Once(trail, e) BY <1>4, <1>5, <1>6
<1>8. Has(trail, e) <=> Cardinality(there) > 0 BY <1>1, <1>3, <1>5
<1> QED BY <1>1, <1>2, <1>7, <1>8

\* An effect more.
LEMMA OneMore ==
    ASSUME NEW e \in Effects, NEW t \in Seq(Effects), NEW r, r = Append(t, e)
    PROVE  /\ r \in Seq(Effects)
           /\ \A x : Has(r, x) <=> Has(t, x) \/ x = e
           /\ \A x : x # e \/ ~Has(t, x) => (Once(t, x) => Once(r, x))
<1>1. /\ Len(t) \in Nat /\ r \in Seq(Effects) /\ Len(r) = Len(t) + 1
      /\ DOMAIN t = 1 .. Len(t) /\ DOMAIN r = 1 .. Len(r)
  OBVIOUS
<1>2. r[Len(t) + 1] = e /\ \A i \in DOMAIN t : r[i] = t[i] OBVIOUS
<1>3. DOMAIN r = DOMAIN t \cup {Len(t) + 1} BY <1>1
<1>4. ASSUME NEW x PROVE Has(r, x) <=> Has(t, x) \/ x = e
  BY <1>2, <1>3 DEF Has
<1>5. ASSUME NEW x, x # e \/ ~Has(t, x), Once(t, x) PROVE Once(r, x)
  BY <1>2, <1>3, <1>5 DEF Has, Once
<1> QED BY <1>1, <1>4, <1>5

\* What a run has learned is in the trail, each once.
LEMMA SavedOnce ==
    ASSUME NEW saved \in SUBSET {"learned", "banked"}, NEW r,
           r = <<>> \o Analyze!SetToSeq(saved)
    PROVE  /\ r \in Seq(Effects)
           /\ \A x : Has(r, x) => x \in saved
           /\ \A x : Once(r, x)
<1> DEFINE n == Cardinality(saved)
           q == Analyze!SetToSeq(saved)
<1>1. IsFiniteSet(saved)
  <2>1. IsFiniteSet({"learned"} \cup {"banked"})
    BY FS_Singleton, FS_AddElement
  <2>2. saved \in SUBSET ({"learned"} \cup {"banked"}) OBVIOUS
  <2> QED BY <2>1, <2>2, FS_Subset
<1>2. n \in Nat /\ ExistsBijection(1 .. n, saved) BY <1>1, FS_CardinalityType
<1>3. \E f \in [1 .. n -> saved] : Analyze!IsInjective(f)
  BY <1>2 DEF ExistsBijection, Bijection, Injection, IsInjective, Analyze!IsInjective
<1>4. q \in [1 .. n -> saved] /\ Analyze!IsInjective(q)
  BY <1>3, Zenon DEF Analyze!SetToSeq, Analyze!Cardinality, Cardinality
<1> HIDE DEF n, q
<1>5. q \in Seq(saved) BY <1>2, <1>4
<1>6. r = q BY <1>5 DEF q
<1>7. DOMAIN r = 1 .. n /\ \A i \in 1 .. n : r[i] \in saved BY <1>4, <1>6
<1>8. saved \subseteq Effects BY DEF Effects
<1>9. r \in [1 .. n -> Effects] BY <1>4, <1>6, <1>8
<1>10. r \in Seq(Effects) BY <1>2, <1>9
<1>11. \A x : Has(r, x) => x \in saved BY <1>7 DEF Has
<1>12. \A x : Once(r, x) BY <1>4, <1>6 DEF Once, Analyze!IsInjective
<1> QED BY <1>10, <1>11, <1>12

\* Well-formed, with an exit code when it is done.
AnalyzeTyped ==
    /\ opt \in Analyze!Options /\ route \in {"none", "exact", "turbo", "parallel"}
    /\ nw \in 0 .. MaxWorkers /\ scans \in 0 .. MaxScans /\ found \subseteq Analyze!Levels
    /\ lost \in BOOLEAN /\ exit \in -1 .. 2
    /\ pc \in {"start", "resolve", "scan", "report", "turbo", "collect", "learn", "model",
               "pool", "rca", "html", "emit", "gate", "done"}
    /\ pc = "done" <=> exit # -1

\* Which pipeline the stages belong to, and what is not there before it was made.
AnalyzeStaged ==
    /\ pc = "start" => route = "none"
    /\ pc \in {"resolve", "scan", "report"} => route = "parallel"
    /\ pc \in {"collect", "learn", "model", "pool"} => route = "exact"
    /\ pc \in {"turbo", "rca", "html", "emit", "gate"} => route \in {"exact", "turbo"}
    /\ pc \in {"start", "resolve", "collect", "turbo", "learn", "model"}
           => found = {} /\ lost = FALSE
    /\ pc = "scan" => nw >= 1 /\ found = {}
    /\ pc = "report" /\ lost => nw = 1
    /\ pc = "done" /\ route = "parallel" /\ lost => exit = 1
    /\ exit \in {0, 2} /\ route # "parallel" => (exit = 2 <=> Analyze!AsBad)

\* What the trail says.
AnalyzeTrail ==
    /\ trail \in Seq(Effects)
    /\ pc \in {"start", "resolve", "scan", "report", "turbo", "collect", "learn"}
           => trail = <<>>
    /\ Once(trail, "learned") /\ Once(trail, "json")
    /\ pc \in {"model", "pool", "rca", "html", "emit"} => ~Has(trail, "json")
    /\ pc = "gate" /\ opt.json => Has(trail, "json")
    /\ opt.json /\ exit \in {0, 2} /\ found # {} => Has(trail, "json")
    /\ Has(trail, "learned") \/ Has(trail, "banked") => opt.learn /\ route = "exact"
    /\ route = "parallel" /\ pc = "done" /\ lost => ~Has(trail, "results")

AnalyzeIInv == AnalyzeTyped /\ AnalyzeStaged /\ AnalyzeTrail

\* Every option, stage and number stays what it can be.
LEMMA AnalyzeStaysTyped == AnalyzeIInv /\ Analyze!Next => AnalyzeTyped'
<1> SUFFICES ASSUME AnalyzeTyped, AnalyzeStaged, Analyze!Next PROVE AnalyzeTyped'
  BY DEF AnalyzeIInv
<1> USE CommandsAssumption DEF AnalyzeTyped, Analyze!Goto, Analyze!Exit, Analyze!Same
<1>1. CASE Analyze!RejectSource
  BY <1>1 DEF Analyze!RejectSource
<1>2. CASE Analyze!ChooseRoute
  BY <1>2 DEF Analyze!ChooseRoute
<1>3. CASE Analyze!ResolveModel
  BY <1>3 DEF Analyze!ResolveModel
<1>4. CASE Analyze!Scan
  <2>1. nw \in Nat /\ nw \div 2 \in Nat /\ nw \div 2 <= nw OBVIOUS
  <2>2. nw' \in 0 .. MaxWorkers BY <1>4, <2>1 DEF Analyze!Scan, Analyze!Fewer
  <2>3. scans' \in 0 .. MaxScans BY <1>4 DEF Analyze!Scan
  <2>4. UNCHANGED <<opt, route, exit>> BY <1>4 DEF Analyze!Scan
  <2>5. lost' \in BOOLEAN /\ found' \subseteq Analyze!Levels BY <1>4 DEF Analyze!Scan
  <2>6. pc = "scan" /\ pc' \in {"scan", "report"} BY <1>4 DEF Analyze!Scan
  <2> QED BY <2>2, <2>3, <2>4, <2>5, <2>6
<1>5. CASE Analyze!Report
  BY <1>5 DEF Analyze!Report, Analyze!Leaves
<1>6. CASE Analyze!Turbo
  BY <1>6 DEF Analyze!Turbo
<1>7. CASE Analyze!Collect
  BY <1>7 DEF Analyze!Collect
<1>8. CASE Analyze!Learn
  BY <1>8 DEF Analyze!Learn
<1>9. CASE Analyze!Judge
  BY <1>9 DEF Analyze!Judge
<1>10. CASE Analyze!Present
  BY <1>10 DEF Analyze!Present
<1>11. CASE Analyze!Rca
  BY <1>11 DEF Analyze!Rca, Analyze!Leaves
<1>12. CASE Analyze!Html
  BY <1>12 DEF Analyze!Html, Analyze!Leaves
<1>13. CASE Analyze!Emit
  BY <1>13 DEF Analyze!Emit, Analyze!Leaves
<1>14. CASE Analyze!Gate
  BY <1>14 DEF Analyze!Gate
<1>15. CASE Analyze!Uncaught
  BY <1>15 DEF Analyze!Uncaught
<1> QED
  BY <1>1, <1>2, <1>3, <1>4, <1>5, <1>6, <1>7, <1>8, <1>9, <1>10, <1>11, <1>12, <1>13,
     <1>14, <1>15
     DEF Analyze!Next

\* The stages follow each other as they should.
LEMMA AnalyzeStaysStaged == AnalyzeIInv /\ Analyze!Next => AnalyzeStaged'
<1> SUFFICES ASSUME AnalyzeTyped, AnalyzeStaged, Analyze!Next PROVE AnalyzeStaged'
  BY DEF AnalyzeIInv
<1> USE CommandsAssumption
    DEF AnalyzeTyped, AnalyzeStaged, Analyze!Goto, Analyze!Exit, Analyze!Same, Analyze!AsBad
<1>1. CASE Analyze!RejectSource
  BY <1>1 DEF Analyze!RejectSource
<1>2. CASE Analyze!ChooseRoute
  BY <1>2 DEF Analyze!ChooseRoute
<1>3. CASE Analyze!ResolveModel
  BY <1>3 DEF Analyze!ResolveModel
<1>4. CASE Analyze!Scan
  BY <1>4 DEF Analyze!Scan, Analyze!Fewer
<1>5. CASE Analyze!Report
  BY <1>5 DEF Analyze!Report, Analyze!Leaves
<1>6. CASE Analyze!Turbo
  BY <1>6 DEF Analyze!Turbo
<1>7. CASE Analyze!Collect
  BY <1>7 DEF Analyze!Collect
<1>8. CASE Analyze!Learn
  BY <1>8 DEF Analyze!Learn
<1>9. CASE Analyze!Judge
  BY <1>9 DEF Analyze!Judge
<1>10. CASE Analyze!Present
  BY <1>10 DEF Analyze!Present
<1>11. CASE Analyze!Rca
  BY <1>11 DEF Analyze!Rca, Analyze!Leaves
<1>12. CASE Analyze!Html
  BY <1>12 DEF Analyze!Html, Analyze!Leaves
<1>13. CASE Analyze!Emit
  BY <1>13 DEF Analyze!Emit, Analyze!Leaves
<1>14. CASE Analyze!Gate
  BY <1>14 DEF Analyze!Gate, Analyze!Trips
<1>15. CASE Analyze!Uncaught
  BY <1>15 DEF Analyze!Uncaught
<1> QED
  BY <1>1, <1>2, <1>3, <1>4, <1>5, <1>6, <1>7, <1>8, <1>9, <1>10, <1>11, <1>12, <1>13,
     <1>14, <1>15
     DEF Analyze!Next

\* An empty trail.
LEMMA NothingYet == \A x : ~Has(<<>>, x) /\ Once(<<>>, x)
BY DEF Has, Once

\* An effect that is left is the only new one.
LEMMA LeftOnce ==
    ASSUME AnalyzeTrail, NEW e \in Effects \ {"learned", "banked"},
           Analyze!Leaves(e)
    PROVE  /\ trail' \in Seq(Effects)
           /\ \A x : Has(trail', x) <=> Has(trail, x) \/ x = e
           /\ Once(trail', "learned")
           /\ e # "json" \/ ~Has(trail, "json") => Once(trail', "json")
<1>1. trail' = Append(trail, e) /\ e \in Effects BY DEF Analyze!Leaves, Effects
<1>2. trail \in Seq(Effects) /\ Once(trail, "learned") /\ Once(trail, "json")
  BY DEF AnalyzeTrail
<1>3. /\ trail' \in Seq(Effects)
      /\ \A x : Has(trail', x) <=> Has(trail, x) \/ x = e
      /\ \A x : x # e \/ ~Has(trail, x) => (Once(trail, x) => Once(trail', x))
  BY <1>1, <1>2, OneMore
<1> QED BY <1>2, <1>3

\* The trail stays as it should be.
LEMMA AnalyzeStaysTrail == AnalyzeIInv /\ Analyze!Next => AnalyzeTrail'
<1> SUFFICES ASSUME AnalyzeTyped, AnalyzeStaged, AnalyzeTrail, Analyze!Next
             PROVE  AnalyzeTrail'
  BY DEF AnalyzeIInv
<1> USE DEF Analyze!Goto, Analyze!Exit, Analyze!Same
<1>1. CASE Analyze!RejectSource
  BY <1>1 DEF Analyze!RejectSource, AnalyzeTrail, AnalyzeTyped, AnalyzeStaged
<1>2. CASE Analyze!ChooseRoute
  <2>1. /\ pc = "start" /\ UNCHANGED <<opt, exit, trail>> /\ exit = -1
        /\ pc' \in {"resolve", "turbo", "collect"}
    BY <1>2 DEF Analyze!ChooseRoute, AnalyzeTyped
  <2>2. trail' = <<>> BY <2>1 DEF AnalyzeTrail
  <2> QED BY <2>1, <2>2, NothingYet DEF AnalyzeTrail
<1>3. CASE Analyze!ResolveModel
  BY <1>3, NothingYet DEF Analyze!ResolveModel, AnalyzeTrail, AnalyzeTyped, AnalyzeStaged
<1>4. CASE Analyze!Scan
  BY <1>4, NothingYet DEF Analyze!Scan, AnalyzeTrail, AnalyzeTyped
<1>5. CASE Analyze!Report
  <2>1. /\ pc = "report" /\ pc' = "done" /\ UNCHANGED <<opt, route, found, lost>>
        /\ exit' = (IF lost THEN 1 ELSE 0)
    BY <1>5 DEF Analyze!Report
  <2>2. trail = <<>> /\ \A x : ~Has(trail, x) BY <2>1, NothingYet DEF AnalyzeTrail
  <2>3. CASE opt.json
    <3>1. Analyze!Leaves("json") BY <1>5, <2>3 DEF Analyze!Report
    <3>2. /\ trail' \in Seq(Effects) /\ Once(trail', "learned") /\ Once(trail', "json")
          /\ \A x : Has(trail', x) <=> x = "json"
      BY <2>2, <3>1, LeftOnce DEF Effects
    <3> QED BY <2>1, <3>2 DEF AnalyzeTrail
  <2>4. CASE ~opt.json /\ ~lost /\ Analyze!Leaves("results")
    <3>1. /\ trail' \in Seq(Effects) /\ Once(trail', "learned") /\ Once(trail', "json")
          /\ \A x : Has(trail', x) <=> x = "results"
      BY <2>2, <2>4, LeftOnce DEF Effects
    <3> QED BY <2>1, <2>4, <3>1 DEF AnalyzeTrail
  <2>5. CASE ~opt.json /\ UNCHANGED trail
    BY <2>1, <2>2, <2>5 DEF AnalyzeTrail
  <2> QED BY <1>5, <2>3, <2>4, <2>5 DEF Analyze!Report
<1>6. CASE Analyze!Turbo
  BY <1>6, NothingYet DEF Analyze!Turbo, AnalyzeTrail, AnalyzeTyped
<1>7. CASE Analyze!Collect
  <2>1. /\ pc = "collect" /\ pc' \in {"learn", "done"} /\ UNCHANGED <<opt, route, found>>
        /\ exit' \in {-1, 0, 1} /\ route = "exact" /\ found = {}
        /\ pc' = "done" \/ UNCHANGED trail
    BY <1>7 DEF Analyze!Collect, AnalyzeTyped, AnalyzeStaged
  <2>2. trail = <<>> /\ \A x : ~Has(trail, x) BY <2>1, NothingYet DEF AnalyzeTrail
  <2>3. CASE UNCHANGED trail BY <2>1, <2>2, <2>3 DEF AnalyzeTrail
  <2>4. CASE Analyze!Leaves("empty")
    <3>1. pc' = "done"
      BY <1>7, <2>4, <2>2, <2>1 DEF Analyze!Collect, Analyze!Leaves
    <3>2. /\ trail' \in Seq(Effects) /\ Once(trail', "learned") /\ Once(trail', "json")
          /\ \A x : Has(trail', x) <=> x = "empty"
      BY <2>2, <2>4, LeftOnce DEF Effects
    <3> QED BY <2>1, <3>1, <3>2 DEF AnalyzeTrail
  <2> QED BY <1>7, <2>3, <2>4 DEF Analyze!Collect
<1>8. CASE Analyze!Learn
  <2>1. PICK saved \in IF opt.learn THEN SUBSET {"learned", "banked"} ELSE {{}} :
           trail' = trail \o Analyze!SetToSeq(saved)
    BY <1>8 DEF Analyze!Learn
  <2>2. /\ pc = "learn" /\ pc' = "model" /\ UNCHANGED <<opt, route, exit, found>>
        /\ exit = -1 /\ route = "exact"
    BY <1>8 DEF Analyze!Learn, AnalyzeTyped, AnalyzeStaged
  <2>3. trail = <<>> BY <2>2 DEF AnalyzeTrail
  <2>4. saved \in SUBSET {"learned", "banked"} BY <2>1
  <2>5. /\ trail' \in Seq(Effects)
        /\ \A x : Has(trail', x) => x \in saved
        /\ \A x : Once(trail', x)
    BY <2>1, <2>3, <2>4, SavedOnce
  <2>6. opt.learn \/ saved = {} BY <2>1
  <2> QED BY <2>2, <2>4, <2>5, <2>6 DEF AnalyzeTrail
<1>9. CASE Analyze!Judge
  BY <1>9 DEF Analyze!Judge, AnalyzeTrail, AnalyzeTyped, AnalyzeStaged
<1>10. CASE Analyze!Present
  BY <1>10 DEF Analyze!Present, AnalyzeTrail, AnalyzeTyped, AnalyzeStaged
<1>11. CASE Analyze!Rca
  <2>1. /\ pc = "rca" /\ pc' \in {"html", "done"} /\ UNCHANGED <<opt, route, found>>
        /\ exit' \in {-1, 1} /\ route # "parallel"
    BY <1>11 DEF Analyze!Rca, AnalyzeTyped, AnalyzeStaged
  <2>2. CASE UNCHANGED trail BY <2>1, <2>2 DEF AnalyzeTrail
  <2>3. CASE Analyze!Leaves("rca") BY <2>1, <2>3, LeftOnce DEF AnalyzeTrail, Effects
  <2>4. CASE Analyze!Leaves("rca-failed") BY <2>1, <2>4, LeftOnce DEF AnalyzeTrail, Effects
  <2> QED BY <1>11, <2>2, <2>3, <2>4 DEF Analyze!Rca
<1>12. CASE Analyze!Html
  <2>1. /\ pc = "html" /\ pc' \in {"emit", "done"} /\ UNCHANGED <<opt, route, found>>
        /\ exit' \in {-1, 1} /\ route # "parallel"
    BY <1>12 DEF Analyze!Html, AnalyzeTyped, AnalyzeStaged
  <2>2. CASE UNCHANGED trail BY <2>1, <2>2 DEF AnalyzeTrail
  <2>3. CASE Analyze!Leaves("html") BY <2>1, <2>3, LeftOnce DEF AnalyzeTrail, Effects
  <2> QED BY <1>12, <2>2, <2>3 DEF Analyze!Html
<1>13. CASE Analyze!Emit
  <2>1. /\ pc = "emit" /\ pc' = "gate" /\ UNCHANGED <<opt, route, found, exit>>
        /\ exit = -1 /\ route # "parallel"
    BY <1>13 DEF Analyze!Emit, AnalyzeTyped, AnalyzeStaged
  <2>2. CASE ~opt.json /\ UNCHANGED trail BY <2>1, <2>2 DEF AnalyzeTrail
  <2>3. CASE Analyze!Leaves("json") BY <2>1, <2>3, LeftOnce DEF AnalyzeTrail, Effects
  <2> QED BY <1>13, <2>2, <2>3 DEF Analyze!Emit
<1>14. CASE Analyze!Gate
  BY <1>14 DEF Analyze!Gate, AnalyzeTrail, AnalyzeTyped, AnalyzeStaged
<1>15. CASE Analyze!Uncaught
  BY <1>15, NothingYet DEF Analyze!Uncaught, AnalyzeTrail, AnalyzeTyped, AnalyzeStaged
<1> QED
  BY <1>1, <1>2, <1>3, <1>4, <1>5, <1>6, <1>7, <1>8, <1>9, <1>10, <1>11, <1>12, <1>13,
     <1>14, <1>15 DEF Analyze!Next

\* analyze starts with its invariant, and so does one that is over.
LEMMA AnalyzeStarts == Analyze!Init \/ AnalyzeOver => AnalyzeIInv
<1>1. CASE Analyze!Init
  <2>1. AnalyzeTyped
    <3>1. opt \in Analyze!Options /\ route = "none" /\ pc = "start" /\ exit = -1
      BY <1>1 DEF Analyze!Init
    <3>2. nw = 0 /\ scans = 0 /\ found = {} BY <1>1 DEF Analyze!Init
    <3>3. lost \in BOOLEAN BY <1>1 DEF Analyze!Init
    <3> QED BY <3>1, <3>2, <3>3, CommandsAssumption DEF AnalyzeTyped
  <2>2. AnalyzeStaged BY <1>1 DEF Analyze!Init, AnalyzeStaged
  <2>3. AnalyzeTrail BY <1>1, NothingYet DEF Analyze!Init, AnalyzeTrail
  <2> QED BY <2>1, <2>2, <2>3 DEF AnalyzeIInv
<1>2. CASE AnalyzeOver
  <2>1. AnalyzeTyped
    <3>1. opt \in Analyze!Options BY <1>2 DEF AnalyzeOver, Analyze!Options
    <3>2. route = "none" /\ pc = "done" /\ exit = 1 /\ nw = 0 /\ scans = 0 /\ found = {}
      BY <1>2 DEF AnalyzeOver
    <3>3. lost \in BOOLEAN BY <1>2 DEF AnalyzeOver
    <3> QED BY <3>1, <3>2, <3>3, CommandsAssumption DEF AnalyzeTyped
  <2>2. AnalyzeStaged BY <1>2 DEF AnalyzeOver, AnalyzeStaged
  <2>3. AnalyzeTrail BY <1>2, NothingYet DEF AnalyzeOver, AnalyzeTrail
  <2> QED BY <2>1, <2>2, <2>3 DEF AnalyzeIInv
<1> QED BY <1>1, <1>2

\* Every step of analyze keeps it.
LEMMA AnalyzeSteps == AnalyzeIInv /\ Analyze!Next => AnalyzeIInv'
BY AnalyzeStaysTyped, AnalyzeStaysStaged, AnalyzeStaysTrail DEF AnalyzeIInv

\* The steps of other parts do, too.
LEMMA AnalyzeStays == AnalyzeIInv /\ UNCHANGED analyzeVars => AnalyzeIInv'
BY DEF AnalyzeIInv, AnalyzeTyped, AnalyzeStaged, AnalyzeTrail, analyzeVars, Has, Once,
       Analyze!AsBad

\* What the invariant of analyze says of it.
LEMMA AnalyzeKept ==
    AnalyzeIInv => /\ Analyze!TypeOK /\ Analyze!GateHonoured /\ Analyze!OneDocument
                   /\ Analyze!LearnsOnceIfAllowed /\ Analyze!LostScanFails
<1> SUFFICES ASSUME AnalyzeTyped, AnalyzeStaged, AnalyzeTrail
             PROVE  /\ Analyze!TypeOK /\ Analyze!GateHonoured /\ Analyze!OneDocument
                    /\ Analyze!LearnsOnceIfAllowed /\ Analyze!LostScanFails
  BY DEF AnalyzeIInv
<1>1. \A e : /\ Analyze!Times(e) \in Nat
             /\ Once(trail, e) => Analyze!Times(e) <= 1
             /\ Has(trail, e) <=> Analyze!Times(e) > 0
  BY TimesIs DEF AnalyzeTrail
<1>2. Analyze!TypeOK BY DEF AnalyzeTyped, Analyze!TypeOK
<1>3. Analyze!GateHonoured BY DEF AnalyzeStaged, Analyze!GateHonoured
<1>4. Analyze!OneDocument BY <1>1 DEF AnalyzeTrail, Analyze!OneDocument
<1>5. Analyze!LearnsOnceIfAllowed BY <1>1 DEF AnalyzeTrail, Analyze!LearnsOnceIfAllowed
<1>6. Analyze!LostScanFails
  BY <1>1 DEF AnalyzeTrail, AnalyzeStaged, Analyze!LostScanFails
<1> QED BY <1>2, <1>3, <1>4, <1>5, <1>6

-----------------------------------------------------------------------------
(* The other commands.                                                     *)

\* The numbers that are kept.
Counts(t) == /\ t \in [a : Nat, b : Nat, slid : Nat, raised : BOOLEAN]
             /\ t.b <= t.a /\ t.slid <= t.a
             /\ t.a \in 0 .. WatchedLines \cup 1 .. MaxSources

\* Well-formed; every step belongs to one command.
OtherTyped ==
    /\ cmd \in Other!Commands /\ flags \subseteq Other!Flags(cmd)
    /\ exitcode \in {-1, 0, 1, 2, 130} /\ (step = "done" <=> exitcode # -1)
    /\ Counts(tally) /\ held \subseteq Other!Removes(cmd)
    /\ step \in {"ask", "asking"} => cmd = "ask"
    /\ step \in {"benchmark", "measured"} => cmd = "benchmark"
    /\ step \in {"train", "saving"} => cmd = "train"
    /\ step \in {"bench", "timed"} => cmd = "bench"
    /\ step \in {"bench-suite", "report", "markdown", "gate"} => cmd = "bench-suite"
    /\ step \in {"bench-fetch", "fetch", "convert", "labels"} => cmd = "bench-fetch"
    /\ step \in {"bench-routineness", "ephemeral", "evaluate", "evaluated"}
           => cmd = "bench-routineness"
    /\ step \in {"watch", "flush", "watch-rca", "watch-html"} => cmd = "watch"
    /\ step \in {"analyze-multi", "rows"} => cmd = "analyze-multi"
    /\ step \in {"explore", "menu", "prompt"} => cmd = "explore"

Asked == cmd = "ask" /\ exitcode = 0 => "answer" \in said

Trained == cmd = "train" /\ exitcode = 0 => disk = {"model"}

Gated == cmd \in {"benchmark", "bench-suite"} /\ exitcode = 0 => ~("gate" \in flags /\ low)

\* The report is shown and the files are written, before the gate speaks.
SuiteIsShown == (IF "json" \in flags THEN "document" ELSE "table") \in said
SuiteReported ==
    cmd = "bench-suite" =>
        /\ step \in {"report", "markdown", "gate"} => SuiteIsShown
        /\ step \in {"markdown", "gate"} /\ "out" \in flags => "report" \in disk
        /\ step = "gate" /\ "md" \in flags => "markdown" \in disk
        /\ "gate" \in said \/ exitcode = 0
               => /\ step = "done" /\ SuiteIsShown
                  /\ "out" \in flags => "report" \in disk
                  /\ "md" \in flags => "markdown" \in disk

\* What a download has on disk, step by step.
Fetched ==
    cmd = "bench-fetch" =>
        /\ step = "bench-fetch" => disk = {}
        /\ step = "fetch" => disk = {"archive"}
        /\ step = "convert" => disk \subseteq {"archive", "sample"}
        /\ step = "labels" => "log" \in disk /\ disk \subseteq {"archive", "sample", "log"}
        /\ step = "done" => "archive" \notin disk \ held
        /\ exitcode = 0 => disk \ held = {"log", "labels"}
Ephemeral ==
    cmd = "bench-routineness" =>
        /\ step \in {"bench-routineness", "ephemeral", "evaluate", "evaluated", "done"}
        /\ step = "bench-routineness" => disk = {}
        /\ step = "ephemeral" => disk = {"tmp", "archive"} /\ "download" \in flags
        /\ step \in {"evaluate", "evaluated"} =>
              /\ disk \ held \subseteq {"tmp", "log", "labels"}
              /\ "download" \in flags \/ disk = {}
        /\ step = "done" => "archive" \notin disk \ held
        /\ step = "done" /\ "keep" \notin flags /\ broken # "ephemeral" => disk \subseteq held
NoArchive == cmd \notin {"bench-fetch", "bench-routineness"} => "archive" \notin disk

\* What watch has heard: judged, slid out, or, but for the held line, in the window.
Kept(t) == /\ t.a > 0 => t.b + t.slid < t.a
           /\ t.a = 0 => t.b = 0 /\ t.slid = 0
           /\ t.slid > 0 => t.a > Window
           /\ t.raised = FALSE
SeenThrough(t) == /\ t.raised \/ t.b + t.slid = t.a
                  /\ t.slid > 0 => t.a > Window
AskedModel == flags \cap {"rca", "rca-out"} # {} => said \cap {"answer", "rca-failed"} # {}
Watched ==
    cmd = "watch" =>
        /\ tally.a <= WatchedLines
        /\ step \in {"watch", "flush"} => Kept(tally)
        /\ step \in {"watch-rca", "watch-html"} \/ exitcode = 0
               => "summary" \in said /\ SeenThrough(tally)
        /\ step = "watch-html" \/ exitcode = 0 => AskedModel
        /\ exitcode = 1 /\ tally.a > 0 => "summary" \in said
        /\ exitcode = 0 /\ "html" \in flags => "html" \in disk

Survived ==
    cmd = "analyze-multi" =>
        /\ step = "analyze-multi" => tally.a = 0 /\ tally.b = 0 /\ tally.slid = 0
        /\ exitcode = 0 /\ "json" \notin flags => tally.b < tally.a
        /\ tally.b < tally.a /\ broken = "nowhere" => exitcode # 1

OtherIInv ==
    /\ OtherTyped /\ Asked /\ Trained /\ Gated /\ SuiteReported
    /\ Fetched /\ Ephemeral /\ NoArchive /\ Watched /\ Survived

\* A step is one of the command that runs, or Ctrl-C.
OwnStep ==
    \/ cmd = "ask" /\ Other!Ask
    \/ cmd = "benchmark" /\ Other!Benchmark
    \/ cmd = "train" /\ Other!Train
    \/ cmd = "bench" /\ Other!Bench
    \/ cmd = "bench-suite" /\ Other!BenchSuite
    \/ cmd = "bench-fetch" /\ (Other!FetchStart \/ Other!Fetch \/ Other!Convert)
    \/ /\ cmd = "bench-routineness"
       /\ Other!RoutinenessStart \/ Other!EphemeralFetch \/ Other!Evaluate
    \/ cmd = "watch" /\ Other!Watch
    \/ cmd = "analyze-multi" /\ (Other!MultiAnalyze \/ Other!MultiRows)
    \/ cmd = "explore" /\ Other!Explore

SameCommand == cmd' = cmd /\ flags' = flags /\ low' = low /\ held' = held

\* A step of a command that is not over leaves its name and flags alone, and is Ctrl-C
\* or one of that command's own.
LEMMA WhoseStep ==
    ASSUME OtherTyped, Other!Next
    PROVE  /\ SameCommand /\ step # "done" /\ exitcode = -1
           /\ Other!CtrlC \/ (OwnStep /\ broken' = broken)
<1>1. step # "done" => exitcode = -1 BY DEF OtherTyped
<1> USE DEF SameCommand
<1>2. CASE Other!Ask BY <1>2 DEF Other!Ask, Other!At, OtherTyped, OwnStep
<1>3. CASE Other!Benchmark BY <1>3 DEF Other!Benchmark, Other!At, OtherTyped, OwnStep
<1>4. CASE Other!Train BY <1>4 DEF Other!Train, Other!At, OtherTyped, OwnStep
<1>5. CASE Other!Bench BY <1>5 DEF Other!Bench, Other!At, OtherTyped, OwnStep
<1>6. CASE Other!BenchSuite BY <1>6 DEF Other!BenchSuite, Other!At, OtherTyped, OwnStep
<1>7. CASE Other!FetchStart BY <1>7 DEF Other!FetchStart, Other!At, OtherTyped, OwnStep
<1>8. CASE Other!Fetch BY <1>8 DEF Other!Fetch, Other!At, OtherTyped, OwnStep
<1>9. CASE Other!Convert BY <1>9 DEF Other!Convert, Other!At, OtherTyped, OwnStep
<1>10. CASE Other!RoutinenessStart
  BY <1>10 DEF Other!RoutinenessStart, Other!At, OtherTyped, OwnStep
<1>11. CASE Other!EphemeralFetch
  BY <1>11 DEF Other!EphemeralFetch, Other!At, OtherTyped, OwnStep
<1>12. CASE Other!Evaluate BY <1>12 DEF Other!Evaluate, Other!At, OtherTyped, OwnStep
<1>13. CASE Other!Watch
  BY <1>13 DEF Other!Watch, Other!WatchLine, Other!WatchEnds, Other!Flush, Other!WatchRca,
               Other!WatchHtml, Other!At, OtherTyped, OwnStep
<1>14. CASE Other!MultiAnalyze BY <1>14 DEF Other!MultiAnalyze, Other!At, OtherTyped, OwnStep
<1>15. CASE Other!MultiRows BY <1>15 DEF Other!MultiRows, Other!At, OtherTyped, OwnStep
<1>16. CASE Other!Explore BY <1>16 DEF Other!Explore, Other!At, OtherTyped, OwnStep
<1>17. CASE Other!CtrlC
  <2>1. /\ cmd' = cmd /\ flags' = flags /\ low' = low /\ held' = held
        /\ step # "done"
    BY <1>17 DEF Other!CtrlC
  <2> QED BY <1>17, <1>1, <2>1
<1> QED
  BY <1>2, <1>3, <1>4, <1>5, <1>6, <1>7, <1>8, <1>9, <1>10, <1>11, <1>12, <1>13, <1>14,
     <1>15, <1>16, <1>17, <1>1 DEF Other!Next

\* Ctrl-C ends the command, but for watch and the menu of explore.
Interrupted ==
    /\ tally' = tally /\ broken' = step /\ step # "done"
    /\ step \notin {"evaluate", "evaluated"} => said' = said
    /\ step = "watch" => step' = "flush" /\ exitcode' = exitcode /\ disk' = disk
    /\ step = "menu" => step' = "done" /\ exitcode' = 0 /\ disk' = disk
    /\ step \notin {"watch", "menu"} => step' = "done" /\ exitcode' = 130
    /\ step \in {"evaluate", "evaluated"} => disk' = Other!Swept
    /\ step \notin {"watch", "menu", "evaluate", "evaluated"} => disk' = Other!Unlinked

\* What Ctrl-C does to a command: watch still reports, the menu returns 0, others 130.
LEMMA CtrlCEnds == Other!CtrlC => Interrupted
<1> SUFFICES ASSUME Other!CtrlC PROVE Interrupted
  OBVIOUS
<1> USE DEF Interrupted, Other!CtrlC, Other!Goto, Other!Exit, Other!Tidied
<1>1. tally' = tally /\ broken' = step /\ step # "done" OBVIOUS
<1>2. CASE step = "watch" BY <1>1, <1>2
<1>3. CASE step = "menu" BY <1>1, <1>3
<1>4. CASE step \in {"evaluate", "evaluated"} BY <1>1, <1>4
<1>5. CASE step \notin {"watch", "menu", "evaluate", "evaluated"} BY <1>1, <1>5
<1> QED BY <1>2, <1>3, <1>4, <1>5

\* Each part of the invariant is about one command or two, and only their steps
\* can disturb it.
LEMMA AskedStays == OtherIInv /\ Other!Next => Asked'
<1> SUFFICES ASSUME OtherIInv, Other!Next, cmd = "ask" PROVE Asked'
  BY WhoseStep DEF Asked, OtherIInv, SameCommand
<1>1. OtherTyped /\ Asked BY DEF OtherIInv
<1>2. /\ SameCommand /\ step # "done" /\ exitcode = -1
      /\ Other!CtrlC \/ (OwnStep /\ broken' = broken)
  BY <1>1, WhoseStep
<1>3. CASE Other!CtrlC
  <2>1. Interrupted BY <1>3, CtrlCEnds
  <2>2. step \notin {"watch", "menu"} BY <1>1 DEF OtherTyped
  <2> QED BY <1>2, <1>1, <2>1, <2>2 DEF Interrupted, SameCommand, Asked
<1>4. CASE Other!Ask
  BY <1>1, <1>4, <1>2
     DEF SameCommand, Asked, OtherTyped, Other!Ask, Other!At, Other!Goto, Other!Exit,
         Other!Uncaught,
         Other!Quiet, Other!Says
<1> QED BY <1>1, <1>3, <1>4, <1>2 DEF OwnStep

\* train that returns 0 has written the model and nothing else.
LEMMA TrainedStays == OtherIInv /\ Other!Next => Trained'
<1> SUFFICES ASSUME OtherIInv, Other!Next, cmd = "train" PROVE Trained'
  BY WhoseStep DEF Trained, OtherIInv, SameCommand
<1>1. OtherTyped /\ Trained BY DEF OtherIInv
<1>2. /\ SameCommand /\ step # "done" /\ exitcode = -1
      /\ Other!CtrlC \/ (OwnStep /\ broken' = broken)
  BY <1>1, WhoseStep
<1>3. CASE Other!CtrlC
  <2>1. Interrupted BY <1>3, CtrlCEnds
  <2>2. step \notin {"watch", "menu"} BY <1>1 DEF OtherTyped
  <2> QED BY <1>2, <1>1, <2>1, <2>2 DEF Interrupted, SameCommand, Trained
<1>4. CASE Other!Train
  BY <1>1, <1>4, <1>2
     DEF SameCommand, Trained, OtherTyped, Other!Train, Other!At, Other!Goto, Other!Exit,
         Other!Uncaught, Other!Quiet, Other!Leaves
<1> QED BY <1>1, <1>3, <1>4, <1>2 DEF OwnStep

\* A suite below its gate does not return 0.
LEMMA GatedStays == OtherIInv /\ Other!Next => Gated'
<1> SUFFICES ASSUME OtherIInv, Other!Next, cmd \in {"benchmark", "bench-suite"} PROVE Gated'
  BY WhoseStep DEF Gated, OtherIInv, SameCommand
<1>1. OtherTyped /\ Gated BY DEF OtherIInv
<1>2. /\ SameCommand /\ step # "done" /\ exitcode = -1
      /\ Other!CtrlC \/ (OwnStep /\ broken' = broken)
  BY <1>1, WhoseStep
<1> USE DEF Other!At, Other!Goto, Other!Exit, Other!Uncaught, Other!Quiet, Other!Says
<1>3. CASE Other!CtrlC
  <2>1. Interrupted BY <1>3, CtrlCEnds
  <2>2. step \notin {"watch", "menu"} BY <1>1 DEF OtherTyped
  <2> QED BY <1>2, <1>1, <2>1, <2>2 DEF Interrupted, SameCommand, Gated
<1>4. CASE Other!Benchmark
  BY <1>1, <1>4, <1>2 DEF SameCommand, Gated, OtherTyped, Other!Benchmark, Other!Gate
<1>5. CASE Other!BenchSuite
  BY <1>1, <1>5, <1>2
     DEF SameCommand, Gated, OtherTyped, Other!BenchSuite, Other!Gate, Other!SuiteShown,
         Other!Written
<1> QED BY <1>1, <1>3, <1>4, <1>5, <1>2 DEF OwnStep

\* Commands that fetch nothing leave no archive.
LEMMA NoArchiveStays == OtherIInv /\ Other!Next => NoArchive'
<1> SUFFICES ASSUME OtherIInv, Other!Next, cmd \notin {"bench-fetch", "bench-routineness"}
             PROVE  NoArchive'
  BY WhoseStep DEF NoArchive, OtherIInv, SameCommand
<1>1. OtherTyped /\ NoArchive BY DEF OtherIInv
<1>2. /\ SameCommand /\ step # "done" /\ exitcode = -1
      /\ Other!CtrlC \/ (OwnStep /\ broken' = broken)
  BY <1>1, WhoseStep
<1> USE DEF Other!At, Other!Goto, Other!Exit, Other!Uncaught, Other!Quiet, Other!Says,
            Other!Leaves
<1>3. CASE Other!CtrlC
  <2>1. Interrupted BY <1>3, CtrlCEnds
  <2>2. step \notin {"evaluate", "evaluated"} BY <1>1 DEF OtherTyped
  <2> QED
    BY <1>2, <1>1, <2>1, <2>2
       DEF Interrupted, SameCommand, NoArchive, Other!Unlinked, Other!Without
<1>4. CASE Other!Ask BY <1>1, <1>4, <1>2 DEF SameCommand, NoArchive, Other!Ask
<1>5. CASE Other!Benchmark
  BY <1>1, <1>5, <1>2 DEF SameCommand, NoArchive, Other!Benchmark, Other!Gate
<1>6. CASE Other!Train BY <1>1, <1>6, <1>2 DEF SameCommand, NoArchive, Other!Train
<1>7. CASE Other!Bench BY <1>1, <1>7, <1>2 DEF SameCommand, NoArchive, Other!Bench
<1>8. CASE Other!BenchSuite
  BY <1>1, <1>8, <1>2
     DEF SameCommand, NoArchive, Other!BenchSuite, Other!Gate, Other!SuiteShown, Other!Written
<1>9. CASE Other!Watch
  <2>1. CASE Other!WatchLine
    BY <1>1, <1>2, <2>1 DEF SameCommand, NoArchive, Other!WatchLine
  <2>2. CASE Other!WatchEnds
    BY <1>1, <1>2, <2>2 DEF SameCommand, NoArchive, Other!WatchEnds
  <2>3. CASE Other!Flush
    BY <1>1, <1>2, <2>3 DEF SameCommand, NoArchive, Other!Flush
  <2>4. CASE Other!WatchRca
    BY <1>1, <1>2, <2>4 DEF SameCommand, NoArchive, Other!WatchRca
  <2>5. CASE Other!WatchHtml
    BY <1>1, <1>2, <2>5 DEF SameCommand, NoArchive, Other!WatchHtml
  <2> QED BY <1>9, <2>1, <2>2, <2>3, <2>4, <2>5 DEF Other!Watch
<1>10. CASE Other!MultiAnalyze \/ Other!MultiRows
  BY <1>1, <1>10, <1>2 DEF SameCommand, NoArchive, Other!MultiAnalyze, Other!MultiRows
<1>11. CASE Other!Explore BY <1>1, <1>11, <1>2 DEF SameCommand, NoArchive, Other!Explore
<1> QED
  BY <1>1, <1>3, <1>4, <1>5, <1>6, <1>7, <1>8, <1>9, <1>10, <1>11, <1>2 DEF OwnStep

\* What watch counts, whatever command runs.
Tallies == [a : Nat, b : Nat, slid : Nat, raised : BOOLEAN]

\* A rescore judges all that is left.
LEMMA RescoredIs ==
    ASSUME NEW t \in Tallies, t.b + t.slid <= t.a
    PROVE  /\ Other!Judged(t) \in Tallies
           /\ Other!Judged(t).a = t.a /\ Other!Judged(t).slid = t.slid
           /\ Other!Judged(t).raised = t.raised
           /\ Other!Judged(t).b + Other!Judged(t).slid = t.a
<1>1. t.a \in Nat /\ t.b \in Nat /\ t.slid \in Nat /\ t.raised \in BOOLEAN
  BY DEF Tallies
<1>2. t.a - t.slid \in Nat /\ (t.a - t.slid) + t.slid = t.a BY <1>1
<1>3. Other!Judged(t) = [t EXCEPT !.b = t.a - t.slid] BY DEF Other!Judged
<1>4. Other!Judged(t) = [a |-> t.a, b |-> t.a - t.slid, slid |-> t.slid, raised |-> t.raised]
  BY <1>3 DEF Tallies
<1> QED BY <1>1, <1>2, <1>4 DEF Tallies

\* The held line enters the window, and what is in there may be judged.
LEMMA HeardIs ==
    ASSUME NEW t \in Tallies, Kept(t),
           NEW u \in {Other!Fed(t), Other!Judged(Other!Fed(t))}
    PROVE  /\ u \in Tallies /\ u.a = t.a /\ u.b + u.slid <= u.a
           /\ u.slid > 0 => u.a > Window
           /\ u.raised = FALSE
<1> DEFINE f == Other!Fed(t)
<1>1. t.a \in Nat /\ t.b \in Nat /\ t.slid \in Nat /\ t.raised \in BOOLEAN
  BY DEF Tallies
<1>2. /\ f \in Tallies /\ f.a = t.a /\ f.b + f.slid <= f.a
      /\ f.slid > 0 => f.a > Window
      /\ f.raised = FALSE
  <2>1. CASE t.a = 0 \/ Other!Waiting(t) < Window
    <3>1. f = t BY <2>1 DEF Other!Fed
    <3> QED BY <1>1, <3>1 DEF Kept
  <2>2. CASE t.a # 0 /\ ~(Other!Waiting(t) < Window)
    <3>1. f = [a |-> t.a, b |-> t.b, slid |-> t.slid + 1, raised |-> t.raised]
      <4>1. f = [t EXCEPT !.slid = @ + 1] BY <2>2 DEF Other!Fed
      <4> QED BY <4>1 DEF Tallies
    <3>2. t.b + t.slid < t.a BY <1>1, <2>2 DEF Kept
    <3>3. t.a > Window
      BY <1>1, <2>2, CommandsAssumption DEF Other!Waiting
    <3> QED BY <1>1, <3>1, <3>2, <3>3 DEF Tallies, Kept
  <2> QED BY <2>1, <2>2
<1> HIDE DEF f
<1>3. /\ Other!Judged(f) \in Tallies
      /\ Other!Judged(f).a = f.a /\ Other!Judged(f).slid = f.slid
      /\ Other!Judged(f).raised = f.raised
      /\ Other!Judged(f).b + Other!Judged(f).slid = f.a
  BY <1>2, RescoredIs
<1>4. f.a \in Nat BY <1>2 DEF Tallies
<1>5. u = f \/ u = Other!Judged(f) BY DEF f
<1> QED BY <1>1, <1>2, <1>3, <1>4, <1>5

\* What watch counts after a line, and after the last one.
LEMMA LineCounts ==
    ASSUME OtherTyped, Watched, cmd = "watch", Other!WatchLine
    PROVE  Counts(tally') /\ tally'.a <= WatchedLines /\ Kept(tally')
<1>1. step = "watch" /\ tally.a < WatchedLines BY DEF Other!WatchLine, Other!At
<1>2. tally \in Tallies /\ Kept(tally)
  BY <1>1 DEF OtherTyped, Counts, Tallies, Watched
<1>3. PICK u \in {Other!Fed(tally), Other!Judged(Other!Fed(tally))} :
         tally' = [u EXCEPT !.a = @ + 1]
  BY DEF Other!WatchLine
<1>4. /\ u \in Tallies /\ u.a = tally.a /\ u.b + u.slid <= u.a
      /\ u.slid > 0 => u.a > Window
      /\ u.raised = FALSE
  BY <1>2, <1>3, HeardIs
<1>5. u.a \in Nat /\ u.b \in Nat /\ u.slid \in Nat BY <1>4 DEF Tallies
<1>6. tally' = [a |-> u.a + 1, b |-> u.b, slid |-> u.slid, raised |-> u.raised]
  BY <1>3, <1>4 DEF Tallies
<1>7. u.a + 1 \in 0 .. WatchedLines BY <1>1, <1>4, <1>5, CommandsAssumption
<1>8. Counts(tally')
  <2>1. u.b <= u.a + 1 /\ u.slid <= u.a + 1 /\ u.a + 1 \in Nat BY <1>4, <1>5
  <2>2. tally' \in [a : Nat, b : Nat, slid : Nat, raised : BOOLEAN]
    BY <1>4, <1>5, <1>6, <2>1
  <2> QED BY <1>6, <1>7, <2>1, <2>2 DEF Counts
<1>9. tally'.a <= WatchedLines BY <1>6, <1>7, CommandsAssumption
<1>10. Kept(tally') BY <1>4, <1>5, <1>6, CommandsAssumption DEF Kept
<1> QED BY <1>8, <1>9, <1>10

LEMMA FlushCounts ==
    ASSUME OtherTyped, Watched, cmd = "watch", Other!Flush
    PROVE  Counts(tally') /\ tally'.a = tally.a /\ SeenThrough(tally')
<1>1. step = "flush" BY DEF Other!Flush, Other!At
<1>2. tally \in Tallies /\ Kept(tally) /\ Counts(tally)
  BY <1>1 DEF OtherTyped, Counts, Tallies, Watched
<1>3. PICK u \in {Other!Fed(tally), Other!Judged(Other!Fed(tally))} :
         tally' = Other!Judged(u) \/ tally' = [u EXCEPT !.raised = TRUE]
  BY DEF Other!Flush
<1>4. /\ u \in Tallies /\ u.a = tally.a /\ u.b + u.slid <= u.a
      /\ u.slid > 0 => u.a > Window
  BY <1>2, <1>3, HeardIs
<1>5. u.a \in Nat /\ u.b \in Nat /\ u.slid \in Nat BY <1>4 DEF Tallies
<1>6. CASE tally' = Other!Judged(u)
  <2>1. /\ tally' \in Tallies /\ tally'.a = u.a /\ tally'.slid = u.slid
        /\ tally'.b + tally'.slid = u.a
    BY <1>4, <1>6, RescoredIs
  <2>2. tally'.b \in Nat /\ tally'.slid \in Nat BY <2>1 DEF Tallies
  <2>3. tally'.b <= tally'.a /\ tally'.slid <= tally'.a BY <1>5, <2>1, <2>2
  <2>4. Counts(tally') BY <1>2, <1>4, <2>1, <2>3 DEF Counts, Tallies
  <2>5. SeenThrough(tally') BY <1>4, <2>1 DEF SeenThrough
  <2> QED BY <1>4, <2>1, <2>4, <2>5
<1>7. CASE tally' = [u EXCEPT !.raised = TRUE]
  <2>1. tally' = [a |-> u.a, b |-> u.b, slid |-> u.slid, raised |-> TRUE]
    BY <1>4, <1>7 DEF Tallies
  <2>2. u.b <= u.a /\ u.slid <= u.a BY <1>4, <1>5
  <2>3. Counts(tally') BY <1>2, <1>4, <1>5, <2>1, <2>2 DEF Counts
  <2>4. SeenThrough(tally') BY <1>4, <2>1 DEF SeenThrough
  <2> QED BY <1>4, <2>1, <2>3, <2>4
<1> QED BY <1>3, <1>6, <1>7

\* watch that returns 0 has accounted for every line and written its reports.
LEMMA WatchedStays == OtherIInv /\ Other!Next => Watched'
<1> SUFFICES ASSUME OtherIInv, Other!Next, cmd = "watch" PROVE Watched'
  BY WhoseStep DEF Watched, OtherIInv, SameCommand
<1>1. OtherTyped /\ Watched BY DEF OtherIInv
<1>2. /\ SameCommand /\ step # "done" /\ exitcode = -1
      /\ Other!CtrlC \/ (OwnStep /\ broken' = broken)
  BY <1>1, WhoseStep
<1>3. cmd' = "watch" /\ flags' = flags /\ tally.a \in Nat /\ tally.a <= WatchedLines
  BY <1>1, <1>2 DEF SameCommand, OtherTyped, Counts, Watched
<1> USE DEF Other!At, Other!Goto, Other!Exit, Other!Uncaught, Other!Quiet, Other!Says,
            Other!Leaves
<1>4. CASE Other!CtrlC
  <2>1. Interrupted BY <1>4, CtrlCEnds
  <2>2. step \notin {"menu", "evaluate", "evaluated"} BY <1>1 DEF OtherTyped
  <2>3. CASE step = "watch"
    <3>1. step' = "flush" /\ exitcode' = -1 /\ tally' = tally BY <1>2, <2>1, <2>3 DEF Interrupted
    <3>2. Kept(tally) BY <1>1, <2>3 DEF Watched
    <3> QED BY <1>3, <3>1, <3>2 DEF Watched
  <2>4. CASE step # "watch"
    <3>1. step' = "done" /\ exitcode' = 130 /\ tally' = tally
      BY <2>1, <2>2, <2>4 DEF Interrupted
    <3> QED BY <1>3, <3>1 DEF Watched
  <2> QED BY <2>3, <2>4
<1>5. CASE Other!WatchLine
  <2>1. Kept(tally') /\ tally'.a <= WatchedLines BY <1>1, <1>5, LineCounts
  <2>2. step' = "watch" /\ exitcode' = -1 BY <1>2, <1>5 DEF Other!WatchLine
  <2> QED BY <1>3, <2>1, <2>2 DEF Watched
<1>6. CASE Other!WatchEnds
  <2>1. step = "watch" /\ tally' = tally BY <1>6 DEF Other!WatchEnds
  <2>2. Kept(tally) BY <1>1, <2>1 DEF Watched
  <2>3. \/ step' = "flush" /\ exitcode' = -1
        \/ step' = "done" /\ exitcode' = 1 /\ tally.a = 0
    BY <1>2, <1>6 DEF Other!WatchEnds
  <2> QED BY <1>3, <2>1, <2>2, <2>3 DEF Watched
<1>7. CASE Other!Flush
  <2>1. SeenThrough(tally') /\ tally'.a = tally.a BY <1>1, <1>7, FlushCounts
  <2>2. /\ step' = "watch-rca" /\ exitcode' = -1 /\ "summary" \in said'
    BY <1>2, <1>7 DEF Other!Flush
  <2> QED BY <1>3, <2>1, <2>2 DEF Watched
<1>8. CASE Other!WatchRca
  <2>1. step = "watch-rca" /\ tally' = tally /\ said \subseteq said'
    BY <1>8 DEF Other!WatchRca
  <2>2. "summary" \in said /\ SeenThrough(tally) BY <1>1, <2>1 DEF Watched
  <2>3. \/ step' = "watch-html" /\ exitcode' = -1 /\ AskedModel'
        \/ step' = "done" /\ exitcode' = 1
    BY <1>2, <1>3, <1>8 DEF Other!WatchRca, AskedModel
  <2> QED BY <1>3, <2>1, <2>2, <2>3 DEF Watched
<1>9. CASE Other!WatchHtml
  <2>1. step = "watch-html" /\ tally' = tally /\ said' = said
    BY <1>9 DEF Other!WatchHtml
  <2>2. "summary" \in said /\ SeenThrough(tally) /\ AskedModel BY <1>1, <2>1 DEF Watched
  <2>3. AskedModel' BY <1>3, <2>1, <2>2 DEF AskedModel
  <2>4. step' = "done" /\ (exitcode' = 1 \/ ("html" \in flags => "html" \in disk'))
    BY <1>9 DEF Other!WatchHtml
  <2> QED BY <1>3, <2>1, <2>2, <2>3, <2>4 DEF Watched
<1> QED
  BY <1>1, <1>2, <1>4, <1>5, <1>6, <1>7, <1>8, <1>9 DEF OwnStep, Other!Watch

\* analyze-multi returns 0 only if some source survived.
LEMMA SurvivedStays == OtherIInv /\ Other!Next => Survived'
<1> SUFFICES ASSUME OtherIInv, Other!Next, cmd = "analyze-multi" PROVE Survived'
  BY WhoseStep DEF Survived, OtherIInv, SameCommand
<1>1. OtherTyped /\ Survived BY DEF OtherIInv
<1>2. /\ SameCommand /\ step # "done" /\ exitcode = -1
      /\ Other!CtrlC \/ (OwnStep /\ broken' = broken)
  BY <1>1, WhoseStep
<1> USE CommandsAssumption
    DEF Other!At, Other!Goto, Other!Exit, Other!Uncaught, Other!Quiet
<1>3. CASE Other!CtrlC
  <2>1. Interrupted BY <1>3, CtrlCEnds
  <2>2. step \notin {"watch", "menu"} BY <1>1 DEF OtherTyped
  <2> QED BY <1>2, <1>1, <2>1, <2>2 DEF Interrupted, SameCommand, Survived
<1>4. CASE Other!MultiAnalyze
  <2>1. \/ step' = "done" /\ exitcode' = 2 /\ tally' = tally
        \/ step' \in {"done", "rows"} /\ exitcode' \in {-1, 0}
           /\ ("json" \in flags \/ exitcode' = -1)
    BY <1>2, <1>4 DEF Other!MultiAnalyze
  <2> QED BY <1>2, <2>1 DEF SameCommand, Survived
<1>5. CASE Other!MultiRows
  <2>1. tally' = tally /\ step' = "done" BY <1>5 DEF Other!MultiRows
  <2>2. tally.a \in Nat /\ tally.b \in Nat /\ tally.b <= tally.a
    BY <1>1 DEF OtherTyped, Counts
  <2>3. exitcode' = IF tally.b = tally.a THEN 1 ELSE 0
    BY <1>5 DEF Other!MultiRows, Other!Hopeless
  <2> QED BY <1>2, <2>1, <2>2, <2>3 DEF SameCommand, Survived
<1> QED BY <1>1, <1>3, <1>4, <1>5, <1>2 DEF OwnStep

\* bench-suite reports before its gate stops the build.
LEMMA SuiteReportedStays == OtherIInv /\ Other!Next => SuiteReported'
<1> SUFFICES ASSUME OtherIInv, Other!Next, cmd = "bench-suite" PROVE SuiteReported'
  BY WhoseStep DEF SuiteReported, OtherIInv, SameCommand
<1>1. OtherTyped /\ SuiteReported BY DEF OtherIInv
<1>2. /\ SameCommand /\ step # "done" /\ exitcode = -1
      /\ Other!CtrlC \/ (OwnStep /\ broken' = broken)
  BY <1>1, WhoseStep
<1>3. "gate" \notin said BY <1>2, <1>1 DEF SuiteReported
<1>4. flags' = flags /\ cmd' = cmd BY <1>2 DEF SameCommand
<1> USE DEF Other!At, Other!Goto, Other!Exit, Other!Uncaught, Other!Quiet, Other!Says,
            Other!Leaves
<1>5. CASE step' = "done" /\ exitcode' # 0 /\ said' = said
  BY <1>3, <1>5 DEF SuiteReported
<1>6. CASE Other!CtrlC
  <2>1. Interrupted BY <1>6, CtrlCEnds
  <2>2. step \notin {"watch", "menu", "evaluate", "evaluated"} BY <1>1 DEF OtherTyped
  <2>3. step' = "done" /\ exitcode' = 130 /\ said' = said BY <2>1, <2>2 DEF Interrupted
  <2> QED BY <1>5, <2>3
<1>7. CASE Other!At("bench-suite") /\ Other!SuiteShown
  <2>1. step' = "report" /\ exitcode' = -1 BY <1>2, <1>7 DEF Other!SuiteShown
  <2>2. said' = said \cup {IF "json" \in flags THEN "document" ELSE "table"}
    BY <1>7 DEF Other!SuiteShown
  <2>3. SuiteIsShown' /\ "gate" \notin said' BY <1>3, <1>4, <2>2 DEF SuiteIsShown
  <2> QED BY <2>1, <2>3 DEF SuiteReported
<1>8. CASE Other!At("report") /\ Other!Written("out", "report", "markdown")
  <2>1. SuiteIsShown BY <1>1, <1>8 DEF SuiteReported
  <2>2. said' = said /\ SuiteIsShown'
    BY <1>4, <1>8, <2>1 DEF SuiteIsShown, Other!Written
  <2>3. \/ step' = "done" /\ exitcode' # 0
        \/ /\ step' = "markdown" /\ exitcode' = -1
           /\ "out" \in flags => "report" \in disk'
    BY <1>2, <1>8 DEF Other!Written
  <2> QED BY <1>3, <1>4, <1>5, <2>2, <2>3 DEF SuiteReported
<1>9. CASE Other!At("markdown") /\ Other!Written("md", "markdown", "gate")
  <2>1. SuiteIsShown /\ ("out" \in flags => "report" \in disk)
    BY <1>1, <1>9 DEF SuiteReported
  <2>2. said' = said /\ SuiteIsShown'
    BY <1>4, <1>9, <2>1 DEF SuiteIsShown, Other!Written
  <2>3. \/ step' = "done" /\ exitcode' # 0
        \/ /\ step' = "gate" /\ exitcode' = -1 /\ disk \subseteq disk'
           /\ "md" \in flags => "markdown" \in disk'
    BY <1>2, <1>9 DEF Other!Written
  <2> QED BY <1>3, <1>4, <1>5, <2>1, <2>2, <2>3 DEF SuiteReported
<1>10. CASE Other!At("gate") /\ Other!Gate /\ Other!Says("gate")
  <2>1. SuiteIsShown /\ SuiteIsShown'
    BY <1>1, <1>4, <1>10 DEF SuiteReported, SuiteIsShown
  <2>2. step' = "done" /\ disk' = disk BY <1>10 DEF Other!Gate
  <2>3. /\ "out" \in flags => "report" \in disk
        /\ "md" \in flags => "markdown" \in disk
    BY <1>1, <1>10 DEF SuiteReported
  <2> QED BY <1>4, <2>1, <2>2, <2>3 DEF SuiteReported
<1> QED
  BY <1>2, <1>5, <1>6, <1>7, <1>8, <1>9, <1>10 DEF OwnStep, Other!BenchSuite

\* bench-fetch leaves the log and its labels when it returns 0, and never the archive.
LEMMA FetchedStays == OtherIInv /\ Other!Next => Fetched'
<1> SUFFICES ASSUME OtherIInv, Other!Next, cmd = "bench-fetch" PROVE Fetched'
  BY WhoseStep DEF Fetched, OtherIInv, SameCommand
<1>1. OtherTyped /\ Fetched BY DEF OtherIInv
<1>2. /\ SameCommand /\ step # "done" /\ exitcode = -1
      /\ Other!CtrlC \/ (OwnStep /\ broken' = broken)
  BY <1>1, WhoseStep
<1> USE DEF Other!At, Other!Goto, Other!Exit, Other!Uncaught, Other!Quiet, Other!Leaves,
            Other!Unlinked, Other!Without
<1>3. CASE Other!CtrlC
  <2>1. Interrupted BY <1>3, CtrlCEnds
  <2>2. step \notin {"watch", "menu", "evaluate", "evaluated"} BY <1>1 DEF OtherTyped
  <2> QED BY <1>2, <1>1, <2>1, <2>2 DEF Interrupted, SameCommand, Fetched
<1>4. CASE Other!FetchStart
  BY <1>2, <1>1, <1>4 DEF SameCommand, Fetched, Other!FetchStart
<1>5. CASE Other!Fetch
  BY <1>2, <1>1, <1>5 DEF SameCommand, Fetched, Other!Fetch
<1>6. CASE Other!Convert
  <2>1. held' = held /\ cmd' = cmd /\ held \subseteq {"archive", "sample"}
    BY <1>1, <1>2 DEF SameCommand, OtherTyped, Other!Removes
  <2>2. CASE step = "convert"
    <3>1. disk \subseteq {"archive", "sample"} BY <1>1, <2>2 DEF Fetched
    <3>2. \/ step' = "labels" /\ exitcode' = -1 /\ disk' = disk \cup {"log"}
          \/ step' = "done" /\ exitcode' = 1 /\ disk' = disk \ ({"archive"} \ held)
      BY <1>2, <1>6, <2>2 DEF Other!Convert
    <3>3. CASE step' = "labels" /\ exitcode' = -1 /\ disk' = disk \cup {"log"}
      <4>1. "log" \in disk' /\ disk' \subseteq {"archive", "sample", "log"} BY <3>1, <3>3
      <4> QED BY <2>1, <3>3, <4>1 DEF Fetched
    <3>4. CASE step' = "done" /\ exitcode' = 1 /\ disk' = disk \ ({"archive"} \ held)
      <4>1. "archive" \notin disk' \ held BY <3>4
      <4> QED BY <2>1, <3>4, <4>1 DEF Fetched
    <3> QED BY <3>2, <3>3, <3>4
  <2>3. CASE step = "labels"
    <3>1. "log" \in disk /\ disk \subseteq {"archive", "sample", "log"}
      BY <1>1, <2>3 DEF Fetched
    <3>2. step' = "done"
          /\ \/ exitcode' = 1 /\ disk' = disk \ ({"archive"} \ held)
             \/ /\ exitcode' = 0
                /\ disk' = (disk \ ({"archive", "sample"} \ held)) \cup {"labels"}
      BY <1>6, <2>3 DEF Other!Convert
    <3>3. CASE exitcode' = 1 /\ disk' = disk \ ({"archive"} \ held)
      <4>1. "archive" \notin disk' \ held BY <3>3
      <4> QED BY <2>1, <3>2, <3>3, <4>1 DEF Fetched
    <3>4. CASE /\ exitcode' = 0
               /\ disk' = (disk \ ({"archive", "sample"} \ held)) \cup {"labels"}
      <4>1. disk' \ held = {"log", "labels"} BY <2>1, <3>1, <3>4
      <4> QED BY <2>1, <3>2, <3>4, <4>1 DEF Fetched
    <3> QED BY <3>2, <3>3, <3>4
  <2> QED BY <1>6, <2>2, <2>3 DEF Other!Convert
<1> QED BY <1>1, <1>3, <1>4, <1>5, <1>6, <1>2 DEF OwnStep

\* bench-routineness --download cleans up whatever happens.
LEMMA EphemeralStays == OtherIInv /\ Other!Next => Ephemeral'
<1> SUFFICES ASSUME OtherIInv, Other!Next, cmd = "bench-routineness" PROVE Ephemeral'
  BY WhoseStep DEF Ephemeral, OtherIInv, SameCommand
<1>1. OtherTyped /\ Ephemeral BY DEF OtherIInv
<1>2. /\ SameCommand /\ step # "done" /\ exitcode = -1
      /\ Other!CtrlC \/ (OwnStep /\ broken' = broken)
  BY <1>1, WhoseStep
<1>3. held' = held /\ flags' = flags /\ cmd' = cmd BY <1>2 DEF SameCommand
<1>4. ASSUME step \in {"evaluate", "evaluated"}, disk' = Other!Swept, step' = "done"
      PROVE  Ephemeral'
  <2>1. /\ disk \ held \subseteq {"tmp", "log", "labels"}
        /\ "download" \in flags \/ disk = {}
    BY <1>1, <1>4 DEF Ephemeral
  <2>2. "archive" \notin disk' \ held
    BY <1>4, <2>1 DEF Other!Swept, Other!RemoveTmp, Other!Without
  <2>3. "keep" \notin flags => disk' \subseteq held
    BY <1>4, <2>1 DEF Other!Swept, Other!RemoveTmp, Other!Without
  <2> QED BY <1>3, <1>4, <2>2, <2>3 DEF Ephemeral
<1> USE DEF Other!At, Other!Goto, Other!Exit, Other!Uncaught, Other!Quiet, Other!Says,
            Other!Unlinked, Other!Without
<1>5. CASE Other!CtrlC
  <2>1. Interrupted BY <1>5, CtrlCEnds
  <2>2. step \notin {"watch", "menu"} BY <1>1 DEF OtherTyped
  <2>3. step' = "done" /\ broken' = step BY <2>1, <2>2 DEF Interrupted
  <2>4. CASE step \in {"evaluate", "evaluated"}
    <3>1. disk' = Other!Swept BY <2>1, <2>4 DEF Interrupted
    <3> QED BY <1>4, <2>3, <2>4, <3>1
  <2>5. CASE step \notin {"evaluate", "evaluated"}
    <3>1. disk' = disk \ ({"archive"} \ held) BY <2>1, <2>2, <2>5 DEF Interrupted
    <3>2. \/ step = "ephemeral"
          \/ step = "bench-routineness" /\ disk = {}
      BY <1>2, <1>1, <2>5 DEF Ephemeral
    <3> QED BY <1>3, <2>3, <3>1, <3>2 DEF Ephemeral
  <2> QED BY <2>4, <2>5
<1>6. CASE Other!RoutinenessStart
  BY <1>2, <1>1, <1>3, <1>6 DEF Ephemeral, Other!RoutinenessStart
<1>7. CASE Other!EphemeralFetch
  <2>1. step = "ephemeral" /\ disk = {"tmp", "archive"} /\ "download" \in flags
    BY <1>1, <1>7 DEF Ephemeral, Other!EphemeralFetch
  <2>2. CASE step' = "done" /\ disk' = Other!RemoveTmp
    <3>1. disk' = disk \ ({"tmp", "archive", "log", "labels"} \ held)
      BY <2>2 DEF Other!RemoveTmp
    <3>2. disk' \subseteq held BY <2>1, <3>1
    <3> QED BY <1>3, <2>2, <3>2 DEF Ephemeral
  <2>3. CASE /\ step' = "evaluate" /\ exitcode' = exitcode
             /\ disk' = Other!Unlinked \cup {"log", "labels"}
    <3>1. disk' = (disk \ ({"archive"} \ held)) \cup {"log", "labels"} BY <2>3
    <3>2. disk' \ held \subseteq {"tmp", "log", "labels"} BY <2>1, <3>1
    <3> QED BY <1>2, <1>3, <2>1, <2>3, <3>2 DEF Ephemeral
  <2> QED BY <1>7, <2>2, <2>3 DEF Other!EphemeralFetch
<1>8. CASE Other!Evaluate
  <2>1. step \in {"evaluate", "evaluated"} BY <1>8 DEF Other!Evaluate
  <2>2. \/ step' = "evaluated" /\ disk' = disk /\ exitcode' = exitcode
        \/ step' = "done" /\ disk' = Other!Swept
    BY <1>8 DEF Other!Evaluate, Other!Tidied
  <2>3. CASE step' = "evaluated" /\ disk' = disk /\ exitcode' = exitcode
    <3>1. /\ disk \ held \subseteq {"tmp", "log", "labels"}
          /\ "download" \in flags \/ disk = {}
      BY <1>1, <2>1 DEF Ephemeral
    <3> QED BY <1>2, <1>3, <2>3, <3>1 DEF Ephemeral
  <2> QED BY <1>4, <2>1, <2>2, <2>3
<1> QED BY <1>1, <1>5, <1>6, <1>7, <1>8, <1>2 DEF OwnStep

\* The command goes on with a step of next, or is done.
GoesOn(next) == \/ step' \in next /\ exitcode' = -1
                \/ step' = "done" /\ exitcode' \in {0, 1, 2, 130}

\* Every step of a command leads to a step of the same command, or ends it.
LEMMA OtherStaysTyped == OtherIInv /\ Other!Next => OtherTyped'
<1> SUFFICES ASSUME OtherTyped, Watched, Survived, Other!Next PROVE OtherTyped'
  BY DEF OtherIInv
<1>1. /\ SameCommand /\ step # "done" /\ exitcode = -1
      /\ Other!CtrlC \/ (OwnStep /\ broken' = broken)
  BY WhoseStep
<1>2. Counts(tally) BY DEF OtherTyped, Counts
<1>3. /\ cmd \in Other!Commands /\ flags \subseteq Other!Flags(cmd)
      /\ cmd' = cmd /\ flags' = flags /\ held' = held /\ held \subseteq Other!Removes(cmd)
  BY <1>1 DEF OtherTyped, SameCommand
<1> USE DEF Other!At, Other!Goto, Other!Exit, Other!Uncaught, Other!Quiet, Other!Says,
            Other!Leaves
<1>4. ASSUME cmd = "ask", Other!Ask
      PROVE  GoesOn({"ask", "asking"}) /\ Counts(tally')
  <2>1. GoesOn({"ask", "asking"}) BY <1>1, <1>4 DEF GoesOn, Other!Ask
  <2>2. tally' = tally BY <1>4 DEF Other!Ask
  <2> QED BY <1>2, <2>1, <2>2
<1>5. ASSUME cmd = "benchmark", Other!Benchmark
      PROVE  GoesOn({"benchmark", "measured"}) /\ Counts(tally')
  <2>1. GoesOn({"benchmark", "measured"}) BY <1>1, <1>5 DEF GoesOn, Other!Benchmark, Other!Gate
  <2>2. tally' = tally BY <1>5 DEF Other!Benchmark, Other!Gate
  <2> QED BY <1>2, <2>1, <2>2
<1>6. ASSUME cmd = "train", Other!Train
      PROVE  GoesOn({"train", "saving"}) /\ Counts(tally')
  <2>1. GoesOn({"train", "saving"}) BY <1>1, <1>6 DEF GoesOn, Other!Train
  <2>2. tally' = tally BY <1>6 DEF Other!Train
  <2> QED BY <1>2, <2>1, <2>2
<1>7. ASSUME cmd = "bench", Other!Bench
      PROVE  GoesOn({"bench", "timed"}) /\ Counts(tally')
  <2>1. GoesOn({"bench", "timed"}) BY <1>1, <1>7 DEF GoesOn, Other!Bench
  <2>2. tally' = tally BY <1>7 DEF Other!Bench
  <2> QED BY <1>2, <2>1, <2>2
<1>8. ASSUME cmd = "bench-suite", Other!BenchSuite
      PROVE  GoesOn({"bench-suite", "report", "markdown", "gate"}) /\ Counts(tally')
  <2>1. GoesOn({"bench-suite", "report", "markdown", "gate"})
    BY <1>1, <1>8
       DEF GoesOn, Other!BenchSuite, Other!SuiteShown, Other!Written, Other!Gate
  <2>2. tally' = tally
    BY <1>8 DEF Other!BenchSuite, Other!SuiteShown, Other!Written, Other!Gate
  <2> QED BY <1>2, <2>1, <2>2
<1>9. ASSUME cmd = "bench-fetch", Other!FetchStart \/ Other!Fetch \/ Other!Convert
      PROVE  GoesOn({"bench-fetch", "fetch", "convert", "labels"}) /\ Counts(tally')
  <2>1. GoesOn({"bench-fetch", "fetch", "convert", "labels"})
    BY <1>1, <1>9 DEF GoesOn, Other!FetchStart, Other!Fetch, Other!Convert
  <2>2. tally' = tally BY <1>9 DEF Other!FetchStart, Other!Fetch, Other!Convert
  <2> QED BY <1>2, <2>1, <2>2
<1>10. ASSUME cmd = "bench-routineness",
              Other!RoutinenessStart \/ Other!EphemeralFetch \/ Other!Evaluate
       PROVE  /\ GoesOn({"bench-routineness", "ephemeral", "evaluate", "evaluated"})
              /\ Counts(tally')
  <2>1. GoesOn({"bench-routineness", "ephemeral", "evaluate", "evaluated"})
    BY <1>1, <1>10 DEF GoesOn, Other!RoutinenessStart, Other!EphemeralFetch, Other!Evaluate
  <2>2. tally' = tally
    BY <1>10 DEF Other!RoutinenessStart, Other!EphemeralFetch, Other!Evaluate
  <2> QED BY <1>2, <2>1, <2>2
<1>11. ASSUME cmd = "explore", Other!Explore
      PROVE  GoesOn({"explore", "menu", "prompt"}) /\ Counts(tally')
  <2>1. GoesOn({"explore", "menu", "prompt"}) BY <1>1, <1>11 DEF GoesOn, Other!Explore
  <2>2. tally' = tally BY <1>11 DEF Other!Explore
  <2> QED BY <1>2, <2>1, <2>2
<1>12. ASSUME cmd = "analyze-multi", Other!MultiAnalyze \/ Other!MultiRows
      PROVE  GoesOn({"analyze-multi", "rows"}) /\ Counts(tally')
  <2>1. CASE Other!MultiAnalyze
    <3>1. GoesOn({"analyze-multi", "rows"})
      <4>1. \/ step' = "done" /\ exitcode' = 2
            \/ step' = "done" /\ exitcode' = 0
            \/ step' = "rows" /\ exitcode' = exitcode
        BY <2>1 DEF Other!MultiAnalyze
      <4> QED BY <1>1, <4>1 DEF GoesOn
    <3>2. \/ tally' = tally
          \/ \E n \in 1 .. MaxSources : \E f \in 0 .. n : tally' = Other!Counted(n, f)
      BY <2>1 DEF Other!MultiAnalyze
    <3>3. Counts(tally')
      <4>1. CASE tally' = tally BY <1>2, <4>1
      <4>2. ASSUME NEW n \in 1 .. MaxSources, NEW f \in 0 .. n,
                   tally' = Other!Counted(n, f)
            PROVE  Counts(tally')
        <5>1. /\ tally \in [a : Nat, b : Nat, slid : Nat, raised : BOOLEAN]
              /\ tally.slid = 0
          BY <1>2, <2>1, <1>12 DEF Counts, Other!MultiAnalyze, Survived
        <5>2. tally' = [a |-> n, b |-> f, slid |-> 0, raised |-> tally.raised]
          BY <4>2, <5>1 DEF Other!Counted
        <5>3. n \in Nat /\ f \in Nat /\ f <= n BY CommandsAssumption
        <5>4. tally'.a = n /\ tally'.b = f /\ tally'.slid = 0 BY <5>2
        <5>5. tally' \in [a : Nat, b : Nat, slid : Nat, raised : BOOLEAN]
          BY <5>1, <5>2, <5>3
        <5> QED BY <5>3, <5>4, <5>5 DEF Counts
      <4> QED BY <3>2, <4>1, <4>2
    <3> QED BY <3>1, <3>3
  <2>2. CASE Other!MultiRows BY <1>2, <2>2 DEF GoesOn, Other!MultiRows
  <2> QED BY <1>12, <2>1, <2>2
<1>13. ASSUME cmd = "watch", Other!Watch
      PROVE  GoesOn({"watch", "flush", "watch-rca", "watch-html"}) /\ Counts(tally')
  <2>1. CASE Other!WatchLine
    <3>1. step' = step /\ exitcode' = -1 /\ step = "watch" BY <1>1, <2>1 DEF Other!WatchLine
    <3>2. Counts(tally') BY <1>13, <2>1, LineCounts
    <3> QED BY <3>1, <3>2 DEF GoesOn
  <2>2. CASE Other!WatchEnds BY <1>1, <1>2, <2>2 DEF GoesOn, Other!WatchEnds
  <2>3. CASE Other!Flush
    <3>1. GoesOn({"watch", "flush", "watch-rca", "watch-html"})
      BY <1>1, <2>3 DEF GoesOn, Other!Flush
    <3>2. Counts(tally') BY <1>13, <2>3, FlushCounts
    <3> QED BY <3>1, <3>2
  <2>4. CASE Other!WatchRca BY <1>1, <1>2, <2>4 DEF GoesOn, Other!WatchRca
  <2>5. CASE Other!WatchHtml BY <1>1, <1>2, <2>5 DEF GoesOn, Other!WatchHtml
  <2> QED BY <1>13, <2>1, <2>2, <2>3, <2>4, <2>5 DEF Other!Watch
<1>14. ASSUME Other!CtrlC
      PROVE  /\ Counts(tally')
             /\ \/ GoesOn({})
                \/ cmd = "watch" /\ GoesOn({"flush"})
  <2>1. Interrupted BY <1>14, CtrlCEnds
  <2>2. step = "watch" => cmd = "watch" BY DEF OtherTyped
  <2>3. tally' = tally BY <2>1 DEF Interrupted
  <2>4. \/ step' = "done" /\ exitcode' \in {0, 130}
        \/ cmd = "watch" /\ step' = "flush" /\ exitcode' = -1
    BY <1>1, <2>1, <2>2 DEF Interrupted
  <2> QED BY <1>2, <2>3, <2>4 DEF GoesOn
<1>15. Counts(tally')
  BY <1>1, <1>4, <1>5, <1>6, <1>7, <1>8, <1>9, <1>10, <1>11, <1>12, <1>13, <1>14
     DEF OwnStep
<1> HIDE DEF Other!At, Other!Goto, Other!Exit, Other!Uncaught, Other!Quiet, Other!Says,
            Other!Leaves
<1>16. CASE cmd = "ask" /\ GoesOn({"ask", "asking"})
  <2>1. cmd' = "ask" BY <1>3, <1>16
  <2>2. /\ exitcode' \in {-1, 0, 1, 2, 130} /\ (step' = "done" <=> exitcode' # -1)
        /\ step' \in {"ask", "asking", "done"}
    BY <1>16 DEF GoesOn
  <2> QED BY <1>3, <1>15, <2>1, <2>2 DEF OtherTyped, Counts
<1>17. CASE cmd = "benchmark" /\ GoesOn({"benchmark", "measured"})
  <2>1. cmd' = "benchmark" BY <1>3, <1>17
  <2>2. /\ exitcode' \in {-1, 0, 1, 2, 130} /\ (step' = "done" <=> exitcode' # -1)
        /\ step' \in {"benchmark", "measured", "done"}
    BY <1>17 DEF GoesOn
  <2> QED BY <1>3, <1>15, <2>1, <2>2 DEF OtherTyped, Counts
<1>18. CASE cmd = "train" /\ GoesOn({"train", "saving"})
  <2>1. cmd' = "train" BY <1>3, <1>18
  <2>2. /\ exitcode' \in {-1, 0, 1, 2, 130} /\ (step' = "done" <=> exitcode' # -1)
        /\ step' \in {"train", "saving", "done"}
    BY <1>18 DEF GoesOn
  <2> QED BY <1>3, <1>15, <2>1, <2>2 DEF OtherTyped, Counts
<1>19. CASE cmd = "bench" /\ GoesOn({"bench", "timed"})
  <2>1. cmd' = "bench" BY <1>3, <1>19
  <2>2. /\ exitcode' \in {-1, 0, 1, 2, 130} /\ (step' = "done" <=> exitcode' # -1)
        /\ step' \in {"bench", "timed", "done"}
    BY <1>19 DEF GoesOn
  <2> QED BY <1>3, <1>15, <2>1, <2>2 DEF OtherTyped, Counts
<1>20. CASE cmd = "bench-suite" /\ GoesOn({"bench-suite", "report", "markdown", "gate"})
  <2>1. cmd' = "bench-suite" BY <1>3, <1>20
  <2>2. /\ exitcode' \in {-1, 0, 1, 2, 130} /\ (step' = "done" <=> exitcode' # -1)
        /\ step' \in {"bench-suite", "report", "markdown", "gate", "done"}
    BY <1>20 DEF GoesOn
  <2> QED BY <1>3, <1>15, <2>1, <2>2 DEF OtherTyped, Counts
<1>21. CASE cmd = "bench-fetch" /\ GoesOn({"bench-fetch", "fetch", "convert", "labels"})
  <2>1. cmd' = "bench-fetch" BY <1>3, <1>21
  <2>2. /\ exitcode' \in {-1, 0, 1, 2, 130} /\ (step' = "done" <=> exitcode' # -1)
        /\ step' \in {"bench-fetch", "fetch", "convert", "labels", "done"}
    BY <1>21 DEF GoesOn
  <2> QED BY <1>3, <1>15, <2>1, <2>2 DEF OtherTyped, Counts
<1>22. CASE /\ cmd = "bench-routineness"
            /\ GoesOn({"bench-routineness", "ephemeral", "evaluate", "evaluated"})
  <2>1. cmd' = "bench-routineness" BY <1>3, <1>22
  <2>2. /\ exitcode' \in {-1, 0, 1, 2, 130} /\ (step' = "done" <=> exitcode' # -1)
        /\ step' \in {"bench-routineness", "ephemeral", "evaluate", "evaluated", "done"}
    BY <1>22 DEF GoesOn
  <2> QED BY <1>3, <1>15, <2>1, <2>2 DEF OtherTyped, Counts
<1>23. CASE cmd = "explore" /\ GoesOn({"explore", "menu", "prompt"})
  <2>1. cmd' = "explore" BY <1>3, <1>23
  <2>2. /\ exitcode' \in {-1, 0, 1, 2, 130} /\ (step' = "done" <=> exitcode' # -1)
        /\ step' \in {"explore", "menu", "prompt", "done"}
    BY <1>23 DEF GoesOn
  <2> QED BY <1>3, <1>15, <2>1, <2>2 DEF OtherTyped, Counts
<1>24. CASE cmd = "analyze-multi" /\ GoesOn({"analyze-multi", "rows"})
  <2>1. cmd' = "analyze-multi" BY <1>3, <1>24
  <2>2. /\ exitcode' \in {-1, 0, 1, 2, 130} /\ (step' = "done" <=> exitcode' # -1)
        /\ step' \in {"analyze-multi", "rows", "done"}
    BY <1>24 DEF GoesOn
  <2> QED BY <1>3, <1>15, <2>1, <2>2 DEF OtherTyped, Counts
<1>25. CASE cmd = "watch" /\ GoesOn({"watch", "flush", "watch-rca", "watch-html"})
  <2>1. cmd' = "watch" BY <1>3, <1>25
  <2>2. /\ exitcode' \in {-1, 0, 1, 2, 130} /\ (step' = "done" <=> exitcode' # -1)
        /\ step' \in {"watch", "flush", "watch-rca", "watch-html", "done"}
    BY <1>25 DEF GoesOn
  <2> QED BY <1>3, <1>15, <2>1, <2>2 DEF OtherTyped, Counts
<1>26. CASE GoesOn({})
  <2>1. step' = "done" /\ exitcode' \in {0, 1, 2, 130} BY <1>26 DEF GoesOn
  <2> QED BY <1>3, <1>15, <2>1 DEF OtherTyped, Counts
<1>27. CASE cmd = "watch" /\ GoesOn({"flush"})
  BY <1>25, <1>27 DEF GoesOn
<1> QED
  BY <1>1, <1>4, <1>5, <1>6, <1>7, <1>8, <1>9, <1>10, <1>11, <1>12, <1>13, <1>14,
     <1>16, <1>17, <1>18, <1>19, <1>20, <1>21, <1>22, <1>23, <1>24, <1>25, <1>26, <1>27
     DEF OwnStep

\* A command starts with its invariant, and so does one that is over.
LEMMA OtherStarts == Other!Init \/ OtherOver => OtherIInv
<1>1. ASSUME Other!Init PROVE OtherIInv
  <2>1. /\ cmd \in Other!Commands /\ flags \in SUBSET Other!Flags(cmd) /\ step = cmd
        /\ disk = {} /\ said = {} /\ broken = "nowhere" /\ exitcode = -1
        /\ tally = [a |-> 0, b |-> 0, slid |-> 0, raised |-> FALSE]
        /\ held \in SUBSET Other!Removes(cmd)
    BY <1>1 DEF Other!Init
  <2>2. /\ tally \in [a : Nat, b : Nat, slid : Nat, raised : BOOLEAN]
        /\ tally.a = 0 /\ tally.b = 0 /\ tally.slid = 0 /\ tally.raised = FALSE
    BY <2>1
  <2>3. OtherTyped
    BY <2>1, <2>2, CommandsAssumption DEF OtherTyped, Other!Commands, Counts
  <2>4. Asked /\ Trained /\ Gated BY <2>1 DEF Asked, Trained, Gated
  <2>5. SuiteReported BY <2>1 DEF SuiteReported
  <2>6. Fetched BY <2>1 DEF Fetched
  <2>7. Ephemeral BY <2>1 DEF Ephemeral
  <2>8. NoArchive BY <2>1 DEF NoArchive
  <2>9. Watched BY <2>1, <2>2, CommandsAssumption DEF Watched, Kept, Other!Commands
  <2>10. Survived BY <2>1, <2>2 DEF Survived
  <2> QED BY <2>3, <2>4, <2>5, <2>6, <2>7, <2>8, <2>9, <2>10 DEF OtherIInv
<1>2. ASSUME OtherOver PROVE OtherIInv
  <2>1. /\ cmd = "ask" /\ flags = {} /\ step = "done" /\ disk = {} /\ exitcode = 1
        /\ held = {} /\ tally = [a |-> 0, b |-> 0, slid |-> 0, raised |-> FALSE]
    BY <1>2 DEF OtherOver
  <2>2. /\ tally \in [a : Nat, b : Nat, slid : Nat, raised : BOOLEAN]
        /\ tally.a = 0 /\ tally.b = 0 /\ tally.slid = 0
    BY <2>1
  <2>3. OtherTyped
    BY <2>1, <2>2, CommandsAssumption DEF OtherTyped, Other!Commands, Counts
  <2>4. Asked /\ Trained /\ Gated BY <2>1 DEF Asked, Trained, Gated
  <2>5. NoArchive BY <2>1 DEF NoArchive
  <2>6. SuiteReported /\ Fetched /\ Ephemeral /\ Watched /\ Survived
    BY <2>1 DEF SuiteReported, Fetched, Ephemeral, Watched, Survived
  <2> QED BY <2>3, <2>4, <2>5, <2>6 DEF OtherIInv
<1> QED BY <1>1, <1>2

\* Every step of a command keeps it.
LEMMA OtherSteps == OtherIInv /\ Other!Next => OtherIInv'
<1> SUFFICES ASSUME OtherIInv, Other!Next PROVE OtherIInv'
  OBVIOUS
<1>1. OtherTyped' BY OtherStaysTyped
<1>2. Asked' BY AskedStays
<1>3. Trained' BY TrainedStays
<1>4. Gated' BY GatedStays
<1>5. SuiteReported' BY SuiteReportedStays
<1>6. Fetched' BY FetchedStays
<1>7. Ephemeral' BY EphemeralStays
<1>8. NoArchive' BY NoArchiveStays
<1>9. Watched' BY WatchedStays
<1>10. Survived' BY SurvivedStays
<1> QED BY <1>1, <1>2, <1>3, <1>4, <1>5, <1>6, <1>7, <1>8, <1>9, <1>10 DEF OtherIInv

\* The steps of other parts do, too.
LEMMA OtherStays == OtherIInv /\ UNCHANGED otherVars => OtherIInv'
<1> SUFFICES ASSUME OtherIInv, UNCHANGED otherVars PROVE OtherIInv'
  OBVIOUS
<1>1. /\ cmd' = cmd /\ flags' = flags /\ step' = step /\ disk' = disk /\ said' = said
      /\ tally' = tally /\ broken' = broken /\ exitcode' = exitcode /\ held' = held
  BY DEF otherVars
<1>2. low' = low BY DEF otherVars
<1>3. OtherTyped' BY <1>1 DEF OtherIInv, OtherTyped, Counts
<1>4. Asked' /\ Trained' BY <1>1 DEF OtherIInv, Asked, Trained
<1>5. Gated' BY <1>1, <1>2 DEF OtherIInv, Gated
<1>6. SuiteReported' BY <1>1 DEF OtherIInv, SuiteReported, SuiteIsShown
<1>7. Fetched' /\ Ephemeral' BY <1>1 DEF OtherIInv, Fetched, Ephemeral
<1>8. NoArchive' /\ Watched' /\ Survived'
  BY <1>1 DEF OtherIInv, NoArchive, Watched, Survived, Kept, SeenThrough, AskedModel
<1> QED BY <1>3, <1>4, <1>5, <1>6, <1>7, <1>8 DEF OtherIInv

\* What the invariant of the commands says of them.
LEMMA OtherKept ==
    OtherIInv => /\ Other!TypeOK /\ Other!EphemeralLeavesNothing /\ Other!NoArchiveLeft
                 /\ Other!ZeroMeansDone /\ Other!GateStopsAfterReport
                 /\ Other!WatchKeepsResults /\ Other!SurvivorsSuffice
<1> SUFFICES ASSUME OtherIInv
             PROVE  /\ Other!TypeOK /\ Other!EphemeralLeavesNothing /\ Other!NoArchiveLeft
                    /\ Other!ZeroMeansDone /\ Other!GateStopsAfterReport
                    /\ Other!WatchKeepsResults /\ Other!SurvivorsSuffice
  OBVIOUS
<1>1. /\ OtherTyped /\ Asked /\ Trained /\ Gated /\ SuiteReported
      /\ Fetched /\ Ephemeral /\ NoArchive /\ Watched /\ Survived
  BY DEF OtherIInv
<1>2. Other!TypeOK
  <2>1. tally.b \in 0 .. tally.a /\ tally.slid \in 0 .. tally.a /\ tally.raised \in BOOLEAN
    BY <1>1 DEF OtherTyped, Counts
  <2> QED BY <1>1, <2>1 DEF OtherTyped, Counts, Other!TypeOK
<1>3. Other!EphemeralLeavesNothing BY <1>1 DEF Ephemeral, Other!EphemeralLeavesNothing
<1>4. Other!NoArchiveLeft
  BY <1>1 DEF Fetched, Ephemeral, NoArchive, Other!NoArchiveLeft
<1>5. Other!ZeroMeansDone
  <2> SUFFICES ASSUME exitcode = 0 PROVE Other!ZeroMeansDone
    BY DEF Other!ZeroMeansDone
  <2>1. ASSUME cmd = "bench-suite", NEW f \in flags \ {"json", "gate"}
        PROVE  (IF f = "md" THEN "markdown" ELSE "report") \in disk
    <3>1. flags \subseteq {"json", "out", "md", "gate"}
      BY <1>1, <2>1 DEF OtherTyped, Other!Flags
    <3>2. /\ "out" \in flags => "report" \in disk
          /\ "md" \in flags => "markdown" \in disk
      BY <1>1, <2>1 DEF SuiteReported
    <3> QED BY <2>1, <3>1, <3>2
  <2>2. cmd = "ask" => "answer" \in said BY <1>1 DEF Asked
  <2>3. cmd = "train" => disk = {"model"} BY <1>1 DEF Trained
  <2>4. cmd = "bench-fetch" => disk \ held = {"log", "labels"} BY <1>1 DEF Fetched
  <2>5. cmd \in {"benchmark", "bench-suite"} => ~("gate" \in flags /\ low)
    BY <1>1 DEF Gated
  <2>6. cmd = "analyze-multi" /\ "json" \notin flags => tally.b < tally.a
    BY <1>1 DEF Survived
  <2> QED BY <2>1, <2>2, <2>3, <2>4, <2>5, <2>6 DEF Other!ZeroMeansDone
<1>6. Other!GateStopsAfterReport
  BY <1>1 DEF SuiteReported, SuiteIsShown, Other!GateStopsAfterReport
<1>7. Other!WatchKeepsResults BY <1>1 DEF Watched, SeenThrough, AskedModel, Other!WatchKeepsResults
<1>8. Other!SurvivorsSuffice BY <1>1 DEF Survived, Other!SurvivorsSuffice
<1> QED BY <1>2, <1>3, <1>4, <1>5, <1>6, <1>7, <1>8

-----------------------------------------------------------------------------
(* The pool of entries.                                                    *)

PoolTyped ==
    /\ left \subseteq Entry /\ sentinels \in 0 .. Cardinality(Worker)
    /\ producer \in {"runs", "ended", "raised"}
    /\ queue \in Seq(Entry \cup {Sentinel}) /\ Len(queue) <= QueueSize
    /\ worker \in [Worker -> {"idle", "ended", "raised"} \cup Entry]
    /\ processed \subseteq Entry /\ skipped \subseteq Entry

\* An entry is in one place: with the source, in the queue, with a worker, or in
\* one of the two counts.
Waiting(e) == \E i \in DOMAIN queue : queue[i] = e
InWork(e) == \E w \in Worker : worker[w] = e
Somewhere == \A e \in Entry : \/ e \in left \/ Waiting(e) \/ InWork(e)
                              \/ e \in processed \/ e \in skipped
Apart ==
    /\ processed \cap skipped = {} /\ left \cap (processed \cup skipped) = {}
    /\ \A i \in DOMAIN queue : queue[i] \notin left \cup processed \cup skipped
    /\ \A w \in Worker : worker[w] \notin left \cup processed \cup skipped
    /\ \A i \in DOMAIN queue, w \in Worker : queue[i] # worker[w]
    /\ \A i, j \in DOMAIN queue : queue[i] = queue[j] /\ queue[i] # Sentinel => i = j
    /\ \A v, w \in Worker : worker[v] = worker[w] /\ worker[v] \in Entry => v = w

\* The sentinels come after the entries, one for each worker that ends.
InOrder ==
    /\ left # {} => /\ producer # "ended"
                    /\ \A i \in DOMAIN queue : queue[i] # Sentinel
                    /\ \A w \in Worker : worker[w] # "ended"
    /\ \A i, j \in DOMAIN queue : i < j /\ queue[i] = Sentinel => queue[j] = Sentinel
    /\ (\E w \in Worker : worker[w] = "ended")
           => \A i \in DOMAIN queue : queue[i] = Sentinel
OneForEach ==
    /\ sentinels = Cardinality(Places(queue, {Sentinel}))
                   + Cardinality(Places(worker, {"ended"}))
    /\ producer = "ended" => sentinels = Cardinality(Worker)
    /\ outcome = "returned" => /\ producer = "ended"
                               /\ \A w \in Worker : worker[w] = "ended"

PoolIInv == PoolTyped /\ Somewhere /\ Apart /\ InOrder /\ OneForEach

\* What the actions of the pool do, position by position.
LEMMA PutIs ==
    ASSUME PoolTyped, NEW x \in Entry \cup {Sentinel}, Pool!Put(x)
    PROVE  /\ queue' \in Seq(Entry \cup {Sentinel}) /\ Len(queue') <= QueueSize
           /\ Len(queue) \in Nat /\ DOMAIN queue = 1 .. Len(queue)
           /\ Len(queue') = Len(queue) + 1 /\ DOMAIN queue' = 1 .. Len(queue) + 1
           /\ \A i \in 1 .. Len(queue) : queue'[i] = queue[i]
           /\ queue'[Len(queue) + 1] = x
           /\ Cardinality(Places(queue', {Sentinel})) =
                  Cardinality(Places(queue, {Sentinel})) + Unit(x = Sentinel)
<1>1. queue \in Seq(Entry \cup {Sentinel}) /\ QueueSize \in Nat
  BY CommandsAssumption DEF PoolTyped
<1>2. Len(queue) < QueueSize /\ queue' = Append(queue, x) BY DEF Pool!Put
<1>3. /\ queue' \in Seq(Entry \cup {Sentinel}) /\ Len(queue) \in Nat
      /\ Len(queue') = Len(queue) + 1 /\ queue'[Len(queue) + 1] = x
      /\ \A i \in 1 .. Len(queue) : queue'[i] = queue[i]
  BY <1>1, <1>2
<1>4. DOMAIN queue = 1 .. Len(queue) /\ DOMAIN queue' = 1 .. Len(queue) + 1
  BY <1>1, <1>3
<1>5. Cardinality(Places(queue', {Sentinel})) =
          Cardinality(Places(queue, {Sentinel})) + Unit(queue'[Len(queue')] \in {Sentinel})
  BY <1>1, <1>3, PlacesAppend
<1>6. Unit(queue'[Len(queue')] \in {Sentinel}) = Unit(x = Sentinel) BY <1>3 DEF Unit
<1> QED BY <1>1, <1>2, <1>3, <1>4, <1>5, <1>6

\* How the number of ended workers changes with one of them.
LEMMA EndedAre ==
    ASSUME NEW w \in Worker, NEW f, DOMAIN f = Worker, NEW g, DOMAIN g = Worker,
           \A v \in Worker : v # w => g[v] = f[v]
    PROVE  /\ Cardinality(Places(f, {"ended"})) \in Nat
           /\ Cardinality(Places(g, {"ended"})) =
                  Cardinality(Places(f, {"ended"}))
                  - Unit(f[w] = "ended") + Unit(g[w] = "ended")
<1> DEFINE T == {"ended"}
<1>1. /\ Unit(f[w] \in T) = Unit(f[w] = "ended")
      /\ Unit(g[w] \in T) = Unit(g[w] = "ended")
  BY DEF Unit
<1> HIDE DEF T
<1>2. IsFiniteSet(Worker) BY CommandsAssumption
<1>3. /\ Cardinality(Places(f, T)) \in Nat
      /\ Cardinality(Places(g, T)) =
             Cardinality(Places(f, T)) - Unit(f[w] \in T) + Unit(g[w] \in T)
  BY <1>2, PlacesExcept
<1> QED BY <1>1, <1>3 DEF T

\* One worker is somewhere else.
LEMMA WorkerIs ==
    ASSUME PoolTyped, NEW w \in Worker, NEW x,
           x \in {"idle", "ended", "raised"} \cup Entry,
           worker' = [worker EXCEPT ![w] = x]
    PROVE  /\ worker' \in [Worker -> {"idle", "ended", "raised"} \cup Entry]
           /\ worker'[w] = x /\ \A v \in Worker : v # w => worker'[v] = worker[v]
           /\ Cardinality(Places(worker, {"ended"})) \in Nat
           /\ Cardinality(Places(worker', {"ended"})) =
                  Cardinality(Places(worker, {"ended"}))
                  - Unit(worker[w] = "ended") + Unit(x = "ended")
<1>1. worker \in [Worker -> {"idle", "ended", "raised"} \cup Entry] BY DEF PoolTyped
<1>2. /\ worker' \in [Worker -> {"idle", "ended", "raised"} \cup Entry]
      /\ worker'[w] = x /\ \A v \in Worker : v # w => worker'[v] = worker[v]
  BY <1>1
<1>3. DOMAIN worker = Worker /\ DOMAIN worker' = Worker BY <1>1, <1>2
<1>4. /\ Cardinality(Places(worker, {"ended"})) \in Nat
      /\ Cardinality(Places(worker', {"ended"})) =
             Cardinality(Places(worker, {"ended"}))
             - Unit(worker[w] = "ended") + Unit(worker'[w] = "ended")
  <2> DEFINE Same(f, g) == /\ DOMAIN f = Worker /\ DOMAIN g = Worker
                            /\ \A v \in Worker : v # w => g[v] = f[v]
             Count(f, g) == /\ Cardinality(Places(f, {"ended"})) \in Nat
                            /\ Cardinality(Places(g, {"ended"})) =
                                   Cardinality(Places(f, {"ended"}))
                                   - Unit(f[w] = "ended") + Unit(g[w] = "ended")
  <2>1. ASSUME NEW f, NEW g, Same(f, g) PROVE Count(f, g)
    BY <2>1, EndedAre
  <2>2. Same(worker, worker') BY <1>2, <1>3
  <2> HIDE DEF Same, Count
  <2>3. Count(worker, worker') BY <2>1, <2>2
  <2> QED BY <2>3 DEF Count
<1> QED BY <1>2, <1>4

\* A worker takes the oldest of what waits.
LEMMA TakeIs ==
    ASSUME PoolTyped, NEW w \in Worker, Pool!Take(w)
    PROVE  /\ queue' \in Seq(Entry \cup {Sentinel}) /\ Len(queue') <= QueueSize
           /\ Len(queue) \in Nat /\ Len(queue) >= 1 /\ DOMAIN queue = 1 .. Len(queue)
           /\ DOMAIN queue' = 1 .. Len(queue) - 1
           /\ \A i \in DOMAIN queue' : i + 1 \in DOMAIN queue /\ queue'[i] = queue[i + 1]
           /\ Cardinality(Places(queue', {Sentinel})) =
                  Cardinality(Places(queue, {Sentinel})) - Unit(queue[1] = Sentinel)
           /\ worker[w] = "idle" /\ 1 \in DOMAIN queue
           /\ \/ queue[1] = Sentinel /\ worker' = [worker EXCEPT ![w] = "ended"]
              \/ queue[1] \in Entry /\ worker' = [worker EXCEPT ![w] = queue[1]]
<1>1. queue \in Seq(Entry \cup {Sentinel}) /\ QueueSize \in Nat /\ Len(queue) <= QueueSize
  BY CommandsAssumption DEF PoolTyped
<1>2. queue # <<>> /\ queue' = Tail(queue) /\ worker[w] = "idle" BY DEF Pool!Take
<1>3. /\ queue' \in Seq(Entry \cup {Sentinel}) /\ Len(queue') = Len(queue) - 1
      /\ Head(queue) = queue[1] /\ 1 \in DOMAIN queue
      /\ queue[1] \in Entry \cup {Sentinel}
      /\ \A j \in 1 .. Len(queue') : queue'[j] = queue[j + 1]
      /\ Cardinality(Places(queue', {Sentinel})) =
             Cardinality(Places(queue, {Sentinel})) - Unit(Head(queue) \in {Sentinel})
  BY <1>1, <1>2, PlacesTail
<1>4. Unit(Head(queue) \in {Sentinel}) = Unit(queue[1] = Sentinel) BY <1>3 DEF Unit
<1>5. /\ Len(queue) \in Nat /\ DOMAIN queue = 1 .. Len(queue) /\ Len(queue') \in Nat
      /\ DOMAIN queue' = 1 .. Len(queue')
  BY <1>1, <1>3
<1>6. /\ Len(queue) >= 1 /\ DOMAIN queue' = 1 .. Len(queue) - 1
      /\ Len(queue') <= QueueSize
      /\ \A i \in DOMAIN queue' : i + 1 \in DOMAIN queue /\ queue'[i] = queue[i + 1]
  BY <1>1, <1>3, <1>5
<1>7. \/ queue[1] = Sentinel /\ worker' = [worker EXCEPT ![w] = "ended"]
      \/ queue[1] \in Entry /\ worker' = [worker EXCEPT ![w] = queue[1]]
  BY <1>3 DEF Pool!Take
<1> QED BY <1>2, <1>3, <1>4, <1>5, <1>6, <1>7

\* Which of the actions, and what it leaves alone.
LEMMA PoolSteps ==
    PoolIInv /\ Pool!Next => PoolIInv'
<1> SUFFICES ASSUME PoolIInv, Pool!Next PROVE PoolIInv'
  OBVIOUS
<1> USE DEF PoolIInv
<1>1. /\ Sentinel \notin Entry /\ "idle" \notin Entry /\ "ended" \notin Entry
      /\ "raised" \notin Entry
  BY CommandsAssumption
<1>2. IsFiniteSet(Worker) /\ Cardinality(Worker) \in Nat
  BY CommandsAssumption, FS_CardinalityType
<1>3. CASE Pool!ProduceEntry
  <2>1. PICK e \in left : Pool!Put(e) /\ left' = left \ {e} BY <1>3 DEF Pool!ProduceEntry
  <2>2. e \in Entry /\ e # Sentinel BY <1>1, <2>1 DEF PoolTyped
  <2>3. UNCHANGED <<sentinels, producer, worker, processed, skipped, outcome>>
    BY <1>3 DEF Pool!ProduceEntry
  <2> DEFINE n == Len(queue)
  <2>4. /\ queue' \in Seq(Entry \cup {Sentinel}) /\ Len(queue') <= QueueSize
        /\ n \in Nat /\ DOMAIN queue = 1 .. n /\ DOMAIN queue' = 1 .. n + 1
        /\ \A i \in 1 .. n : queue'[i] = queue[i]
        /\ queue'[n + 1] = e
        /\ Cardinality(Places(queue', {Sentinel})) =
               Cardinality(Places(queue, {Sentinel})) + Unit(e = Sentinel)
    BY <2>1, <2>2, PutIs
  <2> HIDE DEF n
  <2>5. DOMAIN queue' = DOMAIN queue \cup {n + 1} /\ n + 1 \notin DOMAIN queue
    BY <2>4
  <2>6. \A i \in DOMAIN queue : queue'[i] = queue[i] BY <2>4
  <2>7. PoolTyped' BY <2>1, <2>3, <2>4 DEF PoolTyped
  <2>8. Somewhere' BY <2>1, <2>3, <2>4, <2>5, <2>6 DEF Somewhere, Waiting, InWork
  <2>9. Apart' BY <2>1, <2>2, <2>3, <2>4, <2>5, <2>6 DEF Apart
  <2>10. InOrder'
    <3>1. /\ \A i \in DOMAIN queue : queue[i] # Sentinel
          /\ \A w \in Worker : worker[w] # "ended"
          /\ producer # "ended"
      BY <2>1 DEF InOrder
    <3>2. \A i \in DOMAIN queue' : queue'[i] # Sentinel BY <2>2, <2>4, <2>5, <2>6, <3>1
    <3> QED BY <2>3, <3>1, <3>2 DEF InOrder
  <2>11. OneForEach'
    <3>1. Unit(e = Sentinel) = 0 BY <2>2 DEF Unit
    <3>2. Cardinality(Places(queue, {Sentinel})) \in Nat BY PlacesFinite DEF PoolTyped
    <3> QED BY <2>3, <2>4, <3>1, <3>2 DEF OneForEach
  <2> QED BY <2>7, <2>8, <2>9, <2>10, <2>11
<1>4. CASE Pool!SourceRaises
  <2>1. /\ left # {} /\ producer' = "raised"
        /\ UNCHANGED <<left, sentinels, queue, worker, processed, skipped, outcome>>
    BY <1>4 DEF Pool!SourceRaises
  <2>2. producer # "ended" BY <2>1 DEF InOrder
  <2>3. PoolTyped' BY <2>1 DEF PoolTyped
  <2>4. Somewhere' /\ Apart' BY <2>1 DEF Somewhere, Waiting, InWork, Apart
  <2>5. InOrder' BY <2>1 DEF InOrder
  <2>6. OneForEach' BY <2>1, <2>2 DEF OneForEach
  <2> QED BY <2>3, <2>4, <2>5, <2>6
<1>5. CASE Pool!ProduceSentinel
  <2>1. /\ left = {} /\ left' = {}
        /\ UNCHANGED <<worker, processed, skipped, outcome>>
    BY <1>5 DEF Pool!ProduceSentinel
  <2>2. CASE sentinels < Cardinality(Worker)
    <3>1. /\ Pool!Put(Sentinel) /\ sentinels' = sentinels + 1 /\ producer' = producer
          /\ producer # "ended"
      BY <1>5, <2>2 DEF Pool!ProduceSentinel, Pool!SentinelCount, Pool!Cardinality, Cardinality
    <3> DEFINE n == Len(queue)
    <3>2. /\ queue' \in Seq(Entry \cup {Sentinel}) /\ Len(queue') <= QueueSize
          /\ n \in Nat /\ DOMAIN queue = 1 .. n /\ DOMAIN queue' = 1 .. n + 1
          /\ \A i \in 1 .. n : queue'[i] = queue[i]
          /\ queue'[n + 1] = Sentinel
          /\ Cardinality(Places(queue', {Sentinel})) =
                 Cardinality(Places(queue, {Sentinel})) + Unit(Sentinel = Sentinel)
      BY <3>1, PutIs
    <3> HIDE DEF n
    <3>3. DOMAIN queue' = DOMAIN queue \cup {n + 1} /\ n + 1 \notin DOMAIN queue
      BY <3>2
    <3>4. \A i \in DOMAIN queue : queue'[i] = queue[i] /\ i < n + 1 BY <3>2
    <3>5. sentinels' \in 0 .. Cardinality(Worker) BY <1>2, <2>2, <3>1 DEF PoolTyped
    <3>6. PoolTyped' BY <2>1, <3>1, <3>2, <3>5 DEF PoolTyped
    <3>7. Somewhere' BY <2>1, <3>2, <3>3, <3>4 DEF Somewhere, Waiting, InWork
    <3>8. Apart'
      <4>1. \A w \in Worker : worker[w] # Sentinel
        BY CommandsAssumption DEF PoolTyped
      <4>2. Sentinel \notin processed /\ Sentinel \notin skipped BY <1>1 DEF PoolTyped
      <4> QED BY <2>1, <3>2, <3>3, <3>4, <4>1, <4>2 DEF Apart
    <3>9. InOrder' BY <2>1, <3>1, <3>2, <3>3, <3>4 DEF InOrder
    <3>10. OneForEach'
      <4>1. Unit(Sentinel = Sentinel) = 1 BY DEF Unit
      <4>2. Cardinality(Places(queue, {Sentinel})) \in Nat BY PlacesFinite DEF PoolTyped
      <4>3. Cardinality(Places(worker, {"ended"})) \in Nat
        <5>1. Places(worker, {"ended"}) \in SUBSET Worker BY DEF Places, PoolTyped
        <5> QED BY <1>2, <5>1, FS_Subset, FS_CardinalityType
      <4> QED BY <2>1, <3>1, <3>2, <4>1, <4>2, <4>3 DEF OneForEach
    <3> QED BY <3>6, <3>7, <3>8, <3>9, <3>10
  <2>3. CASE ~(sentinels < Cardinality(Worker))
    <3>1. producer' = "ended" /\ UNCHANGED <<queue, sentinels>>
      BY <1>5, <2>3 DEF Pool!ProduceSentinel, Pool!SentinelCount, Pool!Cardinality, Cardinality
    <3>2. sentinels = Cardinality(Worker) BY <1>2, <2>3 DEF PoolTyped
    <3>3. PoolTyped' BY <2>1, <3>1 DEF PoolTyped
    <3>4. Somewhere' /\ Apart' BY <2>1, <3>1 DEF Somewhere, Waiting, InWork, Apart
    <3>5. InOrder' BY <2>1, <3>1 DEF InOrder
    <3>6. OneForEach' BY <2>1, <3>1, <3>2 DEF OneForEach
    <3> QED BY <3>3, <3>4, <3>5, <3>6
  <2> QED BY <2>2, <2>3
<1>6. ASSUME NEW w \in Worker, Pool!Take(w) PROVE PoolIInv'
  <2>1. UNCHANGED <<left, sentinels, producer, processed, skipped, outcome>>
    BY <1>6 DEF Pool!Take
  <2> DEFINE n == Len(queue)
             x == IF queue[1] = Sentinel THEN "ended" ELSE queue[1]
  <2>2. /\ queue' \in Seq(Entry \cup {Sentinel}) /\ Len(queue') <= QueueSize
        /\ n \in Nat /\ n >= 1 /\ DOMAIN queue = 1 .. n /\ DOMAIN queue' = 1 .. n - 1
        /\ \A i \in DOMAIN queue' : i + 1 \in DOMAIN queue /\ queue'[i] = queue[i + 1]
        /\ Cardinality(Places(queue', {Sentinel})) =
               Cardinality(Places(queue, {Sentinel})) - Unit(queue[1] = Sentinel)
        /\ worker[w] = "idle" /\ 1 \in DOMAIN queue
        /\ \/ queue[1] = Sentinel /\ worker' = [worker EXCEPT ![w] = "ended"]
           \/ queue[1] \in Entry /\ worker' = [worker EXCEPT ![w] = queue[1]]
    BY <1>6, TakeIs
  <2>3. /\ worker' = [worker EXCEPT ![w] = x]
        /\ x \in {"idle", "ended", "raised"} \cup Entry
        /\ x = "ended" <=> queue[1] = Sentinel
        /\ x \in Entry <=> queue[1] \in Entry
        /\ queue[1] # Sentinel => x = queue[1]
    BY <1>1, <2>2
  <2> HIDE DEF n, x
  <2>4. /\ worker' \in [Worker -> {"idle", "ended", "raised"} \cup Entry]
        /\ worker'[w] = x /\ \A v \in Worker : v # w => worker'[v] = worker[v]
        /\ Cardinality(Places(worker, {"ended"})) \in Nat
        /\ Cardinality(Places(worker', {"ended"})) =
               Cardinality(Places(worker, {"ended"}))
               - Unit(worker[w] = "ended") + Unit(x = "ended")
    BY <2>3, WorkerIs
  <2>5. PoolTyped' BY <2>1, <2>2, <2>4 DEF PoolTyped
  <2>6. Somewhere'
    <3> SUFFICES ASSUME NEW e \in Entry
                 PROVE  \/ e \in left \/ Waiting(e)' \/ InWork(e)'
                        \/ e \in processed \/ e \in skipped
      BY <2>1 DEF Somewhere
    <3>1. CASE e \in left \/ e \in processed \/ e \in skipped BY <3>1
    <3>2. CASE InWork(e)
      <4>1. PICK v \in Worker : worker[v] = e BY <3>2 DEF InWork
      <4>2. v # w BY <1>1, <2>2, <4>1
      <4> QED BY <2>4, <4>1, <4>2 DEF InWork
    <3>3. CASE Waiting(e)
      <4>1. PICK i \in DOMAIN queue : queue[i] = e BY <3>3 DEF Waiting
      <4>2. CASE i = 1
        <5>1. worker'[w] = e BY <1>1, <2>3, <2>4, <4>1, <4>2
        <5> QED BY <5>1 DEF InWork
      <4>3. CASE i # 1
        <5>1. i - 1 \in DOMAIN queue' /\ (i - 1) + 1 = i BY <2>2, <4>3
        <5>2. queue'[i - 1] = e BY <2>2, <4>1, <5>1
        <5> QED BY <5>1, <5>2 DEF Waiting
      <4> QED BY <4>2, <4>3
    <3> QED BY <3>1, <3>2, <3>3 DEF Somewhere
  <2>7. Apart'
    <3>1. \A i \in DOMAIN queue' : /\ i + 1 \in DOMAIN queue /\ queue'[i] = queue[i + 1]
                                   /\ i + 1 # 1
      BY <2>2
    <3>2. \A i \in DOMAIN queue' : queue'[i] \notin left' \cup processed' \cup skipped'
      BY <2>1, <3>1 DEF Apart
    <3>3. "ended" \notin left \cup processed \cup skipped BY <1>1 DEF PoolTyped
    <3>4. x \notin left \cup processed \cup skipped
      BY <2>2, <2>3, <3>3 DEF Apart
    <3>5. \A v \in Worker : worker'[v] \notin left' \cup processed' \cup skipped'
      BY <2>1, <2>4, <3>4 DEF Apart
    <3>6. ASSUME NEW i \in DOMAIN queue', NEW v \in Worker PROVE queue'[i] # worker'[v]
      <4>1. CASE v # w BY <2>4, <3>1, <4>1 DEF Apart
      <4>2. CASE v = w /\ x = "ended"
        <5>1. queue'[i] \in Entry \cup {Sentinel} BY <2>2
        <5> QED BY <2>4, <4>2, <5>1, CommandsAssumption
      <4>3. CASE v = w /\ x # "ended"
        <5>1. queue'[i] # queue[1] BY <2>2, <2>3, <3>1, <4>3 DEF Apart
        <5> QED BY <2>3, <2>4, <4>3, <5>1
      <4> QED BY <4>1, <4>2, <4>3
    <3>7. ASSUME NEW i \in DOMAIN queue', NEW j \in DOMAIN queue',
                 queue'[i] = queue'[j], queue'[i] # Sentinel
          PROVE  i = j
      <4>1. i + 1 = j + 1 BY <3>1, <3>7 DEF Apart
      <4>2. i \in Int /\ j \in Int BY <2>2
      <4> QED BY <4>1, <4>2
    <3>8. ASSUME NEW u \in Worker, NEW v \in Worker, worker'[u] = worker'[v],
                 worker'[u] \in Entry
          PROVE  u = v
      <4>1. ASSUME NEW t \in Worker, t # w, worker'[t] = x, x \in Entry PROVE FALSE
        <5>1. worker[t] = queue[1] BY <1>1, <2>3, <2>4, <4>1
        <5> QED BY <2>2, <5>1 DEF Apart
      <4>2. CASE u = w /\ v # w BY <2>4, <3>8, <4>1, <4>2
      <4>3. CASE u # w /\ v = w BY <2>4, <3>8, <4>1, <4>3
      <4>4. CASE u # w /\ v # w BY <2>4, <3>8, <4>4 DEF Apart
      <4> QED BY <4>2, <4>3, <4>4
    <3>9. /\ processed' \cap skipped' = {} /\ left' \cap (processed' \cup skipped') = {}
      BY <2>1 DEF Apart
    <3> QED BY <3>2, <3>5, <3>6, <3>7, <3>8, <3>9 DEF Apart
  <2>8. InOrder'
    <3>1. ASSUME left # {}
          PROVE  /\ \A i \in DOMAIN queue' : queue'[i] # Sentinel
                 /\ \A v \in Worker : worker'[v] # "ended"
      <4>1. /\ \A i \in DOMAIN queue : queue[i] # Sentinel
            /\ \A v \in Worker : worker[v] # "ended"
        BY <3>1 DEF InOrder
      <4>2. x # "ended" BY <2>2, <2>3, <4>1
      <4> QED BY <2>2, <2>4, <4>1, <4>2
    <3>2. ASSUME NEW i \in DOMAIN queue', NEW j \in DOMAIN queue', i < j,
                 queue'[i] = Sentinel
          PROVE  queue'[j] = Sentinel
      <4>1. /\ i + 1 \in DOMAIN queue /\ j + 1 \in DOMAIN queue /\ i + 1 < j + 1
            /\ queue[i + 1] = Sentinel /\ queue'[j] = queue[j + 1]
        BY <2>2, <3>2
      <4> QED BY <4>1 DEF InOrder
    <3>3. ASSUME NEW v \in Worker, worker'[v] = "ended", NEW i \in DOMAIN queue'
          PROVE  queue'[i] = Sentinel
      <4>1. i + 1 \in DOMAIN queue /\ queue'[i] = queue[i + 1] /\ 1 < i + 1
        BY <2>2
      <4>2. CASE queue[1] = Sentinel BY <2>2, <4>1, <4>2 DEF InOrder
      <4>3. CASE queue[1] # Sentinel
        <5>1. worker[v] = "ended" BY <2>3, <2>4, <3>3, <4>3
        <5> QED BY <4>1, <5>1 DEF InOrder
      <4> QED BY <4>2, <4>3
    <3>4. left # {} => producer # "ended" BY DEF InOrder
    <3> QED BY <2>1, <3>1, <3>2, <3>3, <3>4 DEF InOrder
  <2>9. OneForEach'
    <3>1. /\ worker[w] # "ended" /\ Unit(worker[w] = "ended") = 0
          /\ Unit(x = "ended") = Unit(queue[1] = Sentinel)
          /\ Unit(queue[1] = Sentinel) \in Nat
      BY <2>2, <2>3 DEF Unit
    <3>2. outcome # "returned" BY <3>1 DEF OneForEach
    <3>3. Cardinality(Places(queue, {Sentinel})) \in Nat BY PlacesFinite DEF PoolTyped
    <3>4. /\ sentinels' = Cardinality(Places(queue', {Sentinel}))
                          + Cardinality(Places(worker', {"ended"}))
      BY <2>1, <2>2, <2>4, <3>1, <3>3 DEF OneForEach
    <3> QED BY <2>1, <3>2, <3>4 DEF OneForEach
  <2> QED BY <2>5, <2>6, <2>7, <2>8, <2>9
<1>7. ASSUME NEW w \in Worker, Pool!Works(w) PROVE PoolIInv'
  <2>1. /\ worker[w] \in Entry
        /\ UNCHANGED <<left, sentinels, producer, queue, outcome>>
    BY <1>7 DEF Pool!Works, Pool!Processed, Pool!Skip
  <2>2. PICK x \in {"idle", "raised"} : worker' = [worker EXCEPT ![w] = x]
    <3>1. CASE Pool!Processed(w) BY <3>1 DEF Pool!Processed
    <3>2. CASE Pool!Skip(w)
      <4>1. CASE debug BY <3>2, <4>1 DEF Pool!Skip
      <4>2. CASE ~debug BY <3>2, <4>2 DEF Pool!Skip
      <4> QED BY <4>1, <4>2
    <3> QED BY <1>7, <3>1, <3>2 DEF Pool!Works
  <2>3. \/ processed' = processed \cup {worker[w]} /\ skipped' = skipped
        \/ skipped' = skipped \cup {worker[w]} /\ processed' = processed
    BY <1>7 DEF Pool!Works, Pool!Processed, Pool!Skip
  <2>4. /\ worker' \in [Worker -> {"idle", "ended", "raised"} \cup Entry]
        /\ worker'[w] = x /\ \A v \in Worker : v # w => worker'[v] = worker[v]
        /\ Cardinality(Places(worker, {"ended"})) \in Nat
        /\ Cardinality(Places(worker', {"ended"})) =
               Cardinality(Places(worker, {"ended"}))
               - Unit(worker[w] = "ended") + Unit(x = "ended")
    BY <2>2, WorkerIs
  <2>5. x \notin Entry /\ x # "ended" /\ worker[w] # "ended" /\ x # Sentinel
    BY <1>1, <2>1, <2>2, CommandsAssumption
  <2>6. PoolTyped' BY <2>1, <2>3, <2>4 DEF PoolTyped
  <2>7. Somewhere'
    <3> SUFFICES ASSUME NEW e \in Entry
                 PROVE  \/ e \in left \/ Waiting(e)' \/ InWork(e)'
                        \/ e \in processed' \/ e \in skipped'
      BY <2>1 DEF Somewhere
    <3>1. CASE e \in left \/ Waiting(e) \/ e \in processed \/ e \in skipped
      BY <2>1, <2>3, <3>1 DEF Waiting
    <3>2. CASE InWork(e)
      <4>1. PICK v \in Worker : worker[v] = e BY <3>2 DEF InWork
      <4>2. CASE v = w BY <2>3, <4>1, <4>2
      <4>3. CASE v # w BY <2>4, <4>1, <4>3 DEF InWork
      <4> QED BY <4>2, <4>3
    <3> QED BY <3>1, <3>2 DEF Somewhere
  <2>8. Apart'
    <3>1. \A v \in Worker : v # w => worker[v] # worker[w] BY <2>1 DEF Apart
    <3>2. /\ worker[w] \notin left \cup processed \cup skipped
          /\ \A i \in DOMAIN queue : queue[i] # worker[w]
      BY DEF Apart
    <3>3. /\ processed' \cap skipped' = {} /\ left' \cap (processed' \cup skipped') = {}
          /\ \A i \in DOMAIN queue' : queue'[i] \notin left' \cup processed' \cup skipped'
      BY <2>1, <2>3, <3>2 DEF Apart
    <3>4. x \notin left \cup processed' \cup skipped'
      BY <2>1, <2>3, <2>5 DEF PoolTyped
    <3>5. \A v \in Worker : worker'[v] \notin left' \cup processed' \cup skipped'
      BY <2>1, <2>3, <2>4, <3>1, <3>4 DEF Apart
    <3>6. \A i \in DOMAIN queue', v \in Worker : queue'[i] # worker'[v]
      <4>1. \A i \in DOMAIN queue : queue[i] # x BY <2>5 DEF PoolTyped
      <4> QED BY <2>1, <2>4, <4>1 DEF Apart
    <3>7. \A u, v \in Worker : worker'[u] = worker'[v] /\ worker'[u] \in Entry => u = v
      BY <2>4, <2>5 DEF Apart
    <3>8. \A i, j \in DOMAIN queue' : queue'[i] = queue'[j] /\ queue'[i] # Sentinel => i = j
      BY <2>1 DEF Apart
    <3> QED BY <3>3, <3>5, <3>6, <3>7, <3>8 DEF Apart
  <2>9. InOrder'
    <3>1. \A v \in Worker : worker'[v] = "ended" <=> worker[v] = "ended"
      BY <2>4, <2>5
    <3> QED BY <2>1, <3>1 DEF InOrder
  <2>10. OneForEach'
    <3>1. Unit(worker[w] = "ended") = 0 /\ Unit(x = "ended") = 0 BY <2>5 DEF Unit
    <3>2. outcome # "returned" BY <2>5 DEF OneForEach
    <3> QED BY <2>1, <2>4, <3>1, <3>2 DEF OneForEach
  <2> QED BY <2>6, <2>7, <2>8, <2>9, <2>10
<1>8. CASE Pool!Gather
  <2>1. UNCHANGED <<left, sentinels, producer, queue, worker, processed, skipped>>
    BY <1>8 DEF Pool!Gather
  <2>2. outcome' = "returned" => producer = "ended" /\ \A w \in Worker : worker[w] = "ended"
    BY <1>8 DEF Pool!Gather
  <2>3. PoolTyped' BY <2>1 DEF PoolTyped
  <2>4. Somewhere' /\ Apart' BY <2>1 DEF Somewhere, Waiting, InWork, Apart
  <2>5. InOrder' BY <2>1 DEF InOrder
  <2>6. OneForEach' BY <2>1, <2>2 DEF OneForEach
  <2> QED BY <2>3, <2>4, <2>5, <2>6
<1> QED BY <1>3, <1>4, <1>5, <1>6, <1>7, <1>8 DEF Pool!Next

\* A pool starts with its invariant, and so does one that is over.
LEMMA PoolStarts == Pool!Init \/ PoolOver => PoolIInv
<1>1. /\ IsFiniteSet(Worker) /\ Cardinality(Worker) \in Nat
      /\ "idle" \notin Entry /\ "ended" \notin Entry /\ "raised" \notin Entry
      /\ Sentinel \notin Entry /\ QueueSize \in Nat
  BY CommandsAssumption, FS_CardinalityType
<1>2. ASSUME queue = <<>>
      PROVE  /\ queue \in Seq(Entry \cup {Sentinel}) /\ Len(queue) = 0
             /\ DOMAIN queue = {} /\ Cardinality(Places(queue, {Sentinel})) = 0
  <2>1. queue \in Seq(Entry \cup {Sentinel}) /\ Len(queue) = 0 /\ DOMAIN queue = {}
    BY <1>2
  <2>2. Places(queue, {Sentinel}) = {} BY <2>1 DEF Places
  <2> QED BY <2>1, <2>2, FS_EmptySet
<1>3. ASSUME Pool!Init PROVE PoolIInv
  <2>1. /\ left = Entry /\ sentinels = 0 /\ producer = "runs" /\ queue = <<>>
        /\ worker = [w \in Worker |-> "idle"] /\ processed = {} /\ skipped = {}
        /\ outcome = "none"
    BY <1>3 DEF Pool!Init
  <2>2. \A w \in Worker : worker[w] = "idle" BY <2>1
  <2>3. PoolTyped BY <1>1, <1>2, <2>1 DEF PoolTyped
  <2>4. Somewhere BY <2>1 DEF Somewhere
  <2>5. Apart BY <1>1, <1>2, <2>1, <2>2 DEF Apart
  <2>6. InOrder BY <1>1, <1>2, <2>1, <2>2 DEF InOrder
  <2>7. OneForEach
    <3>1. Places(worker, {"ended"}) = {} BY <2>1, <2>2 DEF Places
    <3>2. Cardinality(Places(worker, {"ended"})) = 0 BY <3>1, FS_EmptySet
    <3> QED BY <1>2, <2>1, <3>2 DEF OneForEach
  <2> QED BY <2>3, <2>4, <2>5, <2>6, <2>7 DEF PoolIInv
<1>4. ASSUME PoolOver PROVE PoolIInv
  <2>1. /\ left = {} /\ sentinels = Cardinality(Worker) /\ producer = "ended"
        /\ queue = <<>> /\ worker = [w \in Worker |-> "ended"] /\ processed = Entry
        /\ skipped = {} /\ outcome = "returned"
    BY <1>4, Zenon DEF PoolOver
  <2>2. \A w \in Worker : worker[w] = "ended" BY <2>1
  <2>3. PoolTyped BY <1>1, <1>2, <2>1 DEF PoolTyped
  <2>4. Somewhere BY <2>1 DEF Somewhere
  <2>5. Apart BY <1>1, <1>2, <2>1, <2>2 DEF Apart
  <2>6. InOrder BY <1>1, <1>2, <2>1, <2>2 DEF InOrder
  <2>7. OneForEach
    <3>1. Places(worker, {"ended"}) = Worker BY <2>1, <2>2 DEF Places
    <3> QED BY <1>1, <1>2, <2>1, <2>2, <3>1 DEF OneForEach
  <2> QED BY <2>3, <2>4, <2>5, <2>6, <2>7 DEF PoolIInv
<1> QED BY <1>3, <1>4

\* The steps of other parts keep it.
LEMMA PoolStays == PoolIInv /\ UNCHANGED poolVars => PoolIInv'
BY DEF PoolIInv, PoolTyped, Somewhere, Waiting, InWork, Apart, InOrder, OneForEach, poolVars

\* What the invariant of the pool says of it.
LEMMA PoolKept == PoolIInv => Pool!TypeOK /\ Pool!EveryEntryCounted
<1> SUFFICES ASSUME PoolTyped, Somewhere, Apart, InOrder, OneForEach
             PROVE  Pool!TypeOK /\ Pool!EveryEntryCounted
  BY DEF PoolIInv
<1>1. Pool!TypeOK BY DEF PoolTyped, Pool!TypeOK, Pool!Cardinality, Cardinality
<1>2. Pool!EveryEntryCounted
  <2> SUFFICES ASSUME outcome = "returned"
               PROVE  processed \cup skipped = Entry /\ processed \cap skipped = {}
                      /\ queue = <<>>
    BY DEF Pool!EveryEntryCounted
  <2>1. /\ producer = "ended" /\ left = {} /\ sentinels = Cardinality(Worker)
        /\ \A w \in Worker : worker[w] = "ended"
    BY DEF OneForEach, InOrder
  <2>2. Places(worker, {"ended"}) = Worker BY <2>1 DEF Places, PoolTyped
  <2>3. Cardinality(Worker) \in Nat /\ Worker # {}
    BY CommandsAssumption, FS_CardinalityType
  <2>4. /\ IsFiniteSet(Places(queue, {Sentinel}))
        /\ Cardinality(Places(queue, {Sentinel})) \in Nat
    BY PlacesFinite DEF PoolTyped
  <2>5. Cardinality(Places(queue, {Sentinel})) = 0
    BY <2>1, <2>2, <2>3, <2>4 DEF OneForEach
  <2>6. Places(queue, {Sentinel}) = {} BY <2>4, <2>5, FS_EmptySet
  <2>7. \A i \in DOMAIN queue : queue[i] = Sentinel BY <2>1, <2>3 DEF InOrder
  <2>8. DOMAIN queue = {} BY <2>6, <2>7 DEF Places
  <2>9. queue = <<>> BY <2>8 DEF PoolTyped
  <2>10. ASSUME NEW e \in Entry PROVE e \in processed \cup skipped
    <3>1. ~Waiting(e) BY <2>8 DEF Waiting
    <3>2. ~InWork(e) BY <2>1, CommandsAssumption DEF InWork
    <3> QED BY <2>1, <3>1, <3>2 DEF Somewhere
  <2> QED BY <2>9, <2>10 DEF PoolTyped, Apart
<1> QED BY <1>1, <1>2

-----------------------------------------------------------------------------
(* The reader of a child process.                                          *)

\* The lines that are in the pipes, by their pipe and their place.
InPipes == {p \in Stream \X (1 .. PipeMax) : p[2] \in DOMAIN pipe[p[1]]}

ReaderTyped ==
    /\ child \in {"running", "exited", "reaped"} /\ status \in {0, 1, -15, -9}
    /\ open \subseteq Stream
    /\ pipe \in [Stream -> Seq({"line", "long"})]
    /\ \A s \in Stream : Len(pipe[s]) <= PipeMax
    /\ pump \in [Stream -> {"reads", "broken", "over"}]
    /\ lines \in Seq({"line", "EOF"})
    /\ at \in {"iterate", "terminate", "wait", "killed", "done"}
    /\ eof_seen \in 0 .. Cardinality(Stream)
    /\ written \in Nat /\ got \in Nat

\* Every line that was written is in a pipe, in the queue, or was yielded.
WrittenAdd ==
    written = got + Cardinality(Places(lines, {"line"})) + Cardinality(InPipes)

\* The end of a pipe is queued when its pump is through, and after every line.
EndsAdd ==
    /\ Cardinality(Places(lines, {"EOF"})) + eof_seen
           = Cardinality(Places(pump, {"broken", "over"}))
    /\ \A s \in Stream : pump[s] = "over" => pipe[s] = <<>> /\ s \notin open
    /\ (\A s \in Stream : pump[s] # "reads")
           => lines = <<>> \/ lines[Len(lines)] = "EOF"

Uncut == (\E s \in Stream : pump[s] = "broken") => cut
Produced == produced_any <=> got > 0

\* How the iteration ends.
Reaped ==
    /\ at # "iterate" /\ result # "abandoned" => eof_seen = Cardinality(Stream)
    /\ at # "done" => result \in {"none", "abandoned"}
    /\ at = "done" => child = "reaped"
    /\ at = "done" /\ result # "abandoned"
           => (result = "CommandError" <=> status # 0 /\ got = 0)

ReaderIInv ==
    ReaderTyped /\ WrittenAdd /\ EndsAdd /\ Uncut /\ Produced /\ Reaped

\* What the queue, the pipes and the pumps look like after a step.
LEMMA QueuedIs ==
    ASSUME ReaderTyped, NEW x \in {"line", "EOF"}, lines' = Append(lines, x)
    PROVE  /\ lines' \in Seq({"line", "EOF"}) /\ lines' # <<>>
           /\ lines'[Len(lines')] = x
           /\ \A T : Cardinality(Places(lines', T)) =
                         Cardinality(Places(lines, T)) + Unit(x \in T)
<1>1. lines \in Seq({"line", "EOF"}) BY DEF ReaderTyped
<1>2. /\ lines' \in Seq({"line", "EOF"}) /\ lines' # <<>>
      /\ lines'[Len(lines')] = x /\ Len(lines') = Len(lines) + 1
      /\ \A i \in 1 .. Len(lines) : lines'[i] = lines[i]
  BY <1>1
<1>3. ASSUME NEW T
      PROVE  Cardinality(Places(lines', T)) = Cardinality(Places(lines, T)) + Unit(x \in T)
  <2>1. Cardinality(Places(lines', T)) =
            Cardinality(Places(lines, T)) + Unit(lines'[Len(lines')] \in T)
    BY <1>1, <1>2, PlacesAppend
  <2> QED BY <1>2, <2>1
<1> QED BY <1>2, <1>3

\* The reader gets the oldest of what the pumps have put.
LEMMA GotIs ==
    ASSUME ReaderTyped, lines # <<>>, lines' = Tail(lines)
    PROVE  /\ lines' \in Seq({"line", "EOF"}) /\ Head(lines) \in {"line", "EOF"}
           /\ lines' = <<>> \/ lines'[Len(lines')] = lines[Len(lines)]
           /\ \A T : Cardinality(Places(lines', T)) =
                         Cardinality(Places(lines, T)) - Unit(Head(lines) \in T)
<1>1. lines \in Seq({"line", "EOF"}) BY DEF ReaderTyped
<1>2. /\ lines' \in Seq({"line", "EOF"}) /\ Len(lines') = Len(lines) - 1
      /\ Head(lines) \in {"line", "EOF"}
      /\ \A j \in 1 .. Len(lines') : lines'[j] = lines[j + 1]
  BY <1>1, PlacesTail
<1>3. lines' = <<>> \/ lines'[Len(lines')] = lines[Len(lines)]
  <2>1. Len(lines') \in Nat /\ Len(lines) \in Nat BY <1>1, <1>2
  <2>2. CASE Len(lines') = 0 BY <1>2, <2>2
  <2>3. CASE Len(lines') # 0
    <3>1. Len(lines') \in 1 .. Len(lines') /\ Len(lines') + 1 = Len(lines)
      BY <1>2, <2>1, <2>3
    <3> QED BY <1>2, <3>1
  <2> QED BY <2>2, <2>3
<1>4. ASSUME NEW T
      PROVE  Cardinality(Places(lines', T)) =
                 Cardinality(Places(lines, T)) - Unit(Head(lines) \in T)
  BY <1>1, PlacesTail
<1> QED BY <1>2, <1>3, <1>4

\* What is queued can be counted.
LEMMA LinesCount ==
    ASSUME ReaderTyped, NEW T
    PROVE  Cardinality(Places(lines, T)) \in Nat
BY PlacesFinite DEF ReaderTyped

\* One pump more is through.
LEMMA ThroughAre ==
    ASSUME NEW s \in Stream, NEW f, DOMAIN f = Stream, NEW g, DOMAIN g = Stream,
           \A t \in Stream : t # s => g[t] = f[t],
           f[s] = "reads", g[s] \in {"broken", "over"}
    PROVE  Cardinality(Places(g, {"broken", "over"})) =
               Cardinality(Places(f, {"broken", "over"})) + 1
<1> DEFINE T == {"broken", "over"}
<1>1. Unit(f[s] \in T) = 0 /\ Unit(g[s] \in T) = 1 BY DEF Unit
<1> HIDE DEF T
<1>2. IsFiniteSet(Stream) BY CommandsAssumption
<1>3. /\ Cardinality(Places(f, T)) \in Nat
      /\ Cardinality(Places(g, T)) =
             Cardinality(Places(f, T)) - Unit(f[s] \in T) + Unit(g[s] \in T)
  BY <1>2, PlacesExcept
<1> QED BY <1>1, <1>3 DEF T

\* The state of the pumps, then.
LEMMA PumpIs ==
    ASSUME ReaderTyped, NEW s \in Stream, pump[s] = "reads",
           NEW x \in {"broken", "over"}, pump' = [pump EXCEPT ![s] = x]
    PROVE  /\ pump' \in [Stream -> {"reads", "broken", "over"}]
           /\ pump'[s] = x /\ \A t \in Stream : t # s => pump'[t] = pump[t]
           /\ Cardinality(Places(pump', {"broken", "over"})) =
                  Cardinality(Places(pump, {"broken", "over"})) + 1
<1>1. pump \in [Stream -> {"reads", "broken", "over"}] BY DEF ReaderTyped
<1>2. /\ pump' \in [Stream -> {"reads", "broken", "over"}]
      /\ pump'[s] = x /\ \A t \in Stream : t # s => pump'[t] = pump[t]
  BY <1>1
<1> DEFINE Through(f, g) == /\ DOMAIN f = Stream /\ DOMAIN g = Stream
                            /\ \A t \in Stream : t # s => g[t] = f[t]
                            /\ f[s] = "reads" /\ g[s] \in {"broken", "over"}
           OneMoreEnd(f, g) == Cardinality(Places(g, {"broken", "over"})) =
                                   Cardinality(Places(f, {"broken", "over"})) + 1
<1>3. ASSUME NEW f, NEW g, Through(f, g) PROVE OneMoreEnd(f, g)
  BY <1>3, ThroughAre
<1>4. Through(pump, pump') BY <1>1, <1>2
<1> HIDE DEF Through, OneMoreEnd
<1>5. OneMoreEnd(pump, pump') BY <1>3, <1>4
<1> QED BY <1>2, <1>5 DEF OneMoreEnd

\* What is in the pipes can be counted.
LEMMA InPipesFinite ==
    IsFiniteSet(InPipes) /\ Cardinality(InPipes) \in Nat
<1>1. IsFiniteSet(Stream) /\ 1 \in Int /\ PipeMax \in Int BY CommandsAssumption
<1>2. IsFiniteSet(1 .. PipeMax) BY <1>1, FS_Interval
<1>3. IsFiniteSet(Stream \X (1 .. PipeMax)) BY <1>1, <1>2, FS_Product
<1>4. InPipes \in SUBSET (Stream \X (1 .. PipeMax)) BY DEF InPipes
<1>5. IsFiniteSet(InPipes) BY <1>3, <1>4, FS_Subset
<1> QED BY <1>5, FS_CardinalityType

\* The child writes a line.
LEMMA PipeGrows ==
    ASSUME ReaderTyped, NEW s \in Stream, Len(pipe[s]) < PipeMax,
           NEW x \in {"line", "long"}, pipe' = [pipe EXCEPT ![s] = Append(@, x)]
    PROVE  /\ pipe' \in [Stream -> Seq({"line", "long"})]
           /\ \A t \in Stream : Len(pipe'[t]) <= PipeMax /\ (t # s => pipe'[t] = pipe[t])
           /\ Cardinality(InPipes') = Cardinality(InPipes) + 1
<1> DEFINE n == Len(pipe[s]) + 1
<1>1. /\ pipe \in [Stream -> Seq({"line", "long"})] /\ PipeMax \in Nat
      /\ \A t \in Stream : Len(pipe[t]) <= PipeMax
  BY CommandsAssumption DEF ReaderTyped
<1>2. /\ pipe' \in [Stream -> Seq({"line", "long"})]
      /\ pipe'[s] = Append(pipe[s], x)
      /\ \A t \in Stream : t # s => pipe'[t] = pipe[t]
  BY <1>1
<1>3. /\ Len(pipe[s]) \in Nat /\ Len(pipe'[s]) = n /\ n \in 1 .. PipeMax
      /\ DOMAIN pipe[s] = 1 .. Len(pipe[s]) /\ DOMAIN pipe'[s] = 1 .. n
  BY <1>1, <1>2
<1>4. DOMAIN pipe'[s] = DOMAIN pipe[s] \cup {n} /\ n \notin DOMAIN pipe[s] BY <1>3
<1> HIDE DEF n
<1>5. InPipes' = InPipes \cup {<<s, n>>}
  <2>1. ASSUME NEW p \in Stream \X (1 .. PipeMax)
        PROVE  p[2] \in DOMAIN pipe'[p[1]] <=> p[2] \in DOMAIN pipe[p[1]] \/ p = <<s, n>>
    <3>1. CASE p[1] = s BY <1>4, <3>1
    <3>2. CASE p[1] # s BY <1>2, <3>2
    <3> QED BY <3>1, <3>2
  <2>2. <<s, n>> \in Stream \X (1 .. PipeMax) BY <1>3
  <2> QED BY <2>1, <2>2 DEF InPipes
<1>6. <<s, n>> \notin InPipes BY <1>4 DEF InPipes
<1>7. Cardinality(InPipes \cup {<<s, n>>}) = Cardinality(InPipes) + 1
  BY <1>6, InPipesFinite, FS_AddElement
<1>8. \A t \in Stream : Len(pipe'[t]) <= PipeMax BY <1>1, <1>2, <1>3
<1> QED BY <1>2, <1>5, <1>7, <1>8

\* A pump reads a line.
LEMMA PipeShrinks ==
    ASSUME ReaderTyped, NEW s \in Stream, pipe[s] # <<>>,
           pipe' = [pipe EXCEPT ![s] = Tail(@)]
    PROVE  /\ pipe' \in [Stream -> Seq({"line", "long"})]
           /\ \A t \in Stream : Len(pipe'[t]) <= PipeMax /\ (t # s => pipe'[t] = pipe[t])
           /\ Cardinality(InPipes) = Cardinality(InPipes') + 1
           /\ Cardinality(InPipes') \in Nat
<1> DEFINE n == Len(pipe[s])
<1>1. /\ pipe \in [Stream -> Seq({"line", "long"})] /\ PipeMax \in Nat
      /\ \A t \in Stream : Len(pipe[t]) <= PipeMax
  BY CommandsAssumption DEF ReaderTyped
<1>2. /\ pipe' \in [Stream -> Seq({"line", "long"})]
      /\ pipe'[s] = Tail(pipe[s])
      /\ \A t \in Stream : t # s => pipe'[t] = pipe[t]
  BY <1>1
<1>3. /\ n \in 1 .. PipeMax /\ Len(pipe'[s]) = n - 1
      /\ DOMAIN pipe[s] = 1 .. n /\ DOMAIN pipe'[s] = 1 .. n - 1
  BY <1>1, <1>2
<1>4. DOMAIN pipe'[s] = DOMAIN pipe[s] \ {n} /\ n \in DOMAIN pipe[s] BY <1>3
<1>5. Len(pipe'[s]) <= PipeMax BY <1>1, <1>3
<1> HIDE DEF n
<1>6. InPipes' = InPipes \ {<<s, n>>}
  <2>1. ASSUME NEW p \in Stream \X (1 .. PipeMax)
        PROVE  p[2] \in DOMAIN pipe'[p[1]] <=> p[2] \in DOMAIN pipe[p[1]] /\ p # <<s, n>>
    <3>1. CASE p[1] = s BY <1>4, <3>1
    <3>2. CASE p[1] # s BY <1>2, <3>2
    <3> QED BY <3>1, <3>2
  <2> QED BY <2>1 DEF InPipes
<1>7. <<s, n>> \in InPipes BY <1>3, <1>4 DEF InPipes
<1>8. /\ Cardinality(InPipes \ {<<s, n>>}) = Cardinality(InPipes) - 1
      /\ IsFiniteSet(InPipes \ {<<s, n>>})
  BY <1>7, InPipesFinite, FS_RemoveElement
<1>9. Cardinality(InPipes \ {<<s, n>>}) \in Nat BY <1>8, FS_CardinalityType
<1>10. \A t \in Stream : Len(pipe'[t]) <= PipeMax BY <1>1, <1>2, <1>5
<1> QED BY <1>2, <1>6, <1>8, <1>10, <1>9, InPipesFinite

\* The reader waits for as many ends as there are streams.
LEMMA StreamsAre == Reader!Streams = Cardinality(Stream)
BY DEF Reader!Streams, Reader!Cardinality, Cardinality

\* The child: it writes, closes a pipe, or dies; the loop is told.
LEMMA ChildKeeps ==
    ASSUME ReaderIInv, UNCHANGED <<pump, lines, eof_seen, produced_any, got, cut>>,
           \/ \E s \in Stream : Reader!Write(s) \/ Reader!Close(s)
           \/ Reader!Exit \/ Reader!Obey \/ Reader!Reap \/ Reader!KillTimeout
    PROVE  ReaderIInv'
<1> USE DEF ReaderIInv
<1>1. /\ pump' = pump /\ lines' = lines /\ eof_seen' = eof_seen /\ got' = got
      /\ produced_any' = produced_any /\ cut' = cut
  OBVIOUS
<1>2. Uncut' BY <1>1 DEF Uncut
<1>3. Produced' BY <1>1 DEF Produced
<1>4. ASSUME NEW s \in Stream, Reader!Write(s) PROVE ReaderIInv'
  <2>1. /\ s \in open /\ Len(pipe[s]) < PipeMax /\ written' = written + 1
        /\ UNCHANGED <<child, status, open, at, result>>
    BY <1>4 DEF Reader!Write, Reader!readerVars
  <2>2. PICK x \in {"line", "long"} : pipe' = [pipe EXCEPT ![s] = Append(@, x)]
    BY <1>4 DEF Reader!Write
  <2>3. /\ pipe' \in [Stream -> Seq({"line", "long"})]
        /\ \A t \in Stream : Len(pipe'[t]) <= PipeMax /\ (t # s => pipe'[t] = pipe[t])
        /\ Cardinality(InPipes') = Cardinality(InPipes) + 1
    BY <2>1, <2>2, PipeGrows
  <2>4. ReaderTyped' BY <1>1, <2>1, <2>3 DEF ReaderTyped
  <2>5. Cardinality(Places(lines, {"line"})) \in Nat /\ Cardinality(InPipes) \in Nat
    BY LinesCount, InPipesFinite
  <2>6. WrittenAdd' BY <1>1, <2>1, <2>3, <2>5 DEF WrittenAdd, ReaderTyped
  <2>7. EndsAdd' BY <1>1, <2>1, <2>3 DEF EndsAdd
  <2>8. Reaped' BY <1>1, <2>1 DEF Reaped
  <2> QED BY <1>2, <1>3, <2>4, <2>6, <2>7, <2>8
<1>5. ASSUME pipe' = pipe, written' = written
      PROVE  WrittenAdd'
  <2>1. InPipes' = InPipes BY <1>5 DEF InPipes
  <2> QED BY <1>1, <1>5, <2>1 DEF WrittenAdd
<1>6. ASSUME open' \in SUBSET open, pipe' = pipe
      PROVE  EndsAdd'
  BY <1>1, <1>6 DEF EndsAdd
<1>7. ASSUME NEW s \in Stream, Reader!Close(s) PROVE ReaderIInv'
  <2>1. open' \in SUBSET open /\ UNCHANGED <<child, status, pipe, at, result, written>>
    BY <1>7 DEF Reader!Close, Reader!readerVars
  <2>2. ReaderTyped' BY <1>1, <2>1 DEF ReaderTyped
  <2>3. Reaped' BY <1>1, <2>1 DEF Reaped
  <2> QED BY <1>2, <1>3, <1>5, <1>6, <2>1, <2>2, <2>3
<1>8. CASE Reader!Exit \/ Reader!Obey
  <2>1. /\ child = "running" /\ child' = "exited" /\ status' \in {0, 1, -15}
        /\ open' \in SUBSET open /\ UNCHANGED <<pipe, at, result, written>>
    BY <1>8 DEF Reader!Exit, Reader!Obey, Reader!Dies, Reader!readerVars
  <2>2. ReaderTyped' BY <1>1, <2>1 DEF ReaderTyped
  <2>3. Reaped' BY <1>1, <2>1 DEF Reaped
  <2> QED BY <1>2, <1>3, <1>5, <1>6, <2>1, <2>2, <2>3
<1>9. CASE Reader!Reap
  <2>1. /\ child = "exited" /\ child' = "reaped"
        /\ UNCHANGED <<status, open, pipe, at, result, written>>
    BY <1>9 DEF Reader!Reap, Reader!readerVars
  <2>2. ReaderTyped' BY <1>1, <2>1 DEF ReaderTyped
  <2>3. Reaped' BY <1>1, <2>1 DEF Reaped
  <2> QED BY <1>2, <1>3, <1>5, <1>6, <2>1, <2>2, <2>3
<1>10. CASE Reader!KillTimeout
  <2>1. /\ at = "wait" /\ child # "reaped" /\ at' = "killed"
        /\ UNCHANGED <<pipe, result>>
    BY <1>10 DEF Reader!KillTimeout
  <2>2. /\ child' \in {"running", "exited", "reaped"} /\ status' \in {0, 1, -15, -9}
        /\ open' \in SUBSET open /\ written' = written
    BY <1>10 DEF Reader!KillTimeout, Reader!Dies, Reader!childVars, ReaderTyped
  <2>3. ReaderTyped' BY <1>1, <2>1, <2>2 DEF ReaderTyped
  <2>4. Reaped' BY <1>1, <2>1 DEF Reaped
  <2> QED BY <1>2, <1>3, <1>5, <1>6, <2>1, <2>2, <2>3, <2>4
<1> QED BY <1>4, <1>7, <1>8, <1>9, <1>10

\* The pumps: a line, a line that is too long, or the end of the pipe.
LEMMA PumpsKeep == ReaderIInv /\ Reader!Pumps => ReaderIInv'
<1> SUFFICES ASSUME ReaderIInv, NEW s \in Stream,
                    Reader!PumpLine(s) \/ Reader!PumpBreaks(s) \/ Reader!PumpEnds(s)
             PROVE  ReaderIInv'
  BY DEF Reader!Pumps
<1> USE DEF ReaderIInv
<1>1. /\ UNCHANGED <<child, status, open, written, at, eof_seen, produced_any, result, got>>
      /\ pump[s] = "reads" /\ at = "iterate"
  BY DEF Reader!PumpLine, Reader!PumpBreaks, Reader!PumpEnds, Reader!childVars,
         Reader!readerVars
<1>2. Produced' BY <1>1 DEF Produced
<1>3. Reaped' BY <1>1 DEF Reaped
<1>4. /\ Cardinality(Places(lines, {"line"})) \in Nat
      /\ Cardinality(Places(lines, {"EOF"})) \in Nat
      /\ Cardinality(InPipes) \in Nat
  BY LinesCount, InPipesFinite
<1>5. /\ Unit("line" \in {"line"}) = 1 /\ Unit("line" \in {"EOF"}) = 0
      /\ Unit("EOF" \in {"line"}) = 0 /\ Unit("EOF" \in {"EOF"}) = 1
  BY DEF Unit
<1>6. CASE Reader!PumpLine(s)
  <2>1. /\ pipe[s] # <<>> /\ pipe' = [pipe EXCEPT ![s] = Tail(@)]
        /\ lines' = Append(lines, "line") /\ pump' = pump /\ cut' = cut
    BY <1>6 DEF Reader!PumpLine
  <2>2. /\ lines' \in Seq({"line", "EOF"})
        /\ \A T : Cardinality(Places(lines', T)) =
                      Cardinality(Places(lines, T)) + Unit("line" \in T)
    BY <2>1, QueuedIs
  <2>3. /\ pipe' \in [Stream -> Seq({"line", "long"})]
        /\ \A t \in Stream : Len(pipe'[t]) <= PipeMax /\ (t # s => pipe'[t] = pipe[t])
        /\ Cardinality(InPipes) = Cardinality(InPipes') + 1
        /\ Cardinality(InPipes') \in Nat
    BY <2>1, PipeShrinks
  <2>4. ReaderTyped' BY <1>1, <2>1, <2>2, <2>3 DEF ReaderTyped
  <2>5. WrittenAdd'
    <3>1. Cardinality(Places(lines', {"line"})) = Cardinality(Places(lines, {"line"})) + 1
      BY <1>4, <1>5, <2>2
    <3>2. written = got + Cardinality(Places(lines, {"line"})) + Cardinality(InPipes)
          /\ written \in Nat /\ got \in Nat
      BY DEF WrittenAdd, ReaderTyped
    <3> QED BY <1>1, <1>4, <2>3, <3>1, <3>2 DEF WrittenAdd
  <2>6. EndsAdd'
    <3>1. Cardinality(Places(lines', {"EOF"})) = Cardinality(Places(lines, {"EOF"}))
      BY <1>4, <1>5, <2>2
    <3> QED BY <1>1, <2>1, <2>3, <3>1 DEF EndsAdd
  <2>7. Uncut' BY <2>1 DEF Uncut
  <2> QED BY <1>2, <1>3, <2>4, <2>5, <2>6, <2>7
<1>7. CASE Reader!PumpBreaks(s) \/ Reader!PumpEnds(s)
  <2>1. pipe' = pipe /\ lines' = Append(lines, "EOF")
    BY <1>7 DEF Reader!PumpBreaks, Reader!PumpEnds
  <2>2. PICK x \in {"broken", "over"} :
           /\ pump' = [pump EXCEPT ![s] = x]
           /\ x = "over" => pipe[s] = <<>> /\ s \notin open
    BY <1>7 DEF Reader!PumpBreaks, Reader!PumpEnds
  <2>3. /\ lines' \in Seq({"line", "EOF"}) /\ lines'[Len(lines')] = "EOF"
        /\ \A T : Cardinality(Places(lines', T)) =
                      Cardinality(Places(lines, T)) + Unit("EOF" \in T)
    BY <2>1, QueuedIs
  <2>4. /\ pump' \in [Stream -> {"reads", "broken", "over"}]
        /\ pump'[s] = x /\ \A t \in Stream : t # s => pump'[t] = pump[t]
        /\ Cardinality(Places(pump', {"broken", "over"})) =
               Cardinality(Places(pump, {"broken", "over"})) + 1
    BY <1>1, <2>2, PumpIs
  <2>5. ReaderTyped' BY <1>1, <2>1, <2>3, <2>4 DEF ReaderTyped
  <2>6. WrittenAdd'
    <3>1. Cardinality(Places(lines', {"line"})) = Cardinality(Places(lines, {"line"}))
      BY <1>4, <1>5, <2>3
    <3>2. InPipes' = InPipes BY <2>1 DEF InPipes
    <3> QED BY <1>1, <3>1, <3>2 DEF WrittenAdd
  <2>7. EndsAdd'
    <3>1. Cardinality(Places(lines', {"EOF"})) = Cardinality(Places(lines, {"EOF"})) + 1
      BY <1>4, <1>5, <2>3
    <3>2. Cardinality(Places(lines, {"EOF"})) + eof_seen
              = Cardinality(Places(pump, {"broken", "over"}))
          /\ eof_seen \in Nat
      BY <1>1 DEF EndsAdd, ReaderTyped
    <3>3. Cardinality(Places(lines', {"EOF"})) + eof_seen'
              = Cardinality(Places(pump', {"broken", "over"}))
      BY <1>1, <1>4, <2>4, <3>1, <3>2
    <3>4. \A t \in Stream : pump'[t] = "over" => pipe'[t] = <<>> /\ t \notin open'
      BY <1>1, <2>1, <2>2, <2>4 DEF EndsAdd
    <3> QED BY <2>3, <3>3, <3>4 DEF EndsAdd
  <2>8. Uncut'
    <3>1. CASE Reader!PumpBreaks(s) BY <3>1 DEF Reader!PumpBreaks, Uncut
    <3>2. CASE Reader!PumpEnds(s)
      <4>1. pump' = [pump EXCEPT ![s] = "over"] /\ cut' = cut
        BY <3>2 DEF Reader!PumpEnds
      <4>2. \A t \in Stream : pump'[t] = "broken" => pump[t] = "broken"
        BY <4>1 DEF ReaderTyped
      <4> QED BY <4>1, <4>2 DEF Uncut
    <3> QED BY <1>7, <3>1, <3>2
  <2> QED BY <1>2, <1>3, <2>5, <2>6, <2>7, <2>8
<1> QED BY <1>6, <1>7

\* The reader: it takes from the queue, ends the iteration, and ends the child.
LEMMA ReaderKeeps ==
    ASSUME ReaderIInv,
           Reader!Get \/ Reader!Finally \/ Reader!Terminate \/ Reader!Waited
    PROVE  ReaderIInv'
<1> USE DEF ReaderIInv
<1>1. UNCHANGED <<child, status, open, written, pipe, pump, cut>>
  BY DEF Reader!Get, Reader!Finally, Reader!Terminate, Reader!Waited, Reader!childVars
<1>2. Uncut' BY <1>1 DEF Uncut
<1>3. InPipes' = InPipes /\ Cardinality(InPipes) \in Nat
  BY <1>1, InPipesFinite DEF InPipes
<1>4. CASE Reader!Get
  <2>1. /\ at = "iterate" /\ eof_seen < Cardinality(Stream) /\ lines # <<>>
        /\ lines' = Tail(lines) /\ UNCHANGED <<at, result>>
    BY <1>4, StreamsAre DEF Reader!Get
  <2>2. /\ lines' \in Seq({"line", "EOF"}) /\ Head(lines) \in {"line", "EOF"}
        /\ lines' = <<>> \/ lines'[Len(lines')] = lines[Len(lines)]
        /\ \A T : Cardinality(Places(lines', T)) =
                      Cardinality(Places(lines, T)) - Unit(Head(lines) \in T)
    BY <2>1, GotIs
  <2>3. /\ Cardinality(Places(lines, {"line"})) \in Nat
        /\ Cardinality(Places(lines, {"EOF"})) \in Nat
    BY LinesCount
  <2>4. Cardinality(Stream) \in Nat BY CommandsAssumption, FS_CardinalityType
  <2>5. Reaped' BY <1>1, <2>1 DEF Reaped
  <2>6. CASE Head(lines) = "EOF"
    <3>1. eof_seen' = eof_seen + 1 /\ UNCHANGED <<produced_any, got>>
      BY <1>4, <2>6 DEF Reader!Get
    <3>2. Unit(Head(lines) \in {"line"}) = 0 /\ Unit(Head(lines) \in {"EOF"}) = 1
      BY <2>6 DEF Unit
    <3>3. /\ Cardinality(Places(lines', {"line"})) = Cardinality(Places(lines, {"line"}))
          /\ Cardinality(Places(lines', {"EOF"})) = Cardinality(Places(lines, {"EOF"})) - 1
      BY <2>2, <2>3, <3>2
    <3>4. ReaderTyped' BY <1>1, <2>1, <2>2, <2>4, <3>1 DEF ReaderTyped
    <3>5. WrittenAdd' BY <1>1, <1>3, <3>1, <3>3 DEF WrittenAdd
    <3>6. EndsAdd' BY <1>1, <2>1, <2>2, <2>3, <3>1, <3>3 DEF EndsAdd, ReaderTyped
    <3>7. Produced' BY <3>1 DEF Produced
    <3> QED BY <1>2, <2>5, <3>4, <3>5, <3>6, <3>7
  <2>7. CASE Head(lines) = "line"
    <3>1. eof_seen' = eof_seen /\ got' = got + 1 /\ produced_any'
      BY <1>4, <2>7 DEF Reader!Get
    <3>2. Unit(Head(lines) \in {"line"}) = 1 /\ Unit(Head(lines) \in {"EOF"}) = 0
      BY <2>7 DEF Unit
    <3>3. /\ Cardinality(Places(lines', {"line"})) = Cardinality(Places(lines, {"line"})) - 1
          /\ Cardinality(Places(lines', {"EOF"})) = Cardinality(Places(lines, {"EOF"}))
      BY <2>2, <2>3, <3>2
    <3>4. ReaderTyped' BY <1>1, <2>1, <2>2, <3>1 DEF ReaderTyped
    <3>5. WrittenAdd' BY <1>1, <1>3, <2>3, <3>1, <3>3 DEF WrittenAdd, ReaderTyped
    <3>6. EndsAdd' BY <1>1, <2>1, <2>2, <3>1, <3>3 DEF EndsAdd
    <3>7. Produced'
      <4>1. got \in Nat /\ got' > 0 BY <3>1 DEF ReaderTyped
      <4> QED BY <3>1, <4>1 DEF Produced
    <3> QED BY <1>2, <2>5, <3>4, <3>5, <3>6, <3>7
  <2> QED BY <2>2, <2>6, <2>7
<1>5. ASSUME UNCHANGED <<lines, eof_seen, produced_any, got>>,
             at' \in {"terminate", "wait", "done"}, Reaped'
      PROVE  ReaderIInv'
  <2>1. ReaderTyped' BY <1>1, <1>5 DEF ReaderTyped
  <2>2. WrittenAdd' BY <1>1, <1>3, <1>5 DEF WrittenAdd
  <2>3. EndsAdd' BY <1>1, <1>5 DEF EndsAdd
  <2>4. Produced' BY <1>5 DEF Produced
  <2> QED BY <1>2, <1>5, <2>1, <2>2, <2>3, <2>4
<1>6. CASE Reader!Finally
  <2>1. /\ UNCHANGED <<lines, eof_seen, produced_any, got>> /\ at' = "terminate"
        /\ at = "iterate"
        /\ \/ eof_seen = Cardinality(Stream) /\ result' = result
           \/ result' = "abandoned"
    BY <1>6, StreamsAre DEF Reader!Finally
  <2>2. Reaped' BY <1>1, <2>1 DEF Reaped
  <2> QED BY <1>5, <2>1, <2>2
<1>7. ASSUME child = "reaped", at \in {"terminate", "wait", "killed"}, Reader!Over(status),
             UNCHANGED <<eof_seen, produced_any, got>>
      PROVE  Reaped' /\ at' = "done"
  <2>1. at' = "done" /\ result \in {"none", "abandoned"}
    BY <1>7 DEF Reader!Over, Reaped
  <2>2. CASE result = "abandoned"
    BY <1>1, <1>7, <2>1, <2>2 DEF Reader!Over, Reaped
  <2>3. CASE result # "abandoned"
    <3>1. eof_seen = Cardinality(Stream) BY <1>7, <2>3 DEF Reaped
    <3>2. produced_any <=> got # 0 BY DEF Produced, ReaderTyped
    <3>3. CASE status # 0 /\ ~produced_any
      <4>1. result' = "CommandError" BY <1>7, <2>3, <3>3 DEF Reader!Over
      <4> QED BY <1>1, <1>7, <2>1, <3>1, <3>2, <3>3, <4>1 DEF Reaped
    <3>4. CASE ~(status # 0 /\ ~produced_any)
      <4>1. result' = "returned" BY <1>7, <2>3, <3>4 DEF Reader!Over
      <4> QED BY <1>1, <1>7, <2>1, <3>1, <3>2, <3>4, <4>1 DEF Reaped
    <3> QED BY <3>3, <3>4
  <2> QED BY <2>1, <2>2, <2>3
<1>8. CASE Reader!Terminate
  <2>1. UNCHANGED <<lines, eof_seen, produced_any, got>> /\ at = "terminate"
    BY <1>8 DEF Reader!Terminate
  <2>2. CASE child = "reaped"
    <3>1. Reader!Over(status) BY <1>8, <2>2 DEF Reader!Terminate
    <3> QED BY <1>5, <1>7, <2>1, <2>2, <3>1
  <2>3. CASE child # "reaped"
    <3>1. at' = "wait" /\ result' = result BY <1>8, <2>3 DEF Reader!Terminate
    <3>2. Reaped' BY <1>1, <2>1, <3>1 DEF Reaped
    <3> QED BY <1>5, <2>1, <3>1, <3>2
  <2> QED BY <2>2, <2>3
<1>9. CASE Reader!Waited
  <2>1. /\ UNCHANGED <<lines, eof_seen, produced_any, got>> /\ at \in {"wait", "killed"}
        /\ child = "reaped" /\ Reader!Over(status)
    BY <1>9 DEF Reader!Waited
  <2> QED BY <1>5, <1>7, <2>1
<1> QED BY <1>4, <1>6, <1>8, <1>9

\* Every step of the reader keeps its invariant.
LEMMA ReaderSteps == ReaderIInv /\ Reader!Next => ReaderIInv'
<1> SUFFICES ASSUME ReaderIInv, Reader!Next PROVE ReaderIInv'
  OBVIOUS
<1>1. CASE Reader!Pumps BY <1>1, PumpsKeep
<1>2. CASE Reader!Get \/ Reader!Finally \/ Reader!Terminate \/ Reader!Waited
  BY <1>2, ReaderKeeps
<1>3. CASE \/ \E s \in Stream : Reader!Write(s) \/ Reader!Close(s)
           \/ Reader!Exit \/ Reader!Obey \/ Reader!Reap \/ Reader!KillTimeout
  <2>1. UNCHANGED <<pump, lines, eof_seen, produced_any, got, cut>>
    BY <1>3 DEF Reader!Write, Reader!Close, Reader!Exit, Reader!Obey, Reader!Reap,
                Reader!KillTimeout, Reader!readerVars
  <2> QED BY <1>3, <2>1, ChildKeeps
<1> QED BY <1>1, <1>2, <1>3 DEF Reader!Next, Reader!Reader, Reader!Child

\* A reader starts with its invariant, and so does one that is over.
LEMMA ReaderStarts == Reader!Init \/ ReaderOver => ReaderIInv
<1>1. IsFiniteSet(Stream) /\ Cardinality(Stream) \in Nat /\ PipeMax \in Nat
  BY CommandsAssumption, FS_CardinalityType
<1>2. ASSUME lines = <<>>
      PROVE  /\ lines \in Seq({"line", "EOF"})
             /\ \A T : Cardinality(Places(lines, T)) = 0
  <2>1. lines \in Seq({"line", "EOF"}) /\ DOMAIN lines = {} BY <1>2
  <2>2. \A T : Places(lines, T) = {} BY <2>1 DEF Places
  <2> QED BY <2>1, <2>2, FS_EmptySet
<1>3. ASSUME pipe = [s \in Stream |-> <<>>]
      PROVE  /\ pipe \in [Stream -> Seq({"line", "long"})]
             /\ \A s \in Stream : Len(pipe[s]) <= PipeMax
             /\ Cardinality(InPipes) = 0
  <2>1. \A s \in Stream : /\ pipe[s] = <<>> /\ Len(pipe[s]) = 0 /\ DOMAIN pipe[s] = {}
                          /\ pipe[s] \in Seq({"line", "long"})
    BY <1>3
  <2>2. InPipes = {} BY <2>1 DEF InPipes
  <2> QED BY <1>1, <1>3, <2>1, <2>2, FS_EmptySet
<1>4. ASSUME Reader!Init PROVE ReaderIInv
  <2>1. /\ child = "running" /\ status = 0 /\ open = Stream
        /\ pipe = [s \in Stream |-> <<>>] /\ pump = [s \in Stream |-> "reads"]
        /\ lines = <<>> /\ at = "iterate" /\ eof_seen = 0
        /\ result = "none" /\ written = 0 /\ got = 0
    BY <1>4, Zenon DEF Reader!Init
  <2>2. produced_any = FALSE BY <1>4 DEF Reader!Init
  <2>3. \A s \in Stream : pump[s] = "reads" BY <2>1
  <2>4. ReaderTyped BY <1>1, <1>2, <1>3, <2>1 DEF ReaderTyped
  <2>5. WrittenAdd BY <1>2, <1>3, <2>1 DEF WrittenAdd
  <2>6. EndsAdd
    <3>1. Places(pump, {"broken", "over"}) = {} BY <2>1, <2>3 DEF Places
    <3>2. Cardinality(Places(pump, {"broken", "over"})) = 0 BY <3>1, FS_EmptySet
    <3> QED BY <1>2, <2>1, <2>3, <3>2 DEF EndsAdd
  <2>7. Uncut BY <2>3 DEF Uncut
  <2>8. Produced BY <2>1, <2>2 DEF Produced
  <2>9. Reaped BY <2>1 DEF Reaped
  <2> QED BY <2>4, <2>5, <2>6, <2>7, <2>8, <2>9 DEF ReaderIInv
<1>5. ASSUME ReaderOver PROVE ReaderIInv
  <2>1. /\ child = "reaped" /\ status = 0 /\ open = {}
        /\ pipe = [s \in Stream |-> <<>>] /\ pump = [s \in Stream |-> "over"]
        /\ lines = <<>> /\ at = "done" /\ eof_seen = Cardinality(Stream)
        /\ result = "returned" /\ written = 0 /\ got = 0
    BY <1>5, Zenon DEF ReaderOver
  <2>2. produced_any = FALSE BY <1>5 DEF ReaderOver
  <2>3. \A s \in Stream : pump[s] = "over" /\ pipe[s] = <<>> BY <2>1
  <2>4. ReaderTyped BY <1>1, <1>2, <1>3, <2>1 DEF ReaderTyped
  <2>5. WrittenAdd BY <1>2, <1>3, <2>1 DEF WrittenAdd
  <2>6. EndsAdd
    <3>1. Places(pump, {"broken", "over"}) = Stream BY <2>1, <2>3 DEF Places
    <3> QED BY <1>1, <1>2, <2>1, <2>3, <3>1 DEF EndsAdd
  <2>7. Uncut BY <2>3 DEF Uncut
  <2>8. Produced BY <2>1, <2>2 DEF Produced
  <2>9. Reaped BY <2>1 DEF Reaped
  <2> QED BY <2>4, <2>5, <2>6, <2>7, <2>8, <2>9 DEF ReaderIInv
<1> QED BY <1>4, <1>5

\* The steps of other parts keep it.
LEMMA ReaderStays == ReaderIInv /\ UNCHANGED readerVars => ReaderIInv'
<1> SUFFICES ASSUME ReaderIInv, UNCHANGED readerVars PROVE ReaderIInv'
  OBVIOUS
<1> USE DEF ReaderIInv, readerVars
<1>1. ReaderTyped' BY DEF ReaderTyped
<1>2. WrittenAdd' BY DEF WrittenAdd, InPipes
<1>3. EndsAdd' BY DEF EndsAdd
<1>4. Uncut' BY DEF Uncut
<1>5. Produced' BY DEF Produced
<1>6. Reaped' BY DEF Reaped
<1> QED BY <1>1, <1>2, <1>3, <1>4, <1>5, <1>6

\* What the invariant of the reader says of it.
LEMMA ReaderKept ==
    ReaderIInv => /\ Reader!TypeOK /\ Reader!EveryLineYielded
                  /\ Reader!OwnFailureReported /\ Reader!NoOrphan
<1> SUFFICES ASSUME ReaderIInv
             PROVE  /\ Reader!TypeOK /\ Reader!EveryLineYielded
                    /\ Reader!OwnFailureReported /\ Reader!NoOrphan
  OBVIOUS
<1> USE DEF ReaderIInv
<1>1. /\ Cardinality(Places(lines, {"line"})) \in Nat
      /\ Cardinality(Places(lines, {"EOF"})) \in Nat
      /\ Cardinality(InPipes) \in Nat
  BY LinesCount, InPipesFinite
<1>2. Reader!TypeOK
  <2>1. got <= written BY <1>1 DEF WrittenAdd, ReaderTyped
  <2>2. eof_seen \in 0 .. Reader!Cardinality(Stream)
    BY DEF ReaderTyped, Reader!Cardinality, Cardinality
  <2> QED BY <2>1, <2>2 DEF ReaderTyped, Reader!TypeOK
<1>3. Reader!EveryLineYielded
  <2> SUFFICES ASSUME at = "done", result # "abandoned", ~cut
               PROVE  got = written
    BY DEF Reader!EveryLineYielded
  <2>1. eof_seen = Cardinality(Stream) BY DEF Reaped
  <2>2. IsFiniteSet(Stream) /\ Cardinality(Stream) \in Nat
    BY CommandsAssumption, FS_CardinalityType
  <2>3. Places(pump, {"broken", "over"}) \in SUBSET Stream BY DEF Places, ReaderTyped
  <2>4. /\ IsFiniteSet(Places(pump, {"broken", "over"}))
        /\ Cardinality(Places(pump, {"broken", "over"})) \in Nat
        /\ Cardinality(Places(pump, {"broken", "over"})) <= Cardinality(Stream)
    BY <2>2, <2>3, FS_Subset, FS_CardinalityType
  <2>5. /\ Cardinality(Places(lines, {"EOF"})) = 0
        /\ Cardinality(Places(pump, {"broken", "over"})) = Cardinality(Stream)
    BY <1>1, <2>1, <2>2, <2>4 DEF EndsAdd
  <2>6. Places(pump, {"broken", "over"}) = Stream
    BY <2>2, <2>3, <2>5, FS_Subset
  <2>7. \A s \in Stream : pump[s] = "over" /\ pipe[s] = <<>>
    BY <2>6 DEF Places, Uncut, EndsAdd
  <2>8. Places(lines, {"EOF"}) = {}
    <3>1. IsFiniteSet(Places(lines, {"EOF"})) BY PlacesFinite DEF ReaderTyped
    <3> QED BY <2>5, <3>1, FS_EmptySet
  <2>9. lines = <<>>
    <3>1. lines = <<>> \/ lines[Len(lines)] = "EOF" BY <2>7 DEF EndsAdd
    <3>2. lines # <<>> => Len(lines) \in DOMAIN lines BY DEF ReaderTyped
    <3> QED BY <2>8, <3>1, <3>2 DEF Places
  <2>10. Cardinality(Places(lines, {"line"})) = 0
    <3>1. Places(lines, {"line"}) = {} BY <2>9 DEF Places
    <3> QED BY <3>1, FS_EmptySet
  <2>11. Cardinality(InPipes) = 0
    <3>1. \A s \in Stream : DOMAIN pipe[s] = {} BY <2>7
    <3>2. InPipes = {} BY <3>1 DEF InPipes
    <3> QED BY <3>2, FS_EmptySet
  <2> QED BY <2>10, <2>11 DEF WrittenAdd, ReaderTyped
<1>4. Reader!OwnFailureReported BY DEF Reader!OwnFailureReported, Reaped
<1>5. Reader!NoOrphan BY DEF Reader!NoOrphan, Reaped
<1> QED BY <1>2, <1>3, <1>4, <1>5

-----------------------------------------------------------------------------
(* The parser of a stream.                                                 *)

ParsedEntry ==
    {e \in [lines : Seq(Line), fmt : Format \cup {"PLAINTEXT"}] :
        Len(e.lines) \in 1 .. MaxContinuation + 1}

ParserTyped ==
    /\ forced_fmt \in Format \cup {"none"} /\ sticky \in Format \cup {"none"}
    /\ first_format \in Format \cup {"none", "PLAINTEXT"}
    /\ pending_continuations \in 0 .. MaxContinuation
    /\ stats \in [lines : Nat, blank : Nat, continuations : Nat, fallback : Nat,
                  format_switches : Nat]
    /\ fed \in Seq(Line) /\ out \in Seq(ParsedEntry)
    /\ pending \in Seq(ParsedEntry) /\ Len(pending) <= 1
    /\ pending # <<>> => Len(pending[1].lines) = pending_continuations + 1

\* What entries are counted for.
LinesOf(es) == [i \in DOMAIN es |-> es[i].lines]
FallbacksOf(es) == {i \in DOMAIN es : es[i].fmt \notin Head(es[i].lines).parses}
SwitchAt(es, i) == es[i].fmt # es[i - 1].fmt /\ es[i - 1].fmt # "PLAINTEXT"
SwitchesOf(es) == {i \in 2 .. Len(es) : SwitchAt(es, i)}

\* The entries, the statistics and the lines fed are about the same stream.
Accounted(es) ==
    /\ FlattenSeq(LinesOf(es)) = fed
    /\ stats.lines = stats.blank + stats.continuations + Len(es)
    /\ stats.fallback = Cardinality(FallbacksOf(es))
    /\ stats.format_switches = Cardinality(SwitchesOf(es))

\* An entry has the forced format, one of its first line, or one that stuck.
Fits(e) ==
    \/ e.fmt = forced_fmt
    \/ forced_fmt = "none" /\ e.fmt \in Head(e.lines).fits \cup {Head(e.lines).detected}
    \/ forced_fmt = "none" /\ Head(e.lines).detected = "PLAINTEXT"
EntriesFit(es) == \A i \in DOMAIN es : Fits(es[i])

\* The format that sticks is the forced one, or the one of the last entry, if any
\* entry has had a format yet.
Stuck(es) ==
    /\ forced_fmt # "none" => /\ sticky = forced_fmt
                              /\ \A i \in DOMAIN es : es[i].fmt = forced_fmt
    /\ forced_fmt = "none" /\ sticky = "none" =>
          \A i \in DOMAIN es : es[i].fmt = "PLAINTEXT"
    /\ forced_fmt = "none" /\ sticky # "none" =>
          es # <<>> /\ es[Len(es)].fmt = sticky

ParserIInv ==
    /\ ParserTyped
    /\ Accounted(Parser!Entries) /\ EntriesFit(Parser!Entries) /\ Stuck(Parser!Entries)

\* The entries of the finished and the unfinished ones.
LEMMA EntriesAre ==
    ASSUME NEW S, NEW o \in Seq(S), NEW p \in Seq(S), Len(p) <= 1
    PROVE  /\ o \o p \in Seq(S)
           /\ p = <<>> => o \o p = o
           /\ p # <<>> => /\ Len(p) = 1 /\ p[1] \in S /\ p = <<p[1]>>
                          /\ o \o p = Append(o, p[1])
<1>1. o \o p \in Seq(S) OBVIOUS
<1>2. ASSUME p = <<>> PROVE o \o p = o BY <1>2, ConcatEmptySeq
<1>3. ASSUME p # <<>>
      PROVE  Len(p) = 1 /\ p[1] \in S /\ p = <<p[1]>> /\ o \o p = Append(o, p[1])
  <2>1. Len(p) = 1 /\ p[1] \in S
    <3>1. Len(p) \in Nat /\ Len(p) # 0 BY <1>3
    <3>2. 1 \in 1 .. Len(p) BY <3>1
    <3> QED BY <3>1, <3>2
  <2>2. p = <<p[1]>> BY <2>1
  <2>3. o \o <<p[1]>> = Append(o, p[1]) BY <2>1, AppendIsConcat
  <2> QED BY <2>1, <2>2, <2>3, Zenon
<1> QED BY <1>1, <1>2, <1>3

\* One entry more.
LEMMA OneEntryMore ==
    ASSUME NEW es \in Seq(ParsedEntry), NEW e \in ParsedEntry, NEW r, r = Append(es, e)
    PROVE  /\ FlattenSeq(LinesOf(es)) \in Seq(Line)
           /\ FlattenSeq(LinesOf(r)) = FlattenSeq(LinesOf(es)) \o e.lines
           /\ Cardinality(FallbacksOf(es)) \in Nat
           /\ Cardinality(FallbacksOf(r)) =
                  Cardinality(FallbacksOf(es)) + Unit(e.fmt \notin Head(e.lines).parses)
           /\ Cardinality(SwitchesOf(es)) \in Nat
           /\ Cardinality(SwitchesOf(r)) = Cardinality(SwitchesOf(es)) +
                  Unit(es # <<>> /\ e.fmt # es[Len(es)].fmt /\ es[Len(es)].fmt # "PLAINTEXT")
<1> DEFINE n == Len(es)
<1>1. /\ n \in Nat /\ Len(r) = n + 1 /\ DOMAIN r = 1 .. n + 1 /\ DOMAIN es = 1 .. n
      /\ r \in Seq(ParsedEntry) /\ r[n + 1] = e
      /\ \A i \in 1 .. n : r[i] = es[i]
  OBVIOUS
<1>2. /\ LinesOf(es) \in Seq(Seq(Line)) /\ LinesOf(r) \in Seq(Seq(Line))
      /\ Len(LinesOf(es)) = n /\ Len(LinesOf(r)) = n + 1
      /\ \A i \in 1 .. n : LinesOf(r)[i] = LinesOf(es)[i]
      /\ LinesOf(r)[n + 1] = e.lines
  <2>1. /\ \A i \in 1 .. n : es[i].lines \in Seq(Line) /\ r[i] = es[i]
        /\ \A i \in 1 .. n + 1 : r[i].lines \in Seq(Line)
    BY <1>1 DEF ParsedEntry
  <2> HIDE DEF n
  <2> QED BY <1>1, <2>1 DEF LinesOf
<1>3. /\ FlattenSeq(LinesOf(es)) \in Seq(Line)
      /\ FlattenSeq(LinesOf(r)) = FlattenSeq(LinesOf(es)) \o e.lines
  <2>1. /\ FlattenSeq(LinesOf(es)) \in Seq(Line)
        /\ FlattenSeq(LinesOf(r)) = FlattenSeq(LinesOf(es)) \o LinesOf(r)[Len(LinesOf(r))]
    BY <1>2, FlattenMore
  <2> QED BY <1>2, <2>1
<1>4. /\ Cardinality(FallbacksOf(es)) \in Nat
      /\ Cardinality(FallbacksOf(r)) =
             Cardinality(FallbacksOf(es)) + Unit(e.fmt \notin Head(e.lines).parses)
  <2>1. /\ FallbacksOf(es) \subseteq 1 .. n /\ FallbacksOf(r) \subseteq 1 .. n + 1
        /\ \A i \in 1 .. n : i \in FallbacksOf(r) <=> i \in FallbacksOf(es)
        /\ n + 1 \in FallbacksOf(r) <=> e.fmt \notin Head(e.lines).parses
    BY <1>1 DEF FallbacksOf
  <2> HIDE DEF n
  <2>2. /\ Cardinality(FallbacksOf(es)) \in Nat
        /\ Cardinality(FallbacksOf(r)) =
               Cardinality(FallbacksOf(es)) + Unit(n + 1 \in FallbacksOf(r))
    BY <1>1, <2>1, IndicesMore
  <2> QED BY <2>1, <2>2 DEF Unit
<1>5. /\ Cardinality(SwitchesOf(es)) \in Nat
      /\ Cardinality(SwitchesOf(r)) = Cardinality(SwitchesOf(es)) +
             Unit(es # <<>> /\ e.fmt # es[n].fmt /\ es[n].fmt # "PLAINTEXT")
  <2>1. /\ SwitchesOf(es) \subseteq 1 .. n /\ SwitchesOf(r) \subseteq 1 .. n + 1
    BY <1>1 DEF SwitchesOf
  <2>2. ASSUME NEW i \in 1 .. n PROVE i \in SwitchesOf(r) <=> i \in SwitchesOf(es)
    <3>1. i \in 2 .. n <=> i \in 2 .. n + 1 BY <1>1
    <3>2. ASSUME i \in 2 .. n PROVE r[i] = es[i] /\ r[i - 1] = es[i - 1]
      <4>1. i \in 1 .. n /\ i - 1 \in 1 .. n BY <3>2
      <4> QED BY <1>1, <4>1
    <3> QED BY <1>1, <3>1, <3>2, Zenon DEF SwitchesOf, SwitchAt
  <2>3. n + 1 \in SwitchesOf(r) <=>
            es # <<>> /\ e.fmt # es[n].fmt /\ es[n].fmt # "PLAINTEXT"
    <3>1. n + 1 \in 2 .. n + 1 <=> es # <<>> BY <1>1
    <3>2. ASSUME es # <<>> PROVE r[n + 1 - 1] = es[n]
      <4>1. n + 1 - 1 = n /\ n \in 1 .. n BY <1>1, <3>2
      <4> QED BY <1>1, <4>1
    <3>3. Len(r) = n + 1 /\ r[n + 1] = e BY <1>1
    <3>4. n + 1 \in SwitchesOf(r) <=>
              /\ n + 1 \in 2 .. n + 1
              /\ e.fmt # r[n + 1 - 1].fmt /\ r[n + 1 - 1].fmt # "PLAINTEXT"
      BY <3>3 DEF SwitchesOf, SwitchAt
    <3> QED BY <3>1, <3>2, <3>4
  <2> HIDE DEF n
  <2>4. /\ Cardinality(SwitchesOf(es)) \in Nat
        /\ Cardinality(SwitchesOf(r)) =
               Cardinality(SwitchesOf(es)) + Unit(n + 1 \in SwitchesOf(r))
    BY <1>1, <2>1, <2>2, IndicesMore
  <2> QED BY <2>3, <2>4 DEF Unit
<1> QED BY <1>3, <1>4, <1>5

\* One line more in the last entry.
LEMMA OneLineMore ==
    ASSUME NEW es \in Seq(ParsedEntry), es # <<>>, NEW line \in Line,
           NEW r \in Seq(ParsedEntry), Len(r) = Len(es),
           \A i \in 1 .. Len(es) - 1 : r[i] = es[i],
           r[Len(es)].fmt = es[Len(es)].fmt,
           r[Len(es)].lines = Append(es[Len(es)].lines, line)
    PROVE  /\ FlattenSeq(LinesOf(r)) = FlattenSeq(LinesOf(es)) \o <<line>>
           /\ FallbacksOf(r) = FallbacksOf(es) /\ SwitchesOf(r) = SwitchesOf(es)
           /\ \A i \in DOMAIN es : r[i].fmt = es[i].fmt /\ Head(r[i].lines) = Head(es[i].lines)
<1> DEFINE n == Len(es)
<1>1. /\ n \in Nat /\ n \in 1 .. n /\ DOMAIN es = 1 .. n /\ DOMAIN r = 1 .. n
      /\ \A i \in 1 .. n : /\ es[i].lines \in Seq(Line) /\ r[i].lines \in Seq(Line)
                           /\ es[i].lines # <<>>
      /\ \A i \in 1 .. n : i = n \/ i \in 1 .. n - 1
  BY DEF ParsedEntry
<1>2. ASSUME NEW i \in 1 .. n
      PROVE  r[i].fmt = es[i].fmt /\ Head(r[i].lines) = Head(es[i].lines)
  <2>1. CASE i = n
    <3>1. es[n].lines \in Seq(Line) /\ es[n].lines # <<>> BY <1>1
    <3>2. Head(Append(es[n].lines, line)) = Head(es[n].lines) BY <3>1
    <3> QED BY <2>1, <3>2
  <2>2. CASE i \in 1 .. n - 1 BY <2>2
  <2> QED BY <1>1, <2>1, <2>2
<1>3. FlattenSeq(LinesOf(r)) = FlattenSeq(LinesOf(es)) \o <<line>>
  <2>1. /\ LinesOf(es) \in Seq(Seq(Line)) /\ LinesOf(r) \in Seq(Seq(Line))
        /\ Len(LinesOf(es)) = n /\ Len(LinesOf(r)) = n /\ LinesOf(es) # <<>>
        /\ \A i \in 1 .. n : LinesOf(r)[i] = r[i].lines /\ LinesOf(es)[i] = es[i].lines
    <3>1. \A i \in 1 .. n : es[i].lines \in Seq(Line) /\ r[i].lines \in Seq(Line) BY <1>1
    <3>2. n \in Nat /\ DOMAIN es = 1 .. n /\ DOMAIN r = 1 .. n BY <1>1
    <3>3. n # 0 OBVIOUS
    <3> HIDE DEF n
    <3> QED BY <3>1, <3>2, <3>3 DEF LinesOf
  <2>2. <<line>> \in Seq(Line) OBVIOUS
  <2>3. LinesOf(r)[n] = LinesOf(es)[n] \o <<line>>
    <3>1. es[n].lines \in Seq(Line) BY <1>1
    <3>2. Append(es[n].lines, line) = es[n].lines \o <<line>> BY <3>1, AppendIsConcat
    <3> QED BY <1>1, <2>1, <3>2
  <2>4. \A i \in 1 .. n - 1 : LinesOf(r)[i] = LinesOf(es)[i]
    <3>1. \A i \in 1 .. n - 1 : i \in 1 .. n
      <4>1. n \in Nat BY <1>1
      <4> HIDE DEF n
      <4> QED BY <4>1
    <3>2. \A i \in 1 .. n - 1 : r[i] = es[i] OBVIOUS
    <3> HIDE DEF n
    <3> QED BY <2>1, <3>1, <3>2, Zenon
  <2>5. /\ LinesOf(r)[Len(LinesOf(es))] = LinesOf(es)[Len(LinesOf(es))] \o <<line>>
        /\ \A i \in 1 .. Len(LinesOf(es)) - 1 : LinesOf(r)[i] = LinesOf(es)[i]
        /\ Len(LinesOf(r)) = Len(LinesOf(es))
    BY <2>1, <2>3, <2>4
  <2> QED BY <2>1, <2>2, <2>5, FlattenLonger
<1>4. FallbacksOf(r) = FallbacksOf(es)
  BY <1>1, <1>2 DEF FallbacksOf
<1>5. SwitchesOf(r) = SwitchesOf(es)
  <2>1. ASSUME NEW i \in 2 .. n PROVE SwitchAt(r, i) <=> SwitchAt(es, i)
    <3>1. i \in 1 .. n /\ i - 1 \in 1 .. n OBVIOUS
    <3> QED BY <1>2, <3>1 DEF SwitchAt
  <2>2. SwitchesOf(r) = {i \in 2 .. n : SwitchAt(r, i)} /\
        SwitchesOf(es) = {i \in 2 .. n : SwitchAt(es, i)}
    BY DEF SwitchesOf
  <2> QED BY <2>1, <2>2
<1> QED BY <1>1, <1>2, <1>3, <1>4, <1>5

\* The format of the next entry.
LEMMA FormatIs ==
    ASSUME ParserTyped, NEW es \in Seq(ParsedEntry), Stuck(es), NEW line \in Line,
           NEW fmt, fmt = Parser!FormatFor(line)
    PROVE  /\ [lines |-> <<line>>, fmt |-> fmt] \in ParsedEntry
           /\ Fits([lines |-> <<line>>, fmt |-> fmt])
           /\ forced_fmt # "none" => fmt = forced_fmt /\ fmt # "PLAINTEXT"
           /\ forced_fmt = "none" /\ sticky # "none" => fmt # "PLAINTEXT"
           /\ fmt # "PLAINTEXT" => fmt \in Format
<1>1. /\ line.fits \subseteq Format /\ line.detected \in Format \cup {"PLAINTEXT"}
      /\ "none" \notin Format /\ "PLAINTEXT" \notin Format
      /\ MaxContinuation \in Nat
  BY CommandsAssumption
<1>2. forced_fmt \in Format \cup {"none"} /\ sticky \in Format \cup {"none"}
  BY DEF ParserTyped
<1>3. /\ fmt \in Format \cup {"PLAINTEXT"}
      /\ forced_fmt # "none" => fmt = forced_fmt
      /\ forced_fmt = "none" /\ sticky # "none" => fmt # "PLAINTEXT"
      /\ forced_fmt = "none" => \/ fmt \in line.fits \/ fmt = line.detected
                                \/ line.detected = "PLAINTEXT"
  BY <1>1, <1>2 DEF Parser!FormatFor
<1>4. <<line>> \in Seq(Line) /\ Len(<<line>>) = 1 /\ Head(<<line>>) = line
  OBVIOUS
<1>5. [lines |-> <<line>>, fmt |-> fmt] \in ParsedEntry
  <2>1. 1 \in 1 .. MaxContinuation + 1 BY <1>1
  <2> QED BY <1>3, <1>4, <2>1 DEF ParsedEntry
<1>6. Fits([lines |-> <<line>>, fmt |-> fmt])
  BY <1>2, <1>3, <1>4 DEF Fits
<1> QED BY <1>1, <1>2, <1>3, <1>5, <1>6

\* A line that begins an entry.
LEMMA ParserBegins ==
    ASSUME ParserIInv, NEW line \in Line, Parser!Begin(line)
    PROVE  ParserIInv'
<1>1. PICK es, fmt : es = Parser!Entries /\ fmt = Parser!FormatFor(line)
  OBVIOUS
<1>2. PICK e, r : e = [lines |-> <<line>>, fmt |-> fmt] /\ r = Append(es, e)
  OBVIOUS
<1>3. /\ ParserTyped /\ Accounted(es) /\ EntriesFit(es) /\ Stuck(es)
      /\ es \in Seq(ParsedEntry)
  <2>1. /\ ParserTyped /\ Accounted(es) /\ EntriesFit(es) /\ Stuck(es) BY <1>1 DEF ParserIInv
  <2>2. out \o pending \in Seq(ParsedEntry)
    BY <2>1, EntriesAre DEF ParserTyped
  <2> QED BY <1>1, <2>1, <2>2 DEF Parser!Entries
<1>4. /\ e \in ParsedEntry /\ Fits(e)
      /\ forced_fmt # "none" => fmt = forced_fmt /\ fmt # "PLAINTEXT"
      /\ forced_fmt = "none" /\ sticky # "none" => fmt # "PLAINTEXT"
      /\ fmt # "PLAINTEXT" => fmt \in Format
  BY <1>1, <1>3, <1>2, FormatIs
<1>5. /\ sticky' = (IF fmt = "PLAINTEXT" THEN sticky ELSE fmt)
      /\ first_format' = (IF first_format = "none" THEN fmt ELSE first_format)
      /\ pending' = <<e>> /\ pending_continuations' = 0
      /\ stats' = [stats EXCEPT
            !.lines = @ + 1,
            !.fallback = IF fmt \in line.parses THEN @ ELSE @ + 1,
            !.format_switches = IF sticky # "none" /\ sticky' # sticky THEN @ + 1 ELSE @]
      /\ fed' = Append(fed, line) /\ out' = out \o pending /\ forced_fmt' = forced_fmt
  BY <1>1, <1>2 DEF Parser!Begin, Parser!Sticks
<1>6. Parser!Entries' = r
  <2>1. out' = es /\ pending' = <<e>> BY <1>1, <1>5 DEF Parser!Entries
  <2>2. es \o <<e>> = Append(es, e) BY <1>3, <1>4, AppendIsConcat
  <2> QED BY <1>2, <2>1, <2>2 DEF Parser!Entries
<1>7. /\ Len(es) \in Nat /\ Len(r) = Len(es) + 1 /\ r[Len(es) + 1] = e /\ r # <<>>
      /\ DOMAIN es = 1 .. Len(es) /\ DOMAIN r = 1 .. Len(es) + 1
      /\ \A i \in DOMAIN es : r[i] = es[i]
      /\ r \in Seq(ParsedEntry)
  BY <1>3, <1>4, <1>2
<1>8. /\ e.fmt = fmt /\ e.lines = <<line>> /\ Head(e.lines) = line /\ Len(e.lines) = 1
  BY <1>2
<1>9. ParserTyped'
  <2>1. fmt \in Format \cup {"PLAINTEXT"} BY <1>4
  <2>2. sticky' \in Format \cup {"none"} /\ first_format' \in Format \cup {"none", "PLAINTEXT"}
    BY <1>3, <1>4, <1>5, <2>1 DEF ParserTyped
  <2>3. stats' \in [lines : Nat, blank : Nat, continuations : Nat, fallback : Nat,
                    format_switches : Nat]
    <3>1. stats \in [lines : Nat, blank : Nat, continuations : Nat, fallback : Nat,
                     format_switches : Nat]
      BY <1>3 DEF ParserTyped
    <3>2. stats' = [lines |-> stats.lines + 1, blank |-> stats.blank,
                    continuations |-> stats.continuations,
                    fallback |-> IF fmt \in line.parses THEN stats.fallback
                                 ELSE stats.fallback + 1,
                    format_switches |-> IF sticky # "none" /\ sticky' # sticky
                                        THEN stats.format_switches + 1
                                        ELSE stats.format_switches]
      BY <1>5, <3>1
    <3> QED BY <3>1, <3>2
  <2>4. fed' \in Seq(Line) BY <1>3, <1>5 DEF ParserTyped
  <2>5. out' \in Seq(ParsedEntry) BY <1>1, <1>3, <1>5 DEF Parser!Entries
  <2>6. /\ pending' \in Seq(ParsedEntry) /\ Len(pending') <= 1
        /\ Len(pending'[1].lines) = pending_continuations' + 1
    BY <1>4, <1>5, <1>8
  <2>7. pending_continuations' \in 0 .. MaxContinuation BY <1>5, CommandsAssumption
  <2>8. forced_fmt' \in Format \cup {"none"} BY <1>3, <1>5 DEF ParserTyped
  <2> QED BY <2>2, <2>3, <2>4, <2>5, <2>6, <2>7, <2>8, Zenon DEF ParserTyped
<1>10. Accounted(r)'
  <2> DEFINE switched == es # <<>> /\ fmt # es[Len(es)].fmt /\ es[Len(es)].fmt # "PLAINTEXT"
  <2>1. /\ FlattenSeq(LinesOf(es)) \in Seq(Line)
        /\ FlattenSeq(LinesOf(r)) = FlattenSeq(LinesOf(es)) \o e.lines
        /\ Cardinality(FallbacksOf(es)) \in Nat
        /\ Cardinality(FallbacksOf(r)) =
               Cardinality(FallbacksOf(es)) + Unit(e.fmt \notin Head(e.lines).parses)
        /\ Cardinality(SwitchesOf(es)) \in Nat
        /\ Cardinality(SwitchesOf(r)) = Cardinality(SwitchesOf(es)) +
               Unit(es # <<>> /\ e.fmt # es[Len(es)].fmt /\ es[Len(es)].fmt # "PLAINTEXT")
    BY <1>3, <1>4, <1>2, OneEntryMore
  <2>2. switched <=> sticky # "none" /\ sticky' # sticky
    <3>1. CASE forced_fmt # "none"
      <4>1. sticky' = sticky BY <1>3, <1>4, <1>5, <3>1 DEF Stuck
      <4>2. es # <<>> => es[Len(es)].fmt = fmt
        <5>1. es # <<>> => Len(es) \in DOMAIN es BY <1>7
        <5> QED BY <1>3, <1>4, <3>1, <5>1 DEF Stuck
      <4> QED BY <4>1, <4>2
    <3>2. CASE forced_fmt = "none" /\ sticky = "none"
      <4>1. es # <<>> => Len(es) \in DOMAIN es BY <1>7
      <4> QED BY <1>3, <3>2, <4>1 DEF Stuck
    <3>3. CASE forced_fmt = "none" /\ sticky # "none"
      <4>1. es # <<>> /\ es[Len(es)].fmt = sticky BY <1>3, <3>3 DEF Stuck
      <4>2. sticky # "PLAINTEXT" BY <1>3, CommandsAssumption DEF ParserTyped
      <4>3. sticky' = fmt BY <1>4, <1>5, <3>3
      <4> QED BY <3>3, <4>1, <4>2, <4>3
    <3> QED BY <3>1, <3>2, <3>3
  <2>3. FlattenSeq(LinesOf(r)) = fed'
    <3>1. fed \in Seq(Line) /\ FlattenSeq(LinesOf(es)) = fed
      BY <1>3 DEF ParserTyped, Accounted
    <3>2. fed \o <<line>> = Append(fed, line) BY <3>1, AppendIsConcat
    <3> QED BY <1>5, <1>8, <2>1, <3>1, <3>2
  <2>4. /\ stats'.lines = stats.lines + 1 /\ stats'.blank = stats.blank
        /\ stats'.continuations = stats.continuations
        /\ stats'.fallback = stats.fallback + Unit(fmt \notin line.parses)
        /\ stats'.format_switches =
              stats.format_switches + Unit(sticky # "none" /\ sticky' # sticky)
        /\ stats.lines \in Nat /\ stats.blank \in Nat /\ stats.continuations \in Nat
    <3>1. stats \in [lines : Nat, blank : Nat, continuations : Nat, fallback : Nat,
                     format_switches : Nat]
      BY <1>3 DEF ParserTyped
    <3> QED BY <1>5, <3>1 DEF Unit
  <2>5. stats'.lines = stats'.blank + stats'.continuations + Len(r)
    <3>1. stats.lines = stats.blank + stats.continuations + Len(es) BY <1>3 DEF Accounted
    <3> QED BY <1>7, <2>4, <3>1
  <2>6. stats'.fallback = Cardinality(FallbacksOf(r))
    <3>1. stats.fallback = Cardinality(FallbacksOf(es)) BY <1>3 DEF Accounted
    <3> QED BY <1>8, <2>1, <2>4, <3>1
  <2>7. stats'.format_switches = Cardinality(SwitchesOf(r))
    <3>1. stats.format_switches = Cardinality(SwitchesOf(es)) BY <1>3 DEF Accounted
    <3> QED BY <1>8, <2>1, <2>2, <2>4, <3>1 DEF Unit
  <2> QED BY <2>3, <2>5, <2>6, <2>7 DEF Accounted
<1>11. EntriesFit(r)'
  <2>1. forced_fmt' = forced_fmt BY <1>5
  <2>2. \A i \in DOMAIN r : i \in DOMAIN es \/ i = Len(es) + 1 BY <1>7
  <2>3. \A i \in DOMAIN r : Fits(r[i])
    BY <1>3, <1>4, <1>7, <2>2 DEF EntriesFit
  <2> QED BY <2>1, <2>3, Zenon DEF EntriesFit, Fits
<1>12. Stuck(r)'
  <2>1. forced_fmt' = forced_fmt /\ "PLAINTEXT" \notin Format /\ "none" \notin Format
    BY <1>5, CommandsAssumption
  <2>2. \A i \in DOMAIN r : i \in DOMAIN es \/ i = Len(es) + 1 BY <1>7
  <2>3. r[Len(r)].fmt = fmt BY <1>7, <1>8
  <2>4. ASSUME forced_fmt # "none"
        PROVE  sticky' = forced_fmt /\ \A i \in DOMAIN r : r[i].fmt = forced_fmt
    <3>1. fmt = forced_fmt /\ fmt # "PLAINTEXT" BY <1>4, <2>4
    <3>2. \A i \in DOMAIN es : es[i].fmt = forced_fmt BY <1>3, <2>4 DEF Stuck
    <3> QED BY <1>5, <1>7, <1>8, <2>2, <3>1, <3>2
  <2>5. ASSUME forced_fmt = "none", sticky' = "none"
        PROVE  \A i \in DOMAIN r : r[i].fmt = "PLAINTEXT"
    <3>1. fmt = "PLAINTEXT" /\ sticky = "none" BY <1>4, <1>5, <2>1, <2>5
    <3>2. \A i \in DOMAIN es : es[i].fmt = "PLAINTEXT" BY <1>3, <2>5, <3>1 DEF Stuck
    <3> QED BY <1>7, <1>8, <2>2, <3>1, <3>2
  <2>6. ASSUME forced_fmt = "none", sticky' # "none"
        PROVE  r[Len(r)].fmt = sticky'
    BY <1>4, <1>5, <2>3, <2>6
  <2> QED BY <1>7, <2>1, <2>4, <2>5, <2>6 DEF Stuck
<1> QED BY <1>6, <1>9, <1>10, <1>11, <1>12, Zenon DEF ParserIInv

\* A line that continues the entry that is not finished.
LEMMA ParserContinues ==
    ASSUME ParserIInv, NEW line \in Line, Parser!Continue(line)
    PROVE  ParserIInv'
<1>1. PICK es, last : /\ es = Parser!Entries
                      /\ last = [pending[1] EXCEPT !.lines = Append(@, line)]
  OBVIOUS
<1>2. /\ ParserTyped /\ Accounted(es) /\ EntriesFit(es) /\ Stuck(es)
  BY <1>1 DEF ParserIInv
<1>3. /\ pending # <<>> /\ pending_continuations < MaxContinuation
      /\ pending' = [i \in DOMAIN pending |->
                        [pending[i] EXCEPT !.lines = Append(@, line)]]
      /\ pending_continuations' = pending_continuations + 1
      /\ stats' = [stats EXCEPT !.lines = @ + 1, !.continuations = @ + 1]
      /\ fed' = Append(fed, line)
      /\ forced_fmt' = forced_fmt /\ sticky' = sticky /\ first_format' = first_format
      /\ out' = out
  BY DEF Parser!Continue, Parser!Continues
<1>4. /\ pending \in Seq(ParsedEntry) /\ Len(pending) <= 1 /\ out \in Seq(ParsedEntry)
      /\ pending_continuations \in 0 .. MaxContinuation /\ MaxContinuation \in Nat
      /\ Len(pending[1].lines) = pending_continuations + 1
  BY <1>2, <1>3, CommandsAssumption DEF ParserTyped
<1>5. /\ Len(pending) = 1 /\ pending[1] \in ParsedEntry /\ es = Append(out, pending[1])
  BY <1>1, <1>3, <1>4, EntriesAre DEF Parser!Entries
<1>6. /\ last \in ParsedEntry /\ last.fmt = pending[1].fmt
      /\ last.lines = Append(pending[1].lines, line)
      /\ Len(last.lines) = pending_continuations + 2
  <2>1. /\ pending[1] \in [lines : Seq(Line), fmt : Format \cup {"PLAINTEXT"}]
        /\ pending[1].lines \in Seq(Line) /\ pending[1].fmt \in Format \cup {"PLAINTEXT"}
    BY <1>5 DEF ParsedEntry
  <2>2. last = [lines |-> Append(pending[1].lines, line), fmt |-> pending[1].fmt]
    BY <1>1, <2>1
  <2>3. /\ Append(pending[1].lines, line) \in Seq(Line)
        /\ Len(Append(pending[1].lines, line)) = pending_continuations + 2
    BY <1>4, <2>1
  <2>4. pending_continuations + 2 \in 1 .. MaxContinuation + 1 BY <1>3, <1>4
  <2> QED BY <2>1, <2>2, <2>3, <2>4 DEF ParsedEntry
<1>7. pending' = <<last>>
  <2>1. DOMAIN pending = {1} BY <1>4, <1>5
  <2>2. pending' = [i \in {1} |-> last] BY <1>1, <1>3, <2>1
  <2> QED BY <2>2
<1>8. PICK r : r = Append(out, last)
  OBVIOUS
<1>9. Parser!Entries' = r
  <2>1. out \o <<last>> = Append(out, last) BY <1>4, <1>6, AppendIsConcat
  <2> QED BY <1>3, <1>7, <1>8, <2>1 DEF Parser!Entries
<1>10. /\ es \in Seq(ParsedEntry) /\ es # <<>> /\ r \in Seq(ParsedEntry)
       /\ Len(es) = Len(out) + 1 /\ Len(r) = Len(es) /\ Len(out) \in Nat
       /\ \A i \in 1 .. Len(es) - 1 : r[i] = es[i]
       /\ r[Len(es)] = last /\ es[Len(es)] = pending[1]
       /\ DOMAIN r = 1 .. Len(es) /\ DOMAIN es = 1 .. Len(es)
  BY <1>4, <1>5, <1>6, <1>8
<1>11. /\ FlattenSeq(LinesOf(r)) = FlattenSeq(LinesOf(es)) \o <<line>>
       /\ FallbacksOf(r) = FallbacksOf(es) /\ SwitchesOf(r) = SwitchesOf(es)
       /\ \A i \in DOMAIN es : r[i].fmt = es[i].fmt /\ Head(r[i].lines) = Head(es[i].lines)
  <2>1. r[Len(es)].fmt = es[Len(es)].fmt /\ r[Len(es)].lines = Append(es[Len(es)].lines, line)
    BY <1>6, <1>10
  <2> QED BY <1>10, <2>1, OneLineMore
<1>12. stats' = [lines |-> stats.lines + 1, blank |-> stats.blank,
                 continuations |-> stats.continuations + 1, fallback |-> stats.fallback,
                 format_switches |-> stats.format_switches]
       /\ stats \in [lines : Nat, blank : Nat, continuations : Nat, fallback : Nat,
                     format_switches : Nat]
  <2>1. stats \in [lines : Nat, blank : Nat, continuations : Nat, fallback : Nat,
                   format_switches : Nat]
    BY <1>2 DEF ParserTyped
  <2> QED BY <1>3, <2>1
<1>13. ParserTyped'
  <2>1. /\ pending' \in Seq(ParsedEntry) /\ Len(pending') <= 1
        /\ Len(pending'[1].lines) = pending_continuations' + 1
    <3>1. <<last>> \in Seq(ParsedEntry) /\ Len(<<last>>) = 1 /\ <<last>>[1] = last
      BY <1>6
    <3>2. pending_continuations' + 1 = pending_continuations + 2 BY <1>3, <1>4
    <3> QED BY <1>6, <1>7, <3>1, <3>2
  <2>2. pending_continuations' \in 0 .. MaxContinuation BY <1>3, <1>4
  <2>3. stats' \in [lines : Nat, blank : Nat, continuations : Nat, fallback : Nat,
                    format_switches : Nat]
    BY <1>12
  <2>4. fed' \in Seq(Line) BY <1>2, <1>3 DEF ParserTyped
  <2> QED BY <1>2, <1>3, <2>1, <2>2, <2>3, <2>4, Zenon DEF ParserTyped
<1>14. Accounted(r)'
  <2>1. /\ FlattenSeq(LinesOf(es)) = fed
        /\ stats.lines = stats.blank + stats.continuations + Len(es)
        /\ stats.fallback = Cardinality(FallbacksOf(es))
        /\ stats.format_switches = Cardinality(SwitchesOf(es))
    BY <1>2 DEF Accounted
  <2>2. FlattenSeq(LinesOf(r)) = fed'
    <3>1. fed \in Seq(Line) BY <1>2 DEF ParserTyped
    <3>2. fed \o <<line>> = Append(fed, line) BY <3>1, AppendIsConcat
    <3> QED BY <1>3, <1>11, <2>1, <3>2
  <2>3. /\ stats'.lines = stats'.blank + stats'.continuations + Len(r)
        /\ stats'.fallback = stats.fallback /\ stats'.format_switches = stats.format_switches
    BY <1>10, <1>12, <2>1
  <2> QED BY <1>11, <2>1, <2>2, <2>3 DEF Accounted
<1>15. EntriesFit(r)'
  <2>1. \A i \in DOMAIN r : Fits(r[i])
    BY <1>2, <1>10, <1>11 DEF EntriesFit, Fits
  <2> QED BY <1>3, <2>1, Zenon DEF EntriesFit, Fits
<1>16. Stuck(r)'
  <2>1. /\ \A i \in DOMAIN r : r[i].fmt = es[i].fmt
        /\ DOMAIN r = DOMAIN es /\ Len(r) = Len(es) /\ r # <<>>
        /\ r[Len(r)].fmt = es[Len(es)].fmt
    <3>1. Len(es) \in DOMAIN es BY <1>10
    <3> QED BY <1>10, <1>11, <3>1
  <2> QED BY <1>2, <1>3, <2>1 DEF Stuck
<1> QED BY <1>9, <1>13, <1>14, <1>15, <1>16, Zenon DEF ParserIInv

\* Blank lines and a flush leave the entries as they are.
LEMMA ParserRests ==
    ASSUME ParserIInv, (\E line \in Line : Parser!Blank(line)) \/ Parser!Flush
    PROVE  ParserIInv'
<1>1. PICK es : es = Parser!Entries
  OBVIOUS
<1>2. /\ ParserTyped /\ Accounted(es) /\ EntriesFit(es) /\ Stuck(es)
      /\ stats \in [lines : Nat, blank : Nat, continuations : Nat, fallback : Nat,
                    format_switches : Nat]
      /\ out \in Seq(ParsedEntry) /\ pending \in Seq(ParsedEntry) /\ Len(pending) <= 1
  BY <1>1 DEF ParserIInv, ParserTyped
<1>3. /\ UNCHANGED <<forced_fmt, sticky, first_format, pending_continuations, fed>>
      /\ stats' \in [lines : Nat, blank : Nat, continuations : Nat, fallback : Nat,
                     format_switches : Nat]
      /\ stats'.lines - stats'.blank = stats.lines - stats.blank
      /\ stats'.continuations = stats.continuations /\ stats'.fallback = stats.fallback
      /\ stats'.format_switches = stats.format_switches
      /\ \/ UNCHANGED <<pending, out>>
         \/ out' = out \o pending /\ pending' = <<>>
  <2>1. CASE \E line \in Line : Parser!Blank(line)
    <3>1. PICK line \in Line : Parser!Blank(line) BY <2>1
    <3>2. stats' = [lines |-> stats.lines + 1, blank |-> stats.blank + 1,
                    continuations |-> stats.continuations, fallback |-> stats.fallback,
                    format_switches |-> stats.format_switches]
      BY <1>2, <3>1 DEF Parser!Blank
    <3>3. UNCHANGED <<forced_fmt, sticky, first_format, pending_continuations, fed,
                      pending, out>>
      BY <3>1 DEF Parser!Blank
    <3> QED BY <1>2, <3>2, <3>3
  <2>2. CASE Parser!Flush BY <1>2, <2>2 DEF Parser!Flush
  <2> QED BY <2>1, <2>2
<1>4. Parser!Entries' = es
  <2>1. out \o pending \in Seq(ParsedEntry) /\ (out \o pending) \o <<>> = out \o pending
    BY <1>2, ConcatEmptySeq
  <2> QED BY <1>1, <1>3, <2>1 DEF Parser!Entries
<1>5. ParserTyped'
  <2>1. /\ out' \in Seq(ParsedEntry) /\ pending' \in Seq(ParsedEntry) /\ Len(pending') <= 1
        /\ pending' # <<>> => pending' = pending
    <3>1. CASE out' = out /\ pending' = pending BY <1>2, <3>1
    <3>2. CASE out' = out \o pending /\ pending' = <<>>
      <4>1. out \o pending \in Seq(ParsedEntry) BY <1>2
      <4>2. <<>> \in Seq(ParsedEntry) /\ Len(<<>>) <= 1 OBVIOUS
      <4> QED BY <3>2, <4>1, <4>2
    <3> QED BY <1>3, <3>1, <3>2, Zenon
  <2> QED BY <1>2, <1>3, <2>1, Zenon DEF ParserTyped
<1>6. Accounted(es)'
  <2>1. Len(es) \in Nat
    BY <1>1, <1>2, EntriesAre DEF Parser!Entries
  <2>2. stats'.lines = stats'.blank + stats'.continuations + Len(es)
    <3>1. stats.lines = stats.blank + stats.continuations + Len(es) BY <1>2 DEF Accounted
    <3>2. /\ stats.lines \in Nat /\ stats.blank \in Nat /\ stats.continuations \in Nat
          /\ stats'.lines \in Nat /\ stats'.blank \in Nat
      BY <1>2, <1>3
    <3>3. /\ stats'.lines - stats'.blank = stats.lines - stats.blank
          /\ stats'.continuations = stats.continuations
      BY <1>3
    <3>4. PICK a \in Nat, b \in Nat, c \in Nat, d \in Nat, e \in Nat, n \in Nat :
             /\ a = stats.lines /\ b = stats.blank /\ c = stats.continuations
             /\ d = stats'.lines /\ e = stats'.blank /\ n = Len(es)
      BY <2>1, <3>2
    <3>5. a = b + c + n /\ d - e = a - b BY <3>1, <3>3, <3>4
    <3>6. d = e + c + n BY <3>5
    <3> QED BY <3>3, <3>4, <3>6
  <2> QED BY <1>2, <1>3, <2>2, Zenon DEF Accounted
<1>7. EntriesFit(es)' /\ Stuck(es)'
  <2>1. EntriesFit(es)' BY <1>2, <1>3, Zenon DEF EntriesFit, Fits
  <2>2. Stuck(es)' BY <1>2, <1>3, Zenon DEF Stuck
  <2> QED BY <2>1, <2>2
<1> QED BY <1>4, <1>5, <1>6, <1>7, Zenon DEF ParserIInv

\* Every step of the parser keeps its invariant.
LEMMA ParserSteps == ParserIInv /\ Parser!Next => ParserIInv'
<1> SUFFICES ASSUME ParserIInv, Parser!Next PROVE ParserIInv'
  OBVIOUS
<1>1. ASSUME NEW line \in Line, Parser!Begin(line) PROVE ParserIInv'
  BY <1>1, ParserBegins
<1>2. ASSUME NEW line \in Line, Parser!Continue(line) PROVE ParserIInv'
  BY <1>2, ParserContinues
<1>3. ASSUME (\E line \in Line : Parser!Blank(line)) \/ Parser!Flush PROVE ParserIInv'
  BY <1>3, ParserRests
<1> QED BY <1>1, <1>2, <1>3 DEF Parser!Next, Parser!Feed

\* A parser starts with its invariant, and so does one that is over.
LEMMA ParserStarts == Parser!Init \/ ParserOver => ParserIInv
<1> SUFFICES ASSUME Parser!Init \/ ParserOver PROVE ParserIInv
  OBVIOUS
<1>1. /\ forced_fmt \in Format \cup {"none"} /\ sticky = forced_fmt
      /\ first_format = "none" /\ pending = <<>> /\ pending_continuations = 0
      /\ fed = <<>> /\ out = <<>>
  BY DEF Parser!Init, ParserOver
<1>2. PICK n \in Nat : stats = [lines |-> n, blank |-> n, continuations |-> 0,
                                fallback |-> 0, format_switches |-> 0]
  BY CommandsAssumption DEF Parser!Init, ParserOver
<1>3. Parser!Entries = <<>>
  <2>1. <<>> \in Seq(ParsedEntry) /\ <<>> \o <<>> = <<>> BY ConcatEmptySeq
  <2> QED BY <1>1, <2>1 DEF Parser!Entries
<1>4. ParserTyped
  <2>1. <<>> \in Seq(Line) /\ <<>> \in Seq(ParsedEntry) /\ Len(<<>>) <= 1 OBVIOUS
  <2> QED BY <1>1, <1>2, <2>1, CommandsAssumption DEF ParserTyped
<1>5. Accounted(<<>>)
  <2>1. LinesOf(<<>>) = <<>> /\ FallbacksOf(<<>>) = {} /\ SwitchesOf(<<>>) = {}
    BY DEF LinesOf, FallbacksOf, SwitchesOf
  <2>2. FlattenSeq(<<>>) = <<>> BY DEF FlattenSeq
  <2>3. Cardinality({}) = 0 /\ Len(<<>>) = 0 BY FS_EmptySet
  <2>4. /\ stats.lines = n /\ stats.blank = n /\ stats.continuations = 0
        /\ stats.fallback = 0 /\ stats.format_switches = 0
    BY <1>2
  <2>5. n = n + 0 + 0 OBVIOUS
  <2> QED BY <1>1, <2>1, <2>2, <2>3, <2>4, <2>5 DEF Accounted
<1>6. EntriesFit(<<>>) /\ Stuck(<<>>)
  BY <1>1 DEF EntriesFit, Stuck
<1> QED BY <1>3, <1>4, <1>5, <1>6 DEF ParserIInv

\* The steps of other parts keep it.
LEMMA ParserStays == ParserIInv /\ UNCHANGED parserVars => ParserIInv'
<1> SUFFICES ASSUME ParserIInv, UNCHANGED parserVars PROVE ParserIInv'
  OBVIOUS
<1>1. PICK es : es = Parser!Entries
  OBVIOUS
<1>2. Parser!Entries' = es BY <1>1, Zenon DEF parserVars, Parser!Entries
<1>3. ParserTyped' BY Zenon DEF ParserIInv, parserVars, ParserTyped
<1>4. Accounted(es)' BY <1>1, Zenon DEF ParserIInv, parserVars, Accounted
<1>5. EntriesFit(es)' BY <1>1, Zenon DEF ParserIInv, parserVars, EntriesFit, Fits
<1>6. Stuck(es)' BY <1>1, Zenon DEF ParserIInv, parserVars, Stuck
<1> QED BY <1>2, <1>3, <1>4, <1>5, <1>6, Zenon DEF ParserIInv

-----------------------------------------------------------------------------
(* The format of most lines.                                               *)

\* The places of the lines of a format.
AtFormat(ls, f) == {i \in DOMAIN ls : ls[i].detected = f}
\* g does not come before f.
Before(ls, f, g) ==
    \/ Cardinality(AtFormat(ls, f)) > Cardinality(AtFormat(ls, g))
    \/ /\ Cardinality(AtFormat(ls, f)) = Cardinality(AtFormat(ls, g))
       /\ Min(AtFormat(ls, f)) < Min(AtFormat(ls, g))

\* Parser!Hits and Parser!FirstOf are about these places.
LEMMA HitsAre ==
    ASSUME NEW ls, NEW f
    PROVE  /\ Parser!Hits(ls, f) = Cardinality(AtFormat(ls, f))
           /\ Parser!FirstOf(ls, f) = Min(AtFormat(ls, f))
BY DEF Parser!Hits, Parser!FirstOf, AtFormat, Parser!Cardinality, Cardinality, Parser!Min, Min

\* There are at most as many lines of a format as lines.
LEMMA FormatsOfLines ==
    ASSUME NEW ls \in Seq(Line), NEW f
    PROVE  /\ IsFiniteSet(AtFormat(ls, f)) /\ AtFormat(ls, f) \subseteq 1 .. Len(ls)
           /\ Cardinality(AtFormat(ls, f)) \in Nat /\ Cardinality(AtFormat(ls, f)) <= Len(ls)
           /\ AtFormat(ls, f) # {} => Cardinality(AtFormat(ls, f)) > 0
<1>1. /\ AtFormat(ls, f) \subseteq 1 .. Len(ls) /\ Len(ls) \in Nat
  BY DEF AtFormat
<1>2. IsFiniteSet(1 .. Len(ls)) /\ Cardinality(1 .. Len(ls)) = Len(ls)
  <2>1. 1 \in Int /\ Len(ls) \in Int BY <1>1
  <2>2. /\ IsFiniteSet(1 .. Len(ls))
        /\ Cardinality(1 .. Len(ls)) = IF 1 > Len(ls) THEN 0 ELSE Len(ls) - 1 + 1
    BY <2>1, FS_Interval
  <2> QED BY <1>1, <2>2
<1>3. IsFiniteSet(AtFormat(ls, f)) /\ Cardinality(AtFormat(ls, f)) <= Cardinality(1 .. Len(ls))
  BY <1>1, <1>2, FS_Subset
<1>4. Cardinality(AtFormat(ls, f)) \in Nat BY <1>3, FS_CardinalityType
<1>5. AtFormat(ls, f) # {} => Cardinality(AtFormat(ls, f)) # 0 BY <1>3, FS_EmptySet
<1> QED BY <1>1, <1>2, <1>3, <1>4, <1>5

\* Some format has the most lines, and the first line of those that do.
LEMMA SomeFormatIsFirst ==
    ASSUME NEW ls \in Seq(Line), NEW F, F # {}, \A f \in F : AtFormat(ls, f) # {}
    PROVE  \E f \in F : \A g \in F \ {f} : Before(ls, f, g)
<1> DEFINE hits(f) == Cardinality(AtFormat(ls, f))
           T == {Len(ls) - hits(f) : f \in F}
<1>1. \A f : hits(f) \in Nat /\ Len(ls) - hits(f) \in Nat /\ AtFormat(ls, f) \subseteq Nat
  <2>1. Len(ls) \in Nat OBVIOUS
  <2>2. ASSUME NEW f
        PROVE  hits(f) \in Nat /\ hits(f) <= Len(ls) /\ AtFormat(ls, f) \subseteq Nat
    BY FormatsOfLines
  <2> HIDE DEF hits
  <2> QED BY <2>1, <2>2
<1> HIDE DEF hits
<1>2. PICK t \in T : \A u \in T : t <= u
  <2>1. T \subseteq Nat /\ T # {} BY <1>1
  <2> HIDE DEF T
  <2> QED BY <2>1, LeastNumber
<1>3. PICK m \in F : t = Len(ls) - hits(m) BY <1>2
<1> DEFINE Best == {f \in F : hits(f) = hits(m)}
           U == {Min(AtFormat(ls, f)) : f \in Best}
<1>4. ASSUME NEW f \in F PROVE hits(f) <= hits(m)
  <2>1. Len(ls) - hits(f) \in T OBVIOUS
  <2>2. t <= Len(ls) - hits(f) BY <1>2, <2>1
  <2>3. Len(ls) \in Nat /\ hits(f) \in Nat /\ hits(m) \in Nat BY <1>1
  <2> HIDE DEF T
  <2> QED BY <1>3, <2>2, <2>3
<1>5. ASSUME NEW f \in F PROVE Min(AtFormat(ls, f)) \in AtFormat(ls, f)
  <2>1. AtFormat(ls, f) \in SUBSET Nat /\ AtFormat(ls, f) # {} BY <1>1
  <2> QED BY <2>1, MinIsIn
<1>6. PICK v \in U : \A u \in U : v <= u
  <2>1. U \subseteq Nat BY <1>1, <1>5
  <2>2. U # {} BY <1>3
  <2> HIDE DEF U
  <2> QED BY <2>1, <2>2, LeastNumber
<1>7. PICK f \in Best : v = Min(AtFormat(ls, f)) BY <1>6
<1>8. ASSUME NEW g \in F \ {f} PROVE Before(ls, f, g)
  <2>1. hits(f) = hits(m) /\ hits(g) <= hits(m) /\ hits(f) \in Nat /\ hits(g) \in Nat
    BY <1>1, <1>4, <1>7
  <2>2. CASE hits(g) = hits(m)
    <3>1. Min(AtFormat(ls, f)) <= Min(AtFormat(ls, g)) BY <1>6, <1>7, <2>2
    <3>2. Min(AtFormat(ls, f)) \in Nat /\ Min(AtFormat(ls, g)) \in Nat BY <1>1, <1>5
    <3>3. Min(AtFormat(ls, f)) # Min(AtFormat(ls, g)) BY <1>5 DEF AtFormat
    <3> QED BY <2>1, <2>2, <3>1, <3>2, <3>3 DEF Before, hits
  <2>3. CASE hits(g) # hits(m) BY <2>1, <2>3 DEF Before, hits
  <2> QED BY <2>2, <2>3
<1> QED BY <1>7, <1>8

\* Ranked tells that format.
LEMMA RankedIs ==
    ASSUME NEW ls \in Seq(Line), NEW F, F # {}, \A f \in F : AtFormat(ls, f) # {}
    PROVE  /\ Parser!Ranked(ls, F) \in F
           /\ \A g \in F : Parser!Hits(ls, g) <= Parser!Hits(ls, Parser!Ranked(ls, F))
<1> DEFINE best(f) == \A g \in F \ {f} :
              \/ Parser!Hits(ls, f) > Parser!Hits(ls, g)
              \/ /\ Parser!Hits(ls, f) = Parser!Hits(ls, g)
                 /\ Parser!FirstOf(ls, f) < Parser!FirstOf(ls, g)
           ranked == Parser!Ranked(ls, F)
<1>1. \E f \in F : best(f)
  <2>1. PICK f \in F : \A g \in F \ {f} : Before(ls, f, g) BY SomeFormatIsFirst
  <2>2. best(f) BY <2>1, HitsAre DEF Before
  <2> QED BY <2>2
<1>2. ranked \in F /\ best(ranked) BY <1>1 DEF Parser!Ranked
<1>3. \A f : Parser!Hits(ls, f) \in Nat BY FormatsOfLines, HitsAre
<1> HIDE DEF ranked
<1>4. \A g \in F : Parser!Hits(ls, g) <= Parser!Hits(ls, ranked)
  <2> TAKE g \in F
  <2>1. CASE g = ranked BY <1>3, <2>1
  <2>2. CASE g # ranked BY <1>2, <1>3, <2>2
  <2> QED BY <2>1, <2>2
<1> QED BY <1>2, <1>4 DEF ranked

\* Two formats do not both have more than half of the lines.
LEMMA HalvesMeet ==
    ASSUME NEW ls \in Seq(Line), NEW f, NEW g, f # g
    PROVE  Cardinality(AtFormat(ls, f)) + Cardinality(AtFormat(ls, g)) <= Len(ls)
<1> DEFINE A == AtFormat(ls, f)
           B == AtFormat(ls, g)
<1>1. /\ IsFiniteSet(A) /\ IsFiniteSet(B)
      /\ A \subseteq 1 .. Len(ls) /\ B \subseteq 1 .. Len(ls)
      /\ Len(ls) \in Nat
  BY FormatsOfLines
<1>2. A \cap B = {} BY DEF AtFormat
<1> HIDE DEF A, B
<1>3. Cardinality(A \cup B) = Cardinality(A) + Cardinality(B)
  <2>1. Cardinality(A \cup B) = Cardinality(A) + Cardinality(B) - Cardinality(A \cap B)
    BY <1>1, FS_Union
  <2>2. /\ Cardinality(A \cap B) = 0 /\ Cardinality(A) \in Nat /\ Cardinality(B) \in Nat
    BY <1>1, <1>2, FS_EmptySet, FS_CardinalityType
  <2> QED BY <2>1, <2>2
<1>4. IsFiniteSet(1 .. Len(ls)) /\ Cardinality(1 .. Len(ls)) = Len(ls)
  <2>1. 1 \in Int /\ Len(ls) \in Int BY <1>1
  <2>2. /\ IsFiniteSet(1 .. Len(ls))
        /\ Cardinality(1 .. Len(ls)) = IF 1 > Len(ls) THEN 0 ELSE Len(ls) - 1 + 1
    BY <2>1, FS_Interval
  <2> QED BY <1>1, <2>2
<1>5. A \cup B \subseteq 1 .. Len(ls) BY <1>1
<1>6. Cardinality(A \cup B) <= Cardinality(1 .. Len(ls)) BY <1>4, <1>5, FS_Subset
<1> QED BY <1>3, <1>4, <1>6 DEF A, B

\* sniff_format tells the format of most lines, and plain text only if no format has
\* half of them.
LEMMA SniffIsFair ==
    ASSUME NEW ls \in Seq(Line), ls # <<>>
    PROVE  /\ \A g \in Format : 2 * Parser!Hits(ls, g) > Len(ls) => Parser!SniffFormat(ls) = g
           /\ Parser!SniffFormat(ls) = "PLAINTEXT" =>
                 \A g \in Format : 2 * Parser!Hits(ls, g) < Len(ls)
<1> DEFINE Seen == {ls[i].detected : i \in DOMAIN ls}
           Strong == {f \in Seen \ {"PLAINTEXT"} : 5 * Parser!Hits(ls, f) >= 2 * Len(ls)}
           ranked == Parser!Ranked(ls, Seen)
           hits(f) == Parser!Hits(ls, f)
<1>1. Seen # {} /\ \A f \in Seen : AtFormat(ls, f) # {}
  <2>1. 1 \in DOMAIN ls BY EmptySeq
  <2> QED BY <2>1 DEF AtFormat
<1>2. \A f : hits(f) \in Nat /\ Len(ls) \in Nat /\ Len(ls) > 0 BY FormatsOfLines, HitsAre
<1>3. \A f : f \notin Seen => hits(f) = 0
  <2>1. ASSUME NEW f, f \notin Seen PROVE AtFormat(ls, f) = {}
    BY <2>1 DEF AtFormat
  <2> QED BY <2>1, HitsAre, FS_EmptySet
<1>4. \A f, g : f # g => hits(f) + hits(g) <= Len(ls)
  BY HalvesMeet, HitsAre
<1>5. ranked \in Seen /\ \A g \in Seen : hits(g) <= hits(ranked)
  BY <1>1, RankedIs
<1>6. /\ Parser!SniffFormat(ls) =
            IF ranked = "PLAINTEXT" /\ Strong # {} THEN Parser!Ranked(ls, Strong) ELSE ranked
  BY <1>1 DEF Parser!SniffFormat
<1>7. Strong # {} => Parser!Ranked(ls, Strong) \in Strong
  <2>1. \A f \in Strong : AtFormat(ls, f) # {} BY <1>1
  <2> HIDE DEF Strong
  <2> QED BY <2>1, RankedIs
<1> HIDE DEF hits, ranked
<1>8. ASSUME NEW g \in Format, 2 * hits(g) > Len(ls) PROVE Parser!SniffFormat(ls) = g
  <2>1. g \in Seen /\ hits(g) <= hits(ranked) BY <1>2, <1>3, <1>5, <1>8
  <2>2. ranked = g
    <3>1. ranked # g => hits(ranked) + hits(g) <= Len(ls) BY <1>4
    <3> QED BY <1>2, <1>8, <2>1, <3>1
  <2>3. g # "PLAINTEXT" BY CommandsAssumption
  <2> QED BY <1>6, <2>2, <2>3
<1>9. ASSUME NEW g \in Format, Parser!SniffFormat(ls) = "PLAINTEXT"
      PROVE  2 * hits(g) < Len(ls)
  <2>1. ranked = "PLAINTEXT" /\ Strong = {} BY <1>6, <1>7, <1>9
  <2>2. g # "PLAINTEXT" BY CommandsAssumption
  <2>3. CASE g \in Seen
    <3>1. g \notin Strong BY <2>1
    <3>2. ~(5 * hits(g) >= 2 * Len(ls)) BY <2>2, <2>3, <3>1 DEF hits
    <3> QED BY <1>2, <3>2
  <2>4. CASE g \notin Seen BY <1>2, <1>3, <2>4
  <2> QED BY <2>3, <2>4
<1> QED BY <1>8, <1>9 DEF hits

\* What is shown of the parser.
LEMMA ParserKept ==
    ASSUME ParserIInv
    PROVE  Parser!TypeOK /\ Parser!LinesKept /\ Parser!FormatsFit /\ Parser!SniffMajority
<1>1. PICK es : es = Parser!Entries
  OBVIOUS
<1>2. /\ ParserTyped /\ Accounted(es) /\ EntriesFit(es)
      /\ out \in Seq(ParsedEntry) /\ pending \in Seq(ParsedEntry) /\ Len(pending) <= 1
      /\ fed \in Seq(Line)
  BY <1>1 DEF ParserIInv, ParserTyped
<1>3. /\ es \in Seq(ParsedEntry) /\ DOMAIN es = 1 .. Len(es)
  BY <1>1, <1>2, EntriesAre DEF Parser!Entries
<1>4. \A i \in DOMAIN es : es[i] \in ParsedEntry BY <1>3
<1>5. Parser!TypeOK
  <2>1. \A i \in DOMAIN es : Len(es[i].lines) <= MaxContinuation + 1
    BY <1>4, CommandsAssumption DEF ParsedEntry
  <2> QED BY <1>1, <1>2, <2>1 DEF Parser!TypeOK, ParserTyped
<1>6. /\ DOMAIN Parser!Heads = DOMAIN es
      /\ \A i \in DOMAIN es : Parser!Heads[i] = Head(es[i].lines)
  BY <1>1 DEF Parser!Heads
<1>7. Parser!LinesKept
  <2>1. Parser!FlattenSeq([i \in DOMAIN Parser!Entries |-> Parser!Entries[i].lines]) = fed
    <3>1. FlattenSeq(LinesOf(es)) = fed BY <1>2 DEF Accounted
    <3> QED BY <1>1, <3>1 DEF LinesOf, Parser!FlattenSeq, FlattenSeq
  <2>2. stats.lines = stats.blank + stats.continuations + Len(Parser!Entries)
    BY <1>1, <1>2 DEF Accounted
  <2>3. stats.fallback = Parser!Cardinality({i \in DOMAIN Parser!Entries :
                            Parser!Entries[i].fmt \notin Parser!Heads[i].parses})
    <3>1. FallbacksOf(es) = {i \in DOMAIN es : es[i].fmt \notin Parser!Heads[i].parses}
      BY <1>6 DEF FallbacksOf
    <3>2. stats.fallback = Cardinality(FallbacksOf(es)) BY <1>2 DEF Accounted
    <3> QED BY <1>1, <3>1, <3>2, Zenon DEF Parser!Cardinality, Cardinality
  <2> QED BY <2>1, <2>2, <2>3, Zenon DEF Parser!LinesKept
<1>8. Parser!FormatsFit
  <2>1. \A i \in DOMAIN Parser!Entries :
          \/ Parser!Entries[i].fmt = forced_fmt
          \/ forced_fmt = "none" /\ Parser!Entries[i].fmt
                \in Parser!Heads[i].fits \cup {Parser!Heads[i].detected}
          \/ forced_fmt = "none" /\ Parser!Heads[i].detected = "PLAINTEXT"
    BY <1>1, <1>2, <1>6 DEF EntriesFit, Fits
  <2>2. stats.format_switches =
          Parser!Cardinality({i \in 2 .. Len(Parser!Entries) :
             /\ Parser!Entries[i].fmt # Parser!Entries[i - 1].fmt
             /\ Parser!Entries[i - 1].fmt # "PLAINTEXT"})
    <3>1. stats.format_switches = Cardinality(SwitchesOf(es)) BY <1>2 DEF Accounted
    <3>2. SwitchesOf(es) =
              {i \in 2 .. Len(Parser!Entries) :
                 /\ Parser!Entries[i].fmt # Parser!Entries[i - 1].fmt
                 /\ Parser!Entries[i - 1].fmt # "PLAINTEXT"}
      BY <1>1 DEF SwitchesOf, SwitchAt
    <3> QED BY <3>1, <3>2, Zenon DEF Parser!Cardinality, Cardinality
  <2> QED BY <2>1, <2>2, Zenon DEF Parser!FormatsFit
<1>9. Parser!SniffMajority BY <1>2, SniffIsFair DEF Parser!SniffMajority
<1> QED BY <1>5, <1>7, <1>8, <1>9

-----------------------------------------------------------------------------
(* The model as it is checked.                                             *)

\* Every part starts well, or is over from the start.
LEMMA Starts ==
    MCInit => /\ AnalyzeIInv /\ OtherIInv /\ ReaderIInv
              /\ ParserIInv /\ PoolIInv /\ CallIInv
<1>1. MCInit => /\ Analyze!Init \/ AnalyzeOver
                /\ Other!Init \/ OtherOver
                /\ Reader!Init \/ ReaderOver
                /\ Parser!Init \/ ParserOver
                /\ Pool!Init \/ PoolOver
                /\ Call!Init \/ CallOver
  BY Zenon DEF MCInit
<1> QED
  BY <1>1, AnalyzeStarts, OtherStarts, ReaderStarts, ParserStarts, PoolStarts, CallStarts

\* A step is a step of one part; the others do not move.
LEMMA WhosePart ==
    ASSUME [MCNext]_MCVars
    PROVE  /\ Analyze!Next \/ UNCHANGED analyzeVars
           /\ Other!Next \/ UNCHANGED otherVars
           /\ Reader!Next \/ UNCHANGED readerVars
           /\ Parser!Next \/ UNCHANGED parserVars
           /\ Pool!Next \/ UNCHANGED poolVars
           /\ Call!Next \/ UNCHANGED callVars
<1>1. CASE MCNext
  BY <1>1, Zenon DEF MCNext
<1>2. CASE UNCHANGED MCVars
  BY <1>2, Zenon DEF MCVars
<1> QED BY <1>1, <1>2

\* Every part keeps its invariant.
CommandsIInv ==
    AnalyzeIInv /\ OtherIInv /\ ReaderIInv /\ ParserIInv /\ PoolIInv /\ CallIInv

\* A step of one part keeps the invariants of all.
LEMMA CommandsKeep == CommandsIInv /\ [MCNext]_MCVars => CommandsIInv'
<1> SUFFICES ASSUME CommandsIInv, [MCNext]_MCVars PROVE CommandsIInv'
  OBVIOUS
<1>1. AnalyzeIInv' BY WhosePart, AnalyzeSteps, AnalyzeStays DEF CommandsIInv
<1>2. OtherIInv' BY WhosePart, OtherSteps, OtherStays DEF CommandsIInv
<1>3. ReaderIInv' BY WhosePart, ReaderSteps, ReaderStays DEF CommandsIInv
<1>4. ParserIInv' BY WhosePart, ParserSteps, ParserStays DEF CommandsIInv
<1>5. PoolIInv' BY WhosePart, PoolSteps, PoolStays DEF CommandsIInv
<1>6. CallIInv' BY WhosePart, CallSteps, CallStays DEF CommandsIInv
<1> QED BY <1>1, <1>2, <1>3, <1>4, <1>5, <1>6 DEF CommandsIInv

\* The invariants of all parts hold in every behaviour that is checked.
THEOREM CommandsAreKept == MCSpec => []CommandsIInv
<1>1. MCInit => CommandsIInv BY Starts DEF CommandsIInv
<1> QED BY <1>1, CommandsKeep, PTL DEF MCSpec

\* The state of every part stays well formed.
THEOREM CommandsAreTyped == MCSpec => []TypesOK
<1>1. CommandsIInv => TypesOK
  BY AnalyzeKept, OtherKept, ReaderKept, ParserKept, PoolKept, CallKept, Zenon
     DEF CommandsIInv, TypesOK
<1> QED BY CommandsAreKept, <1>1, PTL

\* analyze: on the exact and the turbo pipeline --fail-on decides between the codes 0
\* and 2, a build that asks for JSON gets one document of its anomalies, a run learns
\* once at most and only from the exact pipeline, and a parallel scan that lost every
\* slice, with one worker at last, fails.
THEOREM AnalyzeTellsTheTruth == MCSpec => []AnalyzeHonest
<1>1. CommandsIInv => AnalyzeHonest
  BY AnalyzeKept
     DEF CommandsIInv, AnalyzeHonest, GateHonoured, OneDocument, LearnsOnceIfAllowed,
         LostScanFails
<1> QED BY CommandsAreKept, <1>1, PTL

\* The other commands: code 0 means that what was asked for is there, the gate comes
\* after the report, and temporary files are gone unless the system holds them or
\* Ctrl-C has hit the download of bench-routineness.  A watch that heard something
\* shows its summary; one that returns 0 has judged every line, unless the last
\* judgement raised or the line had slid out of the window, which takes more lines
\* than the window holds.
THEOREM CommandsTellTheTruth == MCSpec => []CommandsHonest
<1>1. CommandsIInv => CommandsHonest
  BY OtherKept
     DEF CommandsIInv, CommandsHonest, EphemeralLeavesNothing, NoArchiveLeft,
         ZeroMeansDone, GateStopsAfterReport, WatchKeepsResults, SurvivorsSuffice
<1> QED BY CommandsAreKept, <1>1, PTL

\* No line of a child is lost or told twice by a reader that is not abandoned, unless
\* a line was too long or the child was signalled; no line of a stream is, the
\* statistics of a pool count every entry once, every entry is read in a format that
\* fits it, the format told of a file is that of most of its lines, and a child neither
\* outlives its reader nor is blamed for what the reader did to it.
THEOREM NoInputIsLost == MCSpec => []InputFaithful
<1>1. CommandsIInv => InputFaithful
  BY ReaderKept, ParserKept, PoolKept, Zenon
     DEF CommandsIInv, InputFaithful, EveryLineYielded, OwnFailureReported, NoOrphan,
         EveryEntryCounted, LinesKept, FormatsFit, SniffMajority
<1> QED BY CommandsAreKept, <1>1, PTL

\* A call of the model sleeps only after transient answers, twice as long every time,
\* and nothing is sent without settings and anomalies.
THEOREM CallIsDisciplined == MCSpec => []CallDisciplined
<1>1. CommandsIInv => CallDisciplined
  BY CallKept DEF CommandsIInv, CallDisciplined, TransientOnly, NothingSentInVain
<1> QED BY CommandsAreKept, <1>1, PTL
=============================================================================
