-------------------------- MODULE AlertMonitorProofs --------------------------
(***************************************************************************)
(* Proofs about alerting, for any number of threads that log, send and     *)
(* crash, any keys and channels and any size of the queue.  First the      *)
(* dispatcher's rate limits and counters, of every behaviour of its own    *)
(* specification; then the monitor, which drives the dispatcher only       *)
(* through its own operations, so that what is proved of the latter holds  *)
(* of it: where an anomaly is, and where in the queue the sentinel stands. *)
(***************************************************************************)
EXTENDS AlertMonitor, CountingLemmas

-----------------------------------------------------------------------------
(* The dispatcher's rate limits.  The lock makes the reservation of a      *)
(* grant one step, and the argument is about what that step reads: the     *)
(* stamps it keeps are all the grants of the last hour, and last_sent is   *)
(* never behind a grant.                                                   *)

\* What _allowed reads says the truth about the grants there have been.
Remembered ==
    /\ \A g \in DOMAIN grants : grants[g].at <= now
    /\ \A g \in DOMAIN grants : now - grants[g].at < Hour => g \in stamps
    /\ \A g \in DOMAIN grants : lastSent[grants[g].key] >= grants[g].at

Limits == DispatcherTypeOK /\ Remembered

-----------------------------------------------------------------------------
(* One lemma for what a grant does to the history, one for each step that  *)
(* leaves it alone.                                                        *)

LEMMA GrantType ==
    ASSUME DispatcherTypeOK, NEW g \in DOMAIN grants
    PROVE  /\ grants[g] \in [key : Keys, at : Nat]
           /\ grants[g].key \in Keys /\ grants[g].at \in Nat
<1>1. grants \in Seq([key : Keys, at : Nat]) BY DEF DispatcherTypeOK
<1>2. DOMAIN grants = 1 .. Len(grants) /\ Len(grants) \in Nat BY <1>1
<1>3. grants[g] \in [key : Keys, at : Nat] BY <1>1, <1>2, ElementOfSeq
<1> QED BY <1>3

LEMMA AppendedGrant ==
    ASSUME DispatcherTypeOK, NEW t \in Threads, NEW k \in Keys, Grant(t, k)
    PROVE  /\ Len(grants) \in Nat
           /\ DOMAIN grants = 1 .. Len(grants)
           /\ DOMAIN grants' = 1 .. (Len(grants) + 1)
           /\ grants' \in Seq([key : Keys, at : Nat])
           /\ grants'[Len(grants) + 1] = [key |-> k, at |-> now]
           /\ \A g \in DOMAIN grants : grants'[g] = grants[g]
<1>1. grants \in Seq([key : Keys, at : Nat]) BY DEF DispatcherTypeOK
<1>2. grants' = Append(grants, [key |-> k, at |-> now]) BY DEF Grant
<1>3. now \in Nat BY DispatcherAssumption DEF DispatcherTypeOK
<1>4. [key |-> k, at |-> now] \in [key : Keys, at : Nat] BY <1>3
<1> QED BY <1>1, <1>2, <1>4

LEMMA GrantLimits ==
    ASSUME Limits, NEW t \in Threads, NEW k \in Keys, Grant(t, k), now' = now,
           calls' \in Nat
    PROVE  Limits'
<1> DEFINE n == Len(grants) + 1
<1>1. /\ Len(grants) \in Nat
      /\ DOMAIN grants = 1 .. Len(grants)
      /\ DOMAIN grants' = 1 .. n
      /\ grants' \in Seq([key : Keys, at : Nat])
      /\ grants'[n] = [key |-> k, at |-> now]
      /\ \A g \in DOMAIN grants : grants'[g] = grants[g]
  BY AppendedGrant DEF Limits
<1>2. n \in Nat /\ DOMAIN grants' = (DOMAIN grants) \cup {n} BY <1>1
<1> HIDE DEF n
<1>3. now \in Nat BY DispatcherAssumption DEF Limits, DispatcherTypeOK
<1>4. /\ lastSent' = [lastSent EXCEPT ![k] = now]
      /\ stamps' = Recent \cup {n}
      /\ sending' = [sending EXCEPT ![t] = n]
      /\ channel' = [channel EXCEPT ![t] = 0]
      /\ ok' = [ok EXCEPT ![t] = FALSE]
      /\ UNCHANGED <<counters, delivered, failed>>
  BY DEF Grant, n
<1>5. DispatcherTypeOK'
  <2>1. stamps' \subseteq DOMAIN grants'
    BY <1>2, <1>4 DEF Limits, DispatcherTypeOK, Recent
  <2>2. lastSent' \in [Keys -> Nat] BY <1>3, <1>4 DEF Limits, DispatcherTypeOK
  <2>3. sending' \in [Threads -> {0} \cup DOMAIN grants']
    BY <1>2, <1>4 DEF Limits, DispatcherTypeOK
  <2>4. channel' \in [Threads -> 0 .. Channels]
    BY <1>4, DispatcherAssumption DEF Limits, DispatcherTypeOK
  <2>5. ok' \in [Threads -> BOOLEAN] BY <1>4 DEF Limits, DispatcherTypeOK
  <2>6. /\ suppressed' \in Nat /\ sent' \in Nat /\ errors' \in Nat
        /\ delivered' \subseteq DOMAIN grants'
        /\ failed' \subseteq (DOMAIN grants') \X (0 .. (Channels - 1))
        /\ now' \in Epoch .. MaxTime
    BY <1>2, <1>4 DEF Limits, DispatcherTypeOK, counters
  <2> QED BY <1>1, <2>1, <2>2, <2>3, <2>4, <2>5, <2>6 DEF DispatcherTypeOK
<1>6. Remembered'
  <2>1. ASSUME NEW g \in DOMAIN grants'
        PROVE  /\ grants'[g].at <= now
               /\ now - grants'[g].at < Hour => g \in stamps'
               /\ lastSent'[grants'[g].key] >= grants'[g].at
    <3>1. CASE g = n
      <4>1. grants'[g].at = now /\ grants'[g].key = k BY <1>1, <3>1
      <4>2. lastSent'[k] = now BY <1>4 DEF Limits, DispatcherTypeOK
      <4> QED BY <1>3, <1>4, <3>1, <4>1, <4>2
    <3>2. CASE g \in DOMAIN grants
      <4>1. grants'[g] = grants[g] BY <1>1, <3>2
      <4>2. grants[g] \in [key : Keys, at : Nat]
        BY <3>2, GrantType DEF Limits
      <4>3. /\ grants[g].at <= now
            /\ now - grants[g].at < Hour => g \in stamps
            /\ lastSent[grants[g].key] >= grants[g].at
        BY <3>2 DEF Limits, Remembered
      <4>4. now - grants[g].at < Hour => g \in stamps'
        BY <1>4, <4>3 DEF Recent
      <4>5. lastSent'[grants[g].key] >= grants[g].at
        BY <1>3, <1>4, <4>2, <4>3 DEF Limits, DispatcherTypeOK
      <4> QED BY <4>1, <4>3, <4>4, <4>5
    <3> QED BY <1>2, <3>1, <3>2
  <2> QED BY <2>1 DEF Remembered
<1> QED BY <1>5, <1>6 DEF Limits

\* A reservation is a grant that _allowed let through, or changes no grant.
LEMMA ReserveCases ==
    ASSUME NEW t \in Threads, NEW k \in Keys, Reserve(t, k)
    PROVE  \/ Grant(t, k) /\ Channels > 0 /\ Allowed(k)
           \/ Suppress(k)
BY DEF Reserve

LEMMA SuppressLimits ==
    ASSUME Limits, NEW k \in Keys, Suppress(k), now' = now, calls' \in Nat
    PROVE  Limits'
<1>1. DispatcherTypeOK'
  BY DEF Suppress, Limits, DispatcherTypeOK, work, Recent
<1>2. Remembered' BY DEF Suppress, Limits, Remembered, Recent
<1> QED BY <1>1, <1>2 DEF Limits

\* A step that keeps what the limits read, with the clock standing or going
\* forward, keeps them true: time only makes grants older.
LEMMA TimePasses ==
    ASSUME Limits, grants' = grants, stamps' = stamps, lastSent' = lastSent,
           now' \in Epoch .. MaxTime, now <= now'
    PROVE  Remembered'
<1>1. now \in Nat /\ now' \in Nat
  BY DispatcherAssumption DEF Limits, DispatcherTypeOK
<1>2. ASSUME NEW g \in DOMAIN grants PROVE grants[g].at \in Nat
  BY <1>2, GrantType DEF Limits
<1> QED BY <1>1, <1>2, DispatcherAssumption DEF Limits, Remembered

LEMMA IdleSteps ==
    ASSUME Limits, Tick \/ UNCHANGED dispatcherVars
    PROVE  Limits' /\ grants' = grants
<1>1. grants' = grants /\ stamps' = stamps /\ lastSent' = lastSent
  BY DEF Tick, dispatcherVars, limits
<1>2. now' \in Epoch .. MaxTime /\ now <= now'
  BY DispatcherAssumption DEF Tick, dispatcherVars, Limits, DispatcherTypeOK
<1>3. Remembered' BY <1>1, <1>2, TimePasses
<1> QED BY <1>1, <1>2, <1>3
        DEF Tick, dispatcherVars, Limits, DispatcherTypeOK, limits, counters, work

\* Sending leaves the limits alone.
LEMMA SendSteps ==
    ASSUME Limits, NEW t \in Threads, SendOk(t) \/ SendFails(t) \/ Finish(t)
    PROVE  Limits' /\ grants' = grants
<1>1. grants' = grants /\ stamps' = stamps /\ lastSent' = lastSent
  BY DEF SendOk, SendFails, Finish, limits
<1>2. now' = now BY DEF SendOk, SendFails, Finish
<1>3. now' \in Epoch .. MaxTime /\ now <= now'
  BY <1>2, DispatcherAssumption DEF Limits, DispatcherTypeOK
<1>4. Remembered' BY <1>1, <1>3, TimePasses
<1>5. CASE SendOk(t)
  <2>1. channel[t] + 1 \in 0 .. Channels
    BY <1>5, DispatcherAssumption DEF SendOk, Limits, DispatcherTypeOK
  <2>2. sending[t] \in DOMAIN grants BY <1>5 DEF SendOk, Limits, DispatcherTypeOK
  <2> QED BY <1>1, <1>2, <1>4, <1>5, <2>1, <2>2
          DEF SendOk, Limits, DispatcherTypeOK, limits, counters
<1>6. CASE SendFails(t)
  <2>1. channel[t] + 1 \in 0 .. Channels /\ channel[t] \in 0 .. (Channels - 1)
    BY <1>6, DispatcherAssumption DEF SendFails, Limits, DispatcherTypeOK
  <2>2. sending[t] \in DOMAIN grants
    BY <1>6 DEF SendFails, Limits, DispatcherTypeOK
  <2>3. failed' \subseteq (DOMAIN grants) \X (0 .. (Channels - 1))
    BY <1>6, <2>1, <2>2 DEF SendFails, Limits, DispatcherTypeOK
  <2>4. channel' \in [Threads -> 0 .. Channels]
    BY <1>6, <2>1 DEF SendFails, Limits, DispatcherTypeOK
  <2> QED BY <1>1, <1>2, <1>4, <1>6, <2>3, <2>4
          DEF SendFails, Limits, DispatcherTypeOK, limits
<1>7. CASE Finish(t)
  BY <1>1, <1>2, <1>4, <1>7 DEF Finish, Limits, DispatcherTypeOK, limits
<1> QED BY <1>5, <1>6, <1>7

-----------------------------------------------------------------------------
(* The invariants.                                                         *)

LEMMA InitLimits == DispatcherInit => Limits
<1> SUFFICES ASSUME DispatcherInit PROVE Limits OBVIOUS
<1>1. grants = <<>> /\ DOMAIN grants = {} BY DEF DispatcherInit
<1>2. DispatcherTypeOK
  BY <1>1, DispatcherAssumption DEF DispatcherInit, DispatcherTypeOK
<1>3. Remembered BY <1>1 DEF Remembered
<1> QED BY <1>2, <1>3 DEF Limits

\* Every step keeps Limits, and either changes no grant or adds one that
\* _allowed let through.
LEMMA StepLimits ==
    ASSUME Limits, [DispatcherNext]_dispatcherVars
    PROVE  /\ Limits'
           /\ \/ grants' = grants
              \/ \E t \in Threads, k \in Keys : Grant(t, k) /\ Allowed(k)
<1>1. ASSUME NEW t \in Threads, NEW k \in Keys, Reserve(t, k)
      PROVE  /\ Limits'
             /\ grants' = grants \/ (Grant(t, k) /\ Allowed(k))
  <2>1. now' = now /\ calls' \in Nat
    BY <1>1 DEF Reserve, Limits, DispatcherTypeOK
  <2>2. CASE Grant(t, k) /\ Allowed(k) BY <2>1, <2>2, GrantLimits
  <2>3. CASE Suppress(k) BY <2>1, <2>3, SuppressLimits DEF Suppress
  <2> QED BY <1>1, <2>2, <2>3, ReserveCases
<1>2. ASSUME NEW t \in Threads, SendOk(t) \/ SendFails(t) \/ Finish(t)
      PROVE  Limits' /\ grants' = grants
  BY <1>2, SendSteps
<1>3. CASE Tick \/ UNCHANGED dispatcherVars
  BY <1>3, IdleSteps
<1> QED BY <1>1, <1>2, <1>3 DEF DispatcherNext

LEMMA LimitsInvariant == DispatcherSpec => []Limits
<1>1. Limits /\ [DispatcherNext]_dispatcherVars => Limits' BY StepLimits
<1> QED BY <1>1, InitLimits, PTL DEF DispatcherSpec

-----------------------------------------------------------------------------
(* The theorems.                                                           *)

\* The dispatcher's state has its type.
THEOREM DispatcherTypeCorrect == DispatcherSpec => []DispatcherTypeOK
<1>1. Limits => DispatcherTypeOK BY DEF Limits
<1> QED BY <1>1, LimitsInvariant, PTL

\* The grants of the hour before a new one are its stamps, of which there were
\* fewer than MaxPerHour.
LEMMA CapStep ==
    ASSUME Limits, HourlyCap, NEW t \in Threads, NEW k \in Keys,
           Grant(t, k), Allowed(k)
    PROVE  HourlyCap'
<1> DEFINE n == Len(grants) + 1
           Hours(g) == {h \in 1 .. g : grants[g].at - grants[h].at < Hour}
<1>1. /\ Len(grants) \in Nat
      /\ DOMAIN grants = 1 .. Len(grants)
      /\ DOMAIN grants' = 1 .. n
      /\ grants'[n] = [key |-> k, at |-> now]
      /\ \A g \in DOMAIN grants : grants'[g] = grants[g]
  BY AppendedGrant DEF Limits
<1>2. SUFFICES ASSUME NEW g \in DOMAIN grants'
               PROVE  Cardinality({h \in 1 .. g :
                          grants'[g].at - grants'[h].at < Hour}) <= MaxPerHour
  BY DEF HourlyCap
<1>3. CASE g \in DOMAIN grants
  <2>1. \A h \in 1 .. g : grants'[h] = grants[h] BY <1>1, <1>3
  <2>2. grants'[g] = grants[g] BY <1>1, <1>3
  <2>3. {h \in 1 .. g : grants'[g].at - grants'[h].at < Hour} = Hours(g)
    BY <2>1, <2>2
  <2> QED BY <1>3, <2>3 DEF HourlyCap
<1>4. CASE g = n
  <2>1. {h \in 1 .. n : grants'[n].at - grants'[h].at < Hour} \subseteq Recent \cup {n}
    <3> SUFFICES ASSUME NEW h \in 1 .. n, h # n, now - grants'[h].at < Hour
                 PROVE  h \in Recent
      BY <1>1
    <3>1. h \in DOMAIN grants BY <1>1
    <3> QED BY <1>1, <3>1 DEF Limits, Remembered, Recent
  <2>2. IsFiniteSet(Recent)
    <3>1. Recent \subseteq 1 .. Len(grants)
      BY <1>1 DEF Recent, Limits, DispatcherTypeOK
    <3>2. Len(grants) \in Int /\ 1 \in Int BY <1>1
    <3>3. IsFiniteSet(1 .. Len(grants)) BY <3>2, FS_Interval
    <3> QED BY <3>1, <3>3, FS_Subset
  <2>3. n \notin Recent BY <1>1 DEF Recent, Limits, DispatcherTypeOK
  <2>4. IsFiniteSet(Recent \cup {n})
        /\ Cardinality(Recent \cup {n}) = Cardinality(Recent) + 1
    BY <2>2, <2>3, FS_AddElement
  <2>5. Cardinality(Recent) \in Nat BY <2>2, FS_CardinalityType
  <2>6. Cardinality(Recent) + 1 <= MaxPerHour
    BY <2>5, DispatcherAssumption DEF Allowed, CapReached
  <2>7. Cardinality({h \in 1 .. n : grants'[n].at - grants'[h].at < Hour})
          <= Cardinality(Recent \cup {n})
        /\ Cardinality({h \in 1 .. n : grants'[n].at - grants'[h].at < Hour}) \in Nat
    BY <2>1, <2>4, FS_Subset, FS_CardinalityType
  <2> QED BY <1>4, <2>4, <2>5, <2>6, <2>7, DispatcherAssumption
<1>5. g \in DOMAIN grants \/ g = n
  <2>1. g \in 1 .. n BY <1>1
  <2>2. g \in 1 .. Len(grants) \/ g = n BY <1>1, <2>1
  <2> QED BY <1>1, <2>2
<1> QED BY <1>2, <1>3, <1>4, <1>5

\* However many threads dispatch, and however long their sends take, at most
\* max_per_hour alerts are let through in any hour.
THEOREM AtMostMaxPerHour == DispatcherSpec => []HourlyCap
<1>1. DispatcherInit => HourlyCap BY DEF DispatcherInit, HourlyCap
<1>2. Limits /\ HourlyCap /\ [DispatcherNext]_dispatcherVars => HourlyCap'
  <2> SUFFICES ASSUME Limits, HourlyCap, [DispatcherNext]_dispatcherVars
               PROVE  HourlyCap'
    OBVIOUS
  <2>1. CASE grants' = grants BY <2>1 DEF HourlyCap
  <2>2. CASE \E t \in Threads, k \in Keys : Grant(t, k) /\ Allowed(k)
    BY <2>2, CapStep
  <2> QED BY <2>1, <2>2, StepLimits
<1> QED BY <1>1, <1>2, LimitsInvariant, PTL DEF DispatcherSpec

\* A new grant comes a cooldown after the time that last_sent has for its key,
\* which no earlier grant of the key is later than.
THEOREM CooldownBetweenAlerts == DispatcherSpec => []CooldownKept
<1>1. DispatcherInit => CooldownKept BY DEF DispatcherInit, CooldownKept
<1>2. ASSUME Limits, CooldownKept, NEW t \in Threads, NEW k \in Keys,
             Grant(t, k), Allowed(k)
      PROVE  CooldownKept'
  <2> DEFINE n == Len(grants) + 1
  <2>1. /\ Len(grants) \in Nat
        /\ DOMAIN grants = 1 .. Len(grants)
        /\ DOMAIN grants' = 1 .. n
        /\ grants'[n] = [key |-> k, at |-> now]
        /\ \A g \in DOMAIN grants : grants'[g] = grants[g]
    BY <1>2, AppendedGrant DEF Limits
  <2>2. SUFFICES ASSUME NEW g \in DOMAIN grants', NEW h \in DOMAIN grants',
                        g < h, grants'[g].key = grants'[h].key
                 PROVE  grants'[h].at - grants'[g].at >= Cooldown
    BY DEF CooldownKept
  <2>3. g \in DOMAIN grants BY <2>1, <2>2
  <2>4. grants[g].at \in Nat /\ grants[g].key \in Keys
    BY <1>2, <2>3, GrantType DEF Limits
  <2>5. CASE h \in DOMAIN grants
    BY <1>2, <2>1, <2>2, <2>3, <2>5 DEF CooldownKept
  <2>6. CASE h = n
    <3>1. grants'[h].at = now /\ grants'[h].key = k BY <2>1, <2>6
    <3>2. grants[g].key = k /\ grants'[g].at = grants[g].at
      BY <2>1, <2>2, <2>3, <3>1
    <3>3. lastSent[k] >= grants[g].at BY <1>2, <2>3, <3>2 DEF Limits, Remembered
    <3>4. now - lastSent[k] >= Cooldown /\ lastSent[k] \in Nat /\ now \in Nat
      BY <1>2, DispatcherAssumption
         DEF Allowed, Cooling, Limits, DispatcherTypeOK
    <3> QED BY <2>4, <3>1, <3>2, <3>3, <3>4, DispatcherAssumption
  <2> QED BY <2>1, <2>2, <2>5, <2>6
<1>3. Limits /\ CooldownKept /\ [DispatcherNext]_dispatcherVars => CooldownKept'
  <2> SUFFICES ASSUME Limits, CooldownKept, [DispatcherNext]_dispatcherVars
               PROVE  CooldownKept'
    OBVIOUS
  <2>1. CASE grants' = grants BY <2>1 DEF CooldownKept
  <2>2. CASE \E t \in Threads, k \in Keys : Grant(t, k) /\ Allowed(k)
    BY <1>2, <2>2
  <2> QED BY <2>1, <2>2, StepLimits
<1> QED BY <1>1, <1>3, LimitsInvariant, PTL DEF DispatcherSpec

-----------------------------------------------------------------------------
(* The counters.  A grant is sent by one thread, whose ok tells whether    *)
(* some channel took it, and no channel is tried twice for it.             *)

\* The alerts that no thread has in hand any more and some channel took.
Done == {g \in delivered : \A t \in Threads : sending[t] # g}

Sending ==
    /\ \A t, u \in Threads : sending[t] # 0 /\ sending[t] = sending[u] => t = u
    /\ \A t \in Threads : sending[t] # 0 => (ok[t] <=> sending[t] \in delivered)
    /\ \A t \in Threads : sending[t] # 0 =>
          \A c \in Int : <<sending[t], c>> \in failed => c < channel[t]
    /\ IsFiniteSet(failed)

Counted == Sending /\ CountersTruthful

LEMMA DoneFinite ==
    ASSUME Limits
    PROVE  /\ IsFiniteSet(Done) /\ Cardinality(Done) \in Nat
           /\ Done \subseteq DOMAIN grants /\ 0 \notin DOMAIN grants
<1>1. DOMAIN grants = 1 .. Len(grants) /\ Len(grants) \in Nat
  BY DEF Limits, DispatcherTypeOK
<1>2. 1 \in Int /\ Len(grants) \in Int BY <1>1
<1>3. IsFiniteSet(1 .. Len(grants)) BY <1>2, FS_Interval
<1>4. Done \in SUBSET (1 .. Len(grants))
  BY <1>1 DEF Done, Limits, DispatcherTypeOK
<1>5. IsFiniteSet(Done) BY <1>3, <1>4, FS_Subset
<1>6. Cardinality(Done) \in Nat BY <1>5, FS_CardinalityType
<1> QED BY <1>1, <1>4, <1>5, <1>6

LEMMA GrantCounted ==
    ASSUME Limits, Counted, NEW t \in Threads, NEW k \in Keys, sending[t] = 0,
           Grant(t, k), calls' = calls + 1
    PROVE  Counted'
<1> DEFINE n == Len(grants) + 1
<1>1. /\ Len(grants) \in Nat /\ DOMAIN grants = 1 .. Len(grants)
      /\ DOMAIN grants' = 1 .. n
  BY AppendedGrant DEF Limits
<1>2. /\ sending' = [sending EXCEPT ![t] = n]
      /\ channel' = [channel EXCEPT ![t] = 0]
      /\ ok' = [ok EXCEPT ![t] = FALSE]
      /\ delivered' = delivered /\ failed' = failed
      /\ suppressed' = suppressed /\ sent' = sent /\ errors' = errors
  BY DEF Grant, counters
<1>3. /\ sending \in [Threads -> {0} \cup DOMAIN grants]
      /\ channel \in [Threads -> 0 .. Channels] /\ ok \in [Threads -> BOOLEAN]
      /\ delivered \subseteq DOMAIN grants
      /\ failed \subseteq (DOMAIN grants) \X (0 .. (Channels - 1))
      /\ suppressed \in Nat
  BY DEF Limits, DispatcherTypeOK
<1>4. n # 0 /\ n \notin DOMAIN grants /\ n \notin delivered
      /\ \A c : <<n, c>> \notin failed
  BY <1>1, <1>3
<1>5. Len(grants') = n BY DEF Grant, Limits, DispatcherTypeOK
<1> HIDE DEF n
<1>6. /\ sending'[t] = n /\ ~ok'[t]
      /\ \A u \in Threads : u # t =>
            /\ sending'[u] = sending[u] /\ ok'[u] = ok[u]
            /\ channel'[u] = channel[u] /\ sending[u] # n
  BY <1>2, <1>3, <1>4
<1>7. Sending'
  <2>1. ASSUME NEW u \in Threads, NEW v \in Threads,
               sending'[u] # 0, sending'[u] = sending'[v]
        PROVE  u = v
    BY <1>6, <2>1 DEF Counted, Sending
  <2>2. ASSUME NEW u \in Threads, sending'[u] # 0
        PROVE  ok'[u] <=> sending'[u] \in delivered'
    BY <1>2, <1>4, <1>6, <2>2 DEF Counted, Sending
  <2>3. ASSUME NEW u \in Threads, sending'[u] # 0,
               NEW c \in Int, <<sending'[u], c>> \in failed'
        PROVE  c < channel'[u]
    BY <1>2, <1>4, <1>6, <2>3 DEF Counted, Sending
  <2>4. IsFiniteSet(failed') BY <1>2 DEF Counted, Sending
  <2> QED BY <2>1, <2>2, <2>3, <2>4 DEF Sending
<1>8. CountersTruthful'
  <2>1. Done' = Done
    <3>1. ASSUME NEW g \in delivered
          PROVE  (\A u \in Threads : sending'[u] # g) <=>
                     \A u \in Threads : sending[u] # g
      <4>1. g # 0 /\ g # n BY <1>1, <1>3, <1>4
      <4> QED BY <1>6, <4>1
    <3> QED BY <1>2, <3>1 DEF Done
  <2>2. calls' = suppressed' + Len(grants')
    BY <1>1, <1>2, <1>3, <1>5 DEF Counted, CountersTruthful, n
  <2> QED BY <1>2, <2>1, <2>2 DEF Counted, CountersTruthful, Done
<1> QED BY <1>7, <1>8 DEF Counted

\* A step that sends nothing.
LEMMA NothingSentCounted ==
    ASSUME Counted, UNCHANGED <<sending, channel, ok, delivered, failed, grants>>,
           sent' = sent, errors' = errors,
           calls' = suppressed' + Len(grants)
    PROVE  Counted'
<1>1. Sending' BY DEF Counted, Sending
<1>2. CountersTruthful' BY DEF Counted, CountersTruthful
<1> QED BY <1>1, <1>2 DEF Counted

LEMMA ReserveCounted ==
    ASSUME Limits, Counted, NEW t \in Threads, NEW k \in Keys, Reserve(t, k)
    PROVE  Counted'
<1>1. calls' = calls + 1 /\ sending[t] = 0 BY DEF Reserve
<1>2. CASE Grant(t, k) BY <1>1, <1>2, GrantCounted
<1>3. CASE Suppress(k)
  <2>1. /\ UNCHANGED <<sending, channel, ok, delivered, failed, grants>>
        /\ sent' = sent /\ errors' = errors /\ suppressed' = suppressed + 1
    BY <1>3 DEF Suppress, work
  <2>2. Len(grants) \in Nat /\ suppressed \in Nat
    BY DEF Limits, DispatcherTypeOK
  <2>3. calls' = suppressed' + Len(grants)
    BY <1>1, <2>1, <2>2 DEF Counted, CountersTruthful
  <2> QED BY <2>1, <2>3, NothingSentCounted
<1> QED BY <1>2, <1>3, ReserveCases

LEMMA SendOkCounted ==
    ASSUME Limits, Counted, NEW t \in Threads, SendOk(t)
    PROVE  Counted'
<1>1. /\ sending[t] # 0
      /\ channel' = [channel EXCEPT ![t] = @ + 1]
      /\ ok' = [ok EXCEPT ![t] = TRUE]
      /\ delivered' = delivered \cup {sending[t]}
      /\ sending' = sending /\ failed' = failed /\ grants' = grants
      /\ suppressed' = suppressed /\ sent' = sent /\ errors' = errors
      /\ calls' = calls
  BY DEF SendOk, limits, counters
<1>2. /\ channel \in [Threads -> 0 .. Channels] /\ ok \in [Threads -> BOOLEAN]
  BY DEF Limits, DispatcherTypeOK
<1>3. /\ ok'[t] /\ channel'[t] = channel[t] + 1 /\ channel[t] \in Int
      /\ \A u \in Threads : u # t => ok'[u] = ok[u] /\ channel'[u] = channel[u]
  BY <1>1, <1>2, DispatcherAssumption
<1>4. Sending'
  <2>1. ASSUME NEW u \in Threads, sending'[u] # 0
        PROVE  ok'[u] <=> sending'[u] \in delivered'
    BY <1>1, <1>3, <2>1 DEF Counted, Sending
  <2>2. ASSUME NEW u \in Threads, sending'[u] # 0,
               NEW c \in Int, <<sending'[u], c>> \in failed'
        PROVE  c < channel'[u]
    <3>1. c < channel[u] BY <1>1, <2>2 DEF Counted, Sending
    <3> QED BY <1>3, <3>1
  <2> QED BY <1>1, <2>1, <2>2 DEF Counted, Sending
<1>5. Done' = Done BY <1>1 DEF Done
<1>6. CountersTruthful' BY <1>1, <1>5 DEF Counted, CountersTruthful, Done
<1> QED BY <1>4, <1>6 DEF Counted

LEMMA SendFailsCounted ==
    ASSUME Limits, Counted, NEW t \in Threads, SendFails(t)
    PROVE  Counted'
<1> DEFINE e == <<sending[t], channel[t]>>
<1>1. /\ sending[t] # 0
      /\ channel' = [channel EXCEPT ![t] = @ + 1]
      /\ errors' = errors + 1
      /\ failed' = failed \cup {e}
      /\ sending' = sending /\ ok' = ok /\ delivered' = delivered
      /\ grants' = grants /\ suppressed' = suppressed /\ sent' = sent
      /\ calls' = calls
  BY DEF SendFails, limits
<1>2. channel \in [Threads -> 0 .. Channels] BY DEF Limits, DispatcherTypeOK
<1>3. /\ channel'[t] = channel[t] + 1 /\ channel[t] \in Int
      /\ \A u \in Threads : u # t => channel'[u] = channel[u]
  BY <1>1, <1>2, DispatcherAssumption
<1>4. IsFiniteSet(failed) BY DEF Counted, Sending
<1>5. Sending'
  <2>1. ASSUME NEW u \in Threads, sending'[u] # 0,
               NEW c \in Int, <<sending'[u], c>> \in failed'
        PROVE  c < channel'[u]
    <3>1. CASE <<sending[u], c>> \in failed
      <4>1. c < channel[u] BY <1>1, <2>1, <3>1 DEF Counted, Sending
      <4> QED BY <1>3, <4>1
    <3>2. CASE <<sending[u], c>> = e
      <4>1. sending[u] = sending[t] /\ c = channel[t] BY <3>2
      <4>2. u = t BY <1>1, <4>1 DEF Counted, Sending
      <4> QED BY <1>3, <4>1, <4>2
    <3> QED BY <1>1, <2>1, <3>1, <3>2
  <2>2. IsFiniteSet(failed') BY <1>1, <1>4, FS_AddElement
  <2> QED BY <1>1, <2>1, <2>2 DEF Counted, Sending
<1>6. e \notin failed BY <1>1, <1>3 DEF Counted, Sending
<1>7. Cardinality(failed') = Cardinality(failed) + 1
  BY <1>1, <1>4, <1>6, FS_AddElement
<1>8. CountersTruthful' BY <1>1, <1>7 DEF Counted, CountersTruthful
<1> QED BY <1>5, <1>8 DEF Counted

LEMMA FinishCounted ==
    ASSUME Limits, Counted, NEW t \in Threads, Finish(t)
    PROVE  Counted'
<1> DEFINE g == sending[t]
<1>1. /\ g # 0
      /\ sending' = [sending EXCEPT ![t] = 0]
      /\ sent' = IF ok[t] THEN sent + 1 ELSE sent
      /\ channel' = channel /\ ok' = ok /\ delivered' = delivered
      /\ failed' = failed /\ grants' = grants
      /\ suppressed' = suppressed /\ errors' = errors /\ calls' = calls
  BY DEF Finish, limits
<1>2. /\ sending \in [Threads -> {0} \cup DOMAIN grants]
      /\ delivered \subseteq DOMAIN grants
  BY DEF Limits, DispatcherTypeOK
<1>3. sending'[t] = 0 /\ \A u \in Threads : u # t => sending'[u] = sending[u]
  BY <1>1, <1>2
<1>4. Sending' BY <1>1, <1>3 DEF Counted, Sending
<1>5. ok[t] <=> g \in delivered BY <1>1 DEF Counted, Sending
<1>6. ASSUME NEW h \in delivered
      PROVE  (\A u \in Threads : sending'[u] # h) <=>
                 h = g \/ \A u \in Threads : sending[u] # h
  <2>1. h # 0 BY <1>2, DoneFinite
  <2>2. h = g => \A u \in Threads : sending'[u] # h
    BY <1>1, <1>3, <2>1 DEF Counted, Sending
  <2> QED BY <1>3, <2>1, <2>2
<1>7. g \notin Done BY DEF Done
<1>8. sent' = Cardinality(Done')
  <2>1. sent = Cardinality(Done) BY DEF Counted, CountersTruthful, Done
  <2>2. CASE ok[t]
    <3>1. Done' = Done \cup {g} BY <1>1, <1>5, <1>6, <2>2 DEF Done
    <3>2. Cardinality(Done \cup {g}) = Cardinality(Done) + 1
      BY <1>7, DoneFinite, FS_AddElement
    <3> QED BY <1>1, <2>1, <2>2, <3>1, <3>2
  <2>3. CASE ~ok[t]
    <3>1. Done' = Done BY <1>1, <1>5, <1>6, <2>3 DEF Done
    <3> QED BY <1>1, <2>1, <2>3, <3>1
  <2> QED BY <2>2, <2>3
<1>9. CountersTruthful' BY <1>1, <1>8 DEF Counted, CountersTruthful, Done
<1> QED BY <1>4, <1>9 DEF Counted

LEMMA InitCounted == DispatcherInit => Counted
<1> SUFFICES ASSUME DispatcherInit PROVE Counted OBVIOUS
<1>1. Sending BY FS_EmptySet DEF DispatcherInit, Sending
<1>2. Done = {} BY DEF DispatcherInit, Done
<1>3. Len(grants) = 0 BY DEF DispatcherInit
<1>4. CountersTruthful
  BY <1>2, <1>3, FS_EmptySet DEF DispatcherInit, CountersTruthful, Done
<1> QED BY <1>1, <1>4 DEF Counted

\* However the threads' sends overlap and fail, the counters are exact.
THEOREM CountersExact == DispatcherSpec => []CountersTruthful
<1>1. Limits /\ Counted /\ [DispatcherNext]_dispatcherVars => Counted'
  <2> SUFFICES ASSUME Limits, Counted, [DispatcherNext]_dispatcherVars
               PROVE  Counted'
    OBVIOUS
  <2>1. ASSUME NEW t \in Threads, NEW k \in Keys, Reserve(t, k)
        PROVE  Counted'
    BY <2>1, ReserveCounted
  <2>2. ASSUME NEW t \in Threads, SendOk(t) \/ SendFails(t) \/ Finish(t)
        PROVE  Counted'
    BY <2>2, SendOkCounted, SendFailsCounted, FinishCounted
  <2>3. CASE Tick \/ UNCHANGED dispatcherVars
    <3>1. /\ UNCHANGED <<sending, channel, ok, delivered, failed, grants>>
          /\ sent' = sent /\ errors' = errors
          /\ calls' = calls /\ suppressed' = suppressed
      BY <2>3 DEF Tick, dispatcherVars, limits, counters, work
    <3>2. calls' = suppressed' + Len(grants)
      BY <3>1 DEF Counted, CountersTruthful
    <3> QED BY <3>1, <3>2, NothingSentCounted
  <2> QED BY <2>1, <2>2, <2>3 DEF DispatcherNext
<1>2. Counted => CountersTruthful BY DEF Counted
<1> QED BY <1>1, <1>2, InitCounted, LimitsInvariant, PTL DEF DispatcherSpec

-----------------------------------------------------------------------------
(* The monitor.                                                            *)

\* The monitor's own state has its type; what bounds the counters is proved.
Typed ==
    /\ emitting \in [Callers -> Keys \cup {None}]
    /\ q \in Seq(Keys \cup {Sentinel}) /\ Len(q) <= QueueSize
    /\ held \in [Threads -> Keys \cup {None}]
    /\ exited \in BOOLEAN
    /\ stopping \in {"no", "unhooked", "joining", "done"}
    /\ emits \in 0 .. MaxEmits /\ crashes \in 0 .. MaxCrashes
    /\ queued \in Nat /\ dropped \in Nat /\ taken \in Nat /\ before \in Nat

\* AnomaliesAccounted, with the places counted where a key stands.
Accounts ==
    /\ emits = queued + dropped + Cardinality(Places(emitting, Keys))
    /\ queued = taken + Cardinality(Places(q, Keys))
    /\ calls = taken + crashes - Cardinality(Places(held, Keys))

\* The sentinel has in front of it exactly the anomalies that were queued
\* before it and are not taken yet; so there is one of it at most, and the
\* thread that takes it has taken the others.
Queued ==
    /\ before <= queued
    /\ stopping \in {"no", "unhooked"} =>
          ~exited /\ \A i \in DOMAIN q : q[i] # Sentinel
    /\ exited => taken = before /\ \A i \in DOMAIN q : q[i] # Sentinel
    /\ \A i \in DOMAIN q : q[i] = Sentinel => taken + i - 1 = before

MonitorInv == Typed /\ Accounts /\ Queued

\* The counters alone, as numbers.
LEMMA Numbers ==
    ASSUME Typed
    PROVE  /\ emits \in Nat /\ crashes \in Nat /\ queued \in Nat
           /\ dropped \in Nat /\ taken \in Nat /\ before \in Nat
BY MonitorAssumption DEF Typed

LEMMA NoneIsNoKey == None \notin Keys /\ Sentinel \notin Keys
BY MonitorAssumption

-----------------------------------------------------------------------------
(* Log calls.                                                              *)

LEMMA EmitInv ==
    ASSUME MonitorInv, NEW c \in Callers, NEW k \in Keys, Emit(c, k)
    PROVE  MonitorInv'
<1> USE DEF MonitorInv
<1>1. /\ emits < MaxEmits /\ emitting[c] = None
      /\ emitting' = [emitting EXCEPT ![c] = k] /\ emits' = emits + 1
      /\ q' = q /\ held' = held /\ exited' = exited /\ stopping' = stopping
      /\ crashes' = crashes /\ queued' = queued /\ dropped' = dropped
      /\ taken' = taken /\ before' = before /\ calls' = calls
  BY DEF Emit, dispatcherVars
<1>2. Typed' BY <1>1, MonitorAssumption DEF Typed
<1>3. /\ Cardinality(Places(emitting, Keys)) \in Nat
      /\ Cardinality(Places(emitting', Keys)) = Cardinality(Places(emitting, Keys)) + 1
  <2>1. /\ DOMAIN emitting = Callers /\ DOMAIN emitting' = Callers
        /\ emitting'[c] = k
        /\ \A d \in Callers : d # c => emitting'[d] = emitting[d]
    BY <1>1, <1>2 DEF Typed
  <2>2. Cardinality(Places(emitting, Keys)) \in Nat
        /\ Cardinality(Places(emitting', Keys)) =
              Cardinality(Places(emitting, Keys))
                  - Unit(emitting[c] \in Keys) + Unit(emitting'[c] \in Keys)
    BY <2>1, PlacesExcept, MonitorAssumption
  <2> QED BY <1>1, <2>1, <2>2, NoneIsNoKey DEF Unit
<1>4. Accounts' BY <1>1, <1>3, Numbers DEF Accounts
<1>5. Queued' BY <1>1 DEF Queued
<1> QED BY <1>2, <1>4, <1>5

LEMMA EnqueueInv ==
    ASSUME MonitorInv, NEW c \in Callers, Enqueue(c)
    PROVE  MonitorInv'
<1> USE DEF MonitorInv
<1> DEFINE k == emitting[c]
<1>1. /\ k # None /\ emitting' = [emitting EXCEPT ![c] = None]
      /\ held' = held /\ exited' = exited /\ stopping' = stopping
      /\ emits' = emits /\ crashes' = crashes /\ taken' = taken
      /\ before' = before /\ calls' = calls
  BY DEF Enqueue, dispatcherVars
<1>2. k \in Keys BY <1>1 DEF Typed
<1>3. /\ Cardinality(Places(emitting, Keys)) \in Nat
      /\ Cardinality(Places(emitting', Keys)) = Cardinality(Places(emitting, Keys)) - 1
  <2>1. /\ DOMAIN emitting = Callers /\ DOMAIN emitting' = Callers
        /\ emitting'[c] = None
        /\ \A d \in Callers : d # c => emitting'[d] = emitting[d]
    BY <1>1 DEF Typed
  <2>2. Cardinality(Places(emitting, Keys)) \in Nat
        /\ Cardinality(Places(emitting', Keys)) =
              Cardinality(Places(emitting, Keys))
                  - Unit(emitting[c] \in Keys) + Unit(emitting'[c] \in Keys)
    BY <2>1, PlacesExcept, MonitorAssumption
  <2> QED BY <1>2, <2>1, <2>2, NoneIsNoKey DEF Unit
<1>4. q \in Seq(Keys \cup {Sentinel}) /\ Cardinality(Places(q, Keys)) \in Nat
  BY PlacesFinite DEF Typed
<1>5. CASE Len(q) < QueueSize
  <2>1. q' = Append(q, k) /\ queued' = queued + 1 /\ dropped' = dropped
    BY <1>5 DEF Enqueue
  <2>2. k # Sentinel BY <1>2, NoneIsNoKey
  <2> HIDE DEF k
  <2>3. /\ q' \in Seq(Keys \cup {Sentinel}) /\ Len(q') = Len(q) + 1
        /\ DOMAIN q' = 1 .. (Len(q) + 1) /\ DOMAIN q = 1 .. Len(q)
        /\ q'[Len(q) + 1] = k
        /\ \A i \in DOMAIN q : q'[i] = q[i]
    BY <1>2, <1>4, <2>1
  <2>4. Cardinality(Places(q', Keys)) = Cardinality(Places(q, Keys)) + 1
    <3>1. Cardinality(Places(q', Keys)) =
              Cardinality(Places(q, Keys)) + Unit(q'[Len(q')] \in Keys)
      BY <1>4, <2>3, PlacesAppend
    <3>2. q'[Len(q')] \in Keys BY <1>2, <2>3
    <3> QED BY <3>1, <3>2 DEF Unit
  <2>5. Typed' BY <1>1, <1>5, <2>1, <2>3, MonitorAssumption DEF Typed
  <2>6. Accounts'
    <3>1. emits' = queued' + dropped' + Cardinality(Places(emitting', Keys))
      BY <1>1, <1>3, <2>1, Numbers DEF Accounts
    <3>2. queued' = taken' + Cardinality(Places(q', Keys))
      BY <1>1, <1>4, <2>1, <2>4, Numbers DEF Accounts
    <3>3. calls' = taken' + crashes' - Cardinality(Places(held', Keys))
      BY <1>1 DEF Accounts
    <3> QED BY <3>1, <3>2, <3>3 DEF Accounts
  <2>7. \A i \in DOMAIN q' : q'[i] = Sentinel => i \in DOMAIN q /\ q[i] = Sentinel
    BY <1>4, <2>2, <2>3
  <2>8. Queued' BY <1>1, <2>1, <2>7 DEF Queued, Typed
  <2> QED BY <2>5, <2>6, <2>8
<1>6. CASE ~(Len(q) < QueueSize)
  <2>1. q' = q /\ queued' = queued /\ dropped' = dropped + 1
    BY <1>6 DEF Enqueue
  <2>2. Typed' BY <1>1, <2>1 DEF Typed
  <2>3. Accounts' BY <1>1, <1>3, <2>1, Numbers DEF Accounts
  <2>4. Queued' BY <1>1, <2>1 DEF Queued
  <2> QED BY <2>2, <2>3, <2>4
<1> QED BY <1>5, <1>6

-----------------------------------------------------------------------------
(* The drain thread and the crashing ones.                                 *)

LEMMA TakeInv ==
    ASSUME MonitorInv, Take
    PROVE  MonitorInv'
<1> USE DEF MonitorInv
<1>1. /\ ~exited /\ held[Drain] = None /\ q # <<>> /\ q' = Tail(q)
      /\ emitting' = emitting /\ stopping' = stopping
      /\ emits' = emits /\ crashes' = crashes /\ queued' = queued
      /\ dropped' = dropped /\ before' = before /\ calls' = calls
  BY DEF Take, dispatcherVars
<1>2. q \in Seq(Keys \cup {Sentinel}) /\ Cardinality(Places(q, Keys)) \in Nat
      /\ Drain \in Threads
  BY PlacesFinite, MonitorAssumption DEF Typed
<1>3. /\ q' \in Seq(Keys \cup {Sentinel}) /\ Len(q') = Len(q) - 1
      /\ Head(q) = q[1] /\ 1 \in DOMAIN q /\ Head(q) \in Keys \cup {Sentinel}
      /\ \A j \in 1 .. Len(q') : q'[j] = q[j + 1]
      /\ Cardinality(Places(q', Keys)) =
            Cardinality(Places(q, Keys)) - Unit(Head(q) \in Keys)
  BY <1>1, <1>2, PlacesTail
<1>4. DOMAIN q' = 1 .. Len(q') /\ DOMAIN q = 1 .. Len(q) /\ Len(q) \in Nat
  BY <1>2, <1>3
<1>5. ASSUME NEW j \in DOMAIN q'
      PROVE  j \in Nat /\ j + 1 \in DOMAIN q /\ q'[j] = q[j + 1]
  BY <1>3, <1>4
<1>6. CASE Head(q) = Sentinel
  <2>1. exited' = TRUE /\ held' = held /\ taken' = taken BY <1>6 DEF Take
  <2>2. Cardinality(Places(q', Keys)) = Cardinality(Places(q, Keys))
    BY <1>2, <1>3, <1>6, NoneIsNoKey DEF Unit
  <2>3. Typed' BY <1>1, <1>3, <1>4, <2>1, MonitorAssumption DEF Typed
  <2>4. Accounts' BY <1>1, <2>1, <2>2 DEF Accounts
  <2>5. taken = before
    <3>1. taken + 1 - 1 = before BY <1>3, <1>6 DEF Queued
    <3> QED BY <3>1 DEF Typed
  <2>6. \A j \in DOMAIN q' : q'[j] # Sentinel
    <3> SUFFICES ASSUME NEW j \in DOMAIN q', q'[j] = Sentinel PROVE FALSE
      OBVIOUS
    <3>1. taken + (j + 1) - 1 = before BY <1>5 DEF Queued
    <3>2. j >= 1 /\ j \in Nat BY <1>4, <1>5
    <3> QED BY <2>5, <3>1, <3>2 DEF Typed
  <2>7. stopping \notin {"no", "unhooked"} BY <1>3, <1>6 DEF Queued
  <2>8. Queued' BY <1>1, <2>1, <2>5, <2>6, <2>7 DEF Queued
  <2> QED BY <2>3, <2>4, <2>8
<1>7. CASE Head(q) # Sentinel
  <2>1. /\ exited' = exited /\ taken' = taken + 1
        /\ held' = [held EXCEPT ![Drain] = Head(q)]
    BY <1>7 DEF Take
  <2>2. Head(q) \in Keys BY <1>3, <1>7
  <2>3. Cardinality(Places(q', Keys)) = Cardinality(Places(q, Keys)) - 1
    BY <1>3, <2>2 DEF Unit
  <2>4. /\ Cardinality(Places(held, Keys)) \in Nat
        /\ Cardinality(Places(held', Keys)) = Cardinality(Places(held, Keys)) + 1
    <3>1. /\ DOMAIN held = Threads /\ DOMAIN held' = Threads
          /\ held'[Drain] = Head(q)
          /\ \A u \in Threads : u # Drain => held'[u] = held[u]
      BY <1>2, <2>1, <2>2 DEF Typed
    <3>2. Cardinality(Places(held, Keys)) \in Nat
          /\ Cardinality(Places(held', Keys)) =
                Cardinality(Places(held, Keys))
                    - Unit(held[Drain] \in Keys) + Unit(held'[Drain] \in Keys)
      BY <1>2, <3>1, PlacesExcept, MonitorAssumption
    <3> QED BY <1>1, <2>2, <3>1, <3>2, NoneIsNoKey DEF Unit
  <2>5. Typed'
    <3>1. Len(q') <= QueueSize BY <1>3, <1>4, MonitorAssumption DEF Typed
    <3> QED BY <1>1, <1>2, <1>3, <2>1, <2>2, <3>1 DEF Typed
  <2>6. Accounts'
    <3>1. emits' = queued' + dropped' + Cardinality(Places(emitting', Keys))
      BY <1>1 DEF Accounts
    <3>2. queued' = taken' + Cardinality(Places(q', Keys))
      BY <1>1, <1>2, <2>1, <2>3, Numbers DEF Accounts
    <3>3. calls' = taken' + crashes' - Cardinality(Places(held', Keys))
      BY <1>1, <2>1, <2>4, Numbers DEF Accounts
    <3> QED BY <3>1, <3>2, <3>3 DEF Accounts
  <2>7. ASSUME NEW j \in DOMAIN q', q'[j] = Sentinel
        PROVE  taken' + j - 1 = before' /\ ~(\A i \in DOMAIN q : q[i] # Sentinel)
    <3>1. taken + (j + 1) - 1 = before BY <1>5, <2>7 DEF Queued
    <3> QED BY <1>1, <1>5, <2>1, <2>7, <3>1 DEF Typed
  <2>8. Queued' BY <1>1, <2>1, <2>7 DEF Queued
  <2> QED BY <2>5, <2>6, <2>8
<1> QED BY <1>6, <1>7

LEMMA CrashInv ==
    ASSUME MonitorInv, NEW t \in Threads, NEW k \in Keys, Crash(t, k)
    PROVE  MonitorInv'
<1> USE DEF MonitorInv
<1>1. /\ crashes < MaxCrashes /\ held[t] = None
      /\ held' = [held EXCEPT ![t] = k] /\ crashes' = crashes + 1
      /\ emitting' = emitting /\ q' = q /\ exited' = exited
      /\ stopping' = stopping /\ emits' = emits /\ queued' = queued
      /\ dropped' = dropped /\ taken' = taken /\ before' = before /\ calls' = calls
  BY DEF Crash, dispatcherVars
<1>2. Typed' BY <1>1, MonitorAssumption DEF Typed
<1>3. /\ Cardinality(Places(held, Keys)) \in Nat
      /\ Cardinality(Places(held', Keys)) = Cardinality(Places(held, Keys)) + 1
  <2>1. /\ DOMAIN held = Threads /\ DOMAIN held' = Threads
        /\ held'[t] = k
        /\ \A u \in Threads : u # t => held'[u] = held[u]
    BY <1>1, <1>2 DEF Typed
  <2>2. Cardinality(Places(held, Keys)) \in Nat
        /\ Cardinality(Places(held', Keys)) =
              Cardinality(Places(held, Keys))
                  - Unit(held[t] \in Keys) + Unit(held'[t] \in Keys)
    BY <2>1, PlacesExcept, MonitorAssumption
  <2> QED BY <1>1, <2>1, <2>2, NoneIsNoKey DEF Unit
<1>4. Accounts' BY <1>1, <1>3, Numbers DEF Accounts
<1>5. Queued' BY <1>1 DEF Queued
<1> QED BY <1>2, <1>4, <1>5

LEMMA DispatchInv ==
    ASSUME MonitorInv, NEW t \in Threads, Dispatch(t)
    PROVE  MonitorInv'
<1> USE DEF MonitorInv
<1>1. /\ held[t] # None /\ held' = [held EXCEPT ![t] = None]
      /\ calls' = calls + 1
      /\ emitting' = emitting /\ q' = q /\ exited' = exited
      /\ stopping' = stopping /\ emits' = emits /\ crashes' = crashes
      /\ queued' = queued /\ dropped' = dropped /\ taken' = taken
      /\ before' = before
  BY DEF Dispatch, Reserve, counts
<1>2. Typed' BY <1>1 DEF Typed
<1>3. /\ Cardinality(Places(held, Keys)) \in Nat
      /\ Cardinality(Places(held', Keys)) = Cardinality(Places(held, Keys)) - 1
  <2>1. /\ DOMAIN held = Threads /\ DOMAIN held' = Threads
        /\ held'[t] = None
        /\ \A u \in Threads : u # t => held'[u] = held[u]
    BY <1>1, <1>2 DEF Typed
  <2>2. Cardinality(Places(held, Keys)) \in Nat
        /\ Cardinality(Places(held', Keys)) =
              Cardinality(Places(held, Keys))
                  - Unit(held[t] \in Keys) + Unit(held'[t] \in Keys)
    BY <2>1, PlacesExcept, MonitorAssumption
  <2>3. held[t] \in Keys BY <1>1 DEF Typed
  <2> QED BY <2>1, <2>2, <2>3, NoneIsNoKey DEF Unit
<1>4. Accounts' BY <1>1, <1>3, Numbers DEF Accounts
<1>5. Queued' BY <1>1 DEF Queued
<1> QED BY <1>2, <1>4, <1>5

-----------------------------------------------------------------------------
(* stop().                                                                 *)

LEMMA PutSentinelInv ==
    ASSUME MonitorInv, PutSentinel
    PROVE  MonitorInv'
<1> USE DEF MonitorInv
<1>1. /\ stopping = "unhooked" /\ stopping' = "joining" /\ before' = queued
      /\ q' = IF Len(q) < QueueSize THEN Append(q, Sentinel) ELSE q
      /\ emitting' = emitting /\ held' = held /\ exited' = exited
      /\ emits' = emits /\ crashes' = crashes /\ queued' = queued
      /\ dropped' = dropped /\ taken' = taken /\ calls' = calls
  BY DEF PutSentinel, dispatcherVars
<1>2. /\ q \in Seq(Keys \cup {Sentinel}) /\ Len(q) \in Nat
      /\ DOMAIN q = 1 .. Len(q) /\ Cardinality(Places(q, Keys)) \in Nat
  BY PlacesFinite DEF Typed
<1>3. ~exited /\ \A i \in DOMAIN q : q[i] # Sentinel BY <1>1 DEF Queued
<1>4. Places(q, Keys) = 1 .. Len(q) BY <1>2, <1>3 DEF Places
<1>5. Cardinality(Places(q, Keys)) = Len(q)
  <2>1. 1 \in Int /\ Len(q) \in Int BY <1>2
  <2>2. Cardinality(1 .. Len(q)) = IF 1 > Len(q) THEN 0 ELSE Len(q) - 1 + 1
    BY <2>1, FS_Interval
  <2> QED BY <1>2, <1>4, <2>2
<1>6. queued = taken + Len(q) BY <1>5 DEF Accounts
<1>7. CASE Len(q) < QueueSize
  <2>1. /\ q' \in Seq(Keys \cup {Sentinel}) /\ Len(q') = Len(q) + 1
        /\ DOMAIN q' = 1 .. (Len(q) + 1)
        /\ \A i \in DOMAIN q : q'[i] = q[i]
    BY <1>1, <1>2, <1>7
  <2>2. Cardinality(Places(q', Keys)) = Cardinality(Places(q, Keys))
    <3>1. Cardinality(Places(q', Keys)) =
              Cardinality(Places(q, Keys)) + Unit(q'[Len(q')] \in Keys)
      BY <1>2, <2>1, PlacesAppend
    <3>2. q'[Len(q')] = Sentinel BY <1>1, <1>2, <1>7
    <3> QED BY <1>2, <3>1, <3>2, NoneIsNoKey DEF Unit
  <2>3. Typed' BY <1>1, <1>7, <2>1, MonitorAssumption DEF Typed
  <2>4. Accounts' BY <1>1, <2>2 DEF Accounts
  <2>5. ASSUME NEW i \in DOMAIN q', q'[i] = Sentinel
        PROVE  taken + i - 1 = queued
    <3>1. i = Len(q) + 1 BY <1>2, <1>3, <2>1, <2>5
    <3> QED BY <1>2, <1>6, <3>1 DEF Typed
  <2>6. Queued' BY <1>1, <1>3, <2>5 DEF Queued, Typed
  <2> QED BY <2>3, <2>4, <2>6
<1>8. CASE ~(Len(q) < QueueSize)
  <2>1. q' = q BY <1>1, <1>8
  <2>2. Typed' BY <1>1, <2>1 DEF Typed
  <2>3. Accounts' BY <1>1, <2>1 DEF Accounts
  <2>4. Queued' BY <1>1, <1>3, <2>1 DEF Queued, Typed
  <2> QED BY <2>2, <2>3, <2>4
<1> QED BY <1>7, <1>8

\* The steps that only move stop() on, or are the dispatcher's.
LEMMA OtherInv ==
    ASSUME MonitorInv,
           \/ Unhook \/ Join \/ Time \/ UNCHANGED monitorVars
           \/ \E t \in Threads : Send(t)
    PROVE  MonitorInv'
<1> USE DEF MonitorInv
<1>1. /\ calls' = calls /\ emitting' = emitting /\ q' = q /\ held' = held
      /\ exited' = exited /\ emits' = emits /\ crashes' = crashes
      /\ queued' = queued /\ dropped' = dropped /\ taken' = taken
      /\ before' = before
  BY DEF Unhook, Join, Time, Tick, Send, SendOk, SendFails, Finish,
         monitorVars, dispatcherVars, queueVars, counts
<1>2. \/ stopping' = stopping
      \/ stopping = "no" /\ stopping' = "unhooked"
      \/ stopping = "joining" /\ stopping' = "done"
  BY DEF Unhook, Join, Time, Send, monitorVars, queueVars
<1>3. Typed' BY <1>1, <1>2 DEF Typed
<1>4. Accounts' BY <1>1 DEF Accounts
<1>5. Queued' BY <1>1, <1>2 DEF Queued
<1> QED BY <1>3, <1>4, <1>5

-----------------------------------------------------------------------------
(* The invariant.                                                          *)

LEMMA InitMonitorInv == Init => MonitorInv
<1> SUFFICES ASSUME Init PROVE MonitorInv OBVIOUS
<1>1. Typed
  <2>1. q \in Seq(Keys \cup {Sentinel}) /\ Len(q) <= QueueSize
    BY MonitorAssumption DEF Init
  <2>2. /\ emitting \in [Callers -> Keys \cup {None}]
        /\ held \in [Threads -> Keys \cup {None}]
    BY DEF Init
  <2>3. emits \in 0 .. MaxEmits /\ crashes \in 0 .. MaxCrashes
    BY MonitorAssumption DEF Init
  <2> QED BY <2>1, <2>2, <2>3 DEF Init, Typed
<1>2. /\ Places(emitting, Keys) = {} /\ Places(held, Keys) = {}
      /\ Places(q, Keys) = {}
  BY NoneIsNoKey DEF Init, Places
<1>3. calls = 0 BY DEF Init, DispatcherInit
<1>4. Accounts
  <2>1. /\ Cardinality(Places(emitting, Keys)) = 0
        /\ Cardinality(Places(held, Keys)) = 0
        /\ Cardinality(Places(q, Keys)) = 0
    BY <1>2, FS_EmptySet
  <2> QED BY <1>3, <2>1 DEF Init, Accounts
<1>5. Queued BY DEF Init, Queued
<1> QED BY <1>1, <1>4, <1>5 DEF MonitorInv

LEMMA MonitorInvariant == Spec => []MonitorInv
<1>1. MonitorInv /\ [Next]_monitorVars => MonitorInv'
  <2> SUFFICES ASSUME MonitorInv, [Next]_monitorVars PROVE MonitorInv'
    OBVIOUS
  <2>1. Drain \in Threads /\ Crashers \subseteq Threads
    BY MonitorAssumption DEF Crashers
  <2>2. ASSUME NEW c \in Callers, Enqueue(c) \/ \E k \in Keys : Emit(c, k)
        PROVE  MonitorInv'
    BY <2>2, EnqueueInv, EmitInv
  <2>3. CASE DrainStep
    BY <2>1, <2>3, TakeInv, DispatchInv, OtherInv DEF DrainStep
  <2>4. ASSUME NEW t \in Crashers,
               (\E k \in Keys : Crash(t, k)) \/ Dispatch(t) \/ Send(t)
        PROVE  MonitorInv'
    BY <2>1, <2>4, CrashInv, DispatchInv, OtherInv
  <2>5. CASE Unhook \/ Join \/ Time \/ UNCHANGED monitorVars
    BY <2>5, OtherInv
  <2>6. CASE PutSentinel BY <2>6, PutSentinelInv
  <2> QED BY <2>2, <2>3, <2>4, <2>5, <2>6 DEF Next
<1> QED BY <1>1, InitMonitorInv, PTL DEF Spec

-----------------------------------------------------------------------------
(* The dispatcher under the monitor.                                       *)

\* A step of the monitor is one of the dispatcher's, or leaves it alone.
LEMMA DispatcherStep ==
    ASSUME MonitorInv, [Next]_monitorVars
    PROVE  [DispatcherNext]_dispatcherVars
<1>1. Drain \in Threads /\ Crashers \subseteq Threads
  BY MonitorAssumption DEF Crashers
<1>2. ASSUME NEW t \in Threads, Dispatch(t) PROVE DispatcherNext
  <2>1. held[t] \in Keys BY <1>2 DEF Dispatch, MonitorInv, Typed
  <2>2. Reserve(t, held[t]) BY <1>2 DEF Dispatch
  <2> QED BY <2>1, <2>2 DEF DispatcherNext
<1>3. ASSUME NEW t \in Threads, Send(t) PROVE DispatcherNext
  BY <1>3 DEF Send, DispatcherNext
<1>4. ASSUME NEW c \in Callers, Enqueue(c) \/ \E k \in Keys : Emit(c, k)
      PROVE  UNCHANGED dispatcherVars
  BY <1>4 DEF Enqueue, Emit
<1>5. ASSUME NEW t \in Threads, NEW k \in Keys, Crash(t, k)
      PROVE  UNCHANGED dispatcherVars
  BY <1>5 DEF Crash
<1>6. CASE Take \/ Unhook \/ PutSentinel \/ Join \/ UNCHANGED monitorVars
  BY <1>6 DEF Take, Unhook, PutSentinel, Join, monitorVars
<1>7. CASE Time BY <1>7 DEF Time, DispatcherNext
<1> QED BY <1>1, <1>2, <1>3, <1>4, <1>5, <1>6, <1>7 DEF Next, DrainStep

\* The monitor implements the dispatcher: whatever the application logs,
\* whoever crashes and whenever it is stopped, the dispatcher only sees calls
\* of its own operations.
THEOREM MonitorDispatches == Spec => DispatcherSpec
<1>1. Init => DispatcherInit BY DEF Init
<1>2. MonitorInv /\ [Next]_monitorVars => [DispatcherNext]_dispatcherVars
  BY DispatcherStep
<1> QED BY <1>1, <1>2, MonitorInvariant, PTL DEF Spec, DispatcherSpec

-----------------------------------------------------------------------------
(* The theorems.                                                           *)

\* The monitor's state has its type; no counter runs past the anomalies there
\* have been.
THEOREM MonitorTypeCorrect == Spec => []TypeOK
<1>1. DispatcherTypeOK /\ MonitorInv => TypeOK
  <2> SUFFICES ASSUME DispatcherTypeOK, MonitorInv PROVE TypeOK
    OBVIOUS
  <2>1. /\ Cardinality(Places(emitting, Keys)) \in Nat
        /\ Cardinality(Places(q, Keys)) \in Nat
    <3>1. IsFiniteSet(Callers) /\ Places(emitting, Keys) \in SUBSET Callers
      BY MonitorAssumption DEF MonitorInv, Typed, Places
    <3>2. IsFiniteSet(Places(emitting, Keys)) BY <3>1, FS_Subset
    <3> QED BY <3>2, FS_CardinalityType, PlacesFinite DEF MonitorInv, Typed
  <2>2. {queued, dropped, taken, before} \subseteq 0 .. emits
    BY <2>1 DEF MonitorInv, Typed, Accounts, Queued
  <2> QED BY <2>2 DEF MonitorInv, Typed, TypeOK
<1> QED BY <1>1, MonitorInvariant, MonitorDispatches, DispatcherTypeCorrect, PTL

\* With a monitor in front of it too, at most max_per_hour alerts go out in
\* any hour.
THEOREM MonitorHourlyCap == Spec => []HourlyCap
BY MonitorDispatches, AtMostMaxPerHour, PTL

\* And two alerts for one problem are a cooldown apart.
THEOREM MonitorCooldown == Spec => []CooldownKept
BY MonitorDispatches, CooldownBetweenAlerts, PTL

\* Every anomaly that is detected is accounted for: it was dropped at a full
\* queue, or is on its way, or was dispatched, and then the dispatcher's
\* counters tell its fate; and a drain thread that has returned has taken all
\* that was queued before stop().
THEOREM EveryAlertAccounted == Spec => []AlertsAccounted
<1>1. MonitorInv => AnomaliesAccounted /\ StopDrainsFirst
  <2> SUFFICES ASSUME MonitorInv PROVE AnomaliesAccounted /\ StopDrainsFirst
    OBVIOUS
  <2>1. {c \in Callers : emitting[c] # None} = Places(emitting, Keys)
    BY NoneIsNoKey DEF MonitorInv, Typed, Places
  <2>2. {t \in Threads : held[t] # None} = Places(held, Keys)
    BY NoneIsNoKey DEF MonitorInv, Typed, Places
  <2>3. InQueue = Places(q, Keys)
    <3>1. \A i \in DOMAIN q : q[i] \in Keys \cup {Sentinel}
      BY DEF MonitorInv, Typed
    <3> QED BY <3>1, NoneIsNoKey DEF InQueue, Places
  <2> QED BY <2>1, <2>2, <2>3
          DEF MonitorInv, Accounts, Queued, AnomaliesAccounted, StopDrainsFirst
<1>2. MonitorInv /\ CountersTruthful => AlertsAccounted
  BY <1>1 DEF AlertsAccounted
<1> QED BY <1>2, MonitorInvariant, MonitorDispatches, CountersExact, PTL
==============================================================================
