--------------------------- MODULE AlertDispatcher ---------------------------
(***************************************************************************)
(* AlertDispatcher (infrastructure/alerts.py): several threads dispatch    *)
(* alerts; one lock guards the rate limits and the counters, but sending   *)
(* is done outside it, channel after channel.                              *)
(*                                                                         *)
(* A grant is a dispatch that the limits let through.  Grants are numbered *)
(* in the order of their reservation, and a stamp of _hour_stamps is known *)
(* by the number of its grant.  The clock does not run backwards.          *)
(***************************************************************************)
EXTENDS Integers, FiniteSets, Sequences

CONSTANTS Threads,      \* the callers of dispatch
          Keys,         \* what _key makes of an anomaly
          Channels,     \* how many alerters there are
          Cooldown, MaxPerHour, Hour,   \* Hour is the code's 3600
          Epoch,        \* the time at which the dispatcher is built
          MaxTime,      \* bound: the last time considered
          MaxCalls      \* bound: how many dispatches there are

ASSUME DispatcherAssumption ==
    /\ Channels \in Nat /\ MaxPerHour \in Nat
    /\ Cooldown \in Nat /\ Hour \in Nat \ {0}
    /\ Epoch \in Nat /\ Epoch >= Cooldown
    /\ MaxTime \in Nat /\ MaxTime >= Epoch /\ MaxCalls \in Nat

None == "none"

VARIABLES
    now,         \* time.time()
    lastSent,    \* _last_sent; a key it does not have counts as sent at 0
    stamps,      \* _hour_stamps
    suppressed, sent, errors,   \* the counters
    sending,     \* the grant that each thread is sending, or 0
    channel,     \* how many channels it has tried for it
    ok,          \* whether one of them took it
    grants,      \* history: the key and the time of each grant
    calls,       \* history: how many dispatches there have been
    delivered,   \* history: the grants that some channel took
    failed       \* history: the sends that raised, as <<grant, channel>>

limits   == <<lastSent, stamps, grants>>
counters == <<suppressed, sent, errors>>
work     == <<sending, channel, ok, delivered, failed>>
dispatcherVars == <<now, limits, counters, work, calls>>

-----------------------------------------------------------------------------
(* _allowed.                                                               *)

\* The stamps younger than an hour.
RecentShort == {g \in stamps : now - grants[g].at < Hour - 1}
Recent == {g \in stamps : now - grants[g].at < Hour}

CapReachedLate == Cardinality(Recent) > MaxPerHour
CapReached == Cardinality(Recent) >= MaxPerHour

CoolingNever(k) == FALSE
Cooling(k) == now - lastSent[k] < Cooldown

Allowed(k) == ~CapReached /\ ~Cooling(k)

-----------------------------------------------------------------------------
DispatcherInit ==
    /\ now = Epoch
    /\ lastSent = [k \in Keys |-> 0]
    /\ stamps = {}
    /\ suppressed = 0 /\ sent = 0 /\ errors = 0
    /\ sending = [t \in Threads |-> 0]
    /\ channel = [t \in Threads |-> 0]
    /\ ok = [t \in Threads |-> FALSE]
    /\ grants = <<>>
    /\ calls = 0
    /\ delivered = {}
    /\ failed = {}

\* The slot of the grant is taken before anything is sent.
Grant(t, k) ==
    LET g == Len(grants) + 1
    IN  /\ lastSent' = [lastSent EXCEPT ![k] = now]
        /\ grants' = Append(grants, [key |-> k, at |-> now])
        /\ stamps' = Recent \cup {g}
        /\ sending' = [sending EXCEPT ![t] = g]
        /\ channel' = [channel EXCEPT ![t] = 0]
        /\ ok' = [ok EXCEPT ![t] = FALSE]
        /\ UNCHANGED <<counters, delivered, failed>>

\* Without a channel the limits are not looked at, not even to prune them.
Suppress(k) ==
    /\ stamps' = IF Channels > 0 THEN Recent ELSE stamps
    /\ suppressed' = suppressed + 1
    /\ UNCHANGED <<lastSent, grants, sent, errors, work>>

\* dispatch, its first critical section.
Reserve(t, k) ==
    /\ sending[t] = 0
    /\ calls < MaxCalls
    /\ calls' = calls + 1
    /\ IF Channels > 0 /\ Allowed(k) THEN Grant(t, k) ELSE Suppress(k)
    /\ UNCHANGED now

\* The next channel takes the alert.
SendOk(t) ==
    /\ sending[t] # 0
    /\ channel[t] < Channels
    /\ channel' = [channel EXCEPT ![t] = @ + 1]
    /\ ok' = [ok EXCEPT ![t] = TRUE]
    /\ delivered' = delivered \cup {sending[t]}
    /\ UNCHANGED <<now, limits, counters, sending, failed, calls>>

\* It raises; the others are tried all the same.
SendFails(t) ==
    /\ sending[t] # 0
    /\ channel[t] < Channels
    /\ channel' = [channel EXCEPT ![t] = @ + 1]
    /\ errors' = errors + 1
    /\ failed' = failed \cup {<<sending[t], channel[t]>>}
    /\ UNCHANGED <<now, limits, suppressed, sent, sending, ok, delivered, calls>>

\* The last critical section: an alert that some channel took was sent.
FinishCounting(t) ==
    /\ sending[t] # 0
    /\ channel[t] = Channels
    /\ sent' = sent + 1
    /\ sending' = [sending EXCEPT ![t] = 0]
    /\ UNCHANGED <<now, limits, suppressed, errors, channel, ok, delivered,
                   failed, calls>>

FinishDelivered(t) ==
    /\ sending[t] # 0
    /\ channel[t] = Channels
    /\ ok[t]
    /\ sent' = sent + 1
    /\ sending' = [sending EXCEPT ![t] = 0]
    /\ UNCHANGED <<now, limits, suppressed, errors, channel, ok, delivered,
                   failed, calls>>

Finish(t) ==
    /\ sending[t] # 0
    /\ channel[t] = Channels
    /\ sent' = IF ok[t] THEN sent + 1 ELSE sent
    /\ sending' = [sending EXCEPT ![t] = 0]
    /\ UNCHANGED <<now, limits, suppressed, errors, channel, ok, delivered,
                   failed, calls>>

Tick ==
    /\ now < MaxTime
    /\ now' = now + 1
    /\ UNCHANGED <<limits, counters, work, calls>>

DispatcherNext ==
    \/ \E t \in Threads :
          \/ \E k \in Keys : Reserve(t, k)
          \/ SendOk(t) \/ SendFails(t) \/ Finish(t)
    \/ Tick

DispatcherSpec == DispatcherInit /\ [][DispatcherNext]_dispatcherVars

-----------------------------------------------------------------------------
DispatcherTypeOK ==
    /\ now \in Epoch .. MaxTime
    /\ lastSent \in [Keys -> Nat]
    /\ stamps \subseteq DOMAIN grants
    /\ suppressed \in Nat /\ sent \in Nat /\ errors \in Nat
    /\ grants \in Seq([key : Keys, at : Nat])
    /\ sending \in [Threads -> {0} \cup DOMAIN grants]
    /\ channel \in [Threads -> 0 .. Channels]
    /\ ok \in [Threads -> BOOLEAN]
    /\ calls \in Nat
    /\ delivered \subseteq DOMAIN grants
    /\ failed \subseteq (DOMAIN grants) \X (0 .. (Channels - 1))

\* In no stretch of an hour are there more than max_per_hour alerts, whatever
\* threads dispatch them and however slow their channels are.
HourlyCap ==
    \A g \in DOMAIN grants :
        Cardinality({h \in 1 .. g : grants[g].at - grants[h].at < Hour})
            <= MaxPerHour

\* Two alerts for the same problem are a cooldown apart.
CooldownKept ==
    \A g, h \in DOMAIN grants :
        g < h /\ grants[g].key = grants[h].key
            => grants[h].at - grants[g].at >= Cooldown

\* The counters tell what happened: every call was suppressed or granted, an
\* alert counts as sent once, when its thread is done with it and if some
\* channel took it, and every failure of a channel counts.
CountersTruthful ==
    /\ calls = suppressed + Len(grants)
    /\ sent = Cardinality({g \in delivered : \A t \in Threads : sending[t] # g})
    /\ errors = Cardinality(failed)
==============================================================================
