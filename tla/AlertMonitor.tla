---------------------------- MODULE AlertMonitor -----------------------------
(***************************************************************************)
(* Monitor (interface/monitor.py): log calls of the application hand their *)
(* anomalies to a bounded queue, one thread drains it into the dispatcher, *)
(* a crashing thread dispatches on its own, and stop() takes everything    *)
(* down again.                                                             *)
(*                                                                         *)
(* An anomaly is its key.  Only those above the alerting bar are modelled; *)
(* the others end in _enqueue's first line.                                *)
(***************************************************************************)
EXTENDS AlertDispatcher

CONSTANTS Drain,        \* the drain thread, one of Threads
          Callers,      \* the application's threads that log
          QueueSize,    \* maxsize of the queue, 1000
          MaxEmits,     \* bound: how many anomalies are detected
          MaxCrashes    \* bound: how many threads crash

Sentinel == "sentinel"

ASSUME MonitorAssumption ==
    /\ Drain \in Threads
    /\ IsFiniteSet(Threads) /\ IsFiniteSet(Callers)
    /\ Keys \cap {None, Sentinel} = {}
    /\ QueueSize \in Nat \ {0}
    /\ MaxEmits \in Nat /\ MaxCrashes \in Nat
    /\ MaxCalls >= MaxEmits + MaxCrashes     \* so that MaxCalls never blocks

Crashers == Threads \ {Drain}

VARIABLES
    emitting,   \* the anomaly each caller has detected but not yet queued
    q,          \* _q
    held,       \* the anomaly each thread has and has not yet dispatched
    exited,     \* whether the drain thread has returned
    stopping,   \* stop(): "no", "unhooked", "joining" or "done"
    emits, crashes,   \* history: how many anomalies and crashes there were
    queued, dropped,  \* history: how many anomalies found room, and did not
    taken,            \* history: how many the drain thread took
    before            \* history: how many were queued before the sentinel

counts      == <<emits, crashes, queued, dropped, taken, before>>
queueVars   == <<emitting, q, held, exited, stopping, counts>>
monitorVars == <<dispatcherVars, queueVars>>

-----------------------------------------------------------------------------
Init ==
    /\ DispatcherInit
    /\ emitting = [c \in Callers |-> None]
    /\ q = <<>>
    /\ held = [t \in Threads |-> None]
    /\ exited = FALSE
    /\ stopping = "no"
    /\ emits = 0 /\ crashes = 0
    /\ queued = 0 /\ dropped = 0 /\ taken = 0 /\ before = 0

\* LogLensHandler.emit or flush: the detector finds an anomaly, under its lock.
\* logging.shutdown flushes the handler even after stop() has removed it.
Emit(c, k) ==
    /\ emits < MaxEmits
    /\ emitting[c] = None
    /\ emitting' = [emitting EXCEPT ![c] = k]
    /\ emits' = emits + 1
    /\ UNCHANGED <<dispatcherVars, q, held, exited, stopping>>
    /\ UNCHANGED <<crashes, queued, dropped, taken, before>>

\* The callback, after the lock: a full queue drops the anomaly.  stop() may
\* have been called in the meantime.
EnqueueSilently(c) ==
    /\ emitting[c] # None
    /\ emitting' = [emitting EXCEPT ![c] = None]
    /\ q' = IF Len(q) < QueueSize THEN Append(q, emitting[c])
            ELSE Append(Tail(q), emitting[c])
    /\ queued' = queued + 1
    /\ UNCHANGED <<dispatcherVars, held, exited, stopping>>
    /\ UNCHANGED <<emits, crashes, dropped, taken, before>>

Enqueue(c) ==
    /\ emitting[c] # None
    /\ emitting' = [emitting EXCEPT ![c] = None]
    /\ IF Len(q) < QueueSize
       THEN /\ q' = Append(q, emitting[c])
            /\ queued' = queued + 1
            /\ UNCHANGED dropped
       ELSE dropped' = dropped + 1 /\ UNCHANGED <<q, queued>>
    /\ UNCHANGED <<dispatcherVars, held, exited, stopping>>
    /\ UNCHANGED <<emits, crashes, taken, before>>

\* _drain takes the next anomaly, and makes its root-cause line; the sentinel
\* ends it.
TakeDeaf ==
    /\ ~exited
    /\ held[Drain] = None /\ sending[Drain] = 0
    /\ q # <<>>
    /\ q' = Tail(q)
    /\ held' = [held EXCEPT ![Drain] = IF Head(q) = Sentinel THEN None ELSE Head(q)]
    /\ taken' = IF Head(q) = Sentinel THEN taken ELSE taken + 1
    /\ UNCHANGED <<dispatcherVars, emitting, exited, stopping>>
    /\ UNCHANGED <<emits, crashes, queued, dropped, before>>

Take ==
    /\ ~exited
    /\ held[Drain] = None /\ sending[Drain] = 0
    /\ q # <<>>
    /\ q' = Tail(q)
    /\ IF Head(q) = Sentinel
       THEN exited' = TRUE /\ UNCHANGED <<held, taken>>
       ELSE /\ held' = [held EXCEPT ![Drain] = Head(q)]
            /\ taken' = taken + 1
            /\ UNCHANGED exited
    /\ UNCHANGED <<dispatcherVars, emitting, stopping>>
    /\ UNCHANGED <<emits, crashes, queued, dropped, before>>

\* _excepthook or _thread_excepthook, while they are installed.
Crash(t, k) ==
    /\ stopping = "no"
    /\ crashes < MaxCrashes
    /\ held[t] = None /\ sending[t] = 0
    /\ held' = [held EXCEPT ![t] = k]
    /\ crashes' = crashes + 1
    /\ UNCHANGED <<dispatcherVars, emitting, q, exited, stopping>>
    /\ UNCHANGED <<emits, queued, dropped, taken, before>>

\* dispatch of what a thread holds.
Dispatch(t) ==
    /\ held[t] # None
    /\ Reserve(t, held[t])
    /\ held' = [held EXCEPT ![t] = None]
    /\ UNCHANGED <<emitting, q, exited, stopping, counts>>

Send(t) ==
    /\ SendOk(t) \/ SendFails(t) \/ Finish(t)
    /\ UNCHANGED queueVars

Time == Tick /\ UNCHANGED queueVars

\* stop() removes the handler and the hooks.
Unhook ==
    /\ stopping = "no"
    /\ stopping' = "unhooked"
    /\ UNCHANGED <<dispatcherVars, emitting, q, held, exited, counts>>

\* It queues the sentinel, if there is room.
PutSentinelFirst ==
    /\ stopping = "unhooked"
    /\ stopping' = "joining"
    /\ q' = IF Len(q) < QueueSize THEN <<Sentinel>> \o q ELSE q
    /\ before' = queued
    /\ UNCHANGED <<dispatcherVars, emitting, held, exited>>
    /\ UNCHANGED <<emits, crashes, queued, dropped, taken>>

PutSentinelAnyway ==
    /\ stopping = "unhooked"
    /\ stopping' = "joining"
    /\ q' = Append(q, Sentinel)
    /\ before' = queued
    /\ UNCHANGED <<dispatcherVars, emitting, held, exited>>
    /\ UNCHANGED <<emits, crashes, queued, dropped, taken>>

PutSentinel ==
    /\ stopping = "unhooked"
    /\ stopping' = "joining"
    /\ q' = IF Len(q) < QueueSize THEN Append(q, Sentinel) ELSE q
    /\ before' = queued
    /\ UNCHANGED <<dispatcherVars, emitting, held, exited>>
    /\ UNCHANGED <<emits, crashes, queued, dropped, taken>>

\* join returns when the thread has, or after two seconds.
Join ==
    /\ stopping = "joining"
    /\ stopping' = "done"
    /\ UNCHANGED <<dispatcherVars, emitting, q, held, exited, counts>>

DrainStep == Take \/ Dispatch(Drain) \/ Send(Drain)

Next ==
    \/ \E c \in Callers : Enqueue(c) \/ \E k \in Keys : Emit(c, k)
    \/ DrainStep
    \/ \E t \in Crashers :
          \/ \E k \in Keys : Crash(t, k)
          \/ Dispatch(t)
          \/ Send(t)
    \/ Unhook \/ PutSentinel \/ Join
    \/ Time

Spec == Init /\ [][Next]_monitorVars

\* The threads are scheduled; channels have timeouts, so that sending ends.
Fairness ==
    /\ WF_monitorVars(DrainStep)
    /\ \A c \in Callers : WF_monitorVars(Enqueue(c))
    /\ WF_monitorVars(PutSentinel) /\ WF_monitorVars(Join)

FairSpec == Spec /\ Fairness

-----------------------------------------------------------------------------
InQueue == {i \in DOMAIN q : q[i] # Sentinel}

TypeOK ==
    /\ DispatcherTypeOK
    /\ emitting \in [Callers -> Keys \cup {None}]
    /\ q \in Seq(Keys \cup {Sentinel}) /\ Len(q) <= QueueSize
    /\ held \in [Threads -> Keys \cup {None}]
    /\ exited \in BOOLEAN
    /\ stopping \in {"no", "unhooked", "joining", "done"}
    /\ emits \in 0 .. MaxEmits /\ crashes \in 0 .. MaxCrashes
    /\ {queued, dropped, taken, before} \subseteq 0 .. emits

\* No anomaly disappears between its log call and the dispatcher except by
\* finding the queue full: each is with its caller, dropped, in the queue, or
\* taken, and of the taken ones all but the one in hand have been dispatched.
AnomaliesAccounted ==
    /\ emits = queued + dropped + Cardinality({c \in Callers : emitting[c] # None})
    /\ queued = taken + Cardinality(InQueue)
    /\ calls = taken + crashes - Cardinality({t \in Threads : held[t] # None})

\* stop() lets the thread finish what was queued: when it returns, it has
\* taken exactly the anomalies queued before the sentinel.
StopDrainsFirst == exited => taken = before

\* Every anomaly that found room is taken in the end, unless the thread has
\* returned before; a slow or failing channel only delays it.
QueuedIsTaken ==
    \A n \in 1 .. MaxEmits : queued >= n ~> taken >= n \/ exited

\* A sentinel that found room ends the thread.
SentinelEndsDrain == (\E i \in DOMAIN q : q[i] = Sentinel) ~> exited

\* Every anomaly is accounted for, from the log call to the counters of the
\* channels, with a crash and a stop in between.
AlertsAccounted == AnomaliesAccounted /\ CountersTruthful /\ StopDrainsFirst

\* The thread takes what is queued, and leaves when it is told to.
DrainProceeds == QueuedIsTaken /\ SentinelEndsDrain
==============================================================================
