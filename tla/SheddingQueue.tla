---------------------------- MODULE SheddingQueue ----------------------------
(***************************************************************************)
(* SheddingQueue (application/pipeline.py): a bounded queue between ingest *)
(* threads and detection threads, with four overflow policies.             *)
(*                                                                         *)
(* put and get hold one lock except while they wait, so each is one step   *)
(* up to its wait and one step from the wake-up on.  The two conditions    *)
(* are CPython's: notify takes the first waiter off the list, and a waiter *)
(* whose timeout expired stays on the list until it holds the lock again.  *)
(***************************************************************************)
EXTENDS Naturals, FiniteSets, Sequences, SequencesExt

CONSTANTS Producers, Consumers,  \* the threads that call put and get
          MaxSize,               \* maxsize
          SampleRate,            \* sample_rate, after max(2, _)
          Policies,              \* the overflow policies to explore
          Manners,               \* how consumers wait: a subset of BOOLEAN
          MaxItems               \* bound: how many lines are offered at all

ASSUME QueueAssumption ==
    /\ MaxSize \in Nat \ {0}
    /\ SampleRate \in Nat \ {0, 1}
    /\ Policies \subseteq {"block", "drop-oldest", "drop-newest", "sample"}
    /\ Manners \subseteq BOOLEAN
    /\ MaxItems \in Nat
    /\ IsFiniteSet(Producers) /\ IsFiniteSet(Consumers)
    /\ Producers \cap Consumers = {}

VARIABLES
    policy,      \* self.policy (fixed at construction)
    patient,     \* whether the consumers call get() without a timeout, always
    q,           \* self._q
    closed,      \* self._closed
    sample,      \* self._sample_counter modulo the rate
    drops,       \* self.drops.dropped
    notFull,     \* self._not_full._waiters
    notEmpty,    \* self._not_empty._waiters
    st,          \* "idle", or how far a thread's wait() has come
    timed,       \* whether the call a thread is in has a timeout
    item,        \* the line a waiting producer holds
    offered,     \* bound: how many lines have been offered
    delivered,   \* history: the lines get returned, in order
    shed         \* history: the lines dropped

config == <<policy, patient>>
callVars == <<st, timed, item>>
histVars == <<delivered, shed>>
vars == <<config, q, closed, sample, drops, notFull, notEmpty, callVars, offered, histVars>>

Threads == Producers \cup Consumers
Items == [id : 1..MaxItems, prot : BOOLEAN, from : Producers]
NoItem == [id |-> 0]
IsProtected(x) == x.prot

TypeOK ==
    /\ policy \in Policies
    /\ patient \in Manners
    /\ q \in Seq(Items)
    /\ closed \in BOOLEAN
    /\ sample \in 0..(SampleRate - 1)
    /\ drops \in Nat
    /\ notFull \in Seq(Producers) /\ IsInjective(notFull)
    /\ notEmpty \in Seq(Consumers) /\ IsInjective(notEmpty)
    /\ st \in [Threads -> {"idle", "waiting", "notified", "expired"}]
    /\ timed \in [Threads -> BOOLEAN]
    /\ item \in [Producers -> Items \cup {NoItem}]
    /\ offered \in 0..MaxItems
    /\ delivered \in Seq(Items)
    /\ shed \subseteq Items

Init ==
    /\ policy \in Policies
    /\ patient \in Manners
    /\ q = <<>>
    /\ closed = FALSE
    /\ sample = 0
    /\ drops = 0
    /\ notFull = <<>>
    /\ notEmpty = <<>>
    /\ st = [t \in Threads |-> "idle"]
    /\ timed = [t \in Threads |-> FALSE]
    /\ item = [p \in Producers |-> NoItem]
    /\ offered = 0
    /\ delivered = <<>>
    /\ shed = {}

(***************************************************************************)
(* Condition variables.  s is the thread states the caller has reached.    *)
(***************************************************************************)

\* The first waiter is released; it only notices if it had not given up yet.
Woken(waiters, s) ==
    IF waiters # <<>> /\ s[Head(waiters)] = "waiting"
    THEN [s EXCEPT ![Head(waiters)] = "notified"] ELSE s
Rest(waiters) == IF waiters = <<>> THEN <<>> ELSE Tail(waiters)

\* Mutant: nobody is told of the new line.
NotifyNotEmptyMissing(s) == st' = s /\ UNCHANGED notEmpty
NotifyNotEmpty(s) == st' = Woken(notEmpty, s) /\ notEmpty' = Rest(notEmpty)

\* Mutant: nobody is told of the room.
NotifyNotFullMissing(s) == st' = s /\ UNCHANGED notFull
NotifyNotFull(s) == st' = Woken(notFull, s) /\ notFull' = Rest(notFull)

(***************************************************************************)
(* put                                                                     *)
(***************************************************************************)

\* Mutant: off by one.
RoomForOneMore == Len(q) <= MaxSize
Room == Len(q) < MaxSize

\* self._q.append(...), self._not_empty.notify(), return True
Admit(p, x, queue) ==
    /\ q' = Append(queue, x)
    /\ NotifyNotEmpty([st EXCEPT ![p] = "idle"])

\* self.drops.add(level), return False
Refuse(p, x) ==
    /\ shed' = shed \cup {x}
    /\ drops' = drops + 1
    /\ st' = [st EXCEPT ![p] = "idle"]
    /\ UNCHANGED <<q, notEmpty>>

\* Mutant: a line of any level may be evicted.
SheddableAny == DOMAIN q
Sheddable == {k \in DOMAIN q : ~IsProtected(q[k])}
Oldest(S) == CHOOSE i \in S : \A j \in S : i <= j

\* Mutants: the newcomer takes the slot of the line it evicts; the evicted line
\* is not counted.
EvictInPlace(p, x) ==
    IF Sheddable = {} THEN Refuse(p, x)
    ELSE LET k == Oldest(Sheddable)
         IN /\ shed' = shed \cup {q[k]}
            /\ drops' = drops + 1
            /\ q' = [q EXCEPT ![k] = x]
            /\ NotifyNotEmpty(st)
EvictUncounted(p, x) ==
    IF Sheddable = {} THEN Refuse(p, x)
    ELSE LET k == Oldest(Sheddable)
         IN shed' = shed \cup {q[k]} /\ UNCHANGED drops /\ Admit(p, x, RemoveAt(q, k))

\* The loop that evicts the oldest line it may, if there is one.
EvictFor(p, x) ==
    IF Sheddable = {} THEN Refuse(p, x)
    ELSE LET k == Oldest(Sheddable)
         IN /\ shed' = shed \cup {q[k]}
            /\ drops' = drops + 1
            /\ Admit(p, x, RemoveAt(q, k))

\* A full queue under a policy other than BLOCK.
Overflow(p, x) ==
    \/ /\ IsProtected(x)
       /\ Admit(p, x, q)
       /\ UNCHANGED <<sample, drops, shed>>
    \/ /\ ~IsProtected(x)
       /\ policy = "drop-newest"
       /\ Refuse(p, x)
       /\ UNCHANGED sample
    \/ /\ ~IsProtected(x)
       /\ policy = "drop-oldest"
       /\ EvictFor(p, x)
       /\ UNCHANGED sample
    \/ /\ ~IsProtected(x)
       /\ policy = "sample"
       /\ sample' = (sample + 1) % SampleRate
       /\ IF sample' = 0 THEN EvictFor(p, x) ELSE Refuse(p, x)

\* The end of the BLOCK branch, once its wait loop is left.
\* Mutant: the level is forgotten once the wait is over.
SettleForgetsLevel(p, x) ==
    IF Room \/ closed THEN Admit(p, x, q) /\ UNCHANGED <<drops, shed>> ELSE Refuse(p, x)
Settle(p, x) ==
    IF Room \/ IsProtected(x) \/ closed
    THEN Admit(p, x, q) /\ UNCHANGED <<drops, shed>>
    ELSE Refuse(p, x)

\* self._not_full.wait(timeout): the lock is released.
WaitNotFull(p, x, withTimeout) ==
    /\ st' = [st EXCEPT ![p] = "waiting"]
    /\ notFull' = Append(notFull, p)
    /\ timed' = [timed EXCEPT ![p] = withTimeout]
    /\ item' = [item EXCEPT ![p] = x]
    /\ UNCHANGED <<q, notEmpty, drops, shed>>

\* put, up to its return or its wait.
Put(p, prot, withTimeout) ==
    LET x == [id |-> offered + 1, prot |-> prot, from |-> p]
        full == ~Room
    IN /\ st[p] = "idle"
       /\ offered < MaxItems
       /\ offered' = offered + 1
       /\ \/ /\ ~full
             /\ Admit(p, x, q)
             /\ UNCHANGED <<sample, drops, shed, timed, item, notFull>>
          \/ /\ full /\ policy # "block"
             /\ Overflow(p, x)
             /\ UNCHANGED <<timed, item, notFull>>
          \/ /\ full /\ policy = "block" /\ closed
             /\ Settle(p, x)
             /\ UNCHANGED <<sample, timed, item, notFull>>
          \/ /\ full /\ policy = "block" /\ ~closed
             /\ WaitNotFull(p, x, withTimeout)
             /\ UNCHANGED sample
       /\ UNCHANGED <<config, closed, delivered>>

\* After a wait put waits again only if it was notified, has no timeout and
\* found the queue full; a timed put gives up at its first wake-up.
WaitsAgain(p) == st[p] = "notified" /\ ~timed[p] /\ ~Room /\ ~closed

\* put, from the end of a wait on.  An expired waiter leaves the list here.
PutResumes(p) ==
    /\ st[p] \in {"notified", "expired"}
    /\ \/ /\ WaitsAgain(p)
          /\ WaitNotFull(p, item[p], FALSE)
       \/ /\ ~WaitsAgain(p)
          /\ Settle(p, item[p])
          /\ notFull' = RemoveFirst(notFull, p)
          /\ item' = [item EXCEPT ![p] = NoItem]
          /\ timed' = [timed EXCEPT ![p] = FALSE]
    /\ UNCHANGED <<config, closed, sample, offered, delivered>>

(***************************************************************************)
(* get and close                                                           *)
(***************************************************************************)

\* self._q.popleft(), self._not_full.notify(), return item
Take(c) ==
    /\ delivered' = Append(delivered, Head(q))
    /\ q' = Tail(q)
    /\ NotifyNotFull([st EXCEPT ![c] = "idle"])

\* self._not_empty.wait(timeout)
WaitNotEmpty(c, withTimeout) ==
    /\ st' = [st EXCEPT ![c] = "waiting"]
    /\ notEmpty' = Append(notEmpty, c)
    /\ timed' = [timed EXCEPT ![c] = withTimeout]
    /\ UNCHANGED <<q, notFull, delivered>>

\* How a get of this program may wait.
GetTimeouts == IF patient THEN {FALSE} ELSE BOOLEAN

\* get, up to its return or its wait; on a closed empty queue it returns None.
Get(c, withTimeout) ==
    /\ st[c] = "idle"
    /\ \/ /\ q # <<>>
          /\ Take(c)
          /\ UNCHANGED <<notEmpty, timed>>
       \/ /\ q = <<>> /\ ~closed
          /\ WaitNotEmpty(c, withTimeout)
    /\ UNCHANGED <<config, closed, sample, drops, item, offered, shed>>

\* get, notified: take a line, wait again, or return None from a closed queue.
GetResumes(c) ==
    /\ st[c] = "notified"
    /\ \/ /\ q # <<>>
          /\ Take(c)
          /\ timed' = [timed EXCEPT ![c] = FALSE]
          /\ UNCHANGED notEmpty
       \/ /\ q = <<>> /\ ~closed
          /\ WaitNotEmpty(c, timed[c])
       \/ /\ q = <<>> /\ closed
          /\ st' = [st EXCEPT ![c] = "idle"]
          /\ timed' = [timed EXCEPT ![c] = FALSE]
          /\ UNCHANGED <<q, notFull, notEmpty, delivered>>
    /\ UNCHANGED <<config, closed, sample, drops, item, offered, shed>>

\* get, timed out: it returns None without another look at the queue.
\* Mutant: it leaves its place in the list of waiters behind.
GetGivesUpInPlace(c) ==
    /\ st[c] = "expired"
    /\ st' = [st EXCEPT ![c] = "idle"]
    /\ timed' = [timed EXCEPT ![c] = FALSE]
    /\ UNCHANGED <<config, q, closed, sample, drops, notFull, notEmpty, item, offered, histVars>>
GetGivesUp(c) ==
    /\ st[c] = "expired"
    /\ st' = [st EXCEPT ![c] = "idle"]
    /\ notEmpty' = RemoveFirst(notEmpty, c)
    /\ timed' = [timed EXCEPT ![c] = FALSE]
    /\ UNCHANGED <<config, q, closed, sample, drops, notFull, item, offered, histVars>>

\* The timeout of a waiting call passes before it is notified.
Expire(t) ==
    /\ st[t] = "waiting" /\ timed[t]
    /\ st' = [st EXCEPT ![t] = "expired"]
    /\ UNCHANGED <<config, q, closed, sample, drops, notFull, notEmpty, timed, item,
                   offered, histVars>>

\* Mutant: nobody is told.
CloseSilently ==
    /\ ~closed
    /\ closed' = TRUE
    /\ UNCHANGED <<config, q, sample, drops, notFull, notEmpty, callVars, offered, histVars>>
Close ==
    /\ ~closed
    /\ closed' = TRUE
    /\ st' = [t \in Threads |-> IF st[t] = "waiting" THEN "notified" ELSE st[t]]
    /\ notFull' = <<>>
    /\ notEmpty' = <<>>
    /\ UNCHANGED <<config, q, sample, drops, timed, item, offered, histVars>>

\* The steps of a thread that was released from its wait.
Resumes(t) == IF t \in Producers THEN PutResumes(t) ELSE GetResumes(t) \/ GetGivesUp(t)

Next ==
    \/ \E p \in Producers, prot, withTimeout \in BOOLEAN : Put(p, prot, withTimeout)
    \/ \E c \in Consumers, withTimeout \in GetTimeouts : Get(c, withTimeout)
    \/ \E t \in Threads : Resumes(t) \/ Expire(t)
    \/ Close

Spec == Init /\ [][Next]_vars

\* Released threads get the lock back and timeouts pass; consumers keep calling
\* get.  Nothing makes producers put or anyone close.
FairSpec ==
    /\ Spec
    /\ \A t \in Threads : WF_vars(Resumes(t)) /\ WF_vars(Expire(t))
    /\ \A c \in Consumers : WF_vars(\E withTimeout \in GetTimeouts : Get(c, withTimeout))

(***************************************************************************)
(* Properties.                                                             *)
(***************************************************************************)

\* Every line offered has exactly one fate, in order, and no line of level
\* ERROR or worse is ever shed, under any policy and any timing.
Account == INSTANCE AccountableQueue WITH held <- q
KeepsAccount == Account!Spec

\* drops.dropped counts exactly the lines that are lost.
DropsAccounted == drops = Cardinality(shed)

\* The bound is broken only for protected lines (until close lets blocked
\* producers go): an overload of ordinary lines cannot exhaust memory.
OverflowOnlyForProtected ==
    ~closed => Cardinality({k \in DOMAIN q : ~IsProtected(q[k])}) <= MaxSize

\* Lines of one producer are handed over in the order it put them.
PerProducerFifo ==
    \A i, j \in DOMAIN delivered :
       i < j /\ delivered[i].from = delivered[j].from => delivered[i].id < delivered[j].id

\* No lost wake-up: while a consumer sleeps, every line in the queue has a
\* consumer on its way to it.  (Only when gets have no timeout: a
\* notified consumer whose time is up returns without looking at the queue.)
NoLostWakeup ==
    patient /\ (\E c \in Consumers : st[c] = "waiting") =>
        Len(q) <= Cardinality({c \in Consumers : st[c] = "notified"})

\* While a producer sleeps, every free slot has a producer on its way to it.
NoStuckProducer ==
    (\E p \in Producers : st[p] = "waiting") =>
        MaxSize <= Len(q) + Cardinality({p \in Producers : st[p] \in {"notified", "expired"}})

\* A line in the queue does not stay there for ever.
EventuallyLeaves ==
    \A n \in 1..MaxItems :
       (\E k \in DOMAIN q : q[k].id = n) ~> (\A k \in DOMAIN q : q[k].id # n)

\* close() releases every thread that waits, and no later call waits.
CloseReleasesEveryone == closed ~> [](\A t \in Threads : st[t] = "idle")

\* Where the lines are: every loss is counted, only protected lines go past the
\* bound, and what is handed over is in each producer's order.
LinesAccounted == DropsAccounted /\ OverflowOnlyForProtected /\ PerProducerFifo

\* No thread of either kind sleeps while there is something for it to do.
NobodySleepsInVain == NoLostWakeup /\ NoStuckProducer

\* Lines leave the queue, and close lets every thread leave it.
EveryoneLeaves == EventuallyLeaves /\ CloseReleasesEveryone
==============================================================================
