------------------------------ MODULE EntryPool ------------------------------
(***************************************************************************)
(* run_worker_pool (detection/worker.py): a producer fills a bounded queue *)
(* from the source, num_workers tasks empty it, one sentinel each ends     *)
(* them.  The source and the processing of an entry may raise; gather      *)
(* hands the first exception to the caller and leaves the other tasks      *)
(* running.                                                                *)
(***************************************************************************)
EXTENDS Naturals, Sequences, FiniteSets, FiniteSetsExt

CONSTANTS Worker, Entry, QueueSize,
          Sentinel  \* None in the queue; not an Entry

VARIABLES
    left,     \* entries the source has not yielded yet
    sentinels,  \* sentinels the producer has queued
    producer, \* runs, ended or raised
    queue,
    worker,   \* worker[w]: idle, ended, raised, or the entry it processes
    processed, skipped,
    debug,    \* the parameter
    outcome   \* of run_worker_pool: none, returned or raised

vars == <<left, sentinels, producer, queue, worker, processed, skipped, debug, outcome>>

Init ==
    /\ left = Entry /\ sentinels = 0 /\ producer = "runs" /\ queue = <<>>
    /\ worker = [w \in Worker |-> "idle"] /\ processed = {} /\ skipped = {}
    /\ debug \in BOOLEAN /\ outcome = "none"

Put(item) == Len(queue) < QueueSize /\ queue' = Append(queue, item)

ProduceEntry ==
    /\ producer = "runs"
    /\ \E e \in left : Put(e) /\ left' = left \ {e}
    /\ UNCHANGED <<sentinels, producer, worker, processed, skipped, debug, outcome>>

SourceRaises ==
    /\ producer = "runs" /\ left # {}
    /\ producer' = "raised"
    /\ UNCHANGED <<left, sentinels, queue, worker, processed, skipped, debug, outcome>>

\* Mutant of SentinelCount: one for all.
OneSentinel == 1
SentinelCount == Cardinality(Worker)

ProduceSentinel ==
    /\ producer = "runs" /\ left = {}
    /\ IF sentinels < SentinelCount
       THEN Put(Sentinel) /\ sentinels' = sentinels + 1 /\ UNCHANGED producer
       ELSE producer' = "ended" /\ UNCHANGED <<queue, sentinels>>
    /\ UNCHANGED <<left, worker, processed, skipped, debug, outcome>>

Take(w) ==
    /\ worker[w] = "idle" /\ queue # <<>>
    /\ queue' = Tail(queue)
    /\ worker' = [worker EXCEPT ![w] = IF Head(queue) = Sentinel THEN "ended"
                                       ELSE Head(queue)]
    /\ UNCHANGED <<left, sentinels, producer, processed, skipped, debug, outcome>>

Processed(w) ==
    /\ worker[w] \in Entry
    /\ processed' = processed \cup {worker[w]}
    /\ worker' = [worker EXCEPT ![w] = "idle"]
    /\ UNCHANGED <<left, sentinels, producer, queue, skipped, debug, outcome>>

\* process_fn raised.
Skip(w) ==
    /\ worker[w] \in Entry
    /\ skipped' = skipped \cup {worker[w]}
    /\ worker' = [worker EXCEPT ![w] = IF debug THEN "raised" ELSE "idle"]
    /\ UNCHANGED <<left, sentinels, producer, queue, processed, debug, outcome>>

Raised == producer = "raised" \/ \E w \in Worker : worker[w] = "raised"

\* Mutant of Gather: the producer alone is awaited.
GatherProducer ==
    /\ outcome = "none"
    /\ \/ Raised /\ outcome' = "raised"
       \/ ~Raised /\ producer = "ended" /\ outcome' = "returned"
    /\ UNCHANGED <<left, sentinels, producer, queue, worker, processed, skipped, debug>>
\* asyncio.gather: the first exception, or all the results.
Gather ==
    /\ outcome = "none"
    /\ \/ Raised /\ outcome' = "raised"
       \/ /\ producer = "ended" /\ \A w \in Worker : worker[w] = "ended"
          /\ outcome' = "returned"
    /\ UNCHANGED <<left, sentinels, producer, queue, worker, processed, skipped, debug>>

Works(w) == Processed(w) \/ Skip(w)
Next ==
    \/ ProduceEntry \/ SourceRaises \/ ProduceSentinel \/ Gather
    \/ \E w \in Worker : Take(w) \/ Works(w)

\* The loop runs every task that can run; process_fn returns.
Fairness ==
    /\ WF_vars(ProduceEntry \/ SourceRaises \/ ProduceSentinel) /\ WF_vars(Gather)
    /\ \A w \in Worker : WF_vars(Take(w) \/ Works(w))
Spec == Init /\ [][Next]_vars /\ Fairness
----------------------------------------------------------------------------
TypeOK ==
    /\ left \subseteq Entry /\ sentinels \in 0 .. Cardinality(Worker)
    /\ Len(queue) <= QueueSize /\ producer \in {"runs", "ended", "raised"}
    /\ worker \in [Worker -> {"idle", "ended", "raised"} \cup Entry]

\* The statistics of a pool that returns count every entry of the source, once:
\* no entry is left behind in the queue when the workers go.
EveryEntryCounted ==
    outcome = "returned" =>
        processed \cup skipped = Entry /\ processed \cap skipped = {} /\ queue = <<>>

\* Whatever raises, the caller gets a result or an exception, however small the
\* queue and few the workers.
CallerAnswered == <>(outcome # "none")
============================================================================
