----------------------------- MODULE WorkerPool ------------------------------
(***************************************************************************)
(* run_pool and _run_batch (infrastructure/workerpool.py): a coordinator   *)
(* hands tasks to a process pool, re-runs the tasks a broken pool left     *)
(* undecided one process at a time, quarantines those that keep killing    *)
(* their worker, and falls back to running everything itself.              *)
(*                                                                         *)
(* The coordinator's steps follow the code line by line; the executor is   *)
(* the standard library's, modelled by the calls the code makes on it.     *)
(***************************************************************************)
EXTENDS TaskFates, FiniteSets

CONSTANTS Workers,       \* the workers argument
          MaxAttempts,   \* the max_attempts argument
          SpawnMayFail   \* whether starting a process may raise OSError

\* No caller passes fewer than the default of two attempts: with one, a broken
\* shared pool would already exhaust the attempts of every task in it.
ASSUME PoolAssumption ==
    /\ Workers \in Nat
    /\ MaxAttempts \in Nat \ {0, 1}
    /\ SpawnMayFail \in BOOLEAN

VARIABLES
    fate,       \* what each task does when run (chosen once, never changed)
    pc,         \* where the coordinator is
    results,    \* results[i]; a task is done when its result is not "none"
    attempts,   \* attempts[i]
    isolate,    \* isolate
    pending,    \* the pending list of this round, as a set (index order)
    todo,       \* the part of it the running loop has yet to reach
    completed,  \* _ProgressCounter.completed
    fut,        \* this round's futures
    runs        \* history: how often each task began to execute anywhere

coordVars == <<pc, results, attempts, isolate, pending, todo, completed>>
vars == <<fate, coordVars, fut, runs>>

FutureStates == {"none", "queued", "running", "value", "exception", "broken"}
Phases == {"serial", "loop", "submit", "collect", "drain", "isolate",
           "fallback", "returned", "dead"}

TypeOK ==
    /\ fate \in [Tasks -> Fates]
    /\ pc \in Phases
    /\ results \in [Tasks -> Results]
    /\ attempts \in [Tasks -> Nat]
    /\ isolate \in BOOLEAN
    /\ pending \subseteq Tasks
    /\ todo \subseteq Tasks
    /\ completed \in Nat
    /\ fut \in [Tasks -> FutureStates]
    /\ runs \in [Tasks -> Nat]

\* Mutant: decided tasks are kept in the next round.
UndecidedAll == Tasks
Undecided == {i \in Tasks : results[i] = "none"}

\* Mutants: one broken pool is enough to be blamed; one attempt too many.
DoomedAtFirst == {i \in Undecided : attempts[i] >= 1}
DoomedLate == {i \in Undecided : attempts[i] > MaxAttempts}
Doomed == {i \in Undecided : attempts[i] >= MaxAttempts}

\* Mutant: the BrokenProcessPool clause around fut.result() is missing.
AnsweredOrBroken(i) == fut[i] \notin {"none", "queued", "running"}
Answered(i) == fut[i] \in {"value", "exception"}

\* Mutant: leaving the with block waits for an answer of every future.
ShutdownWaitsForAnswers == \A i \in Tasks : fut[i] = "none" \/ Answered(i)
ShutdownDone == \A i \in Tasks : fut[i] \notin {"queued", "running"}

IsNext(i, S) == i \in S /\ \A j \in S : i <= j

\* run_pool up to its loop: nothing to do, the serial path, or rounds.
Init ==
    /\ fate \in [Tasks -> Fates]
    /\ pc = IF NTasks = 0 THEN "returned" ELSE IF Workers <= 1 THEN "serial" ELSE "loop"
    /\ results = [i \in Tasks |-> "none"]
    /\ attempts = [i \in Tasks |-> 0]
    /\ isolate = FALSE
    /\ pending = {}
    /\ todo = IF Workers <= 1 THEN Tasks ELSE {}
    /\ completed = 0
    /\ fut = [i \in Tasks |-> "none"]
    /\ runs = [i \in Tasks |-> 0]

(***************************************************************************)
(* The coordinator.                                                        *)
(***************************************************************************)

\* The head of the while loop: tasks out of attempts are quarantined, the
\* others make the next round.
BeginRound ==
    LET left == Undecided \ Doomed
    IN /\ pc = "loop"
       /\ results' = [i \in Tasks |-> IF i \in Doomed THEN "worker_crash" ELSE results[i]]
       /\ pending' = left
       /\ todo' = left
       /\ pc' = IF left = {} THEN "returned" ELSE IF isolate THEN "isolate" ELSE "submit"
       /\ fut' = [i \in Tasks |-> "none"]
       /\ UNCHANGED <<fate, attempts, isolate, completed, runs>>

PoolBroken == \E i \in Tasks : fut[i] = "broken"

\* ex.submit in the submission loop succeeds.
Submit(i) ==
    /\ pc = "submit" /\ IsNext(i, todo)
    /\ ~PoolBroken
    /\ attempts' = [attempts EXCEPT ![i] = @ + 1]
    /\ fut' = [fut EXCEPT ![i] = "queued"]
    /\ todo' = todo \ {i}
    /\ pc' = IF todo' = {} THEN "collect" ELSE "submit"
    /\ UNCHANGED <<fate, results, isolate, pending, completed, runs>>

\* ex.submit raises BrokenProcessPool because a worker died while the loop was
\* still submitting: it escapes _run_batch and run_pool goes serial.
SubmitOnBrokenPool(i) ==
    /\ pc = "submit" /\ IsNext(i, todo)
    /\ PoolBroken
    /\ attempts' = [attempts EXCEPT ![i] = @ + 1]
    /\ todo' = pending
    /\ pc' = "fallback"
    /\ UNCHANGED <<fate, results, isolate, pending, completed, fut, runs>>

\* ex.submit raises OSError: the process it wanted to spawn cannot start.  The
\* work item is already queued, and leaving the with block waits for it unless
\* no process ever started.
SubmitCannotSpawn(i) ==
    /\ SpawnMayFail
    /\ pc = "submit" /\ IsNext(i, todo)
    /\ ~PoolBroken
    /\ attempts' = [attempts EXCEPT ![i] = @ + 1]
    /\ fut' = [fut EXCEPT ![i] = IF todo = pending THEN "none" ELSE "queued"]
    /\ pc' = "drain"
    /\ UNCHANGED <<fate, results, isolate, pending, todo, completed, runs>>

\* The executor's __exit__ returned: the OSError reaches run_pool's handler.
Drained ==
    /\ pc = "drain"
    /\ ShutdownDone
    /\ todo' = pending
    /\ pc' = "fallback"
    /\ UNCHANGED <<fate, results, attempts, isolate, pending, completed, fut, runs>>

\* as_completed yields a future with an answer.
Collect(i) ==
    /\ pc = "collect"
    /\ i \in pending /\ results[i] = "none"
    /\ Answered(i)
    /\ results' = [results EXCEPT ![i] = fut[i]]
    /\ completed' = completed + 1
    /\ pc' = IF \A j \in pending : results'[j] # "none" THEN "loop" ELSE "collect"
    /\ UNCHANGED <<fate, attempts, isolate, pending, todo, fut, runs>>

\* as_completed yields a future the breakage failed: the round is abandoned,
\* with the answers it had not collected yet, and the next ones isolate.
CollectBroken ==
    /\ pc = "collect"
    /\ \E i \in pending : fut[i] = "broken"
    /\ isolate' = TRUE
    /\ pc' = "loop"
    /\ UNCHANGED <<fate, results, attempts, pending, todo, completed, fut, runs>>

\* One iteration of the isolate loop: a task alone in a pool of one process,
\* which answers or dies with it.
IsolateAnswers(i) ==
    /\ pc = "isolate" /\ IsNext(i, todo)
    /\ CanAnswer(fate[i])
    /\ attempts' = [attempts EXCEPT ![i] = @ + 1]
    /\ runs' = [runs EXCEPT ![i] = @ + 1]
    /\ results' = [results EXCEPT ![i] = Answer(fate[i])]
    /\ completed' = completed + 1
    /\ todo' = todo \ {i}
    /\ pc' = IF todo' = {} THEN "loop" ELSE "isolate"
    /\ UNCHANGED <<fate, isolate, pending, fut>>

IsolateCrashes(i) ==
    /\ pc = "isolate" /\ IsNext(i, todo)
    /\ CanKill(fate[i])
    /\ attempts' = [attempts EXCEPT ![i] = @ + 1]
    /\ runs' = [runs EXCEPT ![i] = @ + 1]
    /\ todo' = todo \ {i}
    /\ pc' = IF todo' = {} THEN "loop" ELSE "isolate"
    /\ UNCHANGED <<fate, results, isolate, pending, completed, fut>>

\* The isolated process cannot be spawned: run_pool goes serial over the whole
\* round, the tasks this round already decided included.
IsolateCannotSpawn(i) ==
    /\ SpawnMayFail
    /\ pc = "isolate" /\ IsNext(i, todo)
    /\ attempts' = [attempts EXCEPT ![i] = @ + 1]
    /\ todo' = pending
    /\ pc' = "fallback"
    /\ UNCHANGED <<fate, results, isolate, pending, completed, fut, runs>>

\* One iteration of a serial loop (workers <= 1, or the fallback): the task runs
\* in the coordinator's own process.
RunInProcess(i) ==
    /\ pc \in {"serial", "fallback"} /\ IsNext(i, todo)
    /\ CanAnswer(fate[i])
    /\ runs' = [runs EXCEPT ![i] = @ + 1]
    /\ results' = [results EXCEPT ![i] = Answer(fate[i])]
    /\ completed' = completed + 1
    /\ todo' = todo \ {i}
    /\ pc' = IF todo' = {} THEN "returned" ELSE pc
    /\ UNCHANGED <<fate, attempts, isolate, pending, fut>>

DieInProcess(i) ==
    /\ pc \in {"serial", "fallback"} /\ IsNext(i, todo)
    /\ CanKill(fate[i])
    /\ runs' = [runs EXCEPT ![i] = @ + 1]
    /\ pc' = "dead"
    /\ UNCHANGED <<fate, results, attempts, isolate, pending, todo, completed, fut>>

(***************************************************************************)
(* The shared executor: at most Workers tasks at a time, in the order they *)
(* were submitted; a worker that dies breaks every unfinished future.      *)
(***************************************************************************)
PoolLive == pc \in {"submit", "collect", "drain"}
Queued == {i \in Tasks : fut[i] = "queued"}
Running == {i \in Tasks : fut[i] = "running"}

WorkerTakes(i) ==
    /\ PoolLive /\ IsNext(i, Queued)
    /\ Cardinality(Running) < Workers
    /\ fut' = [fut EXCEPT ![i] = "running"]
    /\ runs' = [runs EXCEPT ![i] = @ + 1]
    /\ UNCHANGED <<fate, coordVars>>

WorkerAnswers(i) ==
    /\ PoolLive /\ i \in Running
    /\ CanAnswer(fate[i])
    /\ fut' = [fut EXCEPT ![i] = Answer(fate[i])]
    /\ UNCHANGED <<fate, coordVars, runs>>

WorkerDies(i) ==
    /\ PoolLive /\ i \in Running
    /\ CanKill(fate[i])
    /\ fut' = [j \in Tasks |-> IF j \in Queued \cup Running THEN "broken" ELSE fut[j]]
    /\ UNCHANGED <<fate, coordVars, runs>>

CoordinatorStep ==
    \/ BeginRound \/ Drained \/ CollectBroken
    \/ \E i \in Tasks :
         \/ Submit(i) \/ SubmitOnBrokenPool(i) \/ SubmitCannotSpawn(i)
         \/ Collect(i)
         \/ IsolateAnswers(i) \/ IsolateCrashes(i) \/ IsolateCannotSpawn(i)
         \/ RunInProcess(i) \/ DieInProcess(i)

ExecutorStep == \E i \in Tasks : WorkerTakes(i) \/ WorkerAnswers(i) \/ WorkerDies(i)

Next == CoordinatorStep \/ ExecutorStep

Spec == Init /\ [][Next]_vars

\* The coordinator is a running thread and every task terminates.
FairSpec == Spec /\ WF_vars(CoordinatorStep) /\ WF_vars(ExecutorStep)

(***************************************************************************)
(* Properties.                                                             *)
(***************************************************************************)

\* The list run_pool returns keeps the contract its callers rely on: slots are
\* decided once and truthfully, and only tasks that can kill a process are
\* quarantined or kill the caller.
Contract == INSTANCE PoolContract WITH
    outcome <- results,
    phase <- IF pc \in {"returned", "dead"} THEN pc ELSE "working"

KeepsContract == Contract!Spec

\* Only a task that can kill its process is ever reported as worker_crash:
\* tasks that merely shared a pool with it are not blamed.
OnlyCrashersQuarantined ==
    \A i \in Tasks : results[i] = "worker_crash" => CanKill(fate[i])

\* No task is started in a worker more than max_attempts times; the serial
\* fallback adds one execution at most.
RunsBounded ==
    \A i \in Tasks :
       runs[i] <= MaxAttempts + (IF pc \in {"serial", "fallback", "returned", "dead"}
                                 THEN 1 ELSE 0)

\* The serial fallback of an isolating round, which only a process that cannot
\* be spawned leads to, walks the whole round again, decided tasks included.
WalksAgain == isolate /\ pc = "fallback"

\* The progress callback counts the tasks that answered, so it never passes the
\* total it announces: in every round, and in a fallback of the first one.
ProgressTruthful ==
    \/ isolate /\ pc \in {"fallback", "returned", "dead"}
    \/ completed = Cardinality({i \in Tasks : results[i] \in {"value", "exception"}})

\* A decision stands. A task whose slot is decided is never executed again (a
\* decided slice of a file is never analysed twice), but for the fallback of an
\* isolating round; and after every step it has been counted once.
DecisionsStand ==
    [][/\ \A i \in Tasks : results[i] # "none" /\ ~WalksAgain => runs'[i] = runs[i]
       /\ ProgressTruthful']_vars

\* run_pool always stops, whatever the workers do.
Terminates == <>(pc \in {"returned", "dead"})

\* tests/test_workerpool.py says of a pool with one crasher: "Innocent tasks all
\* complete; only the crasher (index 1) is quarantined."
InnocentsComplete ==
    pc \in {"returned", "dead"} =>
        \A i \in Tasks : ~CanKill(fate[i]) => results[i] = Answer(fate[i])

(***************************************************************************)
(* The inductive invariant behind the theorems of WorkerPoolProofs.        *)
(***************************************************************************)

\* Decided slots and finished futures tell the truth about their task.
Truthful ==
    \A i \in Tasks :
      /\ results[i] # "none" => results[i] \in Honest(fate[i])
      /\ Answered(i) => CanAnswer(fate[i]) /\ fut[i] = Answer(fate[i])

\* Undecided tasks are always in a list the coordinator still has to walk, and
\* a round holds no task that was quarantined before it.
Accounted ==
    /\ pc \in {"submit", "collect", "drain", "isolate"} => Undecided \subseteq pending
    /\ pc \in {"serial", "fallback"} => Undecided \subseteq todo
    /\ pc = "returned" => Undecided = {}
    /\ pc \in {"submit", "isolate", "fallback"} => todo \subseteq pending
    /\ pc \in {"submit", "collect", "drain", "isolate", "fallback"} =>
         \A i \in pending : results[i] # "worker_crash"
    /\ pc = "serial" => \A i \in Tasks : results[i] # "worker_crash"

\* An undecided task has used one attempt when a shared pool broke under it; it
\* uses up another only by killing a process of its own.
Earned ==
    \A i \in Undecided :
      /\ pc = "loop" => IF isolate THEN attempts[i] <= 1 \/ CanKill(fate[i])
                                   ELSE attempts[i] = 0
      /\ pc = "submit" => attempts[i] = (IF i \in todo THEN 0 ELSE 1)
      /\ pc = "collect" => attempts[i] <= 1
      /\ pc = "isolate" => /\ isolate
                           /\ \/ CanKill(fate[i])
                              \/ i \in todo /\ attempts[i] <= 1

\* Attempts pay for executions.
Paid ==
    \A i \in Tasks :
      /\ attempts[i] <= MaxAttempts
      /\ pc \in {"submit", "isolate"} /\ i \in todo => attempts[i] < MaxAttempts
      /\ pc \notin {"serial", "fallback", "returned", "dead"} =>
           /\ runs[i] <= attempts[i]
           /\ fut[i] = "queued" => runs[i] < attempts[i]
      /\ pc \in {"serial", "fallback"} /\ i \in todo => runs[i] <= MaxAttempts
      /\ runs[i] <= MaxAttempts + 1

IInv == TypeOK /\ Truthful /\ Accounted /\ Earned /\ Paid
==============================================================================
