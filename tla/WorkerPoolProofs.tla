--------------------------- MODULE WorkerPoolProofs --------------------------
(***************************************************************************)
(* run_pool keeps its contract, for every number of tasks and workers and  *)
(* every bound on attempts: proofs about WorkerPool.                       *)
(***************************************************************************)
EXTENDS WorkerPool, FiniteSetTheorems, TLAPS

\* Whatever a task answers when it runs is an honest report of it.
LEMMA AnswerHonest ==
    ASSUME NEW f \in Fates, CanAnswer(f)
    PROVE  Answer(f) \in Honest(f) /\ Answer(f) \in {"value", "exception"}
  BY DEF Fates, CanAnswer, Answer, Honest, Reports, CanKill

\* No two reports of answers are honest for the same task.
LEMMA HonestAnswerUnique ==
    ASSUME NEW f \in Fates, CanAnswer(f),
           NEW r \in Honest(f), r # "worker_crash"
    PROVE  r = Answer(f)
  BY DEF Fates, CanAnswer, Answer, Honest, Reports, CanKill

LEMMA HonestIsResult == \A f \in Fates : Honest(f) \subseteq Results /\ "none" \notin Honest(f)
  BY DEF Honest, Results, Reports

LEMMA InitIInv == Init => IInv
  <1> SUFFICES ASSUME Init PROVE IInv
    OBVIOUS
  <1> USE PoolAssumption, NTasksAssumption DEF Init
  <1>1. TypeOK
    BY DEF TypeOK, Phases, Results, FutureStates
  <1>2. Truthful
    BY DEF Truthful, Answered
  <1>3. Accounted
    BY DEF Accounted, Undecided, Tasks
  <1>4. Earned
    BY DEF Earned, Undecided
  <1>5. Paid
    BY DEF Paid
  <1> QED
    BY <1>1, <1>2, <1>3, <1>4, <1>5 DEF IInv

\* The step of the while loop: the only place where a task is quarantined.
LEMMA BeginRoundIInv == IInv /\ BeginRound => IInv'
  <1> SUFFICES ASSUME IInv, BeginRound PROVE IInv'
    OBVIOUS
  <1> USE PoolAssumption DEF IInv, BeginRound
  <1> DEFINE left == Undecided \ Doomed
  <1>1. TypeOK'
    BY DEF TypeOK, Phases, Results, Reports, FutureStates, Undecided
  <1>2. \A i \in Doomed : CanKill(fate[i])
    BY DEF Doomed, Earned, TypeOK, Undecided
  <1>3. Truthful'
    <2>1. "worker_crash" \in Reports
      BY DEF Reports
    <2> QED
      BY <2>1, <1>2 DEF Truthful, TypeOK, Honest, Answered
  <1>4. Undecided' = left
    BY DEF Undecided, Doomed
  <1>5. Accounted'
    <2>1. \A i \in left : results'[i] # "worker_crash"
      BY DEF Undecided, Doomed
    <2> QED
      BY <1>4, <2>1 DEF Accounted
  <1>6. Earned'
    BY <1>4 DEF Earned, Undecided
  <1>7. Paid'
    <2>1. \A i \in left : attempts[i] < MaxAttempts
      BY DEF Doomed, Undecided, TypeOK
    <2> QED
      BY <2>1 DEF Paid, TypeOK
  <1> QED
    BY <1>1, <1>3, <1>5, <1>6, <1>7

\* The submission loop and the exceptions that escape it.
LEMMA SubmitIInv ==
    ASSUME IInv, NEW i \in Tasks,
           Submit(i) \/ SubmitOnBrokenPool(i) \/ SubmitCannotSpawn(i)
    PROVE  IInv'
  <1> USE PoolAssumption DEF IInv, Submit, SubmitOnBrokenPool, SubmitCannotSpawn, IsNext
  <1>1. TypeOK'
    BY DEF TypeOK, Phases, FutureStates
  <1>2. Truthful'
    BY DEF Truthful, TypeOK, Answered
  <1>3. Accounted'
    BY DEF Accounted, Undecided
  <1>4. Earned'
    BY DEF Earned, Undecided, TypeOK
  <1>5. Paid'
    BY DEF Paid, TypeOK
  <1> QED
    BY <1>1, <1>2, <1>3, <1>4, <1>5

\* as_completed, its broken futures, and the end of an abandoned pool.
LEMMA CollectIInv ==
    ASSUME IInv, Drained \/ CollectBroken \/ \E i \in Tasks : Collect(i)
    PROVE  IInv'
  <1> USE PoolAssumption DEF IInv
  <1>1. CASE Drained
    <2> USE <1>1 DEF Drained
    <2>1. TypeOK'
      BY DEF TypeOK, Phases
    <2>2. Truthful' /\ Accounted' /\ Earned'
      BY DEF Truthful, Accounted, Earned, Undecided, Answered
    <2>3. Paid'
      BY DEF Paid, TypeOK
    <2> QED
      BY <2>1, <2>2, <2>3
  <1>2. CASE CollectBroken
    <2> USE <1>2 DEF CollectBroken
    <2>1. TypeOK'
      BY DEF TypeOK, Phases
    <2>2. Truthful' /\ Accounted' /\ Earned'
      BY DEF Truthful, Accounted, Earned, Undecided, Answered
    <2>3. Paid'
      BY DEF Paid, TypeOK
    <2> QED
      BY <2>1, <2>2, <2>3
  <1>3. ASSUME NEW i \in Tasks, Collect(i) PROVE IInv'
    <2> USE <1>3 DEF Collect
    <2>1. fut[i] = Answer(fate[i]) /\ fut[i] \in Honest(fate[i])
      BY AnswerHonest DEF Truthful, TypeOK
    <2>2. TypeOK'
      BY DEF TypeOK, Phases, Results, Reports, Answered
    <2>3. Truthful'
      BY <2>1 DEF Truthful, TypeOK, Answered
    <2>4. Undecided' = Undecided \ {i}
      BY DEF Undecided, Answered, TypeOK
    <2>5. Accounted'
      BY <2>4 DEF Accounted, Undecided, TypeOK, Answered
    <2>6. pc' = "loop" => Undecided' = {}
      BY <2>4 DEF Accounted, Undecided
    <2>7. Earned'
      BY <2>4, <2>6 DEF Earned
    <2>8. Paid'
      BY DEF Paid, TypeOK
    <2> QED
      BY <2>2, <2>3, <2>5, <2>7, <2>8
  <1> QED
    BY <1>1, <1>2, <1>3

\* The isolate loop.
LEMMA IsolateIInv ==
    ASSUME IInv, NEW i \in Tasks,
           IsolateAnswers(i) \/ IsolateCrashes(i) \/ IsolateCannotSpawn(i)
    PROVE  IInv'
  <1> USE PoolAssumption DEF IInv, IsNext
  <1>1. CASE IsolateAnswers(i)
    <2> USE <1>1 DEF IsolateAnswers
    <2>1. Answer(fate[i]) \in Honest(fate[i]) /\ Answer(fate[i]) \in {"value", "exception"}
      BY AnswerHonest DEF TypeOK
    <2>2. TypeOK'
      BY <2>1 DEF TypeOK, Phases, Results, Reports
    <2>3. Truthful'
      BY <2>1 DEF Truthful, TypeOK, Answered
    <2>4. Undecided' = Undecided \ {i}
      BY <2>1 DEF Undecided, TypeOK
    <2>5. Accounted'
      BY <2>1, <2>4 DEF Accounted, TypeOK
    <2>6. Earned'
      BY <2>4 DEF Earned, Undecided, TypeOK
    <2>7. Paid'
      BY DEF Paid, TypeOK
    <2> QED
      BY <2>2, <2>3, <2>5, <2>6, <2>7
  <1>2. CASE IsolateCrashes(i)
    <2> USE <1>2 DEF IsolateCrashes
    <2>1. TypeOK'
      BY DEF TypeOK, Phases
    <2>2. Truthful' /\ Accounted'
      BY DEF Truthful, Accounted, Undecided, Answered
    <2>3. Earned'
      BY DEF Earned, Undecided, TypeOK
    <2>4. Paid'
      BY DEF Paid, TypeOK
    <2> QED
      BY <2>1, <2>2, <2>3, <2>4
  <1>3. CASE IsolateCannotSpawn(i)
    <2> USE <1>3 DEF IsolateCannotSpawn
    <2>1. TypeOK'
      BY DEF TypeOK, Phases
    <2>2. Truthful' /\ Accounted' /\ Earned'
      BY DEF Truthful, Accounted, Earned, Undecided, Answered
    <2>3. Paid'
      BY DEF Paid, TypeOK
    <2> QED
      BY <2>1, <2>2, <2>3
  <1> QED
    BY <1>1, <1>2, <1>3

\* The serial loops.
LEMMA SerialIInv ==
    ASSUME IInv, NEW i \in Tasks, RunInProcess(i) \/ DieInProcess(i)
    PROVE  IInv'
  <1> USE PoolAssumption DEF IInv, IsNext
  <1>1. CASE RunInProcess(i)
    <2> USE <1>1 DEF RunInProcess
    <2>1. Answer(fate[i]) \in Honest(fate[i]) /\ Answer(fate[i]) \in {"value", "exception"}
      BY AnswerHonest DEF TypeOK
    <2>2. TypeOK'
      BY <2>1 DEF TypeOK, Phases, Results, Reports
    <2>3. Truthful'
      BY <2>1 DEF Truthful, TypeOK, Answered
    <2>4. Undecided' = Undecided \ {i}
      BY <2>1 DEF Undecided, TypeOK
    <2>5. Accounted'
      BY <2>1, <2>4 DEF Accounted, TypeOK
    <2>6. Earned'
      BY <2>4 DEF Earned, Undecided, TypeOK
    <2>7. Paid'
      BY DEF Paid, TypeOK
    <2> QED
      BY <2>2, <2>3, <2>5, <2>6, <2>7
  <1>2. CASE DieInProcess(i)
    <2> USE <1>2 DEF DieInProcess
    <2>1. TypeOK'
      BY DEF TypeOK, Phases
    <2>2. Truthful' /\ Accounted' /\ Earned'
      BY DEF Truthful, Accounted, Earned, Undecided, Answered
    <2>3. Paid'
      BY DEF Paid, TypeOK
    <2> QED
      BY <2>1, <2>2, <2>3
  <1> QED
    BY <1>1, <1>2

\* The executor.
LEMMA ExecutorIInv ==
    ASSUME IInv, NEW i \in Tasks, WorkerTakes(i) \/ WorkerAnswers(i) \/ WorkerDies(i)
    PROVE  IInv'
  <1> USE PoolAssumption DEF IInv, coordVars, PoolLive, IsNext, Queued, Running
  <1>1. CASE WorkerTakes(i)
    <2> USE <1>1 DEF WorkerTakes
    <2>1. TypeOK'
      BY DEF TypeOK, FutureStates
    <2>2. Truthful' /\ Accounted' /\ Earned'
      BY DEF Truthful, Accounted, Earned, Undecided, Answered, TypeOK
    <2>3. Paid'
      BY DEF Paid, TypeOK
    <2> QED
      BY <2>1, <2>2, <2>3
  <1>2. CASE WorkerAnswers(i)
    <2> USE <1>2 DEF WorkerAnswers
    <2>1. Answer(fate[i]) \in {"value", "exception"}
      BY AnswerHonest DEF TypeOK
    <2>2. TypeOK'
      BY <2>1 DEF TypeOK, FutureStates
    <2>3. Truthful' /\ Accounted' /\ Earned'
      BY DEF Truthful, Accounted, Earned, Undecided, Answered, TypeOK
    <2>4. Paid'
      BY <2>1 DEF Paid, TypeOK
    <2> QED
      BY <2>2, <2>3, <2>4
  <1>3. CASE WorkerDies(i)
    <2> USE <1>3 DEF WorkerDies
    <2>1. TypeOK'
      BY DEF TypeOK, FutureStates
    <2>2. Truthful' /\ Accounted' /\ Earned'
      BY DEF Truthful, Accounted, Earned, Undecided, Answered, TypeOK
    <2>3. Paid'
      BY DEF Paid, TypeOK
    <2> QED
      BY <2>1, <2>2, <2>3
  <1> QED
    BY <1>1, <1>2, <1>3

LEMMA NextIInv == IInv /\ [Next]_vars => IInv'
  <1> SUFFICES ASSUME IInv, [Next]_vars PROVE IInv'
    OBVIOUS
  <1>1. CASE UNCHANGED vars
    BY <1>1 DEF IInv, vars, coordVars, TypeOK, Truthful, Accounted, Earned, Paid,
                Undecided, Answered
  <1>2. CASE CoordinatorStep
    BY <1>2, BeginRoundIInv, SubmitIInv, CollectIInv, IsolateIInv, SerialIInv
       DEF CoordinatorStep
  <1>3. CASE ExecutorStep
    BY <1>3, ExecutorIInv DEF ExecutorStep
  <1> QED
    BY <1>1, <1>2, <1>3 DEF Next

LEMMA IInvAlways == Spec => []IInv
  BY InitIInv, NextIInv, PTL DEF Spec

\* The state of the pool is always well formed, the future states included.
THEOREM TypeCorrect == Spec => []TypeOK
  <1>1. IInv => TypeOK
    BY DEF IInv
  <1> QED
    BY <1>1, IInvAlways, PTL

\* A task that merely shared a pool with a crasher is never quarantined.
THEOREM BlameIsFair == Spec => []OnlyCrashersQuarantined
  <1>1. IInv => OnlyCrashersQuarantined
    BY DEF IInv, Truthful, OnlyCrashersQuarantined, Honest
  <1> QED
    BY <1>1, IInvAlways, PTL

\* max_attempts bounds the executions of a task, the fallback adds one.
THEOREM ExecutionsBounded == Spec => []RunsBounded
  <1>1. IInv => RunsBounded
    BY PoolAssumption DEF IInv, Paid, RunsBounded, TypeOK
  <1> QED
    BY <1>1, IInvAlways, PTL

(***************************************************************************)
(* Refinement: every step is a step of PoolContract or leaves it alone.    *)
(***************************************************************************)

\* The mapped phase, as the contract's definitions spell it.
Phase == IF pc \in {"returned", "dead"} THEN pc ELSE "working"

LEMMA InitContract == Init => Contract!Init
  BY DEF Init, Contract!Init, Contract!Tasks, Contract!Fates, Tasks, Fates

\* A step that decides some slots, truthfully, is a Decide of the contract.
LEMMA DecideContract ==
    ASSUME IInv, IInv', Phase = "working", fate' = fate, pc' # "dead",
           \A i \in Tasks : results'[i] # results[i] => results[i] = "none"
    PROVE  Contract!Decide
  <1>1. results' \in [Tasks -> Results]
    BY DEF IInv, TypeOK
  <1>2. ASSUME NEW i \in Tasks, results'[i] # results[i]
        PROVE  results[i] = "none" /\ results'[i] \in Honest(fate[i])
    BY <1>2 DEF IInv, Truthful
  <1>3. pc' = "returned" => \A i \in Tasks : results'[i] # "none"
    BY DEF IInv, Accounted, Undecided
  <1>4. Phase' = "working" \/ (Phase' = "returned" /\ pc' = "returned")
    BY DEF Phase
  <1> QED
    BY <1>1, <1>2, <1>3, <1>4
       DEF Contract!Decide, Phase, Contract!Tasks, Contract!Results, Contract!Reports,
           Contract!Honest, Contract!CanKill, Tasks, Results, Reports, Honest, CanKill

LEMMA StepContract == IInv /\ IInv' /\ [Next]_vars => [Contract!Next]_Contract!vars
  <1> SUFFICES ASSUME IInv, IInv', [Next]_vars
               PROVE  Contract!Next \/ UNCHANGED Contract!vars
    BY DEF Contract!vars
  <1>1. CASE UNCHANGED vars
    BY <1>1 DEF vars, coordVars, Contract!vars
  <1>2. ASSUME NEW i \in Tasks, DieInProcess(i) PROVE Contract!Die
    BY <1>2 DEF DieInProcess, Contract!Die, Contract!Tasks, Contract!CanKill, Tasks, CanKill
  <1>3. CASE CoordinatorStep /\ ~\E i \in Tasks : DieInProcess(i)
    <2>1. Phase = "working" /\ fate' = fate /\ pc' # "dead"
      BY <1>3 DEF CoordinatorStep, Phase, BeginRound, Drained, CollectBroken, Submit,
                  SubmitOnBrokenPool, SubmitCannotSpawn, Collect, IsolateAnswers,
                  IsolateCrashes, IsolateCannotSpawn, RunInProcess, IInv, TypeOK
    <2>2. ASSUME NEW j \in Tasks, results'[j] # results[j] PROVE results[j] = "none"
      <3>1. CASE \E i \in Tasks : RunInProcess(i)
        <4> PICK i \in Tasks : RunInProcess(i)
          BY <3>1
        <4>1. i = j /\ results'[i] = Answer(fate[i]) /\ CanAnswer(fate[i]) /\ i \in todo
          BY <2>2 DEF RunInProcess, IsNext, IInv, TypeOK
        <4>2. results[i] # "worker_crash"
          BY <4>1 DEF RunInProcess, IInv, Accounted
        <4>3. results[i] # "none" => results[i] = Answer(fate[i])
          BY <4>1, <4>2, HonestAnswerUnique DEF IInv, Truthful, TypeOK
        <4> QED
          BY <4>1, <4>3, <2>2
      <3>2. CASE \E i \in Tasks : IsolateAnswers(i)
        <4> PICK i \in Tasks : IsolateAnswers(i)
          BY <3>2
        <4>1. i = j /\ results'[i] = Answer(fate[i]) /\ CanAnswer(fate[i]) /\ i \in pending
          BY <2>2 DEF IsolateAnswers, IsNext, IInv, TypeOK, Accounted
        <4>2. results[i] # "worker_crash"
          BY <4>1 DEF IsolateAnswers, IInv, Accounted
        <4>3. results[i] # "none" => results[i] = Answer(fate[i])
          BY <4>1, <4>2, HonestAnswerUnique DEF IInv, Truthful, TypeOK
        <4> QED
          BY <4>1, <4>3, <2>2
      <3>3. CASE BeginRound
        BY <3>3, <2>2 DEF BeginRound, Doomed, Undecided, IInv, TypeOK
      <3>4. CASE \E i \in Tasks : Collect(i)
        BY <3>4, <2>2 DEF Collect, IInv, TypeOK
      <3> QED
        BY <1>3, <2>2, <3>1, <3>2, <3>3, <3>4
           DEF CoordinatorStep, Drained, CollectBroken, Submit, SubmitOnBrokenPool,
               SubmitCannotSpawn, IsolateCrashes, IsolateCannotSpawn
    <2> QED
      BY <2>1, <2>2, DecideContract DEF Contract!Next
  <1>4. CASE ExecutorStep
    BY <1>4 DEF ExecutorStep, WorkerTakes, WorkerAnswers, WorkerDies, coordVars, Contract!vars
  <1> QED
    BY <1>1, <1>2, <1>3, <1>4 DEF Next, Contract!Next

\* run_pool implements its contract: slots are decided once and truthfully, the
\* call returns only with every slot decided, and dies only with a task that kills.
THEOREM ContractKept == Spec => KeepsContract
  BY InitContract, StepContract, IInvAlways, PTL DEF Spec, KeepsContract, Contract!Spec

(***************************************************************************)
(* Decisions stand: what the coordinator still walks is undecided, but in  *)
(* the fallback of an isolating round.                                     *)
(***************************************************************************)

\* The first round is the only shared one, and it decides nothing before every
\* task is submitted; only undecided futures wait to be run.
Fresh ==
    /\ pc \in {"serial", "submit", "collect", "drain"} => ~isolate
    /\ pc \in {"submit", "drain"} => pending \subseteq Undecided
    /\ pc \in {"serial", "isolate"} \/ (pc = "fallback" /\ ~isolate) => todo \subseteq Undecided
    /\ PoolLive => Queued \subseteq Undecided

Answers == {i \in Tasks : results[i] \in {"value", "exception"}}
Counted ==
    \/ isolate /\ pc \in {"fallback", "returned", "dead"}
    \/ completed = Cardinality(Answers)

LEMMA CountedIsTruthful == Counted <=> ProgressTruthful
  BY DEF Counted, ProgressTruthful, Answers

LEMMA TasksFinite == IsFiniteSet(Tasks)
  BY NTasksAssumption, FS_Interval DEF Tasks

\* One more answer, one more counted.
LEMMA OneMoreCounted ==
    ASSUME IInv, NEW i \in Undecided, results'[i] \in {"value", "exception"},
           \A j \in Tasks : j # i => results'[j] = results[j],
           completed = Cardinality(Answers), completed' = completed + 1
    PROVE  completed' = Cardinality(Answers')
  <1>1. Answers' = Answers \cup {i} /\ i \notin Answers
    BY DEF Answers, Undecided
  <1>2. IsFiniteSet(Answers)
    BY TasksFinite, FS_Subset DEF Answers
  <1>3. Cardinality(Answers \cup {i}) = Cardinality(Answers) + 1
    BY <1>1, <1>2, FS_AddElement
  <1> QED
    BY <1>1, <1>3

LEMMA SameCounted ==
    ASSUME Counted, Answers' = Answers, completed' = completed,
           isolate /\ pc \in {"fallback", "returned", "dead"}
              => isolate' /\ pc' \in {"fallback", "returned", "dead"}
    PROVE  Counted'
  BY DEF Counted

LEMMA InitFresh == Init => Fresh /\ Counted
  <1> SUFFICES ASSUME Init PROVE Fresh /\ Counted
    OBVIOUS
  <1>1. Fresh
    BY PoolAssumption DEF Init, Fresh, Undecided, PoolLive, Queued
  <1>2. Answers = {}
    BY DEF Init, Answers
  <1>3. Counted
    BY <1>2, FS_EmptySet DEF Counted, Init
  <1> QED
    BY <1>1, <1>3

\* Rounds begin and are left.
LEMMA RoundsFresh ==
    ASSUME IInv, Fresh, Counted, BeginRound \/ Drained \/ CollectBroken
    PROVE  Fresh' /\ Counted'
  <1>1. CASE BeginRound
    <2> USE <1>1 DEF BeginRound
    <2>1. Undecided' = Undecided \ Doomed /\ Answers' = Answers
      BY DEF Undecided, Doomed, Answers, IInv, TypeOK
    <2>2. Fresh'
      BY <2>1 DEF Fresh, PoolLive, Queued
    <2> QED
      BY <2>1, <2>2, SameCounted
  <1>2. CASE Drained
    <2>1. Undecided' = Undecided /\ Answers' = Answers
      BY <1>2 DEF Drained, Undecided, Answers
    <2>2. Fresh'
      BY <1>2, <2>1 DEF Drained, Fresh, PoolLive, Queued
    <2> QED
      BY <1>2, <2>1, <2>2, SameCounted DEF Drained
  <1>3. CASE CollectBroken
    <2>1. Undecided' = Undecided /\ Answers' = Answers
      BY <1>3 DEF CollectBroken, Undecided, Answers
    <2>2. Fresh'
      BY <1>3, <2>1 DEF CollectBroken, Fresh, PoolLive, Queued
    <2> QED
      BY <1>3, <2>1, <2>2, SameCounted DEF CollectBroken
  <1> QED
    BY <1>1, <1>2, <1>3

\* Steps of the coordinator that decide nothing.
LEMMA UndecidingFresh ==
    ASSUME IInv, Fresh, Counted, NEW i \in Tasks,
           \/ Submit(i) \/ SubmitOnBrokenPool(i) \/ SubmitCannotSpawn(i)
           \/ IsolateCrashes(i) \/ IsolateCannotSpawn(i) \/ DieInProcess(i)
    PROVE  Fresh' /\ Counted'
  <1>1. Undecided' = Undecided /\ Answers' = Answers /\ completed' = completed
    BY DEF Submit, SubmitOnBrokenPool, SubmitCannotSpawn, IsolateCrashes,
           IsolateCannotSpawn, DieInProcess, Undecided, Answers
  <1>2. CASE Submit(i) \/ SubmitCannotSpawn(i)
    <2>1. /\ i \in Undecided /\ pc = "submit" /\ ~isolate /\ pending' = pending
          /\ isolate' = isolate /\ pc' \in {"submit", "collect", "drain"}
      BY <1>2 DEF Submit, SubmitCannotSpawn, IsNext, IInv, Accounted, Fresh
    <2>2. \A j \in Tasks : fut'[j] = "queued" => j = i \/ fut[j] = "queued"
      BY <1>2 DEF Submit, SubmitCannotSpawn, IInv, TypeOK
    <2>3. Queued' \subseteq Queued \cup {i}
      BY <2>2 DEF Queued
    <2>4. Fresh'
      BY <1>1, <2>1, <2>3 DEF Fresh, PoolLive
    <2> QED
      BY <1>1, <2>1, <2>4, SameCounted
  <1>3. CASE SubmitOnBrokenPool(i)
    <2>1. Fresh'
      BY <1>1, <1>3 DEF SubmitOnBrokenPool, Fresh, PoolLive
    <2> QED
      BY <1>1, <1>3, <2>1, SameCounted DEF SubmitOnBrokenPool
  <1>4. CASE IsolateCrashes(i) \/ IsolateCannotSpawn(i)
    <2>1. isolate
      BY <1>4, <1>1 DEF IsolateCrashes, IsolateCannotSpawn, IInv, Earned, Fresh, IsNext
    <2>2. Fresh'
      BY <1>1, <1>4, <2>1 DEF IsolateCrashes, IsolateCannotSpawn, Fresh, PoolLive
    <2> QED
      BY <1>1, <1>4, <2>2, SameCounted DEF IsolateCrashes, IsolateCannotSpawn
  <1>5. CASE DieInProcess(i)
    <2>1. Fresh'
      BY <1>1, <1>5 DEF DieInProcess, Fresh, PoolLive
    <2> QED
      BY <1>1, <1>5, <2>1, SameCounted DEF DieInProcess
  <1> QED
    BY <1>2, <1>3, <1>4, <1>5

\* Steps that decide a task.
LEMMA DecidingFresh ==
    ASSUME IInv, Fresh, Counted, NEW i \in Tasks,
           Collect(i) \/ IsolateAnswers(i) \/ RunInProcess(i)
    PROVE  Fresh' /\ Counted'
  <1>1. results'[i] \in {"value", "exception"}
        /\ \A j \in Tasks : j # i => results'[j] = results[j]
    BY AnswerHonest DEF Collect, Answered, IsolateAnswers, RunInProcess, IInv, TypeOK
  <1>2. Undecided' = Undecided \ {i} /\ completed' = completed + 1 /\ isolate' = isolate
    BY <1>1 DEF Collect, IsolateAnswers, RunInProcess, Undecided
  <1>3. CASE isolate /\ pc = "fallback"
    BY <1>3, <1>2 DEF Collect, IsolateAnswers, RunInProcess, Fresh, Counted, PoolLive
  <1>4. CASE ~(isolate /\ pc = "fallback")
    <2>1. i \in Undecided
      BY <1>4 DEF Collect, IsolateAnswers, RunInProcess, Undecided, Fresh, IsNext
    <2>2. completed = Cardinality(Answers)
      BY <1>4 DEF Collect, IsolateAnswers, RunInProcess, Counted
    <2>3. Counted'
      BY <1>1, <1>2, <2>1, <2>2, OneMoreCounted DEF Counted
    <2>4. CASE Collect(i)
      <3>1. i \notin Queued /\ Queued' = Queued
        BY <2>4 DEF Collect, Answered, Queued
      <3>2. Fresh'
        BY <1>2, <2>4, <3>1 DEF Collect, Fresh, PoolLive
      <3> QED
        BY <2>3, <3>2
    <2>5. CASE IsolateAnswers(i)
      BY <1>2, <2>3, <2>5 DEF IsolateAnswers, Fresh, PoolLive
    <2>6. CASE RunInProcess(i)
      BY <1>2, <1>4, <2>3, <2>6 DEF RunInProcess, Fresh, PoolLive
    <2> QED
      BY <2>4, <2>5, <2>6
  <1> QED
    BY <1>3, <1>4

\* The executor starts undecided tasks only.
LEMMA ExecutorFresh ==
    ASSUME IInv, Fresh, Counted, NEW i \in Tasks,
           WorkerTakes(i) \/ WorkerAnswers(i) \/ WorkerDies(i)
    PROVE  Fresh' /\ Counted'
  <1>1. UNCHANGED coordVars
    BY DEF WorkerTakes, WorkerAnswers, WorkerDies
  <1>2. Queued' \subseteq Queued
    BY AnswerHonest DEF WorkerTakes, WorkerAnswers, WorkerDies, Queued, IInv, TypeOK
  <1> QED
    BY <1>1, <1>2 DEF coordVars, Fresh, Counted, Answers, Undecided, PoolLive

LEMMA NextFresh ==
    ASSUME IInv, Fresh, Counted, [Next]_vars
    PROVE  Fresh' /\ Counted'
  <1>1. CASE UNCHANGED vars
    BY <1>1 DEF vars, coordVars, Fresh, Counted, Answers, Undecided, PoolLive, Queued
  <1>2. CASE Next
    BY <1>2, RoundsFresh, UndecidingFresh, DecidingFresh, ExecutorFresh
       DEF Next, CoordinatorStep, ExecutorStep
  <1> QED
    BY <1>1, <1>2

\* No step runs a decided task, but for the walk over an isolating round.
LEMMA DecidedRest ==
    ASSUME IInv, Fresh, [Next]_vars, NEW j \in Tasks, results[j] # "none", ~WalksAgain
    PROVE  runs'[j] = runs[j]
  <1>1. j \notin Undecided
    BY DEF Undecided
  <1>2. ASSUME NEW i \in Tasks, IsolateAnswers(i) \/ IsolateCrashes(i)
        PROVE  runs'[j] = runs[j]
    <2>1. i \in Undecided
      BY <1>2 DEF IsolateAnswers, IsolateCrashes, IsNext, Fresh
    <2> QED
      BY <1>1, <1>2, <2>1 DEF IsolateAnswers, IsolateCrashes, IInv, TypeOK
  <1>3. ASSUME NEW i \in Tasks, RunInProcess(i) \/ DieInProcess(i)
        PROVE  runs'[j] = runs[j]
    <2>1. i \in Undecided
      BY <1>3 DEF RunInProcess, DieInProcess, IsNext, Fresh, WalksAgain
    <2> QED
      BY <1>1, <1>3, <2>1 DEF RunInProcess, DieInProcess, IInv, TypeOK
  <1>4. ASSUME NEW i \in Tasks, WorkerTakes(i)
        PROVE  runs'[j] = runs[j]
    <2>1. i \in Undecided
      BY <1>4 DEF WorkerTakes, IsNext, Fresh
    <2> QED
      BY <1>1, <1>4, <2>1 DEF WorkerTakes, IInv, TypeOK
  <1> QED
    BY <1>2, <1>3, <1>4
       DEF Next, CoordinatorStep, ExecutorStep, BeginRound, Drained, CollectBroken, Submit,
           SubmitOnBrokenPool, SubmitCannotSpawn, Collect, IsolateCannotSpawn,
           WorkerAnswers, WorkerDies, vars

LEMMA FreshAlways == Spec => [](IInv /\ Fresh /\ Counted)
  <1>1. IInv /\ Fresh /\ Counted /\ [Next]_vars => (IInv /\ Fresh /\ Counted)'
    BY NextIInv, NextFresh
  <1> QED
    BY InitIInv, InitFresh, <1>1, PTL DEF Spec

\* A decided task is not executed again but by the fallback of an isolating
\* round, and each answer is counted once.
THEOREM DecisionsAreFinal == Spec => DecisionsStand
  <1>1. ASSUME IInv, Fresh, Counted, [Next]_vars
        PROVE  /\ \A i \in Tasks : results[i] # "none" /\ ~WalksAgain => runs'[i] = runs[i]
               /\ ProgressTruthful'
    BY <1>1, DecidedRest, NextFresh DEF ProgressTruthful, Counted, Answers
  <1> QED
    BY <1>1, FreshAlways, PTL DEF Spec, DecisionsStand
==============================================================================
