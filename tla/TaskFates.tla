------------------------------ MODULE TaskFates ------------------------------
(***************************************************************************)
(* What a task handed to run_pool (infrastructure/workerpool.py) does when *)
(* it is executed, and what run_pool may then report for it.  Constants    *)
(* only: shared by WorkerPool and by the contract it implements.           *)
(***************************************************************************)
EXTENDS Naturals

CONSTANT NTasks  \* len(args)

ASSUME NTasksAssumption == NTasks \in Nat

Tasks == 1..NTasks

\* "ok" returns, "raise" raises an exception, "crash" kills the process that
\* runs it (os._exit, a segfault, the OOM killer), "flaky" returns or kills.
Fates == {"ok", "raise", "crash", "flaky"}

\* results[i]: "none" is the initial None, "value" what func returned, and the
\* other two are TaskError.kind.
Reports == {"value", "exception", "worker_crash"}
Results == Reports \cup {"none"}

\* The executions of a task that end with an answer, and those that kill.
Answer(f) == IF f = "raise" THEN "exception" ELSE "value"
CanAnswer(f) == f # "crash"
CanKill(f) == f \in {"crash", "flaky"}

\* The reports that tell the caller the truth about a task.
Honest(f) == {r \in Reports :
                \/ r = "value" /\ f \in {"ok", "flaky"}
                \/ r = "exception" /\ f = "raise"
                \/ r = "worker_crash" /\ CanKill(f)}
==============================================================================
