---------------------------- MODULE PoolContract -----------------------------
(***************************************************************************)
(* What a caller of run_pool relies on (application/parallel_scan.py and   *)
(* multisource.py read the list it returns slot by slot): each slot is     *)
(* decided once, for good, and truthfully; the call returns only when all  *)
(* slots are decided; until then the calling process may die with a task   *)
(* that kills, and with no other.                                          *)
(***************************************************************************)
EXTENDS TaskFates

VARIABLES fate,     \* what each task does when it is run
          outcome,  \* the slot of each task
          phase     \* "working", "returned" or "dead"

vars == <<fate, outcome, phase>>

Init == /\ fate \in [Tasks -> Fates]
        /\ outcome = [i \in Tasks |-> "none"]
        /\ phase = IF NTasks = 0 THEN "returned" ELSE "working"

\* Some undecided slots are decided, and the call may return with them.
Decide ==
    /\ phase = "working"
    /\ outcome' \in [Tasks -> Results]
    /\ \A i \in Tasks :
         outcome'[i] # outcome[i] => /\ outcome[i] = "none"
                                     /\ outcome'[i] \in Honest(fate[i])
    /\ \/ phase' = "working"
       \/ phase' = "returned" /\ \A i \in Tasks : outcome'[i] # "none"
    /\ UNCHANGED fate

\* The process that called run_pool is killed by a task it ran itself.
Die == /\ phase = "working"
       /\ \E i \in Tasks : CanKill(fate[i])
       /\ phase' = "dead"
       /\ UNCHANGED <<fate, outcome>>

Next == Decide \/ Die

Spec == Init /\ [][Next]_vars
==============================================================================
