\* The pool of test_worker_crash_only_quarantines_culprit.
CONSTANTS
  NTasks = 3
  Workers = 2
  MaxAttempts = 2
  SpawnMayFail = FALSE
SPECIFICATION Spec
CHECK_DEADLOCK FALSE
INVARIANT InnocentsComplete
