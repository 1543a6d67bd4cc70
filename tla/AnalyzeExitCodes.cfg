\* Two workers at most; the history counter is not what stops the run.
CONSTANTS
  MaxWorkers = 2
  MaxScans = 3
SPECIFICATION Spec
CHECK_DEADLOCK FALSE
INVARIANT FailuresExitOne
