\* One invocation whose run request times out.
CONSTANTS
  Clients = {c1}
  MaxDaemons = 2
  Backlog = 2
  Boots = {"empty"}
SPECIFICATION Spec
CHECK_DEADLOCK FALSE
INVARIANT NeverExecutedTwice
