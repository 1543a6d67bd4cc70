\* One invocation that gives up while its command runs.
CONSTANTS
  Clients = {c1}
  MaxDaemons = 2
  Backlog = 2
  Boots = {"empty"}
SPECIFICATION Spec
CHECK_DEADLOCK FALSE
PROPERTY RunNeverKillsDaemon
