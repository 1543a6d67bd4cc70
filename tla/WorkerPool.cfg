\* Workers may die, tasks may raise, and starting a process may fail at any
\* point; in the behaviours where it does not, every process can be spawned.
CONSTANTS
  NTasks = 3
  Workers = 2
  MaxAttempts = 2
  SpawnMayFail = TRUE
SPECIFICATION FairSpec
CHECK_DEADLOCK FALSE
INVARIANTS TypeOK OnlyCrashersQuarantined RunsBounded
PROPERTIES DecisionsStand KeepsContract Terminates
