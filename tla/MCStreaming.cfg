\* Two ingest and two detection threads, under each policy; the consumers wait
\* without a timeout, or with any mix of timeouts.
CONSTANTS
  Producers = {p1, p2}
  Consumers = {c1, c2}
  MaxSize = 1
  SampleRate = 2
  Policies = {"block", "drop-oldest", "drop-newest", "sample"}
  Manners = {TRUE, FALSE}
  MaxItems = 3
  Window = 3
  RescoreEvery = 3
  MinWindow = 2
  SuppressInfo = TRUE
  MaxContinuation = 1
  RunMayFail = TRUE
  MaxEntries = 6
SPECIFICATION MCSpec
\* The lines and the entries that are fed are used up.
CHECK_DEADLOCK FALSE
INVARIANTS
  TypeOK LinesAccounted NobodySleepsInVain
  DetectorTypeOK ReportedOnce RemembersOnlyWindow
PROPERTIES KeepsAccount EveryoneLeaves ProblemsReported
