CONSTANTS
  MaxWorkers = 4
  MaxScans = 5
  Window = 2
  WatchedLines = 4
  MaxSources = 3
  Stream = {"stdout", "stderr"}
  ChildLines = 3
  PipeMax = 2
  Line <- ParserLines
  Format = {"A", "J"}
  MaxContinuation = 2
  FedLines = 4
  Worker = {w1, w2}
  Entry = {e1, e2, e3}
  QueueSize = 1
  Sentinel = none
  Retries = 2
  Anomalies = {0, 1, 41}
  MaxAnomalyLines = 40
SPECIFICATION MCSpec
INVARIANTS TypesOK AnalyzeHonest  InputFaithful CallDisciplined
PROPERTIES AllEnd
\* Commands, readers and calls come to their end.
CHECK_DEADLOCK FALSE
