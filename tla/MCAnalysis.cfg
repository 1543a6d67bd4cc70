\* The ladder: the default thresholds and dwell; a depth past the capacity
\* happens because protected lines are admitted to a full queue.
CONSTANTS
  Capacity = 4
  High = 85
  Low = 50
  Dwell = 3
  Depths = {0, 2, 3, 4, 6}
  CounterMax = 5
  Source = {"a", "b", "c"}
  Weight <- Weights
  Price = 6
  WaitMax = 20
  Key = {"a", "b"}
  Format = {"L", "P"}
  Files <- ScanFiles
  Slices = {1, 2, 3, 4}
  Process = {p1, p2}
  Template = {"a", "b", "c", "bad"}
  Batches <- LearnedBatches
  MaxTemplates = 2
  MaxSaves = 3
  MaxRows = 5
  MinPerClass = 1
  RefitEvery = 2
  Labels <- PseudoLabels
  MaxDeaths = 2
  Many = 9
SPECIFICATION MCSpec
INVARIANTS
  TypesOK LoadLimited WorkShared ScanAddsUp LearningSafe ReportComplete
  VerdictsFollow DetectorsSound
PROPERTIES MovesAreEarned LoneRunAddsItself
SYMMETRY Symmetric
\* A scan, and a pure computation, come to their end.
CHECK_DEADLOCK FALSE
