SPECIFICATION Spec
CONSTANT Experiments = {"none", "service", "planned"}
INVARIANTS
  EveryCheckReported
  CancellationMeansViolation
  ProductIsWatched
  MeasuredOnBaseline
  CleanupTruthful
  OnlyAStuckThreadOutlivesTheCluster
PROPERTIES
  MeasurementsSurvive
  Disposed
