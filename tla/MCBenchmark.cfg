SPECIFICATION BenchmarkSpec
CONSTANTS
  requests = 2
  concurrency = 2
  Weights <- TwoShapes
  min_per_shape = 1
  MaxPreemptions = 1
  Benches <- TwoBenches
  repeats = 1
INVARIANTS
  ShapesKeepTheirShare
  SendsItsSchedule
  PreemptionsNotOverstated
  NoStrayServer
  MeasuresItsArm
  CompleteOrReported
PROPERTY
  DriverEnds
