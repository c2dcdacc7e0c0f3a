SPECIFICATION LoadSpec
CONSTANTS
  requests = 3
  concurrency = 2
  Weights <- ThreeShapes
  min_per_shape = 2
  MaxPreemptions = 2
INVARIANT
  PreemptionsExact
