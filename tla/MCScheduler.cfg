SPECIFICATION Spec
CONSTANTS
  Sequences = {1, 2, 3, 4}
  kv_allocator = "paged"
  num_blocks = 6
  block_size = 2
  scheduler = "continuous"
  token_budget = 6
  max_running = 3
  MAX_ADMISSION_SKIPS = 1
  Shapes <- MixedShapes
INVARIANTS
  TypeOK
  OnePlace
  SlotsMatchTokens
  PlanConsistent
  BatchFitsBuckets
  AllDecodesPlanned
  SkipsBounded
  WaitingInOrder
CHECK_DEADLOCK FALSE
