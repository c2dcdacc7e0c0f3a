SPECIFICATION HFairSpec
CONSTANTS
  Sequences = {1, 2, 3}
  kv_allocator = "paged"
  num_blocks = 5
  block_size = 1
  scheduler = "continuous"
  token_budget = 8
  max_running = 3
  MAX_ADMISSION_SKIPS = 1
  Shapes <- ShortShapes
INVARIANT
  RejectedOutgrowsPool
PROPERTY
  EveryRequestEnds
  AdmissionCostsNobody
CHECK_DEADLOCK FALSE
