SPECIFICATION Spec
CONSTANTS
  Sequences = {1, 2}
  kv_allocator = "paged"
  num_blocks = 4
  block_size = 2
  scheduler = "continuous"
  token_budget = 4
  max_running = 2
  MAX_ADMISSION_SKIPS = 8
  Shapes <- LongShapes
INVARIANT
  EmptyPlanLeavesNothingRunning
CHECK_DEADLOCK FALSE
