SPECIFICATION Spec
CONSTANTS
  Sequences = {1, 2, 3, 4}
  kv_allocator = "contiguous"
  num_blocks = 9
  block_size = 2
  scheduler = "static"
  token_budget = 6
  max_running = 3
  MAX_ADMISSION_SKIPS = 1
  Shapes <- MixedShapes
INVARIANTS
  HoldingsExact
  StaticBatchTogether
CHECK_DEADLOCK FALSE
