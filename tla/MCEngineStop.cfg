SPECIFICATION EngineFairSpec
CONSTANTS
  Sequences = {1, 2}
  None = None
  kv_allocator = "paged"
  num_blocks = 3
  block_size = 1
  scheduler = "continuous"
  token_budget = 4
  max_running = 2
  MAX_ADMISSION_SKIPS = 1
  Shapes <- EngineShapes
PROPERTY
  StopEndsScheduler
CHECK_DEADLOCK FALSE
