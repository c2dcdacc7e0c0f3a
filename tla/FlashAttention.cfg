SPECIFICATION Spec
CONSTANTS
  Entries = {0, 1}
  H = 2
  N_GROUPS = 2
  BLOCK_M = 2
  BLOCK_N = 2
  block_size = 3
  MaxContext = 5
  Scores = {0, 1}
INVARIANT
  AttendsCausally
CHECK_DEADLOCK FALSE
