SPECIFICATION RunnerSpec
CONSTANTS
  Sequence = {s1, s2}
  NoSeq = NoSeq
  num_blocks = 3
  block_size = 2
  MaxNewTokens = 2
  MaxReserve = 0
  decode_buckets = {1, 2}
  PromptLengths = {1, 2}
  MaxLength = 4
SYMMETRY AnySequence
INVARIANTS
  NoBlockTwice
  NoBlockLost
  TableCoversTokens
  AttendsOwnTokens
  RowsAreFresh
PROPERTY
  ImplementsPool
CHECK_DEADLOCK FALSE
