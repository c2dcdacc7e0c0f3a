SPECIFICATION StreamSpec
CONSTANTS
  Requests = {1, 2}
  maxsize = 2
  MaxTokens = 3
  Generations <- SomeGenerations
INVARIANTS
  TerminalIsLast
  TokensInOrder
  FastClientLosesNothing
  SentIsDecoded
PROPERTY
  StreamEnds
CHECK_DEADLOCK FALSE
