SPECIFICATION FairSpec
CONSTANTS
  Models = {m1, m2}
  FirstModel = m1
  Switchers = {t1, t2}
  Requests = {r1, r2}
  NoEngine = NoEngine
INVARIANTS
  OneModelInMemory
  NoRequestIsStopped
  
PROPERTY
  SwitchReturns
CHECK_DEADLOCK FALSE
