SPECIFICATION FairSpec
CONSTANTS
  GenMod = 8
  FirstGen = 0
  MaxIns = 1
  Unpluggable = FALSE
  Liftable = FALSE
  FailReasons = {}
  RetryHints = {}
  Sessions = {s1, s2}
  NoSession = NoSession
  MAX_BACKOFF = 1
CONSTRAINT
  OneCauseEach
PROPERTIES
  SignalEndsLoop
CHECK_DEADLOCK FALSE
