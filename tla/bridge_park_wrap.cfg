SPECIFICATION FairSpec
CONSTANTS
  GenMod = 8
  FirstGen = 6
  MaxIns = 2
  Unpluggable = FALSE
  Liftable = FALSE
  FailReasons = {"user_ssh"}
  RetryHints = {}
  Sessions = {s1}
  NoSession = NoSession
  MAX_BACKOFF = 1
PROPERTY
  DifferentGenerationEndsPark
CHECK_DEADLOCK FALSE
