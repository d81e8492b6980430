SPECIFICATION FairSpec
CONSTANTS
  GenMod = 8
  FirstGen = 0
  MaxIns = 2
  Unpluggable = FALSE
  Liftable = TRUE
  FailReasons = {"user_ssh"}
  RetryHints = {}
  Sessions = {s1}
  NoSession = NoSession
  MAX_BACKOFF = 1
PROPERTIES
  RemovalEndsDevice
  LiftEndsDevice
  SwapEndsPark
CHECK_DEADLOCK FALSE
