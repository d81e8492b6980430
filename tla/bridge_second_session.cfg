SPECIFICATION Spec
CONSTANTS
  GenMod = 8
  FirstGen = 0
  MaxIns = 2
  Unpluggable = FALSE
  Liftable = FALSE
  FailReasons = {"user_ssh"}
  RetryHints = {}
  Sessions = {s1}
  NoSession = NoSession
  MAX_BACKOFF = 1
INVARIANT
  OneSessionPerInsertion
CHECK_DEADLOCK FALSE
