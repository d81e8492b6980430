SPECIFICATION Spec
CONSTANTS
  GenMod = 8
  FirstGen = 0
  MaxIns = 2
  Unpluggable = FALSE
  Liftable = FALSE
  FailReasons = {"user_ssh", "no_gate_cert", "rate_limited", "card_removed"}
  RetryHints <- MCRetryHints
  Sessions = {s1}
  NoSession = NoSession
  MAX_BACKOFF = 3
INVARIANTS
  TypeOK
  DeviceOnlyAfterPass
  NoGateAfterSignal
  ParkedCardNotGated
  PauseInBounds
PROPERTIES
  OnlyAPassResetsBackoff
  ImplementsSeatSession
CHECK_DEADLOCK FALSE
