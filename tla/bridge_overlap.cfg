SPECIFICATION Spec
CONSTANTS
  GenMod = 8
  FirstGen = 0
  MaxIns = 1
  Unpluggable = TRUE
  Liftable = TRUE
  FailReasons = {"user_ssh"}
  RetryHints = {}
  Sessions = {s1, s2}
  NoSession = NoSession
  MAX_BACKOFF = 1
INVARIANTS
  SessionOwnsDevice
  NoOrphanMonitor
PROPERTIES
  ReportedCauseStands
SYMMETRY Symmetry
CHECK_DEADLOCK FALSE
