SPECIFICATION Spec
CONSTANTS
  Units <- MCUnits
  NotNumber = NotNumber
  Unordered = Unordered
  IdleTexts <- MCIdleTexts
  LifetimeTexts <- MCLifetimeTexts
  PRESENCE_POLL = 2
  TEARDOWN_POLL = 1
  JOIN_TIMEOUT = 2
  MaxStart = 1
  MaxRelay = 1
  MaxBack = 1
  MaxForward = 1
  MaxTime = 30
INVARIANTS
  TypeOK
  TeardownPrompt
  LifetimeCeiling
  IdleEndsSession
PROPERTIES
  IdleMeansIdle
CHECK_DEADLOCK FALSE
