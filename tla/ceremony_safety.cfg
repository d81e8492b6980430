SPECIFICATION FairSpec
CONSTANTS
  GenMod = 8
  FirstGen = 0
  MaxIns = 3
  Unpluggable = FALSE
  Liftable = FALSE
  Retries = 2
  MaxTries = 2
  VerdictReasons = {"refused", "pin_blocked"}
  RetryHints = {45}
INVARIANTS
  TypeOK
  ServerAfterPin
  NonceNotReused
  VerifyBudget
  SessionAlwaysEnded
  PassIsBacked
  ChoiceIsForThisCard
PROPERTIES
  PassForSeatedCard
  OnlyFailedResetLeavesPin
  AskedOncePerCard
  ImplementsGateRun
  RunEnds
