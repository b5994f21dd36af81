\* Every way a call of either client can go.
CONSTANTS
  MaxAttempts = 4
  MaxToolUseRetries = 2
  BaseDelay = 1
  MaxDelay = 5
  DefaultBatchSize = 2
  Limits <- MCLimits
  Sizes = {4, 20}
  MaxTexts = 3
  RetryAfters = {0, 3, 9}

SPECIFICATION FairSpec
CHECK_DEADLOCK FALSE

INVARIANTS
  TypeOK
  AcceptedAligned
  RequestsFit
  WaitsAsAsked
  RetriesJustified

PROPERTIES
  CallReturns
