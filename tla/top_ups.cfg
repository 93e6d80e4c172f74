SPECIFICATION Spec
CONSTANTS
  TOP_UP_SETTLED_THRESHOLD_BPS = 10000
  MaxTxFailures = 1
  MAX_CLOSE_RETRIES = 1
  TIMED_OUT_AUTH_CLOSE_ATTEMPTS = 1
  EstimateChecked = TRUE
  MaxInFlight = 2
  MaxCost = 1
  MaxSpent = 3
  maxReserveAmountUsdc = 1
  CloseAuths = {}
  ClosesOnChain = FALSE
  MaxCeiling = 2
  MaxWire = 1
  MaxConnects = 1
  MaxRestarts = 0
CHECK_DEADLOCK FALSE
INVARIANTS ReserveNeverOverstated ExposureBounded
