SPECIFICATION LiveSpec
CONSTANTS
  TOP_UP_SETTLED_THRESHOLD_BPS = 8500
  MaxTxFailures = 1
  MAX_CLOSE_RETRIES = 2
  TIMED_OUT_AUTH_CLOSE_ATTEMPTS = 1
  EstimateChecked = FALSE
  MaxInFlight = 1
  MaxCost = 1
  MaxSpent = 1
  maxReserveAmountUsdc = 1
  CloseAuths = {}
  ClosesOnChain = TRUE
  MaxCeiling = 1
  MaxWire = 1
  MaxConnects = 1
  MaxRestarts = 1
CHECK_DEADLOCK FALSE
INVARIANTS RecordedSettlementTrue
PROPERTIES DisconnectedChannelCloses
