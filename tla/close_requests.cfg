SPECIFICATION Spec
CONSTANTS
  TOP_UP_SETTLED_THRESHOLD_BPS = 8500
  MaxTxFailures = 1
  MAX_CLOSE_RETRIES = 2
  TIMED_OUT_AUTH_CLOSE_ATTEMPTS = 1
  EstimateChecked = FALSE
  MaxInFlight = 1
  MaxCost = 1
  MaxSpent = 2
  maxReserveAmountUsdc = 2
  CloseAuths = {"none", "latest"}
  ClosesOnChain = FALSE
  MaxCeiling = 2
  MaxWire = 1
  MaxConnects = 2
  MaxRestarts = 1
CHECK_DEADLOCK FALSE
INVARIANTS TypeOK GrantedCloseSettlesAll RecordedSettlementTrue
PROPERTIES DurableClaimKept
