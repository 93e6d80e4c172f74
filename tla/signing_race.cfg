\* The NeedAuths of two requests, one of which waits for evidence.
CONSTANTS
  r1 = r1
  r2 = r2
  Requests = {r1, r2}
  UnitBilled = {r1}
  Prices <- TwoPrices
  maxPerRequestUsdc = 2
  maxReserveAmountUsdc = 2
  SUBSEQUENT_TOPUP_HEADROOM_USDC = 0
  minBudgetPerRequest = 1
  MaxCeiling = 4
  MaxFaults = 0
  MaxCloses = 0
  None = None
SPECIFICATION Spec
CHECK_DEADLOCK FALSE
PROPERTIES
  NeverBackward
