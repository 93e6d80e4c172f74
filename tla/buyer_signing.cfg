\* Two requests and their NeedAuths, one of which waits for evidence; a 402 or a restart; a close request.
CONSTANTS
  r1 = r1
  r2 = r2
  Requests = {r1, r2}
  UnitBilled = {r1}
  Prices <- UnitPrices
  maxPerRequestUsdc = 2
  maxReserveAmountUsdc = 2
  SUBSEQUENT_TOPUP_HEADROOM_USDC = 0
  minBudgetPerRequest = 1
  MaxCeiling = 4
  MaxFaults = 1
  MaxCloses = 1
  None = None
SPECIFICATION Spec
CHECK_DEADLOCK FALSE
INVARIANTS
  TypeOK
  SignedWithinReserve
  OverpayBounded
  ServedIsPaid
