\* One channel, every settlement pattern: the fee and the reserve move, metadata repeats or goes
\* back, stats writers are revoked, the seller changes its agent.
CONSTANTS
  NumBuyers = 1
  NumSellers = 1
  NumAgents = 2
  NumChannels = 1
  NoAddress = NoAddress
  Configs <- TwoConfigs
  OwnerCalls = {"setProtocolReserve", "setParameter", "setStatsWriter"}
  MaxTime = 1
  Operators = {}
  DepositAmounts = {4}
  CreditLimits = {}
  MaxNonce = 0
  DAY = 1
  StakeAmounts = {1}
  MaxStake = 1
  Metadata <- MixedMetadata
  BuyerOf <- OneBuyer
  SellerOf <- OneSeller
  SignedAmounts = {1, 2, 4}
  Deadlines = {1}
  OtherAmounts = {}
  MaxOtherPaid = 0
  MaxAuths = 3
  TIMEOUT_GRACE_PERIOD = 1
  MAX_PLATFORM_FEE_BPS = 5000
SPECIFICATION Spec
CHECK_DEADLOCK FALSE
INVARIANTS
  FeeBounded
  PayoutsConserved
  PaidOnlyWhatWasSigned
  UsageMatchesSnapshots
