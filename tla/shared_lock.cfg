\* Two channels of one buyer share the buyer's reserved total.
CONSTANTS
  NumBuyers = 1
  NumSellers = 1
  NumAgents = 1
  NumChannels = 2
  NoAddress = NoAddress
  Configs <- OneConfig
  OwnerCalls = {}
  MaxTime = 2
  Operators = {op}
  DepositAmounts = {2}
  CreditLimits = {}
  MaxNonce = 0
  DAY = 1
  StakeAmounts = {1}
  MaxStake = 1
  Metadata <- OneMetadata
  BuyerOf <- OneBuyer
  SellerOf <- OneSeller
  SignedAmounts = {1, 2}
  Deadlines = {2}
  OtherAmounts = {}
  MaxOtherPaid = 0
  MaxAuths = 2
  TIMEOUT_GRACE_PERIOD = 1
  MAX_PLATFORM_FEE_BPS = 5000
SPECIFICATION Spec
CHECK_DEADLOCK FALSE
INVARIANTS
  TypeOK
  ReservedBacksChannels
  Solvent
  SettlementFunded
  ActiveCountExact
  ReputationEarned
PROPERTIES
  ChannelsMoveForward
  StakeStaysWhileServing
  ImplementsLedger
