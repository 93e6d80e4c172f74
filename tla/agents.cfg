\* Two sellers, two agents whose tokens change hands, stakes that come and go, and an address book that
\* is pointed at another Channels contract and back while channels are open.
CONSTANTS
  NumBuyers = 1
  NumSellers = 2
  NumAgents = 2
  NumChannels = 1
  NoAddress = NoAddress
  Configs <- OneConfig
  OwnerCalls = {"setProtocolReserve", "setSlashing", "setChannels"}
  MaxTime = 1
  Operators = {op}
  DepositAmounts = {2}
  CreditLimits = {}
  MaxNonce = 0
  DAY = 1
  StakeAmounts = {1}
  MaxStake = 1
  Metadata <- OneMetadata
  BuyerOf <- OneBuyer
  SellerOf <- OneSeller
  SignedAmounts = {1}
  Deadlines = {1}
  OtherAmounts = {1}
  MaxOtherPaid = 1
  MaxAuths = 1
  TIMEOUT_GRACE_PERIOD = 1
  MAX_PLATFORM_FEE_BPS = 5000
SPECIFICATION Spec
CHECK_DEADLOCK FALSE
INVARIANTS
  StakeBoundToAgent
  ReservedBacksChannels
