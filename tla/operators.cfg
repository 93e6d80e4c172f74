\* Operators come and go, signatures are replayed, the contract is paused.
CONSTANTS
  NumBuyers = 1
  NumSellers = 1
  NumAgents = 1
  NumChannels = 1
  NoAddress = NoAddress
  Configs <- OneConfig
  OwnerCalls = {"pause"}
  MaxTime = 3
  Operators = {op1, op2}
  DepositAmounts = {2}
  CreditLimits = {3}
  MaxNonce = 1
  DAY = 1
  StakeAmounts = {1}
  MaxStake = 1
  Metadata <- OneMetadata
  BuyerOf <- OneBuyer
  SellerOf <- OneSeller
  SignedAmounts = {1}
  Deadlines = {3}
  OtherAmounts = {}
  MaxOtherPaid = 0
  MaxAuths = 1
  TIMEOUT_GRACE_PERIOD = 1
  MAX_PLATFORM_FEE_BPS = 5000
SPECIFICATION LiveSpec
CHECK_DEADLOCK FALSE
INVARIANTS
  OperatorInstallsSigned
PROPERTIES
  RequestedCloseCompletes
