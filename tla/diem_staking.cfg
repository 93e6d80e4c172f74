\* Two DIEM stakers of unequal size: batches, revenue, epochs, and an owner that interferes.
CONSTANTS
  NumStakers = 2
  Endowment <- TwoAndOne
  StakeAmounts = {1, 2}
  ALPHA_MAX_TOTAL_STAKE = 3
  ALPHA_MIN_UNSTAKE_BATCH_OPEN_SECS = 0
  DEFAULT_OPERATOR_FEE_BPS = 2000
  Caps = {0, 2, 3}
  OpenSecs = {0, 1}
  MAX_MIN_UNSTAKE_BATCH_OPEN_SECS = 1
  CoolDowns = {1}
  MAX_PER_UNSTAKE_BATCH = 2
  MaxBatches = 3
  RAY = 10
  Payouts = {5}
  OperatorFees = {0, 2000}
  Pots = {0, 3}
  firstRewardEpoch = 1
  MaxEpoch = 3
  MAX_EPOCHS_PER_CAPTURE = 1
  Scenarios <- AllScenarios
SPECIFICATION LiveSpec
CHECK_DEADLOCK FALSE
INVARIANTS
  PrincipalBacked
  ClaimsWithinInflow
  EpochPointsWithinRevenue
  ClaimedEpochsFinal
PROPERTIES
  EarnedNeverLost
  FlushedBatchPaid
