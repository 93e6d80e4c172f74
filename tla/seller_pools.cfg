CONSTANTS
  Stakers = {s1, s2}
  Agents = {a1, a2}
  MaxPositions = 4
  StakeAmounts = {40}
  SplitAmounts = {20}
  StakeLengths = {1, 2}
  MAX_STAKE_EPOCHS = 2
  FENWICK_SIZE = 8
  MaxEpoch = 3
  Configs <- Stricter
  MaxCalls = 4
SYMMETRY Symmetry
SPECIFICATION Spec
CHECK_DEADLOCK FALSE
INVARIANTS
  PoolPowerExact
  StakeBacked
  ExpiredWithdrawable
PROPERTIES
  PastPowerFrozen
  NoSlashDodge
