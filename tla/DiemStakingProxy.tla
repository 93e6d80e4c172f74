-------------------------- MODULE DiemStakingProxy --------------------------
(***************************************************************************)
(* staking/DiemStakingProxy.sol, with the parts of                         *)
(* staking/AntseedSellerDelegation.sol it inherits: a contract that sells  *)
(* on behalf of many DIEM stakers, stakes their DIEM at Venice, and splits *)
(* among them the USDC its channels pay and the ANTS its sales earn.       *)
(*                                                                         *)
(* A reverted call is a step that is not enabled.  Venice's staking, the   *)
(* emissions contract and the channels that pay the proxy are external:    *)
(* they are known by the calls made to them.  Times are kept as what is    *)
(* left of them: unlockIn is unlockAt - block.timestamp, and openFor is    *)
(* the age of the open batch.  The operator's permission to sell           *)
(* (isOperator) is left out: its calls are the payouts that arrive.        *)
(***************************************************************************)
EXTENDS Integers, FiniteSets, Sums

CONSTANTS
  NumStakers,             \* the stakers are 1..NumStakers
  Endowment,              \* DIEM each staker has to begin with, by staker
  StakeAmounts,           \* amounts used in stake and initiateUnstake calls
  ALPHA_MAX_TOTAL_STAKE,
  ALPHA_MIN_UNSTAKE_BATCH_OPEN_SECS,
  DEFAULT_OPERATOR_FEE_BPS,
  Caps,                   \* values of maxTotalStake, 0 for no cap
  OpenSecs,               \* values of minUnstakeBatchOpenSecs
  MAX_MIN_UNSTAKE_BATCH_OPEN_SECS,
  CoolDowns,              \* cooldowns Venice may be using
  MAX_PER_UNSTAKE_BATCH,
  MaxBatches,             \* bound on the batches that are flushed
  RAY,                    \* scale of the per-token accumulator (1e27)
  Payouts,                \* gross USDC a settle, topUp or close may bring
  OperatorFees,           \* values of operatorFeeBps
  Pots,                   \* gross ANTS the emissions may grant for an epoch
  firstRewardEpoch,
  MaxEpoch,               \* bound on the emissions epochs
  MAX_EPOCHS_PER_CAPTURE,
  Scenarios               \* bounds under which the contract is explored

Stakers == 1..NumStakers
Batches == 1..MaxBatches + 1
Epochs == 0..MaxEpoch
BPS == 10000

OwnerCalls == {"pause", "sweepOrphanUsdc", "setMaxTotalStake", "setMinUnstakeBatchOpenSecs",
               "setOperatorFee"}

(* A behaviour uses up to so many batches, receives up to so much USDC,    *)
(* lasts up to such an epoch, and has an owner that makes these calls.     *)
Scenario == [batches: 0..MaxBatches, received: Nat, epochs: Epochs, calls: SUBSET OwnerCalls]

ASSUME DiemAssumption ==
  /\ NumStakers \in Nat /\ Endowment \in [Stakers -> Nat]
  /\ StakeAmounts \subseteq Nat \ {0}
  /\ Caps \subseteq Nat /\ ALPHA_MAX_TOTAL_STAKE \in Caps
  /\ MAX_MIN_UNSTAKE_BATCH_OPEN_SECS \in Nat
  /\ OpenSecs \subseteq 0..MAX_MIN_UNSTAKE_BATCH_OPEN_SECS
  /\ ALPHA_MIN_UNSTAKE_BATCH_OPEN_SECS \in OpenSecs
  /\ CoolDowns \subseteq Nat
  /\ MAX_PER_UNSTAKE_BATCH \in Nat \ {0} /\ MaxBatches \in Nat
  /\ RAY \in Nat \ {0}
  /\ Payouts \subseteq Nat
  /\ OperatorFees \subseteq 0..BPS /\ DEFAULT_OPERATOR_FEE_BPS \in OperatorFees
  /\ Pots \subseteq Nat
  /\ MaxEpoch \in Nat /\ firstRewardEpoch \in 1..MaxEpoch
  /\ MAX_EPOCHS_PER_CAPTURE \in Nat \ {0}
  /\ Scenarios \subseteq Scenario /\ Scenarios # {}

VARIABLE scenario         \* never changes

VARIABLES \* staking
  staked,                 \* per staker
  totalStaked,
  stakerCount,
  maxTotalStake,
  unstakeBatches,         \* batches of withdrawals, by number
  currentUnstakeBatch,
  oldestUnclaimedUnstakeBatch,
  openFor,                \* age of the open batch, up to the longest wait
  minUnstakeBatchOpenSecs,
  paused,
  diem,                   \* DIEM in each staker's wallet
  venice                  \* the proxy's account at Venice (external)

VARIABLES \* USDC rewards
  usdcRewardPerTokenStored,
  userUsdcRewardPerTokenPaid,
  usdcRewards,
  totalUsdcReservedForStakers,
  totalUsdcDistributedEver,
  operatorFeeBps,
  usdcBalance,            \* USDC the proxy owns
  usdcPaid,               \* USDC each staker has been paid
  received,               \* USDC that has arrived, fees deducted
  revenue                 \* the part of it distributed in each epoch

VARIABLES \* ANTS rewards
  epoch,                  \* currentEpoch() of the emissions (external)
  currentEpochRevenuePoints,
  rewardEpochs,
  syncedRewardEpoch,
  userPoints,             \* per staker and epoch
  userRevenuePerTokenSnap,
  userCurrentEpoch,
  userEpochClaimed,
  userLastClaimedEpoch,
  antsBalance             \* ANTS the proxy owns

stakeVars == <<staked, totalStaked, stakerCount>>
batchVars == <<unstakeBatches, currentUnstakeBatch, oldestUnclaimedUnstakeBatch, openFor>>
settings == <<scenario, maxTotalStake, minUnstakeBatchOpenSecs, operatorFeeBps, paused>>
diemVars == <<diem, venice>>
poolVars == <<usdcRewardPerTokenStored, totalUsdcReservedForStakers, totalUsdcDistributedEver,
              usdcBalance, usdcPaid, received, revenue>>
usdcUserVars == <<userUsdcRewardPerTokenPaid, usdcRewards>>
epochVars == <<currentEpochRevenuePoints, rewardEpochs, syncedRewardEpoch>>
pointVars == <<userPoints, userRevenuePerTokenSnap, userCurrentEpoch>>
antsVars == <<userEpochClaimed, userLastClaimedEpoch, antsBalance>>
vars == <<stakeVars, batchVars, settings, diemVars, poolVars, usdcUserVars, epochVars,
          pointVars, antsVars, epoch>>

NoBatch == [total |-> 0, flushed |-> FALSE, unlockIn |-> 0, claimed |-> FALSE,
            users |-> {}, amounts |-> [u \in Stakers |-> 0]]

Init ==
  /\ scenario \in Scenarios
  /\ staked = [u \in Stakers |-> 0] /\ totalStaked = 0 /\ stakerCount = 0
  /\ maxTotalStake = ALPHA_MAX_TOTAL_STAKE
  /\ minUnstakeBatchOpenSecs = ALPHA_MIN_UNSTAKE_BATCH_OPEN_SECS
  /\ operatorFeeBps = DEFAULT_OPERATOR_FEE_BPS /\ paused = FALSE
  /\ unstakeBatches = [b \in Batches |-> NoBatch]
  /\ currentUnstakeBatch = 1 /\ oldestUnclaimedUnstakeBatch = 1 /\ openFor = 0
  /\ diem = Endowment
  /\ venice = [amountStaked |-> 0, coolDownAmount |-> 0, coolDownIn |-> 0]
  /\ usdcRewardPerTokenStored = 0
  /\ totalUsdcReservedForStakers = 0 /\ totalUsdcDistributedEver = 0
  /\ usdcBalance = 0 /\ usdcPaid = [u \in Stakers |-> 0]
  /\ received = 0 /\ revenue = [n \in Epochs |-> 0]
  /\ userUsdcRewardPerTokenPaid = [u \in Stakers |-> 0]
  /\ usdcRewards = [u \in Stakers |-> 0]
  /\ epoch = firstRewardEpoch /\ syncedRewardEpoch = firstRewardEpoch
  /\ currentEpochRevenuePoints = 0
  /\ rewardEpochs = [n \in Epochs |-> [revenuePerTokenAtEnd |-> 0, totalPoints |-> 0,
                                       antsPot |-> 0, funded |-> FALSE]]
  /\ userPoints = [u \in Stakers |-> [n \in Epochs |-> 0]]
  /\ userRevenuePerTokenSnap = [u \in Stakers |-> 0]
  /\ userCurrentEpoch = [u \in Stakers |-> 0]
  /\ userEpochClaimed = [u \in Stakers |-> [n \in Epochs |-> FALSE]]
  /\ userLastClaimedEpoch = [u \in Stakers |-> 0]
  /\ antsBalance = 0

-----------------------------------------------------------------------------
(* Reward accounting.                                                      *)

Larger(m, n) == IF m > n THEN m ELSE n
Smaller(m, n) == IF m < n THEN m ELSE n

(* What staker u can claim: what was credited, and its share of what was   *)
(* distributed since (_updateUsdcForUser, earnedUsdc).                     *)
Earned(u) ==
  usdcRewards[u]
    + (staked[u] * (usdcRewardPerTokenStored - userUsdcRewardPerTokenPaid[u])) \div RAY

(* Mutant: what was credited before is overwritten. *)
credited_Overwritten(u) == [usdcRewards EXCEPT ![u] = Earned(u) - usdcRewards[u]]

(* The credits once u's share is added to them.                            *)
credited(u) == [usdcRewards EXCEPT ![u] = Earned(u)]

(* The epochs from the first one not yet closed to target - 1, closed: the *)
(* first takes the points gathered so far, the others none.                *)
ClosedEpochs(target) ==
  [n \in Epochs |->
     IF syncedRewardEpoch <= n /\ n < target
     THEN [rewardEpochs[n] EXCEPT
             !.revenuePerTokenAtEnd = usdcRewardPerTokenStored,
             !.totalPoints = IF n = syncedRewardEpoch THEN currentEpochRevenuePoints ELSE 0]
     ELSE rewardEpochs[n]]

OpenPoints(target) == IF target > syncedRewardEpoch THEN 0 ELSE currentEpochRevenuePoints

(* Mutant: every epoch starts at the staker's snapshot. *)
SegmentPoints_FromSnapshot(u, n, re, synced) ==
  LET segStart == userRevenuePerTokenSnap[u]
      segEnd == IF n < synced THEN re[n].revenuePerTokenAtEnd ELSE usdcRewardPerTokenStored
  IN  IF segEnd > segStart THEN (staked[u] * (segEnd - segStart)) \div RAY ELSE 0

(* The points that staker u has earned in epoch n and not captured yet,    *)
(* when the epochs before synced are closed as in re.                      *)
SegmentPoints(u, n, re, synced) ==
  LET segStart == IF n = userCurrentEpoch[u] THEN userRevenuePerTokenSnap[u]
                                             ELSE re[n - 1].revenuePerTokenAtEnd
      segEnd == IF n < synced THEN re[n].revenuePerTokenAtEnd ELSE usdcRewardPerTokenStored
  IN  IF segEnd > segStart THEN (staked[u] * (segEnd - segStart)) \div RAY ELSE 0

(* The points of u once its segments up to epoch last are captured.        *)
CapturedPoints(u, re, synced, last) ==
  [n \in Epochs |-> userPoints[u][n]
     + IF userCurrentEpoch[u] <= n /\ n <= last THEN SegmentPoints(u, n, re, synced) ELSE 0]

(* _captureUserPoints succeeds only on a short backlog. *)
CanCapture(u, synced) ==
  staked[u] = 0 \/ synced - userCurrentEpoch[u] <= MAX_EPOCHS_PER_CAPTURE

(* The updateRewards modifier, except for usdcRewards, which becomes       *)
(* Earned(u) unless the function goes on to pay it out.                    *)
UpdateRewards(u) ==
  /\ epoch - syncedRewardEpoch <= MAX_EPOCHS_PER_CAPTURE
  /\ CanCapture(u, epoch)
  /\ userUsdcRewardPerTokenPaid' = [userUsdcRewardPerTokenPaid EXCEPT ![u] = usdcRewardPerTokenStored]
  /\ rewardEpochs' = ClosedEpochs(epoch)
  /\ currentEpochRevenuePoints' = OpenPoints(epoch)
  /\ syncedRewardEpoch' = epoch
  /\ userPoints' = [userPoints EXCEPT ![u] = CapturedPoints(u, ClosedEpochs(epoch), epoch, epoch)]
  /\ userRevenuePerTokenSnap' = [userRevenuePerTokenSnap EXCEPT ![u] = usdcRewardPerTokenStored]
  /\ userCurrentEpoch' = [userCurrentEpoch EXCEPT ![u] = epoch]

NetOfFee(gross) == gross - (gross * operatorFeeBps) \div BPS

-----------------------------------------------------------------------------
(* Staking and unstaking.                                                  *)

stake(u, amount) ==
  /\ ~paused /\ amount <= diem[u]
  /\ maxTotalStake = 0 \/ totalStaked + amount <= maxTotalStake
  /\ UpdateRewards(u)
  /\ usdcRewards' = credited(u)
  /\ stakerCount' = IF staked[u] = 0 THEN stakerCount + 1 ELSE stakerCount
  /\ staked' = [staked EXCEPT ![u] = @ + amount]
  /\ totalStaked' = totalStaked + amount
  /\ diem' = [diem EXCEPT ![u] = @ - amount]
  /\ venice' = [venice EXCEPT !.amountStaked = @ + amount]
  /\ UNCHANGED <<batchVars, settings, poolVars, antsVars, epoch>>

initiateUnstake(u, amount) ==
  LET b == currentUnstakeBatch
      batch == unstakeBatches[b]
  IN  /\ ~paused /\ b <= scenario.batches
      /\ amount <= staked[u]
      /\ u \in batch.users \/ Cardinality(batch.users) < MAX_PER_UNSTAKE_BATCH
      /\ UpdateRewards(u)
      /\ usdcRewards' = credited(u)
      /\ openFor' = IF batch.total = 0 THEN 0 ELSE openFor
      /\ staked' = [staked EXCEPT ![u] = @ - amount]
      /\ totalStaked' = totalStaked - amount
      /\ stakerCount' = IF staked[u] = amount THEN stakerCount - 1 ELSE stakerCount
      /\ unstakeBatches' = [unstakeBatches EXCEPT ![b].users = @ \cup {u},
                                                  ![b].amounts[u] = @ + amount,
                                                  ![b].total = @ + amount]
      /\ UNCHANGED <<currentUnstakeBatch, oldestUnclaimedUnstakeBatch, settings, diemVars,
                     poolVars, antsVars, epoch>>

(* Mutant: a batch is flushed while another one cools down. *)
nothingCooling_Unchecked == TRUE

(* One batch at a time may be cooling down.                                *)
nothingCooling == currentUnstakeBatch = oldestUnclaimedUnstakeBatch

(* The batch is sent to Venice, which has one cooldown per account.        *)
flush(coolDown) ==
  LET b == currentUnstakeBatch
      batch == unstakeBatches[b]
  IN  /\ ~paused
      /\ nothingCooling
      /\ batch.total # 0
      /\ Cardinality(batch.users) >= MAX_PER_UNSTAKE_BATCH \/ openFor >= minUnstakeBatchOpenSecs
      /\ unstakeBatches' = [unstakeBatches EXCEPT ![b].flushed = TRUE, ![b].unlockIn = coolDown]
      /\ currentUnstakeBatch' = b + 1
      /\ openFor' = 0
      /\ venice' = [amountStaked |-> venice.amountStaked - batch.total,
                    coolDownAmount |-> venice.coolDownAmount + batch.total,
                    coolDownIn |-> coolDown]
      /\ UNCHANGED <<oldestUnclaimedUnstakeBatch, stakeVars, settings, diem, poolVars,
                     usdcUserVars, epochVars, pointVars, antsVars, epoch>>

(* Mutant: a pause also stops the payment of batches. *)
isReady_NotPaused(batch) == ~paused /\ batch.flushed /\ batch.unlockIn = 0 /\ ~batch.claimed

isReady(batch) == batch.flushed /\ batch.unlockIn = 0 /\ ~batch.claimed

(* Anyone may pay out a batch that has cooled down, also during a pause.   *)
claimUnstakeBatch(b) ==
  LET batch == unstakeBatches[b] IN
  /\ isReady(batch)
  /\ venice.coolDownAmount > 0 /\ venice.coolDownIn = 0
  /\ batch.total <= venice.coolDownAmount
  /\ oldestUnclaimedUnstakeBatch' =
       IF b = oldestUnclaimedUnstakeBatch THEN b + 1 ELSE oldestUnclaimedUnstakeBatch
  /\ venice' = [venice EXCEPT !.coolDownAmount = 0, !.coolDownIn = 0]
  /\ diem' = [u \in Stakers |-> diem[u] + IF u \in batch.users THEN batch.amounts[u] ELSE 0]
  /\ unstakeBatches' = [unstakeBatches EXCEPT
       ![b].claimed = TRUE,
       ![b].amounts = [u \in Stakers |-> IF u \in batch.users THEN 0 ELSE @[u]]]
  /\ UNCHANGED <<currentUnstakeBatch, openFor, stakeVars, settings, poolVars, usdcUserVars,
                 epochVars, pointVars, antsVars, epoch>>

-----------------------------------------------------------------------------
(* Reward claims.                                                          *)

claimUsdc(u) ==
  /\ ~paused
  /\ Earned(u) > 0
  /\ Earned(u) <= totalUsdcReservedForStakers /\ Earned(u) <= usdcBalance
  /\ UpdateRewards(u)
  /\ usdcRewards' = [usdcRewards EXCEPT ![u] = 0]
  /\ totalUsdcReservedForStakers' = totalUsdcReservedForStakers - Earned(u)
  /\ usdcBalance' = usdcBalance - Earned(u)
  /\ usdcPaid' = [usdcPaid EXCEPT ![u] = @ + Earned(u)]
  /\ UNCHANGED <<stakeVars, batchVars, settings, diemVars, usdcRewardPerTokenStored,
                 totalUsdcDistributedEver, received, revenue, antsVars, epoch>>

(* Mutant: the cursor jumps over epochs that are not claimed. *)
AdvancedCursor_Unchecked(u, claimed, synced) ==
  LET from == Larger(userLastClaimedEpoch[u], firstRewardEpoch)
  IN  Smaller(Larger(from, synced), from + MAX_EPOCHS_PER_CAPTURE)

(* The claim cursor after a claim: it moves over claimed epochs.           *)
AdvancedCursor(u, claimed, synced) ==
  LET from == Larger(userLastClaimedEpoch[u], firstRewardEpoch)
      stops == {n \in from..Larger(from, synced) :
                  n >= synced \/ n = from + MAX_EPOCHS_PER_CAPTURE \/ ~claimed[n]}
  IN  CHOOSE n \in stops : \A m \in stops : n <= m

(* ids is the set of epochs asked for: an epoch asked for twice is skipped *)
(* the second time.  An epoch that is not funded is funded on the way; an  *)
(* epoch in which u has no points is only marked.                          *)
claimAnts(u, ids, pots) ==
  LET target == 1 + (CHOOSE n \in ids : \A m \in ids : m <= n)
      synced == Larger(target, syncedRewardEpoch)
      re == ClosedEpochs(target)
      points == CapturedPoints(u, re, synced, synced)
      fresh == {n \in ids : ~userEpochClaimed[u][n]}
      paying == {n \in fresh : points[n] > 0 /\ re[n].totalPoints > 0}
      funding == {n \in paying : ~re[n].funded}
      potOf(n) == IF n \in funding THEN NetOfFee(pots[n]) ELSE re[n].antsPot
      totalAnts == Sum([n \in Epochs |->
                     IF n \in paying THEN (potOf(n) * points[n]) \div re[n].totalPoints ELSE 0], MaxEpoch)
      funds == antsBalance + Sum([n \in Epochs |-> IF n \in funding THEN potOf(n) ELSE 0], MaxEpoch)
      claimed == [n \in Epochs |-> userEpochClaimed[u][n] \/ n \in ids]
  IN  /\ ~paused
      /\ Cardinality(ids) <= MAX_EPOCHS_PER_CAPTURE
      /\ \A n \in ids : firstRewardEpoch <= n /\ n < epoch
      /\ target - syncedRewardEpoch <= MAX_EPOCHS_PER_CAPTURE
      /\ CanCapture(u, synced)
      /\ fresh # {}
      /\ totalAnts <= funds
      /\ userUsdcRewardPerTokenPaid' = [userUsdcRewardPerTokenPaid EXCEPT ![u] = usdcRewardPerTokenStored]
      /\ usdcRewards' = credited(u)
      /\ rewardEpochs' = [n \in Epochs |-> IF n \in funding
                            THEN [re[n] EXCEPT !.antsPot = potOf(n), !.funded = TRUE] ELSE re[n]]
      /\ currentEpochRevenuePoints' = OpenPoints(target)
      /\ syncedRewardEpoch' = synced
      /\ userPoints' = [userPoints EXCEPT ![u] = [n \in Epochs |-> IF n \in fresh THEN 0 ELSE points[n]]]
      /\ userRevenuePerTokenSnap' = [userRevenuePerTokenSnap EXCEPT ![u] = usdcRewardPerTokenStored]
      /\ userCurrentEpoch' = [userCurrentEpoch EXCEPT ![u] = synced]
      /\ userEpochClaimed' = [userEpochClaimed EXCEPT ![u] = claimed]
      /\ userLastClaimedEpoch' = [userLastClaimedEpoch EXCEPT ![u] = AdvancedCursor(u, claimed, synced)]
      /\ antsBalance' = funds - totalAnts
      /\ UNCHANGED <<stakeVars, batchVars, settings, diemVars, poolVars, epoch>>

(* A staker behind by too many epochs captures a few of them at a time.    *)
catchUpPoints(u, numEpochs) ==
  LET synced == Smaller(syncedRewardEpoch + numEpochs, epoch)
      re == ClosedEpochs(synced)
      targetEp == Smaller(userCurrentEpoch[u] + numEpochs, synced)
  IN  /\ ~paused
      /\ targetEp # userCurrentEpoch[u]
      /\ userUsdcRewardPerTokenPaid' = [userUsdcRewardPerTokenPaid EXCEPT ![u] = usdcRewardPerTokenStored]
      /\ usdcRewards' = credited(u)
      /\ rewardEpochs' = re
      /\ currentEpochRevenuePoints' = OpenPoints(synced)
      /\ syncedRewardEpoch' = synced
      /\ userPoints' = [userPoints EXCEPT ![u] = CapturedPoints(u, re, synced, targetEp - 1)]
      /\ userRevenuePerTokenSnap' =
           [userRevenuePerTokenSnap EXCEPT ![u] = re[targetEp - 1].revenuePerTokenAtEnd]
      /\ userCurrentEpoch' = [userCurrentEpoch EXCEPT ![u] = targetEp]
      /\ UNCHANGED <<stakeVars, batchVars, settings, diemVars, poolVars, antsVars, epoch>>

syncRewardEpochs(maxEpochs) ==
  LET target == Smaller(syncedRewardEpoch + maxEpochs, epoch) IN
  /\ target > syncedRewardEpoch
  /\ rewardEpochs' = ClosedEpochs(target)
  /\ currentEpochRevenuePoints' = OpenPoints(target)
  /\ syncedRewardEpoch' = target
  /\ UNCHANGED <<stakeVars, batchVars, settings, diemVars, poolVars, usdcUserVars, pointVars,
                 antsVars, epoch>>

-----------------------------------------------------------------------------
(* Money from the channels (settle, topUp and close).                      *)

(* With nobody staked the payout stays in the contract.                    *)
PayoutKept(gross) ==
  /\ ~paused /\ totalStaked = 0
  /\ received + NetOfFee(gross) <= scenario.received
  /\ usdcBalance' = usdcBalance + NetOfFee(gross)
  /\ received' = received + NetOfFee(gross)
  /\ UNCHANGED <<stakeVars, batchVars, settings, diemVars, usdcRewardPerTokenStored,
                 totalUsdcReservedForStakers, totalUsdcDistributedEver, usdcPaid, revenue,
                 usdcUserVars, epochVars, pointVars, antsVars, epoch>>

(* Mutant: what is distributed includes the fee. *)
netPayout_BeforeFee(gross) == gross

(* The amount that is handed on for distribution.                          *)
netPayout(gross) == NetOfFee(gross)

(* Otherwise _distributeUsdcInstant spreads it over the stake.  The epochs *)
(* are closed first, so that it counts for the current one.                *)
PayoutDistributed(gross) ==
  LET amount == netPayout(gross)
      delta == (amount * RAY) \div totalStaked
      distributable == (delta * totalStaked) \div RAY
  IN  /\ ~paused /\ totalStaked > 0 /\ amount > 0
      /\ received + amount <= scenario.received
      /\ epoch - syncedRewardEpoch <= MAX_EPOCHS_PER_CAPTURE
      /\ rewardEpochs' = ClosedEpochs(epoch)
      /\ syncedRewardEpoch' = epoch
      /\ usdcRewardPerTokenStored' = usdcRewardPerTokenStored + delta
      /\ currentEpochRevenuePoints' = OpenPoints(epoch) + distributable
      /\ totalUsdcReservedForStakers' = totalUsdcReservedForStakers + distributable
      /\ totalUsdcDistributedEver' = totalUsdcDistributedEver + distributable
      /\ usdcBalance' = usdcBalance + NetOfFee(gross)
      /\ received' = received + amount
      /\ revenue' = [revenue EXCEPT ![epoch] = @ + amount]
      /\ UNCHANGED <<stakeVars, batchVars, settings, diemVars, usdcPaid, usdcUserVars,
                     pointVars, antsVars, epoch>>

-----------------------------------------------------------------------------
(* The owner, and the environment.                                         *)

OwnerUnchanged == UNCHANGED <<stakeVars, batchVars, diemVars, usdcRewardPerTokenStored,
  totalUsdcReservedForStakers, totalUsdcDistributedEver, usdcPaid, received, revenue,
  usdcUserVars, epochVars, pointVars, antsVars, epoch, scenario>>

sweepOrphanUsdc ==
  /\ "sweepOrphanUsdc" \in scenario.calls
  /\ usdcBalance > totalUsdcReservedForStakers
  /\ usdcBalance' = totalUsdcReservedForStakers
  /\ UNCHANGED settings /\ OwnerUnchanged

pause ==
  /\ "pause" \in scenario.calls
  /\ paused' = ~paused
  /\ UNCHANGED <<maxTotalStake, minUnstakeBatchOpenSecs, operatorFeeBps, usdcBalance>>
  /\ OwnerUnchanged

setMaxTotalStake(cap) ==
  /\ "setMaxTotalStake" \in scenario.calls
  /\ maxTotalStake' = cap
  /\ UNCHANGED <<paused, minUnstakeBatchOpenSecs, operatorFeeBps, usdcBalance>>
  /\ OwnerUnchanged

setMinUnstakeBatchOpenSecs(secs) ==
  /\ "setMinUnstakeBatchOpenSecs" \in scenario.calls
  /\ minUnstakeBatchOpenSecs' = secs
  /\ UNCHANGED <<paused, maxTotalStake, operatorFeeBps, usdcBalance>>
  /\ OwnerUnchanged

setOperatorFee(bps) ==
  /\ "setOperatorFee" \in scenario.calls
  /\ operatorFeeBps' = bps
  /\ UNCHANGED <<paused, maxTotalStake, minUnstakeBatchOpenSecs, usdcBalance>>
  /\ OwnerUnchanged

(* A second passes.  (An age beyond the longest wait makes no difference.) *)
Tick ==
  /\ openFor' = IF unstakeBatches[currentUnstakeBatch].total = 0 THEN 0
                ELSE Smaller(openFor + 1, MAX_MIN_UNSTAKE_BATCH_OPEN_SECS)
  /\ unstakeBatches' = [b \in Batches |->
       [unstakeBatches[b] EXCEPT !.unlockIn = Larger(@ - 1, 0)]]
  /\ venice' = [venice EXCEPT !.coolDownIn = Larger(@ - 1, 0)]
  /\ UNCHANGED <<currentUnstakeBatch, oldestUnclaimedUnstakeBatch, stakeVars, settings, diem,
                 poolVars, usdcUserVars, epochVars, pointVars, antsVars, epoch>>

(* The emissions start their next epoch. *)
NextEpoch ==
  /\ epoch < scenario.epochs
  /\ epoch' = epoch + 1
  /\ UNCHANGED <<stakeVars, batchVars, settings, diemVars, poolVars, usdcUserVars, epochVars,
                 pointVars, antsVars>>

Next ==
  \/ \E u \in Stakers, amount \in StakeAmounts : stake(u, amount) \/ initiateUnstake(u, amount)
  \/ \E coolDown \in CoolDowns : flush(coolDown)
  \/ \E b \in Batches : claimUnstakeBatch(b)
  \/ \E u \in Stakers : claimUsdc(u)
  \/ \E u \in Stakers, ids \in (SUBSET (0..epoch - 1)) \ {{}} :
       \E pots \in [ids -> Pots] : claimAnts(u, ids, pots)
  \/ \E n \in 1..MaxEpoch : syncRewardEpochs(n) \/ \E u \in Stakers : catchUpPoints(u, n)
  \/ \E gross \in Payouts : PayoutKept(gross) \/ PayoutDistributed(gross)
  \/ sweepOrphanUsdc \/ pause
  \/ \E cap \in Caps : setMaxTotalStake(cap)
  \/ \E secs \in OpenSecs : setMinUnstakeBatchOpenSecs(secs)
  \/ \E bps \in OperatorFees : setOperatorFee(bps)
  \/ Tick \/ NextEpoch

Spec == Init /\ [][Next]_vars

(* Time passes, and somebody pays out a batch that can be paid out (the    *)
(* call is open to everyone, and the users of the batch want their DIEM).  *)
LiveSpec ==
  /\ Spec
  /\ WF_vars(Tick)
  /\ \A b \in Batches : WF_vars(claimUnstakeBatch(b))

-----------------------------------------------------------------------------
(* Properties.                                                             *)

Batch == [total: Nat, flushed: BOOLEAN, unlockIn: Nat, claimed: BOOLEAN,
          users: SUBSET Stakers, amounts: [Stakers -> Nat]]
RewardEpoch == [revenuePerTokenAtEnd: Nat, totalPoints: Nat, antsPot: Nat, funded: BOOLEAN]

(* Every storage variable of the proxy keeps its type: the unsigned ones   *)
(* stay natural numbers, so no subtraction in an enabled call underflows.  *)
TypeOK ==
  /\ scenario \in Scenarios
  /\ staked \in [Stakers -> Nat] /\ totalStaked \in Nat /\ stakerCount \in Nat
  /\ maxTotalStake \in Caps /\ minUnstakeBatchOpenSecs \in OpenSecs
  /\ operatorFeeBps \in OperatorFees /\ paused \in BOOLEAN
  /\ unstakeBatches \in [Batches -> Batch]
  /\ currentUnstakeBatch \in Batches /\ oldestUnclaimedUnstakeBatch \in Batches
  /\ openFor \in Nat
  /\ diem \in [Stakers -> Nat]
  /\ venice \in [amountStaked: Nat, coolDownAmount: Nat, coolDownIn: Nat]
  /\ usdcRewardPerTokenStored \in Nat
  /\ totalUsdcReservedForStakers \in Nat /\ totalUsdcDistributedEver \in Nat
  /\ usdcBalance \in Nat /\ usdcPaid \in [Stakers -> Nat]
  /\ received \in Nat /\ revenue \in [Epochs -> Nat]
  /\ userUsdcRewardPerTokenPaid \in [Stakers -> Nat] /\ usdcRewards \in [Stakers -> Nat]
  /\ epoch \in Epochs /\ syncedRewardEpoch \in Epochs
  /\ currentEpochRevenuePoints \in Nat
  /\ rewardEpochs \in [Epochs -> RewardEpoch]
  /\ userPoints \in [Stakers -> [Epochs -> Nat]]
  /\ userRevenuePerTokenSnap \in [Stakers -> Nat] /\ userCurrentEpoch \in [Stakers -> Epochs]
  /\ userEpochClaimed \in [Stakers -> [Epochs -> BOOLEAN]]
  /\ userLastClaimedEpoch \in [Stakers -> Epochs]
  /\ antsBalance \in Nat

(* DIEM a staker has queued for withdrawal and not been paid. *)
Queued(u) == Sum([b \in Batches |-> unstakeBatches[b].amounts[u]], MaxBatches + 1)

(* No DIEM is lost between the proxy's books and Venice: a staker's wallet,*)
(* stake and queue add up to what it came with, and no stake goes below    *)
(* zero at the cost of another's; Venice holds the stake and               *)
(* the open batch; what cools down there is exactly the batches sent and   *)
(* not paid; and when the proxy calls a batch ready, Venice does too.      *)
PrincipalBacked ==
  /\ \A u \in Stakers : staked[u] >= 0 /\ diem[u] + staked[u] + Queued(u) = Endowment[u]
  /\ totalStaked = Sum(staked, NumStakers)
  /\ stakerCount = Cardinality({u \in Stakers : staked[u] > 0})
  /\ venice.amountStaked = totalStaked + unstakeBatches[currentUnstakeBatch].total
  /\ venice.coolDownAmount = Sum([b \in Batches |->
       IF unstakeBatches[b].flushed /\ ~unstakeBatches[b].claimed
       THEN unstakeBatches[b].total ELSE 0], MaxBatches + 1)
  /\ \A b \in Batches :
       LET batch == unstakeBatches[b] IN
       /\ ~batch.claimed => batch.total = Sum(batch.amounts, NumStakers)
       /\ batch.flushed /\ ~batch.claimed => venice.coolDownIn <= batch.unlockIn

(* The USDC the books reserve for stakers is in the contract, whatever the *)
(* owner sweeps, and is what was distributed less what was paid; and       *)
(* stakers are never owed more than the channels brought in: what they     *)
(* have been paid and can claim is within the revenue.                     *)
ClaimsWithinInflow ==
  /\ totalUsdcReservedForStakers <= usdcBalance
  /\ totalUsdcReservedForStakers + Sum(usdcPaid, NumStakers) = totalUsdcDistributedEver
  /\ Sum(usdcPaid, NumStakers) + Sum([u \in Stakers |-> Earned(u)], NumStakers)
       <= Sum(revenue, MaxEpoch)

(* The points of an epoch, captured or still to be captured, are within    *)
(* the revenue of that epoch: no revenue counts in two epochs or for stake *)
(* that came later.                                                        *)
EpochPointsWithinRevenue ==
  \A n \in 1..MaxEpoch :
    Sum([u \in Stakers |-> userPoints[u][n]
           + IF userCurrentEpoch[u] <= n /\ n <= syncedRewardEpoch
             THEN SegmentPoints(u, n, rewardEpochs, syncedRewardEpoch) ELSE 0], NumStakers)
      <= revenue[n]

(* An epoch that a staker has claimed is over for it: no points are left   *)
(* or can be captured there, and the cursor has passed only such epochs.   *)
ClaimedEpochsFinal ==
  \A u \in Stakers, n \in firstRewardEpoch..MaxEpoch :
    /\ userEpochClaimed[u][n] => userPoints[u][n] = 0 /\ n < userCurrentEpoch[u]
    /\ n < userLastClaimedEpoch[u] => userEpochClaimed[u][n]

(* Nobody's step, not even the staker's own, reduces what a staker has     *)
(* earned and been paid.                                                   *)
EarnedNeverLost ==
  [][\A u \in Stakers : Earned(u) + usdcPaid[u] <= Earned(u)' + usdcPaid'[u]]_vars

(* A batch sent to Venice is paid out in the end, also if the owner pauses *)
(* the proxy for good.                                                     *)
FlushedBatchPaid ==
  \A b \in Batches : unstakeBatches[b].flushed ~> unstakeBatches[b].claimed

(* What stakers can claim is reserved for them, so that every claim can be *)
(* paid and no sweep takes it.                                             *)
LiabilitiesReserved ==
  Sum([u \in Stakers |-> Earned(u)], NumStakers) <= totalUsdcReservedForStakers
=============================================================================
