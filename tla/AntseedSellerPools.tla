------------------------- MODULE AntseedSellerPools -------------------------
(***************************************************************************)
(* sellers/AntseedSellerPools.sol: ANTS locked in positions that back an   *)
(* agent's pool.  A position weighs its amount times the epochs left of    *)
(* its lock.  The contract never adds positions up: it keeps the power of  *)
(* a pool in a Fenwick tree of range deltas and in checkpoints of what is  *)
(* max-locked, and promises that the two agree.                            *)
(*                                                                         *)
(* The storage is one record, and the internal functions are operators     *)
(* from storage to storage, applied in the order of the code's calls.  A   *)
(* reverted call is a step that is not enabled.  A checkpoint trace is the *)
(* function its lookups compute, from an epoch to the value of the latest  *)
(* checkpoint not after it: keys never go back, as each is next epoch or   *)
(* the later start of the position.  moveStakes and withdrawStakes repeat  *)
(* moveStake and withdrawStake.  Whether an agent is registered is asked   *)
(* of other contracts, which may answer either way at any time.            *)
(***************************************************************************)
EXTENDS Integers, FiniteSets, Sequences, Sums

CONSTANTS
  Stakers,
  Agents,
  MaxPositions,       \* bound on the positions ever created
  StakeAmounts,       \* amounts used in stakeFor and stakeMintedReward
  SplitAmounts,       \* amounts used in splitStake
  StakeLengths,       \* lock lengths and extensions asked for
  MAX_STAKE_EPOCHS,
  FENWICK_SIZE,       \* a power of two
  MaxEpoch,           \* bound on the current epoch
  MaxCalls,           \* bound on the calls made
  Configs             \* values the owner may set the parameters to

Positions == 1..MaxPositions
Epochs == 0..FENWICK_SIZE - 1
Indexes == 1..FENWICK_SIZE
BPS_DENOMINATOR == 10000
NoStaker == "none"
NoAgent == "none"

Config == [minStakeEpochs: 1..MAX_STAKE_EPOCHS, stakeActivationDelay: 1..MAX_STAKE_EPOCHS,
           maxSlashBps: 0..BPS_DENOMINATOR, minEarlyExitSlashBps: 0..BPS_DENOMINATOR,
           restakedRewardWeightBonusBps: 0..2000, moveWeightPenaltyBps: 0..BPS_DENOMINATOR]

DefaultConfig == [minStakeEpochs |-> 1, stakeActivationDelay |-> 1, maxSlashBps |-> 5000,
                  minEarlyExitSlashBps |-> 500, restakedRewardWeightBonusBps |-> 500, moveWeightPenaltyBps |-> 0]

ASSUME PoolsAssumption ==
  /\ NoStaker \notin Stakers /\ NoAgent \notin Agents
  /\ MaxPositions \in Nat /\ MAX_STAKE_EPOCHS \in Nat \ {0}
  /\ StakeAmounts \cup SplitAmounts \cup StakeLengths \subseteq Nat
  /\ FENWICK_SIZE \in Nat \ {0} /\ MaxEpoch \in Nat /\ MaxEpoch + 1 < FENWICK_SIZE
  /\ MaxCalls \in Nat
  /\ Configs \subseteq {c \in Config : c.minEarlyExitSlashBps <= c.maxSlashBps}

VARIABLES
  pools,              \* storage of the contract
  held,               \* ANTS it owns
  config,             \* the owner's parameters
  epoch,              \* currentEpoch() of the emissions gate (external)
  calls               \* calls made so far

vars == <<pools, held, config, epoch, calls>>

NoPosition == [owner |-> NoStaker, agentId |-> NoAgent, amount |-> 0,
               weightAmount |-> 0, stakeStartEpoch |-> 0, stakeEndEpoch |-> 0,
               closedAtEpoch |-> 0, withdrawn |-> FALSE]
Zero == [amount |-> 0, weightedEnd |-> 0]
EmptyTree == [i \in Indexes |-> Zero]
EmptyTrace == [e \in Epochs |-> 0]

Init ==
  /\ pools = [positions |-> [p \in Positions |-> NoPosition],
              nextPositionId |-> 1,
              ownerOf |-> [p \in Positions |-> NoStaker],
              withdrawableEpoch |-> [p \in Positions |-> 0],
              maxLockPower |-> [p \in Positions |-> EmptyTrace],
              normalStart |-> [p \in Positions |-> EmptyTrace],
              normalEnd |-> [p \in Positions |-> EmptyTrace],
              poolTree |-> [a \in Agents |-> EmptyTree],
              totalTree |-> EmptyTree,
              poolMaxLock |-> [a \in Agents |-> EmptyTrace],
              totalMaxLock |-> EmptyTrace,
              positionIds |-> [u \in Stakers |-> <<>>],
              positionIndex |-> [p \in Positions |-> 0],
              totalStake |-> [u \in Stakers |-> 0],
              agentStake |-> [u \in Stakers |-> [a \in Agents |-> 0]]]
  /\ held = 0
  /\ config = DefaultConfig
  /\ epoch = 0
  /\ calls = 0

Later(m, n) == IF m > n THEN m ELSE n
Earlier(m, n) == IF m < n THEN m ELSE n

-----------------------------------------------------------------------------
(* Checkpoints and Fenwick trees.                                          *)

push(trace, key, value) == [e \in Epochs |-> IF e >= key THEN value ELSE trace[e]]

latest(trace) == trace[FENWICK_SIZE - 1]

(* index & (~index + 1): the largest power of two that divides index.      *)
lowBit == [i \in Indexes |->
  CHOOSE b \in {2^k : k \in 0..FENWICK_SIZE} :
    i % b = 0 /\ \A k \in 0..FENWICK_SIZE : i % 2^k = 0 => 2^k <= b]

(* The nodes that _fenwickAdd visits from index i on. *)
addPath[i \in 1..2 * FENWICK_SIZE] ==
  IF i > FENWICK_SIZE THEN {} ELSE {i} \cup addPath[i + lowBit[i]]

fenwickAdd(tree, e, amount, weightedEnd) ==
  [i \in Indexes |-> IF i \in addPath[e + 1]
                     THEN [amount |-> tree[i].amount + amount,
                           weightedEnd |-> tree[i].weightedEnd + weightedEnd]
                     ELSE tree[i]]

fenwickPrefixSum(tree, e) ==
  LET sumTo[i \in 0..FENWICK_SIZE] ==
        IF i = 0 THEN Zero
        ELSE LET before == sumTo[i - lowBit[i]]
             IN  [amount |-> before.amount + tree[i].amount,
                  weightedEnd |-> before.weightedEnd + tree[i].weightedEnd]
  IN  sumTo[e + 1]

(* Epochs beyond the tree are refused by _fenwickIndex. *)
inTree(e) == e \in Epochs

applyRangeDelta(tree, start, end, amount) ==
  fenwickAdd(fenwickAdd(tree, start, amount, amount * end), end, -amount, -(amount * end))

(* _addPowerRange, and _removePowerRange for a negative amount. *)
applyPowerRange(s, agent, start, end, amount) ==
  [s EXCEPT !.poolTree[agent] = applyRangeDelta(@, start, end, amount),
            !.totalTree = applyRangeDelta(@, start, end, amount)]

applyMaxLockWeightAmount(s, agent, e, amount) ==
  [s EXCEPT !.poolMaxLock[agent] = push(@, e, latest(@) + amount),
            !.totalMaxLock = push(@, e, latest(@) + amount)]

(* _powerAndActiveWeightAtEpoch *)
powerAndActiveWeight(tree, e) ==
  LET sum == fenwickPrefixSum(tree, e)
      power == sum.weightedEnd - sum.amount * e
  IN  IF sum.amount <= 0 \/ sum.weightedEnd <= 0 \/ power <= 0
      THEN [power |-> 0, activeWeight |-> 0]
      ELSE [power |-> power, activeWeight |-> sum.amount]

(* _poolPowerAndActiveWeightAtEpoch, and the same for all pools together.  *)
withMaxLock(normal, maxLockWeightAmount) ==
  [power |-> normal.power + maxLockWeightAmount * MAX_STAKE_EPOCHS,
   activeWeight |-> normal.activeWeight + maxLockWeightAmount]
poolPowerAndActiveWeight(agent, e) ==
  withMaxLock(powerAndActiveWeight(pools.poolTree[agent], e), pools.poolMaxLock[agent][e])
totalPowerAndActiveWeight(e) ==
  withMaxLock(powerAndActiveWeight(pools.totalTree, e), pools.totalMaxLock[e])

positionWeightAtEpoch(p, e) ==
  LET position == pools.positions[p]
      maxLockPower == pools.maxLockPower[p][e]
      end == pools.normalEnd[p][e]
  IN  IF e < position.stakeStartEpoch \/ (position.closedAtEpoch # 0 /\ e >= position.closedAtEpoch)
      THEN 0
      ELSE IF maxLockPower # 0 THEN maxLockPower
      ELSE IF e >= end THEN 0
      ELSE position.weightAmount * (end - e)

-----------------------------------------------------------------------------
(* Positions.                                                              *)

(* _increaseActiveStake, and _decreaseActiveStake for a negative amount.   *)
changeActiveStake(s, u, agent, amount) ==
  [s EXCEPT !.totalStake[u] = @ + amount, !.agentStake[u][agent] = @ + amount]

addStakerPosition(s, u, p) ==
  [s EXCEPT !.positionIds[u] = Append(@, p), !.positionIndex[p] = Len(s.positionIds[u]) + 1]

(* The last id takes the place of the one that is removed. *)
removeStakerPosition(s, u, p) ==
  LET ids == s.positionIds[u]
      index == s.positionIndex[p]
      last == ids[Len(ids)]
      moved == IF index = Len(ids) THEN s
               ELSE [s EXCEPT !.positionIds[u][index] = last, !.positionIndex[last] = index]
  IN  [moved EXCEPT !.positionIds[u] = SubSeq(@, 1, Len(@) - 1), !.positionIndex[p] = 0]

burn(s, p) == removeStakerPosition([s EXCEPT !.ownerOf[p] = NoStaker], s.ownerOf[p], p)

createWeightedPosition(s, owner, agent, amount, weight, start, normalStart, end) ==
  LET p == s.nextPositionId
      stored == [s EXCEPT
        !.nextPositionId = p + 1,
        !.positions[p] = [owner |-> owner, agentId |-> agent, amount |-> amount,
                          weightAmount |-> weight, stakeStartEpoch |-> start,
                          stakeEndEpoch |-> end, closedAtEpoch |-> 0, withdrawn |-> FALSE],
        !.normalStart[p] = push(@, start, normalStart),
        !.normalEnd[p] = push(@, start, end),
        !.ownerOf[p] = owner]
      powered == applyPowerRange(stored, agent, start, end, weight)
  IN  addStakerPosition(changeActiveStake(powered, owner, agent, amount), owner, p)

(* Not to be withdrawn before it takes over the power of its source. *)
createRestructuredPosition(s, owner, agent, amount, weight, start, normalStart, end) ==
  [createWeightedPosition(s, owner, agent, amount, weight, start, normalStart, end)
     EXCEPT !.withdrawableEpoch[s.nextPositionId] = start]

isOpen(p) ==
  /\ pools.ownerOf[p] # NoStaker
  /\ ~pools.positions[p].withdrawn /\ pools.positions[p].closedAtEpoch = 0

canCreate(n) == pools.nextPositionId + n <= MaxPositions + 1

(* Mutant: a change takes effect in the current epoch. *)
effectiveEpoch_Current(p) == Later(epoch, pools.positions[p].stakeStartEpoch)
(* From when a change made now counts: not before the position has started.*)
effectiveEpoch(p) == Later(epoch + 1, pools.positions[p].stakeStartEpoch)

canRestructure(p, effective) ==
  /\ isOpen(p)
  /\ pools.maxLockPower[p][effective] = 0
  /\ effective < pools.normalEnd[p][effective]

(* Mutant: the staker's totals keep the closed position. *)
closeForRestructure_StakeKept(s, p, effective) ==
  LET position == s.positions[p] IN
  burn([applyPowerRange(s, position.agentId, effective, s.normalEnd[p][effective], -position.weightAmount)
          EXCEPT !.positions[p].closedAtEpoch = effective], p)
(* _closePositionForRestructure *)
closeForRestructure(s, p, effective) ==
  LET position == s.positions[p]
      unpowered == applyPowerRange(s, position.agentId, effective, s.normalEnd[p][effective],
                                   -position.weightAmount)
  IN  burn(changeActiveStake([unpowered EXCEPT !.positions[p].closedAtEpoch = effective],
                             position.owner, position.agentId, -position.amount), p)

stakeFor(u, agent, amount, stakeEpochs) ==
  LET start == epoch + config.stakeActivationDelay IN
  /\ canCreate(1) /\ inTree(start + stakeEpochs)
  /\ amount # 0
  /\ config.minStakeEpochs <= stakeEpochs /\ stakeEpochs <= MAX_STAKE_EPOCHS
  /\ pools' = createWeightedPosition(pools, u, agent, amount, amount, start, start, start + stakeEpochs)
  /\ held' = held + amount
  /\ UNCHANGED <<config, epoch>>

restakedWeight(amount, stakeEpochs) ==
  (amount * (BPS_DENOMINATOR
     + (config.restakedRewardWeightBonusBps * stakeEpochs) \div MAX_STAKE_EPOCHS)) \div BPS_DENOMINATOR

(* The reward controller has minted the amount to the contract. *)
stakeMintedReward(source, amount, stakeEpochs) ==
  LET start == epoch + config.stakeActivationDelay
      position == pools.positions[source]
  IN  /\ canCreate(1) /\ inTree(start + stakeEpochs)
      /\ amount # 0 /\ position.owner # NoStaker
      /\ config.minStakeEpochs <= stakeEpochs /\ stakeEpochs <= MAX_STAKE_EPOCHS
      /\ pools' = createWeightedPosition(pools, position.owner, position.agentId, amount,
                    restakedWeight(amount, stakeEpochs), start, start, start + stakeEpochs)
      /\ held' = held + amount
      /\ UNCHANGED <<config, epoch>>

moveStake(p, agent) ==
  LET effective == effectiveEpoch(p)
      position == pools.positions[p]
      weight == (position.weightAmount * (BPS_DENOMINATOR - config.moveWeightPenaltyBps)) \div BPS_DENOMINATOR
  IN  /\ canCreate(1) /\ canRestructure(p, effective)
      /\ pools' = createRestructuredPosition(closeForRestructure(pools, p, effective), position.owner,
                    agent, position.amount, weight, effective,
                    pools.normalStart[p][effective], pools.normalEnd[p][effective])
      /\ UNCHANGED <<held, config, epoch>>

(* Mutant: only the added epochs get the new range. *)
extendLock_OnlyAdded(p, additionalEpochs) ==
  LET effective == effectiveEpoch(p)
      oldEnd == pools.normalEnd[p][effective]
      newEnd == Earlier(oldEnd + additionalEpochs, effective + MAX_STAKE_EPOCHS)
      relocked == [pools EXCEPT !.positions[p].stakeEndEpoch = newEnd,
                                !.normalEnd[p] = push(@, effective, newEnd)]
  IN  /\ additionalEpochs # 0 /\ canRestructure(p, effective) /\ newEnd > oldEnd /\ inTree(newEnd)
      /\ pools' = applyPowerRange(relocked, pools.positions[p].agentId, oldEnd, newEnd,
                                  pools.positions[p].weightAmount)
      /\ UNCHANGED <<held, config, epoch>>
(* The extension is cut at MAX_STAKE_EPOCHS from the effective epoch. *)
extendLock(p, additionalEpochs) ==
  LET effective == effectiveEpoch(p)
      position == pools.positions[p]
      oldEnd == pools.normalEnd[p][effective]
      newEnd == Earlier(oldEnd + additionalEpochs, effective + MAX_STAKE_EPOCHS)
      relocked == [pools EXCEPT !.positions[p].stakeEndEpoch = newEnd,
                                !.normalEnd[p] = push(@, effective, newEnd)]
  IN  /\ additionalEpochs # 0
      /\ canRestructure(p, effective)
      /\ newEnd > oldEnd /\ inTree(newEnd)
      /\ pools' = applyPowerRange(
                    applyPowerRange(relocked, position.agentId, effective, oldEnd, -position.weightAmount),
                    position.agentId, effective, newEnd, position.weightAmount)
      /\ UNCHANGED <<held, config, epoch>>

enableMaxLock(p) ==
  LET effective == epoch + 1
      position == pools.positions[p]
      unpowered == applyPowerRange(pools, position.agentId, effective, pools.normalEnd[p][effective],
                                   -position.weightAmount)
  IN  /\ effective >= position.stakeStartEpoch
      /\ canRestructure(p, effective)
      /\ pools' = applyMaxLockWeightAmount(
           [unpowered EXCEPT
             !.maxLockPower[p] = push(@, effective, position.weightAmount * MAX_STAKE_EPOCHS),
             !.normalStart[p] = push(@, effective, 0),
             !.normalEnd[p] = push(@, effective, 0)],
           position.agentId, effective, position.weightAmount)
      /\ UNCHANGED <<held, config, epoch>>

disableMaxLock(p) ==
  LET effective == epoch + 1
      end == effective + MAX_STAKE_EPOCHS
      position == pools.positions[p]
      unlocked == applyMaxLockWeightAmount(
        [pools EXCEPT !.positions[p].stakeEndEpoch = end,
                      !.maxLockPower[p] = push(@, effective, 0),
                      !.normalStart[p] = push(@, effective, effective),
                      !.normalEnd[p] = push(@, effective, end)],
        position.agentId, effective, -position.weightAmount)
  IN  /\ isOpen(p) /\ inTree(end)
      /\ pools.maxLockPower[p][effective] # 0
      /\ pools' = applyPowerRange(unlocked, position.agentId, effective, end, position.weightAmount)
      /\ UNCHANGED <<held, config, epoch>>

splitStake(p, splitAmount) ==
  LET effective == effectiveEpoch(p)
      position == pools.positions[p]
      firstAmount == position.amount - splitAmount
      secondWeight == (position.weightAmount * splitAmount) \div position.amount
      firstWeight == position.weightAmount - secondWeight
      part(s, amount, weight) ==
        createRestructuredPosition(s, position.owner, position.agentId, amount, weight, effective,
          pools.normalStart[p][effective], pools.normalEnd[p][effective])
  IN  /\ canCreate(2)
      /\ 0 < splitAmount /\ splitAmount < position.amount
      /\ firstWeight # 0 /\ secondWeight # 0
      /\ canRestructure(p, effective)
      /\ pools' = part(part(closeForRestructure(pools, p, effective), firstAmount, firstWeight),
                       splitAmount, secondWeight)
      /\ UNCHANGED <<held, config, epoch>>

(* Mutant: positions with different ends merge. *)
sameTerms_AnyEnd(p, q, e) == pools.normalStart[p][e] = pools.normalStart[q][e]
sameTerms(p, q, e) ==
  /\ pools.normalStart[p][e] = pools.normalStart[q][e]
  /\ pools.normalEnd[p][e] = pools.normalEnd[q][e]

(* Two positions of one owner and agent (more are merged two by two).  The *)
(* merged position starts when the later of them would have.               *)
mergeStakes(p, q) ==
  LET effective == Later(effectiveEpoch(p), effectiveEpoch(q))
      first == pools.positions[p]
      second == pools.positions[q]
  IN  /\ canCreate(1) /\ p # q
      /\ canRestructure(p, effective) /\ canRestructure(q, effective)
      /\ first.owner = second.owner /\ first.agentId = second.agentId
      /\ sameTerms(p, q, effective)
      /\ pools' = createRestructuredPosition(
                    closeForRestructure(closeForRestructure(pools, p, effective), q, effective),
                    first.owner, first.agentId, first.amount + second.amount,
                    first.weightAmount + second.weightAmount, effective,
                    pools.normalStart[p][effective], pools.normalEnd[p][effective])
      /\ UNCHANGED <<held, config, epoch>>

-----------------------------------------------------------------------------
(* Withdrawal.                                                             *)

(* Mutant: the last epoch still counts as early. *)
earlyExitSlashBps_AtEnd(p, close) ==
  LET start == pools.normalStart[p][close]
      end == pools.normalEnd[p][close]
      bps == (config.maxSlashBps * (end - close)) \div (end - start)
  IN  IF start = 0 \/ end = 0 \/ close > end THEN 0
      ELSE Earlier(Later(bps, config.minEarlyExitSlashBps), config.maxSlashBps)
earlyExitSlashBps(p, close) ==
  LET start == pools.normalStart[p][close]
      end == pools.normalEnd[p][close]
      bps == (config.maxSlashBps * (end - close)) \div (end - start)
  IN  IF start = 0 \/ end = 0 \/ close >= end THEN 0
      ELSE Earlier(Later(bps, config.minEarlyExitSlashBps), config.maxSlashBps)

slashOf(p, close) == (pools.positions[p].amount * earlyExitSlashBps(p, close)) \div BPS_DENOMINATOR

(* A withdrawal closes the position at once, or when it would have started.*)
closeEpoch(p) == Later(epoch, pools.positions[p].stakeStartEpoch)

(* No change of the lock is pending. *)
lockSettled(p) ==
  /\ epoch >= pools.withdrawableEpoch[p]
  /\ pools.maxLockPower[p][closeEpoch(p)] = 0 /\ pools.maxLockPower[p][closeEpoch(p) + 1] = 0
  /\ pools.normalEnd[p][closeEpoch(p)] # 0
  /\ pools.normalEnd[p][closeEpoch(p) + 1] = pools.normalEnd[p][closeEpoch(p)]

withdrawStake(p) ==
  LET close == closeEpoch(p)
      end == pools.normalEnd[p][close]
      position == pools.positions[p]
      closed == [pools EXCEPT !.positions[p].withdrawn = TRUE, !.positions[p].closedAtEpoch = close]
      unpowered == IF close < end
                   THEN applyPowerRange(closed, position.agentId, close, end, -position.weightAmount)
                   ELSE closed
  IN  /\ isOpen(p)
      /\ lockSettled(p)
      /\ pools' = burn(changeActiveStake(unpowered, position.owner, position.agentId, -position.amount), p)
      /\ held' = held - position.amount  \* the slash goes to the dead address
      /\ UNCHANGED <<config, epoch>>

(* The position's token changes hands. *)
transfer(p, to) ==
  LET from == pools.ownerOf[p]
      position == pools.positions[p]
      relisted == addStakerPosition(removeStakerPosition(pools, from, p), to, p)
  IN  /\ from \notin {NoStaker, to}
      /\ pools' = changeActiveStake(
                    changeActiveStake([relisted EXCEPT !.positions[p].owner = to, !.ownerOf[p] = to],
                      from, position.agentId, -position.amount),
                    to, position.agentId, position.amount)
      /\ UNCHANGED <<held, config, epoch>>

(* setPoolConfig, setRestakedRewardWeightBonus, setMoveWeightPenalty *)
setConfig(c) == config' = c /\ UNCHANGED <<pools, held, epoch>>

NextEpoch == epoch < MaxEpoch /\ epoch' = epoch + 1 /\ UNCHANGED <<pools, held, config, calls>>

Call ==
  \/ \E amount \in StakeAmounts, n \in StakeLengths :
       \/ \E u \in Stakers, a \in Agents : stakeFor(u, a, amount, n)
       \/ \E p \in Positions : stakeMintedReward(p, amount, n)
  \/ \E p \in Positions :
       \/ \E a \in Agents : moveStake(p, a)
       \/ \E n \in StakeLengths : extendLock(p, n)
       \/ enableMaxLock(p) \/ disableMaxLock(p)
       \/ \E amount \in SplitAmounts : splitStake(p, amount)
       \/ \E q \in Positions : mergeStakes(p, q)
       \/ withdrawStake(p)
       \/ \E u \in Stakers : transfer(p, u)
  \/ \E c \in Configs : setConfig(c)

Next ==
  \/ calls < MaxCalls /\ calls' = calls + 1 /\ Call
  \/ NextEpoch

Spec == Init /\ [][Next]_vars

-----------------------------------------------------------------------------
(* Properties.                                                             *)

(* The power the contract reads from its tree and its checkpoints is, for  *)
(* every pool and for all together, and for every epoch past, current or   *)
(* to come, the sum of the weights of the positions, and so is the weight  *)
(* in force: no order of locks, moves, splits, merges and exits makes them *)
(* drift apart.                                                            *)
PoolPowerExact ==
  LET weight == [p \in Positions |-> [e \in Epochs |-> positionWeightAtEpoch(p, e)]]
      weigh(S, e) ==
        [power |-> Sum([p \in Positions |-> IF p \in S THEN weight[p][e] ELSE 0], MaxPositions),
         activeWeight |-> Sum([p \in Positions |-> IF p \in S /\ weight[p][e] # 0
                                 THEN pools.positions[p].weightAmount ELSE 0], MaxPositions)]
  IN  \A e \in Epochs :
        /\ \A a \in Agents :
             poolPowerAndActiveWeight(a, e) = weigh({p \in Positions : pools.positions[p].agentId = a}, e)
        /\ totalPowerAndActiveWeight(e) = weigh(Positions, e)

(* The ANTS in the contract are the principal of the open positions, each  *)
(* held by its owner; the totals per staker and agent add them up, and the *)
(* swap-and-pop lists name each of them once, at its index.                *)
StakeBacked ==
  LET open(p, u, a) == isOpen(p) /\ pools.ownerOf[p] = u /\ pools.positions[p].agentId = a
      stakeOf(u, a) == Sum([p \in Positions |-> IF open(p, u, a) THEN pools.positions[p].amount ELSE 0], MaxPositions)
  IN  /\ held = Sum([p \in Positions |-> IF isOpen(p) THEN pools.positions[p].amount ELSE 0], MaxPositions)
      /\ \A p \in Positions : pools.ownerOf[p] # NoStaker =>
           isOpen(p) /\ pools.ownerOf[p] = pools.positions[p].owner
      /\ \A u \in Stakers :
           LET ids == pools.positionIds[u] IN
           /\ \A a \in Agents : pools.agentStake[u][a] = stakeOf(u, a)
           /\ pools.totalStake[u] = Sum([p \in Positions |->
                IF isOpen(p) /\ pools.ownerOf[p] = u THEN pools.positions[p].amount ELSE 0], MaxPositions)
           /\ {ids[i] : i \in DOMAIN ids} = {p \in Positions : pools.ownerOf[p] = u}
           /\ \A i \in DOMAIN ids : pools.positionIndex[ids[i]] = i

(* Principal is never stuck: an open position past the end of its lock,    *)
(* and not max-locked, can be withdrawn in full.  It must have a weight,   *)
(* which a penalty of 100% on moves takes away: the max lock of such a     *)
(* position is a checkpoint of zero, which disableMaxLock does not undo.   *)
ExpiredWithdrawable ==
  \A p \in Positions :
    /\ isOpen(p) /\ pools.positions[p].weightAmount # 0
    /\ pools.maxLockPower[p][epoch] = 0 /\ pools.maxLockPower[p][epoch + 1] = 0
    /\ epoch >= pools.positions[p].stakeEndEpoch
    => lockSettled(p) /\ slashOf(p, closeEpoch(p)) = 0

(* The power of epochs that are over never changes, on which the rewards   *)
(* of those epochs are claimed later; that of the current epoch only falls.*)
PastPowerFrozen ==
  [][\A p \in Positions, e \in 0..epoch :
       LET before == positionWeightAtEpoch(p, e)
           after == positionWeightAtEpoch(p, e)'
       IN  IF e < epoch THEN after = before ELSE after <= before]_vars

(* What leaving the lock next epoch would cost all the positions together. *)
ExitCost ==
  Sum([p \in Positions |->
         IF ~isOpen(p) THEN 0
         ELSE IF pools.normalEnd[p][effectiveEpoch(p)] = 0  \* max-locked
         THEN (pools.positions[p].amount * config.maxSlashBps) \div BPS_DENOMINATOR
         ELSE slashOf(p, effectiveEpoch(p))], MaxPositions)

(* An owner cannot lower the slash by moving, splitting, merging, extending*)
(* or max-locking, beyond one unit of rounding of a split: only time, a    *)
(* withdrawal or the contract's owner lowers what an exit costs.           *)
NoSlashDodge ==
  [][held' >= held /\ UNCHANGED <<epoch, config>> => ExitCost' >= ExitCost - 1]_vars
=============================================================================
