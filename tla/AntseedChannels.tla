--------------------------- MODULE AntseedChannels ---------------------------
(***************************************************************************)
(* payments/AntseedChannels.sol: the life of a payment channel, composed   *)
(* with the contracts it calls (AntseedDeposits, AntseedStaking,           *)
(* AntseedStats) and with the address book and the owner.                  *)
(*                                                                         *)
(* A channel id is computeChannelId(buyer, seller, salt), so it determines *)
(* its buyer and its seller: BuyerOf and SellerOf.  An EIP-712 signature   *)
(* of a buyer is membership in reserveAuths or spendingAuths: only the     *)
(* buyer adds to them, anyone who has a signature may submit it, any       *)
(* number of times.  settledAt and lastSettledAt are left out (no code     *)
(* reads them), and registry.emissions() is address(0), so the emission    *)
(* hooks of _settleSpend are not called.                                   *)
(*                                                                         *)
(* The owner may point registry.channels at another Channels contract,     *)
(* which then locks, charges and releases buyers' funds of its own; it is  *)
(* external, and assumed to charge and release no more than it locked.     *)
(***************************************************************************)
EXTENDS AntseedDeposits, AntseedStaking, AntseedStats

CONSTANTS
  BuyerOf,              \* the buyer of each channel id
  SellerOf,             \* the seller of each channel id
  SignedAmounts,        \* amounts that buyers sign
  Deadlines,            \* deadlines that buyers sign
  OtherAmounts,         \* amounts moved by the other Channels contract
  MaxOtherPaid,         \* bound on what it charges in total
  MaxAuths,             \* bound on the signatures of each kind per channel
  TIMEOUT_GRACE_PERIOD,
  MAX_PLATFORM_FEE_BPS

ASSUME ChannelsAssumption ==
  /\ BuyerOf \in [Channels -> Buyers]
  /\ SellerOf \in [Channels -> Sellers]
  /\ SignedAmounts \subseteq Nat
  /\ Deadlines \subseteq Nat
  /\ OtherAmounts \subseteq Nat
  /\ MaxOtherPaid \in Nat
  /\ MaxAuths \in Nat
  /\ TIMEOUT_GRACE_PERIOD \in Nat
  /\ MAX_PLATFORM_FEE_BPS \in 0..BPS
  /\ \A cfg \in Configs : cfg.PLATFORM_FEE_BPS <= MAX_PLATFORM_FEE_BPS

VARIABLES
  status,             \* Channel.status
  channelDeposit,     \* Channel.deposit
  settled,            \* Channel.settled
  metadataOf,         \* Channel.metadataHash
  deadline,           \* Channel.deadline
  closeRequestedAt,   \* Channel.closeRequestedAt, 0 when not requested
  activeChannelCount, \* per seller
  channelCount,       \* AgentStats.channelCount
  ghostCount,         \* AgentStats.ghostCount
  totalVolumeUsdc,    \* AgentStats.totalVolumeUsdc
  reserveAuths,       \* ReserveAuth messages signed by each channel's buyer
  spendingAuths,      \* SpendingAuth messages signed by each channel's buyer
  otherReserved,      \* what the other Channels contract has locked per buyer
  otherPaid           \* what it has charged in total

chanVars == <<status, channelDeposit, settled, metadataOf, deadline, closeRequestedAt,
              activeChannelCount>>
agentVars == <<channelCount, ghostCount, totalVolumeUsdc>>
authVars == <<reserveAuths, spendingAuths>>
otherVars == <<otherReserved, otherPaid>>
vars == <<regVars, depVars, stakeVars, statsVars, chanVars, agentVars,
          authVars, otherVars>>

ChannelStatus == {"None", "Active", "Settled", "TimedOut"}

ReserveAuth == [maxAmount: SignedAmounts, deadline: Deadlines]
SpendingAuth == [cumulativeAmount: SignedAmounts, metadata: Metadata]

TypeOK ==
  /\ RegTypeOK /\ DepTypeOK /\ StakeTypeOK /\ StatsTypeOK
  /\ status \in [Channels -> ChannelStatus]
  /\ channelDeposit \in [Channels -> Nat]
  /\ settled \in [Channels -> Nat]
  /\ metadataOf \in [Channels -> Metadata \cup {ZeroMetadata}]
  /\ deadline \in [Channels -> Nat]
  /\ closeRequestedAt \in [Channels -> Nat]
  /\ activeChannelCount \in [Sellers -> Nat]
  /\ channelCount \in [Agents -> Nat]
  /\ ghostCount \in [Agents -> Nat]
  /\ totalVolumeUsdc \in [Agents -> Nat]
  /\ reserveAuths \in [Channels -> SUBSET ReserveAuth]
  /\ spendingAuths \in [Channels -> SUBSET SpendingAuth]
  /\ otherReserved \in [Buyers -> Nat]
  /\ otherPaid \in Nat

Init ==
  /\ RegInit /\ DepInit /\ StakeInit /\ StatsInit
  /\ status = [c \in Channels |-> "None"]
  /\ channelDeposit = [c \in Channels |-> 0]
  /\ settled = [c \in Channels |-> 0]
  /\ metadataOf = [c \in Channels |-> ZeroMetadata]
  /\ deadline = [c \in Channels |-> 0]
  /\ closeRequestedAt = [c \in Channels |-> 0]
  /\ activeChannelCount = [s \in Sellers |-> 0]
  /\ channelCount = [a \in Agents |-> 0]
  /\ ghostCount = [a \in Agents |-> 0]
  /\ totalVolumeUsdc = [a \in Agents |-> 0]
  /\ reserveAuths = [c \in Channels |-> {}]
  /\ spendingAuths = [c \in Channels |-> {}]
  /\ otherReserved = [b \in Buyers |-> 0]
  /\ otherPaid = 0

-----------------------------------------------------------------------------
(***************************************************************************)
(* The buyer signs messages off-chain.                                     *)
(***************************************************************************)
signReserveAuth(c, auth) ==
  /\ Cardinality(reserveAuths[c]) < MaxAuths
  /\ reserveAuths' = [reserveAuths EXCEPT ![c] = @ \cup {auth}]
  /\ UNCHANGED <<regVars, depVars, stakeVars, statsVars, chanVars, agentVars,
                 spendingAuths, otherVars>>

signSpendingAuth(c, auth) ==
  /\ Cardinality(spendingAuths[c]) < MaxAuths
  /\ spendingAuths' = [spendingAuths EXCEPT ![c] = @ \cup {auth}]
  /\ UNCHANGED <<regVars, depVars, stakeVars, statsVars, chanVars, agentVars,
                 reserveAuths, otherVars>>

-----------------------------------------------------------------------------
(***************************************************************************)
(* What the transactions share.                                            *)
(***************************************************************************)
(* Mutant: the fee is rounded up. *)
platformFee_Ceiling(delta) ==
  (delta * config.PLATFORM_FEE_BPS + BPS - 1) \div BPS

platformFee(delta) == (delta * config.PLATFORM_FEE_BPS) \div BPS

agentOf(c) == getAgentId(SellerOf[c])

(* Mutant: a channel that has ended can be used again. *)
isActive_NotNew(c) == status[c] # "None"

isActive(c) == status[c] = "Active"

(* Mutant: a seller's count is set when a channel opens, not incremented. *)
countOpened_One(s) == activeChannelCount' = [activeChannelCount EXCEPT ![s] = 1]

countOpened(s) == activeChannelCount' = [activeChannelCount EXCEPT ![s] = @ + 1]

(* Mutant: the count is forgotten when a channel ends. *)
countEnded_Forgotten(s) == UNCHANGED activeChannelCount

countEnded(s) == activeChannelCount' = [activeChannelCount EXCEPT ![s] = @ - 1]

(* Deposits is called only with an amount, and answers only onlyChannels.   *)
depositsAnswers(amount) == amount > 0 => onlyChannels

(* One more for the agent of channel c, if its seller has one.             *)
bump(f, c, n) == [a \in Agents |-> IF a = agentOf(c) THEN f[a] + n ELSE f[a]]

(* _syncExternalMetadata, called when the settlement charged something.     *)
syncExternalMetadata(c, delta, metadata) ==
  IF delta > 0 /\ registry.stats /\ agentOf(c) \in Agents
  THEN recordMetadata(<<agentOf(c), BuyerOf[c]>>, c, metadata)
  ELSE UNCHANGED statsVars

(***************************************************************************)
(* The SpendingAuth half of settle, topUp and close: with amount above the *)
(* settled amount a signature over (amount, metadata) is verified and the  *)
(* delta is charged; otherwise nothing is charged and no signature needed. *)
(***************************************************************************)
(* Mutant: the signature is checked for the amount, not for the metadata. *)
spendAuthorized_AnyMetadata(c, amount, metadata) ==
  amount > settled[c] =>
    \E auth \in spendingAuths[c] : auth.cumulativeAmount = amount

(* Mutant: no signature is checked. *)
spendAuthorized_Unsigned(c, amount, metadata) == TRUE

spendAuthorized(c, amount, metadata) ==
  amount > settled[c] =>
    [cumulativeAmount |-> amount, metadata |-> metadata] \in spendingAuths[c]

spendDelta(c, amount) ==
  IF amount > settled[c] THEN amount - settled[c] ELSE 0

(* Mutant: what remains locked is computed from the amount settled before. *)
unsettledAfter_Stale(c, delta) == channelDeposit[c] - settled[c]

unsettledAfter(c, delta) == channelDeposit[c] - (settled[c] + delta)

settleSpend(c, amount, metadata) ==
  /\ spendAuthorized(c, amount, metadata)
  /\ settled' = [settled EXCEPT ![c] = @ + spendDelta(c, amount)]
  /\ metadataOf' = [metadataOf EXCEPT ![c] = IF spendDelta(c, amount) > 0 THEN metadata ELSE @]
  /\ totalVolumeUsdc' = bump(totalVolumeUsdc, c, spendDelta(c, amount))
  /\ syncExternalMetadata(c, spendDelta(c, amount), metadata)

-----------------------------------------------------------------------------
(***************************************************************************)
(* The seller's transactions.                                              *)
(***************************************************************************)
reserve(c, auth) ==
  /\ ~paused
  /\ now <= auth.deadline
  /\ isStakedAboveMin(SellerOf[c])
  /\ auth.maxAmount > 0
  /\ status[c] = "None"
  /\ auth.maxAmount <= config.FIRST_SIGN_CAP
  /\ auth \in reserveAuths[c]
  /\ status' = [status EXCEPT ![c] = "Active"]
  /\ channelDeposit' = [channelDeposit EXCEPT ![c] = auth.maxAmount]
  /\ settled' = [settled EXCEPT ![c] = 0]
  /\ metadataOf' = [metadataOf EXCEPT ![c] = ZeroMetadata]
  /\ deadline' = [deadline EXCEPT ![c] = auth.deadline]
  /\ closeRequestedAt' = [closeRequestedAt EXCEPT ![c] = 0]
  /\ countOpened(SellerOf[c])
  /\ depositsAnswers(auth.maxAmount)
  /\ channelTransfer(BuyerOf[c], SellerOf[c], 0, 0, auth.maxAmount, 0)
  /\ UNCHANGED <<regVars, stakeVars, statsVars, agentVars, authVars, otherVars>>

settle(c, auth) ==
  LET delta == spendDelta(c, auth.cumulativeAmount)
  IN
  /\ ~paused
  /\ isActive(c)
  /\ auth.cumulativeAmount > settled[c]
  /\ auth.cumulativeAmount <= channelDeposit[c]
  /\ settleSpend(c, auth.cumulativeAmount, auth.metadata)
  /\ depositsAnswers(delta)
  /\ channelTransfer(BuyerOf[c], SellerOf[c], delta, platformFee(delta), 0, 0)
  /\ UNCHANGED <<status, channelDeposit, deadline, closeRequestedAt, activeChannelCount,
                 channelCount, ghostCount, regVars, stakeVars, authVars, otherVars>>

topUpThreshold(c) ==
  (channelDeposit[c] * config.TOP_UP_SETTLED_THRESHOLD_BPS) \div BPS

topUp(c, amount, metadata, auth) ==
  LET delta == spendDelta(c, amount)
  IN
  /\ ~paused
  /\ isActive(c)
  /\ closeRequestedAt[c] = 0
  /\ now <= auth.deadline
  /\ auth.maxAmount > channelDeposit[c]
  /\ delta > 0 => amount <= channelDeposit[c]
  /\ settleSpend(c, amount, metadata)
  /\ settled[c] + delta >= topUpThreshold(c)
  /\ auth \in reserveAuths[c]
  /\ channelDeposit' = [channelDeposit EXCEPT ![c] = auth.maxAmount]
  /\ deadline' = [deadline EXCEPT ![c] = auth.deadline]
  /\ depositsAnswers(auth.maxAmount - channelDeposit[c])
  /\ channelTransfer(BuyerOf[c], SellerOf[c], delta, platformFee(delta),
                     auth.maxAmount - channelDeposit[c], 0)
  /\ UNCHANGED <<status, closeRequestedAt, activeChannelCount, channelCount, ghostCount,
                 regVars, stakeVars, authVars, otherVars>>

close(c, finalAmount, metadata) ==
  LET delta == spendDelta(c, finalAmount)
      unsettled == unsettledAfter(c, delta)
  IN
  /\ ~paused
  /\ isActive(c)
  /\ finalAmount >= settled[c]
  /\ finalAmount <= channelDeposit[c]
  /\ settleSpend(c, finalAmount, metadata)
  /\ status' = [status EXCEPT ![c] = "Settled"]
  /\ countEnded(SellerOf[c])
  /\ channelCount' = bump(channelCount, c, 1)
  /\ depositsAnswers(delta + unsettled)
  /\ channelTransfer(BuyerOf[c], SellerOf[c], delta, platformFee(delta), 0, unsettled)
  /\ UNCHANGED <<channelDeposit, deadline, closeRequestedAt, ghostCount,
                 regVars, stakeVars, authVars, otherVars>>

-----------------------------------------------------------------------------
(***************************************************************************)
(* The buyer's operator: not stopped by the pause flag.                    *)
(***************************************************************************)
requireOperator(c, caller) == caller = operator[BuyerOf[c]]

requestClose(c, caller) ==
  /\ isActive(c)
  /\ requireOperator(c, caller)
  /\ closeRequestedAt[c] = 0
  /\ now + TIMEOUT_GRACE_PERIOD <= MaxTime  \* the bound leaves time for the grace period
  /\ closeRequestedAt' = [closeRequestedAt EXCEPT ![c] = now]
  /\ UNCHANGED <<status, channelDeposit, settled, metadataOf, deadline, activeChannelCount,
                 regVars, depVars, stakeVars, statsVars, agentVars, authVars, otherVars>>

(* Mutant: a paused contract does not let buyers out. *)
closeReady_NotPaused(c) ==
  /\ ~paused
  /\ closeRequestedAt[c] # 0
  /\ now >= closeRequestedAt[c] + TIMEOUT_GRACE_PERIOD

closeReady(c) ==
  /\ closeRequestedAt[c] # 0
  /\ now >= closeRequestedAt[c] + TIMEOUT_GRACE_PERIOD

(* Mutant: every timed-out channel counts as a ghost. *)
ghosted_Always(c) == TRUE

ghosted(c) == settled[c] = 0

withdrawChannel(c, caller) ==
  LET remainingReserved == unsettledAfter(c, 0)
  IN
  /\ isActive(c)
  /\ requireOperator(c, caller)
  /\ closeReady(c)
  /\ status' = [status EXCEPT ![c] = "TimedOut"]
  /\ countEnded(SellerOf[c])
  /\ IF ghosted(c)
     THEN ghostCount' = bump(ghostCount, c, 1) /\ UNCHANGED channelCount
     ELSE channelCount' = bump(channelCount, c, 1) /\ UNCHANGED ghostCount
  /\ depositsAnswers(remainingReserved)
  /\ channelTransfer(BuyerOf[c], SellerOf[c], 0, 0, 0, remainingReserved)
  /\ UNCHANGED <<channelDeposit, settled, metadataOf, deadline, closeRequestedAt,
                 totalVolumeUsdc, regVars, stakeVars, statsVars, authVars, otherVars>>

-----------------------------------------------------------------------------
(***************************************************************************)
(* The other Channels contract, while the address book names it.           *)
(***************************************************************************)
otherChannels(b, s, charge, lock, release) ==
  /\ ~onlyChannels
  /\ charge + release <= otherReserved[b]
  /\ otherPaid + charge <= MaxOtherPaid
  /\ otherReserved' = [otherReserved EXCEPT ![b] = @ - charge + lock - release]
  /\ otherPaid' = otherPaid + charge
  /\ channelTransfer(b, s, charge, platformFee(charge), lock, release)
  /\ UNCHANGED <<regVars, stakeVars, statsVars, chanVars, agentVars, authVars>>

(* unstake asks the contract the address book names; of the other one only *)
(* an answer that lets the seller go is of interest.                       *)
countOf(f, a) == IF a \in Agents THEN f[a] ELSE 0

unstakeSeller(s) ==
  /\ IF registry.channels
     THEN unstake(s, activeChannelCount[s],
                  countOf(channelCount, sellerAgentId[s]),
                  countOf(ghostCount, sellerAgentId[s]))
     ELSE \E ghosts \in 0..1 : unstake(s, 0, 1, ghosts)
  /\ UNCHANGED <<regVars, depVars, statsVars, chanVars, agentVars, authVars, otherVars>>

-----------------------------------------------------------------------------
(***************************************************************************)
(* Who may take which step.                                                *)
(***************************************************************************)
OwnerStep ==
  /\ \/ setChannels \/ setProtocolReserve \/ setSlashing \/ setStatsWriter
     \/ setParameter \/ pause \/ unpause
  /\ UNCHANGED <<depVars, stakeVars, statsVars, chanVars, agentVars, authVars, otherVars>>

TimeStep ==
  /\ Tick
  /\ UNCHANGED <<depVars, stakeVars, statsVars, chanVars, agentVars, authVars, otherVars>>

DepositsStep ==
  /\ \E b \in Buyers :
       \/ \E amount \in DepositAmounts : deposit(b, amount)
       \/ \E caller \in Operators, amount \in DepositAmounts :
            withdrawDeposit(b, caller, amount)
       \/ \E o \in Operators, nonce \in 0..MaxNonce : signSetOperator(b, o, nonce)
       \/ \E auth \in operatorAuths[b] : setOperator(b, auth)
       \/ \E caller \in Operators, o \in Operators \cup {NoAddress} :
            transferOperator(b, caller, o)
       \/ \E limit \in CreditLimits \cup {0} : setCreditLimitOverride(b, limit)
  /\ UNCHANGED <<regVars, stakeVars, statsVars, chanVars, agentVars, authVars, otherVars>>

StakingStep ==
  /\ \/ \E s \in Sellers, a \in Agents, amount \in StakeAmounts : stakeFor(s, a, amount)
     \/ \E a \in Agents, s \in Sellers : transferAgent(a, s)
  /\ UNCHANGED <<regVars, depVars, statsVars, chanVars, agentVars, authVars, otherVars>>

SignStep(c) ==
  \/ \E auth \in ReserveAuth : signReserveAuth(c, auth)
  \/ \E auth \in SpendingAuth : signSpendingAuth(c, auth)

SellerStep(c) ==
  \/ \E auth \in reserveAuths[c] : reserve(c, auth)
  \/ \E auth \in spendingAuths[c] : settle(c, auth)
  \/ \E amount \in SignedAmounts \cup {0}, metadata \in Metadata,
        auth \in reserveAuths[c] : topUp(c, amount, metadata, auth)
  \/ \E finalAmount \in SignedAmounts \cup {settled[c]}, metadata \in Metadata :
        close(c, finalAmount, metadata)

OperatorStep(c) ==
  \E caller \in Operators : requestClose(c, caller) \/ withdrawChannel(c, caller)

OtherChannelsStep ==
  \E b \in Buyers, s \in Sellers, amount \in OtherAmounts :
    \/ otherChannels(b, s, amount, 0, 0)
    \/ otherChannels(b, s, 0, amount, 0)
    \/ otherChannels(b, s, 0, 0, amount)

Next ==
  \/ OwnerStep \/ TimeStep
  \/ DepositsStep \/ StakingStep \/ OtherChannelsStep
  \/ \E s \in Sellers : unstakeSeller(s)
  \/ \E c \in Channels : SignStep(c) \/ SellerStep(c) \/ OperatorStep(c)

Spec == Init /\ [][Next]_vars

(***************************************************************************)
(* Fairness.  Blocks keep coming, and an operator who has requested a      *)
(* close withdraws once the contract lets it: both are assumptions on the  *)
(* surroundings, no transaction of anybody else is assumed to be sent.     *)
(***************************************************************************)
Fairness ==
  /\ WF_vars(TimeStep)
  /\ \A c \in Channels : WF_vars(\E caller \in Operators : withdrawChannel(c, caller))

LiveSpec == Spec /\ Fairness

-----------------------------------------------------------------------------
(***************************************************************************)
(* Properties.                                                             *)
(***************************************************************************)

(* What channel c still has locked in Deposits. *)
lockedFor(c) == IF status[c] = "Active" THEN channelDeposit[c] - settled[c] ELSE 0

lockedOf(b) == [c \in Channels |-> IF BuyerOf[c] = b THEN lockedFor(c) ELSE 0]

(* Deposits keeps one reserved total per buyer and no record per channel.  *)
(* It is at all times the sum of what the buyer's active channels have not *)
(* settled (and of the other contract's locks), although settle, topUp,    *)
(* close and withdraw of several channels change it in any order.          *)
ReservedBacksChannels ==
  \A b \in Buyers : reserved[b] = Sum(lockedOf(b), NumChannels) + otherReserved[b]

(* The custody contract can pay: no buyer has more locked than deposited,  *)
(* and the USDC it owns is the sum of the buyers' balances.                *)
Solvent ==
  /\ \A b \in Buyers : reserved[b] <= balance[b]
  /\ held = Sum(balance, NumBuyers)

(* A settlement up to the deposit of an active channel never fails for     *)
(* lack of funds: none of the checked subtractions and transfers of        *)
(* chargeAndCreditPayouts and releaseLock can revert, whatever the buyer,  *)
(* its operator and its other channels have done.                          *)
SettlementFunded ==
  \A c \in Channels : status[c] = "Active" =>
    /\ settled[c] <= channelDeposit[c]
    /\ lockedFor(c) <= reserved[BuyerOf[c]]
    /\ lockedFor(c) <= balance[BuyerOf[c]]
    /\ lockedFor(c) <= held

(* A buyer never pays or locks what it did not sign: the settled amount    *)
(* and the metadata of a channel come from one SpendingAuth, its deposit   *)
(* and deadline from one ReserveAuth of that channel.                      *)
PaidOnlyWhatWasSigned ==
  \A c \in Channels :
    /\ settled[c] > 0 =>
         [cumulativeAmount |-> settled[c], metadata |-> metadataOf[c]] \in spendingAuths[c]
    /\ status[c] # "None" =>
         [maxAmount |-> channelDeposit[c], deadline |-> deadline[c]] \in reserveAuths[c]

settledTotal == Sum(settled, NumChannels)

(* Every unit charged to a buyer reaches a seller or the protocol reserve, *)
(* whether or not the reserve was set when it was charged.                 *)
PayoutsConserved == Sum(earned, NumSellers) + fees = settledTotal + otherPaid

(* However the owner moves the fee and however a seller splits a payment   *)
(* into settlements, the protocol never takes more than the maximal share. *)
FeeBounded == fees * BPS <= MAX_PLATFORM_FEE_BPS * (settledTotal + otherPaid)

activeOf(s) ==
  [c \in Channels |-> IF SellerOf[c] = s /\ status[c] = "Active" THEN 1 ELSE 0]

(* activeChannelCount, which guards unstake, is the number of the seller's *)
(* active channels.                                                        *)
ActiveCountExact ==
  \A s \in Sellers :
    activeChannelCount[s] = Sum(activeOf(s), NumChannels)

(* A seller takes its stake back only when it serves no channel (as long   *)
(* as the address book names this Channels contract).                      *)
StakeStaysWhileServing ==
  [][ \A s \in Sellers :
        stake'[s] < stake[s] /\ registry.channels =>
          \A c \in Channels : SellerOf[c] = s => status[c] # "Active" ]_vars

(* A SetOperator signature installs an operator at most once: for every    *)
(* time an operator was installed the buyer has signed a message of its    *)
(* own, even though transferOperator may clear the operator again.         *)
OperatorInstallsSigned ==
  \A b \in Buyers : \A n \in 0..operatorNonce[b]-1 :
    \E auth \in operatorAuths[b] : auth.nonce = n

(* Whatever happens to the identity tokens, an agent backs the stake of at *)
(* most one seller, the two maps agree, only a bound seller has a stake,   *)
(* and the staking contract owns exactly the stakes.                       *)
StakeBoundToAgent ==
  /\ \A s \in Sellers, a \in Agents : sellerAgentId[s] = a <=> agentSeller[a] = s
  /\ \A s \in Sellers : stake[s] > 0 <=> sellerAgentId[s] # NoAddress
  /\ stakeHeld = Sum(stake, NumSellers)

(* The usage totals of a buyer are the sum of the last metadata recorded   *)
(* for its channels: nothing is counted twice when metadata repeats, goes  *)
(* back, or the seller binds another agent between two settlements.        *)
UsageMatchesSnapshots ==
  \A b \in Buyers, f \in Counter :
    Sum([a \in Agents |-> usage[<<a, b>>][f]], NumAgents)
      = Sum([c \in Channels |-> IF BuyerOf[c] = b THEN snapshot[c][f] ELSE 0], NumChannels)

(* Reputation is earned: the volume, the channels and the ghosts of all    *)
(* agents never exceed what was settled, ended, and ended unpaid.          *)
ReputationEarned ==
  LET ended == {c \in Channels : status[c] \in {"Settled", "TimedOut"}}
      unpaid == {c \in ended : status[c] = "TimedOut" /\ settled[c] = 0}
      ghosts == Sum(ghostCount, NumAgents)
  IN  /\ Sum(totalVolumeUsdc, NumAgents) <= settledTotal
      /\ ghosts <= Cardinality(unpaid)
      /\ Sum(channelCount, NumAgents) + ghosts <= Cardinality(ended)

(* A channel only moves forward: its status never goes back, what is       *)
(* settled and deposited never shrinks, a requested close is not           *)
(* withdrawn, and nothing is locked any more once a close is requested.    *)
ChannelsMoveForward ==
  [][ \A c \in Channels :
        /\ status[c] # "None" => status'[c] # "None"
        /\ status[c] \in {"Settled", "TimedOut"} =>
             <<status[c], channelDeposit[c], settled[c]>>'
               = <<status[c], channelDeposit[c], settled[c]>>
        /\ settled'[c] >= settled[c]
        /\ channelDeposit'[c] >= channelDeposit[c]
        /\ closeRequestedAt[c] # 0 =>
             /\ closeRequestedAt'[c] = closeRequestedAt[c]
             /\ channelDeposit'[c] = channelDeposit[c] ]_vars

(* A requested close is completed, also by a seller that stays silent and  *)
(* while the contract is paused, as long as the buyer has an operator and  *)
(* the address book keeps naming this Channels contract.                   *)
RequestedCloseCompletes ==
  \A c \in Channels :
    (/\ status[c] = "Active" /\ closeRequestedAt[c] # 0
     /\ [](operator[BuyerOf[c]] # NoAddress /\ registry.channels))
      ~> status[c] # "Active"

SettledWithinDeposit == \A c \in Channels : settled[c] <= channelDeposit[c]

(* The inductive invariant behind the money properties.  None of its parts *)
(* is inductive alone: a release is a natural number only because settled  *)
(* stays within the deposit, it fits into reserved only because reserved   *)
(* backs the channels, and a count or a stake can be taken out only        *)
(* because it is exact.                                                    *)
AccountsInv ==
  /\ TypeOK
  /\ SettledWithinDeposit
  /\ ReservedBacksChannels
  /\ Solvent
  /\ ActiveCountExact
  /\ StakeBoundToAgent

(***************************************************************************)
(* The contracts implement the escrow ledger.                              *)
(***************************************************************************)
phaseOf(c) == CASE status[c] = "None"   -> "unused"
                [] status[c] = "Active" -> "open"
                [] OTHER -> "closed"

Ledger == INSTANCE EscrowLedger WITH
  available  <- [b \in Buyers |-> balance[b] - reserved[b]],
  escrow     <- [c \in Channels |-> lockedFor(c)],
  paid       <- settled,
  authorised <- [c \in Channels |-> {auth.cumulativeAmount : auth \in spendingAuths[c]}],
  phase      <- [c \in Channels |-> phaseOf(c)]

(* Every step of the contracts is a step of the escrow ledger or leaves it *)
(* alone: one reserved total per buyer is as good as one escrow per        *)
(* channel, and money moves only as the ledger lets it.                    *)
ImplementsLedger == Ledger!LedgerSpec
=============================================================================
