------------------------ MODULE AntseedChannelsProofs ------------------------
(***************************************************************************)
(* Proofs about AntseedChannels, for every number of buyers, sellers,      *)
(* agents and channels, every set of amounts and every setting of the      *)
(* owner's parameters.                                                     *)
(***************************************************************************)
EXTENDS AntseedChannels, SumTheorems

USE DEF Buyers, Sellers, Agents, Channels

(* The assumptions on the constants, in one place. *)
LEMMA ConstantsOK ==
  /\ NumBuyers \in Nat /\ NumSellers \in Nat /\ NumAgents \in Nat /\ NumChannels \in Nat
  /\ BuyerOf \in [Channels -> Buyers] /\ SellerOf \in [Channels -> Sellers]
  /\ SignedAmounts \subseteq Nat /\ Deadlines \subseteq Nat
  /\ Configs \subseteq Config
BY RegistryAssumption, ChannelsAssumption

(* A fee is a natural number no larger than the amount it is taken from. *)
LEMMA PlatformFeeBounded ==
  ASSUME TypeOK, NEW delta \in Nat
  PROVE  platformFee(delta) \in Nat /\ platformFee(delta) <= delta
<1>1. config.PLATFORM_FEE_BPS \in 0..10000
  <2>1. config \in Config
    BY RegistryAssumption DEF TypeOK, RegTypeOK
  <2> QED BY <2>1 DEF Config, BPS
<1> DEFINE p == config.PLATFORM_FEE_BPS
           x == delta * p
<1> HIDE DEF p, x
<1>2. p \in 0..10000
  BY <1>1 DEF p
<1>3. x \in Nat /\ x <= delta * 10000
  <2>1. \A d \in Nat, q \in 0..10000 : d * q \in Nat /\ d * q <= d * 10000
    OBVIOUS
  <2> QED BY <1>2, <2>1 DEF x
<1>4. x \div 10000 \in Nat /\ x \div 10000 <= delta
  BY <1>3
<1> QED BY <1>4 DEF platformFee, BPS, x, p

(* The onlyChannels calls keep the accounts of Deposits well typed. *)
LEMMA TransferType ==
  ASSUME TypeOK, NEW b \in Buyers, NEW s \in Sellers, NEW charge \in Nat,
         NEW fee \in Nat, NEW lock \in Nat, NEW release \in Nat,
         channelTransfer(b, s, charge, fee, lock, release)
  PROVE  DepTypeOK'
<1>1. platformFeeDue(fee) \in Nat /\ sellerPayout(charge, fee) \in Nat
  BY DEF channelTransfer, platformFeeDue, sellerPayout
<1>2. now \in Nat
  BY DEF TypeOK, RegTypeOK
<1>3. balance' \in [Buyers -> Nat] /\ held' \in Nat
  <2>1. /\ balance \in [Buyers -> Nat] /\ held \in Nat
        /\ balance[b] >= charge /\ held >= charge
        /\ balance' = [balance EXCEPT ![b] = balance[b] - charge]
        /\ held' = held - charge
    BY DEF TypeOK, DepTypeOK, channelTransfer
  <2> QED BY <2>1
<1>4. reserved' \in [Buyers -> Nat]
  <2>1. /\ reserved \in [Buyers -> Nat]
        /\ reserved[b] >= charge + release
        /\ reserved' = [reserved EXCEPT ![b] = reserved[b] - charge + lock - release]
    BY DEF TypeOK, DepTypeOK, channelTransfer
  <2>2. reserved[b] - charge + lock - release \in Nat
    BY <2>1
  <2> QED BY <2>1, <2>2
<1>5. earned' \in [Sellers -> Nat] /\ fees' \in Nat
  <2>1. /\ earned \in [Sellers -> Nat] /\ fees \in Nat
        /\ earned' = [earned EXCEPT ![s] = earned[s] + sellerPayout(charge, fee)]
        /\ fees' = fees + platformFeeDue(fee)
    BY DEF TypeOK, DepTypeOK, channelTransfer
  <2>2. earned[s] + sellerPayout(charge, fee) \in Nat
    BY <1>1, <2>1
  <2> QED BY <1>1, <2>1, <2>2
<1>6. firstChannelAt' \in [Buyers -> Nat]
  BY <1>2 DEF TypeOK, DepTypeOK, channelTransfer
<1>7. charged' \in SUBSET (Buyers \X Sellers)
  <2>1. /\ charged \in SUBSET (Buyers \X Sellers)
        /\ charged' = IF charge > 0 THEN charged \cup {<<b, s>>} ELSE charged
    BY DEF TypeOK, DepTypeOK, channelTransfer
  <2> QED BY <2>1
<1>8. UNCHANGED <<operator, operatorNonce, override, operatorAuths>>
  BY DEF channelTransfer
<1> QED BY <1>3, <1>4, <1>5, <1>6, <1>7, <1>8 DEF TypeOK, DepTypeOK

(* Recording metadata keeps the usage totals well typed. *)
LEMMA RecordType ==
  ASSUME TypeOK, NEW c \in Channels, NEW delta, NEW m \in Metadata,
         syncExternalMetadata(c, delta, m)
  PROVE  StatsTypeOK'
<1>1. CASE UNCHANGED statsVars
  BY <1>1 DEF TypeOK, StatsTypeOK, statsVars
<1>2. CASE /\ agentOf(c) \in Agents
           /\ metadataGrows(c, m)
           /\ recordMetadata(<<agentOf(c), BuyerOf[c]>>, c, m)
  <2>1. m \in [Counter -> Nat] /\ snapshot[c] \in [Counter -> Nat]
    BY StatsAssumption DEF TypeOK, StatsTypeOK
  <2>2. \A f \in Counter : metadataDelta(c, m)[f] \in Nat
    BY <1>2, <2>1 DEF metadataGrows, metadataDelta
  <2>3. <<agentOf(c), BuyerOf[c]>> \in Agents \X Buyers
    BY <1>2, ConstantsOK
  <2> DEFINE k == <<agentOf(c), BuyerOf[c]>>
  <2>4. usage \in [Agents \X Buyers -> [Counter -> Nat]]
    BY DEF TypeOK, StatsTypeOK
  <2>5. /\ snapshot' = [snapshot EXCEPT ![c] = m]
        /\ usage' = [usage EXCEPT ![k] =
                      [f \in Counter |-> usage[k][f] + metadataDelta(c, m)[f]]]
    BY <1>2 DEF recordMetadata
  <2> HIDE DEF k
  <2>6. [f \in Counter |-> usage[k][f] + metadataDelta(c, m)[f]] \in [Counter -> Nat]
    BY <2>2, <2>3, <2>4 DEF k
  <2>7. usage' \in [Agents \X Buyers -> [Counter -> Nat]]
    BY <2>4, <2>5, <2>6
  <2>8. snapshot' \in [Channels -> [Counter -> Nat]]
    BY <2>1, <2>5 DEF TypeOK, StatsTypeOK
  <2> QED BY <2>7, <2>8 DEF StatsTypeOK
<1> QED BY <1>1, <1>2 DEF syncExternalMetadata, recordMetadata

(* Counting for the agent of a channel keeps a statistic well typed. *)
LEMMA BumpType ==
  ASSUME NEW f \in [Agents -> Nat], NEW c, NEW n \in Nat
  PROVE  bump(f, c, n) \in [Agents -> Nat]
BY DEF bump

(* What _settleSpend changes. *)
LEMMA SettleSpendType ==
  ASSUME TypeOK, NEW c \in Channels, NEW amount \in Nat, NEW m \in Metadata,
         settleSpend(c, amount, m)
  PROVE  /\ spendDelta(c, amount) \in Nat
         /\ settled' \in [Channels -> Nat]
         /\ metadataOf' \in [Channels -> Metadata \cup {ZeroMetadata}]
         /\ totalVolumeUsdc' \in [Agents -> Nat]
         /\ StatsTypeOK'
<1>1. spendDelta(c, amount) \in Nat
  BY DEF TypeOK, spendDelta
<1> DEFINE delta == spendDelta(c, amount)
<1> HIDE DEF delta
<1>2. settled' \in [Channels -> Nat]
  BY <1>1 DEF TypeOK, settleSpend
<1>3. metadataOf' \in [Channels -> Metadata \cup {ZeroMetadata}]
  BY DEF TypeOK, settleSpend
<1>4. totalVolumeUsdc' \in [Agents -> Nat]
  BY <1>1, BumpType DEF TypeOK, settleSpend
<1>5. StatsTypeOK'
  BY RecordType DEF settleSpend
<1> QED BY <1>1, <1>2, <1>3, <1>4, <1>5

(* deposit, withdraw and the operator calls keep the accounts well typed. *)
LEMMA DepositsStepType ==
  ASSUME TypeOK, DepositsStep
  PROVE  DepTypeOK'
<1> USE DEF TypeOK, DepTypeOK
<1>1. PICK b \in Buyers :
        \/ \E amount \in DepositAmounts : deposit(b, amount)
        \/ \E caller \in Operators, amount \in DepositAmounts :
             withdrawDeposit(b, caller, amount)
        \/ \E o \in Operators, nonce \in 0..MaxNonce : signSetOperator(b, o, nonce)
        \/ \E auth \in operatorAuths[b] : setOperator(b, auth)
        \/ \E caller \in Operators, o \in Operators \cup {NoAddress} :
             transferOperator(b, caller, o)
        \/ \E limit \in CreditLimits \cup {0} : setCreditLimitOverride(b, limit)
  BY DEF DepositsStep
<1>2. ASSUME NEW amount \in DepositAmounts, deposit(b, amount) PROVE DepTypeOK'
  <2>1. amount \in Nat
    BY DepositsAssumption
  <2>2. balance' \in [Buyers -> Nat] /\ held' \in Nat
    BY <1>2, <2>1 DEF deposit
  <2> QED BY <1>2, <2>2 DEF deposit
<1>3. ASSUME NEW caller \in Operators, NEW amount \in DepositAmounts,
             withdrawDeposit(b, caller, amount)
      PROVE  DepTypeOK'
  <2>1. amount \in Nat
    BY DepositsAssumption
  <2>2. balance[b] - amount \in Nat /\ held - amount \in Nat
    BY <1>3, <2>1 DEF withdrawDeposit, availableBalance
  <2>3. balance' \in [Buyers -> Nat] /\ held' \in Nat
    BY <1>3, <2>2 DEF withdrawDeposit
  <2> QED BY <1>3, <2>3 DEF withdrawDeposit
<1>4. ASSUME NEW o \in Operators, NEW nonce \in 0..MaxNonce, signSetOperator(b, o, nonce)
      PROVE  DepTypeOK'
  <2>1. [operator |-> o, nonce |-> nonce] \in OperatorAuth
    BY DEF OperatorAuth
  <2>2. operatorAuths' \in [Buyers -> SUBSET OperatorAuth]
    BY <1>4, <2>1 DEF signSetOperator
  <2> QED BY <1>4, <2>2 DEF signSetOperator
<1>5. ASSUME NEW auth \in operatorAuths[b], setOperator(b, auth) PROVE DepTypeOK'
  <2>1. auth.operator \in Operators
    BY DEF OperatorAuth
  <2>2. operator' \in [Buyers -> Operators \cup {NoAddress}]
    BY <1>5, <2>1 DEF setOperator
  <2>3. operatorNonce' \in [Buyers -> Nat]
    <3>1. /\ operatorNonce \in [Buyers -> Nat]
          /\ operatorNonce' = [operatorNonce EXCEPT ![b] = operatorNonce[b] + 1]
      BY <1>5 DEF setOperator
    <3> QED BY <3>1
  <2> QED BY <1>5, <2>2, <2>3 DEF setOperator
<1>6. ASSUME NEW caller \in Operators, NEW o \in Operators \cup {NoAddress},
             transferOperator(b, caller, o)
      PROVE  DepTypeOK'
  BY <1>6 DEF transferOperator
<1>7. ASSUME NEW limit \in CreditLimits \cup {0}, setCreditLimitOverride(b, limit)
      PROVE  DepTypeOK'
  BY <1>7 DEF setCreditLimitOverride
<1> QED BY <1>1, <1>2, <1>3, <1>4, <1>5, <1>6, <1>7

(* stake, unstake and the token transfers keep the stakes well typed.  An  *)
(* unstaking seller owns what it takes out: the contract holds each stake. *)
LEMMA StakingType ==
  ASSUME TypeOK, StakeBoundToAgent,
         StakingStep \/ \E s \in Sellers : unstakeSeller(s)
  PROVE  StakeTypeOK'
<1> USE DEF TypeOK, StakeTypeOK
<1>1. ASSUME NEW s \in Sellers, NEW a \in Agents, NEW amount \in StakeAmounts,
             stakeFor(s, a, amount)
      PROVE  StakeTypeOK'
  <2>1. amount \in Nat
    BY StakingAssumption
  <2> QED BY <1>1, <2>1 DEF stakeFor
<1>2. ASSUME NEW a \in Agents, NEW s \in Sellers, transferAgent(a, s)
      PROVE  StakeTypeOK'
  BY <1>2 DEF transferAgent
<1>3. ASSUME NEW s \in Sellers, NEW n, NEW k, NEW g, unstake(s, n, k, g)
      PROVE  StakeTypeOK'
  <2>1. stakeHeld - stake[s] \in Nat
    <3>1. stake[s] <= Sum(stake, NumSellers)
      BY ConstantsOK, SumMember
    <3> QED BY <3>1 DEF StakeBoundToAgent
  <2>2. stakeHeld' \in Nat /\ stake' \in [Sellers -> Nat]
    BY <1>3, <2>1 DEF unstake
  <2>3. sellerAgentId' \in [Sellers -> Agents \cup {NoAddress}]
    BY <1>3 DEF unstake
  <2>4. agentSeller' \in [Agents -> Sellers \cup {NoAddress}]
    BY <1>3 DEF unstake
  <2> QED BY <1>3, <2>2, <2>3, <2>4 DEF unstake
<1> QED BY <1>1, <1>2, <1>3 DEF StakingStep, unstakeSeller

(***************************************************************************)
(* How the totals follow one change.                                       *)
(***************************************************************************)

(* The onlyChannels calls leave the custody contract able to pay. *)
LEMMA TransferSolvent ==
  ASSUME TypeOK, Solvent, NEW b \in Buyers, NEW s \in Sellers, NEW charge \in Nat,
         NEW fee \in Nat, NEW lock \in Nat, NEW release \in Nat,
         channelTransfer(b, s, charge, fee, lock, release)
  PROVE  Solvent'
<1>1. /\ balance \in [Buyers -> Nat] /\ reserved \in [Buyers -> Nat] /\ held \in Nat
      /\ lock <= balance[b] - reserved[b]
      /\ balance' = [balance EXCEPT ![b] = balance[b] - charge]
      /\ reserved' = [reserved EXCEPT ![b] = reserved[b] - charge + lock - release]
      /\ held' = held - charge
  BY DEF TypeOK, DepTypeOK, channelTransfer, availableBalance
<1>2. ASSUME NEW x \in Buyers PROVE reserved'[x] <= balance'[x]
  <2>1. reserved[x] <= balance[x] /\ reserved[x] \in Nat /\ balance[x] \in Nat
    BY <1>1 DEF Solvent
  <2>2. CASE x = b
    BY <1>1, <2>1, <2>2
  <2>3. CASE x # b
    BY <1>1, <2>1, <2>3
  <2> QED BY <2>2, <2>3
<1>3. held' = Sum(balance', NumBuyers)
  <2>1. balance \in [1..NumBuyers -> Int] /\ balance' \in [1..NumBuyers -> Int]
    BY <1>1
  <2> NumBuyers \in Nat
    BY ConstantsOK
  <2> \A x \in 1..NumBuyers : x # b => balance'[x] = balance[x]
    BY <1>1
  <2>2. Sum(balance', NumBuyers) = Sum(balance, NumBuyers) + balance'[b] - balance[b]
    BY <2>1, SumUpdate
  <2>3. balance'[b] = balance[b] - charge /\ balance[b] \in Nat
    BY <1>1
  <2>4. held = Sum(balance, NumBuyers)
    BY DEF Solvent
  <2>5. Sum(balance, NumBuyers) \in Int
    BY <1>1, <2>4
  <2> QED BY <1>1, <2>2, <2>3, <2>4, <2>5
<1> QED BY <1>2, <1>3 DEF Solvent

(* If only channel c changes, and its buyer's reserved total moves by as   *)
(* much as the channel's own lock, then reserved still backs all channels. *)
LEMMA LockFollowsChannel ==
  ASSUME TypeOK, TypeOK', ReservedBacksChannels, NEW c \in Channels,
         otherReserved' = otherReserved,
         \A x \in Channels : x # c => lockedFor(x)' = lockedFor(x),
         reserved' = [reserved EXCEPT ![BuyerOf[c]] =
                        reserved[BuyerOf[c]] + lockedFor(c)' - lockedFor(c)]
  PROVE  ReservedBacksChannels'
<1>1. SUFFICES ASSUME NEW b \in Buyers
               PROVE  reserved'[b] = Sum(lockedOf(b)', NumChannels) + otherReserved[b]
  BY DEF ReservedBacksChannels
<1>2. BuyerOf[c] \in Buyers /\ NumChannels \in Nat
  BY ConstantsOK
<1>3. \A x \in Channels : lockedFor(x) \in Int /\ lockedFor(x)' \in Int
  <2>1. /\ channelDeposit \in [Channels -> Nat] /\ settled \in [Channels -> Nat]
        /\ channelDeposit' \in [Channels -> Nat] /\ settled' \in [Channels -> Nat]
    BY DEF TypeOK
  <2> QED BY <2>1 DEF lockedFor
<1>4. lockedOf(b) \in [1..NumChannels -> Int] /\ lockedOf(b)' \in [1..NumChannels -> Int]
  BY <1>3 DEF lockedOf
<1>5. \A x \in 1..NumChannels : x # c => lockedOf(b)'[x] = lockedOf(b)[x]
  BY DEF lockedOf
<1>6. Sum(lockedOf(b)', NumChannels)
        = Sum(lockedOf(b), NumChannels) + lockedOf(b)'[c] - lockedOf(b)[c]
  BY <1>2, <1>4, <1>5, SumUpdate
<1>7. reserved[b] = Sum(lockedOf(b), NumChannels) + otherReserved[b]
  BY DEF ReservedBacksChannels
<1>8. reserved \in [Buyers -> Nat] /\ otherReserved[b] \in Nat
  BY DEF TypeOK, DepTypeOK
<1>9. Sum(lockedOf(b), NumChannels) \in Int
  BY <1>2, <1>4, SumInt
<1>10. CASE b = BuyerOf[c]
  <2>1. lockedOf(b)'[c] = lockedFor(c)' /\ lockedOf(b)[c] = lockedFor(c)
    BY <1>10 DEF lockedOf
  <2>2. reserved'[b] = reserved[b] + lockedFor(c)' - lockedFor(c)
    BY <1>8, <1>10
  <2> QED BY <1>3, <1>6, <1>7, <1>8, <1>9, <2>1, <2>2
<1>11. CASE b # BuyerOf[c]
  <2>1. lockedOf(b)'[c] = 0 /\ lockedOf(b)[c] = 0
    BY <1>11 DEF lockedOf
  <2>2. reserved'[b] = reserved[b]
    BY <1>8, <1>11
  <2> QED BY <1>6, <1>7, <1>8, <1>9, <2>1, <2>2
<1> QED BY <1>10, <1>11

(* If nothing a lock depends on changes, reserved still backs all channels. *)
LEMMA LockUnchanged ==
  ASSUME ReservedBacksChannels,
         UNCHANGED <<status, channelDeposit, settled, reserved, otherReserved>>
  PROVE  ReservedBacksChannels'
<1>1. \A b \in Buyers : lockedOf(b)' = lockedOf(b)
  BY DEF lockedOf, lockedFor
<1> QED BY <1>1 DEF ReservedBacksChannels

activeFlag(c) == IF status[c] = "Active" THEN 1 ELSE 0

(* The count of a seller follows the status of its channels. *)
LEMMA CountFollowsChannel ==
  ASSUME TypeOK, ActiveCountExact, NEW c \in Channels,
         \A x \in Channels : x # c => status'[x] = status[x],
         activeChannelCount' = [activeChannelCount EXCEPT ![SellerOf[c]] =
                        activeChannelCount[SellerOf[c]] + activeFlag(c)' - activeFlag(c)]
  PROVE  ActiveCountExact'
<1>1. SUFFICES ASSUME NEW s \in Sellers
               PROVE  activeChannelCount'[s] = Sum(activeOf(s)', NumChannels)
  BY DEF ActiveCountExact
<1>2. SellerOf[c] \in Sellers /\ NumChannels \in Nat
  BY ConstantsOK
<1>3. activeOf(s) \in [1..NumChannels -> Int] /\ activeOf(s)' \in [1..NumChannels -> Int]
  BY DEF activeOf
<1>4. \A x \in 1..NumChannels : x # c => activeOf(s)'[x] = activeOf(s)[x]
  BY DEF activeOf
<1>5. Sum(activeOf(s)', NumChannels)
        = Sum(activeOf(s), NumChannels) + activeOf(s)'[c] - activeOf(s)[c]
  BY <1>2, <1>3, <1>4, SumUpdate
<1>6. activeChannelCount[s] = Sum(activeOf(s), NumChannels)
  BY DEF ActiveCountExact
<1>7. activeChannelCount \in [Sellers -> Nat]
  BY DEF TypeOK
<1>8. Sum(activeOf(s), NumChannels) \in Int
  BY <1>2, <1>3, SumInt
<1>9. CASE s = SellerOf[c]
  <2>1. activeOf(s)'[c] = activeFlag(c)' /\ activeOf(s)[c] = activeFlag(c)
    BY <1>9 DEF activeOf, activeFlag
  <2>2. activeChannelCount'[s] = activeChannelCount[s] + activeFlag(c)' - activeFlag(c)
    BY <1>7, <1>9
  <2>3. activeFlag(c) \in Int /\ activeFlag(c)' \in Int
    BY DEF activeFlag
  <2> QED BY <1>5, <1>6, <1>7, <1>8, <2>1, <2>2, <2>3
<1>10. CASE s # SellerOf[c]
  <2>1. activeOf(s)'[c] = 0 /\ activeOf(s)[c] = 0
    BY <1>10 DEF activeOf
  <2>2. activeChannelCount'[s] = activeChannelCount[s]
    BY <1>7, <1>10
  <2> QED BY <1>5, <1>6, <1>7, <1>8, <2>1, <2>2
<1> QED BY <1>9, <1>10

(* The seller of an active channel has a count to take one from. *)
LEMMA CountPositive ==
  ASSUME TypeOK, ActiveCountExact, NEW c \in Channels, status[c] = "Active"
  PROVE  activeChannelCount[SellerOf[c]] - 1 \in Nat
<1> DEFINE s == SellerOf[c]
<1>1. s \in Sellers /\ NumChannels \in Nat
  BY ConstantsOK
<1>2. activeOf(s) \in [1..NumChannels -> Nat] /\ activeOf(s)[c] = 1
  BY DEF activeOf
<1>3. 1 <= Sum(activeOf(s), NumChannels)
  BY <1>1, <1>2, SumMember
<1>4. activeChannelCount[s] \in Nat /\ activeChannelCount[s] = Sum(activeOf(s), NumChannels)
  BY <1>1 DEF TypeOK, ActiveCountExact
<1> QED BY <1>3, <1>4

(***************************************************************************)
(* A transaction on channel c that charges, locks and releases as much as  *)
(* it changes the channel's own lock by preserves the inductive invariant. *)
(***************************************************************************)
LEMMA ChannelStep ==
  ASSUME AccountsInv, TypeOK', NEW c \in Channels,
         NEW charge \in Nat, NEW lock \in Nat, NEW release \in Nat, NEW fee \in Nat,
         channelTransfer(BuyerOf[c], SellerOf[c], charge, fee, lock, release),
         UNCHANGED <<stakeVars, otherReserved>>,
         \A x \in Channels : x # c =>
           /\ status'[x] = status[x]
           /\ channelDeposit'[x] = channelDeposit[x]
           /\ settled'[x] = settled[x],
         lockedFor(c)' = lockedFor(c) - charge + lock - release,
         settled'[c] <= channelDeposit'[c],
         activeChannelCount' = [activeChannelCount EXCEPT ![SellerOf[c]] =
                        activeChannelCount[SellerOf[c]] + activeFlag(c)' - activeFlag(c)]
  PROVE  AccountsInv'
<1> USE DEF AccountsInv
<1>1. BuyerOf[c] \in Buyers /\ SellerOf[c] \in Sellers
  BY ConstantsOK
<1>2. SettledWithinDeposit'
  BY DEF SettledWithinDeposit
<1>3. Solvent'
  BY <1>1, TransferSolvent
<1>4. ActiveCountExact'
  BY CountFollowsChannel
<1>5. StakeBoundToAgent'
  BY DEF StakeBoundToAgent, stakeVars
<1>6. ReservedBacksChannels'
  <2>1. \A x \in Channels : x # c => lockedFor(x)' = lockedFor(x)
    BY DEF lockedFor
  <2>2. /\ reserved \in [Buyers -> Nat]
        /\ reserved' = [reserved EXCEPT ![BuyerOf[c]] =
                          reserved[BuyerOf[c]] - charge + lock - release]
    BY DEF TypeOK, DepTypeOK, channelTransfer
  <2>3. lockedFor(c) \in Int
    <3>1. channelDeposit[c] \in Nat /\ settled[c] \in Nat
      BY DEF TypeOK
    <3> QED BY <3>1 DEF lockedFor
  <2>4. reserved[BuyerOf[c]] - charge + lock - release
          = reserved[BuyerOf[c]] + lockedFor(c)' - lockedFor(c)
    BY <1>1, <2>2, <2>3
  <2>5. reserved' = [reserved EXCEPT ![BuyerOf[c]] =
                       reserved[BuyerOf[c]] + lockedFor(c)' - lockedFor(c)]
    BY <2>2, <2>4
  <2> QED BY <2>1, <2>5, LockFollowsChannel
<1> QED BY <1>2, <1>3, <1>4, <1>5, <1>6

(* reserve preserves the inductive invariant. *)
LEMMA ReserveInv ==
  ASSUME AccountsInv, NEW c \in Channels, NEW auth \in reserveAuths[c], reserve(c, auth)
  PROVE  AccountsInv'
<1> DEFINE max == auth.maxAmount
<1>1. max \in Nat /\ auth.deadline \in Nat
  <2>1. auth \in ReserveAuth
    BY DEF AccountsInv, TypeOK
  <2> QED BY <2>1, ConstantsOK DEF ReserveAuth
<1>2. BuyerOf[c] \in Buyers /\ SellerOf[c] \in Sellers
  BY ConstantsOK
<1>3. channelTransfer(BuyerOf[c], SellerOf[c], 0, 0, max, 0)
  BY DEF reserve
<1>4. /\ status' = [status EXCEPT ![c] = "Active"]
      /\ channelDeposit' = [channelDeposit EXCEPT ![c] = max]
      /\ settled' = [settled EXCEPT ![c] = 0]
      /\ metadataOf' = [metadataOf EXCEPT ![c] = ZeroMetadata]
      /\ deadline' = [deadline EXCEPT ![c] = auth.deadline]
      /\ closeRequestedAt' = [closeRequestedAt EXCEPT ![c] = 0]
      /\ activeChannelCount' = [activeChannelCount EXCEPT ![SellerOf[c]] =
                                  activeChannelCount[SellerOf[c]] + 1]
      /\ status[c] = "None"
      /\ UNCHANGED <<regVars, stakeVars, statsVars, agentVars, authVars, otherVars>>
  BY DEF reserve, countOpened
<1>5. /\ status \in [Channels -> ChannelStatus] /\ channelDeposit \in [Channels -> Nat]
      /\ settled \in [Channels -> Nat] /\ activeChannelCount \in [Sellers -> Nat]
      /\ metadataOf \in [Channels -> Metadata \cup {ZeroMetadata}]
      /\ deadline \in [Channels -> Nat] /\ closeRequestedAt \in [Channels -> Nat]
  BY DEF AccountsInv, TypeOK
<1> HIDE DEF max
<1>6. TypeOK'
  <2>1. DepTypeOK'
    BY <1>1, <1>2, <1>3, TransferType DEF AccountsInv
  <2>2. /\ status' \in [Channels -> ChannelStatus] /\ channelDeposit' \in [Channels -> Nat]
        /\ settled' \in [Channels -> Nat]
        /\ metadataOf' \in [Channels -> Metadata \cup {ZeroMetadata}]
        /\ deadline' \in [Channels -> Nat] /\ closeRequestedAt' \in [Channels -> Nat]
    BY <1>1, <1>4, <1>5 DEF ChannelStatus
  <2>3. activeChannelCount' \in [Sellers -> Nat]
    BY <1>2, <1>4, <1>5
  <2> QED BY <1>4, <2>1, <2>2, <2>3
          DEF AccountsInv, TypeOK, RegTypeOK, StakeTypeOK, StatsTypeOK, regVars, stakeVars,
              statsVars, agentVars, authVars, otherVars
<1>7. \A x \in Channels : x # c =>
        /\ status'[x] = status[x]
        /\ channelDeposit'[x] = channelDeposit[x]
        /\ settled'[x] = settled[x]
  BY <1>4, <1>5
<1>8. lockedFor(c)' = lockedFor(c) - 0 + max - 0
  BY <1>1, <1>4, <1>5 DEF lockedFor
<1>9. settled'[c] <= channelDeposit'[c]
  BY <1>1, <1>4, <1>5
<1>10. activeChannelCount' = [activeChannelCount EXCEPT ![SellerOf[c]] =
                   activeChannelCount[SellerOf[c]] + activeFlag(c)' - activeFlag(c)]
  <2>1. activeFlag(c)' = 1 /\ activeFlag(c) = 0
    BY <1>4, <1>5 DEF activeFlag
  <2>2. activeChannelCount[SellerOf[c]] + 1 - 0 = activeChannelCount[SellerOf[c]] + 1
    BY <1>2, <1>5
  <2> QED BY <1>4, <2>1, <2>2
<1>11. UNCHANGED <<stakeVars, otherReserved>>
  BY <1>4 DEF otherVars
<1> QED BY <1>1, <1>3, <1>6, <1>7, <1>8, <1>9, <1>10, <1>11, ChannelStep

(* settle, topUp and close share _settleSpend: what they have in common. *)
LEMMA SpendFacts ==
  ASSUME AccountsInv, NEW c \in Channels, NEW amount \in Nat, NEW m \in Metadata,
         settleSpend(c, amount, m)
  PROVE  /\ spendDelta(c, amount) \in Nat
         /\ platformFee(spendDelta(c, amount)) \in Nat
         /\ settled' = [settled EXCEPT ![c] = settled[c] + spendDelta(c, amount)]
         /\ settled' \in [Channels -> Nat]
         /\ metadataOf' \in [Channels -> Metadata \cup {ZeroMetadata}]
         /\ totalVolumeUsdc' \in [Agents -> Nat]
         /\ StatsTypeOK'
         /\ amount <= channelDeposit[c] => settled[c] + spendDelta(c, amount) <= channelDeposit[c]
<1>1. /\ spendDelta(c, amount) \in Nat
      /\ settled' \in [Channels -> Nat]
      /\ metadataOf' \in [Channels -> Metadata \cup {ZeroMetadata}]
      /\ totalVolumeUsdc' \in [Agents -> Nat]
      /\ StatsTypeOK'
  BY SettleSpendType DEF AccountsInv
<1>2. platformFee(spendDelta(c, amount)) \in Nat
  BY <1>1, PlatformFeeBounded DEF AccountsInv
<1>3. settled' = [settled EXCEPT ![c] = settled[c] + spendDelta(c, amount)]
  BY DEF settleSpend
<1>4. amount <= channelDeposit[c] => settled[c] + spendDelta(c, amount) <= channelDeposit[c]
  <2>1. settled[c] \in Nat /\ channelDeposit[c] \in Nat /\ settled[c] <= channelDeposit[c]
    BY DEF AccountsInv, TypeOK, SettledWithinDeposit
  <2> QED BY <2>1 DEF spendDelta
<1> QED BY <1>1, <1>2, <1>3, <1>4

(* settle preserves the inductive invariant. *)
LEMMA SettleInv ==
  ASSUME AccountsInv, NEW c \in Channels, NEW auth \in spendingAuths[c], settle(c, auth)
  PROVE  AccountsInv'
<1> DEFINE amount == auth.cumulativeAmount
           delta == spendDelta(c, amount)
<1>1. amount \in Nat /\ auth.metadata \in Metadata
  <2>1. auth \in SpendingAuth
    BY DEF AccountsInv, TypeOK
  <2> QED BY <2>1, ConstantsOK DEF SpendingAuth
<1>2. BuyerOf[c] \in Buyers /\ SellerOf[c] \in Sellers
  BY ConstantsOK
<1>3. /\ settleSpend(c, amount, auth.metadata)
      /\ channelTransfer(BuyerOf[c], SellerOf[c], delta, platformFee(delta), 0, 0)
      /\ status[c] = "Active" /\ amount <= channelDeposit[c]
      /\ UNCHANGED <<status, channelDeposit, deadline, closeRequestedAt, activeChannelCount,
                     channelCount, ghostCount, regVars, stakeVars, authVars, otherVars>>
  BY DEF settle, isActive
<1>4. /\ status \in [Channels -> ChannelStatus] /\ channelDeposit \in [Channels -> Nat]
      /\ settled \in [Channels -> Nat] /\ activeChannelCount \in [Sellers -> Nat]
      /\ deadline \in [Channels -> Nat] /\ closeRequestedAt \in [Channels -> Nat]
      /\ channelCount \in [Agents -> Nat] /\ ghostCount \in [Agents -> Nat]
  BY DEF AccountsInv, TypeOK
<1>5. /\ delta \in Nat /\ platformFee(delta) \in Nat
      /\ settled' = [settled EXCEPT ![c] = settled[c] + delta]
      /\ settled' \in [Channels -> Nat]
      /\ metadataOf' \in [Channels -> Metadata \cup {ZeroMetadata}]
      /\ totalVolumeUsdc' \in [Agents -> Nat]
      /\ StatsTypeOK'
      /\ settled[c] + delta <= channelDeposit[c]
  BY <1>1, <1>3, SpendFacts
<1> HIDE DEF amount, delta
<1>6. TypeOK'
  <2>1. DepTypeOK'
    BY <1>2, <1>3, <1>5, TransferType DEF AccountsInv
  <2> QED BY <1>3, <1>5, <2>1
          DEF AccountsInv, TypeOK, RegTypeOK, StakeTypeOK, regVars, stakeVars, authVars, otherVars
<1>7. \A x \in Channels : x # c =>
        /\ status'[x] = status[x]
        /\ channelDeposit'[x] = channelDeposit[x]
        /\ settled'[x] = settled[x]
  BY <1>3, <1>4, <1>5
<1>8. lockedFor(c)' = lockedFor(c) - delta + 0 - 0
  BY <1>3, <1>4, <1>5 DEF lockedFor
<1>9. settled'[c] <= channelDeposit'[c]
  BY <1>3, <1>4, <1>5
<1>10. activeChannelCount' = [activeChannelCount EXCEPT ![SellerOf[c]] =
                   activeChannelCount[SellerOf[c]] + activeFlag(c)' - activeFlag(c)]
  <2>1. activeFlag(c)' = 1 /\ activeFlag(c) = 1
    BY <1>3 DEF activeFlag
  <2>2. activeChannelCount[SellerOf[c]] + 1 - 1 = activeChannelCount[SellerOf[c]]
    BY <1>2, <1>4
  <2> QED BY <1>3, <1>4, <2>1, <2>2
<1>11. UNCHANGED <<stakeVars, otherReserved>>
  BY <1>3 DEF otherVars
<1> QED BY <1>3, <1>5, <1>6, <1>7, <1>8, <1>9, <1>10, <1>11, ChannelStep

(* topUp preserves the inductive invariant. *)
LEMMA TopUpInv ==
  ASSUME AccountsInv, NEW c \in Channels, NEW amount \in Nat, NEW m \in Metadata,
         NEW auth \in reserveAuths[c], topUp(c, amount, m, auth)
  PROVE  AccountsInv'
<1> DEFINE max == auth.maxAmount
           delta == spendDelta(c, amount)
<1>1. max \in Nat /\ auth.deadline \in Nat
  <2>1. auth \in ReserveAuth
    BY DEF AccountsInv, TypeOK
  <2> QED BY <2>1, ConstantsOK DEF ReserveAuth
<1>2. BuyerOf[c] \in Buyers /\ SellerOf[c] \in Sellers
  BY ConstantsOK
<1>3. /\ settleSpend(c, amount, m)
      /\ channelTransfer(BuyerOf[c], SellerOf[c], delta, platformFee(delta),
                         max - channelDeposit[c], 0)
      /\ status[c] = "Active" /\ max > channelDeposit[c]
      /\ delta > 0 => amount <= channelDeposit[c]
      /\ channelDeposit' = [channelDeposit EXCEPT ![c] = max]
      /\ deadline' = [deadline EXCEPT ![c] = auth.deadline]
      /\ UNCHANGED <<status, closeRequestedAt, activeChannelCount, channelCount, ghostCount,
                     regVars, stakeVars, authVars, otherVars>>
  BY DEF topUp, isActive
<1>4. /\ status \in [Channels -> ChannelStatus] /\ channelDeposit \in [Channels -> Nat]
      /\ settled \in [Channels -> Nat] /\ activeChannelCount \in [Sellers -> Nat]
      /\ deadline \in [Channels -> Nat] /\ closeRequestedAt \in [Channels -> Nat]
      /\ channelCount \in [Agents -> Nat] /\ ghostCount \in [Agents -> Nat]
  BY DEF AccountsInv, TypeOK
<1>5. /\ delta \in Nat /\ platformFee(delta) \in Nat
      /\ settled' = [settled EXCEPT ![c] = settled[c] + delta]
      /\ settled' \in [Channels -> Nat]
      /\ metadataOf' \in [Channels -> Metadata \cup {ZeroMetadata}]
      /\ totalVolumeUsdc' \in [Agents -> Nat]
      /\ StatsTypeOK'
      /\ amount <= channelDeposit[c] => settled[c] + delta <= channelDeposit[c]
  BY <1>3, SpendFacts
<1>6. settled[c] + delta <= channelDeposit[c]
  <2>1. settled[c] <= channelDeposit[c]
    BY DEF AccountsInv, SettledWithinDeposit
  <2> QED BY <1>3, <1>4, <1>5, <2>1
<1>7. max - channelDeposit[c] \in Nat
  BY <1>1, <1>3, <1>4
<1> HIDE DEF max, delta
<1>8. TypeOK'
  <2>1. DepTypeOK'
    BY <1>2, <1>3, <1>5, <1>7, TransferType DEF AccountsInv
  <2>2. channelDeposit' \in [Channels -> Nat] /\ deadline' \in [Channels -> Nat]
    BY <1>1, <1>3, <1>4
  <2> QED BY <1>3, <1>5, <2>1, <2>2
          DEF AccountsInv, TypeOK, RegTypeOK, StakeTypeOK, regVars, stakeVars, authVars, otherVars
<1>9. \A x \in Channels : x # c =>
        /\ status'[x] = status[x]
        /\ channelDeposit'[x] = channelDeposit[x]
        /\ settled'[x] = settled[x]
  BY <1>3, <1>4, <1>5
<1>10. lockedFor(c)' = lockedFor(c) - delta + (max - channelDeposit[c]) - 0
  BY <1>1, <1>3, <1>4, <1>5 DEF lockedFor
<1>11. settled'[c] <= channelDeposit'[c]
  BY <1>1, <1>3, <1>4, <1>5, <1>6
<1>12. activeChannelCount' = [activeChannelCount EXCEPT ![SellerOf[c]] =
                   activeChannelCount[SellerOf[c]] + activeFlag(c)' - activeFlag(c)]
  <2>1. activeFlag(c)' = 1 /\ activeFlag(c) = 1
    BY <1>3 DEF activeFlag
  <2>2. activeChannelCount[SellerOf[c]] + 1 - 1 = activeChannelCount[SellerOf[c]]
    BY <1>2, <1>4
  <2> QED BY <1>3, <1>4, <2>1, <2>2
<1>13. UNCHANGED <<stakeVars, otherReserved>>
  BY <1>3 DEF otherVars
<1> QED BY <1>3, <1>5, <1>7, <1>8, <1>9, <1>10, <1>11, <1>12, <1>13, ChannelStep

(* close preserves the inductive invariant. *)
LEMMA CloseInv ==
  ASSUME AccountsInv, NEW c \in Channels, NEW amount \in Nat, NEW m \in Metadata,
         close(c, amount, m)
  PROVE  AccountsInv'
<1> DEFINE delta == spendDelta(c, amount)
           rest == channelDeposit[c] - (settled[c] + delta)
<1>2. BuyerOf[c] \in Buyers /\ SellerOf[c] \in Sellers
  BY ConstantsOK
<1>3. /\ settleSpend(c, amount, m)
      /\ channelTransfer(BuyerOf[c], SellerOf[c], delta, platformFee(delta), 0, rest)
      /\ status[c] = "Active" /\ amount <= channelDeposit[c]
      /\ status' = [status EXCEPT ![c] = "Settled"]
      /\ activeChannelCount' = [activeChannelCount EXCEPT ![SellerOf[c]] =
                                  activeChannelCount[SellerOf[c]] - 1]
      /\ channelCount' = bump(channelCount, c, 1)
      /\ UNCHANGED <<channelDeposit, deadline, closeRequestedAt, ghostCount,
                     regVars, stakeVars, authVars, otherVars>>
  BY DEF close, isActive, unsettledAfter, countEnded
<1>4. /\ status \in [Channels -> ChannelStatus] /\ channelDeposit \in [Channels -> Nat]
      /\ settled \in [Channels -> Nat] /\ activeChannelCount \in [Sellers -> Nat]
      /\ deadline \in [Channels -> Nat] /\ closeRequestedAt \in [Channels -> Nat]
      /\ channelCount \in [Agents -> Nat] /\ ghostCount \in [Agents -> Nat]
  BY DEF AccountsInv, TypeOK
<1>5. /\ delta \in Nat /\ platformFee(delta) \in Nat
      /\ settled' = [settled EXCEPT ![c] = settled[c] + delta]
      /\ settled' \in [Channels -> Nat]
      /\ metadataOf' \in [Channels -> Metadata \cup {ZeroMetadata}]
      /\ totalVolumeUsdc' \in [Agents -> Nat]
      /\ StatsTypeOK'
      /\ settled[c] + delta <= channelDeposit[c]
  BY <1>3, SpendFacts
<1>6. rest \in Nat /\ rest = channelDeposit[c] - (settled[c] + delta)
  BY <1>4, <1>5
<1>7. activeChannelCount[SellerOf[c]] - 1 \in Nat
  BY <1>3, CountPositive DEF AccountsInv
<1> HIDE DEF delta, rest
<1>8. TypeOK'
  <2>1. DepTypeOK'
    BY <1>2, <1>3, <1>5, <1>6, TransferType DEF AccountsInv
  <2>2. status' \in [Channels -> ChannelStatus]
    BY <1>3, <1>4 DEF ChannelStatus
  <2>3. activeChannelCount' \in [Sellers -> Nat]
    BY <1>2, <1>3, <1>4, <1>7
  <2>4. channelCount' \in [Agents -> Nat]
    BY <1>3, <1>4, BumpType
  <2> QED BY <1>3, <1>5, <2>1, <2>2, <2>3, <2>4
          DEF AccountsInv, TypeOK, RegTypeOK, StakeTypeOK, regVars, stakeVars, authVars, otherVars
<1>9. \A x \in Channels : x # c =>
        /\ status'[x] = status[x]
        /\ channelDeposit'[x] = channelDeposit[x]
        /\ settled'[x] = settled[x]
  BY <1>3, <1>4, <1>5
<1>10. lockedFor(c)' = lockedFor(c) - delta + 0 - rest
  BY <1>3, <1>4, <1>5, <1>6 DEF lockedFor
<1>11. settled'[c] <= channelDeposit'[c]
  BY <1>3, <1>4, <1>5
<1>12. activeChannelCount' = [activeChannelCount EXCEPT ![SellerOf[c]] =
                   activeChannelCount[SellerOf[c]] + activeFlag(c)' - activeFlag(c)]
  <2>1. activeFlag(c)' = 0 /\ activeFlag(c) = 1
    BY <1>3, <1>4 DEF activeFlag
  <2>2. activeChannelCount[SellerOf[c]] + 0 - 1 = activeChannelCount[SellerOf[c]] - 1
    BY <1>2, <1>4
  <2> QED BY <1>3, <2>1, <2>2
<1>13. UNCHANGED <<stakeVars, otherReserved>>
  BY <1>3 DEF otherVars
<1> QED BY <1>3, <1>5, <1>6, <1>8, <1>9, <1>10, <1>11, <1>12, <1>13, ChannelStep

(* withdraw preserves the inductive invariant. *)
LEMMA WithdrawInv ==
  ASSUME AccountsInv, NEW c \in Channels, NEW caller, withdrawChannel(c, caller)
  PROVE  AccountsInv'
<1> DEFINE rest == channelDeposit[c] - (settled[c] + 0)
<1>2. BuyerOf[c] \in Buyers /\ SellerOf[c] \in Sellers
  BY ConstantsOK
<1>3. /\ channelTransfer(BuyerOf[c], SellerOf[c], 0, 0, 0, rest)
      /\ status[c] = "Active"
      /\ status' = [status EXCEPT ![c] = "TimedOut"]
      /\ activeChannelCount' = [activeChannelCount EXCEPT ![SellerOf[c]] =
                                  activeChannelCount[SellerOf[c]] - 1]
      /\ \/ ghostCount' = bump(ghostCount, c, 1) /\ channelCount' = channelCount
         \/ channelCount' = bump(channelCount, c, 1) /\ ghostCount' = ghostCount
      /\ UNCHANGED <<channelDeposit, settled, metadataOf, deadline, closeRequestedAt,
                     totalVolumeUsdc, regVars, stakeVars, statsVars, authVars, otherVars>>
  BY DEF withdrawChannel, isActive, unsettledAfter, countEnded
<1>4. /\ status \in [Channels -> ChannelStatus] /\ channelDeposit \in [Channels -> Nat]
      /\ settled \in [Channels -> Nat] /\ activeChannelCount \in [Sellers -> Nat]
      /\ deadline \in [Channels -> Nat] /\ closeRequestedAt \in [Channels -> Nat]
      /\ channelCount \in [Agents -> Nat] /\ ghostCount \in [Agents -> Nat]
  BY DEF AccountsInv, TypeOK
<1>6. rest \in Nat /\ rest = channelDeposit[c] - settled[c]
  <2>1. settled[c] <= channelDeposit[c]
    BY DEF AccountsInv, SettledWithinDeposit
  <2> QED BY <1>4, <2>1
<1>7. activeChannelCount[SellerOf[c]] - 1 \in Nat
  BY <1>3, CountPositive DEF AccountsInv
<1> HIDE DEF rest
<1>8. TypeOK'
  <2>1. DepTypeOK'
    BY <1>2, <1>3, <1>6, TransferType DEF AccountsInv
  <2>2. status' \in [Channels -> ChannelStatus]
    BY <1>3, <1>4 DEF ChannelStatus
  <2>3. activeChannelCount' \in [Sellers -> Nat]
    BY <1>2, <1>3, <1>4, <1>7
  <2>4. channelCount' \in [Agents -> Nat] /\ ghostCount' \in [Agents -> Nat]
    BY <1>3, <1>4, BumpType
  <2> QED BY <1>3, <2>1, <2>2, <2>3, <2>4
          DEF AccountsInv, TypeOK, RegTypeOK, StakeTypeOK, StatsTypeOK, regVars, stakeVars,
              statsVars, authVars, otherVars
<1>9. \A x \in Channels : x # c =>
        /\ status'[x] = status[x]
        /\ channelDeposit'[x] = channelDeposit[x]
        /\ settled'[x] = settled[x]
  BY <1>3, <1>4
<1>10. lockedFor(c)' = lockedFor(c) - 0 + 0 - rest
  BY <1>3, <1>4, <1>6 DEF lockedFor
<1>11. settled'[c] <= channelDeposit'[c]
  BY <1>3 DEF AccountsInv, SettledWithinDeposit
<1>12. activeChannelCount' = [activeChannelCount EXCEPT ![SellerOf[c]] =
                   activeChannelCount[SellerOf[c]] + activeFlag(c)' - activeFlag(c)]
  <2>1. activeFlag(c)' = 0 /\ activeFlag(c) = 1
    BY <1>3, <1>4 DEF activeFlag
  <2>2. activeChannelCount[SellerOf[c]] + 0 - 1 = activeChannelCount[SellerOf[c]] - 1
    BY <1>2, <1>4
  <2> QED BY <1>3, <2>1, <2>2
<1>13. UNCHANGED <<stakeVars, otherReserved>>
  BY <1>3 DEF otherVars
<1> QED BY <1>3, <1>6, <1>8, <1>9, <1>10, <1>11, <1>12, <1>13, ChannelStep

(* What a step that leaves the money of the channels alone must show. *)
LEMMA QuietStep ==
  ASSUME AccountsInv, TypeOK', Solvent', StakeBoundToAgent',
         UNCHANGED <<status, channelDeposit, settled, activeChannelCount,
                     reserved, otherReserved>>
  PROVE  AccountsInv'
<1>1. SettledWithinDeposit'
  BY DEF AccountsInv, SettledWithinDeposit
<1>2. ReservedBacksChannels'
  BY LockUnchanged DEF AccountsInv
<1>3. ActiveCountExact'
  <2>1. \A s \in Sellers : activeOf(s)' = activeOf(s)
    BY DEF activeOf
  <2> QED BY <2>1 DEF AccountsInv, ActiveCountExact
<1> QED BY <1>1, <1>2, <1>3 DEF AccountsInv

(* requestClose and the buyers' signatures preserve the inductive invariant. *)
LEMMA SignOrRequestInv ==
  ASSUME AccountsInv, NEW c \in Channels,
         SignStep(c) \/ \E caller \in Operators : requestClose(c, caller)
  PROVE  AccountsInv'
<1> USE DEF regVars, depVars, stakeVars, statsVars, chanVars, agentVars, authVars, otherVars
<1>1. UNCHANGED <<regVars, depVars, stakeVars, statsVars, agentVars, otherVars, status,
                  channelDeposit, settled, metadataOf, deadline, activeChannelCount>>
  BY DEF SignStep, signReserveAuth, signSpendingAuth, requestClose
<1>2. closeRequestedAt' \in [Channels -> Nat]
  <2>1. closeRequestedAt \in [Channels -> Nat] /\ now \in Nat
    BY DEF AccountsInv, TypeOK, RegTypeOK
  <2> QED BY <2>1 DEF SignStep, signReserveAuth, signSpendingAuth, requestClose
<1>3. reserveAuths' \in [Channels -> SUBSET ReserveAuth]
  <2>1. reserveAuths \in [Channels -> SUBSET ReserveAuth]
    BY DEF AccountsInv, TypeOK
  <2> QED BY <2>1 DEF SignStep, signReserveAuth, signSpendingAuth, requestClose
<1>4. spendingAuths' \in [Channels -> SUBSET SpendingAuth]
  <2>1. spendingAuths \in [Channels -> SUBSET SpendingAuth]
    BY DEF AccountsInv, TypeOK
  <2> QED BY <2>1 DEF SignStep, signReserveAuth, signSpendingAuth, requestClose
<1>5. TypeOK'
  BY <1>1, <1>2, <1>3, <1>4
     DEF AccountsInv, TypeOK, RegTypeOK, DepTypeOK, StakeTypeOK, StatsTypeOK
<1>6. Solvent' /\ StakeBoundToAgent'
  BY <1>1 DEF AccountsInv, Solvent, StakeBoundToAgent
<1> QED BY <1>1, <1>5, <1>6, QuietStep

(* The owner and time preserve the inductive invariant. *)
LEMMA OwnerOrTimeInv ==
  ASSUME AccountsInv, OwnerStep \/ TimeStep
  PROVE  AccountsInv'
<1> USE DEF depVars, stakeVars, statsVars, chanVars, agentVars, authVars, otherVars
<1>1. UNCHANGED <<depVars, stakeVars, statsVars, chanVars, agentVars, authVars, otherVars>>
  BY DEF OwnerStep, TimeStep
<1>2. RegTypeOK'
  <2>1. /\ registry \in Registry /\ config \in Configs
        /\ paused \in BOOLEAN /\ now \in Nat
    BY DEF AccountsInv, TypeOK, RegTypeOK
  <2>2. now' \in Nat /\ paused' \in BOOLEAN /\ config' \in Configs
    <3>1. now' = now \/ now' = now + 1
      BY DEF OwnerStep, TimeStep, Tick, setChannels, setProtocolReserve, setSlashing,
             setStatsWriter, setParameter, pause, unpause
    <3>2. paused' \in {paused, TRUE, FALSE}
      BY DEF OwnerStep, TimeStep, Tick, setChannels, setProtocolReserve, setSlashing,
             setStatsWriter, setParameter, pause, unpause
    <3>3. config' = config \/ config' \in Configs
      BY DEF OwnerStep, TimeStep, Tick, setChannels, setProtocolReserve, setSlashing,
             setStatsWriter, setParameter, pause, unpause
    <3>4. now' \in Nat
      BY <2>1, <3>1
    <3>5. paused' \in BOOLEAN
      BY <2>1, <3>2
    <3>6. config' \in Configs
      BY <2>1, <3>3
    <3> QED BY <3>4, <3>5, <3>6
  <2>3. registry' \in Registry
    <3>1. \A b \in BOOLEAN :
            /\ [registry EXCEPT !.channels = b] \in Registry
            /\ [registry EXCEPT !.protocolReserve = b] \in Registry
            /\ [registry EXCEPT !.slashing = b] \in Registry
            /\ [registry EXCEPT !.stats = b] \in Registry
      BY <2>1 DEF Registry
    <3> QED BY <2>1, <3>1 DEF OwnerStep, TimeStep, Tick, setChannels, setProtocolReserve,
                setSlashing, setStatsWriter, setParameter, pause, unpause
  <2> QED BY <2>2, <2>3 DEF RegTypeOK
<1>3. TypeOK'
  BY <1>1, <1>2 DEF AccountsInv, TypeOK, DepTypeOK, StakeTypeOK, StatsTypeOK
<1>4. Solvent' /\ StakeBoundToAgent'
  BY <1>1 DEF AccountsInv, Solvent, StakeBoundToAgent
<1> QED BY <1>1, <1>3, <1>4, QuietStep

(* The calls of the buyers' accounts preserve the inductive invariant. *)
LEMMA DepositsStepInv ==
  ASSUME AccountsInv, DepositsStep
  PROVE  AccountsInv'
<1> USE DEF regVars, stakeVars, statsVars, chanVars, agentVars, authVars, otherVars
<1>1. UNCHANGED <<regVars, stakeVars, statsVars, chanVars, agentVars, authVars, otherVars>>
  BY DEF DepositsStep
<1>2. reserved' = reserved
  BY DEF DepositsStep, deposit, withdrawDeposit, signSetOperator, setOperator,
         transferOperator, setCreditLimitOverride
<1>3. TypeOK'
  <2>1. DepTypeOK'
    BY DepositsStepType DEF AccountsInv
  <2> QED BY <1>1, <2>1 DEF AccountsInv, TypeOK, RegTypeOK, StakeTypeOK, StatsTypeOK
<1>4. Solvent'
  <2>1. /\ balance \in [Buyers -> Nat] /\ reserved \in [Buyers -> Nat] /\ held \in Nat
        /\ held = Sum(balance, NumBuyers) /\ \A x \in Buyers : reserved[x] <= balance[x]
    BY DEF AccountsInv, TypeOK, DepTypeOK, Solvent
  <2>2. ASSUME NEW b \in Buyers, NEW n \in Int, balance[b] + n >= reserved[b],
               balance' = [balance EXCEPT ![b] = balance[b] + n], held' = held + n
        PROVE  Solvent'
    <3>1. balance \in [1..NumBuyers -> Int] /\ balance' \in [1..NumBuyers -> Int]
      BY <2>1, <2>2
    <3>2. \A x \in 1..NumBuyers : x # b => balance'[x] = balance[x]
      BY <2>1, <2>2
    <3>3. Sum(balance', NumBuyers) = Sum(balance, NumBuyers) + balance'[b] - balance[b]
      BY <3>1, <3>2, ConstantsOK, SumUpdate
    <3>4. balance'[b] = balance[b] + n /\ balance[b] \in Nat
      BY <2>1, <2>2
    <3>5. held' = Sum(balance', NumBuyers)
      BY <2>1, <2>2, <3>3, <3>4
    <3>6. \A x \in Buyers : reserved'[x] <= balance'[x]
      BY <1>2, <2>1, <2>2, <3>2, <3>4
    <3> QED BY <3>5, <3>6 DEF Solvent
  <2>3. ASSUME NEW b \in Buyers, NEW amount \in DepositAmounts, deposit(b, amount)
        PROVE  Solvent'
    <3>1. amount \in Nat
      BY DepositsAssumption
    <3>2. /\ balance' = [balance EXCEPT ![b] = balance[b] + amount]
          /\ held' = held + amount
      BY <2>3 DEF deposit
    <3>3. balance[b] + amount >= reserved[b] /\ amount \in Int
      BY <2>1, <3>1
    <3> QED BY <2>2, <3>2, <3>3
  <2>4. ASSUME NEW b \in Buyers, NEW caller, NEW amount \in DepositAmounts,
               withdrawDeposit(b, caller, amount)
        PROVE  Solvent'
    <3>1. amount \in Nat /\ -amount \in Int
      BY DepositsAssumption
    <3>2. /\ balance' = [balance EXCEPT ![b] = balance[b] - amount]
          /\ held' = held - amount /\ balance[b] - reserved[b] >= amount
      BY <2>4 DEF withdrawDeposit, availableBalance
    <3>3. balance[b] \in Nat /\ reserved[b] \in Nat
      BY <2>1
    <3>4. /\ balance[b] - amount = balance[b] + (-amount)
          /\ held - amount = held + (-amount)
          /\ balance[b] + (-amount) >= reserved[b]
      BY <2>1, <3>1, <3>2, <3>3
    <3> QED BY <2>2, <3>1, <3>2, <3>4
  <2>5. CASE UNCHANGED <<balance, held>>
    BY <1>2, <2>1, <2>5 DEF Solvent
  <2> QED BY <2>3, <2>4, <2>5
          DEF DepositsStep, signSetOperator, setOperator, transferOperator, setCreditLimitOverride
<1>5. StakeBoundToAgent'
  BY <1>1 DEF AccountsInv, StakeBoundToAgent
<1> QED BY <1>1, <1>2, <1>3, <1>4, <1>5, QuietStep

(* stake, unstake and the token transfers keep stakes bound to agents. *)
LEMMA StakingBinding ==
  ASSUME AccountsInv, StakingStep \/ \E s \in Sellers : unstakeSeller(s)
  PROVE  StakeBoundToAgent'
<1>1. /\ stake \in [Sellers -> Nat] /\ stakeHeld \in Nat
      /\ sellerAgentId \in [Sellers -> Agents \cup {NoAddress}]
      /\ agentSeller \in [Agents -> Sellers \cup {NoAddress}]
  BY DEF AccountsInv, TypeOK, StakeTypeOK
<1>2. NoAddress \notin Agents /\ NoAddress \notin Sellers /\ NumSellers \in Nat
  BY RegistryAssumption
<1>3. /\ \A x \in Sellers, a \in Agents : sellerAgentId[x] = a <=> agentSeller[a] = x
      /\ \A x \in Sellers : stake[x] > 0 <=> sellerAgentId[x] # NoAddress
      /\ stakeHeld = Sum(stake, NumSellers)
  BY DEF AccountsInv, StakeBoundToAgent
<1>4. ASSUME NEW s \in Sellers, NEW n \in Nat,
             stake' = [stake EXCEPT ![s] = n], stakeHeld' = stakeHeld + n - stake[s]
      PROVE  stakeHeld' = Sum(stake', NumSellers)
  <2>1. stake \in [1..NumSellers -> Int] /\ stake' \in [1..NumSellers -> Int]
    BY <1>1, <1>4
  <2>2. \A x \in 1..NumSellers : x # s => stake'[x] = stake[x]
    BY <1>1, <1>4
  <2>3. Sum(stake', NumSellers) = Sum(stake, NumSellers) + stake'[s] - stake[s]
    BY <1>2, <2>1, <2>2, SumUpdate
  <2>4. stake'[s] = n
    BY <1>1, <1>4
  <2> QED BY <1>3, <1>4, <2>3, <2>4
<1>5. ASSUME NEW s \in Sellers, NEW a \in Agents, NEW amount \in StakeAmounts,
             stakeFor(s, a, amount)
      PROVE  StakeBoundToAgent'
  <2>1. amount \in Nat
    BY StakingAssumption
  <2>2. /\ amount > 0
        /\ stake' = [stake EXCEPT ![s] = stake[s] + amount]
        /\ sellerAgentId' = [sellerAgentId EXCEPT ![s] = a]
        /\ agentSeller' = [agentSeller EXCEPT ![a] = s]
        /\ stakeHeld' = stakeHeld + amount
        /\ sellerAgentId[s] \in {NoAddress, a} /\ agentSeller[a] \in {NoAddress, s}
    BY <1>5 DEF stakeFor, bindable
  <2>3. stakeHeld' = Sum(stake', NumSellers)
    <3>1. stake[s] + amount \in Nat /\ stakeHeld + amount = stakeHeld + (stake[s] + amount) - stake[s]
      BY <1>1, <2>1
    <3> QED BY <1>4, <2>2, <3>1
  <2>4. \A x \in Sellers : stake'[x] > 0 <=> sellerAgentId'[x] # NoAddress
    BY <1>1, <1>2, <1>3, <2>1, <2>2
  <2>5. ASSUME NEW x \in Sellers, NEW y \in Agents
        PROVE  sellerAgentId'[x] = y <=> agentSeller'[y] = x
    <3>1. sellerAgentId'[x] = IF x = s THEN a ELSE sellerAgentId[x]
      BY <1>1, <2>2
    <3>2. agentSeller'[y] = IF y = a THEN s ELSE agentSeller[y]
      BY <1>1, <2>2
    <3>3. sellerAgentId[x] = y <=> agentSeller[y] = x
      BY <1>3
    <3>4. sellerAgentId[x] = a <=> agentSeller[a] = x
      BY <1>3
    <3>5. sellerAgentId[s] = y <=> agentSeller[y] = s
      BY <1>3
    <3> QED BY <1>2, <2>2, <3>1, <3>2, <3>3, <3>4, <3>5
  <2> QED BY <2>3, <2>4, <2>5 DEF StakeBoundToAgent
<1>6. ASSUME NEW s \in Sellers, NEW n, NEW k, NEW g, unstake(s, n, k, g)
      PROVE  StakeBoundToAgent'
  <2> DEFINE a == sellerAgentId[s]
  <2>1. /\ stake[s] > 0
        /\ stake' = [stake EXCEPT ![s] = 0]
        /\ sellerAgentId' = [sellerAgentId EXCEPT ![s] = NoAddress]
        /\ agentSeller' = [agentSeller EXCEPT ![a] = NoAddress]
        /\ stakeHeld' = stakeHeld - stake[s]
    BY <1>6 DEF unstake
  <2>2. a \in Agents /\ a = sellerAgentId[s]
    BY <1>1, <1>3, <2>1
  <2> HIDE DEF a
  <2>3. stakeHeld' = Sum(stake', NumSellers)
    <3>1. stakeHeld - stake[s] = stakeHeld + 0 - stake[s]
      BY <1>1
    <3> QED BY <1>4, <2>1, <3>1
  <2>4. \A x \in Sellers : stake'[x] > 0 <=> sellerAgentId'[x] # NoAddress
    BY <1>1, <1>2, <1>3, <2>1
  <2>5. ASSUME NEW x \in Sellers, NEW y \in Agents
        PROVE  sellerAgentId'[x] = y <=> agentSeller'[y] = x
    <3>1. sellerAgentId'[x] = IF x = s THEN NoAddress ELSE sellerAgentId[x]
      BY <1>1, <2>1
    <3>2. agentSeller'[y] = IF y = a THEN NoAddress ELSE agentSeller[y]
      BY <1>1, <2>1
    <3>3. sellerAgentId[x] = y <=> agentSeller[y] = x
      BY <1>3
    <3>4. agentSeller[a] = s
      BY <1>3, <2>2
    <3>5. agentSeller[y] = s <=> sellerAgentId[s] = y
      BY <1>3
    <3>6. y # NoAddress /\ x # NoAddress
      BY <1>2
    <3> QED BY <2>2, <3>1, <3>2, <3>3, <3>4, <3>5, <3>6
  <2> QED BY <2>3, <2>4, <2>5 DEF StakeBoundToAgent
<1>7. ASSUME NEW a \in Agents, NEW s \in Sellers, transferAgent(a, s)
      PROVE  StakeBoundToAgent'
  BY <1>3, <1>7 DEF transferAgent, StakeBoundToAgent
<1> QED BY <1>5, <1>6, <1>7 DEF StakingStep, unstakeSeller

(* stake, unstake and the token transfers preserve the inductive invariant. *)
LEMMA StakingInv ==
  ASSUME AccountsInv, StakingStep \/ \E s \in Sellers : unstakeSeller(s)
  PROVE  AccountsInv'
<1> USE DEF regVars, depVars, statsVars, chanVars, agentVars, authVars, otherVars
<1>1. UNCHANGED <<regVars, depVars, statsVars, chanVars, agentVars, authVars, otherVars>>
  BY DEF StakingStep, unstakeSeller
<1>2. StakeBoundToAgent'
  BY StakingBinding
<1>3. StakeTypeOK'
  BY StakingType DEF AccountsInv
<1>4. TypeOK'
  BY <1>1, <1>3 DEF AccountsInv, TypeOK, RegTypeOK, DepTypeOK, StatsTypeOK
<1>5. Solvent'
  BY <1>1 DEF AccountsInv, Solvent
<1> QED BY <1>1, <1>2, <1>4, <1>5, QuietStep

(* The other Channels contract preserves the inductive invariant. *)
LEMMA OtherChannelsInv ==
  ASSUME AccountsInv, OtherChannelsStep
  PROVE  AccountsInv'
<1> USE DEF regVars, stakeVars, statsVars, chanVars, agentVars, authVars
<1>1. PICK b \in Buyers, s \in Sellers, charge \in Nat, lock \in Nat, release \in Nat :
        otherChannels(b, s, charge, lock, release)
  <2>1. OtherAmounts \subseteq Nat /\ 0 \in Nat
    BY ChannelsAssumption
  <2> QED BY <2>1 DEF OtherChannelsStep
<1>2. /\ channelTransfer(b, s, charge, platformFee(charge), lock, release)
      /\ charge + release <= otherReserved[b]
      /\ otherReserved' = [otherReserved EXCEPT ![b] = otherReserved[b] - charge + lock - release]
      /\ otherPaid' = otherPaid + charge
      /\ UNCHANGED <<regVars, stakeVars, statsVars, chanVars, agentVars, authVars>>
  BY <1>1 DEF otherChannels
<1>3. /\ platformFee(charge) \in Nat
      /\ otherReserved \in [Buyers -> Nat] /\ otherPaid \in Nat
      /\ reserved \in [Buyers -> Nat]
  BY PlatformFeeBounded DEF AccountsInv, TypeOK, DepTypeOK
<1>4. TypeOK'
  <2>1. DepTypeOK'
    BY <1>2, <1>3, TransferType DEF AccountsInv
  <2>2. otherReserved[b] - charge + lock - release \in Nat /\ otherPaid + charge \in Nat
    BY <1>2, <1>3
  <2>3. otherReserved' \in [Buyers -> Nat] /\ otherPaid' \in Nat
    BY <1>2, <1>3, <2>2
  <2> QED BY <1>2, <2>1, <2>3 DEF AccountsInv, TypeOK, RegTypeOK, StakeTypeOK, StatsTypeOK
<1>5. Solvent'
  BY <1>2, <1>3, TransferSolvent DEF AccountsInv
<1>6. ReservedBacksChannels'
  <2>1. SUFFICES ASSUME NEW x \in Buyers
                 PROVE  reserved'[x] = Sum(lockedOf(x)', NumChannels) + otherReserved'[x]
    BY DEF ReservedBacksChannels
  <2>2. lockedOf(x)' = lockedOf(x)
    BY <1>2 DEF lockedOf, lockedFor
  <2>3. reserved[x] = Sum(lockedOf(x), NumChannels) + otherReserved[x]
    BY DEF AccountsInv, ReservedBacksChannels
  <2>4. reserved' = [reserved EXCEPT ![b] = reserved[b] - charge + lock - release]
    BY <1>2 DEF channelTransfer
  <2>5. Sum(lockedOf(x), NumChannels) \in Int
    <3>1. channelDeposit \in [Channels -> Nat] /\ settled \in [Channels -> Nat]
      BY DEF AccountsInv, TypeOK
    <3>2. lockedOf(x) \in [1..NumChannels -> Int]
      BY <3>1 DEF lockedOf, lockedFor
    <3> QED BY <3>2, ConstantsOK, SumInt
  <2>6. CASE x = b
    BY <1>2, <1>3, <2>2, <2>3, <2>4, <2>5, <2>6
  <2>7. CASE x # b
    BY <1>2, <1>3, <2>2, <2>3, <2>4, <2>7
  <2> QED BY <2>6, <2>7
<1>7. ActiveCountExact'
  <2>1. \A x \in Sellers : activeOf(x)' = activeOf(x)
    BY <1>2 DEF activeOf
  <2> QED BY <1>2, <2>1 DEF AccountsInv, ActiveCountExact
<1>8. SettledWithinDeposit' /\ StakeBoundToAgent'
  BY <1>2 DEF AccountsInv, SettledWithinDeposit, StakeBoundToAgent
<1> QED BY <1>4, <1>5, <1>6, <1>7, <1>8 DEF AccountsInv

-----------------------------------------------------------------------------
(* The contracts start in the inductive invariant: every total is zero. *)
LEMMA InitInv == Init => AccountsInv
<1> SUFFICES ASSUME Init PROVE AccountsInv
  OBVIOUS
<1> USE DEF Init, RegInit, DepInit, StakeInit, StatsInit
<1>1. TypeOK
  <2>1. RegTypeOK
    BY DEF RegTypeOK, Registry
  <2>2. DepTypeOK
    BY DEF DepTypeOK
  <2>3. StakeTypeOK
    BY DEF StakeTypeOK
  <2>4. StatsTypeOK
    BY DEF StatsTypeOK, ZeroMetadata
  <2> QED BY <2>1, <2>2, <2>3, <2>4 DEF TypeOK, ChannelStatus
<1>2. ASSUME NEW n \in Nat, NEW f, f = [i \in 1..n |-> 0] PROVE Sum(f, n) = 0
  BY <1>2, SumZero
<1>3. SettledWithinDeposit
  BY DEF SettledWithinDeposit
<1>4. ReservedBacksChannels
  <2>1. \A b \in Buyers : lockedOf(b) = [i \in 1..NumChannels |-> 0]
    BY DEF lockedOf, lockedFor
  <2>2. \A b \in Buyers : Sum(lockedOf(b), NumChannels) = 0
    BY <1>2, <2>1, ConstantsOK
  <2>3. \A b \in Buyers : reserved[b] = 0 /\ otherReserved[b] = 0
    OBVIOUS
  <2> QED BY <2>2, <2>3 DEF ReservedBacksChannels
<1>5. Solvent
  BY <1>2, ConstantsOK DEF Solvent
<1>6. ActiveCountExact
  <2>1. \A s \in Sellers : activeOf(s) = [i \in 1..NumChannels |-> 0]
    BY DEF activeOf
  <2> QED BY <1>2, <2>1, ConstantsOK DEF ActiveCountExact
<1>7. StakeBoundToAgent
  <2>1. NoAddress \notin Agents /\ NoAddress \notin Sellers
    BY RegistryAssumption
  <2>2. stakeHeld = Sum(stake, NumSellers)
    BY <1>2, ConstantsOK
  <2> QED BY <2>1, <2>2 DEF StakeBoundToAgent
<1> QED BY <1>1, <1>3, <1>4, <1>5, <1>6, <1>7 DEF AccountsInv

(* Every step of the contracts, of their users and of their owner preserves *)
(* the inductive invariant.                                                 *)
LEMMA NextInv == AccountsInv /\ [Next]_vars => AccountsInv'
<1> SUFFICES ASSUME AccountsInv, [Next]_vars PROVE AccountsInv'
  OBVIOUS
<1>1. CASE OwnerStep \/ TimeStep
  BY <1>1, OwnerOrTimeInv
<1>2. CASE DepositsStep
  BY <1>2, DepositsStepInv
<1>3. CASE StakingStep \/ \E s \in Sellers : unstakeSeller(s)
  BY <1>3, StakingInv
<1>4. CASE OtherChannelsStep
  BY <1>4, OtherChannelsInv
<1>5. ASSUME NEW c \in Channels, SignStep(c) PROVE AccountsInv'
  BY <1>5, SignOrRequestInv
<1>6. ASSUME NEW c \in Channels, SellerStep(c) PROVE AccountsInv'
  <2>1. CASE \E auth \in reserveAuths[c] : reserve(c, auth)
    BY <2>1, ReserveInv
  <2>2. CASE \E auth \in spendingAuths[c] : settle(c, auth)
    BY <2>2, SettleInv
  <2>3. CASE \E amount \in SignedAmounts \cup {0}, metadata \in Metadata,
                auth \in reserveAuths[c] : topUp(c, amount, metadata, auth)
    BY <2>3, TopUpInv, ConstantsOK
  <2>4. CASE \E finalAmount \in SignedAmounts \cup {settled[c]}, metadata \in Metadata :
                close(c, finalAmount, metadata)
    <3>1. settled[c] \in Nat
      BY DEF AccountsInv, TypeOK
    <3> QED BY <2>4, <3>1, CloseInv, ConstantsOK
  <2> QED BY <1>6, <2>1, <2>2, <2>3, <2>4 DEF SellerStep
<1>7. ASSUME NEW c \in Channels, OperatorStep(c) PROVE AccountsInv'
  BY <1>7, SignOrRequestInv, WithdrawInv DEF OperatorStep
<1>8. CASE UNCHANGED vars
  <2>1. TypeOK' /\ Solvent' /\ StakeBoundToAgent'
    BY <1>8 DEF vars, regVars, depVars, stakeVars, statsVars, chanVars, agentVars, authVars,
                otherVars, AccountsInv, TypeOK, RegTypeOK, DepTypeOK, StakeTypeOK,
                StatsTypeOK, Solvent, StakeBoundToAgent
  <2> QED BY <1>8, <2>1, QuietStep DEF vars, depVars, chanVars, otherVars
<1> QED BY <1>1, <1>2, <1>3, <1>4, <1>5, <1>6, <1>7, <1>8 DEF Next

(* In every reachable state the inductive invariant holds. *)
THEOREM AccountsCorrect == Spec => []AccountsInv
BY InitInv, NextInv, PTL DEF Spec

(* Every variable keeps its type: no counter, balance, lock or stake ever  *)
(* goes below zero, so that none of the contracts' checked subtractions on *)
(* them reverts by underflow.                                              *)
THEOREM TypeCorrect == Spec => []TypeOK
<1>1. AccountsInv => TypeOK
  BY DEF AccountsInv
<1> QED BY <1>1, AccountsCorrect, PTL

(* reserved is the sum of what the buyer's active channels have not settled. *)
THEOREM ReservedCorrect == Spec => []ReservedBacksChannels
<1>1. AccountsInv => ReservedBacksChannels
  BY DEF AccountsInv
<1> QED BY <1>1, AccountsCorrect, PTL

(* The custody contract can pay. *)
THEOREM SolventCorrect == Spec => []Solvent
<1>1. AccountsInv => Solvent
  BY DEF AccountsInv
<1> QED BY <1>1, AccountsCorrect, PTL

(* activeChannelCount counts the seller's active channels. *)
THEOREM ActiveCountCorrect == Spec => []ActiveCountExact
<1>1. AccountsInv => ActiveCountExact
  BY DEF AccountsInv
<1> QED BY <1>1, AccountsCorrect, PTL

(* Agents and stakes are bound one to one, whatever happens to the tokens. *)
THEOREM StakeBindingCorrect == Spec => []StakeBoundToAgent
<1>1. AccountsInv => StakeBoundToAgent
  BY DEF AccountsInv
<1> QED BY <1>1, AccountsCorrect, PTL

(* No settlement within a channel's deposit can fail for lack of funds,    *)
(* whatever the buyer, its operator and its other channels have done: the  *)
(* lock of one channel is covered by the buyer's reserved total, that by   *)
(* the buyer's balance, and that by what the contract holds.               *)
THEOREM SettlementFundedCorrect == Spec => []SettlementFunded
<1>1. AccountsInv => SettlementFunded
  <2> SUFFICES ASSUME AccountsInv, NEW c \in Channels, status[c] = "Active"
               PROVE  /\ settled[c] <= channelDeposit[c]
                      /\ lockedFor(c) <= reserved[BuyerOf[c]]
                      /\ lockedFor(c) <= balance[BuyerOf[c]]
                      /\ lockedFor(c) <= held
    BY DEF SettlementFunded
  <2> DEFINE b == BuyerOf[c]
  <2>1. b \in Buyers /\ NumChannels \in Nat /\ NumBuyers \in Nat
    BY ConstantsOK
  <2>2. /\ channelDeposit \in [Channels -> Nat] /\ settled \in [Channels -> Nat]
        /\ balance \in [Buyers -> Nat] /\ reserved \in [Buyers -> Nat]
        /\ otherReserved \in [Buyers -> Nat] /\ held \in Nat
        /\ \A x \in Channels : settled[x] <= channelDeposit[x]
    BY DEF AccountsInv, TypeOK, DepTypeOK, SettledWithinDeposit
  <2>3. lockedOf(b) \in [1..NumChannels -> Nat] /\ lockedOf(b)[c] = lockedFor(c)
    BY <2>2 DEF lockedOf, lockedFor
  <2>4. lockedFor(c) <= Sum(lockedOf(b), NumChannels) /\ Sum(lockedOf(b), NumChannels) \in Nat
    BY <2>1, <2>3, SumMember, SumNat
  <2>5. reserved[b] = Sum(lockedOf(b), NumChannels) + otherReserved[b] /\ reserved[b] <= balance[b]
    BY <2>1 DEF AccountsInv, ReservedBacksChannels, Solvent
  <2>6. balance[b] <= Sum(balance, NumBuyers) /\ held = Sum(balance, NumBuyers)
    BY <2>1, <2>2, SumMember DEF AccountsInv, Solvent
  <2>7. lockedFor(c) \in Nat
    BY <2>2 DEF lockedFor
  <2>8. /\ balance[b] \in Nat /\ reserved[b] \in Nat /\ otherReserved[b] \in Nat
        /\ settled[c] <= channelDeposit[c]
    BY <2>1, <2>2
  <2> HIDE DEF b
  <2> QED BY <2>2, <2>4, <2>5, <2>6, <2>7, <2>8 DEF b
<1> QED BY <1>1, AccountsCorrect, PTL

-----------------------------------------------------------------------------
(***************************************************************************)
(* A seller takes its stake back only when it serves no channel.           *)
(***************************************************************************)

(* A seller whose count is zero has no active channel. *)
LEMMA ZeroCountServesNone ==
  ASSUME AccountsInv, NEW s \in Sellers, activeChannelCount[s] = 0,
         NEW c \in Channels, SellerOf[c] = s
  PROVE  status[c] # "Active"
<1> SUFFICES ASSUME status[c] = "Active" PROVE FALSE
  OBVIOUS
<1>1. activeChannelCount[SellerOf[c]] - 1 \in Nat
  BY CountPositive DEF AccountsInv
<1> QED BY <1>1

(* Only unstake lowers a stake, and it asks for the exact count. *)
THEOREM StakeStays == Spec => StakeStaysWhileServing
<1> DEFINE Safe == \A s \in Sellers : stake'[s] < stake[s] /\ registry.channels =>
                     \A c \in Channels : SellerOf[c] = s => status[c] # "Active"
<1>1. AccountsInv /\ [Next]_vars => [Safe]_vars
  <2> SUFFICES ASSUME AccountsInv, Next, NEW s \in Sellers, stake'[s] < stake[s],
                      registry.channels
               PROVE  activeChannelCount[s] = 0
    BY ZeroCountServesNone DEF vars
  <2>1. stake \in [Sellers -> Nat]
    BY DEF AccountsInv, TypeOK, StakeTypeOK
  <2>2. stake' # stake
    <3> SUFFICES ASSUME stake' = stake PROVE FALSE
      OBVIOUS
    <3>1. stake[s] \in Nat /\ stake'[s] = stake[s]
      BY <2>1
    <3> HIDE <2>1
    <3> QED BY <3>1
  <2>3. ASSUME NEW x \in Sellers, unstakeSeller(x) PROVE activeChannelCount[s] = 0
    <3>1. /\ stake' = [stake EXCEPT ![x] = 0]
          /\ activeChannelCount[x] = 0
      BY <2>3 DEF unstakeSeller, unstake
    <3> QED BY <2>1, <3>1
  <2>4. ASSUME NEW x \in Sellers, NEW a \in Agents, NEW amount \in StakeAmounts,
               stakeFor(x, a, amount)
        PROVE  FALSE
    <3>1. amount \in Nat /\ stake' = [stake EXCEPT ![x] = stake[x] + amount]
      BY <2>4, StakingAssumption DEF stakeFor
    <3> QED BY <2>1, <3>1
  <2>5. ASSUME NEW a \in Agents, NEW x \in Sellers, transferAgent(a, x) PROVE FALSE
    BY <2>2, <2>5 DEF transferAgent
  <2>6. CASE StakingStep
    BY <2>4, <2>5, <2>6 DEF StakingStep
  <2>7. ~(OwnerStep \/ TimeStep \/ DepositsStep \/ OtherChannelsStep)
    BY <2>2 DEF OwnerStep, TimeStep, DepositsStep, OtherChannelsStep, otherChannels, stakeVars
  <2>8. \A c \in Channels : ~(SignStep(c) \/ SellerStep(c) \/ OperatorStep(c))
    BY <2>2 DEF SignStep, SellerStep, OperatorStep, signReserveAuth, signSpendingAuth, reserve,
                settle, topUp, close, requestClose, withdrawChannel, stakeVars
  <2> QED BY <2>3, <2>6, <2>7, <2>8 DEF Next
<1>2. Spec => [][Safe]_vars
  BY <1>1, AccountsCorrect, PTL DEF Spec
<1> QED BY <1>2 DEF StakeStaysWhileServing
=============================================================================
