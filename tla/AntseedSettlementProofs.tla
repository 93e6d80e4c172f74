----------------------- MODULE AntseedSettlementProofs -----------------------
(***************************************************************************)
(* Proofs about what the contracts did in the past: who signed for what    *)
(* was paid, where the money went, what was counted for whom.  The         *)
(* invariants here relate settlements to signatures, payouts, usage totals *)
(* and reputation; each needs that the accounts are in order               *)
(* (AccountsInv), and one case for each kind of step below.                *)
(***************************************************************************)
EXTENDS AntseedChannelsProofs, FiniteSetTheorems

USE DEF Buyers, Sellers, Agents, Channels

(* Every signature stays valid: nobody takes one back. *)
AuthsGrow ==
  \A c \in Channels : reserveAuths[c] \subseteq reserveAuths'[c]
                      /\ spendingAuths[c] \subseteq spendingAuths'[c]

(* A close is requested once, of an active channel. *)
CloseRequestsStay ==
  \A c \in Channels : \/ closeRequestedAt'[c] = closeRequestedAt[c]
                      \/ status[c] = "Active" /\ closeRequestedAt[c] = 0

(* A step that settles nothing and opens or ends no channel. *)
NothingSettled ==
  /\ UNCHANGED <<status, channelDeposit, settled, metadataOf, deadline, earned, fees, otherPaid,
                 statsVars, agentVars>>
  /\ AuthsGrow
  /\ CloseRequestsStay

(* What settle, topUp and close do through _settleSpend. *)
Spends(c, amount, m, lock, release) ==
  /\ status[c] = "Active"
  /\ settleSpend(c, amount, m)
  /\ channelTransfer(BuyerOf[c], SellerOf[c], spendDelta(c, amount),
                     platformFee(spendDelta(c, amount)), lock, release)
  /\ UNCHANGED <<closeRequestedAt, regVars, stakeVars, authVars, otherVars>>

(* The three ways to spend. *)
SpendStep(c) ==
  \/ \E auth \in spendingAuths[c] : settle(c, auth)
  \/ \E amount \in SignedAmounts \cup {0}, metadata \in Metadata,
        auth \in reserveAuths[c] : topUp(c, amount, metadata, auth)
  \/ \E finalAmount \in SignedAmounts \cup {settled[c]}, metadata \in Metadata :
        close(c, finalAmount, metadata)

(* Every step is a reserve, a spending, a withdrawal, a transfer by the    *)
(* other Channels contract, or settles nothing.                            *)
LEMMA StepKinds ==
  ASSUME AccountsInv, [Next]_vars
  PROVE  \/ \E c \in Channels : \E auth \in reserveAuths[c] : reserve(c, auth)
         \/ \E c \in Channels : SpendStep(c)
         \/ \E c \in Channels, caller \in Operators : withdrawChannel(c, caller)
         \/ OtherChannelsStep
         \/ NothingSettled
<1> USE DEF regVars, depVars, stakeVars, statsVars, chanVars, agentVars, authVars, otherVars
<1>1. CASE OwnerStep \/ TimeStep \/ StakingStep \/ (\E s \in Sellers : unstakeSeller(s))
  BY <1>1 DEF OwnerStep, TimeStep, StakingStep, unstakeSeller, NothingSettled, AuthsGrow, CloseRequestsStay
<1>2. CASE DepositsStep
  <2>1. UNCHANGED <<regVars, stakeVars, statsVars, chanVars, agentVars, authVars, otherVars>>
    BY <1>2 DEF DepositsStep
  <2>2. UNCHANGED <<earned, fees>>
    BY <1>2 DEF DepositsStep, deposit, withdrawDeposit, signSetOperator, setOperator,
                transferOperator, setCreditLimitOverride
  <2> QED BY <2>1, <2>2 DEF NothingSettled, AuthsGrow, CloseRequestsStay
<1>3. ASSUME NEW c \in Channels, SignStep(c) PROVE NothingSettled
  <2>1. UNCHANGED <<regVars, depVars, stakeVars, statsVars, chanVars, agentVars, otherVars>>
    BY <1>3 DEF SignStep, signReserveAuth, signSpendingAuth
  <2>2. AuthsGrow
    <3>1. reserveAuths \in [Channels -> SUBSET ReserveAuth]
          /\ spendingAuths \in [Channels -> SUBSET SpendingAuth]
      BY DEF AccountsInv, TypeOK
    <3>2. ASSUME NEW auth \in ReserveAuth, signReserveAuth(c, auth) PROVE AuthsGrow
      BY <3>1, <3>2 DEF signReserveAuth, AuthsGrow
    <3>3. ASSUME NEW auth \in SpendingAuth, signSpendingAuth(c, auth) PROVE AuthsGrow
      BY <3>1, <3>3 DEF signSpendingAuth, AuthsGrow
    <3> QED BY <1>3, <3>2, <3>3 DEF SignStep
  <2> QED BY <2>1, <2>2 DEF NothingSettled, CloseRequestsStay
<1>4. ASSUME NEW c \in Channels, NEW caller \in Operators, requestClose(c, caller)
      PROVE  NothingSettled
  <2>1. CloseRequestsStay
    <3>1. closeRequestedAt \in [Channels -> Nat]
      BY DEF AccountsInv, TypeOK
    <3> QED BY <1>4, <3>1 DEF requestClose, isActive, CloseRequestsStay
  <2> QED BY <1>4, <2>1 DEF requestClose, NothingSettled, AuthsGrow
<1>5. CASE UNCHANGED vars
  BY <1>5 DEF vars, NothingSettled, AuthsGrow, CloseRequestsStay
<1>6. ASSUME NEW c \in Channels, SellerStep(c)
      PROVE  SpendStep(c) \/ \E auth \in reserveAuths[c] : reserve(c, auth)
  BY <1>6 DEF SellerStep, SpendStep
<1>7. ASSUME NEW c \in Channels, OperatorStep(c)
      PROVE  NothingSettled \/ \E caller \in Operators : withdrawChannel(c, caller)
  BY <1>4, <1>7 DEF OperatorStep
<1> QED BY <1>1, <1>2, <1>3, <1>5, <1>6, <1>7 DEF Next

(* The amounts and the metadata of a spending, and what it has in common   *)
(* with the other two.                                                     *)
LEMMA SpendingOf ==
  ASSUME AccountsInv, NEW c \in Channels, SpendStep(c)
  PROVE  \E amount \in Nat, m \in Metadata, lock \in Nat, release \in Nat :
           /\ Spends(c, amount, m, lock, release)
           /\ settled[c] + spendDelta(c, amount) <= channelDeposit[c]
           /\ \/ /\ UNCHANGED <<status, channelDeposit, deadline, channelCount, ghostCount>>
                 /\ lock = 0 /\ release = 0
              \/ /\ UNCHANGED <<status, channelCount, ghostCount>>
                 /\ release = 0
                 /\ \E auth \in reserveAuths[c] :
                      /\ lock = auth.maxAmount - channelDeposit[c]
                      /\ closeRequestedAt[c] = 0 /\ auth.maxAmount > channelDeposit[c]
                      /\ channelDeposit' = [channelDeposit EXCEPT ![c] = auth.maxAmount]
                      /\ deadline' = [deadline EXCEPT ![c] = auth.deadline]
              \/ /\ UNCHANGED <<channelDeposit, deadline, ghostCount>>
                 /\ lock = 0 /\ release = unsettledAfter(c, spendDelta(c, amount))
                 /\ status' = [status EXCEPT ![c] = "Settled"]
                 /\ channelCount' = bump(channelCount, c, 1)
<1>0. /\ channelDeposit[c] \in Nat /\ settled[c] \in Nat /\ settled[c] <= channelDeposit[c]
      /\ reserveAuths[c] \subseteq ReserveAuth /\ spendingAuths[c] \subseteq SpendingAuth
  BY DEF AccountsInv, TypeOK, SettledWithinDeposit
<1>1. ASSUME NEW auth \in spendingAuths[c], settle(c, auth)
      PROVE  /\ auth.cumulativeAmount \in Nat /\ auth.metadata \in Metadata /\ 0 \in Nat
             /\ Spends(c, auth.cumulativeAmount, auth.metadata, 0, 0)
             /\ settled[c] + spendDelta(c, auth.cumulativeAmount) <= channelDeposit[c]
             /\ UNCHANGED <<status, channelDeposit, deadline, channelCount, ghostCount>>
  <2>1. auth.cumulativeAmount \in Nat /\ auth.metadata \in Metadata
    BY <1>0, ConstantsOK DEF SpendingAuth
  <2>2. settled[c] + spendDelta(c, auth.cumulativeAmount) <= channelDeposit[c]
    BY <1>0, <1>1, <2>1 DEF settle, spendDelta
  <2> QED BY <1>1, <2>1, <2>2 DEF settle, Spends, isActive
<1>2. ASSUME NEW amount \in SignedAmounts \cup {0}, NEW m \in Metadata,
             NEW auth \in reserveAuths[c], topUp(c, amount, m, auth)
      PROVE  /\ amount \in Nat /\ auth.maxAmount - channelDeposit[c] \in Nat /\ 0 \in Nat
             /\ Spends(c, amount, m, auth.maxAmount - channelDeposit[c], 0)
             /\ settled[c] + spendDelta(c, amount) <= channelDeposit[c]
             /\ UNCHANGED <<status, channelCount, ghostCount>>
             /\ closeRequestedAt[c] = 0 /\ auth.maxAmount > channelDeposit[c]
             /\ channelDeposit' = [channelDeposit EXCEPT ![c] = auth.maxAmount]
             /\ deadline' = [deadline EXCEPT ![c] = auth.deadline]
  <2>1. auth.maxAmount \in Nat
    BY <1>0, ConstantsOK DEF ReserveAuth
  <2>2. auth.maxAmount > channelDeposit[c]
    BY <1>2 DEF topUp
  <2>3. auth.maxAmount - channelDeposit[c] \in Nat
    BY <1>0, <2>1, <2>2
  <2>4. amount \in Nat
    <3>1. SignedAmounts \subseteq Nat
      BY ConstantsOK
    <3> QED BY <3>1
  <2>5. settled[c] + spendDelta(c, amount) <= channelDeposit[c]
    BY <1>0, <1>2, <2>4 DEF topUp, spendDelta
  <2> QED BY <1>2, <2>2, <2>3, <2>4, <2>5 DEF topUp, Spends, isActive
<1>3. ASSUME NEW amount \in SignedAmounts \cup {settled[c]}, NEW m \in Metadata,
             close(c, amount, m)
      PROVE  LET rest == unsettledAfter(c, spendDelta(c, amount)) IN
             /\ amount \in Nat /\ rest \in Nat /\ 0 \in Nat
             /\ Spends(c, amount, m, 0, rest)
             /\ settled[c] + spendDelta(c, amount) <= channelDeposit[c]
             /\ UNCHANGED <<channelDeposit, deadline, ghostCount>>
             /\ status' = [status EXCEPT ![c] = "Settled"]
             /\ channelCount' = bump(channelCount, c, 1)
  <2>1. amount \in Nat
    BY <1>0, ConstantsOK
  <2>2. amount <= channelDeposit[c]
    BY <1>3 DEF close
  <2>3. unsettledAfter(c, spendDelta(c, amount)) \in Nat
    BY <1>0, <2>1, <2>2 DEF unsettledAfter, spendDelta
  <2>4. settled[c] + spendDelta(c, amount) <= channelDeposit[c]
    BY <1>0, <2>1, <2>2 DEF spendDelta
  <2> QED BY <1>3, <2>1, <2>3, <2>4 DEF close, Spends, isActive
<1> QED BY <1>1, <1>2, <1>3 DEF SpendStep

(* How much a spending charges, and the signature it needs to charge any.  *)
LEMMA ChargeOf ==
  ASSUME AccountsInv, NEW c \in Channels, NEW amount \in Nat, NEW m \in Metadata,
         NEW lock \in Nat, NEW release \in Nat, Spends(c, amount, m, lock, release)
  PROVE  /\ spendDelta(c, amount) \in Nat
         /\ platformFee(spendDelta(c, amount)) \in Nat
         /\ settled' = [settled EXCEPT ![c] = settled[c] + spendDelta(c, amount)]
         /\ metadataOf' = [metadataOf EXCEPT ![c] =
                             IF spendDelta(c, amount) > 0 THEN m ELSE metadataOf[c]]
         /\ spendDelta(c, amount) > 0 =>
              /\ settled[c] + spendDelta(c, amount) = amount
              /\ [cumulativeAmount |-> amount, metadata |-> m] \in spendingAuths[c]
<1>1. settled[c] \in Nat
  BY DEF AccountsInv, TypeOK
<1>2. settleSpend(c, amount, m)
  BY DEF Spends
<1>3. /\ spendDelta(c, amount) \in Nat
      /\ platformFee(spendDelta(c, amount)) \in Nat
      /\ settled' = [settled EXCEPT ![c] = settled[c] + spendDelta(c, amount)]
  BY <1>2, SpendFacts
<1>4. spendDelta(c, amount) > 0 => /\ amount > settled[c]
                                  /\ settled[c] + spendDelta(c, amount) = amount
  BY <1>1 DEF spendDelta
<1>5. spendDelta(c, amount) > 0 =>
        [cumulativeAmount |-> amount, metadata |-> m] \in spendingAuths[c]
  BY <1>2, <1>4 DEF settleSpend, spendAuthorized
<1>6. metadataOf' = [metadataOf EXCEPT ![c] =
                      IF spendDelta(c, amount) > 0 THEN m ELSE metadataOf[c]]
  BY <1>2 DEF settleSpend
<1> QED BY <1>3, <1>4, <1>5, <1>6

(***************************************************************************)
(* Nobody pays or locks what was not signed.                               *)
(***************************************************************************)
LEMMA SignedStep ==
  ASSUME AccountsInv, PaidOnlyWhatWasSigned, [Next]_vars
  PROVE  PaidOnlyWhatWasSigned'
<1> USE DEF PaidOnlyWhatWasSigned
<1>0. /\ settled \in [Channels -> Nat] /\ status \in [Channels -> ChannelStatus]
      /\ metadataOf \in [Channels -> Metadata \cup {ZeroMetadata}]
      /\ channelDeposit \in [Channels -> Nat] /\ deadline \in [Channels -> Nat]
      /\ reserveAuths \in [Channels -> SUBSET ReserveAuth]
      /\ spendingAuths \in [Channels -> SUBSET SpendingAuth]
  BY DEF AccountsInv, TypeOK
<1>a. \A c \in Channels : \A auth \in reserveAuths[c] :
        auth = [maxAmount |-> auth.maxAmount, deadline |-> auth.deadline]
  BY <1>0 DEF ReserveAuth
<1>1. ASSUME NEW c \in Channels, NEW auth \in reserveAuths[c], reserve(c, auth)
      PROVE  PaidOnlyWhatWasSigned'
  <2>1. /\ status' = [status EXCEPT ![c] = "Active"]
        /\ channelDeposit' = [channelDeposit EXCEPT ![c] = auth.maxAmount]
        /\ settled' = [settled EXCEPT ![c] = 0]
        /\ metadataOf' = [metadataOf EXCEPT ![c] = ZeroMetadata]
        /\ deadline' = [deadline EXCEPT ![c] = auth.deadline]
        /\ UNCHANGED <<reserveAuths, spendingAuths>>
    BY <1>1 DEF reserve, authVars
  <2>2. ASSUME NEW x \in Channels, settled'[x] > 0
        PROVE  [cumulativeAmount |-> settled'[x], metadata |-> metadataOf'[x]]
                 \in spendingAuths'[x]
    <3>1. x # c
      BY <1>0, <2>1, <2>2
    <3>2. settled'[x] = settled[x] /\ metadataOf'[x] = metadataOf[x]
      BY <1>0, <2>1, <3>1
    <3> QED BY <2>1, <2>2, <3>2
  <2>3. ASSUME NEW x \in Channels, status'[x] # "None"
        PROVE  [maxAmount |-> channelDeposit'[x], deadline |-> deadline'[x]]
                 \in reserveAuths'[x]
    <3>1. CASE x = c
      BY <1>0, <1>a, <2>1, <3>1
    <3>2. CASE x # c
      BY <1>0, <2>1, <2>3, <3>2
    <3> QED BY <3>1, <3>2
  <2> QED BY <2>2, <2>3
<1>2. ASSUME NEW c \in Channels, SpendStep(c) PROVE PaidOnlyWhatWasSigned'
  <2>1. PICK amount \in Nat, m \in Metadata, lock \in Nat, release \in Nat :
           /\ Spends(c, amount, m, lock, release)
           /\ \/ /\ UNCHANGED <<status, channelDeposit, deadline>>
              \/ /\ UNCHANGED status
                 /\ \E auth \in reserveAuths[c] :
                      /\ channelDeposit' = [channelDeposit EXCEPT ![c] = auth.maxAmount]
                      /\ deadline' = [deadline EXCEPT ![c] = auth.deadline]
              \/ /\ UNCHANGED <<channelDeposit, deadline>>
                 /\ status' = [status EXCEPT ![c] = "Settled"]
    BY <1>2, SpendingOf
  <2> DEFINE delta == spendDelta(c, amount)
  <2>2. /\ delta \in Nat
        /\ settled' = [settled EXCEPT ![c] = settled[c] + delta]
        /\ metadataOf' = [metadataOf EXCEPT ![c] = IF delta > 0 THEN m ELSE metadataOf[c]]
        /\ delta > 0 => /\ settled[c] + delta = amount
                        /\ [cumulativeAmount |-> amount, metadata |-> m] \in spendingAuths[c]
    BY <2>1, ChargeOf
  <2>3. status[c] = "Active" /\ UNCHANGED <<reserveAuths, spendingAuths>>
    BY <2>1 DEF Spends, authVars
  <2> HIDE DEF delta
  <2>4. ASSUME NEW x \in Channels, settled'[x] > 0
        PROVE  [cumulativeAmount |-> settled'[x], metadata |-> metadataOf'[x]]
                 \in spendingAuths'[x]
    <3>1. CASE x = c /\ delta > 0
      BY <1>0, <2>2, <2>3, <3>1
    <3>2. CASE x # c \/ delta = 0
      <4>1. settled'[x] = settled[x] /\ metadataOf'[x] = metadataOf[x]
        BY <1>0, <2>2, <3>2
      <4> QED BY <2>3, <2>4, <4>1
    <3> QED BY <2>2, <3>1, <3>2
  <2>5. ASSUME NEW x \in Channels, status'[x] # "None"
        PROVE  [maxAmount |-> channelDeposit'[x], deadline |-> deadline'[x]]
                 \in reserveAuths'[x]
    <3>1. status[x] # "None"
      BY <1>0, <2>1, <2>3, <2>5
    <3>2. CASE \E auth \in reserveAuths[c] :
                 /\ x = c
                 /\ channelDeposit' = [channelDeposit EXCEPT ![c] = auth.maxAmount]
                 /\ deadline' = [deadline EXCEPT ![c] = auth.deadline]
      BY <1>0, <1>a, <2>3, <3>2
    <3>3. CASE channelDeposit'[x] = channelDeposit[x] /\ deadline'[x] = deadline[x]
      BY <2>3, <3>1, <3>3
    <3> QED BY <1>0, <2>1, <3>2, <3>3
  <2> QED BY <2>4, <2>5
<1>3. ASSUME NEW c \in Channels, NEW caller \in Operators, withdrawChannel(c, caller)
      PROVE  PaidOnlyWhatWasSigned'
  BY <1>0, <1>3 DEF withdrawChannel, isActive, authVars
<1>4. CASE OtherChannelsStep
  BY <1>4 DEF OtherChannelsStep, otherChannels, chanVars, authVars
<1>5. CASE NothingSettled
  BY <1>5 DEF NothingSettled, AuthsGrow
<1> QED BY <1>1, <1>2, <1>3, <1>4, <1>5, StepKinds

(* The buyer signed for what every channel has settled, recorded and       *)
(* locked, in every reachable state.                                       *)
THEOREM PaymentsSigned == Spec => []PaidOnlyWhatWasSigned
<1>1. Init => PaidOnlyWhatWasSigned
  BY DEF Init, PaidOnlyWhatWasSigned
<1>2. AccountsInv /\ PaidOnlyWhatWasSigned /\ [Next]_vars => PaidOnlyWhatWasSigned'
  BY SignedStep
<1> QED BY <1>1, <1>2, AccountsCorrect, PTL DEF Spec

(***************************************************************************)
(* Where the money went.                                                   *)
(***************************************************************************)

(* A fee is at most the maximal share of what it is taken from. *)
LEMMA PlatformFeeShare ==
  ASSUME TypeOK, NEW delta \in Nat
  PROVE  platformFee(delta) * BPS <= MAX_PLATFORM_FEE_BPS * delta
<1> DEFINE p == config.PLATFORM_FEE_BPS
           x == delta * p
<1>1. p \in Nat /\ MAX_PLATFORM_FEE_BPS \in Nat /\ p <= MAX_PLATFORM_FEE_BPS
  <2>1. config \in Configs
    BY DEF TypeOK, RegTypeOK
  <2>2. config \in Config
    BY <2>1, RegistryAssumption
  <2>3. p \in 0..BPS
    BY <2>2 DEF Config
  <2>4. MAX_PLATFORM_FEE_BPS \in 0..BPS /\ p <= MAX_PLATFORM_FEE_BPS
    BY <2>1, ChannelsAssumption
  <2> HIDE DEF p
  <2> QED BY <2>3, <2>4 DEF BPS
<1> HIDE DEF p
<1>2. x \in Nat /\ x <= MAX_PLATFORM_FEE_BPS * delta
  <2>1. \A d \in Nat, q \in Nat, k \in Nat : q <= k => d * q \in Nat /\ d * q <= k * d
    OBVIOUS
  <2> QED BY <1>1, <2>1
<1> HIDE DEF x
<1>3. (x \div 10000) * 10000 <= x
  BY <1>2
<1>4. MAX_PLATFORM_FEE_BPS * delta \in Nat
  BY <1>1
<1>5. platformFee(delta) = x \div 10000
  BY DEF platformFee, BPS, x, p
<1> QED BY <1>2, <1>3, <1>4, <1>5 DEF BPS

(* Every unit charged goes to the seller or to the reserve, and the        *)
(* reserve gets no more than its share.                                    *)
LEMMA TransferPaysOut ==
  ASSUME TypeOK, PayoutsConserved, FeeBounded,
         NEW b \in Buyers, NEW s \in Sellers, NEW charge \in Nat,
         NEW lock \in Nat, NEW release \in Nat, NEW total \in Nat,
         total = settledTotal + otherPaid,
         total + charge = settledTotal' + otherPaid',
         channelTransfer(b, s, charge, platformFee(charge), lock, release)
  PROVE  PayoutsConserved' /\ FeeBounded'
<1> DEFINE due == platformFeeDue(platformFee(charge))
           payout == sellerPayout(charge, platformFee(charge))
<1>1. /\ platformFee(charge) \in Nat
      /\ platformFee(charge) * BPS <= MAX_PLATFORM_FEE_BPS * charge
      /\ platformFee(charge) <= charge
  BY PlatformFeeBounded, PlatformFeeShare
<1>2. MAX_PLATFORM_FEE_BPS \in Nat
  BY ChannelsAssumption DEF BPS
<1>3. due \in Nat /\ due <= platformFee(charge) /\ payout = charge - due
  BY <1>1 DEF platformFeeDue, sellerPayout
<1>4. /\ earned \in [Sellers -> Nat] /\ fees \in Nat
      /\ earned' = [earned EXCEPT ![s] = earned[s] + payout]
      /\ fees' = fees + due
  BY DEF TypeOK, DepTypeOK, channelTransfer
<1> HIDE DEF due, payout
<1>5. payout \in Nat
  BY <1>1, <1>3
<1>6. Sum(earned', NumSellers) = Sum(earned, NumSellers) + payout
  <2>1. NumSellers \in Nat
    BY ConstantsOK
  <2>2. earned \in [1..NumSellers -> Int] /\ earned' \in [1..NumSellers -> Int]
    BY <1>4, <1>5
  <2>3. \A x \in 1..NumSellers : x # s => earned'[x] = earned[x]
    BY <1>4
  <2>4. Sum(earned', NumSellers) = Sum(earned, NumSellers) + earned'[s] - earned[s]
    BY <2>1, <2>2, <2>3, SumUpdate
  <2>5. Sum(earned, NumSellers) \in Int
    BY <2>1, <2>2, SumInt
  <2>6. earned'[s] = earned[s] + payout /\ earned[s] \in Nat
    BY <1>4
  <2> QED BY <1>5, <2>4, <2>5, <2>6
<1>7. Sum(earned, NumSellers) \in Nat
  BY <1>4, ConstantsOK, SumNat
<1>8. PayoutsConserved'
  BY <1>3, <1>4, <1>5, <1>6, <1>7 DEF PayoutsConserved
<1>9. FeeBounded'
  <2>1. fees * BPS <= MAX_PLATFORM_FEE_BPS * total
    BY DEF FeeBounded
  <2>2. due * BPS <= MAX_PLATFORM_FEE_BPS * charge
    <3>1. \A n \in Nat : MAX_PLATFORM_FEE_BPS * n \in Nat
      BY <1>2
    <3> QED BY <1>1, <1>3, <3>1 DEF BPS
  <2>3. (fees + due) * BPS = fees * BPS + due * BPS
    BY <1>3, <1>4 DEF BPS
  <2>4. \A k \in Nat, x \in Nat, y \in Nat : k * (x + y) = k * x + k * y /\ k * x \in Nat
    OBVIOUS
  <2>5. MAX_PLATFORM_FEE_BPS * (total + charge)
          = MAX_PLATFORM_FEE_BPS * total + MAX_PLATFORM_FEE_BPS * charge
    BY <1>2, <2>4
  <2>6. /\ fees * BPS \in Nat /\ due * BPS \in Nat
        /\ MAX_PLATFORM_FEE_BPS * total \in Nat /\ MAX_PLATFORM_FEE_BPS * charge \in Nat
    BY <1>2, <1>3, <1>4, <2>4 DEF BPS
  <2>7. fees' * BPS <= MAX_PLATFORM_FEE_BPS * (total + charge)
    BY <1>4, <2>1, <2>2, <2>3, <2>5, <2>6
  <2> QED BY <2>7, ChannelsAssumption DEF FeeBounded
<1> QED BY <1>8, <1>9

(* What all channels have settled grows by what one of them settles. *)
LEMMA SettledTotalUpdate ==
  ASSUME AccountsInv, NEW c \in Channels, NEW delta \in Nat,
         settled' = [settled EXCEPT ![c] = settled[c] + delta]
  PROVE  settledTotal' = settledTotal + delta
<1>1. NumChannels \in Nat /\ settled \in [1..NumChannels -> Nat]
  BY ConstantsOK DEF AccountsInv, TypeOK
<1>2. settled' \in [1..NumChannels -> Int] /\ settled \in [1..NumChannels -> Int]
  BY <1>1
<1>3. \A x \in 1..NumChannels : x # c => settled'[x] = settled[x]
  BY <1>1
<1>4. settled'[c] = settled[c] + delta /\ settled[c] \in Nat
  BY <1>1
<1>5. Sum(settled', NumChannels) = Sum(settled, NumChannels) + settled'[c] - settled[c]
  BY <1>1, <1>2, <1>3, SumUpdate
<1>6. Sum(settled, NumChannels) \in Nat
  BY <1>1, SumNat
<1> QED BY <1>4, <1>5, <1>6 DEF settledTotal

(* A channel that does not exist yet has nothing locked, settled or        *)
(* requested.                                                              *)
UnusedClean ==
  \A c \in Channels : status[c] = "None" =>
    channelDeposit[c] = 0 /\ settled[c] = 0 /\ closeRequestedAt[c] = 0

LEMMA UnusedStep ==
  ASSUME AccountsInv, UnusedClean, [Next]_vars
  PROVE  UnusedClean'
<1>0. /\ settled \in [Channels -> Nat] /\ status \in [Channels -> ChannelStatus]
      /\ channelDeposit \in [Channels -> Nat] /\ closeRequestedAt \in [Channels -> Nat]
  BY DEF AccountsInv, TypeOK
<1>1. ASSUME NEW c \in Channels, NEW auth \in reserveAuths[c], reserve(c, auth)
      PROVE  UnusedClean'
  BY <1>0, <1>1 DEF reserve, UnusedClean
<1>2. ASSUME NEW c \in Channels, SpendStep(c) PROVE UnusedClean'
  <2>1. PICK amount \in Nat, m \in Metadata, lock \in Nat, release \in Nat :
           /\ Spends(c, amount, m, lock, release)
           /\ \/ UNCHANGED <<status, channelDeposit>>
              \/ /\ UNCHANGED status
                 /\ \E auth \in reserveAuths[c] :
                      channelDeposit' = [channelDeposit EXCEPT ![c] = auth.maxAmount]
              \/ /\ UNCHANGED channelDeposit
                 /\ status' = [status EXCEPT ![c] = "Settled"]
    BY <1>2, SpendingOf
  <2>2. /\ settled' = [settled EXCEPT ![c] = settled[c] + spendDelta(c, amount)]
        /\ status[c] = "Active" /\ UNCHANGED closeRequestedAt
    BY <2>1, ChargeOf DEF Spends
  <2> QED BY <1>0, <2>1, <2>2 DEF UnusedClean
<1>3. ASSUME NEW c \in Channels, NEW caller \in Operators, withdrawChannel(c, caller)
      PROVE  UnusedClean'
  BY <1>0, <1>3 DEF withdrawChannel, isActive, UnusedClean
<1>4. CASE OtherChannelsStep
  BY <1>4 DEF OtherChannelsStep, otherChannels, chanVars, UnusedClean
<1>5. CASE NothingSettled
  BY <1>5 DEF NothingSettled, CloseRequestsStay, UnusedClean
<1> QED BY <1>1, <1>2, <1>3, <1>4, <1>5, StepKinds

LEMMA UnusedCorrect == Spec => []UnusedClean
<1>1. Init => UnusedClean
  BY DEF Init, UnusedClean
<1>2. AccountsInv /\ UnusedClean /\ [Next]_vars => UnusedClean'
  BY UnusedStep
<1> QED BY <1>1, <1>2, AccountsCorrect, PTL DEF Spec

LEMMA PayoutsStep ==
  ASSUME AccountsInv, UnusedClean, PayoutsConserved, FeeBounded, [Next]_vars
  PROVE  PayoutsConserved' /\ FeeBounded'
<1>0. /\ TypeOK /\ settled \in [Channels -> Nat] /\ otherPaid \in Nat
      /\ \A c \in Channels : BuyerOf[c] \in Buyers /\ SellerOf[c] \in Sellers
  BY ConstantsOK DEF AccountsInv, TypeOK
<1>a. settledTotal \in Nat
  BY <1>0, ConstantsOK, SumNat DEF settledTotal
<1>b. platformFee(0) = 0
  BY <1>0, PlatformFeeBounded
<1>1. ASSUME NEW c \in Channels, NEW auth \in reserveAuths[c], reserve(c, auth)
      PROVE  PayoutsConserved' /\ FeeBounded'
  <2>1. /\ settled' = [settled EXCEPT ![c] = 0] /\ settled[c] = 0 /\ UNCHANGED otherPaid
        /\ channelTransfer(BuyerOf[c], SellerOf[c], 0, 0, auth.maxAmount, 0)
    BY <1>1 DEF reserve, otherVars, UnusedClean
  <2>2. settledTotal' = settledTotal
    <3>1. settled' = settled
      BY <1>0, <2>1
    <3> QED BY <3>1 DEF settledTotal
  <2>3. auth.maxAmount \in Nat
    <3>1. auth \in ReserveAuth /\ SignedAmounts \subseteq Nat
      BY <1>0, ConstantsOK DEF TypeOK
    <3> QED BY <3>1 DEF ReserveAuth
  <2>4. settledTotal + otherPaid \in Nat
        /\ (settledTotal + otherPaid) + 0 = settledTotal' + otherPaid'
    BY <1>0, <1>a, <2>1, <2>2
  <2> QED BY <1>0, <1>b, <2>1, <2>3, <2>4, TransferPaysOut
<1>2. ASSUME NEW c \in Channels, SpendStep(c) PROVE PayoutsConserved' /\ FeeBounded'
  <2>1. PICK amount \in Nat, m \in Metadata, lock \in Nat, release \in Nat :
           Spends(c, amount, m, lock, release)
    BY <1>2, SpendingOf
  <2> DEFINE delta == spendDelta(c, amount)
  <2>2. delta \in Nat /\ settled' = [settled EXCEPT ![c] = settled[c] + delta]
    BY <2>1, ChargeOf
  <2>3. /\ channelTransfer(BuyerOf[c], SellerOf[c], delta, platformFee(delta), lock, release)
        /\ UNCHANGED otherPaid
    BY <2>1 DEF Spends, otherVars
  <2> HIDE DEF delta
  <2>4. settledTotal' = settledTotal + delta
    BY <2>2, SettledTotalUpdate
  <2>5. /\ settledTotal + otherPaid \in Nat
        /\ (settledTotal + otherPaid) + delta = settledTotal' + otherPaid'
    BY <1>0, <1>a, <2>2, <2>3, <2>4
  <2> QED BY <1>0, <2>2, <2>3, <2>5, TransferPaysOut
<1>3. ASSUME NEW c \in Channels, NEW caller \in Operators, withdrawChannel(c, caller)
      PROVE  PayoutsConserved' /\ FeeBounded'
  <2>1. /\ UNCHANGED <<settled, otherPaid>>
        /\ channelTransfer(BuyerOf[c], SellerOf[c], 0, 0, 0, channelDeposit[c] - (settled[c] + 0))
    BY <1>3 DEF withdrawChannel, otherVars, unsettledAfter
  <2>2. channelDeposit[c] - (settled[c] + 0) \in Nat
    BY <1>0 DEF AccountsInv, TypeOK, SettledWithinDeposit
  <2>3. settledTotal + otherPaid \in Nat
        /\ (settledTotal + otherPaid) + 0 = settledTotal' + otherPaid'
    BY <1>0, <1>a, <2>1 DEF settledTotal
  <2> QED BY <1>0, <1>b, <2>1, <2>2, <2>3, TransferPaysOut
<1>4. CASE OtherChannelsStep
  <2>1. PICK b \in Buyers, s \in Sellers, charge \in Nat, lock \in Nat, release \in Nat :
          otherChannels(b, s, charge, lock, release)
    <3>1. OtherAmounts \subseteq Nat /\ 0 \in Nat
      BY ChannelsAssumption
    <3> QED BY <1>4, <3>1 DEF OtherChannelsStep
  <2>2. /\ otherPaid' = otherPaid + charge /\ UNCHANGED settled
        /\ channelTransfer(b, s, charge, platformFee(charge), lock, release)
    BY <2>1 DEF otherChannels, chanVars
  <2>3. /\ settledTotal + otherPaid \in Nat
        /\ (settledTotal + otherPaid) + charge = settledTotal' + otherPaid'
    BY <1>0, <1>a, <2>2 DEF settledTotal
  <2> QED BY <1>0, <2>2, <2>3, TransferPaysOut
<1>5. CASE NothingSettled
  BY <1>5 DEF NothingSettled, PayoutsConserved, FeeBounded, settledTotal
<1> QED BY <1>1, <1>2, <1>3, <1>4, <1>5, StepKinds

(* In every reachable state all that was charged has reached a seller or   *)
(* the reserve, and the reserve has at most its share of it.               *)
LEMMA PayoutsCorrect == Spec => [](PayoutsConserved /\ FeeBounded)
<1>1. Init => PayoutsConserved /\ FeeBounded
  <2> SUFFICES ASSUME Init PROVE PayoutsConserved /\ FeeBounded
    OBVIOUS
  <2>1. /\ earned = [s \in 1..NumSellers |-> 0] /\ fees = 0 /\ otherPaid = 0
        /\ settled = [c \in 1..NumChannels |-> 0]
    BY DEF Init, DepInit
  <2>2. Sum(earned, NumSellers) = 0 /\ Sum(settled, NumChannels) = 0
    BY <2>1, ConstantsOK, SumZero
  <2>3. MAX_PLATFORM_FEE_BPS * (0 + 0) = 0 /\ 0 * BPS = 0
    BY ChannelsAssumption DEF BPS
  <2> QED BY <2>1, <2>2, <2>3 DEF PayoutsConserved, FeeBounded, settledTotal
<1>2. AccountsInv /\ UnusedClean /\ PayoutsConserved /\ FeeBounded /\ [Next]_vars
        => PayoutsConserved' /\ FeeBounded'
  BY PayoutsStep
<1> QED BY <1>1, <1>2, AccountsCorrect, UnusedCorrect, PTL DEF Spec

(* Every unit charged to a buyer reaches a seller or the protocol reserve. *)
THEOREM PayoutsConservedCorrect == Spec => []PayoutsConserved
BY PayoutsCorrect, PTL

(* The protocol never takes more than the maximal share of what was paid.  *)
THEOREM FeeBoundedCorrect == Spec => []FeeBounded
BY PayoutsCorrect, PTL

(***************************************************************************)
(* What was counted for whom.                                              *)
(***************************************************************************)
usageOf(b, f) == [a \in Agents |-> usage[<<a, b>>][f]]
snapshotsOf(b, f) == [c \in Channels |-> IF BuyerOf[c] = b THEN snapshot[c][f] ELSE 0]

(* Recording metadata adds to the totals of the buyer what it adds to the  *)
(* channel's snapshot.                                                     *)
LEMMA RecordCounts ==
  ASSUME TypeOK, UsageMatchesSnapshots, NEW c \in Channels, NEW m \in Metadata,
         agentOf(c) \in Agents, metadataGrows(c, m),
         recordMetadata(<<agentOf(c), BuyerOf[c]>>, c, m)
  PROVE  UsageMatchesSnapshots'
<1> DEFINE k == <<agentOf(c), BuyerOf[c]>>
           ag == agentOf(c)
<1>1. /\ usage \in [Agents \X Buyers -> [Counter -> Nat]]
      /\ snapshot \in [Channels -> [Counter -> Nat]]
      /\ m \in [Counter -> Nat]
      /\ BuyerOf[c] \in Buyers /\ NumAgents \in Nat /\ NumChannels \in Nat
  BY StatsAssumption, ConstantsOK DEF TypeOK, StatsTypeOK
<1>2. /\ snapshot' = [snapshot EXCEPT ![c] = m]
      /\ usage' = [usage EXCEPT ![k] = [f \in Counter |-> usage[k][f] + metadataDelta(c, m)[f]]]
  BY DEF recordMetadata
<1>3. ag \in Agents /\ k \in Agents \X Buyers /\ k = <<ag, BuyerOf[c]>>
  BY <1>1
<1> HIDE DEF k, ag
<1>4. SUFFICES ASSUME NEW b \in Buyers, NEW f \in Counter
               PROVE  Sum(usageOf(b, f)', NumAgents) = Sum(snapshotsOf(b, f)', NumChannels)
  BY DEF UsageMatchesSnapshots, usageOf, snapshotsOf
<1>5. Sum(usageOf(b, f), NumAgents) = Sum(snapshotsOf(b, f), NumChannels)
  BY DEF UsageMatchesSnapshots, usageOf, snapshotsOf
<1> DEFINE d == m[f] - snapshot[c][f]
<1>6. d \in Int /\ m[f] \in Nat /\ snapshot[c][f] \in Nat /\ metadataDelta(c, m)[f] = d
  BY <1>1 DEF metadataDelta
<1>7. \A a \in Agents : usage[<<a, b>>][f] \in Nat
  BY <1>1
<1>8. /\ usage'[k][f] = usage[k][f] + d
      /\ \A a \in Agents : <<a, b>> # k => usage'[<<a, b>>] = usage[<<a, b>>]
  BY <1>1, <1>2, <1>3, <1>6
<1> HIDE DEF d
<1>9. snapshot'[c][f] = m[f] /\ \A x \in Channels : x # c => snapshot'[x] = snapshot[x]
  BY <1>1, <1>2
<1>10. /\ usageOf(b, f) \in [1..NumAgents -> Int]
       /\ snapshotsOf(b, f) \in [1..NumChannels -> Int]
  BY <1>1 DEF usageOf, snapshotsOf
<1>11. Sum(usageOf(b, f), NumAgents) \in Int /\ Sum(snapshotsOf(b, f), NumChannels) \in Int
  BY <1>1, <1>10, SumInt
<1>12. CASE b = BuyerOf[c]
  <2>1. \A a \in 1..NumAgents : a # ag => usageOf(b, f)'[a] = usageOf(b, f)[a]
    BY <1>3, <1>8 DEF usageOf
  <2>2. usageOf(b, f)'[ag] = usageOf(b, f)[ag] + d
    BY <1>3, <1>8, <1>12 DEF usageOf
  <2>3. usageOf(b, f)[ag] \in Int
    BY <1>3, <1>10
  <2>4. usageOf(b, f)' \in [1..NumAgents -> Int]
    <3>1. \A a \in Agents : usageOf(b, f)'[a] \in Int
      BY <1>6, <1>10, <2>1, <2>2, <2>3
    <3> QED BY <3>1 DEF usageOf
  <2>5. Sum(usageOf(b, f)', NumAgents)
          = Sum(usageOf(b, f), NumAgents) + usageOf(b, f)'[ag] - usageOf(b, f)[ag]
    BY <1>1, <1>3, <1>10, <2>1, <2>4, SumUpdate
  <2>6. \A x \in 1..NumChannels : x # c => snapshotsOf(b, f)'[x] = snapshotsOf(b, f)[x]
    BY <1>9 DEF snapshotsOf
  <2>7. snapshotsOf(b, f)'[c] = m[f] /\ snapshotsOf(b, f)[c] = snapshot[c][f]
    BY <1>9, <1>12 DEF snapshotsOf
  <2>8. snapshotsOf(b, f)' \in [1..NumChannels -> Int]
    <3>1. \A x \in Channels : snapshotsOf(b, f)'[x] \in Int
      BY <1>6, <1>10, <2>6, <2>7
    <3> QED BY <3>1 DEF snapshotsOf
  <2>9. Sum(snapshotsOf(b, f)', NumChannels)
          = Sum(snapshotsOf(b, f), NumChannels) + m[f] - snapshot[c][f]
    BY <1>1, <1>10, <2>6, <2>7, <2>8, SumUpdate
  <2> QED BY <1>5, <1>6, <1>11, <2>2, <2>3, <2>5, <2>9 DEF d
<1>13. CASE b # BuyerOf[c]
  <2>1. usageOf(b, f)' = usageOf(b, f)
    BY <1>3, <1>8, <1>13 DEF usageOf
  <2>2. snapshotsOf(b, f)' = snapshotsOf(b, f)
    BY <1>9, <1>13 DEF snapshotsOf
  <2> QED BY <1>5, <2>1, <2>2
<1> QED BY <1>12, <1>13

LEMMA UsageStep ==
  ASSUME AccountsInv, UsageMatchesSnapshots, [Next]_vars
  PROVE  UsageMatchesSnapshots'
<1>0. ASSUME UNCHANGED statsVars PROVE UsageMatchesSnapshots'
  BY <1>0 DEF statsVars, UsageMatchesSnapshots
<1>1. ASSUME NEW c \in Channels, SpendStep(c) PROVE UsageMatchesSnapshots'
  <2>1. PICK amount \in Nat, m \in Metadata, lock \in Nat, release \in Nat :
           Spends(c, amount, m, lock, release)
    BY <1>1, SpendingOf
  <2>2. syncExternalMetadata(c, spendDelta(c, amount), m)
    BY <2>1 DEF Spends, settleSpend
  <2>3. CASE UNCHANGED statsVars
    BY <1>0, <2>3
  <2>4. CASE /\ agentOf(c) \in Agents /\ metadataGrows(c, m)
             /\ recordMetadata(<<agentOf(c), BuyerOf[c]>>, c, m)
    BY <2>4, RecordCounts DEF AccountsInv
  <2> QED BY <2>2, <2>3, <2>4 DEF syncExternalMetadata, recordMetadata
<1>2. CASE UNCHANGED statsVars
  BY <1>0, <1>2
<1>3. ASSUME ~(\E c \in Channels : SpendStep(c)) PROVE UNCHANGED statsVars
  BY <1>3, StepKinds DEF reserve, withdrawChannel, OtherChannelsStep, otherChannels,
                         NothingSettled
<1> QED BY <1>1, <1>2, <1>3

(* The usage totals of a buyer are the sum of the last metadata recorded   *)
(* for its channels, in every reachable state.                             *)
THEOREM UsageCorrect == Spec => []UsageMatchesSnapshots
<1>1. Init => UsageMatchesSnapshots
  <2> SUFFICES ASSUME Init, NEW b \in Buyers, NEW f \in Counter
               PROVE  Sum(usageOf(b, f), NumAgents) = Sum(snapshotsOf(b, f), NumChannels)
    BY DEF UsageMatchesSnapshots, usageOf, snapshotsOf
  <2>1. usageOf(b, f) = [a \in 1..NumAgents |-> 0]
    BY DEF Init, StatsInit, usageOf, ZeroMetadata
  <2>2. snapshotsOf(b, f) = [c \in 1..NumChannels |-> 0]
    BY DEF Init, StatsInit, snapshotsOf, ZeroMetadata
  <2>3. Sum(usageOf(b, f), NumAgents) = 0
    BY <2>1, ConstantsOK, SumZero
  <2>4. Sum(snapshotsOf(b, f), NumChannels) = 0
    BY <2>2, ConstantsOK, SumZero
  <2> QED BY <2>3, <2>4
<1>2. AccountsInv /\ UsageMatchesSnapshots /\ [Next]_vars => UsageMatchesSnapshots'
  BY UsageStep
<1> QED BY <1>1, <1>2, AccountsCorrect, PTL DEF Spec

(***************************************************************************)
(* Reputation is earned.                                                   *)
(***************************************************************************)
endedChannels == {c \in Channels : status[c] \in {"Settled", "TimedOut"}}
unpaidChannels == {c \in endedChannels : status[c] = "TimedOut" /\ settled[c] = 0}

(* ReputationEarned, with its sets named. *)
LEMMA ReputationEarnedIs ==
  ReputationEarned <=>
    /\ Sum(totalVolumeUsdc, NumAgents) <= settledTotal
    /\ Sum(ghostCount, NumAgents) <= Cardinality(unpaidChannels)
    /\ Sum(channelCount, NumAgents) + Sum(ghostCount, NumAgents) <= Cardinality(endedChannels)
BY DEF ReputationEarned, endedChannels, unpaidChannels

(* Counting n for the agent of a channel adds at most n to the total. *)
LEMMA BumpSum ==
  ASSUME NEW f \in [Agents -> Nat], NEW c, NEW n \in Nat
  PROVE  /\ Sum(f, NumAgents) \in Nat /\ Sum(bump(f, c, n), NumAgents) \in Nat
         /\ Sum(bump(f, c, n), NumAgents) <= Sum(f, NumAgents) + n
<1> DEFINE g == bump(f, c, n)
           ag == agentOf(c)
<1>1. NumAgents \in Nat /\ g \in [1..NumAgents -> Nat] /\ f \in [1..NumAgents -> Nat]
  BY ConstantsOK, BumpType
<1>2. Sum(f, NumAgents) \in Nat /\ Sum(g, NumAgents) \in Nat
  BY <1>1, SumNat
<1>3. CASE ag \in Agents
  <2>1. /\ \A a \in 1..NumAgents : a # ag => g[a] = f[a]
        /\ g[ag] = f[ag] + n /\ f[ag] \in Nat
    BY <1>3 DEF bump
  <2>2. f \in [1..NumAgents -> Int] /\ g \in [1..NumAgents -> Int]
    BY <1>1
  <2> HIDE DEF g, ag
  <2>3. Sum(g, NumAgents) = Sum(f, NumAgents) + g[ag] - f[ag]
    BY <1>1, <1>3, <2>1, <2>2, SumUpdate
  <2>4. Sum(g, NumAgents) = Sum(f, NumAgents) + n
    BY <1>2, <2>1, <2>3
  <2> QED BY <1>2, <2>4 DEF g
<1>4. CASE ag \notin Agents
  <2>1. g = f
    BY <1>1, <1>4 DEF bump
  <2> HIDE DEF g
  <2>2. Sum(f, NumAgents) <= Sum(f, NumAgents) + n
    BY <1>2
  <2> QED BY <1>2, <2>1, <2>2 DEF g
<1> QED BY <1>3, <1>4

(* The channels that have ended are finitely many. *)
LEMMA EndedFinite ==
  ASSUME NEW S, S \subseteq Channels
  PROVE  IsFiniteSet(S) /\ Cardinality(S) \in Nat
<1>1. IsFiniteSet(1..NumChannels)
  BY ConstantsOK, FS_Interval
<1>2. IsFiniteSet(S)
  BY <1>1, FS_Subset
<1> QED BY <1>2, FS_CardinalityType

LEMMA ReputationStep ==
  ASSUME AccountsInv, UnusedClean, ReputationEarned, [Next]_vars
  PROVE  ReputationEarned'
<1>0. /\ settled \in [Channels -> Nat] /\ status \in [Channels -> ChannelStatus]
      /\ channelCount \in [Agents -> Nat] /\ ghostCount \in [Agents -> Nat]
      /\ totalVolumeUsdc \in [Agents -> Nat]
  BY DEF AccountsInv, TypeOK
<1>a. /\ endedChannels \subseteq Channels /\ unpaidChannels \subseteq Channels
      /\ Cardinality(endedChannels) \in Nat /\ Cardinality(unpaidChannels) \in Nat
      /\ IsFiniteSet(endedChannels) /\ IsFiniteSet(unpaidChannels)
  BY EndedFinite DEF endedChannels, unpaidChannels
<1>b. /\ settledTotal \in Nat /\ Sum(totalVolumeUsdc, NumAgents) \in Nat
      /\ Sum(channelCount, NumAgents) \in Nat /\ Sum(ghostCount, NumAgents) \in Nat
  BY <1>0, ConstantsOK, SumNat DEF settledTotal
<1>c. /\ Sum(totalVolumeUsdc, NumAgents) <= settledTotal
      /\ Sum(ghostCount, NumAgents) <= Cardinality(unpaidChannels)
      /\ Sum(channelCount, NumAgents) + Sum(ghostCount, NumAgents)
           <= Cardinality(endedChannels)
  BY ReputationEarnedIs
<1>d. ASSUME /\ Sum(totalVolumeUsdc', NumAgents) <= settledTotal'
             /\ Sum(ghostCount', NumAgents) <= Cardinality(unpaidChannels')
             /\ Sum(channelCount', NumAgents) + Sum(ghostCount', NumAgents)
                  <= Cardinality(endedChannels')
      PROVE  ReputationEarned'
  BY <1>d DEF ReputationEarned, endedChannels, unpaidChannels
<1>1. ASSUME NEW c \in Channels, NEW auth \in reserveAuths[c], reserve(c, auth)
      PROVE  ReputationEarned'
  <2>1. /\ status[c] = "None" /\ status' = [status EXCEPT ![c] = "Active"]
        /\ settled' = [settled EXCEPT ![c] = 0] /\ settled[c] = 0
        /\ UNCHANGED <<channelCount, ghostCount, totalVolumeUsdc>>
    BY <1>1 DEF reserve, agentVars, UnusedClean
  <2>2. settled' = settled
    BY <1>0, <2>1
  <2>3. endedChannels' = endedChannels
    BY <1>0, <2>1 DEF endedChannels
  <2>4. unpaidChannels' = unpaidChannels
    BY <1>0, <2>1, <2>2 DEF unpaidChannels, endedChannels
  <2>5. settledTotal' = settledTotal
    BY <2>2 DEF settledTotal
  <2> QED BY <1>c, <1>d, <2>1, <2>3, <2>4, <2>5
<1>2. ASSUME NEW c \in Channels, SpendStep(c) PROVE ReputationEarned'
  <2>1. PICK amount \in Nat, m \in Metadata, lock \in Nat, release \in Nat :
           /\ Spends(c, amount, m, lock, release)
           /\ UNCHANGED ghostCount
           /\ \/ UNCHANGED <<status, channelCount>>
              \/ /\ status' = [status EXCEPT ![c] = "Settled"]
                 /\ channelCount' = bump(channelCount, c, 1)
    BY <1>2, SpendingOf
  <2> DEFINE delta == spendDelta(c, amount)
  <2>2. delta \in Nat /\ settled' = [settled EXCEPT ![c] = settled[c] + delta]
    BY <2>1, ChargeOf
  <2>3. status[c] = "Active" /\ totalVolumeUsdc' = bump(totalVolumeUsdc, c, delta)
    BY <2>1 DEF Spends, settleSpend
  <2> HIDE DEF delta
  <2>4. settledTotal' = settledTotal + delta
    BY <2>2, SettledTotalUpdate
  <2>5. Sum(totalVolumeUsdc', NumAgents) <= settledTotal'
    <3>1. /\ Sum(totalVolumeUsdc', NumAgents) \in Nat
          /\ Sum(totalVolumeUsdc', NumAgents) <= Sum(totalVolumeUsdc, NumAgents) + delta
      BY <1>0, <2>2, <2>3, BumpSum
    <3> QED BY <1>b, <1>c, <2>2, <2>4, <3>1
  <2>6. unpaidChannels' = unpaidChannels
    BY <1>0, <2>1, <2>2, <2>3 DEF unpaidChannels, endedChannels
  <2>7. Sum(channelCount', NumAgents) + Sum(ghostCount', NumAgents)
          <= Cardinality(endedChannels')
    <3>1. CASE UNCHANGED <<status, channelCount>>
      <4>1. endedChannels' = endedChannels
        BY <3>1 DEF endedChannels
      <4> QED BY <1>c, <2>1, <3>1, <4>1
    <3>2. CASE /\ status' = [status EXCEPT ![c] = "Settled"]
               /\ channelCount' = bump(channelCount, c, 1)
      <4>1. endedChannels' = endedChannels \cup {c} /\ c \notin endedChannels
        BY <1>0, <2>3, <3>2 DEF endedChannels
      <4>2. Cardinality(endedChannels') = Cardinality(endedChannels) + 1
        BY <1>a, <4>1, FS_AddElement
      <4>3. /\ Sum(channelCount', NumAgents) \in Nat
            /\ Sum(channelCount', NumAgents) <= Sum(channelCount, NumAgents) + 1
        BY <1>0, <3>2, BumpSum
      <4> QED BY <1>a, <1>b, <1>c, <2>1, <4>2, <4>3
    <3> QED BY <2>1, <3>1, <3>2
  <2> QED BY <1>c, <1>d, <2>1, <2>5, <2>6, <2>7
<1>3. ASSUME NEW c \in Channels, NEW caller \in Operators, withdrawChannel(c, caller)
      PROVE  ReputationEarned'
  <2>1. /\ status[c] = "Active" /\ status' = [status EXCEPT ![c] = "TimedOut"]
        /\ UNCHANGED <<settled, totalVolumeUsdc>>
        /\ \/ /\ settled[c] = 0
              /\ ghostCount' = bump(ghostCount, c, 1) /\ UNCHANGED channelCount
           \/ /\ settled[c] # 0
              /\ channelCount' = bump(channelCount, c, 1) /\ UNCHANGED ghostCount
    BY <1>3 DEF withdrawChannel, isActive, ghosted
  <2>2. endedChannels' = endedChannels \cup {c} /\ c \notin endedChannels
    BY <1>0, <2>1 DEF endedChannels
  <2>3. Cardinality(endedChannels') = Cardinality(endedChannels) + 1
    BY <1>a, <2>2, FS_AddElement
  <2>4. settledTotal' = settledTotal
    BY <2>1 DEF settledTotal
  <2>5. CASE /\ settled[c] = 0
             /\ ghostCount' = bump(ghostCount, c, 1) /\ UNCHANGED channelCount
    <3>1. unpaidChannels' = unpaidChannels \cup {c} /\ c \notin unpaidChannels
      BY <1>0, <2>1, <2>5 DEF unpaidChannels, endedChannels
    <3>2. Cardinality(unpaidChannels') = Cardinality(unpaidChannels) + 1
      BY <1>a, <3>1, FS_AddElement
    <3>3. /\ Sum(ghostCount', NumAgents) \in Nat
          /\ Sum(ghostCount', NumAgents) <= Sum(ghostCount, NumAgents) + 1
      BY <1>0, <2>5, BumpSum
    <3>4. /\ Sum(ghostCount', NumAgents) <= Cardinality(unpaidChannels')
          /\ Sum(channelCount', NumAgents) + Sum(ghostCount', NumAgents)
               <= Cardinality(endedChannels')
      BY <1>a, <1>b, <1>c, <2>3, <2>5, <3>2, <3>3
    <3> QED BY <1>c, <1>d, <2>1, <2>4, <3>4
  <2>6. CASE /\ settled[c] # 0
             /\ channelCount' = bump(channelCount, c, 1) /\ UNCHANGED ghostCount
    <3>1. unpaidChannels' = unpaidChannels
      BY <1>0, <2>1, <2>6 DEF unpaidChannels, endedChannels
    <3>2. /\ Sum(channelCount', NumAgents) \in Nat
          /\ Sum(channelCount', NumAgents) <= Sum(channelCount, NumAgents) + 1
      BY <1>0, <2>6, BumpSum
    <3>3. Sum(channelCount', NumAgents) + Sum(ghostCount', NumAgents)
            <= Cardinality(endedChannels')
      BY <1>a, <1>b, <1>c, <2>3, <2>6, <3>2
    <3> QED BY <1>c, <1>d, <2>1, <2>4, <2>6, <3>1, <3>3
  <2> QED BY <2>1, <2>5, <2>6
<1>4. ASSUME UNCHANGED <<status, settled, channelCount, ghostCount, totalVolumeUsdc>>
      PROVE  ReputationEarned'
  BY <1>4 DEF ReputationEarned, settledTotal
<1>5. CASE OtherChannelsStep
  BY <1>4, <1>5 DEF OtherChannelsStep, otherChannels, chanVars, agentVars
<1>6. CASE NothingSettled
  BY <1>4, <1>6 DEF NothingSettled, agentVars
<1> QED BY <1>1, <1>2, <1>3, <1>5, <1>6, StepKinds

(* The volume, the channels and the ghosts that all agents are credited    *)
(* with were settled, ended, and ended unpaid, in every reachable state.   *)
THEOREM ReputationCorrect == Spec => []ReputationEarned
<1>1. Init => ReputationEarned
  <2> SUFFICES ASSUME Init PROVE ReputationEarned
    OBVIOUS
  <2>1. /\ totalVolumeUsdc = [a \in 1..NumAgents |-> 0]
        /\ channelCount = [a \in 1..NumAgents |-> 0]
        /\ ghostCount = [a \in 1..NumAgents |-> 0]
        /\ settled = [c \in 1..NumChannels |-> 0]
    BY DEF Init
  <2>2. /\ Sum(totalVolumeUsdc, NumAgents) = 0 /\ Sum(channelCount, NumAgents) = 0
        /\ Sum(ghostCount, NumAgents) = 0 /\ settledTotal = 0
    BY <2>1, ConstantsOK, SumZero DEF settledTotal
  <2>3. Cardinality(unpaidChannels) \in Nat /\ Cardinality(endedChannels) \in Nat
    BY EndedFinite DEF unpaidChannels, endedChannels
  <2> QED BY <2>2, <2>3, ReputationEarnedIs
<1>2. AccountsInv /\ UnusedClean /\ ReputationEarned /\ [Next]_vars => ReputationEarned'
  BY ReputationStep
<1> QED BY <1>1, <1>2, AccountsCorrect, UnusedCorrect, PTL DEF Spec

(***************************************************************************)
(* Operators are installed by the buyer.                                   *)
(***************************************************************************)
LEMMA OperatorStepSigned ==
  ASSUME AccountsInv, OperatorInstallsSigned, [Next]_vars
  PROVE  OperatorInstallsSigned'
<1>0. /\ operatorNonce \in [Buyers -> Nat]
      /\ operatorAuths \in [Buyers -> SUBSET OperatorAuth]
  BY DEF AccountsInv, TypeOK, DepTypeOK
<1>1. ASSUME UNCHANGED operatorNonce,
             \A b \in Buyers : operatorAuths[b] \subseteq operatorAuths'[b]
      PROVE  OperatorInstallsSigned'
  BY <1>1 DEF OperatorInstallsSigned
<1>2. ASSUME NEW b \in Buyers, NEW auth \in operatorAuths[b], setOperator(b, auth)
      PROVE  OperatorInstallsSigned'
  <2>1. /\ operatorNonce' = [operatorNonce EXCEPT ![b] = operatorNonce[b] + 1]
        /\ auth.nonce = operatorNonce[b] /\ UNCHANGED operatorAuths
    BY <1>2 DEF setOperator, operatorAuthValid
  <2>2. ASSUME NEW x \in Buyers, NEW n \in 0..operatorNonce'[x]-1
        PROVE  \E a \in operatorAuths'[x] : a.nonce = n
    <3>1. CASE x = b /\ n = operatorNonce[b]
      BY <2>1, <3>1
    <3>2. CASE n \in 0..operatorNonce[x]-1
      BY <2>1, <3>2 DEF OperatorInstallsSigned
    <3>3. x # b => operatorNonce'[x] = operatorNonce[x]
      BY <1>0, <2>1
    <3>4. x = b => operatorNonce'[x] = operatorNonce[x] + 1 /\ operatorNonce[x] \in Nat
      BY <1>0, <2>1
    <3> QED BY <3>1, <3>2, <3>3, <3>4
  <2> QED BY <2>2 DEF OperatorInstallsSigned
<1>3. CASE DepositsStep
  <2>1. ASSUME NEW b \in Buyers, NEW o \in Operators, NEW nonce \in 0..MaxNonce,
               signSetOperator(b, o, nonce)
        PROVE  OperatorInstallsSigned'
    BY <1>0, <1>1, <2>1 DEF signSetOperator
  <2>2. ASSUME NEW b \in Buyers, NEW caller, NEW o, NEW amount,
               \/ deposit(b, amount) \/ withdrawDeposit(b, caller, amount)
               \/ transferOperator(b, caller, o) \/ setCreditLimitOverride(b, amount)
        PROVE  OperatorInstallsSigned'
    BY <1>1, <2>2 DEF deposit, withdrawDeposit, transferOperator, setCreditLimitOverride
  <2> QED BY <1>2, <1>3, <2>1, <2>2 DEF DepositsStep
<1>4. ASSUME NEW b, NEW s, NEW charge, NEW fee, NEW lock, NEW release,
             channelTransfer(b, s, charge, fee, lock, release)
      PROVE  OperatorInstallsSigned'
  BY <1>1, <1>4 DEF channelTransfer
<1>5. ASSUME UNCHANGED depVars PROVE OperatorInstallsSigned'
  BY <1>1, <1>5 DEF depVars
<1>6. CASE OtherChannelsStep
  BY <1>4, <1>6 DEF OtherChannelsStep, otherChannels
<1>7. ASSUME NEW c \in Channels, SignStep(c) \/ SellerStep(c) \/ OperatorStep(c)
      PROVE  OperatorInstallsSigned'
  <2>1. ASSUME NEW auth, signReserveAuth(c, auth) \/ signSpendingAuth(c, auth)
        PROVE  OperatorInstallsSigned'
    BY <1>5, <2>1 DEF signReserveAuth, signSpendingAuth
  <2>2. ASSUME NEW auth, reserve(c, auth) \/ settle(c, auth) PROVE OperatorInstallsSigned'
    BY <1>4, <2>2 DEF reserve, settle
  <2>3. ASSUME NEW amount, NEW m, NEW auth, topUp(c, amount, m, auth) \/ close(c, amount, m)
        PROVE  OperatorInstallsSigned'
    BY <1>4, <2>3 DEF topUp, close
  <2>4. ASSUME NEW caller, requestClose(c, caller) PROVE OperatorInstallsSigned'
    BY <1>5, <2>4 DEF requestClose
  <2>5. ASSUME NEW caller, withdrawChannel(c, caller) PROVE OperatorInstallsSigned'
    BY <1>4, <2>5 DEF withdrawChannel
  <2> QED BY <1>7, <2>1, <2>2, <2>3, <2>4, <2>5 DEF SignStep, SellerStep, OperatorStep
<1>8. CASE OwnerStep \/ TimeStep \/ StakingStep \/ (\E s \in Sellers : unstakeSeller(s))
           \/ UNCHANGED vars
  BY <1>5, <1>8 DEF OwnerStep, TimeStep, StakingStep, unstakeSeller, vars
<1> QED BY <1>3, <1>6, <1>7, <1>8 DEF Next

(* For every time an operator was installed the buyer has signed a message *)
(* of its own, in every reachable state.                                   *)
THEOREM OperatorInstallsCorrect == Spec => []OperatorInstallsSigned
<1>1. Init => OperatorInstallsSigned
  BY DEF Init, DepInit, OperatorInstallsSigned
<1>2. AccountsInv /\ OperatorInstallsSigned /\ [Next]_vars => OperatorInstallsSigned'
  BY OperatorStepSigned
<1> QED BY <1>1, <1>2, AccountsCorrect, PTL DEF Spec

(***************************************************************************)
(* Channels only move forward.                                             *)
(***************************************************************************)
MovesForward(c) ==
  /\ status[c] # "None" => status'[c] # "None"
  /\ status[c] \in {"Settled", "TimedOut"} =>
       <<status[c], channelDeposit[c], settled[c]>>' = <<status[c], channelDeposit[c], settled[c]>>
  /\ settled'[c] >= settled[c]
  /\ channelDeposit'[c] >= channelDeposit[c]
  /\ closeRequestedAt[c] # 0 =>
       /\ closeRequestedAt'[c] = closeRequestedAt[c]
       /\ channelDeposit'[c] = channelDeposit[c]

LEMMA ForwardStep ==
  ASSUME AccountsInv, UnusedClean, [Next]_vars, NEW x \in Channels
  PROVE  MovesForward(x)
<1>0. /\ settled \in [Channels -> Nat] /\ status \in [Channels -> ChannelStatus]
      /\ channelDeposit \in [Channels -> Nat] /\ closeRequestedAt \in [Channels -> Nat]
      /\ reserveAuths \in [Channels -> SUBSET ReserveAuth]
  BY DEF AccountsInv, TypeOK
<1>a. \A c \in Channels : \A auth \in reserveAuths[c] : auth.maxAmount \in Nat
  <2>1. SignedAmounts \subseteq Nat
    BY ConstantsOK
  <2>2. ASSUME NEW c \in Channels, NEW auth \in reserveAuths[c] PROVE auth.maxAmount \in Nat
    <3>1. auth \in ReserveAuth
      BY <1>0
    <3> QED BY <2>1, <3>1 DEF ReserveAuth
  <2> QED BY <2>2
<1>b. ASSUME UNCHANGED <<status, settled, channelDeposit>>, CloseRequestsStay
      PROVE  MovesForward(x)
  BY <1>0, <1>b DEF CloseRequestsStay, MovesForward
<1>1. ASSUME NEW c \in Channels, NEW auth \in reserveAuths[c], reserve(c, auth)
      PROVE  MovesForward(x)
  <2>1. /\ status[c] = "None" /\ status' = [status EXCEPT ![c] = "Active"]
        /\ channelDeposit' = [channelDeposit EXCEPT ![c] = auth.maxAmount]
        /\ settled' = [settled EXCEPT ![c] = 0]
        /\ closeRequestedAt' = [closeRequestedAt EXCEPT ![c] = 0]
    BY <1>1 DEF reserve
  <2>2. channelDeposit[c] = 0 /\ settled[c] = 0 /\ closeRequestedAt[c] = 0
    BY <2>1 DEF UnusedClean
  <2> QED BY <1>0, <1>a, <2>1, <2>2 DEF MovesForward
<1>2. ASSUME NEW c \in Channels, SpendStep(c) PROVE MovesForward(x)
  <2>1. PICK amount \in Nat, m \in Metadata, lock \in Nat, release \in Nat :
           /\ Spends(c, amount, m, lock, release)
           /\ \/ UNCHANGED <<status, channelDeposit>>
              \/ /\ UNCHANGED status
                 /\ \E auth \in reserveAuths[c] :
                      /\ closeRequestedAt[c] = 0 /\ auth.maxAmount > channelDeposit[c]
                      /\ channelDeposit' = [channelDeposit EXCEPT ![c] = auth.maxAmount]
              \/ /\ UNCHANGED channelDeposit
                 /\ status' = [status EXCEPT ![c] = "Settled"]
    BY <1>2, SpendingOf
  <2> DEFINE delta == spendDelta(c, amount)
  <2>2. delta \in Nat /\ settled' = [settled EXCEPT ![c] = settled[c] + delta]
    BY <2>1, ChargeOf
  <2>3. status[c] = "Active" /\ UNCHANGED closeRequestedAt
    BY <2>1 DEF Spends
  <2> HIDE DEF delta
  <2>4. settled'[x] >= settled[x] /\ (x # c => settled'[x] = settled[x])
    BY <1>0, <2>2
  <2>5. CASE UNCHANGED <<status, channelDeposit>>
    BY <1>0, <2>3, <2>4, <2>5 DEF MovesForward
  <2>6. ASSUME NEW auth \in reserveAuths[c], UNCHANGED status,
               closeRequestedAt[c] = 0, auth.maxAmount > channelDeposit[c],
               channelDeposit' = [channelDeposit EXCEPT ![c] = auth.maxAmount]
        PROVE  MovesForward(x)
    BY <1>0, <1>a, <2>3, <2>4, <2>6 DEF MovesForward
  <2>7. CASE UNCHANGED channelDeposit /\ status' = [status EXCEPT ![c] = "Settled"]
    BY <1>0, <2>3, <2>4, <2>7 DEF MovesForward
  <2> QED BY <2>1, <2>5, <2>6, <2>7
<1>3. ASSUME NEW c \in Channels, NEW caller \in Operators, withdrawChannel(c, caller)
      PROVE  MovesForward(x)
  BY <1>0, <1>3 DEF withdrawChannel, isActive, MovesForward
<1>4. CASE OtherChannelsStep
  BY <1>b, <1>4 DEF OtherChannelsStep, otherChannels, chanVars, CloseRequestsStay
<1>5. CASE NothingSettled
  BY <1>b, <1>5 DEF NothingSettled
<1> QED BY <1>1, <1>2, <1>3, <1>4, <1>5, StepKinds

(* No step takes a channel back, shrinks what it has settled or locked,    *)
(* withdraws a requested close or locks more after one.                    *)
THEOREM ChannelsForward == Spec => ChannelsMoveForward
<1>1. AccountsInv /\ UnusedClean /\ [Next]_vars => [\A c \in Channels : MovesForward(c)]_vars
  BY ForwardStep
<1>2. Spec => [][\A c \in Channels : MovesForward(c)]_vars
  BY <1>1, AccountsCorrect, UnusedCorrect, PTL DEF Spec
<1> QED BY <1>2 DEF ChannelsMoveForward, MovesForward
=============================================================================
