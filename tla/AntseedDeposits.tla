--------------------------- MODULE AntseedDeposits ---------------------------
(***************************************************************************)
(* payments/AntseedDeposits.sol: custody of the buyers' USDC.              *)
(*                                                                         *)
(* A buyer account is split into one function per field of BuyerAccount;   *)
(* lastActivityAt is left out (no code reads it).  A call that the         *)
(* contract reverts changes nothing, so it is a step that is not enabled:  *)
(* every revert condition, the checked subtractions of Solidity 0.8        *)
(* included, is a guard.  USDC itself is external: a transfer moves the    *)
(* amount between the custody account held and the outside.                *)
(***************************************************************************)
EXTENDS AntseedRegistry, FiniteSets, Sums

CONSTANTS
  Operators,      \* addresses that can be a buyer's operator
  DepositAmounts, \* amounts used in deposit and withdraw calls
  CreditLimits,   \* limits the owner may set with setCreditLimitOverride
  MaxNonce,       \* bound on the operator nonces a buyer signs
  DAY             \* "1 days", in ticks of block.timestamp

ASSUME DepositsAssumption ==
  /\ NoAddress \notin Operators
  /\ DepositAmounts \subseteq Nat
  /\ CreditLimits \subseteq Nat
  /\ MaxNonce \in Nat
  /\ DAY \in Nat \ {0}

VARIABLES
  balance,        \* BuyerAccount.balance
  reserved,       \* BuyerAccount.reserved
  firstChannelAt, \* BuyerAccount.firstChannelAt, 0 when no channel yet
  operator,       \* BuyerAccount.operator
  operatorNonce,  \* BuyerAccount.operatorNonce
  override,       \* creditLimitOverride
  charged,        \* _buyerSellerPairs, as the set of its true entries
  held,           \* USDC the contract owns
  earned,         \* USDC paid out to each seller
  fees,           \* USDC paid out to the protocol reserve
  operatorAuths   \* SetOperator messages each buyer has signed

depVars == <<balance, reserved, firstChannelAt, operator, operatorNonce,
             override, charged, held, earned, fees, operatorAuths>>

OperatorAuth == [operator: Operators, nonce: 0..MaxNonce]

DepTypeOK ==
  /\ balance \in [Buyers -> Nat]
  /\ reserved \in [Buyers -> Nat]
  /\ firstChannelAt \in [Buyers -> Nat]
  /\ operator \in [Buyers -> Operators \cup {NoAddress}]
  /\ operatorNonce \in [Buyers -> Nat]
  /\ override \in [Buyers -> CreditLimits \cup {0}]
  /\ charged \in SUBSET (Buyers \X Sellers)
  /\ held \in Nat
  /\ earned \in [Sellers -> Nat]
  /\ fees \in Nat
  /\ operatorAuths \in [Buyers -> SUBSET OperatorAuth]

DepInit ==
  /\ balance = [b \in Buyers |-> 0]
  /\ reserved = [b \in Buyers |-> 0]
  /\ firstChannelAt = [b \in Buyers |-> 0]
  /\ operator = [b \in Buyers |-> NoAddress]
  /\ operatorNonce = [b \in Buyers |-> 0]
  /\ override = [b \in Buyers |-> 0]
  /\ charged = {}
  /\ held = 0
  /\ earned = [s \in Sellers |-> 0]
  /\ fees = 0
  /\ operatorAuths = [b \in Buyers |-> {}]

-----------------------------------------------------------------------------
(***************************************************************************)
(* Buyer operations.                                                       *)
(***************************************************************************)
uniqueSellersCharged(b) == Cardinality({s \in Sellers : <<b, s>> \in charged})

daysSinceFirst(b) ==
  IF firstChannelAt[b] > 0 THEN (now - firstChannelAt[b]) \div DAY ELSE 0

getBuyerCreditLimit(b) ==
  LET limit == config.BASE_CREDIT_LIMIT
               + config.PEER_INTERACTION_BONUS * uniqueSellersCharged(b)
               + config.TIME_BONUS * daysSinceFirst(b)
  IN  IF override[b] > 0 THEN override[b]
      ELSE IF limit > config.MAX_CREDIT_LIMIT THEN config.MAX_CREDIT_LIMIT
      ELSE limit

(* Anyone may deposit for a buyer. *)
deposit(b, amount) ==
  /\ amount > 0
  /\ balance[b] = 0 => amount >= config.MIN_BUYER_DEPOSIT
  /\ balance[b] + amount <= getBuyerCreditLimit(b)
  /\ balance' = [balance EXCEPT ![b] = @ + amount]
  /\ held' = held + amount
  /\ UNCHANGED <<reserved, firstChannelAt, operator, operatorNonce, override,
                 charged, earned, fees, operatorAuths>>

(* Mutant: funds that a channel has locked count as available. *)
availableBalance_Locked(b) == balance[b]

availableBalance(b) == balance[b] - reserved[b]

(* Only the operator withdraws, and only what no channel has locked. *)
withdrawDeposit(b, caller, amount) ==
  /\ amount > 0
  /\ caller = operator[b]
  /\ availableBalance(b) >= amount
  /\ held >= amount
  /\ balance' = [balance EXCEPT ![b] = @ - amount]
  /\ held' = held - amount
  /\ UNCHANGED <<reserved, firstChannelAt, operator, operatorNonce, override,
                 charged, earned, fees, operatorAuths>>

-----------------------------------------------------------------------------
(***************************************************************************)
(* The onlyChannels entry points, as one transfer made of the calls that a *)
(* Channels transaction makes, in this order: chargeAndCreditPayouts of    *)
(* charge (with platformFee), lockForChannel of lock, releaseLock of       *)
(* release.  A call that is not made has amount 0.  Channels never makes   *)
(* one with amount 0 (see the guards in AntseedChannels), so charge > 0    *)
(* and lock > 0 also tell whether the side effects of that call happen.    *)
(* onlyChannels holds of the contract under study; the address book may    *)
(* name another one.                                                       *)
(***************************************************************************)
onlyChannels == registry.channels

platformFeeDue(platformFee) == IF registry.protocolReserve THEN platformFee ELSE 0

(* Mutant: the fee is withheld although there is no reserve to send it to. *)
sellerPayout_FeeWithheld(charge, platformFee) == charge - platformFee

sellerPayout(charge, platformFee) == charge - platformFeeDue(platformFee)

channelTransfer(b, s, charge, platformFee, lock, release) ==
  /\ platformFee <= charge
  /\ balance[b] >= charge
  /\ reserved[b] >= charge + release
  /\ lock <= availableBalance(b)
  /\ held >= charge
  /\ balance' = [balance EXCEPT ![b] = @ - charge]
  /\ reserved' = [reserved EXCEPT ![b] = @ - charge + lock - release]
  /\ firstChannelAt' =
       [firstChannelAt EXCEPT ![b] = IF lock > 0 /\ @ = 0 THEN now ELSE @]
  /\ charged' = IF charge > 0 THEN charged \cup {<<b, s>>} ELSE charged
  /\ held' = held - charge
  /\ earned' = [earned EXCEPT ![s] = @ + sellerPayout(charge, platformFee)]
  /\ fees' = fees + platformFeeDue(platformFee)
  /\ UNCHANGED <<operator, operatorNonce, override, operatorAuths>>

-----------------------------------------------------------------------------
(***************************************************************************)
(* Operator management.  The buyer's EIP-712 signature is membership in    *)
(* operatorAuths: nobody else can add to it, anybody can submit it, and it *)
(* can be submitted again.                                                 *)
(***************************************************************************)
signSetOperator(b, o, nonce) ==
  /\ operatorAuths' = [operatorAuths EXCEPT ![b] = @ \cup {[operator |-> o, nonce |-> nonce]}]
  /\ UNCHANGED <<balance, reserved, firstChannelAt, operator, operatorNonce,
                 override, charged, held, earned, fees>>

(* Mutant: a signature stays valid after its nonce was used. *)
operatorAuthValid_Replay(b, auth) == auth \in operatorAuths[b]

operatorAuthValid(b, auth) ==
  /\ auth.nonce = operatorNonce[b]
  /\ auth \in operatorAuths[b]

setOperator(b, auth) ==
  /\ operator[b] = NoAddress
  /\ operatorAuthValid(b, auth)
  /\ operator' = [operator EXCEPT ![b] = auth.operator]
  /\ operatorNonce' = [operatorNonce EXCEPT ![b] = @ + 1]
  /\ UNCHANGED <<balance, reserved, firstChannelAt, override, charged, held,
                 earned, fees, operatorAuths>>

(* The new operator may be address(0): the contract does not refuse it.    *)
transferOperator(b, caller, newOperator) ==
  /\ caller = operator[b]
  /\ newOperator # operator[b]
  /\ operator' = [operator EXCEPT ![b] = newOperator]
  /\ UNCHANGED <<balance, reserved, firstChannelAt, operatorNonce, override,
                 charged, held, earned, fees, operatorAuths>>

setCreditLimitOverride(b, limit) ==
  /\ limit # override[b]
  /\ override' = [override EXCEPT ![b] = limit]
  /\ UNCHANGED <<balance, reserved, firstChannelAt, operator, operatorNonce,
                 charged, held, earned, fees, operatorAuths>>
=============================================================================
