-------------------------- MODULE EscrowLedgerProofs --------------------------
(***************************************************************************)
(* The contracts implement the escrow ledger: the initial state maps to    *)
(* the ledger's, and every step maps to one step of the ledger or leaves   *)
(* it alone.  The mapping takes a buyer's one reserved total apart into    *)
(* the escrows of its channels.                                            *)
(***************************************************************************)
EXTENDS AntseedSettlementProofs

USE DEF Buyers, Sellers, Agents, Channels

(* The ledger's variables, as AntseedChannels!Ledger substitutes them. *)
availableMap == [b \in Buyers |-> balance[b] - reserved[b]]
escrowMap == [c \in Channels |-> lockedFor(c)]
authorisedMap == [c \in Channels |-> {auth.cumulativeAmount : auth \in spendingAuths[c]}]
phaseMap == [c \in Channels |-> phaseOf(c)]

(* The ledger's steps, in terms of these names. *)
LEMMA FundIs ==
  ASSUME NEW b, availableMap'[b] \in Nat,
         availableMap' = [availableMap EXCEPT ![b] = availableMap'[b]],
         escrowMap' = escrowMap, settled' = settled,
         authorisedMap' = authorisedMap, phaseMap' = phaseMap
  PROVE  Ledger!Fund(b)
BY DEF Ledger!Fund, availableMap, escrowMap, authorisedMap, phaseMap

LEMMA AuthoriseIs ==
  ASSUME NEW c, authorisedMap[c] \subseteq authorisedMap'[c],
         authorisedMap' = [authorisedMap EXCEPT ![c] = authorisedMap'[c]],
         availableMap' = availableMap, escrowMap' = escrowMap, settled' = settled,
         phaseMap' = phaseMap
  PROVE  Ledger!Authorise(c)
BY DEF Ledger!Authorise, availableMap, escrowMap, authorisedMap, phaseMap

LEMMA OpenIs ==
  ASSUME NEW c, phaseMap[c] = "unused", NEW amount \in 1..availableMap[BuyerOf[c]],
         availableMap' = [availableMap EXCEPT ![BuyerOf[c]] = availableMap[BuyerOf[c]] - amount],
         escrowMap' = [escrowMap EXCEPT ![c] = amount],
         phaseMap' = [phaseMap EXCEPT ![c] = "open"],
         settled' = settled, authorisedMap' = authorisedMap
  PROVE  Ledger!Open(c)
BY DEF Ledger!Open, availableMap, escrowMap, authorisedMap, phaseMap

(* What a channel may have paid after one more payment. *)
payable(c) ==
  {settled[c]} \cup
    {total \in authorisedMap[c] : settled[c] < total /\ total <= settled[c] + escrowMap[c]}

LEMMA ExtendIs ==
  ASSUME NEW c, phaseMap[c] = "open", NEW total \in payable(c),
         NEW more \in 0..availableMap[BuyerOf[c]],
         settled' = [settled EXCEPT ![c] = total],
         escrowMap' = [escrowMap EXCEPT ![c] = escrowMap[c] - (total - settled[c]) + more],
         availableMap' = [availableMap EXCEPT ![BuyerOf[c]] = availableMap[BuyerOf[c]] - more],
         authorisedMap' = authorisedMap, phaseMap' = phaseMap
  PROVE  Ledger!PayAndExtend(c)
BY DEF Ledger!PayAndExtend, Ledger!PayableTotals, payable, availableMap, escrowMap,
       authorisedMap, phaseMap

LEMMA CloseIs ==
  ASSUME NEW c, phaseMap[c] = "open", NEW total \in payable(c),
         settled' = [settled EXCEPT ![c] = total],
         availableMap' = [availableMap EXCEPT ![BuyerOf[c]] =
                            availableMap[BuyerOf[c]] + escrowMap[c] - (total - settled[c])],
         escrowMap' = [escrowMap EXCEPT ![c] = 0],
         phaseMap' = [phaseMap EXCEPT ![c] = "closed"],
         authorisedMap' = authorisedMap
  PROVE  Ledger!PayAndClose(c)
BY DEF Ledger!PayAndClose, Ledger!PayableTotals, payable, availableMap, escrowMap,
       authorisedMap, phaseMap

(* The ledger's variables have their types. *)
LEMMA MapTypes ==
  ASSUME AccountsInv
  PROVE  /\ availableMap \in [Buyers -> Nat]
         /\ escrowMap \in [Channels -> Nat]
         /\ \A c \in Channels : escrowMap[c] = lockedFor(c) /\ phaseMap[c] = phaseOf(c)
<1>1. availableMap \in [Buyers -> Nat]
  <2>1. \A b \in Buyers : balance[b] - reserved[b] \in Nat
    BY DEF AccountsInv, TypeOK, DepTypeOK, Solvent
  <2> QED BY <2>1 DEF availableMap
<1>2. \A c \in Channels : lockedFor(c) \in Nat
  BY DEF AccountsInv, TypeOK, SettledWithinDeposit, lockedFor
<1> QED BY <1>1, <1>2 DEF escrowMap, phaseMap

(* What is available follows the onlyChannels calls: a charge leaves it    *)
(* alone, a lock takes from it, a release gives back.                      *)
LEMMA TransferMaps ==
  ASSUME AccountsInv, NEW b \in Buyers, NEW s, NEW charge \in Nat, NEW fee,
         NEW lock \in Nat, NEW release \in Nat,
         channelTransfer(b, s, charge, fee, lock, release)
  PROVE  /\ lock <= availableMap[b]
         /\ availableMap' = [availableMap EXCEPT ![b] = availableMap[b] - lock + release]
<1>1. /\ balance \in [Buyers -> Nat] /\ reserved \in [Buyers -> Nat]
      /\ balance' = [balance EXCEPT ![b] = balance[b] - charge]
      /\ reserved' = [reserved EXCEPT ![b] = reserved[b] - charge + lock - release]
      /\ lock <= balance[b] - reserved[b]
  BY DEF AccountsInv, TypeOK, DepTypeOK, channelTransfer, availableBalance
<1>2. balance'[b] - reserved'[b] = balance[b] - reserved[b] - lock + release
  BY <1>1
<1>3. \A x \in Buyers : x # b => balance'[x] - reserved'[x] = balance[x] - reserved[x]
  BY <1>1
<1> QED BY <1>1, <1>2, <1>3 DEF availableMap

(* A step that touches one channel touches one escrow and one phase. *)
LEMMA OneChannelMaps ==
  ASSUME NEW c \in Channels, NEW e, NEW p, lockedFor(c)' = e, phaseOf(c)' = p,
         \A x \in Channels : x # c =>
           /\ status'[x] = status[x]
           /\ channelDeposit'[x] = channelDeposit[x]
           /\ settled'[x] = settled[x]
  PROVE  /\ escrowMap' = [escrowMap EXCEPT ![c] = e]
         /\ phaseMap' = [phaseMap EXCEPT ![c] = p]
<1>1. \A x \in Channels : x # c => lockedFor(x)' = lockedFor(x) /\ phaseOf(x)' = phaseOf(x)
  BY DEF lockedFor, phaseOf
<1>2. escrowMap' = [escrowMap EXCEPT ![c] = e]
  BY <1>1 DEF escrowMap
<1>3. phaseMap' = [phaseMap EXCEPT ![c] = p]
  BY <1>1 DEF phaseMap
<1> QED BY <1>2, <1>3

(* A step that touches no channel touches no escrow, no phase and no total. *)
LEMMA NoChannelMaps ==
  ASSUME UNCHANGED <<status, channelDeposit, settled>>
  PROVE  escrowMap' = escrowMap /\ phaseMap' = phaseMap
BY DEF escrowMap, phaseMap, lockedFor, phaseOf

(* reserve opens the escrow of a channel. *)
LEMMA ReserveOpens ==
  ASSUME AccountsInv, UnusedClean, NEW c \in Channels, NEW auth \in reserveAuths[c],
         reserve(c, auth)
  PROVE  Ledger!Open(c)
<1> DEFINE max == auth.maxAmount
<1>1. max \in Nat
  <2>1. auth \in ReserveAuth /\ SignedAmounts \subseteq Nat
    BY ConstantsOK DEF AccountsInv, TypeOK
  <2> QED BY <2>1 DEF ReserveAuth
<1>2. /\ status[c] = "None" /\ max > 0
      /\ status' = [status EXCEPT ![c] = "Active"]
      /\ channelDeposit' = [channelDeposit EXCEPT ![c] = max]
      /\ settled' = [settled EXCEPT ![c] = 0]
      /\ channelTransfer(BuyerOf[c], SellerOf[c], 0, 0, max, 0)
      /\ UNCHANGED spendingAuths
  BY DEF reserve, authVars
<1>3. /\ status \in [Channels -> ChannelStatus] /\ channelDeposit \in [Channels -> Nat]
      /\ settled \in [Channels -> Nat] /\ BuyerOf[c] \in Buyers
  BY ConstantsOK DEF AccountsInv, TypeOK
<1> HIDE DEF max
<1>4. settled' = settled
  <2>1. settled[c] = 0
    BY <1>2 DEF UnusedClean
  <2> QED BY <1>2, <1>3, <2>1
<1>5. /\ availableMap[BuyerOf[c]] \in Nat /\ max <= availableMap[BuyerOf[c]]
      /\ availableMap' = [availableMap EXCEPT ![BuyerOf[c]] = availableMap[BuyerOf[c]] - max]
  <2> DEFINE none == 0
         b == BuyerOf[c]
  <2>1. none \in Nat /\ b \in Buyers /\ channelTransfer(b, SellerOf[c], none, none, max, none)
    BY <1>2, <1>3
  <2> HIDE DEF none, b
  <2>2. /\ max <= availableMap[b]
        /\ availableMap' = [availableMap EXCEPT ![b] = availableMap[b] - max + none]
    BY <1>1, <2>1, TransferMaps
  <2>3. availableMap[b] \in Nat
    BY <2>1, MapTypes
  <2>4. availableMap[b] - max + none = availableMap[b] - max
    BY <1>1, <2>3 DEF none
  <2> QED BY <2>2, <2>3, <2>4 DEF b
<1>6. lockedFor(c)' = max /\ phaseOf(c)' = "open"
  <2>1. /\ status'[c] = "Active" /\ channelDeposit'[c] = max /\ settled'[c] = 0
    BY <1>2, <1>3
  <2> QED BY <1>1, <2>1 DEF lockedFor, phaseOf
<1>7. /\ escrowMap' = [escrowMap EXCEPT ![c] = max]
      /\ phaseMap' = [phaseMap EXCEPT ![c] = "open"]
  BY <1>2, <1>3, <1>6, OneChannelMaps
<1>8. phaseMap[c] = "unused"
  BY <1>2, MapTypes DEF phaseOf
<1>9. authorisedMap' = authorisedMap
  BY <1>2 DEF authorisedMap
<1>10. max \in 1..availableMap[BuyerOf[c]]
  BY <1>1, <1>2, <1>5
<1> QED BY <1>4, <1>5, <1>7, <1>8, <1>9, <1>10, OpenIs

(* settle and topUp pay out of the escrow of their channel and may extend  *)
(* it; close pays and returns the rest.                                    *)
LEMMA SpendPays ==
  ASSUME AccountsInv, NEW c \in Channels, SpendStep(c)
  PROVE  Ledger!PayAndExtend(c) \/ Ledger!PayAndClose(c)
<1>1. PICK amount \in Nat, m \in Metadata, lock \in Nat, release \in Nat :
         /\ Spends(c, amount, m, lock, release)
         /\ settled[c] + spendDelta(c, amount) <= channelDeposit[c]
         /\ \/ UNCHANGED <<status, channelDeposit>> /\ lock = 0 /\ release = 0
            \/ /\ UNCHANGED status /\ release = 0
               /\ \E auth \in reserveAuths[c] :
                    /\ lock = auth.maxAmount - channelDeposit[c]
                    /\ channelDeposit' = [channelDeposit EXCEPT ![c] = auth.maxAmount]
            \/ /\ UNCHANGED channelDeposit
               /\ lock = 0 /\ release = unsettledAfter(c, spendDelta(c, amount))
               /\ status' = [status EXCEPT ![c] = "Settled"]
  BY SpendingOf
<1> DEFINE delta == spendDelta(c, amount)
           b == BuyerOf[c]
           total == settled[c] + delta
<1>2. /\ delta \in Nat
      /\ settled' = [settled EXCEPT ![c] = settled[c] + delta]
      /\ delta > 0 => /\ settled[c] + delta = amount
                      /\ [cumulativeAmount |-> amount, metadata |-> m] \in spendingAuths[c]
  BY <1>1, ChargeOf
<1>3. /\ status[c] = "Active" /\ UNCHANGED spendingAuths
      /\ channelTransfer(b, SellerOf[c], delta, platformFee(delta), lock, release)
  BY <1>1 DEF Spends, authVars
<1>4. /\ status \in [Channels -> ChannelStatus] /\ channelDeposit \in [Channels -> Nat]
      /\ settled \in [Channels -> Nat] /\ b \in Buyers
      /\ \A auth \in reserveAuths[c] : auth \in ReserveAuth
      /\ SignedAmounts \subseteq Nat
  BY ConstantsOK DEF AccountsInv, TypeOK
<1>5. release = unsettledAfter(c, delta) => release = channelDeposit[c] - (settled[c] + delta)
  BY DEF unsettledAfter
<1>6. settled[c] + delta <= channelDeposit[c]
  BY <1>1
<1> HIDE DEF delta, b
<1>7. /\ lock <= availableMap[b] /\ availableMap[b] \in Nat
      /\ availableMap' = [availableMap EXCEPT ![b] = availableMap[b] - lock + release]
  BY <1>2, <1>3, <1>4, TransferMaps, MapTypes
<1>8. /\ phaseMap[c] = "open" /\ escrowMap[c] = channelDeposit[c] - settled[c]
      /\ escrowMap[c] \in Nat /\ settled[c] \in Nat /\ channelDeposit[c] \in Nat
  BY <1>3, <1>4, MapTypes DEF phaseOf, lockedFor
<1>9. authorisedMap' = authorisedMap
  BY <1>3 DEF authorisedMap
<1>10. total \in payable(c)
  <2>1. CASE delta = 0
    BY <1>8, <2>1 DEF payable
  <2>2. CASE delta > 0
    <3>1. total = amount /\ settled[c] < total /\ total <= settled[c] + escrowMap[c]
      BY <1>2, <1>6, <1>8, <2>2
    <3>2. amount \in authorisedMap[c]
      BY <1>2, <2>2 DEF authorisedMap
    <3> QED BY <3>1, <3>2 DEF payable
  <2> QED BY <1>2, <2>1, <2>2
<1>11. /\ settled'[c] = total /\ total - settled[c] = delta /\ total \in Nat
       /\ \A x \in Channels : x # c => settled'[x] = settled[x]
  BY <1>2, <1>4
<1>12. ASSUME UNCHANGED status, release = 0, channelDeposit'[c] = channelDeposit[c] + lock,
              \A x \in Channels : x # c => channelDeposit'[x] = channelDeposit[x]
       PROVE  Ledger!PayAndExtend(c)
  <2>1. lockedFor(c)' = escrowMap[c] - (total - settled[c]) + lock /\ phaseOf(c)' = "open"
    BY <1>2, <1>3, <1>8, <1>11, <1>12 DEF lockedFor, phaseOf
  <2>2. /\ escrowMap' = [escrowMap EXCEPT ![c] = escrowMap[c] - (total - settled[c]) + lock]
        /\ phaseMap' = [phaseMap EXCEPT ![c] = "open"]
    BY <1>11, <1>12, <2>1, OneChannelMaps
  <2>3. phaseMap' = phaseMap
    BY <1>12 DEF phaseMap, phaseOf
  <2>4. /\ lock \in 0..availableMap[b]
        /\ availableMap' = [availableMap EXCEPT ![b] = availableMap[b] - lock]
    <3>1. availableMap[b] - lock + release = availableMap[b] - lock
      BY <1>7, <1>12
    <3>2. lock \in 0..availableMap[b]
      BY <1>7
    <3>3. availableMap' = [availableMap EXCEPT ![b] = availableMap[b] - lock]
      BY <1>7, <3>1, Zenon
    <3> QED BY <3>2, <3>3
  <2> QED BY <1>2, <1>8, <1>9, <1>10, <2>2, <2>3, <2>4, ExtendIs DEF b
<1>13. ASSUME UNCHANGED channelDeposit, lock = 0,
              release = channelDeposit[c] - (settled[c] + delta),
              status' = [status EXCEPT ![c] = "Settled"]
       PROVE  Ledger!PayAndClose(c)
  <2>1. lockedFor(c)' = 0 /\ phaseOf(c)' = "closed"
    BY <1>4, <1>13 DEF lockedFor, phaseOf
  <2>2. /\ escrowMap' = [escrowMap EXCEPT ![c] = 0]
        /\ phaseMap' = [phaseMap EXCEPT ![c] = "closed"]
    BY <1>4, <1>11, <1>13, <2>1, OneChannelMaps
  <2>3. availableMap' = [availableMap EXCEPT ![b] =
                           availableMap[b] + escrowMap[c] - (total - settled[c])]
    <3>1. availableMap[b] - lock + release = availableMap[b] + escrowMap[c] - (total - settled[c])
      BY <1>2, <1>7, <1>8, <1>11, <1>13
    <3> QED BY <1>7, <3>1
  <2> QED BY <1>2, <1>8, <1>9, <1>10, <2>2, <2>3, CloseIs DEF b
<1>14. CASE UNCHANGED <<status, channelDeposit>> /\ lock = 0 /\ release = 0
  BY <1>4, <1>12, <1>14
<1>15. ASSUME NEW auth \in reserveAuths[c], UNCHANGED status, release = 0,
              lock = auth.maxAmount - channelDeposit[c],
              channelDeposit' = [channelDeposit EXCEPT ![c] = auth.maxAmount]
       PROVE  Ledger!PayAndExtend(c)
  <2>1. auth.maxAmount \in Nat
    BY <1>4 DEF ReserveAuth
  <2>2. channelDeposit'[c] = channelDeposit[c] + lock
    BY <1>4, <1>15, <2>1
  <2> QED BY <1>4, <1>12, <1>15, <2>2
<1> QED BY <1>1, <1>5, <1>13, <1>14, <1>15 DEF delta

(* withdraw returns the escrow of a channel without paying. *)
LEMMA WithdrawReturns ==
  ASSUME AccountsInv, NEW c \in Channels, NEW caller, withdrawChannel(c, caller)
  PROVE  Ledger!PayAndClose(c)
<1> DEFINE b == BuyerOf[c]
           rest == channelDeposit[c] - (settled[c] + 0)
<1>1. /\ status[c] = "Active" /\ status' = [status EXCEPT ![c] = "TimedOut"]
      /\ UNCHANGED <<channelDeposit, settled, spendingAuths>>
      /\ channelTransfer(b, SellerOf[c], 0, 0, 0, rest)
  BY DEF withdrawChannel, isActive, unsettledAfter, authVars
<1>2. /\ status \in [Channels -> ChannelStatus] /\ channelDeposit[c] \in Nat
      /\ settled \in [Channels -> Nat] /\ b \in Buyers /\ settled[c] <= channelDeposit[c]
  BY ConstantsOK DEF AccountsInv, TypeOK, SettledWithinDeposit
<1>3. /\ phaseMap[c] = "open" /\ escrowMap[c] = channelDeposit[c] - settled[c]
  BY <1>1, MapTypes DEF phaseOf, lockedFor
<1>4. rest \in Nat /\ rest = escrowMap[c]
  BY <1>2, <1>3
<1> HIDE DEF rest
<1>5. availableMap' = [availableMap EXCEPT ![b] =
                         availableMap[b] + escrowMap[c] - (settled[c] - settled[c])]
  <2> DEFINE none == 0
  <2>1. /\ none \in Nat /\ availableMap[b] \in Nat
        /\ channelTransfer(b, SellerOf[c], none, none, none, rest)
    BY <1>1, <1>2, MapTypes
  <2> HIDE DEF none
  <2>2. availableMap' = [availableMap EXCEPT ![b] = availableMap[b] - none + rest]
    BY <1>2, <1>4, <2>1, TransferMaps
  <2>3. availableMap[b] - none + rest
          = availableMap[b] + escrowMap[c] - (settled[c] - settled[c])
    BY <1>2, <1>4, <2>1 DEF none
  <2> QED BY <2>2, <2>3
<1>6. lockedFor(c)' = 0 /\ phaseOf(c)' = "closed"
  BY <1>1, <1>2 DEF lockedFor, phaseOf
<1>7. /\ escrowMap' = [escrowMap EXCEPT ![c] = 0]
      /\ phaseMap' = [phaseMap EXCEPT ![c] = "closed"]
  BY <1>1, <1>2, <1>6, OneChannelMaps
<1>8. authorisedMap' = authorisedMap
  BY <1>1 DEF authorisedMap
<1>9. settled' = [settled EXCEPT ![c] = settled[c]] /\ settled[c] \in payable(c)
  BY <1>1, <1>2 DEF payable
<1> QED BY <1>3, <1>5, <1>7, <1>8, <1>9, CloseIs

(* A signature authorises. *)
LEMMA SignAuthorises ==
  ASSUME AccountsInv, NEW c \in Channels, NEW auth \in SpendingAuth, signSpendingAuth(c, auth)
  PROVE  Ledger!Authorise(c)
<1>1. /\ spendingAuths' = [spendingAuths EXCEPT ![c] = spendingAuths[c] \cup {auth}]
      /\ UNCHANGED <<status, channelDeposit, settled, balance, reserved>>
  BY DEF signSpendingAuth, depVars, chanVars
<1>2. spendingAuths \in [Channels -> SUBSET SpendingAuth]
  BY DEF AccountsInv, TypeOK
<1>3. /\ spendingAuths[c] \subseteq spendingAuths'[c]
      /\ \A x \in Channels : x # c => spendingAuths'[x] = spendingAuths[x]
  BY <1>1, <1>2
<1>4. authorisedMap[c] \subseteq authorisedMap'[c]
  BY <1>3 DEF authorisedMap
<1>5. authorisedMap' = [authorisedMap EXCEPT ![c] = authorisedMap'[c]]
  BY <1>3 DEF authorisedMap
<1>6. availableMap' = availableMap
  BY <1>1 DEF availableMap
<1> QED BY <1>1, <1>4, <1>5, <1>6, NoChannelMaps, AuthoriseIs

(* Deposits, withdrawals and the other Channels contract change what one   *)
(* buyer has available, and nothing else.                                  *)
LEMMA OneBuyerFunds ==
  ASSUME AccountsInv', NEW b \in Buyers,
         \A x \in Buyers : x # b => balance'[x] = balance[x] /\ reserved'[x] = reserved[x],
         UNCHANGED <<status, channelDeposit, settled, spendingAuths>>
  PROVE  Ledger!Fund(b)
<1>1. availableMap'[b] \in Nat
  <2>1. balance'[b] - reserved'[b] \in Nat
    BY DEF AccountsInv, TypeOK, DepTypeOK, Solvent
  <2> QED BY <2>1 DEF availableMap
<1>2. availableMap' = [availableMap EXCEPT ![b] = availableMap'[b]]
  BY DEF availableMap
<1>3. authorisedMap' = authorisedMap
  BY DEF authorisedMap
<1> QED BY <1>1, <1>2, <1>3, NoChannelMaps, FundIs

(* Everything else leaves the ledger alone. *)
LEMMA LedgerUnchanged ==
  ASSUME UNCHANGED <<balance, reserved, status, channelDeposit, settled, spendingAuths>>
  PROVE  UNCHANGED Ledger!ledger
BY DEF Ledger!ledger, lockedFor, phaseOf

(* Every step of the contracts is a step of the ledger or leaves it alone. *)
LEMMA StepImplements ==
  ASSUME AccountsInv, UnusedClean, [Next]_vars
  PROVE  [Ledger!LedgerNext]_(Ledger!ledger)
<1> USE DEF Ledger!LedgerNext
<1>0. AccountsInv'
  BY NextInv
<1>a. balance \in [Buyers -> Nat] /\ reserved \in [Buyers -> Nat]
  BY DEF AccountsInv, TypeOK, DepTypeOK
<1>b. ASSUME UNCHANGED <<depVars, chanVars, spendingAuths>>
      PROVE  UNCHANGED Ledger!ledger
  BY <1>b, LedgerUnchanged DEF depVars, chanVars
<1>1. CASE DepositsStep
  <2>1. PICK b \in Buyers : \A x \in Buyers : x # b =>
          balance'[x] = balance[x] /\ reserved'[x] = reserved[x]
    BY <1>a, <1>1 DEF DepositsStep, deposit, withdrawDeposit, signSetOperator, setOperator,
                      transferOperator, setCreditLimitOverride
  <2>2. UNCHANGED <<status, channelDeposit, settled, spendingAuths>>
    BY <1>1 DEF DepositsStep, chanVars, authVars
  <2> QED BY <1>0, <2>1, <2>2, OneBuyerFunds
<1>2. CASE OtherChannelsStep
  <2>1. PICK b \in Buyers : \E s, charge, lock, release :
          otherChannels(b, s, charge, lock, release)
    BY <1>2 DEF OtherChannelsStep
  <2>2. \A x \in Buyers : x # b => balance'[x] = balance[x] /\ reserved'[x] = reserved[x]
    BY <1>a, <2>1 DEF otherChannels, channelTransfer
  <2>3. UNCHANGED <<status, channelDeposit, settled, spendingAuths>>
    BY <2>1 DEF otherChannels, chanVars, authVars
  <2> QED BY <1>0, <2>2, <2>3, OneBuyerFunds
<1>3. ASSUME NEW c \in Channels, SignStep(c)
      PROVE  Ledger!Authorise(c) \/ UNCHANGED Ledger!ledger
  <2>1. ASSUME NEW auth, signReserveAuth(c, auth) PROVE UNCHANGED Ledger!ledger
    BY <1>b, <2>1 DEF signReserveAuth
  <2> QED BY <1>3, <2>1, SignAuthorises DEF SignStep
<1>4. ASSUME NEW c \in Channels, SellerStep(c)
      PROVE  Ledger!Open(c) \/ Ledger!PayAndExtend(c) \/ Ledger!PayAndClose(c)
  <2>1. SpendStep(c) \/ \E auth \in reserveAuths[c] : reserve(c, auth)
    BY <1>4 DEF SellerStep, SpendStep
  <2> QED BY <2>1, SpendPays, ReserveOpens
<1>5. ASSUME NEW c \in Channels, OperatorStep(c)
      PROVE  Ledger!PayAndClose(c) \/ UNCHANGED Ledger!ledger
  <2>1. ASSUME NEW caller, requestClose(c, caller) PROVE UNCHANGED Ledger!ledger
    BY <2>1, LedgerUnchanged DEF requestClose, depVars, authVars
  <2> QED BY <1>5, <2>1, WithdrawReturns DEF OperatorStep
<1>6. CASE OwnerStep \/ TimeStep \/ StakingStep \/ (\E s \in Sellers : unstakeSeller(s))
           \/ UNCHANGED vars
  BY <1>b, <1>6 DEF OwnerStep, TimeStep, StakingStep, unstakeSeller, vars, authVars
<1> QED BY <1>1, <1>2, <1>3, <1>4, <1>5, <1>6 DEF Next

(* The payment contracts implement the escrow ledger: one reserved total   *)
(* per buyer is as good as one escrow per channel, and money moves only as *)
(* the ledger lets it.                                                     *)
THEOREM LedgerImplemented == Spec => ImplementsLedger
<1>1. Init => Ledger!LedgerInit
  BY DEF Init, DepInit, Ledger!LedgerInit, lockedFor, phaseOf
<1>2. AccountsInv /\ UnusedClean /\ [Next]_vars => [Ledger!LedgerNext]_(Ledger!ledger)
  BY StepImplements
<1>3. Spec => Ledger!LedgerInit /\ [][Ledger!LedgerNext]_(Ledger!ledger)
  BY <1>1, <1>2, AccountsCorrect, UnusedCorrect, PTL DEF Spec
<1> QED BY <1>3 DEF ImplementsLedger, Ledger!LedgerSpec
=============================================================================
