--------------------------- MODULE ChannelOnChain ---------------------------
(***************************************************************************)
(* One payment channel as the seller's node sees it: the record that       *)
(* getSession returns, and the transactions the node submits and awaits.   *)
(* The contract itself is modelled in AntseedChannels; here only what the  *)
(* node can tell apart is kept. A signature is the amount it was made for. *)
(* The pause, the fee and the buyer's balance are left out: a revert for   *)
(* such a reason is a failed transaction.                                  *)
(*                                                                         *)
(* The node sees a transaction end in one of four ways: it succeeds; it    *)
(* fails for good; it is refused by the provider's transaction limit and   *)
(* may be retried; or it is mined but the node never learns of it and      *)
(* treats it as failed.                                                    *)
(***************************************************************************)
EXTENDS Integers, FiniteSetsExt

CONSTANTS
  TOP_UP_SETTLED_THRESHOLD_BPS,  \* share of the deposit to settle before a top-up
  MaxTxFailures                  \* bound on transactions that fail though they could succeed

ASSUME ChainAssumption ==
  /\ TOP_UP_SETTLED_THRESHOLD_BPS \in 0..10000
  /\ MaxTxFailures \in Nat

VARIABLES
  ch,          \* the channel's record on chain
  txFailures   \* how many transactions have failed though they could succeed

chainVars == <<ch, txFailures>>

ChainTypeOK ==
  /\ ch \in [status: {"none", "active", "settled", "timedOut"},
             deposit: Nat, settled: Nat, closeRequested: BOOLEAN]
  /\ txFailures \in 0..MaxTxFailures

ChainInit ==
  /\ ch = [status |-> "none", deposit |-> 0, settled |-> 0, closeRequested |-> FALSE]
  /\ txFailures = 0

isOpen == ch.status = "active"

hasEnded == ch.status \in {"settled", "timedOut"}

(* A settled amount above the one on chain needs the buyer's signature.    *)
authorized(amount, sig) ==
  /\ amount <= ch.deposit
  /\ amount = ch.settled \/ (amount > ch.settled /\ sig = amount)

TxResults == {"ok", "failed", "retryable", "unseen"}

(* A transaction that the contract accepts when can holds, and that then   *)
(* leaves the channel as after, ends with result r.                        *)
tx(can, after, r) ==
  LET mined == r \in {"ok", "unseen"}
      trouble == IF r = "ok" \/ (r = "failed" /\ ~can) THEN 0 ELSE 1
  IN  /\ mined => can
      /\ txFailures + trouble <= MaxTxFailures
      /\ txFailures' = txFailures + trouble
      /\ ch' = IF mined THEN after ELSE ch

reserveTx(max, r) ==
  tx(ch.status = "none" /\ max > 0, [ch EXCEPT !.status = "active", !.deposit = max], r)

settleTx(amount, sig, r) ==
  tx(isOpen /\ amount > ch.settled /\ authorized(amount, sig),
     [ch EXCEPT !.settled = amount], r)

closeTx(amount, sig, r) ==
  tx(isOpen /\ authorized(amount, sig),
     [ch EXCEPT !.status = "settled", !.settled = amount], r)

(* topUp settles first. Its revert with TopUpThresholdNotMet is the one    *)
(* that the node takes for a retryable failure.                            *)
topUpTx(amount, sig, max, r) ==
  LET settled == Max({amount, ch.settled})
      can == /\ isOpen /\ ~ch.closeRequested
             /\ max > ch.deposit
             /\ amount > ch.settled => authorized(amount, sig)
      threshold == (ch.deposit * TOP_UP_SETTLED_THRESHOLD_BPS) \div 10000
  IN  IF can /\ settled < threshold
      THEN r = "retryable" /\ UNCHANGED chainVars
      ELSE tx(can, [ch EXCEPT !.settled = settled, !.deposit = max], r)

(* The buyer's operator: requestClose, and withdraw once the grace period  *)
(* is over, which may be at any time after it.                             *)
requestCloseTx ==
  /\ isOpen /\ ~ch.closeRequested
  /\ ch' = [ch EXCEPT !.closeRequested = TRUE]
  /\ UNCHANGED txFailures

withdrawTx ==
  /\ isOpen /\ ch.closeRequested
  /\ ch' = [ch EXCEPT !.status = "timedOut"]
  /\ UNCHANGED txFailures
=============================================================================
