---------------------------- MODULE EscrowLedger -----------------------------
(***************************************************************************)
(* What the payment contracts promise, without how they do it.  A buyer's  *)
(* money is either available to the buyer or in the escrow of one channel. *)
(* A channel goes from unused to open to closed, and pays its seller only  *)
(* by moving its paid total up to a total that its buyer has authorised,   *)
(* out of its own escrow; closing it returns the rest of its own escrow.   *)
(* There is no seller, no lock shared by the channels of a buyer, no       *)
(* signature, no pause, no time.                                           *)
(***************************************************************************)
EXTENDS Integers

CONSTANTS Buyers, Channels, BuyerOf

VARIABLES
  available,   \* money each buyer is free to take back
  escrow,      \* money set aside for each channel
  paid,        \* running total each channel has paid
  authorised,  \* running totals each channel's buyer has agreed to
  phase        \* "unused", "open" or "closed"

ledger == <<available, escrow, paid, authorised, phase>>

LedgerTypeOK ==
  /\ available \in [Buyers -> Nat]
  /\ escrow \in [Channels -> Nat]
  /\ paid \in [Channels -> Nat]
  /\ authorised \in [Channels -> SUBSET Nat]
  /\ phase \in [Channels -> {"unused", "open", "closed"}]

LedgerInit ==
  /\ available = [b \in Buyers |-> 0]
  /\ escrow = [c \in Channels |-> 0]
  /\ paid = [c \in Channels |-> 0]
  /\ authorised = [c \in Channels |-> {}]
  /\ phase = [c \in Channels |-> "unused"]

(* Money enters or leaves through what is available, never through an escrow. *)
Fund(b) ==
  /\ available'[b] \in Nat
  /\ available' = [available EXCEPT ![b] = available'[b]]
  /\ UNCHANGED <<escrow, paid, authorised, phase>>

Authorise(c) ==
  /\ authorised[c] \subseteq authorised'[c]
  /\ authorised' = [authorised EXCEPT ![c] = authorised'[c]]
  /\ UNCHANGED <<available, escrow, paid, phase>>

Open(c) ==
  /\ phase[c] = "unused"
  /\ \E amount \in 1..available[BuyerOf[c]] :
       /\ available' = [available EXCEPT ![BuyerOf[c]] = @ - amount]
       /\ escrow' = [escrow EXCEPT ![c] = amount]
  /\ phase' = [phase EXCEPT ![c] = "open"]
  /\ UNCHANGED <<paid, authorised>>

(* The totals that channel c may have paid after one more payment, or none. *)
PayableTotals(c) ==
  {paid[c]} \cup {total \in authorised[c] : paid[c] < total /\ total <= paid[c] + escrow[c]}

(* Pay up to a total, and set further available money aside. *)
PayAndExtend(c) ==
  /\ phase[c] = "open"
  /\ \E total \in PayableTotals(c), more \in 0..available[BuyerOf[c]] :
       /\ paid' = [paid EXCEPT ![c] = total]
       /\ escrow' = [escrow EXCEPT ![c] = @ - (total - paid[c]) + more]
       /\ available' = [available EXCEPT ![BuyerOf[c]] = @ - more]
  /\ UNCHANGED <<authorised, phase>>

(* Pay up to a total, and return the rest of the escrow. *)
PayAndClose(c) ==
  /\ phase[c] = "open"
  /\ \E total \in PayableTotals(c) :
       /\ paid' = [paid EXCEPT ![c] = total]
       /\ available' = [available EXCEPT ![BuyerOf[c]] =
                          @ + escrow[c] - (total - paid[c])]
  /\ escrow' = [escrow EXCEPT ![c] = 0]
  /\ phase' = [phase EXCEPT ![c] = "closed"]
  /\ UNCHANGED authorised

LedgerNext ==
  \/ \E b \in Buyers : Fund(b)
  \/ \E c \in Channels : Authorise(c) \/ Open(c) \/ PayAndExtend(c) \/ PayAndClose(c)

LedgerSpec == LedgerInit /\ [][LedgerNext]_ledger
=============================================================================
