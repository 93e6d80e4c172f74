--------------------------- MODULE PaymentSession ---------------------------
(***************************************************************************)
(* A buyer and a seller over one channel: the seller's node, the wire from *)
(* the buyer, and a buyer that opens the channel, signs what it is asked   *)
(* for, tops up, resends after a reconnect, and asks for the close, from   *)
(* the seller or on chain. Connections break, the seller restarts,         *)
(* transactions fail, and the deadline passes, at any time.                *)
(*                                                                         *)
(* The buyer is the part of BuyerPaymentManager that the seller can tell   *)
(* apart: how it checks a cost is left out, as it may sign or not sign.    *)
(***************************************************************************)
EXTENDS SellerPaymentManager

CONSTANTS
  maxReserveAmountUsdc,  \* what the buyer reserves, and adds with a top-up
  CloseAuths,            \* what a CloseChannelRequest attaches: "none", "capped", "latest"
  ClosesOnChain,         \* the buyer's operator may call requestClose
  MaxCeiling,            \* bound on the reserve
  MaxWire,               \* bound on the messages under way
  MaxConnects,           \* bound on the connections
  MaxRestarts            \* bound on the restarts of the seller

ASSUME SessionAssumption ==
  /\ {maxReserveAmountUsdc, MaxCeiling, MaxWire, MaxConnects, MaxRestarts} \subseteq Nat
  /\ CloseAuths \subseteq {"none", "capped", "latest"}
  /\ ClosesOnChain \in BOOLEAN

VARIABLES
  wire,      \* messages sent by the buyer and not received
  buyer,     \* the buyer's channel: opened, signed, and the ceiling it signs up to
  connects,
  restarts

envVars == <<wire, buyer, connects, restarts>>
vars == <<chainVars, sellerVars, envVars>>

Init ==
  /\ ChainInit
  /\ node = Running(NoRow)
  /\ connected = FALSE /\ needAuth = 0 /\ closeEvent = FALSE
  /\ wire = <<>>
  /\ buyer = [opened |-> FALSE, signed |-> 0, ceiling |-> 0]
  /\ connects = 0 /\ restarts = 0

----------------------------------------------------------------------------
(* The buyer.                                                              *)

send(messages) ==
  /\ Len(wire) + Len(messages) <= MaxWire
  /\ wire' = wire \o messages

reserveAuth(max) == SpendingAuth("reserve", max)
spendingAuth(amount) == SpendingAuth("auth", amount)

authorizeSpending ==
  /\ connected /\ ~buyer.opened
  /\ send(<<reserveAuth(maxReserveAmountUsdc)>>)
  /\ buyer' = [buyer EXCEPT !.opened = TRUE, !.ceiling = maxReserveAmountUsdc]
  /\ UNCHANGED <<chainVars, sellerVars, connects, restarts>>

(* The catch-up for a NeedAuth is signed up to the ceiling; a top-up that  *)
(* raises the ceiling follows it, and the buyer counts on it at once.      *)
handleNeedAuth(toppingUp) ==
  LET amount == Min({needAuth, buyer.ceiling})
      ceiling == buyer.ceiling + maxReserveAmountUsdc
      catchUp == IF amount > buyer.signed THEN <<spendingAuth(amount)>> ELSE <<>>
      topUp == IF toppingUp THEN <<reserveAuth(ceiling)>> ELSE <<>>
  IN  /\ connected /\ needAuth > 0
      /\ toppingUp => needAuth > buyer.signed /\ ceiling <= MaxCeiling
      /\ send(catchUp \o topUp)
      /\ buyer' = [buyer EXCEPT !.signed = Max({@, amount}),
                                !.ceiling = IF toppingUp THEN ceiling ELSE @]
      /\ needAuth' = 0
      /\ UNCHANGED <<chainVars, node, connected, closeEvent, connects, restarts>>

(* A seller that answers 402 does not know the session: the buyer looks at *)
(* the chain and resends its reserve, or its latest SpendingAuth and then  *)
(* the top-up that is not there yet.                                       *)
recoverExistingSession ==
  LET pending == IF buyer.ceiling > ch.deposit THEN <<reserveAuth(buyer.ceiling)>> ELSE <<>>
  IN  /\ connected /\ buyer.opened /\ ~node.activeBuyer
      /\ wire = <<>> /\ node.auths = <<>>
      /\ \/ /\ ch.status = "none"
            /\ send(<<reserveAuth(maxReserveAmountUsdc)>>)
         \/ /\ isOpen /\ ~ch.closeRequested
            /\ send(<<spendingAuth(buyer.signed)>> \o pending)
      /\ UNCHANGED <<chainVars, sellerVars, buyer, connects, restarts>>

closeAuth(attached) ==
  CASE attached = "none" -> 0
    [] attached = "latest" -> buyer.signed
    [] attached = "capped" -> Min({buyer.signed, ch.deposit})

requestChannelClose(attached) ==
  /\ connected /\ buyer.opened /\ isOpen /\ node.coop = NoCloseRequest
  /\ \A i \in DOMAIN wire : wire[i].kind # "close"
  /\ send(<<SpendingAuth("close", closeAuth(attached))>>)
  /\ UNCHANGED <<chainVars, sellerVars, buyer, connects, restarts>>

requestClose ==
  /\ ClosesOnChain
  /\ requestCloseTx
  /\ closeEvent' = TRUE
  /\ UNCHANGED <<node, connected, needAuth, envVars>>

withdraw ==
  /\ ClosesOnChain
  /\ withdrawTx
  /\ UNCHANGED <<sellerVars, envVars>>

----------------------------------------------------------------------------
(* The wire and the world.                                                 *)

connect ==
  /\ ~connected /\ node.starting = "done" /\ connects < MaxConnects
  /\ connected' = TRUE
  /\ connects' = connects + 1
  /\ UNCHANGED <<chainVars, node, needAuth, closeEvent, wire, buyer, restarts>>

(* What is on the wire is lost; what the seller has received is not.       *)
disconnect ==
  /\ connected
  /\ connected' = FALSE
  /\ wire' = <<>>
  /\ needAuth' = 0
  /\ node' = onBuyerDisconnect([node EXCEPT !.idleTimer = FALSE])
  /\ UNCHANGED <<chainVars, closeEvent, buyer, connects, restarts>>

receive ==
  LET m == Head(wire)
  IN  /\ wire # <<>>
      /\ wire' = Tail(wire)
      /\ node' = IF m.kind = "close" THEN receiveCloseRequest(node, m.amount)
                 ELSE [node EXCEPT !.auths = Append(@, m)]
      /\ UNCHANGED <<chainVars, connected, needAuth, closeEvent, buyer, connects, restarts>>

deadlinePasses ==
  /\ node.stored.status # "none" /\ ~node.stored.expired
  /\ node' = [node EXCEPT !.stored.expired = TRUE]
  /\ UNCHANGED <<chainVars, connected, needAuth, closeEvent, envVars>>

(* The seller stops. A transaction it had submitted may be mined or not.   *)
submittedIsMined ==
  \/ node.closing # NoClose /\ closeTx(node.closing.amount, node.closing.sig, "ok")
  \/ awaits("reserve") /\ reserveTx(auth.amount, "ok")
  \/ awaits("topUp") /\ topUpTx(auth.settle, auth.sig, auth.max, "ok")

crash ==
  /\ restarts < MaxRestarts
  /\ submittedIsMined \/ UNCHANGED chainVars
  /\ restart
  /\ restarts' = restarts + 1
  /\ wire' = <<>>
  /\ UNCHANGED <<buyer, connects>>

----------------------------------------------------------------------------
(* An auth whose turn it is, and a request whose wait is over, go on       *)
(* before the node turns to anything else: nothing they await is pending.  *)
turnIsDue ==
  \/ node.auths # <<>> /\ auth.at = "lock"
  \/ node.waiting # <<>> /\ Head(node.waiting) = 0
  \/ /\ node.parked # <<>>
     /\ ~isTracked \/ Head(node.parked).spent <= node.mem.accepted

TurnStep ==
  /\ turnIsDue
  /\ \/ beginReserve
     \/ beginTopUp
     \/ beginRecovery
     \/ acceptSpendingAuth
     \/ otherSpendingAuth
     \/ \E tooLarge \in BOOLEAN : requestProceeds(tooLarge)
     \/ \E tooLarge \in BOOLEAN : requestWakes(tooLarge)
  /\ UNCHANGED envVars

AuthStep ==
  /\ ~turnIsDue
  /\ \/ \E expired \in BOOLEAN : recoverOnChainSession(expired)
     \/ validateRetainedChannel
     \/ \E r \in TxResults : finishReserve(r)
     \/ \E r \in TxResults : finishTopUp(r)
  /\ UNCHANGED envVars

RequestStep ==
  /\ ~turnIsDue
  /\ \/ \E tooLarge \in BOOLEAN : requestArrives(tooLarge)
     \/ \E tooLarge \in BOOLEAN : requestWakes(tooLarge)
     \/ \E cost \in 1..MaxCost : requestCompletes(cost)
  /\ UNCHANGED envVars

CloseEnds ==
  /\ ~turnIsDue
  /\ \E r \in TxResults : finishClose(r)
  /\ UNCHANGED envVars

CloseStep ==
  /\ ~turnIsDue
  /\ \/ \E r \in TxResults : idleSettle(r)
     \/ closeAfterDrain
     \/ idleTimeout
     \/ adoptCloseAuth
     \/ closeCatchUp
     \/ handleCloseChannelRequest
     \/ pollCloseRequested
  /\ UNCHANGED envVars

CheckStep ==
  /\ ~turnIsDue
  /\ \/ checkTimeouts
     \/ checkActiveChannel
     \/ retryTimedOutCloses
     \/ retryTimedOutClose
     \/ \E readable \in BOOLEAN : validateHydratedChannels(readable)
     \/ startPoller
  /\ UNCHANGED envVars

BuyerStep ==
  /\ ~turnIsDue
  /\ \/ authorizeSpending
     \/ \E toppingUp \in BOOLEAN : handleNeedAuth(toppingUp)
     \/ recoverExistingSession
     \/ \E attached \in CloseAuths : requestChannelClose(attached)
     \/ requestClose
     \/ withdraw

WorldStep ==
  /\ ~turnIsDue
  /\ connect \/ disconnect \/ receive \/ crash

TimePasses == ~turnIsDue /\ deadlinePasses

Next ==
  \/ TurnStep \/ AuthStep \/ RequestStep \/ CloseEnds \/ CloseStep \/ CheckStep
  \/ BuyerStep \/ WorldStep \/ TimePasses

Spec == Init /\ [][Next]_vars

(* Fairness: what the node has received and submitted is dealt with, the   *)
(* interval timer runs the timeout checker, and time passes. It is strong  *)
(* because the event loop gets to a due callback however often another     *)
(* turn comes first. Nothing is assumed of the buyer, the connection or    *)
(* the requests.                                                           *)
Fairness ==
  /\ WF_vars(TurnStep)
  /\ SF_vars(AuthStep) /\ SF_vars(CheckStep) /\ SF_vars(CloseEnds) /\ SF_vars(TimePasses)

LiveSpec == Spec /\ Fairness

----------------------------------------------------------------------------
(* Properties.                                                             *)

(* Types and bounds of the chain's record, the node, the wire and the      *)
(* buyer; a close request waits only for SpendingAuths that are still      *)
(* being processed.                                                        *)
TypeOK ==
  /\ ChainTypeOK
  /\ node.mem \in [accepted: Int, spent: Int, latestAuth: Nat, sig: Nat, reserveMax: Nat,
                   pendingTopUp: Nat, blocked: BOOLEAN, retries: 0..MAX_CLOSE_RETRIES,
                   hydrated: BOOLEAN]
  /\ node.stored \in [status: {"none", "active", "settled", "timeout"}, authMax: Nat, sig: Nat,
                      tokensDelivered: Nat, reserveMax: Nat, expired: BOOLEAN,
                      settledAt: BOOLEAN, recorded: Int]
  /\ {node.inFlight, node.uncounted} \subseteq Nat /\ unfinished(node) <= MaxInFlight
  /\ node.coop.ahead \in 0..Len(node.auths)
  /\ node.attempts \in 0..TIMED_OUT_AUTH_CLOSE_ATTEMPTS
  /\ {node.activeBuyer, connected, closeEvent, buyer.opened} \subseteq BOOLEAN
  /\ needAuth \in Nat
  /\ Len(wire) <= MaxWire

(* The seller never counts on more reserve than the chain has locked, in   *)
(* memory or in the row that it restarts from: not for a top-up that is    *)
(* deferred, fails, or is mined without the seller seeing it.              *)
ReserveNeverOverstated ==
  isOpen => node.mem.reserveMax <= ch.deposit /\ node.stored.reserveMax <= ch.deposit

(* Work served and not signed for is at most one round of requests, though *)
(* a request that waited is admitted on what it read before its wait.      *)
ExposureBounded ==
  isTracked => orZero(node.mem.spent) <= node.mem.accepted + MaxInFlight * MaxCost

(* What the seller could still claim after losing its memory: the amount   *)
(* of the stored authorization.                                            *)
durableClaim ==
  IF authorized(node.stored.authMax, node.stored.sig) THEN node.stored.authMax ELSE ch.settled

(* While the channel is open, no step lets the durable claim shrink: not a *)
(* restart, a recovery, an eviction, or an older SpendingAuth. A step that *)
(* stores an authorization above the deposit, which no transaction can     *)
(* use, is the exception: a recovery and the authorization attached to a   *)
(* close request are stored without the check that other SpendingAuths     *)
(* pass.                                                                   *)
DurableClaimKept ==
  [][isOpen /\ isOpen' /\ node'.stored.authMax <= ch'.deposit
       => durableClaim' >= durableClaim]_vars

(* A channel stored as settled has ended on chain. An amount stored with   *)
(* the time of a settlement is the one the chain paid, whoever's close it  *)
(* was; one that a recovery left, which is without a time and may stay     *)
(* when the channel is later marked settled, never exceeds it.             *)
RecordedSettlementTrue ==
  /\ node.stored.status = "settled" => hasEnded
  /\ node.stored.settledAt => hasEnded /\ node.stored.recorded = ch.settled
  /\ node.stored.recorded # Absent => node.stored.recorded <= ch.settled

(* A close that the seller started for the buyer's request (one that the   *)
(* request only joined has the amount of whoever started it) pays for all  *)
(* recorded work, also for what is recorded while the transaction is in    *)
(* flight. The exception is the work of a request that is not counted,     *)
(* because its buyer had no session when it began, and is billed because   *)
(* the buyer has one when it ends.                                         *)
GrantedCloseSettlesAll ==
  node.closing # NoClose /\ node.closing.waiters[1].who = "coop" /\ ~node.closing.late
    => orZero(node.mem.spent) <= Max({node.closing.amount, ch.settled})

(* A stored channel whose buyer the node itself holds for disconnected is  *)
(* closed, or the buyer comes back: through failed closes, signatures that *)
(* the contract refuses, the timed-out state, and closes on chain.         *)
DisconnectedChannelCloses ==
  (isOpen /\ node.stored.status # "none" /\ ~node.activeBuyer)
    ~> (hasEnded \/ node.activeBuyer)
=============================================================================
