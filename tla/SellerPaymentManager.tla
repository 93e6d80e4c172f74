------------------------ MODULE SellerPaymentManager ------------------------
(***************************************************************************)
(* The seller's side of one buyer's payment channel: SellerPaymentManager, *)
(* the rows of its ChannelStore, and the part of the request handler that  *)
(* admits and bills requests.                                              *)
(*                                                                         *)
(* The node is single-threaded and asynchronous. What a handler does       *)
(* between two awaits is a function from the node's state to the node's    *)
(* state, composed as the code composes its calls; an action is one such   *)
(* stretch. The node's state is one record because every handler may touch *)
(* all of it. Only stored (a row of SQLite) and the buyer's and the        *)
(* chain's state survive a restart.                                        *)
(*                                                                         *)
(* A request to the chain that reads (getSession) is answered at the       *)
(* moment its continuation runs. A read that fails ends its task and       *)
(* changes nothing, so it is the same as a task that never started.        *)
(***************************************************************************)
EXTENDS ChannelOnChain, Sequences

CONSTANTS
  MAX_CLOSE_RETRIES,              \* close() attempts before the timeout path
  TIMED_OUT_AUTH_CLOSE_ATTEMPTS,  \* attempts of a timed-out channel with its auth
  EstimateChecked,                \* a reserveEstimateOverdraftUsdc is configured
  MaxInFlight,                    \* bound on the requests being served or waiting
  MaxCost,                        \* bound on the cost of a request
  MaxSpent                        \* bound on the work served on the channel

ASSUME SellerAssumption ==
  /\ MAX_CLOSE_RETRIES \in Nat \ {0}
  /\ TIMED_OUT_AUTH_CLOSE_ATTEMPTS \in Nat
  /\ EstimateChecked \in BOOLEAN
  /\ {MaxInFlight, MaxCost, MaxSpent} \subseteq Nat

VARIABLES
  node,       \* the seller's node
  connected,  \* the buyer is connected
  needAuth,   \* the largest amount asked of the buyer and not answered, or 0
  closeEvent  \* a CloseRequested event is past the poller's cursor

sellerVars == <<node, connected, needAuth, closeEvent>>

(* Map.get(...) ?? 0n *)
Absent == -1
orZero(x) == IF x = Absent THEN 0 ELSE x

(* The maps keyed by channel, when they hold nothing for the channel. An   *)
(* authorization without a signature is an absent one: sig = 0.            *)
Forgotten ==
  [accepted |-> Absent, spent |-> Absent, latestAuth |-> 0, sig |-> 0, reserveMax |-> 0,
   pendingTopUp |-> 0, blocked |-> FALSE, retries |-> 0, hydrated |-> FALSE]

(* settledAt says whether settled_at is there, recorded is settled_amount.  *)
NoRow ==
  [status |-> "none", authMax |-> 0, sig |-> 0, tokensDelivered |-> 0, reserveMax |-> 0,
   expired |-> FALSE, settledAt |-> FALSE, recorded |-> Absent]

(* late is history: a request that _inFlightRequests does not count was    *)
(* billed while the close was in flight.                                   *)
NoClose == [amount |-> Absent, sig |-> 0, waiters |-> <<>>, late |-> FALSE]
NotChecking == [at |-> "none", accepted |-> 0, expired |-> FALSE, sig |-> 0]
NoCloseRequest == [at |-> "none", amount |-> 0, ahead |-> 0]

Running(row) ==
  [mem |-> Forgotten,          \* the channel-keyed maps
   stored |-> row,             \* the ChannelStore row
   activeBuyer |-> FALSE,      \* the buyer is in _activeBuyers
   auths |-> <<>>,             \* _buyerLocks: the SpendingAuths received and not finished
   closing |-> NoClose,        \* _closingChannels, and who awaits the close
   idleClose |-> "none",       \* _idleCloses
   coop |-> NoCloseRequest,    \* the CloseChannelRequest being handled
   checking |-> NotChecking,   \* the checkTimeouts pass under way
   idleTimer |-> FALSE,        \* the session tracker will report the buyer idle
   inFlight |-> 0,             \* _inFlightRequests
   uncounted |-> 0,            \* the requests being served that it does not count
   waiting |-> <<>>,           \* waitForPendingAuths: the auths ahead of each request
   parked |-> <<>>,            \* awaitAcceptedAtLeast: what each request has read
   attempts |-> 0,             \* _timedOutCloseAttempts
   starting |-> "done"]        \* what the startup has yet to do

----------------------------------------------------------------------------
(* Dropping a channel, and who is connected.                               *)

(* A new disconnect marker: the SpendingAuths received before it no longer *)
(* reactivate the buyer.                                                   *)
stale(auths) == [i \in DOMAIN auths |-> [auths[i] EXCEPT !.fresh = FALSE]]

(* The marker is only deleted, not renewed, when no channel is active;     *)
(* no SpendingAuth is then in a position to use its copy.                  *)
deactivateBuyerForChannel(n) ==
  [n EXCEPT !.activeBuyer = FALSE,
            !.auths = IF n.stored.status = "active" THEN stale(@) ELSE @]

forgetChannel(n) == deactivateBuyerForChannel([n EXCEPT !.mem = Forgotten])

updateChannelStatus(n, status) == [n EXCEPT !.stored.status = status]

recordSettlement(n, status, amount) ==
  [n EXCEPT !.stored.status = status, !.stored.recorded = amount, !.stored.settledAt = TRUE]

evictStaleChannel(n, status) == forgetChannel(updateChannelStatus(n, status))

(* _restorePersistedSpendingAuth, and the hydration of the constructor.    *)
hydrate(n, isHydrated) ==
  [n EXCEPT !.mem.accepted = n.stored.authMax,
            !.mem.spent = n.stored.tokensDelivered,
            !.mem.latestAuth = IF n.stored.sig > 0 THEN n.stored.authMax ELSE @,
            !.mem.sig = IF n.stored.sig > 0 THEN n.stored.sig ELSE @,
            !.mem.reserveMax = IF n.stored.reserveMax > 0 THEN n.stored.reserveMax ELSE @,
            !.mem.hydrated = isHydrated]

----------------------------------------------------------------------------
(* Closing. _submitClose sends one transaction per channel: a caller that  *)
(* comes while one is in flight awaits that one, whatever its amount.      *)

submitClose(n, amount, sig, who) ==
  LET w == [who |-> who, retries |-> n.mem.retries]
  IN  IF n.closing = NoClose
      THEN [n EXCEPT !.closing = [amount |-> amount, sig |-> sig, waiters |-> <<w>>,
                                  late |-> FALSE]]
      ELSE [n EXCEPT !.closing.waiters = Append(@, w)]

(* settleSession without settleOnly; who says what the caller does next.   *)
settleSession(n, who) ==
  CASE n.stored.status # "active" -> n
    [] n.stored.status = "active" /\ orZero(n.mem.accepted) = 0 -> forgetChannel(n)
    [] n.stored.status = "active" /\ orZero(n.mem.accepted) > 0
         /\ n.mem.retries >= MAX_CLOSE_RETRIES -> forgetChannel(updateChannelStatus(n, "timeout"))
    [] OTHER -> submitClose(n, n.mem.latestAuth, n.mem.sig, who)

closeWithoutAuth(n, who) ==
  IF n.mem.retries >= MAX_CLOSE_RETRIES
  THEN evictStaleChannel(n, "timeout")
  ELSE submitClose(n, ch.settled, 0, who)

handleCloseRequested(n, who) ==
  IF orZero(n.mem.accepted) > 0
  THEN submitClose(n, n.mem.latestAuth, n.mem.sig, who)
  ELSE forgetChannel(updateChannelStatus(n, "timeout"))

(* Who awaits a close through settleSession, and who through the others.   *)
Settlers == {"disconnect", "topUp", "whenIdle", "checkTimeouts"}
Zombies == {"zombie", "blocked"}
TimedOut == {"timedOutAuth", "timedOutSettled"}
Requested == {"poller", "startup", "coop"}

isAmong(whos, waiters) == \E i \in DOMAIN waiters : waiters[i].who \in whos

isAwaiting(n, whos) == isAmong(whos, n.closing.waiters)

(* Mutant: a caller records the latest authorization as what was paid.     *)
afterClosed_OwnAmount(n, w, amount) ==
  IF w.who \in Zombies THEN evictStaleChannel(n, "settled")
  ELSE forgetChannel(recordSettlement(n, "settled", n.mem.latestAuth))

(* What a caller does with the result that it shares with the others: it   *)
(* records the amount of the transaction, not the one it asked for.        *)
afterClosed(n, w, amount) ==
  CASE w.who \in Settlers \cup Requested ->
         forgetChannel(recordSettlement(n, "settled", amount))
    [] w.who \in Zombies -> evictStaleChannel(n, "settled")
    [] w.who \in TimedOut -> [recordSettlement(n, "settled", amount) EXCEPT !.attempts = 0]

(* cleanupOnFailure is set by the disconnect and the idle timeout only.    *)
cleanup(n, w) == IF w.who = "disconnect" THEN deactivateBuyerForChannel(n) ELSE n

afterCloseFailed(n, w, isRetryable) ==
  LET failed == [n EXCEPT !.mem.retries = w.retries + 1]
      tried == [n EXCEPT !.attempts = @ + 1]
  IN  CASE w.who \in Settlers /\ isRetryable -> cleanup(n, w)
        [] w.who \in Settlers /\ ~isRetryable ->
             IF w.retries + 1 < MAX_CLOSE_RETRIES THEN cleanup(failed, w)
             ELSE forgetChannel(updateChannelStatus(n, "timeout"))
        [] w.who \in Zombies -> IF isRetryable THEN n ELSE failed
        [] w.who \in TimedOut ->
             updateChannelStatus(IF w.who = "timedOutAuth" /\ ~isRetryable THEN tried ELSE n,
                                 "timeout")
        [] OTHER -> n

(* Mutant: a handler waiting for the auths before it misses one's end.     *)
dequeue_Unnoticed(n) == [n EXCEPT !.auths = Tail(@)]

oneLess(k) == Max({k - 1, 0})

(* The next SpendingAuth takes the buyer's lock; those who wait for the    *)
(* ones before them wait for one less.                                     *)
dequeue(n) ==
  [n EXCEPT !.auths = Tail(@), !.coop.ahead = oneLess(@),
            !.waiting = [i \in DOMAIN @ |-> oneLess(@[i])]]

(* The callers go on after the close.                                      *)
releaseWaiters(n, waiters) ==
  LET awaited(whos) == isAmong(whos, waiters)
      n1 == [n EXCEPT !.closing = NoClose,
                      !.idleClose = IF awaited({"whenIdle", "blocked"}) THEN "none" ELSE @,
                      !.checking = IF awaited({"checkTimeouts", "zombie"} \cup TimedOut)
                                   THEN NotChecking ELSE @,
                      !.coop = IF awaited({"coop"}) THEN NoCloseRequest ELSE @,
                      !.starting = IF awaited({"startup"}) THEN "poller" ELSE @]
  IN  IF awaited({"topUp"}) THEN dequeue(n1) ELSE n1

(* The callers of the close c continue after its result r, in the order in *)
(* which they came.                                                        *)
continueWaiters(n, c, r) ==
  LET continue(m, w) == IF r = "ok" THEN afterClosed(m, w, c.amount)
                        ELSE afterCloseFailed(m, w, r = "retryable")
      after[i \in 0..Len(c.waiters)] ==
        IF i = 0 THEN n ELSE continue(after[i - 1], c.waiters[i])
  IN  after[Len(c.waiters)]

(* A close in flight ends with result r.                                   *)
finishClose(r) ==
  LET c == node.closing
  IN  /\ c # NoClose
      /\ closeTx(c.amount, c.sig, r)
      /\ node' = releaseWaiters(continueWaiters(node, c, r), c.waiters)
      /\ UNCHANGED <<connected, needAuth, closeEvent>>

----------------------------------------------------------------------------
(* SpendingAuths. The head of auths holds the buyer's lock, and its at     *)
(* says what it awaits. A message carries either a new reserve maximum or  *)
(* a cumulative amount.                                                    *)

SpendingAuth(kind, amount) ==
  [kind |-> kind, amount |-> amount, fresh |-> TRUE, at |-> "lock",
   max |-> 0, settle |-> 0, sig |-> 0, reactivates |-> FALSE]

auth == Head(node.auths)

hasTurn(kind) == node.auths # <<>> /\ auth.at = "lock" /\ auth.kind = kind

awaits(at) == node.auths # <<>> /\ auth.at = at

isTracked == node.mem.accepted # Absent

await(n, at) == [n EXCEPT !.auths[1].at = at]

awaitTopUp(n, max) ==
  [n EXCEPT !.auths[1] = [@ EXCEPT !.at = "topUp", !.max = max,
                                   !.settle = n.mem.latestAuth, !.sig = n.mem.sig]]

canAcknowledgeRetainedChannel(n) ==
  /\ n.stored.status = "active"
  /\ n.mem.accepted # Absent
  /\ n.closing = NoClose
  /\ ~n.mem.blocked
  /\ n.auths[1].fresh

(* _validateRetainedChannel reads the chain; without it, the end.          *)
reactivate(n) ==
  IF n.auths[1].reactivates /\ canAcknowledgeRetainedChannel(n)
  THEN await(n, "validation") ELSE dequeue(n)

activateSession(n, row, accepted, spent) ==
  [n EXCEPT !.stored = row, !.activeBuyer = TRUE,
            !.mem = [@ EXCEPT !.hydrated = FALSE, !.accepted = accepted, !.spent = spent,
                              !.reserveMax = row.reserveMax,
                              !.latestAuth = row.authMax, !.sig = row.sig]]

(* First SpendingAuth: a ReserveAuth for a channel that is not tracked.    *)
beginReserve ==
  /\ hasTurn("reserve") /\ ~isTracked
  /\ node' = await(node, "reserve")
  /\ UNCHANGED <<chainVars, connected, needAuth, closeEvent>>

finishReserve(r) ==
  LET row == [NoRow EXCEPT !.status = "active", !.reserveMax = auth.amount]
  IN  /\ awaits("reserve")
      /\ reserveTx(auth.amount, r)
      /\ node' = dequeue(IF r = "ok" THEN activateSession(node, row, 0, 0) ELSE node)
      /\ UNCHANGED <<connected, needAuth, closeEvent>>

(* A ReserveAuth above the tracked maximum tops the channel up; any other  *)
(* one is not a valid SpendingAuth.                                        *)
beginTopUp ==
  /\ hasTurn("reserve") /\ isTracked
  /\ node' = IF auth.amount > node.mem.reserveMax
             THEN awaitTopUp(node, auth.amount) ELSE dequeue(node)
  /\ UNCHANGED <<chainVars, connected, needAuth, closeEvent>>

(* Mutant: a deferred top-up counts as locked.                             *)
storePendingTopUp_Counted(n, max) ==
  [n EXCEPT !.mem.pendingTopUp = Max({@, max}), !.mem.reserveMax = max]

storePendingTopUp(n, max) == [n EXCEPT !.mem.pendingTopUp = Max({@, max})]

toppedUp(n) ==
  [n EXCEPT !.mem.reserveMax = auth.max,
            !.mem.hydrated = @ /\ auth.kind = "auth",
            !.stored.reserveMax = auth.max]

(* A failed top-up blocks the channel and closes it while still holding    *)
(* the lock; the retry of a deferred one then also ends.                   *)
topUpFailed(n) ==
  LET n1 == [n EXCEPT !.mem.blocked = TRUE,
                      !.mem.pendingTopUp = IF auth.kind = "reserve" THEN 0 ELSE @]
      n2 == settleSession(n1, "topUp")
  IN  IF isAwaiting(n2, {"topUp"}) THEN await(n2, "close") ELSE dequeue(n2)

finishTopUp(r) ==
  /\ awaits("topUp")
  /\ topUpTx(auth.settle, auth.sig, auth.max, r)
  /\ node' = CASE r = "ok" -> reactivate(toppedUp(node))
               [] r = "retryable" -> reactivate(storePendingTopUp(node, auth.max))
               [] OTHER -> topUpFailed(node)
  /\ UNCHANGED <<connected, needAuth, closeEvent>>

(* A SpendingAuth of a channel that is not tracked recovers it from the    *)
(* chain. Whether its deadline has passed is read there only for a channel *)
(* that has no row yet: the upsert keeps the deadline of a row. What the   *)
(* chain has settled so far is stored as the settled amount.               *)
beginRecovery ==
  /\ hasTurn("auth") /\ ~isTracked
  /\ node' = await(node, "recovery")
  /\ UNCHANGED <<chainVars, connected, needAuth, closeEvent>>

recoverOnChainSession(expired) ==
  LET row == [NoRow EXCEPT !.status = "active", !.authMax = auth.amount, !.sig = auth.amount,
                           !.reserveMax = ch.deposit, !.tokensDelivered = ch.settled,
                           !.expired = expired,
                           !.recorded = IF ch.settled > 0 THEN ch.settled ELSE Absent]
      recovers == isOpen /\ ~ch.closeRequested /\ auth.amount >= ch.settled
  IN  /\ awaits("recovery")
      /\ node.stored.status # "none" => expired = node.stored.expired
      /\ node' = dequeue(IF recovers THEN activateSession(node, row, auth.amount, ch.settled)
                         ELSE node)
      /\ UNCHANGED <<chainVars, connected, needAuth, closeEvent>>

(* The amounts that a tracked channel takes as an increase.                *)
withinReserve(n, amount) == n.mem.reserveMax > 0 => amount <= n.mem.reserveMax

isAcceptable(n, amount) ==
  /\ amount > n.mem.accepted
  /\ amount >= orZero(n.mem.spent)
  /\ withinReserve(n, amount)

requiresReactivation == ~node.activeBuyer \/ node.mem.hydrated

acceptSpendingAuth ==
  LET n == [node EXCEPT !.mem.accepted = auth.amount, !.mem.latestAuth = auth.amount,
                        !.mem.sig = auth.amount,
                        !.stored.authMax = auth.amount, !.stored.sig = auth.amount,
                        !.auths[1].reactivates = requiresReactivation]
  IN  /\ hasTurn("auth") /\ isTracked /\ isAcceptable(node, auth.amount)
      /\ node' = IF n.mem.pendingTopUp > 0
                 THEN [awaitTopUp(n, n.mem.pendingTopUp) EXCEPT !.mem.pendingTopUp = 0]
                 ELSE reactivate(n)
      /\ UNCHANGED <<chainVars, connected, needAuth, closeEvent>>

(* The same amount again is idempotent; a lower or excessive one is        *)
(* rejected.                                                               *)
otherSpendingAuth ==
  /\ hasTurn("auth") /\ isTracked /\ ~isAcceptable(node, auth.amount)
  /\ node' = reactivate([node EXCEPT !.auths[1].reactivates =
                           auth.amount = node.mem.accepted /\ requiresReactivation])
  /\ UNCHANGED <<chainVars, connected, needAuth, closeEvent>>

validateRetainedChannel ==
  LET valid == /\ isOpen /\ ~ch.closeRequested
               /\ ch.settled <= auth.amount /\ auth.amount <= ch.deposit
               /\ canAcknowledgeRetainedChannel(node)
  IN  /\ awaits("validation")
      /\ node' = dequeue(IF valid THEN [node EXCEPT !.mem.hydrated = FALSE, !.activeBuyer = TRUE]
                         ELSE node)
      /\ UNCHANGED <<chainVars, connected, needAuth, closeEvent>>

----------------------------------------------------------------------------
(* Requests. One that comes while SpendingAuths are being processed waits  *)
(* for them; one that finds more served than signed waits for the buyer to *)
(* catch up, and then decides with what it read before waiting. Each wait  *)
(* ends in the order in which it began.                                    *)

budgetRead(n) ==
  LET spent == orZero(n.mem.spent)
      accepted == orZero(n.mem.accepted)
  IN  [spent |-> spent, reserveMax |-> n.mem.reserveMax, blocked |-> n.mem.blocked,
       atLimit |-> spent > 0 /\ spent = accepted /\ n.mem.reserveMax > 0
                     /\ accepted >= n.mem.reserveMax]

(* Mutant: only an exhausted reserve stops the seller.                     *)
exceedsBudget_AtLimit(read, accepted) == read.spent > 0 /\ read.atLimit

exceedsBudget(read, accepted) == read.spent > 0 /\ (read.spent > accepted \/ read.atLimit)

isRefused(read, accepted, tooLarge) ==
  read.blocked \/ exceedsBudget(read, accepted) \/ tooLarge

isExhausted(read, accepted, tooLarge) ==
  \/ read.blocked \/ tooLarge
  \/ read.reserveMax > 0 /\ (accepted >= read.reserveMax \/ read.spent > read.reserveMax)

closeSessionWhenIdle(n) ==
  IF n.stored.status = "active" /\ n.idleClose = "none"
  THEN [n EXCEPT !.idleClose = "draining"] ELSE n

hasClosingChannel(n) == n.stored.status = "active" /\ n.closing # NoClose

(* Billable work begins unless a close of the stored channel is in flight. *)
(* A request whose buyer lost its session during a wait is served too, but *)
(* not counted among those that hold the channel open.                     *)
beginBillableRequest(n) ==
  CASE ~n.activeBuyer -> [n EXCEPT !.uncounted = @ + 1]
    [] n.activeBuyer /\ hasClosingChannel(n) -> n
    [] OTHER -> [n EXCEPT !.inFlight = @ + 1]

sendNeedAuth(required) ==
  needAuth' = IF connected THEN Max({needAuth, required}) ELSE needAuth

decide(n, read, tooLarge) ==
  LET accepted == orZero(n.mem.accepted)
      refused == isRefused(read, accepted, tooLarge)
      exhausted == isExhausted(read, accepted, tooLarge)
  IN  /\ node' = CASE refused /\ exhausted -> closeSessionWhenIdle(n)
                   [] refused /\ ~exhausted -> n
                   [] OTHER -> beginBillableRequest(n)
      /\ IF refused /\ ~exhausted THEN sendNeedAuth(read.spent) ELSE UNCHANGED needAuth

(* The cost of a request is unknown until it is served; the estimate may   *)
(* exceed what was left of the reserve when the seller checks it.          *)
estimates(read) == {EstimateChecked /\ read.reserveMax > 0, FALSE}

serving(n) == n.inFlight + n.uncounted
unfinished(n) == serving(n) + Len(n.waiting) + Len(n.parked)

mayServe(n) ==
  /\ unfinished(n) < MaxInFlight
  /\ orZero(n.mem.spent) + (unfinished(n) + 1) * MaxCost <= MaxSpent

checkBudget(n, tooLarge) ==
  LET read == budgetRead(n)
  IN  /\ tooLarge \in estimates(read)
      /\ IF read.spent > orZero(n.mem.accepted)
         THEN node' = [n EXCEPT !.parked = Append(@, read)] /\ UNCHANGED needAuth
         ELSE decide(n, read, tooLarge)

(* A request of a buyer with a session. Without a stored channel the       *)
(* budget is not checked. It first waits for the auths being processed.    *)
requestArrives(tooLarge) ==
  /\ connected /\ node.activeBuyer /\ mayServe(node)
  /\ \/ /\ node.stored.status # "active"
        /\ node' = beginBillableRequest(node) /\ UNCHANGED needAuth
     \/ /\ node.stored.status = "active" /\ node.auths # <<>>
        /\ node' = [node EXCEPT !.waiting = Append(@, Len(node.auths))] /\ UNCHANGED needAuth
     \/ /\ node.stored.status = "active" /\ node.auths = <<>>
        /\ checkBudget(node, tooLarge)
  /\ UNCHANGED <<chainVars, connected, closeEvent>>

(* The auths are done. A channel retired meanwhile is a 402; whether the   *)
(* buyer still has its session is not asked here.                          *)
requestProceeds(tooLarge) ==
  LET n == [node EXCEPT !.waiting = Tail(@)]
  IN  /\ node.waiting # <<>> /\ Head(node.waiting) = 0
      /\ IF n.stored.status # "active" THEN node' = n /\ UNCHANGED needAuth
         ELSE checkBudget(n, tooLarge)
      /\ UNCHANGED <<chainVars, connected, closeEvent>>

(* The wait ends when the buyer has caught up, when the channel is         *)
(* dropped, or after its timeout: at any time.                             *)
requestWakes(tooLarge) ==
  LET read == Head(node.parked)
  IN  /\ node.parked # <<>>
      /\ tooLarge \in estimates(read)
      /\ decide([node EXCEPT !.parked = Tail(@)], read, tooLarge)
      /\ UNCHANGED <<chainVars, connected, closeEvent>>

recordSpend(n, cost) ==
  IF n.mem.spent = Absent THEN n
  ELSE [n EXCEPT !.mem.spent = @ + cost, !.stored.tokensDelivered = n.mem.spent + cost]

(* The session and the stored channel are asked for when it is served.     *)
isBilled(n) == n.activeBuyer /\ n.stored.status = "active"

bill(n, cost) == IF isBilled(n) THEN recordSpend(n, cost) ELSE n

endBillableRequest(n) == [n EXCEPT !.inFlight = @ - 1]

endUncounted(n) ==
  [n EXCEPT !.uncounted = @ - 1, !.closing.late = @ \/ (isBilled(n) /\ n.closing # NoClose)]

(* A request has been served: its cost is recorded and the buyer is asked  *)
(* to sign for it, when there is a session, whether or not there was one   *)
(* when it began.                                                          *)
requestCompletes(cost) ==
  LET n == bill(node, cost)
      timed == [n EXCEPT !.idleTimer = TRUE]
  IN  /\ \/ node.inFlight > 0 /\ node' = endBillableRequest(timed)
         \/ node.uncounted > 0 /\ node' = endUncounted(timed)
      /\ IF isBilled(node) THEN sendNeedAuth(orZero(n.mem.spent)) ELSE UNCHANGED needAuth
      /\ UNCHANGED <<chainVars, connected, closeEvent>>

----------------------------------------------------------------------------
(* Closes and settlements the seller starts by itself.                     *)

(* closeSessionWhenIdle after the drain, which ends when no request is in  *)
(* flight or when it has taken IDLE_CLOSE_DRAIN_MS.                        *)
closeAfterDrain ==
  LET n == [node EXCEPT !.idleClose = "closing"]
      n1 == CASE n.stored.status # "active" -> n
              [] n.stored.status = "active"
                   /\ (orZero(n.mem.accepted) > 0 \/ ~n.mem.blocked) -> settleSession(n, "whenIdle")
              [] OTHER -> IF isOpen THEN closeWithoutAuth(n, "blocked") ELSE n
  IN  /\ node.idleClose = "draining"
      /\ node' = IF isAwaiting(n1, {"whenIdle", "blocked"}) THEN n1
                 ELSE [n1 EXCEPT !.idleClose = "none"]
      /\ UNCHANGED <<chainVars, connected, needAuth, closeEvent>>

(* The idle settle keeps the channel open and touches only the chain.      *)
idleSettle(r) ==
  /\ node.idleTimer
  /\ node.stored.status = "active" /\ orZero(node.mem.accepted) > 0
  /\ node.mem.latestAuth > ch.settled
  /\ settleTx(node.mem.latestAuth, node.mem.sig, r)
  /\ UNCHANGED sellerVars

idleTimeout ==
  /\ node.idleTimer
  /\ node' = settleSession([node EXCEPT !.idleTimer = FALSE], "disconnect")
  /\ UNCHANGED <<chainVars, connected, needAuth, closeEvent>>

onBuyerDisconnect(n) ==
  LET n1 == [n EXCEPT !.auths = stale(@)]
  IN  CASE n.stored.status # "active" -> n
        [] n.stored.status = "active" /\ orZero(n.mem.accepted) > 0 ->
             settleSession(n1, "disconnect")
        [] OTHER -> [n1 EXCEPT !.activeBuyer = FALSE]

(* checkTimeouts, over the one channel: an active one first, a timed-out   *)
(* one without a time of settlement else.  What it read before it awaits   *)
(* the chain is what it uses after.                                        *)
hasDurableAuth(row) == row.authMax > 0 /\ row.sig > 0

checkTimeouts ==
  LET restored == IF orZero(node.mem.accepted) = 0 /\ hasDurableAuth(node.stored)
                  THEN hydrate(node, FALSE) ELSE node
  IN  /\ node.starting = "done" /\ node.checking = NotChecking
      /\ node.stored.status = "active"
      /\ node' = [restored EXCEPT !.checking =
                    [at |-> "active", accepted |-> orZero(restored.mem.accepted),
                     expired |-> node.stored.expired, sig |-> 0]]
      /\ UNCHANGED <<chainVars, connected, needAuth, closeEvent>>

(* Mutant: only a channel restored by a restart can be a zombie.           *)
isZombie_Hydrated(n) == n.checking.accepted = 0 /\ n.checking.expired /\ n.mem.hydrated

isZombie(n) ==
  /\ n.checking.accepted = 0 /\ n.checking.expired
  /\ ~n.activeBuyer \/ n.mem.hydrated

checkActiveChannel ==
  LET n == node
      n1 == CASE ~isOpen -> evictStaleChannel(n, "settled")
              [] isOpen /\ n.checking.accepted > 0 /\ ~n.activeBuyer ->
                   settleSession(n, "checkTimeouts")
              [] isOpen /\ isZombie(n) -> closeWithoutAuth(n, "zombie")
              [] OTHER -> n
  IN  /\ node.checking.at = "active"
      /\ node' = IF isAwaiting(n1, {"checkTimeouts", "zombie"})
                 THEN [n1 EXCEPT !.checking.at = "close"]
                 ELSE [n1 EXCEPT !.checking = NotChecking]
      /\ UNCHANGED <<chainVars, connected, needAuth, closeEvent>>

retryTimedOutCloses ==
  /\ node.starting = "done" /\ node.checking = NotChecking
  /\ node.stored.status = "timeout" /\ ~node.stored.settledAt
  /\ node.closing = NoClose
  /\ node' = [node EXCEPT !.checking =
                [at |-> "timedOut", accepted |-> node.stored.authMax,
                 expired |-> FALSE, sig |-> node.stored.sig]]
  /\ UNCHANGED <<chainVars, connected, needAuth, closeEvent>>

retryTimedOutClose ==
  LET row == node.checking
      authUsable == /\ node.attempts < TIMED_OUT_AUTH_CLOSE_ATTEMPTS
                    /\ row.sig > 0
                    /\ row.accepted > ch.settled /\ row.accepted <= ch.deposit
      done == [node EXCEPT !.checking = NotChecking, !.attempts = 0]
      closes == [node EXCEPT !.checking.at = "close"]
  IN  /\ row.at = "timedOut"
      /\ node' = CASE ch.status = "settled" -> recordSettlement(done, "settled", ch.settled)
                   [] ch.status = "timedOut" -> recordSettlement(done, "timeout", ch.settled)
                   [] isOpen /\ authUsable ->
                        submitClose(closes, row.accepted, row.sig, "timedOutAuth")
                   [] OTHER -> submitClose(closes, ch.settled, 0, "timedOutSettled")
      /\ UNCHANGED <<chainVars, connected, needAuth, closeEvent>>

----------------------------------------------------------------------------
(* CloseChannelRequest: the buyer asks for a close at once, and may attach *)
(* its latest SpendingAuth.                                                *)

receiveCloseRequest(n, amount) ==
  IF n.stored.status = "active" /\ n.inFlight = 0 /\ n.closing = NoClose
     /\ n.coop = NoCloseRequest
  THEN [n EXCEPT !.coop = [at |-> "auths", amount |-> amount, ahead |-> Len(n.auths)]]
  ELSE n

(* Mutant: the attached authorization replaces the latest one, though an   *)
(* authorization that came later was accepted first.                       *)
adoptBuyerCloseAuth_Always(n, amount) ==
  [n EXCEPT !.mem.latestAuth = amount, !.mem.sig = amount, !.mem.accepted = amount,
            !.stored.authMax = amount, !.stored.sig = amount]

adoptBuyerCloseAuth(n, amount) ==
  IF amount = 0 \/ (n.mem.sig > 0 /\ n.mem.latestAuth >= amount) THEN n
  ELSE [n EXCEPT !.mem.latestAuth = amount, !.mem.sig = amount,
                 !.mem.accepted = Max({orZero(@), amount}),
                 !.stored.authMax = Max({@, amount}), !.stored.sig = amount]

isOwedMore(n) == orZero(n.mem.spent) > n.mem.latestAuth

(* Mutant: no second check for requests admitted during the awaits.        *)
isBusy_Unchecked(n) == FALSE

isBusy(n) == n.inFlight > 0

rejectClose(n) == [n EXCEPT !.coop = NoCloseRequest]

(* Unsigned work is waited for; else the chain is read.                    *)
adoptCloseAuth ==
  LET n == adoptBuyerCloseAuth(node, node.coop.amount)
  IN  /\ node.coop.at = "auths" /\ node.coop.ahead = 0
      /\ node' = IF node.stored.status # "active" THEN rejectClose(node)
                 ELSE [n EXCEPT !.coop.at = IF isOwedMore(n) THEN "catchUp" ELSE "chain"]
      /\ UNCHANGED <<chainVars, connected, needAuth, closeEvent>>

(* The wait ends when the buyer has caught up, or after its timeout.       *)
closeCatchUp ==
  /\ node.coop.at = "catchUp"
  /\ IF isOwedMore(node)
     THEN node' = rejectClose(node) /\ sendNeedAuth(orZero(node.mem.spent))
     ELSE node' = [node EXCEPT !.coop.at = "chain"] /\ UNCHANGED needAuth
  /\ UNCHANGED <<chainVars, connected, closeEvent>>

(* After the read of the chain both are checked again; from here to the    *)
(* submission nothing can come in between.                                 *)
handleCloseChannelRequest ==
  LET amount == Max({node.mem.latestAuth, ch.settled})
      sig == IF node.mem.latestAuth > ch.settled THEN node.mem.sig ELSE 0
  IN  /\ node.coop.at = "chain"
      /\ node' = IF isBusy(node) \/ isOwedMore(node) THEN rejectClose(node)
                 ELSE submitClose([node EXCEPT !.coop.at = "close"], amount, sig, "coop")
      /\ UNCHANGED <<chainVars, connected, needAuth, closeEvent>>

----------------------------------------------------------------------------
(* CloseRequested events, and the restart: the constructor hydrates an     *)
(* active row, validateHydratedChannels compares it with the chain, and    *)
(* the poller starts at the current block. Only then do buyers connect.    *)

(* An event is handled once, whatever becomes of its close.                *)
pollCloseRequested ==
  /\ node.starting = "done" /\ closeEvent
  /\ closeEvent' = FALSE
  /\ node' = IF isTracked \/ node.stored.status = "active"
             THEN handleCloseRequested(node, "poller") ELSE node
  /\ UNCHANGED <<chainVars, connected, needAuth>>

restart ==
  LET n == Running(node.stored)
  IN  /\ node' = IF node.stored.status = "active"
                 THEN [hydrate(n, TRUE) EXCEPT !.activeBuyer = TRUE, !.starting = "channels"]
                 ELSE [n EXCEPT !.starting = "poller"]
      /\ connected' = FALSE /\ needAuth' = 0
      /\ UNCHANGED closeEvent

(* An auth that could only revert is dropped; one above the settled amount *)
(* is kept so that the seller can close if the buyer disconnects.          *)
reconcile(n) ==
  LET useless == n.mem.latestAuth <= ch.settled
  IN  IF ch.settled > n.mem.spent
      THEN [n EXCEPT !.mem.spent = ch.settled,
                     !.mem.latestAuth = IF useless THEN 0 ELSE @,
                     !.mem.sig = IF useless THEN 0 ELSE @]
      ELSE n

validateHydratedChannels(readable) ==
  LET n == [node EXCEPT !.starting = "poller"]
      n1 == CASE ~readable -> n
              [] readable /\ ~isOpen -> evictStaleChannel(n, "settled")
              [] readable /\ isOpen /\ ch.closeRequested -> handleCloseRequested(n, "startup")
              [] OTHER -> reconcile(n)
  IN  /\ node.starting = "channels" /\ node.closing = NoClose
      /\ node' = [n1 EXCEPT !.starting = IF isAwaiting(n1, {"startup"}) THEN "channels" ELSE @]
      /\ UNCHANGED <<chainVars, connected, needAuth, closeEvent>>

startPoller ==
  /\ node.starting = "poller"
  /\ node' = [node EXCEPT !.starting = "done"]
  /\ closeEvent' = FALSE
  /\ UNCHANGED <<chainVars, connected, needAuth>>
=============================================================================
