------------------------ MODULE BuyerPaymentManager -------------------------
(***************************************************************************)
(* buyer-core/src/buyer-payment-manager.ts: how a buyer signs for what one *)
(* seller serves.  Every NeedAuth frame starts a handler of its own, and   *)
(* nothing orders the handlers: each reads the manager's maps and the      *)
(* stored row, awaits (a unit of evidence, a signature, a balance), and    *)
(* writes back what it computed from the values it read.  A handler is     *)
(* modelled as a call with its local variables, and each of its steps runs *)
(* from one await to the next.                                             *)
(*                                                                         *)
(* The seller (external, see SellerPaymentManager) serves requests, asks   *)
(* for an authorization of all it has spent after each, and keeps the      *)
(* highest it is sent.  Amounts are whole units; claimed costs agree with  *)
(* the buyer's own estimate or are refused.  One-off video channels are    *)
(* not modelled.                                                           *)
(***************************************************************************)
EXTENDS Integers, Sequences, FiniteSets, Functions

CONSTANTS
  Requests,               \* requests made of the seller
  UnitBilled,             \* those whose NeedAuth carries evidence to be observed
  Prices,                 \* what the requests may cost
  maxPerRequestUsdc,      \* the overdraft window
  maxReserveAmountUsdc,   \* what a top-up adds, and the most that the opening reserves
  SUBSEQUENT_TOPUP_HEADROOM_USDC,
  minBudgetPerRequest,    \* what a 402 asks for on top
  MaxCeiling,             \* bound on the reserve signed for
  MaxFaults,              \* bound on the 402s and the restarts together
  MaxCloses,              \* bound on the close requests
  None

ASSUME BuyerAssumption ==
  /\ UnitBilled \subseteq Requests /\ IsFiniteSet(Requests) /\ Requests # {}
  /\ None \notin Requests /\ {"extend", "close"} \cap (Requests \cup {None}) = {}
  /\ Prices \subseteq [Requests -> Nat \ {0}]
  /\ {maxPerRequestUsdc, maxReserveAmountUsdc, minBudgetPerRequest} \subseteq Nat \ {0}
  /\ {SUBSEQUENT_TOPUP_HEADROOM_USDC, MaxCeiling, MaxFaults, MaxCloses} \subseteq Nat

(* Handlers: of the NeedAuth for a request, of a NeedAuth for no request   *)
(* (None), of a 402, and of a close request.                               *)
Calls == Requests \cup {None, "extend", "close"}

VARIABLES
  row,        \* the stored channel
  mem,        \* the manager's maps, for this seller; and, as history, whether
              \* it lost track of the reserve that was acknowledged
  lastResponse,  \* the negotiator's last response not signed for
  observed,   \* unit-billed requests whose response was observed
  call,       \* the running handlers
  needAuths,  \* NeedAuth frames on their way
  seller,     \* what the seller and the chain hold (external)
  sent,       \* the amount of the last SpendingAuth sent
  disputed,   \* a NeedAuth was refused
  extends, closes, restarts

vars == <<row, mem, lastResponse, observed, call, needAuths, seller, sent, disputed,
          extends, closes, restarts>>

Least(m, n) == IF m < n THEN m ELSE n
Greatest(m, n) == IF m > n THEN m ELSE n

Idle == [phase |-> "idle"]
running(id) == call[id] # Idle
NotCounted == -1
needAuth(request, required, cost) == [request |-> request, required |-> required, cost |-> cost]
NoReserve == [maxAmount |-> 0, confirmedAmount |-> 0]

(* authorizeSpending has just sent the opening ReserveAuth, for what the   *)
(* seller suggests but no more than maxReserveAmountUsdc.                  *)
Init ==
  /\ \E opening \in 1..maxReserveAmountUsdc, price \in Prices :
       /\ row = [authMax |-> 0, initialReserveAmount |-> opening, reserveMaxAmount |-> opening,
                 reserveAuthPending |-> TRUE, confirmedReserveAmount |-> 0, active |-> TRUE]
       /\ mem = [cumulativeAmount |-> 0, verifiedCost |-> 0, reserveCeiling |-> opening,
                 initialReserve |-> opening,
                 pendingReserveAuth |-> [maxAmount |-> opening, confirmedAmount |-> 0],
                 unpaid |-> [r \in Requests |-> NotCounted], reserveLost |-> FALSE]
       /\ seller = [price |-> price, served |-> {}, spent |-> 0, accepted |-> 0, deposit |-> 0,
                    signedReserve |-> opening, open |-> TRUE]
  /\ lastResponse = None
  /\ observed = {}
  /\ call = [id \in Calls |-> Idle]
  /\ needAuths = <<>>
  /\ sent = 0 /\ disputed = FALSE
  /\ extends = 0 /\ closes = 0 /\ restarts = 0

-----------------------------------------------------------------------------
(* Amounts.                                                                *)

(* Mutant: the reserve does not cap what is signed. *)
maxSignableForVerified_Uncapped(verified) == verified + maxPerRequestUsdc

(* _maxSignableForVerified *)
maxSignableForVerified(verified) == Least(verified + maxPerRequestUsdc, mem.reserveCeiling)

needsCeilingAdvance(requested, maxSignable) ==
  requested > maxSignable /\ maxSignable >= mem.reserveCeiling

needsTopUp(cumulative) ==
  LET threshold == IF mem.reserveCeiling <= mem.initialReserve
                   THEN (mem.initialReserve * 35) \div 100
                   ELSE SUBSEQUENT_TOPUP_HEADROOM_USDC
  IN  Greatest(mem.reserveCeiling - cumulative, 0) <= threshold

(* _reopenOverdraftWindowIfCollapsed: the verified cost moves up to what   *)
(* is signed already.                                                      *)
reopened(current, verified) ==
  IF maxSignableForVerified(verified) > current \/ current <= verified
  THEN verified ELSE current

-----------------------------------------------------------------------------
(* Signing: a handler's first step ends at the await of a signature, the   *)
(* second commits the row it read at its start with the new amount, the    *)
(* third writes the maps and sends.                                        *)

signing(session, amount, current, verified, counted, unpaid, topUp) ==
  [phase |-> "signing", session |-> session, amount |-> amount, before |-> current,
   verifiedCost |-> verified, counted |-> counted, unpaid |-> unpaid, topUp |-> topUp]

(* What follows the signing and the top-up of a handler: the close request *)
(* is built, the recovery is judged, and a NeedAuth is done.               *)
afterwards(id, before) ==
  CASE id = "close"  -> [phase |-> "signed"]
    [] id = "extend" -> [phase |-> "extended", before |-> before]
    [] OTHER         -> Idle

(* topUpReserve up to its first await, with the maps as m. *)
topUpOrEnd(id, wanted, before, m) ==
  IF wanted /\ row.active /\ m.reserveCeiling + maxReserveAmountUsdc <= MaxCeiling
  THEN [phase |-> "toppingUp", session |-> row, prevCeiling |-> m.reserveCeiling, before |-> before]
  ELSE afterwards(id, before)

(* Mutant: the handler adds its request's cost to what it read, instead of *)
(* signing the total that the seller asks for.                             *)
evaluateNeedAuth_OwnCost(id, required, cost, current, session) ==
  LET verified == mem.verifiedCost + cost
      effective == Least(current + cost, maxSignableForVerified(verified))
      counted == id \in Requests /\ mem.unpaid[id] # NotCounted
  IN  IF effective > current
      THEN signing(session, effective, current, verified, counted, 0, FALSE)
      ELSE Idle

(* handleNeedAuth from the reading of the verified cost to the await of    *)
(* the signature.  current and session were read when the frame came in.   *)
evaluateNeedAuth(id, required, cost, current, session) ==
  LET nextVerified == mem.verifiedCost + cost
      first == maxSignableForVerified(nextVerified)
      collapsed == first <= current /\ ~needsCeilingAdvance(required, first)
      verified == IF collapsed THEN reopened(current, nextVerified) ELSE nextVerified
      maxSignable == maxSignableForVerified(verified)
      advance == needsCeilingAdvance(required, maxSignable)
      effective == IF advance THEN Greatest(maxSignable, current) ELSE Least(required, maxSignable)
      counted == id \in Requests /\ mem.unpaid[id] # NotCounted
  IN  IF effective > current
      THEN signing(session, effective, current, verified, counted,
                   cost - Least(cost, effective - current), advance)
      ELSE topUpOrEnd(id, advance, current, mem)

(* handleNeedAuth *)
handleNeedAuth ==
  LET frame == Head(needAuths)
      id == frame.request
      waits == id \in UnitBilled \ observed
  IN  /\ needAuths # <<>> /\ ~running(frame.request)
      /\ needAuths' = Tail(needAuths)
      /\ IF ~row.active \/ frame.required <= mem.cumulativeAmount
         THEN UNCHANGED <<call, disputed>>
         ELSE \/ /\ disputed' = TRUE
                 /\ UNCHANGED call
              \/ /\ call' = [call EXCEPT ![id] =
                      IF waits THEN [phase |-> "waiting", required |-> frame.required, cost |-> frame.cost,
                                     current |-> mem.cumulativeAmount, session |-> row]
                      ELSE evaluateNeedAuth(id, frame.required, frame.cost, mem.cumulativeAmount, row)]
                 /\ UNCHANGED disputed
      /\ UNCHANGED <<row, mem, lastResponse, observed, seller, sent, extends, closes, restarts>>

(* The evidence has been observed, or the wait for it is over. *)
resumeNeedAuth(id) ==
  LET c == call[id] IN
  /\ c.phase = "waiting"
  /\ \/ /\ id \in observed
        /\ call' = [call EXCEPT ![id] = evaluateNeedAuth(id, c.required, c.cost, c.current, c.session)]
        /\ UNCHANGED disputed
     \/ /\ id \notin observed
        /\ call' = [call EXCEPT ![id] = Idle]
        /\ disputed' = TRUE
  /\ UNCHANGED <<row, mem, lastResponse, observed, needAuths, seller, sent, extends, closes, restarts>>

(* _commitAuthorization of a signed amount *)
commitAuthorization(id) ==
  LET c == call[id] IN
  /\ c.phase = "signing"
  /\ row' = [c.session EXCEPT !.authMax = c.amount]
  /\ call' = [call EXCEPT ![id].phase = "committed"]
  /\ UNCHANGED <<mem, lastResponse, observed, needAuths, seller, sent, disputed, extends, closes, restarts>>

(* The request is marked as counted, with what of it was left unsigned. *)
marked(id, c) ==
  IF id \notin Requests \/ c.counted THEN mem.unpaid ELSE [mem.unpaid EXCEPT ![id] = c.unpaid]

send(amount) ==
  /\ sent' = amount
  /\ seller' = [seller EXCEPT !.accepted = Greatest(@, amount)]

finishNeedAuth(id) ==
  LET c == call[id]
      m == [mem EXCEPT !.cumulativeAmount = c.amount, !.verifiedCost = c.verifiedCost,
                       !.unpaid = marked(id, c)]
  IN  /\ c.phase = "committed" /\ id # "close"
      /\ mem' = m
      /\ send(c.amount)
      /\ call' = [call EXCEPT ![id] =
           topUpOrEnd(id, c.topUp \/ (id # "extend" /\ needsTopUp(c.amount)), c.before, m)]
      /\ UNCHANGED <<row, lastResponse, observed, needAuths, disputed, extends, closes, restarts>>

-----------------------------------------------------------------------------
(* Top-ups, recovery and restarts.                                         *)

(* The rest of topUpReserve: the balance was too low, which aborts a close *)
(* request, or the row read before it was asked for is committed with the  *)
(* ReserveAuth.                                                            *)
topUpReserve(id) ==
  LET c == call[id]
      ceiling == c.prevCeiling + maxReserveAmountUsdc
  IN  /\ c.phase = "toppingUp"
      /\ \/ /\ call' = [call EXCEPT ![id] = IF id = "close" THEN Idle ELSE afterwards(id, c.before)]
            /\ UNCHANGED row
         \/ /\ call' = [call EXCEPT ![id] = [phase |-> "reserving", prevCeiling |-> c.prevCeiling,
                                             ceiling |-> ceiling, before |-> c.before]]
            /\ row' = [c.session EXCEPT !.reserveMaxAmount = ceiling, !.reserveAuthPending = TRUE,
                                        !.confirmedReserveAmount = c.prevCeiling]
      /\ UNCHANGED <<mem, seller, lastResponse, observed, needAuths, sent, disputed, extends, closes, restarts>>

(* _commitAndSendReserveAuth once the row is committed *)
sendReserveAuth(id) ==
  LET c == call[id] IN
  /\ c.phase = "reserving"
  /\ mem' = [mem EXCEPT !.reserveCeiling = c.ceiling,
               !.pendingReserveAuth = [maxAmount |-> c.ceiling, confirmedAmount |-> c.prevCeiling]]
  /\ seller' = [seller EXCEPT !.signedReserve = Greatest(@, c.ceiling)]
  /\ call' = [call EXCEPT ![id] = afterwards(id, c.before)]
  /\ UNCHANGED <<row, lastResponse, observed, needAuths, sent, disputed, extends, closes, restarts>>

handleAuthAck ==
  /\ seller.deposit > 0 /\ row.active
  /\ mem.pendingReserveAuth.maxAmount > 0 /\ mem.pendingReserveAuth.confirmedAmount = 0
  /\ mem' = [mem EXCEPT !.reserveCeiling = mem.pendingReserveAuth.maxAmount, !.pendingReserveAuth = NoReserve]
  /\ row' = [row EXCEPT !.reserveAuthPending = FALSE,
                        !.confirmedReserveAmount = mem.pendingReserveAuth.maxAmount]
  /\ UNCHANGED <<lastResponse, observed, call, needAuths, seller, sent, disputed, extends, closes, restarts>>

(* retireSession and cleanupSession.  A deleted ceiling and a deleted      *)
(* initial reserve read as the configured maximum.                         *)
retired(r) == [r EXCEPT !.active = FALSE]
cleanedUp(m) == [m EXCEPT !.cumulativeAmount = 0, !.verifiedCost = 0,
                          !.reserveCeiling = maxReserveAmountUsdc, !.initialReserve = maxReserveAmountUsdc,
                          !.pendingReserveAuth = NoReserve, !.reserveLost = TRUE]

(* handle402: the seller refuses a request for want of an authorization    *)
(* (not for want of a channel: recoverExistingSession of PaymentSession),  *)
(* asks for what it has spent, and sends a NeedAuth for it too.  The       *)
(* session is retired when its reserve is exhausted; otherwise the chain   *)
(* is asked for the channel.                                               *)
handle402 ==
  /\ row.active /\ seller.open /\ seller.deposit > 0 /\ seller.spent > 0 /\ seller.spent >= seller.accepted
  /\ extends + restarts < MaxFaults /\ ~running("extend") /\ ~running("close")
  /\ extends' = extends + 1
  /\ IF seller.accepted >= seller.deposit \/ seller.spent > seller.deposit
     THEN /\ row' = retired(row) /\ mem' = cleanedUp(mem)
          /\ UNCHANGED <<call, needAuths>>
     ELSE /\ call' = [call EXCEPT !["extend"] = [phase |-> "recovering", target |-> seller.spent]]
          /\ needAuths' = Append(needAuths, needAuth(None, seller.spent, 0))
          /\ UNCHANGED <<row, mem>>
  /\ UNCHANGED <<lastResponse, observed, seller, sent, disputed, closes, restarts>>

(* What _recoverExistingSession goes on with: a channel that the chain     *)
(* holds, and holds open, as it does while no close is requested.          *)
openOnChain == seller.open /\ seller.deposit > 0

(* _recoverExistingSession once the chain has answered: the ceiling        *)
(* becomes what the chain holds (reconcileReserveAmount) or what a pending *)
(* ReserveAuth, sent again (resendPendingReserveAuth), will make it.       *)
reconcileReserveAmount ==
  LET pending == mem.pendingReserveAuth
      applied == seller.deposit >= pending.maxAmount
  IN  /\ call["extend"].phase = "recovering" /\ openOnChain
      /\ mem' = [mem EXCEPT !.pendingReserveAuth = IF applied THEN NoReserve ELSE pending,
                   !.reserveCeiling = IF applied THEN seller.deposit ELSE pending.maxAmount]
      /\ row' = [row EXCEPT !.reserveAuthPending = ~applied,
                   !.confirmedReserveAmount = IF applied THEN seller.deposit ELSE pending.confirmedAmount,
                   !.reserveMaxAmount = IF applied THEN @ ELSE pending.maxAmount]
      /\ seller' = [seller EXCEPT !.signedReserve = Greatest(@, pending.maxAmount)]
      /\ call' = [call EXCEPT !["extend"].phase = "recovered"]
      /\ UNCHANGED <<lastResponse, observed, needAuths, sent, disputed, extends, closes, restarts>>

(* Mutant: what was signed already is never sent again. *)
signedEnough_Never(current, target) == FALSE

signedEnough(current, target) == current >= target

(* The rest of _recoverExistingSession, by extendCurrentSpendingAuth when  *)
(* less is signed than the seller asks for, and by signing the same amount *)
(* again otherwise, or leaving the channel to a close request capped at    *)
(* the deposit when that is below.  requestsInFlight widen the window.     *)
extendCurrentSpendingAuth(requestsInFlight) ==
  LET current == mem.cumulativeAmount
      target == call["extend"].target
      verified == reopened(current, mem.verifiedCost)
      maxSignable == Least(verified + maxPerRequestUsdc * requestsInFlight, mem.reserveCeiling)
      requested == Greatest(target, current + minBudgetPerRequest)
      next == Least(requested, maxSignable)
      advance == needsCeilingAdvance(requested, maxSignable)
  IN  /\ call["extend"].phase = "recovered"
      /\ call' = [call EXCEPT !["extend"] =
           IF signedEnough(current, target)
           THEN IF current <= seller.deposit
                THEN [phase |-> "resending", session |-> row, amount |-> current] ELSE Idle
           ELSE IF next > current THEN signing(row, next, current, verified, FALSE, 0, advance)
                                  ELSE topUpOrEnd("extend", advance, current, mem)]
      /\ UNCHANGED <<row, mem, lastResponse, observed, needAuths, seller, sent, disputed, extends, closes, restarts>>

(* resendCurrentSpendingAuth from its signature: the row read before is    *)
(* committed with it, and the amount is sent again.                        *)
resendCurrentSpendingAuth ==
  LET c == call["extend"] IN
  /\ c.phase = "resending"
  /\ row' = c.session
  /\ send(c.amount)
  /\ call' = [call EXCEPT !["extend"] = Idle]
  /\ UNCHANGED <<mem, lastResponse, observed, needAuths, disputed, extends, closes, restarts>>

(* A recovery that made no progress retires the session. *)
endRecovery ==
  LET c == call["extend"] IN
  /\ c.phase = "extended"
  /\ call' = [call EXCEPT !["extend"] = Idle]
  /\ IF mem.cumulativeAmount > c.before
     THEN UNCHANGED <<row, mem>>
     ELSE row' = retired(row) /\ mem' = cleanedUp(mem)
  /\ UNCHANGED <<lastResponse, observed, needAuths, seller, sent, disputed, extends, closes, restarts>>

(* The buyer's process ends and starts again: _hydrateChannel.  Frames,    *)
(* handlers and outstanding responses are lost.  A row written before the  *)
(* stores kept the state of the reserve brings none back, and the ceiling  *)
(* is the configured maximum; one with no reserve confirmed brings back 0, *)
(* from where a top-up leads to the configured maximum.                    *)
restart(keepsReserve) ==
  /\ extends + restarts < MaxFaults /\ row.active
  /\ restarts' = restarts + 1
  /\ mem' = [cumulativeAmount |-> row.authMax, verifiedCost |-> row.authMax,
             reserveCeiling |-> IF keepsReserve THEN row.confirmedReserveAmount ELSE maxReserveAmountUsdc,
             initialReserve |-> IF keepsReserve THEN row.initialReserveAmount ELSE maxReserveAmountUsdc,
             pendingReserveAuth |-> IF keepsReserve /\ row.reserveAuthPending
                                    THEN [maxAmount |-> row.reserveMaxAmount,
                                          confirmedAmount |-> row.confirmedReserveAmount]
                                    ELSE NoReserve,
             unpaid |-> [r \in Requests |-> NotCounted],
             reserveLost |-> mem.reserveLost \/ ~keepsReserve \/ row.confirmedReserveAmount = 0]
  /\ lastResponse' = None /\ observed' = seller.served
  /\ call' = [id \in Calls |-> Idle]
  /\ needAuths' = <<>>
  /\ UNCHANGED <<row, seller, sent, disputed, extends, closes>>

-----------------------------------------------------------------------------
(* The close request.                                                      *)

(* Mutant: nothing keeps the amount from moving backward. *)
perRequestAmount_Capped(cost, verified) ==
  Least(mem.cumulativeAmount + cost, maxSignableForVerified(verified))

perRequestAmount(cost, verified) ==
  Greatest(Least(mem.cumulativeAmount + cost, maxSignableForVerified(verified)), mem.cumulativeAmount)

(* signPerRequestAuth up to the signature, for the response not signed for *)
(* yet: in full, or what a NeedAuth that counted it left unsigned.         *)
signPerRequestAuth ==
  LET r == lastResponse
      counted == mem.unpaid[r] # NotCounted
      cost == IF counted THEN mem.unpaid[r] ELSE seller.price[r]
      verified == IF counted THEN mem.verifiedCost ELSE mem.verifiedCost + cost
  IN  signing(row, perRequestAmount(cost, verified), mem.cumulativeAmount, verified, counted, 0, FALSE)

(* requestChannelClose, once the NeedAuth handlers have ended. *)
requestChannelClose ==
  /\ row.active /\ closes < MaxCloses
  /\ \A id \in Calls : ~running(id)
  /\ closes' = closes + 1
  /\ call' = [call EXCEPT !["close"] = IF lastResponse = None THEN [phase |-> "signed"] ELSE signPerRequestAuth]
  /\ UNCHANGED <<row, mem, lastResponse, observed, needAuths, seller, sent, disputed, extends, restarts>>

(* The end of signPerRequestAuth, and the sending of its authorization. *)
finishPerRequestAuth ==
  LET c == call["close"]
      r == lastResponse
      m == [mem EXCEPT !.cumulativeAmount = c.amount, !.verifiedCost = c.verifiedCost,
              !.unpaid[r] = IF c.counted THEN Greatest(@ - (c.amount - c.before), 0) ELSE 0]
  IN  /\ c.phase = "committed"
      /\ mem' = m
      /\ send(c.amount)
      /\ lastResponse' = None
      /\ call' = [call EXCEPT !["close"] = topUpOrEnd("close", needsTopUp(c.amount), c.before, m)]
      /\ UNCHANGED <<row, observed, needAuths, disputed, extends, closes, restarts>>

(* buildCloseChannelRequest up to its signature.  A close that follows a   *)
(* 402 is capped at the deposit, and commits nothing when it is.           *)
buildCloseChannelRequest ==
  /\ call["close"].phase = "signed"
  /\ \E capped \in {FALSE, mem.cumulativeAmount > seller.deposit} :
       call' = [call EXCEPT !["close"] =
         [phase |-> "closing", session |-> row, capped |-> capped,
          amount |-> IF capped THEN seller.deposit ELSE mem.cumulativeAmount]]
  /\ UNCHANGED <<row, mem, lastResponse, observed, needAuths, seller, sent, disputed, extends, closes, restarts>>

(* The request is sent with the authorization, and the seller closes the   *)
(* channel or, when it is owed more, asks for it.  A seller that has       *)
(* closed it already answers that there is no channel, and the buyer       *)
(* retires it after a look at the chain.                                   *)
sendCloseChannelRequest ==
  LET c == call["close"]
      accepted == Greatest(seller.accepted, c.amount)
      committed == IF c.capped THEN row ELSE c.session
  IN  /\ c.phase = "closing"
      /\ call' = [call EXCEPT !["close"] = Idle]
      /\ seller' = [seller EXCEPT !.accepted = accepted, !.open = seller.spent > accepted]
      /\ IF seller.spent > accepted
         THEN /\ needAuths' = Append(needAuths, needAuth(None, seller.spent, 0))
              /\ row' = committed
              /\ UNCHANGED <<mem, lastResponse>>
         ELSE /\ row' = retired(committed) /\ mem' = cleanedUp(mem)
              /\ lastResponse' = None
              /\ UNCHANGED needAuths
      /\ UNCHANGED <<observed, sent, disputed, extends, closes, restarts>>

(* Nothing comes of the request: it is lost, or the seller is busy, or it  *)
(* closes the channel and its answer comes after the time-out.             *)
closeNotAnswered ==
  LET c == call["close"]
      accepted == Greatest(seller.accepted, c.amount)
  IN  /\ c.phase = "closing"
      /\ call' = [call EXCEPT !["close"] = Idle]
      /\ row' = IF c.capped THEN row ELSE c.session
      /\ \/ UNCHANGED seller
         \/ /\ seller.spent <= accepted
            /\ seller' = [seller EXCEPT !.accepted = accepted, !.open = FALSE]
      /\ UNCHANGED <<mem, lastResponse, observed, needAuths, sent, disputed, extends, closes, restarts>>

-----------------------------------------------------------------------------
(* The seller, external.                                                   *)

serveRequest(r) ==
  /\ seller.open /\ seller.deposit > 0 /\ row.active /\ r \notin seller.served
  /\ seller' = [seller EXCEPT !.served = @ \cup {r}, !.spent = @ + seller.price[r]]
  /\ needAuths' = Append(needAuths, needAuth(r, seller.spent + seller.price[r], seller.price[r]))
  /\ UNCHANGED <<row, mem, lastResponse, observed, call, sent, disputed, extends, closes, restarts>>

(* The response comes in: estimateCostFromResponse, recordObservedUnitUsage *)
receiveResponse(r) ==
  /\ r \in seller.served \ observed
  /\ observed' = observed \cup {r}
  /\ lastResponse' = r
  /\ UNCHANGED <<row, mem, call, needAuths, seller, sent, disputed, extends, closes, restarts>>

reserveOrTopUp ==
  /\ seller.open /\ seller.deposit < seller.signedReserve
  /\ seller' = [seller EXCEPT !.deposit = seller.signedReserve]
  /\ UNCHANGED <<row, mem, lastResponse, observed, call, needAuths, sent, disputed, extends, closes, restarts>>

-----------------------------------------------------------------------------
(* What follows a commit runs next, unless the process ends: the node's    *)
(* store commits synchronously.                                            *)
Next ==
  \/ \E id \in Calls : finishNeedAuth(id) \/ sendReserveAuth(id)
  \/ finishPerRequestAuth
  \/ \E keepsReserve \in BOOLEAN : restart(keepsReserve)
  \/ /\ \A id \in Calls : call[id].phase \notin {"committed", "reserving"}
     /\ \/ handleNeedAuth
        \/ \E id \in Calls : resumeNeedAuth(id) \/ commitAuthorization(id) \/ topUpReserve(id)
        \/ handleAuthAck
        \/ handle402 \/ reconcileReserveAmount
        \/ (\E n \in 1..Cardinality(Requests) : extendCurrentSpendingAuth(n))
        \/ resendCurrentSpendingAuth \/ endRecovery
        \/ requestChannelClose \/ buildCloseChannelRequest \/ sendCloseChannelRequest \/ closeNotAnswered
        \/ \E r \in Requests : receiveResponse(r) \/ serveRequest(r)
        \/ reserveOrTopUp

Spec == Init /\ [][Next]_vars

-----------------------------------------------------------------------------
(* Properties.                                                             *)

Rows == [authMax: Nat, initialReserveAmount: Nat, reserveMaxAmount: Nat, reserveAuthPending: BOOLEAN,
         confirmedReserveAmount: Nat, active: BOOLEAN]
Reserves == [maxAmount: Nat, confirmedAmount: Nat]

(* Types of the row, the maps and the frames; and no handler that signs    *)
(* goes below the amount that it read, under whatever ceiling it recovered.*)
TypeOK ==
  /\ row \in Rows
  /\ mem \in [cumulativeAmount: Nat, verifiedCost: Nat, reserveCeiling: Nat, initialReserve: Nat,
              pendingReserveAuth: Reserves, unpaid: [Requests -> Nat \cup {NotCounted}],
              reserveLost: BOOLEAN]
  /\ lastResponse \in Requests \cup {None} /\ observed \subseteq Requests
  /\ needAuths \in Seq([request: Requests \cup {None}, required: Nat, cost: Nat])
  /\ sent \in Nat /\ disputed \in BOOLEAN
  /\ \A id \in Calls : call[id].phase \in {"signing", "committed"} => call[id].amount >= call[id].before

Highest == Greatest(seller.accepted, Greatest(row.authMax, mem.cumulativeAmount))

(* What the seller can come to claim, as far as the manager knows: the     *)
(* ReserveAuths that were sent, and the configured maximum once it lost    *)
(* track of them.                                                          *)
SignableReserve ==
  IF mem.reserveLost THEN Greatest(seller.signedReserve, maxReserveAmountUsdc) ELSE seller.signedReserve

(* No SpendingAuth exceeds the ReserveAuths that were sent, through        *)
(* top-ups signed from a snapshot, ceilings recovered from the chain, and  *)
(* restarts between the commit of a ReserveAuth and its sending.  Only a   *)
(* manager that cleaned the session up while a handler waited, or that     *)
(* started again from a row without a confirmed reserve, goes above a      *)
(* smaller opening reserve, and never above the configured maximum.        *)
SignedWithinReserve == Highest <= SignableReserve

LargestPrice == CHOOSE p \in Range(seller.price) : \A q \in Range(seller.price) : q <= p

(* Whatever the order of NeedAuths, 402s, restarts and responses, a buyer  *)
(* signs for no more than was served, except that a 402 is answered with   *)
(* less than minBudgetPerRequest on top, and that a close request signs    *)
(* once more for a response that another request's NeedAuth covered.       *)
OverpayBounded ==
  Highest <= seller.spent + (minBudgetPerRequest - 1) * extends + LargestPrice * closes

(* Once every handler has ended, the seller holds an authorization for all *)
(* it served, as long as that fits the window and the opening reserve and  *)
(* no NeedAuth was refused: however the handlers overwrote each other.     *)
ServedIsPaid ==
  /\ \A id \in Calls : ~running(id)
  /\ needAuths = <<>> /\ ~disputed /\ restarts = 0 /\ extends = 0 /\ row.active
  /\ seller.spent <= row.initialReserveAmount /\ seller.spent <= maxPerRequestUsdc
  => seller.accepted >= seller.spent

(* "SpendingAuth is cumulative and must never move backward": the amounts  *)
(* sent never decrease.                                                    *)
NeverBackward == [][sent' >= sent]_vars
=============================================================================
