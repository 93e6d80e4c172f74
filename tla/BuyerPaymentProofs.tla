-------------------------- MODULE BuyerPaymentProofs --------------------------
(***************************************************************************)
(* Proofs about BuyerPaymentManager, for every set of requests, all prices *)
(* and every setting of the buyer's windows and reserves.                  *)
(***************************************************************************)
EXTENDS BuyerPaymentManager, SumTheorems, FiniteSetTheorems

(***************************************************************************)
(* The inductive invariant.  What a handler signs is bounded by values it  *)
(* read before an await, so the bound has to hold of every value that any  *)
(* handler holds, of the row, of the maps and of what a restart would make *)
(* of the row.                                                             *)
(***************************************************************************)

(* A handler between two awaits. *)
WaitingType == [phase: {"waiting"}, required: Nat, cost: Nat, current: Nat, session: Rows]
SigningType == [phase: {"signing", "committed"}, session: Rows, amount: Nat, before: Nat,
                verifiedCost: Nat, counted: BOOLEAN, unpaid: Nat, topUp: BOOLEAN]
ToppingUpType == [phase: {"toppingUp"}, session: Rows, prevCeiling: Nat, before: Nat]
ReservingType == [phase: {"reserving"}, prevCeiling: Nat, ceiling: Nat, before: Nat]
RecoveredType == [phase: {"recovering", "recovered"}, target: Nat]
ExtendedType == [phase: {"extended"}, before: Nat]
SignedType == [phase: {"signed"}]
ResendingType == [phase: {"resending"}, session: Rows, amount: Nat]
ClosingType == [phase: {"closing"}, session: Rows, capped: BOOLEAN, amount: Nat]

CallType ==
  {Idle} \cup WaitingType \cup SigningType \cup ToppingUpType \cup ReservingType
  \cup RecoveredType \cup ExtendedType \cup SignedType \cup ResendingType \cup ClosingType

MemType == [cumulativeAmount: Nat, verifiedCost: Nat, reserveCeiling: Nat, initialReserve: Nat,
            pendingReserveAuth: Reserves, unpaid: [Requests -> Nat \cup {NotCounted}],
            reserveLost: BOOLEAN]

FrameType == [request: Requests \cup {None}, required: Nat, cost: Nat]

SellerType ==
  [price: [Requests -> Nat \ {0}], served: SUBSET Requests, spent: Nat, accepted: Nat,
   deposit: Nat, signedReserve: Nat, open: BOOLEAN]

(* A ReserveAuth that no earlier reserve was confirmed for is the opening  *)
(* one, or a top-up by a manager that lost it: an acknowledgement makes it *)
(* the ceiling.                                                            *)
OpeningOnly(maxAmount, confirmedAmount, limit) ==
  confirmedAmount = 0 => maxAmount <= limit

(* A ceiling, and what a top-up of no reserve at all would make of it. *)
CeilingBounded(ceiling, limit) ==
  ceiling <= limit /\ (ceiling = 0 => maxReserveAmountUsdc <= limit)

(* A row, also one that a handler read some time ago. *)
RowBounded(r, limit) ==
  /\ r.authMax <= limit /\ r.confirmedReserveAmount <= limit
  /\ OpeningOnly(r.reserveMaxAmount, r.confirmedReserveAmount, limit)

CallBounded(c, limit) ==
  /\ c.phase = "waiting" => c.current <= limit /\ RowBounded(c.session, limit)
  /\ c.phase \in {"signing", "committed"} =>
       c.before <= c.amount /\ c.amount <= limit /\ RowBounded(c.session, limit)
  /\ c.phase = "toppingUp" => CeilingBounded(c.prevCeiling, limit) /\ RowBounded(c.session, limit)
  /\ c.phase = "reserving" =>
       c.prevCeiling <= limit /\ c.ceiling # 0 /\ OpeningOnly(c.ceiling, c.prevCeiling, limit)
  /\ c.phase \in {"closing", "resending"} => c.amount <= limit /\ RowBounded(c.session, limit)

MemBounded(m, limit) ==
  /\ m.cumulativeAmount <= limit /\ CeilingBounded(m.reserveCeiling, limit)
  /\ m.pendingReserveAuth.confirmedAmount <= limit
  /\ OpeningOnly(m.pendingReserveAuth.maxAmount, m.pendingReserveAuth.confirmedAmount, limit)

SellerBounded(s, limit) == s.accepted <= limit /\ s.deposit <= s.signedReserve

BuyerInv ==
  /\ TypeOK
  /\ call \in [Calls -> CallType]
  /\ seller \in SellerType
  /\ SellerBounded(seller, SignableReserve)
  /\ RowBounded(row, SignableReserve)
  /\ MemBounded(mem, SignableReserve)
  /\ \A id \in Calls : CallBounded(call[id], SignableReserve)

(***************************************************************************)
(* The constants, and the phases of a handler.                             *)
(***************************************************************************)
LEMMA AmountsOK ==
  /\ maxPerRequestUsdc \in Nat /\ maxReserveAmountUsdc \in Nat /\ maxReserveAmountUsdc > 0
  /\ minBudgetPerRequest \in Nat /\ minBudgetPerRequest > 0
  /\ SUBSEQUENT_TOPUP_HEADROOM_USDC \in Nat /\ MaxCeiling \in Nat
BY BuyerAssumption

(* The phase of a handler tells its local variables. *)
LEMMA PhaseTells ==
  ASSUME NEW c \in CallType
  PROVE  /\ c.phase = "waiting" => c \in WaitingType
         /\ c.phase \in {"signing", "committed"} => c \in SigningType
         /\ c.phase = "toppingUp" => c \in ToppingUpType
         /\ c.phase = "reserving" => c \in ReservingType
         /\ c.phase \in {"recovering", "recovered"} => c \in RecoveredType
         /\ c.phase = "extended" => c \in ExtendedType
         /\ c.phase = "resending" => c \in ResendingType
         /\ c.phase = "closing" => c \in ClosingType
<1>1. CASE c = Idle
  BY <1>1 DEF Idle
<1>2. CASE c \in WaitingType
  BY <1>2 DEF WaitingType
<1>3. CASE c \in SigningType
  BY <1>3 DEF SigningType
<1>4. CASE c \in ToppingUpType
  BY <1>4 DEF ToppingUpType
<1>5. CASE c \in ReservingType
  BY <1>5 DEF ReservingType
<1>6. CASE c \in RecoveredType
  BY <1>6 DEF RecoveredType
<1>7. CASE c \in ExtendedType
  BY <1>7 DEF ExtendedType
<1>8. CASE c \in SignedType
  BY <1>8 DEF SignedType
<1>9. CASE c \in ClosingType
  BY <1>9 DEF ClosingType
<1>10. CASE c \in ResendingType
  BY <1>10 DEF ResendingType
<1> QED BY <1>1, <1>2, <1>3, <1>4, <1>5, <1>6, <1>7, <1>8, <1>9, <1>10 DEF CallType

(* A handler that waits for no bound. *)
LEMMA Unbounded ==
  ASSUME NEW c, NEW limit,
         c.phase \notin {"waiting", "signing", "committed", "toppingUp", "reserving", "resending",
                         "closing"}
  PROVE  CallBounded(c, limit)
BY DEF CallBounded

(* A larger limit bounds as well. *)
LEMMA BoundsGrow ==
  ASSUME NEW m \in Nat, NEW n \in Nat, m <= n
  PROVE  /\ \A r \in Rows : RowBounded(r, m) => RowBounded(r, n)
         /\ \A x \in MemType : MemBounded(x, m) => MemBounded(x, n)
         /\ \A c \in CallType : CallBounded(c, m) => CallBounded(c, n)
<1>1. ASSUME NEW r \in Rows, RowBounded(r, m) PROVE RowBounded(r, n)
  BY <1>1 DEF RowBounded, Rows, OpeningOnly
<1>2. ASSUME NEW x \in MemType, MemBounded(x, m) PROVE MemBounded(x, n)
  <2>1. /\ x.cumulativeAmount \in Nat /\ x.reserveCeiling \in Nat
        /\ x.pendingReserveAuth.maxAmount \in Nat /\ x.pendingReserveAuth.confirmedAmount \in Nat
    BY DEF MemType, Reserves
  <2> QED BY <1>2, <2>1, AmountsOK DEF MemBounded, OpeningOnly, CeilingBounded
<1>3. ASSUME NEW c \in CallType, CallBounded(c, m) PROVE CallBounded(c, n)
  <2>1. CASE c.phase = "waiting"
    <3>1. c.current \in Nat /\ c.session \in Rows
      BY <2>1, PhaseTells DEF WaitingType
    <3> QED BY <1>1, <1>3, <2>1, <3>1 DEF CallBounded
  <2>2. CASE c.phase \in {"signing", "committed"}
    <3>1. c.amount \in Nat /\ c.before \in Nat /\ c.session \in Rows
      BY <2>2, PhaseTells DEF SigningType
    <3> QED BY <1>1, <1>3, <2>2, <3>1 DEF CallBounded
  <2>3. CASE c.phase = "toppingUp"
    <3>1. c.prevCeiling \in Nat /\ c.session \in Rows
      BY <2>3, PhaseTells DEF ToppingUpType
    <3> QED BY <1>1, <1>3, <2>3, <3>1, AmountsOK DEF CallBounded, CeilingBounded
  <2>4. CASE c.phase \in {"closing", "resending"}
    <3>1. c.amount \in Nat /\ c.session \in Rows
      BY <2>4, PhaseTells DEF ClosingType, ResendingType
    <3> QED BY <1>1, <1>3, <2>4, <3>1 DEF CallBounded
  <2>5. CASE c.phase = "reserving"
    <3>1. c.prevCeiling \in Nat /\ c.ceiling \in Nat
      BY <2>5, PhaseTells DEF ReservingType
    <3> QED BY <1>3, <2>5, <3>1 DEF CallBounded, OpeningOnly
  <2>6. CASE c.phase \notin {"waiting", "signing", "committed", "toppingUp", "reserving",
                            "resending", "closing"}
    BY <2>6, Unbounded
  <2> QED BY <2>1, <2>2, <2>3, <2>4, <2>5, <2>6
<1> QED BY <1>1, <1>2, <1>3

(* The limit grows with the ReserveAuths that are sent, and covers the     *)
(* configured maximum once the reserve is lost track of.                   *)
LEMMA LimitOK ==
  ASSUME mem \in MemType, seller \in SellerType
  PROVE  /\ SignableReserve \in Nat /\ seller.signedReserve <= SignableReserve
         /\ mem.reserveLost => maxReserveAmountUsdc <= SignableReserve
<1>1. seller.signedReserve \in Nat /\ mem.reserveLost \in BOOLEAN
  BY DEF SellerType, MemType
<1> QED BY <1>1, AmountsOK DEF SignableReserve, Greatest

LEMMA LimitGrows ==
  ASSUME mem \in MemType, seller \in SellerType, mem' \in MemType, seller' \in SellerType,
         seller.signedReserve <= seller'.signedReserve, mem.reserveLost => mem'.reserveLost
  PROVE  /\ SignableReserve \in Nat /\ SignableReserve' \in Nat
         /\ SignableReserve <= SignableReserve' /\ seller'.signedReserve <= SignableReserve'
         /\ mem'.reserveLost => maxReserveAmountUsdc <= SignableReserve'
<1>1. /\ seller.signedReserve \in Nat /\ mem.reserveLost \in BOOLEAN
      /\ seller'.signedReserve \in Nat /\ mem'.reserveLost \in BOOLEAN
  BY DEF SellerType, MemType
<1> QED BY <1>1, AmountsOK DEF SignableReserve, Greatest

LEMMA LimitStays ==
  ASSUME seller'.signedReserve = seller.signedReserve, mem'.reserveLost = mem.reserveLost
  PROVE  SignableReserve' = SignableReserve
BY DEF SignableReserve

(* The parts of the invariant. *)
LEMMA Parts ==
  ASSUME BuyerInv
  PROVE  /\ row \in Rows /\ mem \in MemType /\ seller \in SellerType
         /\ lastResponse \in Requests \cup {None} /\ observed \subseteq Requests
         /\ needAuths \in Seq(FrameType) /\ sent \in Nat /\ disputed \in BOOLEAN
         /\ call \in [Calls -> CallType]
         /\ SignableReserve \in Nat /\ seller.signedReserve <= SignableReserve
         /\ seller.signedReserve \in Nat /\ SellerBounded(seller, SignableReserve)
         /\ RowBounded(row, SignableReserve) /\ MemBounded(mem, SignableReserve)
         /\ \A id \in Calls : CallBounded(call[id], SignableReserve)
<1>1. /\ row \in Rows /\ mem \in MemType /\ seller \in SellerType
      /\ lastResponse \in Requests \cup {None} /\ observed \subseteq Requests
      /\ needAuths \in Seq(FrameType) /\ sent \in Nat /\ disputed \in BOOLEAN
      /\ call \in [Calls -> CallType] /\ SellerBounded(seller, SignableReserve)
      /\ RowBounded(row, SignableReserve) /\ MemBounded(mem, SignableReserve)
      /\ \A id \in Calls : CallBounded(call[id], SignableReserve)
  BY DEF BuyerInv, TypeOK, MemType, FrameType
<1>2. seller.signedReserve \in Nat
  BY <1>1 DEF SellerType
<1> QED BY <1>1, <1>2, LimitOK

LEMMA Whole ==
  ASSUME row' \in Rows, mem' \in MemType, seller' \in SellerType,
         lastResponse' \in Requests \cup {None}, observed' \subseteq Requests,
         needAuths' \in Seq(FrameType), sent' \in Nat, disputed' \in BOOLEAN,
         call' \in [Calls -> CallType], SellerBounded(seller', SignableReserve'),
         RowBounded(row', SignableReserve'), MemBounded(mem', SignableReserve'),
         \A id \in Calls : CallBounded(call'[id], SignableReserve')
  PROVE  BuyerInv'
<1>1. \A id \in Calls : call'[id].phase \in {"signing", "committed"} =>
                          call'[id].amount >= call'[id].before
  <2>1. ASSUME NEW id \in Calls, call'[id].phase \in {"signing", "committed"}
        PROVE  call'[id].amount >= call'[id].before
    <3>1. call'[id] \in SigningType
      BY <2>1, PhaseTells
    <3>2. call'[id].amount \in Nat /\ call'[id].before \in Nat
      BY <3>1 DEF SigningType
    <3>3. call'[id].before <= call'[id].amount
      BY <2>1 DEF CallBounded
    <3> QED BY <3>2, <3>3
  <2> QED BY <2>1
<1>2. TypeOK'
  BY <1>1 DEF TypeOK, MemType, FrameType
<1> QED BY <1>2 DEF BuyerInv

(* A step of one handler leaves the others bounded. *)
LEMMA OneCall ==
  ASSUME BuyerInv, NEW id \in Calls, NEW c \in CallType, NEW limit \in Nat,
         SignableReserve <= limit, CallBounded(c, limit),
         call' = [call EXCEPT ![id] = c]
  PROVE  call' \in [Calls -> CallType] /\ \A x \in Calls : CallBounded(call'[x], limit)
<1>1. /\ call \in [Calls -> CallType] /\ SignableReserve \in Nat
      /\ \A x \in Calls : CallBounded(call[x], SignableReserve)
  BY Parts
<1>2. call' \in [Calls -> CallType]
  BY <1>1
<1>3. ASSUME NEW x \in Calls PROVE CallBounded(call'[x], limit)
  <2>1. CASE x = id
    BY <1>1, <2>1
  <2>2. CASE x # id
    <3>1. call'[x] = call[x] /\ call[x] \in CallType
      BY <1>1, <2>2
    <3>2. CallBounded(call[x], limit)
      BY <1>1, <3>1, BoundsGrow
    <3> QED BY <3>1, <3>2
  <2> QED BY <2>1, <2>2
<1> QED BY <1>2, <1>3

(* A step of one handler that changes neither the row, the maps nor the    *)
(* seller preserves the invariant.                                         *)
LEMMA HandlerStep ==
  ASSUME BuyerInv, NEW id \in Calls, NEW c \in CallType,
         CallBounded(c, SignableReserve), call' = [call EXCEPT ![id] = c],
         UNCHANGED <<row, mem, seller, lastResponse, observed, sent>>,
         needAuths' \in Seq(FrameType), disputed' \in BOOLEAN
  PROVE  BuyerInv'
<1>1. /\ row \in Rows /\ mem \in MemType /\ seller \in SellerType
      /\ lastResponse \in Requests \cup {None} /\ observed \subseteq Requests
      /\ sent \in Nat /\ SignableReserve \in Nat /\ SellerBounded(seller, SignableReserve)
      /\ RowBounded(row, SignableReserve) /\ MemBounded(mem, SignableReserve)
  BY Parts
<1>2. SignableReserve <= SignableReserve /\ SignableReserve' = SignableReserve
  BY <1>1, LimitStays
<1>3. /\ call' \in [Calls -> CallType]
      /\ \A x \in Calls : CallBounded(call'[x], SignableReserve)
  BY <1>1, <1>2, OneCall
<1> QED BY <1>1, <1>2, <1>3, Whole

(***************************************************************************)
(* Amounts.                                                                *)
(***************************************************************************)
LEMMA SignableBound ==
  ASSUME mem \in MemType, NEW verified \in Nat
  PROVE  /\ maxSignableForVerified(verified) \in Nat
         /\ maxSignableForVerified(verified) <= mem.reserveCeiling
<1>1. mem.reserveCeiling \in Nat
  BY DEF MemType
<1> QED BY <1>1, AmountsOK DEF maxSignableForVerified, Least

LEMMA ReopenedType ==
  ASSUME NEW current \in Nat, NEW verified \in Nat
  PROVE  reopened(current, verified) \in Nat
BY DEF reopened

(***************************************************************************)
(* Where a handler goes.                                                   *)
(***************************************************************************)
LEMMA AfterwardsOK ==
  ASSUME NEW id, NEW before \in Nat, NEW limit
  PROVE  afterwards(id, before) \in CallType /\ CallBounded(afterwards(id, before), limit)
<1>1. CASE id = "close"
  <2>1. afterwards(id, before) = [phase |-> "signed"]
    BY <1>1 DEF afterwards
  <2> QED BY <2>1, Unbounded DEF SignedType, CallType
<1>2. CASE id = "extend"
  <2>1. afterwards(id, before) = [phase |-> "extended", before |-> before]
    BY <1>2 DEF afterwards
  <2> QED BY <2>1, Unbounded DEF ExtendedType, CallType
<1>3. CASE id \notin {"close", "extend"}
  <2>1. afterwards(id, before) = Idle
    BY <1>3 DEF afterwards
  <2> QED BY <2>1, Unbounded DEF Idle, CallType
<1> QED BY <1>1, <1>2, <1>3

LEMMA TopUpOrEndOK ==
  ASSUME row \in Rows, NEW id, NEW wanted, NEW before \in Nat, NEW m \in MemType, NEW limit,
         RowBounded(row, limit), CeilingBounded(m.reserveCeiling, limit)
  PROVE  /\ topUpOrEnd(id, wanted, before, m) \in CallType
         /\ CallBounded(topUpOrEnd(id, wanted, before, m), limit)
<1> DEFINE c == [phase |-> "toppingUp", session |-> row, prevCeiling |-> m.reserveCeiling,
                 before |-> before]
<1>1. c \in CallType
  <2>1. m.reserveCeiling \in Nat
    BY DEF MemType
  <2>2. c \in ToppingUpType
    BY <2>1 DEF ToppingUpType
  <2> QED BY <2>2 DEF CallType
<1>2. CallBounded(c, limit)
  BY DEF CallBounded
<1>3. topUpOrEnd(id, wanted, before, m) = c \/ topUpOrEnd(id, wanted, before, m) = afterwards(id, before)
  BY DEF topUpOrEnd
<1> HIDE DEF c
<1> QED BY <1>1, <1>2, <1>3, AfterwardsOK

LEMMA SigningOK ==
  ASSUME NEW session \in Rows, NEW amount \in Nat, NEW current \in Nat, NEW verified \in Nat,
         NEW counted \in BOOLEAN, NEW unpaid \in Nat, NEW topUp \in BOOLEAN, NEW limit,
         current <= amount, amount <= limit, RowBounded(session, limit)
  PROVE  LET c == signing(session, amount, current, verified, counted, unpaid, topUp)
         IN  c \in CallType /\ CallBounded(c, limit)
<1> DEFINE c == signing(session, amount, current, verified, counted, unpaid, topUp)
<1>1. c \in SigningType
  BY DEF signing, SigningType
<1>2. CallBounded(c, limit)
  BY DEF signing, CallBounded
<1> QED BY <1>1, <1>2 DEF CallType

(* The evaluation of a NeedAuth signs for no more than the ceiling, or     *)
(* what it read as signed.                                                 *)
LEMMA EvaluateOK ==
  ASSUME BuyerInv, NEW id, NEW required \in Nat, NEW cost \in Nat, NEW current \in Nat,
         NEW session \in Rows, current <= SignableReserve,
         RowBounded(session, SignableReserve)
  PROVE  /\ evaluateNeedAuth(id, required, cost, current, session) \in CallType
         /\ CallBounded(evaluateNeedAuth(id, required, cost, current, session),
                        SignableReserve)
<1> DEFINE nextVerified == mem.verifiedCost + cost
           first == maxSignableForVerified(nextVerified)
           collapsed == first <= current /\ ~needsCeilingAdvance(required, first)
           verified == IF collapsed THEN reopened(current, nextVerified) ELSE nextVerified
           maxSignable == maxSignableForVerified(verified)
           advance == needsCeilingAdvance(required, maxSignable)
           effective == IF advance THEN Greatest(maxSignable, current)
                                   ELSE Least(required, maxSignable)
           counted == id \in Requests /\ mem.unpaid[id] # NotCounted
           unpaid == cost - Least(cost, effective - current)
           limit == SignableReserve
<1>1. /\ row \in Rows /\ mem \in MemType /\ limit \in Nat
      /\ RowBounded(row, limit) /\ CeilingBounded(mem.reserveCeiling, limit)
      /\ mem.reserveCeiling <= limit
  BY Parts DEF MemBounded, CeilingBounded
<1>2. mem.verifiedCost \in Nat /\ mem.reserveCeiling \in Nat
  BY <1>1 DEF MemType
<1>3. evaluateNeedAuth(id, required, cost, current, session)
        = IF effective > current
          THEN signing(session, effective, current, verified, counted, unpaid, advance)
          ELSE topUpOrEnd(id, advance, current, mem)
  BY DEF evaluateNeedAuth
<1>4. nextVerified \in Nat
  BY <1>2
<1> HIDE DEF nextVerified
<1>5. verified \in Nat
  BY <1>4, ReopenedType
<1> HIDE DEF verified
<1>6. maxSignable \in Nat /\ maxSignable <= limit
  BY <1>1, <1>2, <1>5, SignableBound
<1> HIDE DEF maxSignable, limit
<1>7. advance \in BOOLEAN
  BY DEF needsCeilingAdvance
<1> HIDE DEF advance
<1>8. effective \in Nat /\ effective <= limit
  BY <1>1, <1>6 DEF Greatest, Least, limit
<1> HIDE DEF effective
<1>9. effective > current => unpaid \in Nat
  BY <1>8 DEF Least
<1>10. counted \in BOOLEAN
  OBVIOUS
<1> HIDE DEF unpaid, counted
<1>11. CASE effective > current
  <2>1. current <= effective
    BY <1>8, <1>11
  <2> DEFINE c == signing(session, effective, current, verified, counted, unpaid, advance)
  <2>2. RowBounded(session, limit)
    BY DEF limit
  <2>3. c \in CallType /\ CallBounded(c, limit)
    BY <1>5, <1>7, <1>8, <1>9, <1>10, <1>11, <2>1, <2>2, SigningOK
  <2> QED BY <1>3, <1>11, <2>3 DEF limit
<1>12. CASE ~(effective > current)
  <2>1. /\ topUpOrEnd(id, advance, current, mem) \in CallType
        /\ CallBounded(topUpOrEnd(id, advance, current, mem), limit)
    BY <1>1, TopUpOrEndOK DEF limit
  <2> QED BY <1>3, <1>12, <2>1 DEF limit
<1> QED BY <1>11, <1>12

(***************************************************************************)
(* The steps.                                                              *)
(***************************************************************************)
LEMMA FrameQueue ==
  ASSUME NEW q \in Seq(FrameType)
  PROVE  /\ q # <<>> => Head(q) \in FrameType /\ Tail(q) \in Seq(FrameType)
         /\ \A f \in FrameType : Append(q, f) \in Seq(FrameType)
OBVIOUS

(* What the seller asks for fits a frame. *)
LEMMA NeedAuthType ==
  ASSUME NEW r \in Requests \cup {None}, NEW required \in Nat, NEW cost \in Nat
  PROVE  needAuth(r, required, cost) \in FrameType
BY DEF needAuth, FrameType

(* While the limit only grows, the handlers that do nothing stay bounded. *)
LEMMA CallsStay ==
  ASSUME BuyerInv, NEW limit \in Nat, SignableReserve <= limit
  PROVE  \A x \in Calls : CallBounded(call[x], limit)
<1>1. /\ call \in [Calls -> CallType] /\ SignableReserve \in Nat
      /\ \A x \in Calls : CallBounded(call[x], SignableReserve)
  BY Parts
<1>2. \A x \in Calls : call[x] \in CallType
  BY <1>1
<1> QED BY <1>1, <1>2, BoundsGrow

(* A step that runs no handler and changes neither the row, the maps nor   *)
(* the seller.                                                             *)
LEMMA IdleStep ==
  ASSUME BuyerInv, UNCHANGED <<row, mem, seller, call, sent>>,
         needAuths' \in Seq(FrameType), disputed' \in BOOLEAN,
         lastResponse' \in Requests \cup {None}, observed' \subseteq Requests
  PROVE  BuyerInv'
BY Parts, LimitStays, Whole

LEMMA HandleNeedAuthInv ==
  ASSUME BuyerInv, handleNeedAuth
  PROVE  BuyerInv'
<1> DEFINE frame == Head(needAuths)
           id == frame.request
           waiting == [phase |-> "waiting", required |-> frame.required, cost |-> frame.cost,
                       current |-> mem.cumulativeAmount, session |-> row]
           evaluated == evaluateNeedAuth(id, frame.required, frame.cost,
                                         mem.cumulativeAmount, row)
<1>1. /\ needAuths' = Tail(needAuths) /\ needAuths # <<>>
      /\ UNCHANGED <<row, mem, lastResponse, observed, seller, sent>>
      /\ \/ UNCHANGED <<call, disputed>>
         \/ disputed' = TRUE /\ UNCHANGED call
         \/ call' = [call EXCEPT ![id] = waiting] /\ UNCHANGED disputed
         \/ call' = [call EXCEPT ![id] = evaluated] /\ UNCHANGED disputed
  BY DEF handleNeedAuth
<1>2. /\ row \in Rows /\ mem \in MemType /\ needAuths \in Seq(FrameType)
      /\ RowBounded(row, SignableReserve) /\ MemBounded(mem, SignableReserve)
      /\ disputed \in BOOLEAN /\ lastResponse \in Requests \cup {None}
      /\ observed \subseteq Requests
  BY Parts
<1>3. frame \in FrameType /\ needAuths' \in Seq(FrameType)
  BY <1>1, <1>2, FrameQueue
<1> HIDE DEF frame
<1>4. frame.required \in Nat /\ frame.cost \in Nat /\ id \in Calls
  BY <1>3 DEF FrameType, Calls
<1>5. mem.cumulativeAmount \in Nat /\ mem.cumulativeAmount <= SignableReserve
  BY <1>2 DEF MemType, MemBounded
<1>6. waiting \in CallType /\ CallBounded(waiting, SignableReserve)
  <2>1. waiting \in WaitingType
    BY <1>2, <1>4, <1>5 DEF WaitingType
  <2>2. CallBounded(waiting, SignableReserve)
    BY <1>2, <1>5 DEF CallBounded
  <2> QED BY <2>1, <2>2 DEF CallType
<1>7. evaluated \in CallType /\ CallBounded(evaluated, SignableReserve)
  BY <1>2, <1>4, <1>5, EvaluateOK
<1> HIDE DEF id, waiting, evaluated
<1>8. CASE UNCHANGED call /\ disputed' \in BOOLEAN
  BY <1>1, <1>2, <1>3, <1>8, IdleStep
<1>9. CASE call' = [call EXCEPT ![id] = waiting] /\ UNCHANGED disputed
  BY <1>1, <1>2, <1>3, <1>4, <1>6, <1>9, HandlerStep
<1>10. CASE call' = [call EXCEPT ![id] = evaluated] /\ UNCHANGED disputed
  BY <1>1, <1>2, <1>3, <1>4, <1>7, <1>10, HandlerStep
<1> QED BY <1>1, <1>2, <1>8, <1>9, <1>10

LEMMA ResumeNeedAuthInv ==
  ASSUME BuyerInv, NEW id \in Calls, resumeNeedAuth(id)
  PROVE  BuyerInv'
<1> DEFINE c == call[id]
           evaluated == evaluateNeedAuth(id, c.required, c.cost, c.current, c.session)
<1>1. /\ c.phase = "waiting"
      /\ \/ call' = [call EXCEPT ![id] = evaluated] /\ UNCHANGED disputed
         \/ call' = [call EXCEPT ![id] = Idle] /\ disputed' = TRUE
      /\ UNCHANGED <<row, mem, lastResponse, observed, needAuths, seller, sent>>
  BY DEF resumeNeedAuth
<1>2. /\ c \in CallType /\ CallBounded(c, SignableReserve)
      /\ needAuths \in Seq(FrameType) /\ disputed \in BOOLEAN
  BY Parts
<1> HIDE DEF c
<1>3. /\ c.required \in Nat /\ c.cost \in Nat /\ c.current \in Nat /\ c.session \in Rows
      /\ c.current <= SignableReserve /\ RowBounded(c.session, SignableReserve)
  <2>1. c \in WaitingType
    BY <1>1, <1>2, PhaseTells
  <2> QED BY <1>1, <1>2, <2>1 DEF WaitingType, CallBounded
<1>4. evaluated \in CallType /\ CallBounded(evaluated, SignableReserve)
  BY <1>3, EvaluateOK
<1>5. Idle \in CallType /\ CallBounded(Idle, SignableReserve)
  BY Unbounded DEF CallType, Idle
<1> HIDE DEF evaluated
<1> QED BY <1>1, <1>2, <1>4, <1>5, HandlerStep

LEMMA CommitInv ==
  ASSUME BuyerInv, NEW id \in Calls, commitAuthorization(id)
  PROVE  BuyerInv'
<1> DEFINE c == call[id]
           d == [c EXCEPT !.phase = "committed"]
           limit == SignableReserve
<1>1. /\ c.phase = "signing"
      /\ row' = [c.session EXCEPT !.authMax = c.amount]
      /\ call' = [call EXCEPT ![id] = d]
      /\ UNCHANGED <<mem, lastResponse, observed, needAuths, seller, sent, disputed>>
  BY DEF commitAuthorization
<1>2. c \in CallType /\ CallBounded(c, limit) /\ limit \in Nat /\ limit <= limit
  BY Parts
<1> HIDE DEF c, limit
<1>3. c \in SigningType
  BY <1>1, <1>2, PhaseTells
<1>4. c.session \in Rows /\ c.amount \in Nat /\ c.amount <= limit /\ RowBounded(c.session, limit)
  BY <1>1, <1>2, <1>3 DEF SigningType, CallBounded
<1>5. row' \in Rows /\ RowBounded(row', limit)
  BY <1>1, <1>4 DEF Rows, RowBounded, OpeningOnly
<1>6. d \in CallType /\ CallBounded(d, limit)
  <2>1. d \in SigningType
    BY <1>3 DEF SigningType
  <2>2. CallBounded(d, limit)
    BY <1>1, <1>2, <1>3 DEF CallBounded, SigningType
  <2> QED BY <2>1, <2>2 DEF CallType
<1> HIDE DEF d
<1>7. call' \in [Calls -> CallType] /\ \A x \in Calls : CallBounded(call'[x], limit)
  BY <1>1, <1>2, <1>6, OneCall DEF limit
<1> QED BY <1>1, <1>5, <1>7, Parts, LimitStays, Whole DEF limit

(* Sending an authorization leaves the seller's claim within the reserve. *)
LEMMA SendOK ==
  ASSUME BuyerInv, NEW amount \in Nat, amount <= SignableReserve, send(amount),
         mem'.reserveLost = mem.reserveLost
  PROVE  /\ seller' \in SellerType /\ SellerBounded(seller', SignableReserve) /\ sent' \in Nat
         /\ SignableReserve' = SignableReserve
<1>1. seller \in SellerType /\ SellerBounded(seller, SignableReserve) /\ SignableReserve \in Nat
  BY Parts
<1>2. /\ seller' = [seller EXCEPT !.accepted = Greatest(seller.accepted, amount)]
      /\ sent' = amount
  BY DEF send
<1>3. Greatest(seller.accepted, amount) \in Nat
      /\ Greatest(seller.accepted, amount) <= SignableReserve
  BY <1>1 DEF Greatest, SellerType, SellerBounded
<1>4. /\ seller' \in SellerType /\ seller'.signedReserve = seller.signedReserve
      /\ seller'.accepted = Greatest(seller.accepted, amount) /\ seller'.deposit = seller.deposit
  BY <1>1, <1>2, <1>3 DEF SellerType
<1> QED BY <1>1, <1>2, <1>3, <1>4, LimitStays DEF SellerBounded

LEMMA FinishNeedAuthInv ==
  ASSUME BuyerInv, NEW id \in Calls, finishNeedAuth(id)
  PROVE  BuyerInv'
<1> DEFINE c == call[id]
           m == [mem EXCEPT !.cumulativeAmount = c.amount, !.verifiedCost = c.verifiedCost,
                            !.unpaid = marked(id, c)]
           wanted == c.topUp \/ (id # "extend" /\ needsTopUp(c.amount))
           next == topUpOrEnd(id, wanted, c.before, m)
           limit == SignableReserve
<1>1. /\ c.phase = "committed" /\ mem' = m /\ send(c.amount)
      /\ call' = [call EXCEPT ![id] = next]
      /\ UNCHANGED <<row, lastResponse, observed, needAuths, disputed>>
  BY DEF finishNeedAuth
<1>2. /\ c \in CallType /\ CallBounded(c, limit) /\ limit \in Nat /\ limit <= limit
      /\ row \in Rows /\ mem \in MemType /\ RowBounded(row, limit) /\ MemBounded(mem, limit)
  BY Parts
<1> HIDE DEF c, limit
<1>3. c \in SigningType
  BY <1>1, <1>2, PhaseTells
<1>4. /\ c.amount \in Nat /\ c.amount <= limit /\ c.before \in Nat /\ c.verifiedCost \in Nat
      /\ c.unpaid \in Nat
  BY <1>1, <1>2, <1>3 DEF SigningType, CallBounded
<1>5. marked(id, c) \in [Requests -> Nat \cup {NotCounted}]
  <2>1. mem.unpaid \in [Requests -> Nat \cup {NotCounted}]
    BY <1>2 DEF MemType
  <2> QED BY <1>4, <2>1 DEF marked
<1>6. m \in MemType /\ MemBounded(m, limit) /\ m.reserveLost = mem.reserveLost
  BY <1>2, <1>4, <1>5 DEF MemType, MemBounded
<1>7. CeilingBounded(m.reserveCeiling, limit)
  BY <1>6 DEF MemBounded
<1> HIDE DEF m, wanted
<1>8. next \in CallType /\ CallBounded(next, limit)
  BY <1>2, <1>4, <1>6, <1>7, TopUpOrEndOK
<1> HIDE DEF next
<1>9. call' \in [Calls -> CallType] /\ \A x \in Calls : CallBounded(call'[x], limit)
  BY <1>1, <1>2, <1>8, OneCall DEF limit
<1>10. /\ seller' \in SellerType /\ SellerBounded(seller', limit) /\ sent' \in Nat
       /\ SignableReserve' = limit
  BY <1>1, <1>4, <1>6, SendOK DEF limit
<1> QED BY <1>1, <1>2, <1>6, <1>9, <1>10, Parts, Whole

(* A row that is committed with a ReserveAuth, and the ceiling it stands   *)
(* for.                                                                    *)
LEMMA TopUpReserveInv ==
  ASSUME BuyerInv, NEW id \in Calls, topUpReserve(id)
  PROVE  BuyerInv'
<1> DEFINE c == call[id]
           limit == SignableReserve
           ceiling == c.prevCeiling + maxReserveAmountUsdc
           after == IF id = "close" THEN Idle ELSE afterwards(id, c.before)
           reserving == [phase |-> "reserving", prevCeiling |-> c.prevCeiling,
                         ceiling |-> ceiling, before |-> c.before]
<1>1. /\ c.phase = "toppingUp"
      /\ \/ call' = [call EXCEPT ![id] = after] /\ UNCHANGED row
         \/ /\ call' = [call EXCEPT ![id] = reserving]
            /\ row' = [c.session EXCEPT !.reserveMaxAmount = ceiling, !.reserveAuthPending = TRUE,
                                        !.confirmedReserveAmount = c.prevCeiling]
      /\ UNCHANGED <<mem, seller, lastResponse, observed, needAuths, sent, disputed>>
  BY DEF topUpReserve
<1>2. /\ c \in CallType /\ CallBounded(c, limit) /\ limit \in Nat /\ limit <= limit
      /\ row \in Rows /\ RowBounded(row, limit)
  BY Parts
<1> HIDE DEF c, limit
<1>3. c \in ToppingUpType
  BY <1>1, <1>2, PhaseTells
<1>4. /\ c.prevCeiling \in Nat /\ c.before \in Nat /\ c.session \in Rows
      /\ CeilingBounded(c.prevCeiling, limit) /\ c.prevCeiling <= limit
      /\ RowBounded(c.session, limit)
  BY <1>1, <1>2, <1>3 DEF ToppingUpType, CallBounded, CeilingBounded
<1>5. after \in CallType /\ CallBounded(after, limit)
  <2>1. Idle \in CallType /\ CallBounded(Idle, limit)
    BY Unbounded DEF CallType, Idle
  <2> QED BY <1>4, <2>1, AfterwardsOK
<1>o. ceiling \in Nat /\ ceiling # 0 /\ OpeningOnly(ceiling, c.prevCeiling, limit)
  BY <1>2, <1>4, AmountsOK DEF OpeningOnly, CeilingBounded
<1> HIDE DEF ceiling
<1>6. reserving \in CallType /\ CallBounded(reserving, limit)
  <2>1. reserving \in ReservingType
    BY <1>4, <1>o DEF ReservingType
  <2>2. CallBounded(reserving, limit)
    BY <1>4, <1>o DEF CallBounded
  <2> QED BY <2>1, <2>2 DEF CallType
<1>7. row' \in Rows /\ RowBounded(row', limit)
  <2>1. CASE UNCHANGED row
    BY <1>2, <2>1
  <2>2. CASE row' = [c.session EXCEPT !.reserveMaxAmount = ceiling, !.reserveAuthPending = TRUE,
                                      !.confirmedReserveAmount = c.prevCeiling]
    <3>2. row' \in Rows
      BY <1>4, <1>o, <2>2 DEF Rows
    <3>3. /\ row'.authMax = c.session.authMax /\ row'.reserveMaxAmount = ceiling
          /\ row'.confirmedReserveAmount = c.prevCeiling
      BY <1>4, <2>2 DEF Rows
    <3> QED BY <1>4, <1>o, <3>2, <3>3 DEF RowBounded
  <2> QED BY <1>1, <2>1, <2>2
<1> HIDE DEF after, reserving
<1>8. call' \in [Calls -> CallType] /\ \A x \in Calls : CallBounded(call'[x], limit)
  BY <1>1, <1>2, <1>5, <1>6, OneCall DEF limit
<1> QED BY <1>1, <1>7, <1>8, Parts, LimitStays, Whole DEF limit

(* A ReserveAuth raises what is signed for, and keeps the seller's bounds. *)
LEMMA RaisedOK ==
  ASSUME seller \in SellerType, NEW limit \in Nat, NEW newLimit \in Nat, NEW amount \in Nat,
         SellerBounded(seller, limit), limit <= newLimit, seller.signedReserve <= amount,
         seller' = [seller EXCEPT !.signedReserve = amount]
  PROVE  seller' \in SellerType /\ SellerBounded(seller', newLimit) /\ seller'.signedReserve = amount
<1>1. seller' \in SellerType
  BY DEF SellerType
<1>2. /\ seller'.signedReserve = amount /\ seller'.accepted = seller.accepted
      /\ seller'.deposit = seller.deposit
  BY DEF SellerType
<1>3. seller.accepted \in Nat /\ seller.deposit \in Nat /\ seller.signedReserve \in Nat
  BY DEF SellerType
<1> QED BY <1>1, <1>2, <1>3 DEF SellerBounded

LEMMA SendReserveAuthInv ==
  ASSUME BuyerInv, NEW id \in Calls, sendReserveAuth(id)
  PROVE  BuyerInv'
<1> DEFINE c == call[id]
           limit == SignableReserve
           signedReserve == Greatest(seller.signedReserve, c.ceiling)
           newLimit == SignableReserve'
           after == afterwards(id, c.before)
<1>1. /\ c.phase = "reserving"
      /\ mem' = [mem EXCEPT !.reserveCeiling = c.ceiling,
                   !.pendingReserveAuth = [maxAmount |-> c.ceiling,
                                           confirmedAmount |-> c.prevCeiling]]
      /\ seller' = [seller EXCEPT !.signedReserve = signedReserve]
      /\ call' = [call EXCEPT ![id] = after]
      /\ UNCHANGED <<row, lastResponse, observed, needAuths, sent, disputed>>
  BY DEF sendReserveAuth
<1>2. /\ c \in CallType /\ CallBounded(c, limit) /\ limit \in Nat
      /\ seller \in SellerType /\ SellerBounded(seller, limit) /\ seller.signedReserve \in Nat
      /\ row \in Rows /\ RowBounded(row, limit) /\ mem \in MemType /\ MemBounded(mem, limit)
  BY Parts
<1> HIDE DEF c, limit
<1>3. c \in ReservingType
  BY <1>1, <1>2, PhaseTells
<1>4. c.prevCeiling \in Nat /\ c.ceiling \in Nat /\ c.before \in Nat
  BY <1>3 DEF ReservingType
<1>m. /\ mem' \in MemType /\ mem'.cumulativeAmount = mem.cumulativeAmount
      /\ mem'.reserveCeiling = c.ceiling /\ mem'.reserveLost = mem.reserveLost
      /\ mem'.pendingReserveAuth = [maxAmount |-> c.ceiling, confirmedAmount |-> c.prevCeiling]
  <2>1. [maxAmount |-> c.ceiling, confirmedAmount |-> c.prevCeiling] \in Reserves
    BY <1>4 DEF Reserves
  <2> QED BY <1>1, <1>2, <1>4, <2>1 DEF MemType
<1>s. /\ signedReserve \in Nat /\ seller.signedReserve <= signedReserve /\ c.ceiling <= signedReserve
  BY <1>2, <1>4 DEF Greatest
<1> HIDE DEF signedReserve
<1>t. seller' \in SellerType /\ seller'.signedReserve = signedReserve
  BY <1>1, <1>2, <1>s DEF SellerType
<1>5. newLimit \in Nat /\ limit <= newLimit /\ c.ceiling <= newLimit
  <2>1. /\ SignableReserve' \in Nat /\ SignableReserve <= SignableReserve'
        /\ seller'.signedReserve <= SignableReserve'
    BY <1>2, <1>m, <1>s, <1>t, LimitGrows
  <2> QED BY <1>4, <1>s, <1>t, <2>1 DEF limit
<1> HIDE DEF newLimit
<1>6. SellerBounded(seller', newLimit)
  BY <1>1, <1>2, <1>5, <1>s, RaisedOK
<1>7. after \in CallType /\ CallBounded(after, newLimit)
  BY <1>4, AfterwardsOK
<1> HIDE DEF after
<1>8. call' \in [Calls -> CallType] /\ \A x \in Calls : CallBounded(call'[x], newLimit)
  BY <1>1, <1>5, <1>7, OneCall DEF limit
<1>9. MemBounded(mem', newLimit)
  <2>1. OpeningOnly(c.ceiling, c.prevCeiling, limit) /\ c.prevCeiling <= limit
    BY <1>1, <1>2 DEF CallBounded
  <2>2. c.prevCeiling <= newLimit /\ OpeningOnly(c.ceiling, c.prevCeiling, newLimit)
    BY <1>2, <1>4, <1>5, <2>1 DEF OpeningOnly
  <2>3. CeilingBounded(c.ceiling, newLimit)
    BY <1>1, <1>2, <1>5 DEF CeilingBounded, CallBounded
  <2>4. mem.cumulativeAmount <= newLimit
    BY <1>2, <1>5 DEF MemBounded, MemType
  <2> QED BY <1>m, <2>2, <2>3, <2>4 DEF MemBounded
<1>10. RowBounded(row', newLimit)
  BY <1>1, <1>2, <1>5, BoundsGrow
<1> QED BY <1>1, <1>2, <1>6, <1>8, <1>9, <1>10, <1>m, <1>t, Parts, Whole DEF newLimit

LEMMA HandleAuthAckInv ==
  ASSUME BuyerInv, handleAuthAck
  PROVE  BuyerInv'
<1> DEFINE limit == SignableReserve
           max == mem.pendingReserveAuth.maxAmount
<1>1. /\ mem.pendingReserveAuth.confirmedAmount = 0 /\ max > 0
      /\ mem' = [mem EXCEPT !.reserveCeiling = max, !.pendingReserveAuth = NoReserve]
      /\ row' = [row EXCEPT !.reserveAuthPending = FALSE, !.confirmedReserveAmount = max]
      /\ UNCHANGED <<lastResponse, observed, call, needAuths, seller, sent, disputed>>
  BY DEF handleAuthAck
<1>2. /\ limit \in Nat /\ row \in Rows /\ RowBounded(row, limit) /\ mem \in MemType
      /\ MemBounded(mem, limit)
  BY Parts
<1>3. max \in Nat /\ max <= limit /\ max > 0
  BY <1>1, <1>2 DEF MemType, Reserves, MemBounded, OpeningOnly
<1> HIDE DEF max, limit
<1>4. row' \in Rows /\ RowBounded(row', limit)
  <2>1. /\ row' \in Rows /\ row'.authMax = row.authMax
        /\ row'.confirmedReserveAmount = max
    BY <1>1, <1>2, <1>3 DEF Rows
  <2>2. OpeningOnly(row'.reserveMaxAmount, max, limit)
    BY <1>3 DEF OpeningOnly
  <2> QED BY <1>2, <1>3, <2>1, <2>2 DEF RowBounded
<1>5. mem' \in MemType /\ MemBounded(mem', limit) /\ mem'.reserveLost = mem.reserveLost
  <2>1. NoReserve \in Reserves /\ NoReserve.maxAmount = 0 /\ NoReserve.confirmedAmount = 0
    BY DEF NoReserve, Reserves
  <2>2. mem' \in MemType /\ mem'.cumulativeAmount = mem.cumulativeAmount
        /\ mem'.reserveCeiling = max /\ mem'.pendingReserveAuth = NoReserve
        /\ mem'.reserveLost = mem.reserveLost
    BY <1>1, <1>2, <1>3, <2>1 DEF MemType
  <2> QED BY <1>2, <1>3, <2>1, <2>2 DEF MemBounded, OpeningOnly, CeilingBounded
<1> QED BY <1>1, <1>4, <1>5, Parts, LimitStays, Whole DEF limit

(* Retiring a session forgets what was signed and the reserve: the limit   *)
(* may grow to the configured maximum.                                     *)
LEMMA RetiredOK ==
  ASSUME NEW r \in Rows, NEW m \in MemType, NEW limit \in Nat, RowBounded(r, limit),
         maxReserveAmountUsdc <= limit
  PROVE  /\ retired(r) \in Rows /\ RowBounded(retired(r), limit)
         /\ cleanedUp(m) \in MemType /\ MemBounded(cleanedUp(m), limit)
<1>1. retired(r) \in Rows /\ RowBounded(retired(r), limit)
  BY DEF retired, Rows, RowBounded
<1>2. NoReserve \in Reserves /\ NoReserve.maxAmount = 0 /\ NoReserve.confirmedAmount = 0
  BY DEF NoReserve, Reserves
<1>3. /\ cleanedUp(m) \in MemType /\ cleanedUp(m).cumulativeAmount = 0
      /\ cleanedUp(m).reserveCeiling = maxReserveAmountUsdc
      /\ cleanedUp(m).pendingReserveAuth = NoReserve
  BY <1>2, AmountsOK DEF cleanedUp, MemType
<1>4. MemBounded(cleanedUp(m), limit)
  BY <1>2, <1>3, AmountsOK DEF MemBounded, OpeningOnly, CeilingBounded
<1> QED BY <1>1, <1>3, <1>4

LEMMA CleanedUpLimit ==
  ASSUME BuyerInv, mem' = cleanedUp(mem), seller' \in SellerType,
         seller'.signedReserve = seller.signedReserve
  PROVE  /\ mem' \in MemType /\ SignableReserve' \in Nat
         /\ SignableReserve <= SignableReserve' /\ maxReserveAmountUsdc <= SignableReserve'
<1>1. mem \in MemType /\ seller \in SellerType /\ seller.signedReserve \in Nat
  BY Parts
<1>2. NoReserve \in Reserves
  BY DEF NoReserve, Reserves
<1>3. mem' \in MemType /\ mem'.reserveLost = TRUE
  BY <1>1, <1>2, AmountsOK DEF cleanedUp, MemType
<1>4. seller.signedReserve <= seller'.signedReserve
  BY <1>1
<1> QED BY <1>1, <1>3, <1>4, LimitGrows

LEMMA EndpointCalls == "extend" \in Calls /\ "close" \in Calls
BY DEF Calls

LEMMA Handle402Inv ==
  ASSUME BuyerInv, handle402
  PROVE  BuyerInv'
<1> DEFINE limit == SignableReserve
           newLimit == SignableReserve'
           recovering == [phase |-> "recovering", target |-> seller.spent]
           exhausted == seller.accepted >= seller.deposit \/ seller.spent > seller.deposit
<1>1. /\ limit \in Nat /\ row \in Rows /\ RowBounded(row, limit) /\ mem \in MemType
      /\ MemBounded(mem, limit) /\ seller.signedReserve <= limit /\ seller.signedReserve \in Nat
      /\ seller \in SellerType /\ SellerBounded(seller, limit) /\ needAuths \in Seq(FrameType)
      /\ disputed \in BOOLEAN /\ UNCHANGED <<lastResponse, observed, seller, sent, disputed>>
  BY Parts DEF handle402
<1>2. CASE exhausted
  <2>1. row' = retired(row) /\ mem' = cleanedUp(mem) /\ UNCHANGED <<call, needAuths, seller>>
    BY <1>1, <1>2 DEF handle402
  <2>2. newLimit \in Nat /\ limit <= newLimit /\ maxReserveAmountUsdc <= newLimit
    BY <1>1, <2>1, CleanedUpLimit
  <2> HIDE DEF limit, newLimit
  <2>3. RowBounded(row, newLimit) /\ \A x \in Calls : CallBounded(call[x], newLimit)
    BY <1>1, <2>2, BoundsGrow, CallsStay DEF limit
  <2>4. /\ row' \in Rows /\ RowBounded(row', newLimit)
        /\ mem' \in MemType /\ MemBounded(mem', newLimit)
    BY <1>1, <2>1, <2>2, <2>3, RetiredOK
  <2>5. SellerBounded(seller', newLimit)
    BY <1>1, <2>1, <2>2 DEF SellerBounded, SellerType
  <2> QED BY <1>1, <2>1, <2>3, <2>4, <2>5, Parts, Whole DEF newLimit
<1>3. CASE ~exhausted
  <2>1. /\ UNCHANGED <<row, mem>> /\ call' = [call EXCEPT !["extend"] = recovering]
        /\ needAuths' = Append(needAuths, needAuth(None, seller.spent, 0))
    BY <1>3 DEF handle402
  <2>2. seller.spent \in Nat
    BY <1>1 DEF SellerType
  <2>3. recovering \in CallType /\ CallBounded(recovering, limit)
    BY <2>2, Unbounded DEF RecoveredType, CallType
  <2>4. needAuths' \in Seq(FrameType)
    BY <1>1, <2>1, <2>2, NeedAuthType, FrameQueue
  <2> HIDE DEF recovering
  <2> QED BY <1>1, <2>1, <2>3, <2>4, EndpointCalls, HandlerStep
<1> QED BY <1>2, <1>3

(* What the chain holds is within the ReserveAuths that were sent, and one *)
(* that is sent again becomes one of them.                                 *)
LEMMA ReconcileInv ==
  ASSUME BuyerInv, reconcileReserveAmount
  PROVE  BuyerInv'
<1> DEFINE limit == SignableReserve
           pending == mem.pendingReserveAuth
           applied == seller.deposit >= pending.maxAmount
           signedReserve == Greatest(seller.signedReserve, pending.maxAmount)
           newLimit == SignableReserve'
           c == call["extend"]
           recovered == [c EXCEPT !.phase = "recovered"]
<1>1. /\ limit \in Nat /\ row \in Rows /\ RowBounded(row, limit) /\ mem \in MemType
      /\ MemBounded(mem, limit) /\ seller.signedReserve <= limit /\ seller.signedReserve \in Nat
      /\ seller \in SellerType /\ SellerBounded(seller, limit) /\ needAuths \in Seq(FrameType)
      /\ c \in CallType /\ UNCHANGED <<lastResponse, observed, needAuths, sent, disputed>>
  BY Parts, EndpointCalls DEF reconcileReserveAmount
<1>2. /\ mem' = [mem EXCEPT !.pendingReserveAuth = IF applied THEN NoReserve ELSE pending,
                   !.reserveCeiling = IF applied THEN seller.deposit ELSE pending.maxAmount]
      /\ row' = [row EXCEPT !.reserveAuthPending = ~applied,
                   !.confirmedReserveAmount = IF applied THEN seller.deposit
                                                         ELSE pending.confirmedAmount,
                   !.reserveMaxAmount = IF applied THEN row.reserveMaxAmount
                                                   ELSE pending.maxAmount]
      /\ seller' = [seller EXCEPT !.signedReserve = signedReserve]
      /\ call' = [call EXCEPT !["extend"] = recovered]
      /\ c.phase = "recovering" /\ seller.deposit > 0
  BY Zenon DEF reconcileReserveAmount, openOnChain
<1>3. /\ seller.deposit \in Nat /\ seller.deposit <= seller.signedReserve /\ seller.spent \in Nat
      /\ pending \in Reserves /\ pending.maxAmount \in Nat /\ pending.confirmedAmount \in Nat
      /\ OpeningOnly(pending.maxAmount, pending.confirmedAmount, limit)
      /\ pending.confirmedAmount <= limit
  BY <1>1 DEF SellerType, SellerBounded, MemType, Reserves, MemBounded
<1> DEFINE reserve == IF applied THEN NoReserve ELSE pending
           ceiling == IF applied THEN seller.deposit ELSE pending.maxAmount
           confirmed == IF applied THEN seller.deposit ELSE pending.confirmedAmount
           max == IF applied THEN row.reserveMaxAmount ELSE pending.maxAmount
<1>s. /\ signedReserve \in Nat /\ seller.signedReserve <= signedReserve
      /\ pending.maxAmount <= signedReserve
  BY <1>1, <1>3 DEF Greatest
<1>6. recovered \in CallType /\ CallBounded(recovered, newLimit)
  <2>1. c \in RecoveredType
    BY <1>1, <1>2, PhaseTells
  <2>2. recovered \in RecoveredType /\ recovered.phase = "recovered"
    BY <2>1 DEF RecoveredType
  <2> QED BY <2>2, Unbounded DEF CallType
<1>8. needAuths' \in Seq(FrameType)
  BY <1>1
<1>a. applied => pending.maxAmount <= seller.deposit
  BY <1>3
<1>n. ~applied => pending.maxAmount > 0
  BY <1>3
<1> HIDE DEF applied, pending, signedReserve, recovered
<1>r. reserve \in Reserves /\ ceiling \in Nat /\ confirmed \in Nat /\ max \in Nat
  BY <1>1, <1>3 DEF NoReserve, Reserves, Rows
<1>11. /\ mem' = [mem EXCEPT !.pendingReserveAuth = reserve, !.reserveCeiling = ceiling]
       /\ row' = [row EXCEPT !.reserveAuthPending = ~applied,
                    !.confirmedReserveAmount = confirmed, !.reserveMaxAmount = max]
  BY <1>2
<1> HIDE DEF reserve, ceiling, confirmed, max
<1>m. /\ mem' \in MemType /\ mem'.cumulativeAmount = mem.cumulativeAmount
      /\ mem'.pendingReserveAuth = reserve /\ mem'.reserveCeiling = ceiling
      /\ mem'.reserveLost = mem.reserveLost
  BY <1>1, <1>r, <1>11 DEF MemType
<1>t. seller' \in SellerType /\ seller'.signedReserve = signedReserve
  BY <1>1, <1>2, <1>s DEF SellerType
<1>4. newLimit \in Nat /\ limit <= newLimit /\ signedReserve <= newLimit
  BY <1>1, <1>m, <1>s, <1>t, LimitGrows
<1> HIDE DEF limit, newLimit
<1>5. SellerBounded(seller', newLimit)
  BY <1>1, <1>2, <1>4, <1>s, RaisedOK
<1>7. call' \in [Calls -> CallType] /\ \A x \in Calls : CallBounded(call'[x], newLimit)
  BY <1>2, <1>4, <1>6, EndpointCalls, OneCall DEF limit
<1>b. /\ seller.deposit <= newLimit /\ pending.maxAmount <= newLimit
      /\ pending.confirmedAmount <= newLimit
      /\ OpeningOnly(pending.maxAmount, pending.confirmedAmount, newLimit)
  <2>1. seller.deposit <= newLimit
    BY <1>1, <1>3, <1>4
  <2>2. pending.maxAmount <= newLimit
    BY <1>3, <1>4, <1>s
  <2>3. pending.confirmedAmount <= newLimit
    BY <1>1, <1>3, <1>4
  <2> QED BY <2>1, <2>2, <2>3 DEF OpeningOnly
<1>9. /\ OpeningOnly(reserve.maxAmount, reserve.confirmedAmount, newLimit)
      /\ reserve.confirmedAmount <= newLimit
  BY <1>4, <1>b DEF NoReserve, OpeningOnly, reserve
<1>e. CeilingBounded(ceiling, newLimit)
  BY <1>2, <1>3, <1>b, <1>n DEF CeilingBounded, ceiling
<1>10. confirmed <= newLimit /\ OpeningOnly(max, confirmed, newLimit)
  BY <1>2, <1>3, <1>b DEF OpeningOnly, confirmed, max
<1>12. MemBounded(mem', newLimit)
  <2>1. mem.cumulativeAmount <= newLimit
    BY <1>1, <1>4 DEF MemBounded, MemType
  <2> QED BY <1>9, <1>e, <1>m, <2>1 DEF MemBounded
<1>13. row' \in Rows /\ RowBounded(row', newLimit)
  <2>1. /\ row' \in Rows /\ row'.authMax = row.authMax
        /\ row'.confirmedReserveAmount = confirmed /\ row'.reserveMaxAmount = max
    BY <1>1, <1>r, <1>11 DEF Rows
  <2>2. row.authMax <= newLimit
    BY <1>1, <1>4 DEF RowBounded, Rows
  <2> QED BY <1>10, <2>1, <2>2 DEF RowBounded
<1> QED BY <1>1, <1>5, <1>7, <1>8, <1>12, <1>13, <1>m, <1>t, Parts, Whole DEF newLimit

(* The recovery after a 402 signs under the ceiling it recovered. *)
LEMMA ExtendInv ==
  ASSUME BuyerInv, NEW n \in Nat, extendCurrentSpendingAuth(n)
  PROVE  BuyerInv'
<1> DEFINE current == mem.cumulativeAmount
           c == call["extend"]
           target == c.target
           verified == reopened(current, mem.verifiedCost)
           maxSignable == Least(verified + maxPerRequestUsdc * n, mem.reserveCeiling)
           requested == Greatest(target, current + minBudgetPerRequest)
           next == Least(requested, maxSignable)
           advance == needsCeilingAdvance(requested, maxSignable)
           limit == SignableReserve
           unsigned == 0
           signed == signing(row, next, current, verified, FALSE, unsigned, advance)
           ended == topUpOrEnd("extend", advance, current, mem)
           extended == IF next > current THEN signed ELSE ended
           resending == [phase |-> "resending", session |-> row, amount |-> current]
<1>1. /\ c.phase = "recovered"
      /\ \E d \in {Idle, resending, extended} : call' = [call EXCEPT !["extend"] = d]
      /\ UNCHANGED <<row, mem, lastResponse, observed, needAuths, seller, sent, disputed>>
  BY DEF extendCurrentSpendingAuth
<1>2. /\ limit \in Nat /\ limit <= limit /\ row \in Rows /\ RowBounded(row, limit)
      /\ mem \in MemType /\ MemBounded(mem, limit) /\ c \in CallType
      /\ needAuths \in Seq(FrameType) /\ disputed \in BOOLEAN
  BY Parts, EndpointCalls
<1> HIDE DEF c
<1>3. target \in Nat
  <2>1. c \in RecoveredType
    BY <1>1, <1>2, PhaseTells
  <2> QED BY <2>1 DEF RecoveredType
<1>4. /\ current \in Nat /\ current <= limit /\ mem.verifiedCost \in Nat
      /\ mem.reserveCeiling \in Nat /\ mem.reserveCeiling <= limit
      /\ CeilingBounded(mem.reserveCeiling, limit)
  BY <1>2 DEF MemType, MemBounded, CeilingBounded
<1>r. resending \in CallType /\ CallBounded(resending, limit)
  <2>1. resending \in ResendingType
    BY <1>2, <1>4 DEF ResendingType
  <2>2. CallBounded(resending, limit)
    BY <1>2, <1>4 DEF CallBounded
  <2> QED BY <2>1, <2>2 DEF CallType
<1> HIDE DEF resending
<1> HIDE DEF target, current, limit
<1>5. verified \in Nat
  BY <1>4, ReopenedType
<1> HIDE DEF verified
<1>6. maxSignable \in Nat /\ maxSignable <= limit
  <2>1. verified + maxPerRequestUsdc * n \in Nat
    BY <1>5, AmountsOK
  <2> QED BY <1>2, <1>4, <2>1 DEF Least
<1> HIDE DEF maxSignable
<1>7. requested \in Nat
  BY <1>3, <1>4, AmountsOK DEF Greatest
<1> HIDE DEF requested
<1>8. next \in Nat /\ next <= limit
  BY <1>2, <1>6, <1>7 DEF Least
<1>9. advance \in BOOLEAN
  BY DEF needsCeilingAdvance
<1> HIDE DEF next, advance
<1>10. unsigned \in Nat
  OBVIOUS
<1> HIDE DEF unsigned
<1>11. next > current => signed \in CallType /\ CallBounded(signed, limit)
  <2>1. SUFFICES ASSUME next > current PROVE signed \in CallType /\ CallBounded(signed, limit)
    OBVIOUS
  <2>2. current <= next
    BY <1>4, <1>8, <2>1
  <2> QED BY <1>2, <1>4, <1>5, <1>8, <1>9, <1>10, <2>2, SigningOK
<1>12. ended \in CallType /\ CallBounded(ended, limit)
  BY <1>2, <1>4, TopUpOrEndOK
<1> HIDE DEF signed, ended
<1>13. extended \in CallType /\ CallBounded(extended, limit)
  BY <1>11, <1>12
<1> HIDE DEF extended
<1>14. Idle \in CallType /\ CallBounded(Idle, limit)
  BY Unbounded DEF CallType, Idle
<1>15. PICK d \in {Idle, resending, extended} : call' = [call EXCEPT !["extend"] = d]
  BY <1>1
<1>16. d \in CallType /\ CallBounded(d, SignableReserve)
  BY <1>13, <1>14, <1>15, <1>r DEF limit
<1> QED BY <1>1, <1>2, <1>15, <1>16, EndpointCalls, HandlerStep

LEMMA ResendInv ==
  ASSUME BuyerInv, resendCurrentSpendingAuth
  PROVE  BuyerInv'
<1> DEFINE c == call["extend"]
           limit == SignableReserve
<1>1. /\ c.phase = "resending" /\ row' = c.session /\ send(c.amount)
      /\ call' = [call EXCEPT !["extend"] = Idle]
      /\ UNCHANGED <<mem, lastResponse, observed, needAuths, disputed>>
  BY DEF resendCurrentSpendingAuth
<1>2. /\ c \in CallType /\ CallBounded(c, limit) /\ limit \in Nat /\ limit <= limit
  BY Parts, EndpointCalls
<1> HIDE DEF c, limit
<1>3. c \in ResendingType
  BY <1>1, <1>2, PhaseTells
<1>4. /\ c.session \in Rows /\ RowBounded(c.session, limit) /\ c.amount \in Nat
      /\ c.amount <= limit
  BY <1>1, <1>2, <1>3 DEF ResendingType, CallBounded
<1>5. Idle \in CallType /\ CallBounded(Idle, limit)
  BY Unbounded DEF CallType, Idle
<1>6. call' \in [Calls -> CallType] /\ \A x \in Calls : CallBounded(call'[x], limit)
  BY <1>1, <1>2, <1>5, EndpointCalls, OneCall DEF limit
<1>7. /\ seller' \in SellerType /\ SellerBounded(seller', limit) /\ sent' \in Nat
      /\ SignableReserve' = limit
  BY <1>1, <1>4, SendOK DEF limit
<1>8. mem \in MemType /\ MemBounded(mem, limit)
  BY Parts DEF limit
<1> QED BY <1>1, <1>4, <1>6, <1>7, <1>8, Parts, Whole

LEMMA EndRecoveryInv ==
  ASSUME BuyerInv, endRecovery
  PROVE  BuyerInv'
<1> DEFINE limit == SignableReserve
           newLimit == SignableReserve'
<1>1. /\ call' = [call EXCEPT !["extend"] = Idle]
      /\ UNCHANGED <<row, mem>> \/ (row' = retired(row) /\ mem' = cleanedUp(mem))
      /\ UNCHANGED <<lastResponse, observed, needAuths, seller, sent, disputed>>
  BY DEF endRecovery
<1>2. /\ limit \in Nat /\ row \in Rows /\ RowBounded(row, limit) /\ mem \in MemType
      /\ MemBounded(mem, limit) /\ seller \in SellerType /\ SellerBounded(seller, limit)
      /\ needAuths \in Seq(FrameType) /\ disputed \in BOOLEAN
  BY Parts
<1>3. CASE UNCHANGED <<row, mem>>
  <2>1. Idle \in CallType /\ CallBounded(Idle, limit)
    BY Unbounded DEF CallType, Idle
  <2> QED BY <1>1, <1>2, <1>3, <2>1, EndpointCalls, HandlerStep
<1>4. CASE row' = retired(row) /\ mem' = cleanedUp(mem)
  <2>1. newLimit \in Nat /\ limit <= newLimit /\ maxReserveAmountUsdc <= newLimit
    BY <1>1, <1>2, <1>4, CleanedUpLimit
  <2> HIDE DEF limit, newLimit
  <2>2. RowBounded(row, newLimit)
    BY <1>2, <2>1, BoundsGrow
  <2>3. /\ row' \in Rows /\ RowBounded(row', newLimit)
        /\ mem' \in MemType /\ MemBounded(mem', newLimit)
    BY <1>2, <1>4, <2>1, <2>2, RetiredOK
  <2>4. SellerBounded(seller', newLimit)
    BY <1>1, <1>2, <2>1 DEF SellerBounded, SellerType
  <2>5. Idle \in CallType /\ CallBounded(Idle, newLimit)
    BY Unbounded DEF CallType, Idle
  <2>6. call' \in [Calls -> CallType] /\ \A x \in Calls : CallBounded(call'[x], newLimit)
    BY <1>1, <2>1, <2>5, EndpointCalls, OneCall DEF limit
  <2> QED BY <1>1, <1>2, <2>3, <2>4, <2>6, Parts, Whole DEF newLimit
<1> QED BY <1>1, <1>3, <1>4

(* A restart makes the maps of the row alone: what it takes for the        *)
(* ceiling was signed for, or the reserve is lost track of.                *)
LEMMA RestartInv ==
  ASSUME BuyerInv, NEW keepsReserve \in BOOLEAN, restart(keepsReserve)
  PROVE  BuyerInv'
<1> DEFINE limit == SignableReserve
           newLimit == SignableReserve'
           stored == [maxAmount |-> row.reserveMaxAmount,
                      confirmedAmount |-> row.confirmedReserveAmount]
           reserve == IF keepsReserve /\ row.reserveAuthPending THEN stored ELSE NoReserve
           ceiling == IF keepsReserve THEN row.confirmedReserveAmount ELSE maxReserveAmountUsdc
           initial == IF keepsReserve THEN row.initialReserveAmount ELSE maxReserveAmountUsdc
           unpaid == [r \in Requests |-> NotCounted]
           lost == mem.reserveLost \/ ~keepsReserve \/ row.confirmedReserveAmount = 0
<1>1. /\ mem' = [cumulativeAmount |-> row.authMax, verifiedCost |-> row.authMax,
                 reserveCeiling |-> ceiling, initialReserve |-> initial,
                 pendingReserveAuth |-> reserve, unpaid |-> unpaid, reserveLost |-> lost]
      /\ lastResponse' = None /\ observed' = seller.served
      /\ call' = [id \in Calls |-> Idle] /\ needAuths' = <<>>
      /\ UNCHANGED <<row, seller, sent, disputed>>
  BY DEF restart
<1>2. /\ limit \in Nat /\ row \in Rows /\ RowBounded(row, limit) /\ mem \in MemType
      /\ seller \in SellerType /\ SellerBounded(seller, limit) /\ seller.signedReserve \in Nat
  BY Parts
<1>3. /\ row.authMax \in Nat /\ row.reserveMaxAmount \in Nat /\ row.initialReserveAmount \in Nat
      /\ row.confirmedReserveAmount \in Nat
  BY <1>2 DEF Rows
<1>4. ceiling \in Nat /\ initial \in Nat
  BY <1>3, AmountsOK
<1>5. reserve \in Reserves
  BY <1>3 DEF Reserves, NoReserve
<1>6. unpaid \in [Requests -> Nat \cup {NotCounted}]
  OBVIOUS
<1>7. lost \in BOOLEAN
  BY <1>2 DEF MemType
<1>8. mem.reserveLost => lost
  OBVIOUS
<1>10. ceiling # row.confirmedReserveAmount => lost /\ ceiling = maxReserveAmountUsdc
  OBVIOUS
<1>11. ceiling = 0 => lost
  BY <1>3, AmountsOK
<1>12. reserve = stored \/ reserve = NoReserve
  OBVIOUS
<1> HIDE DEF reserve, ceiling, initial, unpaid, lost
<1>13. /\ mem' \in MemType /\ mem'.reserveLost = lost /\ mem'.cumulativeAmount = row.authMax
       /\ mem'.reserveCeiling = ceiling /\ mem'.pendingReserveAuth = reserve
  BY <1>1, <1>3, <1>4, <1>5, <1>6, <1>7 DEF MemType
<1>14. seller.signedReserve <= seller'.signedReserve /\ seller' \in SellerType
  BY <1>1, <1>2
<1>15. /\ newLimit \in Nat /\ limit <= newLimit
       /\ lost => maxReserveAmountUsdc <= newLimit
  BY <1>2, <1>8, <1>13, <1>14, LimitGrows
<1> HIDE DEF limit, newLimit
<1>16. RowBounded(row, newLimit)
  BY <1>2, <1>15, BoundsGrow
<1>17. /\ row.authMax <= newLimit /\ row.confirmedReserveAmount <= newLimit
       /\ OpeningOnly(row.reserveMaxAmount, row.confirmedReserveAmount, newLimit)
  BY <1>16 DEF RowBounded
<1>18. CeilingBounded(ceiling, newLimit)
  BY <1>10, <1>11, <1>15, <1>17 DEF CeilingBounded
<1>19. /\ reserve.confirmedAmount <= newLimit
       /\ OpeningOnly(reserve.maxAmount, reserve.confirmedAmount, newLimit)
  BY <1>12, <1>15, <1>17 DEF NoReserve, OpeningOnly
<1>20. MemBounded(mem', newLimit)
  BY <1>13, <1>17, <1>18, <1>19 DEF MemBounded
<1>21. Idle \in CallType /\ CallBounded(Idle, newLimit)
  BY Unbounded DEF CallType, Idle
<1>22. call' \in [Calls -> CallType] /\ \A x \in Calls : CallBounded(call'[x], newLimit)
  BY <1>1, <1>21
<1>23. observed' \subseteq Requests /\ needAuths' \in Seq(FrameType)
  BY <1>1, <1>2 DEF SellerType
<1>24. SellerBounded(seller', newLimit)
  BY <1>1, <1>2, <1>15 DEF SellerBounded, SellerType
<1> QED BY <1>1, <1>13, <1>14, <1>16, <1>20, <1>22, <1>23, <1>24, Parts, Whole DEF newLimit

(***************************************************************************)
(* The close request.                                                      *)
(***************************************************************************)
LEMMA RequestCloseInv ==
  ASSUME BuyerInv, requestChannelClose
  PROVE  BuyerInv'
<1> DEFINE limit == SignableReserve
           signed == [phase |-> "signed"]
           r == lastResponse
           counted == mem.unpaid[r] # NotCounted
           cost == IF counted THEN mem.unpaid[r] ELSE seller.price[r]
           verified == IF counted THEN mem.verifiedCost ELSE mem.verifiedCost + cost
           amount == perRequestAmount(cost, verified)
           current == mem.cumulativeAmount
           unsigned == 0
           perRequest == signing(row, amount, current, verified, counted, unsigned, FALSE)
<1>1. /\ call' = [call EXCEPT !["close"] = IF r = None THEN signed ELSE perRequest]
      /\ UNCHANGED <<row, mem, lastResponse, observed, needAuths, seller, sent, disputed>>
  BY DEF requestChannelClose, signPerRequestAuth
<1>2. /\ limit \in Nat /\ row \in Rows /\ RowBounded(row, limit)
      /\ mem \in MemType /\ MemBounded(mem, limit) /\ seller \in SellerType
      /\ needAuths \in Seq(FrameType) /\ disputed \in BOOLEAN
      /\ lastResponse \in Requests \cup {None}
  BY Parts
<1>3. signed \in CallType /\ CallBounded(signed, limit)
  BY Unbounded DEF SignedType, CallType
<1>4. ASSUME r # None PROVE perRequest \in CallType /\ CallBounded(perRequest, limit)
  <2>1. /\ current \in Nat /\ current <= limit /\ mem.verifiedCost \in Nat
        /\ mem.reserveCeiling \in Nat /\ mem.reserveCeiling <= limit
        /\ mem.unpaid \in [Requests -> Nat \cup {NotCounted}]
        /\ seller.price \in [Requests -> Nat \ {0}]
    BY <1>2 DEF MemType, MemBounded, SellerType, CeilingBounded
  <2>2. mem.unpaid[r] \in Nat \cup {NotCounted} /\ seller.price[r] \in Nat
    BY <1>2, <1>4, <2>1
  <2>3. counted \in BOOLEAN /\ cost \in Nat
    BY <2>2
  <2> HIDE DEF cost, counted
  <2>4. verified \in Nat
    BY <2>1, <2>3
  <2> HIDE DEF verified
  <2>5. /\ maxSignableForVerified(verified) \in Nat
        /\ maxSignableForVerified(verified) <= limit
    <3>1. /\ maxSignableForVerified(verified) \in Nat
          /\ maxSignableForVerified(verified) <= mem.reserveCeiling
      BY <1>2, <2>4, SignableBound
    <3> QED BY <1>2, <2>1, <3>1
  <2>6. amount \in Nat /\ amount <= limit /\ current <= amount
    BY <1>2, <2>1, <2>3, <2>5 DEF perRequestAmount, Greatest, Least
  <2>7. unsigned \in Nat
    OBVIOUS
  <2> HIDE DEF amount, current, limit, unsigned
  <2> QED BY <1>2, <2>1, <2>3, <2>4, <2>6, <2>7, SigningOK
<1> DEFINE next == IF r = None THEN signed ELSE perRequest
<1> HIDE DEF signed, perRequest
<1>5. next \in CallType /\ CallBounded(next, limit)
  BY <1>3, <1>4
<1> HIDE DEF next
<1>6. call' = [call EXCEPT !["close"] = next]
  BY <1>1 DEF next
<1> QED BY <1>1, <1>2, <1>5, <1>6, EndpointCalls, HandlerStep

LEMMA FinishPerRequestInv ==
  ASSUME BuyerInv, finishPerRequestAuth
  PROVE  BuyerInv'
<1> DEFINE c == call["close"]
           r == lastResponse
           left == IF c.counted THEN Greatest(mem.unpaid[r] - (c.amount - c.before), 0) ELSE 0
           unpaid == [mem.unpaid EXCEPT ![r] = left]
           m == [mem EXCEPT !.cumulativeAmount = c.amount, !.verifiedCost = c.verifiedCost,
                            !.unpaid = unpaid]
           next == topUpOrEnd("close", needsTopUp(c.amount), c.before, m)
           limit == SignableReserve
<1>1. /\ c.phase = "committed" /\ mem' = m /\ send(c.amount) /\ lastResponse' = None
      /\ call' = [call EXCEPT !["close"] = next]
      /\ UNCHANGED <<row, observed, needAuths, disputed>>
  BY DEF finishPerRequestAuth
<1>2. /\ c \in CallType /\ CallBounded(c, limit) /\ limit \in Nat /\ limit <= limit
      /\ row \in Rows /\ mem \in MemType /\ RowBounded(row, limit) /\ MemBounded(mem, limit)
  BY Parts, EndpointCalls
<1> HIDE DEF c, limit
<1>3. c \in SigningType
  BY <1>1, <1>2, PhaseTells
<1>4. /\ c.amount \in Nat /\ c.amount <= limit /\ c.before \in Nat /\ c.verifiedCost \in Nat
  BY <1>1, <1>2, <1>3 DEF SigningType, CallBounded
<1>5. unpaid \in [Requests -> Nat \cup {NotCounted}]
  <2>1. mem.unpaid \in [Requests -> Nat \cup {NotCounted}]
    BY <1>2 DEF MemType
  <2>2. r \in Requests => mem.unpaid[r] \in Int
    BY <2>1 DEF NotCounted
  <2>3. r \in Requests => left \in Nat
    BY <1>4, <2>2 DEF Greatest
  <2> HIDE DEF left, r
  <2> QED BY <2>1, <2>3
<1> HIDE DEF unpaid
<1>6. m \in MemType /\ MemBounded(m, limit) /\ m.reserveLost = mem.reserveLost
  BY <1>2, <1>4, <1>5 DEF MemType, MemBounded
<1>7. CeilingBounded(m.reserveCeiling, limit)
  BY <1>6 DEF MemBounded
<1> HIDE DEF m
<1>8. next \in CallType /\ CallBounded(next, limit)
  BY <1>2, <1>4, <1>6, <1>7, TopUpOrEndOK
<1> HIDE DEF next
<1>9. call' \in [Calls -> CallType] /\ \A x \in Calls : CallBounded(call'[x], limit)
  BY <1>1, <1>2, <1>8, EndpointCalls, OneCall DEF limit
<1>10. /\ seller' \in SellerType /\ SellerBounded(seller', limit) /\ sent' \in Nat
       /\ SignableReserve' = limit
  BY <1>1, <1>4, <1>6, SendOK DEF limit
<1> QED BY <1>1, <1>2, <1>6, <1>9, <1>10, Parts, Whole

LEMMA BuildCloseInv ==
  ASSUME BuyerInv, buildCloseChannelRequest
  PROVE  BuyerInv'
<1> DEFINE limit == SignableReserve
<1>1. PICK capped \in {FALSE, mem.cumulativeAmount > seller.deposit} :
        call' = [call EXCEPT !["close"] =
          [phase |-> "closing", session |-> row, capped |-> capped,
           amount |-> IF capped THEN seller.deposit ELSE mem.cumulativeAmount]]
  BY DEF buildCloseChannelRequest
<1>2. UNCHANGED <<row, mem, lastResponse, observed, needAuths, seller, sent, disputed>>
  BY DEF buildCloseChannelRequest
<1> DEFINE amount == IF capped THEN seller.deposit ELSE mem.cumulativeAmount
           c == [phase |-> "closing", session |-> row, capped |-> capped, amount |-> amount]
<1>3. /\ limit \in Nat /\ row \in Rows /\ RowBounded(row, limit)
      /\ mem \in MemType /\ MemBounded(mem, limit) /\ seller \in SellerType
      /\ SellerBounded(seller, limit) /\ needAuths \in Seq(FrameType) /\ disputed \in BOOLEAN
      /\ seller.signedReserve <= limit /\ seller.signedReserve \in Nat
  BY Parts
<1>4. amount \in Nat /\ amount <= limit
  BY <1>3 DEF MemType, MemBounded, SellerType, SellerBounded
<1>5. capped \in BOOLEAN
  <2> DEFINE above == mem.cumulativeAmount > seller.deposit
  <2>1. above \in BOOLEAN
    OBVIOUS
  <2>2. capped \in {FALSE, above}
    OBVIOUS
  <2> HIDE DEF above
  <2> QED BY <2>1, <2>2, Zenon
<1> HIDE DEF amount
<1>6. c \in ClosingType
  BY <1>3, <1>4, <1>5 DEF ClosingType
<1>7. CallBounded(c, limit)
  BY <1>3, <1>4 DEF CallBounded
<1>8. c \in CallType
  BY <1>6 DEF CallType
<1>9. call' = [call EXCEPT !["close"] = c]
  BY <1>1 DEF amount
<1> HIDE DEF c
<1> QED BY <1>2, <1>3, <1>7, <1>8, <1>9, EndpointCalls, HandlerStep

(* What the seller accepts with a close request is within the limit. *)
LEMMA ClosingOK ==
  ASSUME BuyerInv, call["close"].phase = "closing",
         NEW stillOpen \in BOOLEAN, NEW limit \in Nat, SignableReserve <= limit,
         NEW s, s = [seller EXCEPT !.accepted = Greatest(seller.accepted, call["close"].amount),
                                   !.open = stillOpen]
  PROVE  LET committed == IF call["close"].capped THEN row ELSE call["close"].session
         IN  /\ committed \in Rows /\ RowBounded(committed, limit)
             /\ s \in SellerType /\ SellerBounded(s, limit)
             /\ s.signedReserve = seller.signedReserve
<1> DEFINE c == call["close"]
           accepted == Greatest(seller.accepted, c.amount)
           committed == IF c.capped THEN row ELSE c.session
<1>1. /\ c \in CallType /\ CallBounded(c, SignableReserve) /\ SignableReserve \in Nat
      /\ row \in Rows /\ RowBounded(row, SignableReserve)
      /\ seller \in SellerType /\ SellerBounded(seller, SignableReserve)
  BY Parts, EndpointCalls
<1> HIDE DEF c
<1>2. c \in ClosingType /\ CallBounded(c, limit) /\ RowBounded(row, limit)
  BY <1>1, PhaseTells, BoundsGrow DEF c
<1>3. /\ c.amount \in Nat /\ c.amount <= limit /\ c.session \in Rows
      /\ RowBounded(c.session, limit)
  BY <1>2 DEF ClosingType, CallBounded, c
<1>4. committed \in Rows /\ RowBounded(committed, limit)
  BY <1>1, <1>2, <1>3
<1>5. accepted \in Nat /\ accepted <= limit
  BY <1>1, <1>3 DEF SellerType, SellerBounded, Greatest
<1>6. s = [seller EXCEPT !.accepted = accepted, !.open = stillOpen]
  BY DEF c
<1> HIDE DEF committed, accepted
<1>7. /\ s \in SellerType /\ s.accepted = accepted /\ s.deposit = seller.deposit
      /\ s.signedReserve = seller.signedReserve
  BY <1>1, <1>5, <1>6 DEF SellerType
<1>8. SellerBounded(s, limit)
  BY <1>1, <1>5, <1>7 DEF SellerBounded
<1> QED BY <1>4, <1>7, <1>8 DEF committed, c

LEMMA SendCloseInv ==
  ASSUME BuyerInv, sendCloseChannelRequest
  PROVE  BuyerInv'
<1> DEFINE c == call["close"]
           limit == SignableReserve
           newLimit == SignableReserve'
           accepted == Greatest(seller.accepted, c.amount)
           committed == IF c.capped THEN row ELSE c.session
           stillOpen == seller.spent > accepted
           frame == needAuth(None, seller.spent, 0)
<1>1. /\ c.phase = "closing" /\ call' = [call EXCEPT !["close"] = Idle]
      /\ seller' = [seller EXCEPT !.accepted = accepted, !.open = stillOpen]
      /\ \/ /\ needAuths' = Append(needAuths, frame) /\ row' = committed
            /\ UNCHANGED <<mem, lastResponse>>
         \/ /\ row' = retired(committed) /\ mem' = cleanedUp(mem) /\ lastResponse' = None
            /\ UNCHANGED needAuths
      /\ UNCHANGED <<observed, sent, disputed>>
  BY DEF sendCloseChannelRequest
<1>2. /\ limit \in Nat /\ limit <= limit /\ mem \in MemType /\ MemBounded(mem, limit)
      /\ seller \in SellerType /\ needAuths \in Seq(FrameType)
      /\ lastResponse \in Requests \cup {None}
  BY Parts
<1>3. stillOpen \in BOOLEAN
  OBVIOUS
<1>4. frame \in FrameType
  <2>1. seller.spent \in Nat
    BY <1>2 DEF SellerType
  <2> QED BY <2>1, NeedAuthType
<1>5. needAuths' \in Seq(FrameType) /\ lastResponse' \in Requests \cup {None}
  BY <1>1, <1>2, <1>4, FrameQueue
<1> HIDE DEF stillOpen, frame
<1>6. ASSUME NEW l \in Nat, limit <= l
      PROVE  /\ committed \in Rows /\ RowBounded(committed, l) /\ seller' \in SellerType
             /\ SellerBounded(seller', l) /\ seller'.signedReserve = seller.signedReserve
             /\ call' \in [Calls -> CallType] /\ \A x \in Calls : CallBounded(call'[x], l)
  <2>1. Idle \in CallType /\ CallBounded(Idle, l)
    BY Unbounded DEF CallType, Idle
  <2>2. call' \in [Calls -> CallType] /\ \A x \in Calls : CallBounded(call'[x], l)
    BY <1>1, <1>6, <2>1, EndpointCalls, OneCall
  <2> QED BY <1>1, <1>3, <1>6, <2>2, ClosingOK
<1> HIDE DEF committed, accepted, c
<1>7. CASE row' = committed /\ UNCHANGED mem
  <2>1. newLimit = limit
    BY <1>2, <1>6, <1>7, LimitStays
  <2> HIDE DEF limit, newLimit
  <2> QED BY <1>1, <1>2, <1>5, <1>6, <1>7, <2>1, Parts, Whole DEF newLimit
<1>8. CASE row' = retired(committed) /\ mem' = cleanedUp(mem)
  <2>1. newLimit \in Nat /\ limit <= newLimit /\ maxReserveAmountUsdc <= newLimit
    BY <1>2, <1>6, <1>8, CleanedUpLimit
  <2> HIDE DEF limit, newLimit
  <2>2. /\ committed \in Rows /\ RowBounded(committed, newLimit) /\ seller' \in SellerType
        /\ SellerBounded(seller', newLimit) /\ call' \in [Calls -> CallType]
        /\ \A x \in Calls : CallBounded(call'[x], newLimit)
    BY <1>6, <2>1
  <2>3. /\ row' \in Rows /\ RowBounded(row', newLimit)
        /\ mem' \in MemType /\ MemBounded(mem', newLimit)
    BY <1>2, <1>8, <2>1, <2>2, RetiredOK
  <2> QED BY <1>1, <1>5, <2>2, <2>3, Parts, Whole DEF newLimit
<1> QED BY <1>1, <1>7, <1>8

LEMMA CloseNotAnsweredInv ==
  ASSUME BuyerInv, closeNotAnswered
  PROVE  BuyerInv'
<1> DEFINE c == call["close"]
           limit == SignableReserve
           committed == IF c.capped THEN row ELSE c.session
           closed == [seller EXCEPT !.accepted = Greatest(seller.accepted, c.amount), !.open = FALSE]
<1>1. /\ c.phase = "closing" /\ call' = [call EXCEPT !["close"] = Idle]
      /\ row' = committed /\ seller' \in {seller, closed}
      /\ UNCHANGED <<mem, lastResponse, observed, needAuths, sent, disputed>>
  BY DEF closeNotAnswered
<1>2. /\ limit \in Nat /\ limit <= limit /\ mem \in MemType /\ MemBounded(mem, limit)
      /\ seller \in SellerType /\ SellerBounded(seller, limit)
  BY Parts
<1>3. /\ committed \in Rows /\ RowBounded(committed, limit) /\ closed \in SellerType
      /\ SellerBounded(closed, limit) /\ closed.signedReserve = seller.signedReserve
  BY <1>1, <1>2, ClosingOK
<1> HIDE DEF committed, closed, c
<1>4. /\ seller' \in SellerType /\ SellerBounded(seller', limit)
      /\ seller'.signedReserve = seller.signedReserve
  BY <1>1, <1>2, <1>3
<1>5. SignableReserve' = limit
  BY <1>1, <1>4, LimitStays
<1>6. Idle \in CallType /\ CallBounded(Idle, limit)
  BY Unbounded DEF CallType, Idle
<1>7. call' \in [Calls -> CallType] /\ \A x \in Calls : CallBounded(call'[x], limit)
  BY <1>1, <1>2, <1>6, EndpointCalls, OneCall
<1> HIDE DEF limit
<1> QED BY <1>1, <1>2, <1>3, <1>4, <1>5, <1>7, Parts, Whole

(***************************************************************************)
(* The seller.                                                             *)
(***************************************************************************)
LEMMA ServeRequestInv ==
  ASSUME BuyerInv, NEW r \in Requests, serveRequest(r)
  PROVE  BuyerInv'
<1> DEFINE limit == SignableReserve
           price == seller.price[r]
           served == seller.served \cup {r}
           spent == seller.spent + price
<1>1. /\ seller' = [seller EXCEPT !.served = served, !.spent = spent]
      /\ needAuths' = Append(needAuths, needAuth(r, spent, price))
      /\ UNCHANGED <<row, mem, lastResponse, observed, call, sent, disputed>>
  BY DEF serveRequest
<1>2. seller \in SellerType /\ SellerBounded(seller, limit) /\ needAuths \in Seq(FrameType)
  BY Parts
<1>3. price \in Nat /\ served \in SUBSET Requests /\ spent \in Nat
  BY <1>2 DEF SellerType
<1> HIDE DEF price, served, spent
<1>4. /\ seller' \in SellerType /\ seller'.accepted = seller.accepted
      /\ seller'.deposit = seller.deposit /\ seller'.signedReserve = seller.signedReserve
  BY <1>1, <1>2, <1>3 DEF SellerType
<1>5. SellerBounded(seller', limit) /\ SignableReserve' = limit
  BY <1>1, <1>2, <1>4, LimitStays DEF SellerBounded
<1>6. needAuths' \in Seq(FrameType)
  BY <1>1, <1>2, <1>3, NeedAuthType, FrameQueue
<1> QED BY <1>1, <1>4, <1>5, <1>6, Parts, Whole

LEMMA ReceiveResponseInv ==
  ASSUME BuyerInv, NEW r \in Requests, receiveResponse(r)
  PROVE  BuyerInv'
<1>1. /\ observed' = observed \cup {r} /\ lastResponse' = r
      /\ UNCHANGED <<row, mem, seller, call, sent, needAuths, disputed>>
  BY DEF receiveResponse
<1>2. needAuths \in Seq(FrameType) /\ disputed \in BOOLEAN /\ observed \subseteq Requests
  BY Parts
<1> QED BY <1>1, <1>2, IdleStep

LEMMA ReserveInv ==
  ASSUME BuyerInv, reserveOrTopUp
  PROVE  BuyerInv'
<1> DEFINE limit == SignableReserve
<1>1. /\ seller' = [seller EXCEPT !.deposit = seller.signedReserve]
      /\ UNCHANGED <<row, mem, lastResponse, observed, call, needAuths, sent, disputed>>
  BY DEF reserveOrTopUp
<1>2. seller \in SellerType /\ SellerBounded(seller, limit) /\ seller.signedReserve \in Nat
  BY Parts
<1>3. /\ seller' \in SellerType /\ seller'.accepted = seller.accepted
      /\ seller'.deposit = seller.signedReserve /\ seller'.signedReserve = seller.signedReserve
  BY <1>1, <1>2 DEF SellerType
<1>4. SellerBounded(seller', limit) /\ SignableReserve' = limit
  BY <1>1, <1>2, <1>3, LimitStays DEF SellerBounded
<1> QED BY <1>1, <1>3, <1>4, Parts, Whole

(***************************************************************************)
(* The invariant holds.                                                    *)
(***************************************************************************)
LEMMA InitInv == Init => BuyerInv
<1> SUFFICES ASSUME Init PROVE BuyerInv
  OBVIOUS
<1>1. PICK opening \in 1..maxReserveAmountUsdc, price \in Prices :
       /\ row = [authMax |-> 0, initialReserveAmount |-> opening, reserveMaxAmount |-> opening,
                 reserveAuthPending |-> TRUE, confirmedReserveAmount |-> 0, active |-> TRUE]
       /\ mem = [cumulativeAmount |-> 0, verifiedCost |-> 0, reserveCeiling |-> opening,
                 initialReserve |-> opening,
                 pendingReserveAuth |-> [maxAmount |-> opening, confirmedAmount |-> 0],
                 unpaid |-> [r \in Requests |-> NotCounted], reserveLost |-> FALSE]
       /\ seller = [price |-> price, served |-> {}, spent |-> 0, accepted |-> 0, deposit |-> 0,
                    signedReserve |-> opening, open |-> TRUE]
  BY DEF Init
<1>2. price \in [Requests -> Nat \ {0}] /\ opening \in Nat /\ opening # 0
  BY AmountsOK, BuyerAssumption
<1>3. seller \in SellerType /\ SellerBounded(seller, opening) /\ seller.signedReserve = opening
  BY <1>1, <1>2 DEF SellerType, SellerBounded
<1>4. row \in Rows /\ RowBounded(row, opening)
  BY <1>1, <1>2 DEF Rows, RowBounded, OpeningOnly
<1>5. mem \in MemType /\ MemBounded(mem, opening) /\ mem.reserveLost = FALSE
  <2>1. [maxAmount |-> opening, confirmedAmount |-> 0] \in Reserves
    BY <1>2 DEF Reserves
  <2>2. [r \in Requests |-> NotCounted] \in [Requests -> Nat \cup {NotCounted}]
    OBVIOUS
  <2>3. mem \in MemType
    BY <1>1, <1>2, <2>1, <2>2 DEF MemType
  <2>4. MemBounded(mem, opening)
    BY <1>1, <1>2 DEF MemBounded, OpeningOnly, CeilingBounded
  <2> QED BY <1>1, <2>3, <2>4
<1> DEFINE limit == SignableReserve
<1>l. limit = opening
  BY <1>3, <1>5 DEF SignableReserve
<1> HIDE DEF limit
<1>6. call = [id \in Calls |-> Idle]
  BY DEF Init
<1>7. Idle \in CallType /\ CallBounded(Idle, limit) /\ Idle.phase = "idle"
  BY Unbounded DEF CallType, Idle
<1>8. /\ call \in [Calls -> CallType] /\ \A id \in Calls : CallBounded(call[id], limit)
      /\ \A id \in Calls : call[id].phase = "idle"
  BY <1>6, <1>7
<1>9. TypeOK
  <2>1. /\ lastResponse \in Requests \cup {None} /\ observed \subseteq Requests
        /\ sent \in Nat /\ disputed \in BOOLEAN /\ needAuths = <<>>
    BY DEF Init
  <2>2. needAuths \in Seq(FrameType)
    BY <2>1
  <2> QED BY <1>4, <1>5, <1>8, <2>1, <2>2 DEF TypeOK, MemType, FrameType
<1> QED BY <1>3, <1>4, <1>5, <1>8, <1>9, <1>l DEF BuyerInv, limit

LEMMA NextInv ==
  ASSUME BuyerInv, [Next]_vars
  PROVE  BuyerInv'
<1>1. ASSUME NEW id \in Calls, finishNeedAuth(id) \/ sendReserveAuth(id) PROVE BuyerInv'
  BY <1>1, FinishNeedAuthInv, SendReserveAuthInv
<1>2. CASE finishPerRequestAuth
  BY <1>2, FinishPerRequestInv
<1>3. ASSUME NEW keepsReserve \in BOOLEAN, restart(keepsReserve) PROVE BuyerInv'
  BY <1>3, RestartInv
<1>4. CASE handleNeedAuth
  BY <1>4, HandleNeedAuthInv
<1>5. ASSUME NEW id \in Calls,
             resumeNeedAuth(id) \/ commitAuthorization(id) \/ topUpReserve(id)
      PROVE  BuyerInv'
  BY <1>5, ResumeNeedAuthInv, CommitInv, TopUpReserveInv
<1>6. CASE handleAuthAck
  BY <1>6, HandleAuthAckInv
<1>7. CASE handle402
  BY <1>7, Handle402Inv
<1>18. CASE reconcileReserveAmount
  BY <1>18, ReconcileInv
<1>8. ASSUME NEW n \in 1..Cardinality(Requests), extendCurrentSpendingAuth(n) PROVE BuyerInv'
  <2>1. n \in Nat
    BY <1>8
  <2> QED BY <1>8, <2>1, ExtendInv
<1>9. CASE endRecovery
  BY <1>9, EndRecoveryInv
<1>10. CASE requestChannelClose
  BY <1>10, RequestCloseInv
<1>11. CASE buildCloseChannelRequest
  BY <1>11, BuildCloseInv
<1>12. CASE sendCloseChannelRequest
  BY <1>12, SendCloseInv
<1>13. ASSUME NEW r \in Requests, receiveResponse(r) \/ serveRequest(r) PROVE BuyerInv'
  BY <1>13, ReceiveResponseInv, ServeRequestInv
<1>14. CASE reserveOrTopUp
  BY <1>14, ReserveInv
<1>16. CASE resendCurrentSpendingAuth
  BY <1>16, ResendInv
<1>17. CASE closeNotAnswered
  BY <1>17, CloseNotAnsweredInv
<1>15. CASE UNCHANGED vars
  <2>1. /\ UNCHANGED <<row, mem, seller, call, sent, needAuths, disputed, lastResponse, observed>>
    BY <1>15 DEF vars
  <2> QED BY <2>1, Parts, IdleStep
<1> QED
  BY <1>1, <1>2, <1>3, <1>4, <1>5, <1>6, <1>7, <1>8, <1>9, <1>10, <1>11, <1>12, <1>13, <1>14,
     <1>15, <1>16, <1>17, <1>18 DEF Next

(* Every value a handler holds across an await is bounded by what the      *)
(* ReserveAuths cover, or by the configured maximum once the manager lost  *)
(* track of them, whatever the other handlers did in the meantime.         *)
THEOREM BuyerInvariant == Spec => []BuyerInv
BY InitInv, NextInv, PTL DEF Spec

(* Rows, maps and frames keep their types, and no handler signs for less   *)
(* than the amount it read.                                                *)
THEOREM BuyerTypeCorrect == Spec => []TypeOK
<1>1. BuyerInv => TypeOK
  BY DEF BuyerInv
<1> QED BY <1>1, BuyerInvariant, PTL

(* No SpendingAuth exceeds the ReserveAuths that were sent, and after a    *)
(* cleanup or a start without a confirmed reserve none exceeds both them   *)
(* and the configured maximum: for any opening reserve up to that, any     *)
(* number of requests, 402s, restarts, close requests and top-ups, at any  *)
(* prices.                                                                 *)
THEOREM SignedWithinReserveCorrect == Spec => []SignedWithinReserve
<1>1. ASSUME BuyerInv PROVE SignedWithinReserve
  <2>1. /\ SellerBounded(seller, SignableReserve) /\ RowBounded(row, SignableReserve)
        /\ MemBounded(mem, SignableReserve)
    BY <1>1, Parts
  <2>2. row.authMax <= SignableReserve /\ mem.cumulativeAmount <= SignableReserve
    BY <2>1 DEF RowBounded, MemBounded
  <2>3. seller.accepted <= SignableReserve
    BY <2>1 DEF SellerBounded
  <2> QED BY <2>2, <2>3 DEF SignedWithinReserve, Highest, Greatest
<1> QED BY <1>1, BuyerInvariant, PTL

(***************************************************************************)
(* What a buyer overpays.  The limit is what was served, and what each 402 *)
(* and each close request may add to it.                                   *)
(***************************************************************************)

(* A finite nonempty set of natural numbers has a largest member. *)
LEMMA FiniteMax ==
  ASSUME NEW S, IsFiniteSet(S), S \subseteq Nat, S # {}
  PROVE  \E m \in S : \A k \in S : k <= m
<1> DEFINE HasMax(T) == \E m \in T : \A k \in T : k <= m
           Sizes == {n \in Nat : \E T \in SUBSET S : T # {} /\ Cardinality(T) = n /\ ~HasMax(T)}
<1>1. SUFFICES ASSUME ~HasMax(S) PROVE FALSE
  OBVIOUS
<1>2. Cardinality(S) \in Sizes
  BY <1>1, FS_CardinalityType
<1>3. PICK n \in Sizes : \A k \in Sizes : n <= k
  BY <1>2, LeastNumber
<1>4. PICK T \in SUBSET S : T # {} /\ Cardinality(T) = n /\ ~HasMax(T)
  BY <1>3
<1>5. IsFiniteSet(T)
  BY <1>4, FS_Subset
<1>6. PICK x \in T : TRUE
  BY <1>4
<1> DEFINE U == T \ {x}
<1>7. IsFiniteSet(U) /\ Cardinality(U) = n - 1
  BY <1>4, <1>5, <1>6, FS_RemoveElement
<1>8. Cardinality(U) \in Nat /\ n \in Nat
  BY <1>3, <1>7, FS_CardinalityType
<1>9. U = {} \/ HasMax(U)
  <2>1. SUFFICES ASSUME U # {}, ~HasMax(U) PROVE FALSE
    OBVIOUS
  <2>2. Cardinality(U) \in Sizes
    BY <1>8, <2>1
  <2>3. n <= Cardinality(U)
    BY <1>3, <2>2
  <2> HIDE DEF U, Sizes, HasMax
  <2> QED BY <1>7, <1>8, <2>3
<1>10. x \in Nat /\ T \subseteq Nat
  BY <1>4, <1>6
<1> HIDE DEF Sizes
<1>11. CASE U = {}
  <2>1. \A k \in T : k = x
    BY <1>11
  <2> QED BY <1>4, <1>6, <1>10, <2>1
<1>12. CASE HasMax(U)
  <2>1. PICK m \in U : \A k \in U : k <= m
    BY <1>12
  <2>2. m \in T /\ m \in Nat
    BY <1>10
  <2>3. CASE x <= m
    <3>1. \A k \in T : k <= m
      BY <2>1, <2>3
    <3> QED BY <1>4, <2>2, <3>1
  <2>4. CASE m <= x
    <3>1. \A k \in T : k <= x
      BY <1>10, <2>1, <2>2, <2>4
    <3> QED BY <1>4, <1>6, <3>1
  <2> QED BY <1>10, <2>2, <2>3, <2>4
<1> QED BY <1>9, <1>11, <1>12

(* No request costs more than the largest price. *)
LEMMA LargestPriceOK ==
  ASSUME seller \in SellerType
  PROVE  /\ LargestPrice \in Nat /\ LargestPrice \in Range(seller.price)
         /\ \A r \in Requests : seller.price[r] <= LargestPrice
         /\ \A p \in Range(seller.price) : p \in Nat /\ p <= LargestPrice
<1> DEFINE P == Range(seller.price)
<1>1. seller.price \in [Requests -> Nat \ {0}]
  BY DEF SellerType
<1>2. P = {seller.price[r] : r \in Requests}
  BY <1>1 DEF Range
<1>3. IsFiniteSet(P)
  <2>1. seller.price \in Surjection(Requests, P)
    BY <1>1, <1>2 DEF Surjection
  <2> QED BY <2>1, BuyerAssumption, FS_Surjection
<1>4. P \subseteq Nat /\ P # {}
  BY <1>1, <1>2, BuyerAssumption
<1> HIDE DEF P
<1>5. \E p \in P : \A q \in P : q <= p
  BY <1>3, <1>4, FiniteMax
<1>6. LargestPrice \in P /\ \A q \in P : q <= LargestPrice
  BY <1>5 DEF LargestPrice, P
<1> QED BY <1>2, <1>4, <1>6 DEF P

LEMMA LargestPriceSame ==
  ASSUME seller \in SellerType, seller' \in SellerType, seller'.price = seller.price
  PROVE  LargestPrice' = LargestPrice
<1>1. LargestPrice' = CHOOSE p \in Range(seller'.price) : \A q \in Range(seller'.price) : q <= p
  BY DEF LargestPrice
<1>2. LargestPrice' = CHOOSE p \in Range(seller.price) : \A q \in Range(seller.price) : q <= p
  BY <1>1
<1> QED BY <1>2 DEF LargestPrice

(* Products grow with their factors. *)
LEMMA ProductGrows ==
  ASSUME NEW a \in Nat, NEW m \in Nat, NEW n \in Nat, m <= n
  PROVE  a * m \in Nat /\ a * n \in Nat /\ a * m <= a * n
<1>1. a * m \in Nat /\ a * n \in Nat /\ a * (n - m) \in Nat
  OBVIOUS
<1>2. a * n = a * m + a * (n - m)
  OBVIOUS
<1> QED BY <1>1, <1>2

PayLimit == seller.spent + (minBudgetPerRequest - 1) * extends + LargestPrice * closes

(* The NeedAuths on their way ask for no more than was served. *)
FrameOwed(spent, top) == {f \in FrameType : f.required <= spent /\ f.cost <= top}

CallOwed(c, spent, limit, top) ==
  /\ c.phase = "waiting" =>
       c.required <= spent /\ c.cost <= top /\ c.current <= limit /\ c.session.authMax <= limit
  /\ c.phase \in {"signing", "committed"} =>
       c.amount <= limit /\ c.session.authMax <= limit /\ c.unpaid <= top
  /\ c.phase = "toppingUp" => c.session.authMax <= limit
  /\ c.phase \in {"closing", "resending"} => c.amount <= limit /\ c.session.authMax <= limit
  /\ c.phase \in {"recovering", "recovered"} => c.target <= spent

(* The inductive invariant of OverpayBounded: the limit holds of every     *)
(* amount a handler holds, and the recovery of a 402 was counted.          *)
OweInv ==
  /\ extends \in Nat /\ closes \in Nat /\ restarts \in Nat
  /\ seller.accepted <= PayLimit /\ row.authMax <= PayLimit /\ mem.cumulativeAmount <= PayLimit
  /\ \A r \in Requests : mem.unpaid[r] <= LargestPrice
  /\ needAuths \in Seq(FrameOwed(seller.spent, LargestPrice))
  /\ \A id \in Calls : CallOwed(call[id], seller.spent, PayLimit, LargestPrice)
  /\ call["extend"] # Idle => extends >= 1

LEMMA PayLimitType ==
  ASSUME BuyerInv, extends \in Nat, closes \in Nat
  PROVE  /\ PayLimit \in Nat /\ LargestPrice \in Nat /\ seller.spent \in Nat
         /\ seller.spent <= PayLimit
         /\ extends >= 1 => seller.spent + minBudgetPerRequest - 1 <= PayLimit
<1> DEFINE a == minBudgetPerRequest - 1
           x == a * extends
           y == LargestPrice * closes
<1>1. seller \in SellerType /\ seller.spent \in Nat
  BY Parts DEF SellerType
<1>2. LargestPrice \in Nat
  BY <1>1, LargestPriceOK
<1>3. a \in Nat
  BY AmountsOK
<1>4. x \in Nat /\ y \in Nat
  BY <1>2, <1>3, ProductGrows
<1>5. extends >= 1 => a <= x
  <2>1. extends >= 1 => a * 1 <= a * extends
    BY <1>3, ProductGrows
  <2>2. a * 1 = a
    BY <1>3
  <2> QED BY <2>1, <2>2
<1>6. PayLimit = seller.spent + x + y
  BY DEF PayLimit
<1>7. minBudgetPerRequest = a + 1
  BY AmountsOK
<1> HIDE DEF a, x, y
<1> QED BY <1>1, <1>2, <1>3, <1>4, <1>5, <1>6, <1>7

(* The limit only grows, and grows with each 402 and each close request. *)
LEMMA PayLimitGrows ==
  ASSUME BuyerInv, BuyerInv', extends \in Nat, closes \in Nat, extends' \in Nat, closes' \in Nat,
         seller'.price = seller.price, seller.spent <= seller'.spent,
         extends <= extends', closes <= closes'
  PROVE  /\ PayLimit' \in Nat /\ PayLimit <= PayLimit' /\ LargestPrice' = LargestPrice
         /\ closes' = closes + 1 => PayLimit + LargestPrice <= PayLimit'
<1> DEFINE a == minBudgetPerRequest - 1
           top == LargestPrice
           x == a * extends
           y == top * closes
           u == a * extends'
           v == top * closes'
<1>1. /\ seller \in SellerType /\ seller.spent \in Nat
      /\ seller' \in SellerType /\ seller'.spent \in Nat
  <2>1. seller \in SellerType
    BY Parts
  <2>2. seller' \in SellerType
    BY DEF BuyerInv
  <2> QED BY <2>1, <2>2 DEF SellerType
<1>2. LargestPrice' = top /\ top \in Nat
  BY <1>1, LargestPriceSame, LargestPriceOK
<1>3. a \in Nat
  BY AmountsOK
<1>4. x \in Nat /\ u \in Nat /\ x <= u
  BY <1>3, ProductGrows
<1>5. y \in Nat /\ v \in Nat /\ y <= v
  BY <1>2, ProductGrows
<1>6. PayLimit = seller.spent + x + y
  BY DEF PayLimit
<1>7. PayLimit' = seller'.spent + u + v
  BY <1>2 DEF PayLimit
<1>8. closes' = closes + 1 => v = y + top
  <2>1. top * (closes + 1) = top * closes + top
    BY <1>2
  <2> QED BY <2>1
<1> HIDE DEF a, x, y, u, v, top
<1> QED BY <1>1, <1>2, <1>4, <1>5, <1>6, <1>7, <1>8 DEF top

LEMMA OwedQueue ==
  ASSUME NEW F, NEW q \in Seq(F)
  PROVE  /\ q # <<>> => Head(q) \in F /\ Tail(q) \in Seq(F)
         /\ \A f \in F : Append(q, f) \in Seq(F)
         /\ \A G : F \subseteq G => q \in Seq(G)
<1>1. /\ q # <<>> => Head(q) \in F /\ Tail(q) \in Seq(F)
      /\ \A f \in F : Append(q, f) \in Seq(F)
  OBVIOUS
<1>2. ASSUME NEW G, F \subseteq G PROVE q \in Seq(G)
  <2>1. Len(q) \in Nat /\ q = [i \in 1..Len(q) |-> q[i]] /\ \A i \in 1..Len(q) : q[i] \in F
    OBVIOUS
  <2>2. \A i \in 1..Len(q) : q[i] \in G
    BY <1>2, <2>1
  <2> QED BY <2>1, <2>2
<1> QED BY <1>1, <1>2

LEMMA CallOwedGrows ==
  ASSUME NEW c \in CallType, NEW spent \in Nat, NEW limit \in Nat, NEW top,
         NEW spent2 \in Nat, NEW limit2 \in Nat, spent <= spent2, limit <= limit2,
         CallOwed(c, spent, limit, top)
  PROVE  CallOwed(c, spent2, limit2, top)
<1>1. CASE c.phase = "waiting"
  <2>1. c.required \in Nat /\ c.current \in Nat /\ c.session.authMax \in Nat
    BY <1>1, PhaseTells DEF WaitingType, Rows
  <2> QED BY <1>1, <2>1 DEF CallOwed
<1>2. CASE c.phase \in {"signing", "committed"}
  <2>1. c.amount \in Nat /\ c.session.authMax \in Nat
    BY <1>2, PhaseTells DEF SigningType, Rows
  <2> QED BY <1>2, <2>1 DEF CallOwed
<1>3. CASE c.phase = "toppingUp"
  <2>1. c.session.authMax \in Nat
    BY <1>3, PhaseTells DEF ToppingUpType, Rows
  <2> QED BY <1>3, <2>1 DEF CallOwed
<1>4. CASE c.phase \in {"closing", "resending"}
  <2>1. c.amount \in Nat /\ c.session.authMax \in Nat
    BY <1>4, PhaseTells DEF ClosingType, ResendingType, Rows
  <2> QED BY <1>4, <2>1 DEF CallOwed
<1>5. CASE c.phase \in {"recovering", "recovered"}
  <2>1. c.target \in Nat
    BY <1>5, PhaseTells DEF RecoveredType
  <2> QED BY <1>5, <2>1 DEF CallOwed
<1>6. CASE c.phase \notin {"waiting", "signing", "committed", "toppingUp", "closing", "resending",
                           "recovering", "recovered"}
  BY <1>6 DEF CallOwed
<1> QED BY <1>1, <1>2, <1>3, <1>4, <1>5, <1>6

(* A handler between two awaits that hold no amount. *)
LEMMA OwesNothing ==
  ASSUME NEW c, NEW spent, NEW limit, NEW top,
         c.phase \notin {"waiting", "signing", "committed", "toppingUp", "closing", "resending",
                         "recovering", "recovered"}
  PROVE  CallOwed(c, spent, limit, top)
BY DEF CallOwed

(* The parts of the invariant, with the types of what they compare. *)
LEMMA OweParts ==
  ASSUME BuyerInv, OweInv
  PROVE  /\ extends \in Nat /\ closes \in Nat /\ restarts \in Nat
         /\ PayLimit \in Nat /\ LargestPrice \in Nat /\ seller.spent \in Nat
         /\ seller.spent <= PayLimit
         /\ extends >= 1 => seller.spent + minBudgetPerRequest - 1 <= PayLimit
         /\ seller.accepted \in Nat /\ row.authMax \in Nat /\ mem.cumulativeAmount \in Nat
         /\ seller.accepted <= PayLimit /\ row.authMax <= PayLimit
         /\ mem.cumulativeAmount <= PayLimit
         /\ \A r \in Requests : mem.unpaid[r] \in Int /\ mem.unpaid[r] <= LargestPrice
         /\ needAuths \in Seq(FrameOwed(seller.spent, LargestPrice))
         /\ \A id \in Calls : CallOwed(call[id], seller.spent, PayLimit, LargestPrice)
         /\ call["extend"] # Idle => extends >= 1
<1>1. extends \in Nat /\ closes \in Nat /\ restarts \in Nat
  BY DEF OweInv
<1>2. row \in Rows /\ mem \in MemType /\ seller \in SellerType
  BY Parts
<1>3. /\ seller.accepted \in Nat /\ row.authMax \in Nat /\ mem.cumulativeAmount \in Nat
      /\ \A r \in Requests : mem.unpaid[r] \in Int
  BY <1>2 DEF Rows, MemType, SellerType, NotCounted
<1>4. /\ PayLimit \in Nat /\ LargestPrice \in Nat /\ seller.spent \in Nat
      /\ seller.spent <= PayLimit
      /\ extends >= 1 => seller.spent + minBudgetPerRequest - 1 <= PayLimit
  BY <1>1, PayLimitType
<1> QED BY <1>1, <1>3, <1>4 DEF OweInv

(* A step of one handler, while the limit does not shrink. *)
LEMMA OweStep ==
  ASSUME BuyerInv, BuyerInv', OweInv, extends' \in Nat, closes' \in Nat, restarts' \in Nat,
         seller'.price = seller.price, seller.spent <= seller'.spent,
         extends <= extends', closes <= closes',
         seller'.accepted <= PayLimit', row'.authMax <= PayLimit',
         mem'.cumulativeAmount <= PayLimit',
         \A r \in Requests : mem'.unpaid[r] <= LargestPrice,
         needAuths' \in Seq(FrameOwed(seller'.spent, LargestPrice)),
         NEW id \in Calls, NEW c, call' = [call EXCEPT ![id] = c],
         CallOwed(c, seller'.spent, PayLimit', LargestPrice),
         id = "extend" /\ c # Idle => extends' >= 1
  PROVE  OweInv'
<1>1. /\ PayLimit' \in Nat /\ PayLimit <= PayLimit' /\ LargestPrice' = LargestPrice
  BY OweParts, PayLimitGrows
<1>2. /\ PayLimit \in Nat /\ seller.spent \in Nat /\ extends \in Nat
      /\ call["extend"] # Idle => extends >= 1
      /\ \A x \in Calls : CallOwed(call[x], seller.spent, PayLimit, LargestPrice)
  BY OweParts
<1>3. call \in [Calls -> CallType]
  BY Parts
<1>4. seller'.spent \in Nat
  <2>1. seller' \in SellerType
    BY DEF BuyerInv
  <2> QED BY <2>1 DEF SellerType
<1>5. ASSUME NEW x \in Calls PROVE CallOwed(call'[x], seller'.spent, PayLimit', LargestPrice)
  <2>1. CASE x = id
    BY <1>3, <2>1
  <2>2. CASE x # id
    <3>1. call'[x] = call[x] /\ call[x] \in CallType
      BY <1>3, <2>2
    <3>2. CallOwed(call[x], seller'.spent, PayLimit', LargestPrice)
      BY <1>1, <1>2, <1>4, <3>1, CallOwedGrows
    <3> QED BY <3>1, <3>2
  <2> QED BY <2>1, <2>2
<1>6. call'["extend"] # Idle => extends' >= 1
  <2>1. CASE id = "extend"
    BY <1>3, <2>1
  <2>2. CASE id # "extend"
    <3>1. call'["extend"] = call["extend"]
      BY <1>3, <2>2, EndpointCalls
    <3> QED BY <1>2, <3>1
  <2> QED BY <2>1, <2>2
<1> HIDE DEF OweInv
<1> QED BY <1>1, <1>5, <1>6 DEF OweInv

(* A step of one handler that leaves the limit alone. *)
LEMMA SteadyStep ==
  ASSUME BuyerInv, BuyerInv', OweInv, UNCHANGED <<extends, closes>>, restarts' \in Nat,
         seller'.price = seller.price, seller'.spent = seller.spent,
         seller'.accepted <= PayLimit, row'.authMax <= PayLimit,
         mem'.cumulativeAmount <= PayLimit,
         \A r \in Requests : mem'.unpaid[r] <= LargestPrice,
         needAuths' \in Seq(FrameOwed(seller.spent, LargestPrice)),
         NEW id \in Calls, NEW c, call' = [call EXCEPT ![id] = c],
         CallOwed(c, seller.spent, PayLimit, LargestPrice),
         id = "extend" /\ c # Idle => call["extend"] # Idle
  PROVE  OweInv'
<1>1. /\ extends \in Nat /\ closes \in Nat /\ seller.spent \in Nat
      /\ call["extend"] # Idle => extends >= 1
  BY OweParts
<1>2. LargestPrice' = LargestPrice
  <2>1. seller \in SellerType /\ seller' \in SellerType
    BY Parts DEF BuyerInv
  <2> QED BY <2>1, LargestPriceSame
<1>3. PayLimit' = PayLimit
  BY <1>2 DEF PayLimit
<1>4. /\ extends' \in Nat /\ closes' \in Nat /\ extends <= extends' /\ closes <= closes'
      /\ seller.spent <= seller'.spent
      /\ id = "extend" /\ c # Idle => extends' >= 1
  BY <1>1
<1>5. CallOwed(c, seller'.spent, PayLimit', LargestPrice)
  BY <1>3
<1> QED BY <1>3, <1>4, <1>5, OweStep

(* A step of no handler that leaves the limit alone. *)
LEMMA SteadyIdle ==
  ASSUME BuyerInv, BuyerInv', OweInv, UNCHANGED <<extends, closes, restarts, call>>,
         seller'.price = seller.price, seller'.spent = seller.spent,
         seller'.accepted <= PayLimit, row'.authMax <= PayLimit,
         mem'.cumulativeAmount <= PayLimit,
         \A r \in Requests : mem'.unpaid[r] <= LargestPrice,
         needAuths' \in Seq(FrameOwed(seller.spent, LargestPrice))
  PROVE  OweInv'
<1> DEFINE c == call["close"]
<1>1. call \in [Calls -> CallType]
  BY Parts
<1>2. call' = [call EXCEPT !["close"] = c]
  BY <1>1
<1>3. CallOwed(c, seller.spent, PayLimit, LargestPrice) /\ restarts' \in Nat
  BY OweParts, EndpointCalls
<1> HIDE DEF c
<1> QED BY <1>2, <1>3, EndpointCalls, SteadyStep

LEMMA AfterwardsOwed ==
  ASSUME NEW id, NEW before, NEW spent, NEW limit, NEW top
  PROVE  CallOwed(afterwards(id, before), spent, limit, top)
<1>1. afterwards(id, before).phase \in {"signed", "extended", "idle"}
  BY DEF afterwards, Idle
<1> QED BY <1>1, OwesNothing

LEMMA TopUpOrEndOwed ==
  ASSUME NEW id, NEW wanted, NEW before, NEW m, NEW spent, NEW limit, NEW top,
         row.authMax <= limit
  PROVE  CallOwed(topUpOrEnd(id, wanted, before, m), spent, limit, top)
<1> DEFINE c == [phase |-> "toppingUp", session |-> row, prevCeiling |-> m.reserveCeiling,
                 before |-> before]
<1>1. CallOwed(c, spent, limit, top)
  BY DEF CallOwed
<1>2. \/ topUpOrEnd(id, wanted, before, m) = c
      \/ topUpOrEnd(id, wanted, before, m) = afterwards(id, before)
  BY DEF topUpOrEnd
<1> HIDE DEF c
<1> QED BY <1>1, <1>2, AfterwardsOwed

LEMMA SigningOwed ==
  ASSUME NEW session, NEW amount, NEW current, NEW verified, NEW counted, NEW unpaid,
         NEW topUp, NEW spent, NEW limit, NEW top,
         amount <= limit, session.authMax <= limit, unpaid <= top
  PROVE  CallOwed(signing(session, amount, current, verified, counted, unpaid, topUp),
                  spent, limit, top)
BY DEF CallOwed, signing

(* The evaluation of a NeedAuth signs for no more than it asks for, or     *)
(* what was signed when it came in.                                        *)
LEMMA EvaluateOwed ==
  ASSUME BuyerInv, OweInv, NEW id, NEW required \in Nat, NEW cost \in Nat, NEW current \in Nat,
         NEW session, required <= seller.spent, cost <= LargestPrice, current <= PayLimit,
         session.authMax <= PayLimit
  PROVE  CallOwed(evaluateNeedAuth(id, required, cost, current, session),
                  seller.spent, PayLimit, LargestPrice)
<1> DEFINE nextVerified == mem.verifiedCost + cost
           first == maxSignableForVerified(nextVerified)
           collapsed == first <= current /\ ~needsCeilingAdvance(required, first)
           verified == IF collapsed THEN reopened(current, nextVerified) ELSE nextVerified
           maxSignable == maxSignableForVerified(verified)
           advance == needsCeilingAdvance(required, maxSignable)
           effective == IF advance THEN Greatest(maxSignable, current)
                                   ELSE Least(required, maxSignable)
           counted == id \in Requests /\ mem.unpaid[id] # NotCounted
           unpaid == cost - Least(cost, effective - current)
           limit == PayLimit
           top == LargestPrice
           spent == seller.spent
<1>1. /\ limit \in Nat /\ top \in Nat /\ spent \in Nat /\ spent <= limit
      /\ row.authMax <= limit
  BY OweParts
<1>2. mem \in MemType /\ mem.verifiedCost \in Nat
  BY Parts DEF MemType
<1>3. evaluateNeedAuth(id, required, cost, current, session)
        = IF effective > current
          THEN signing(session, effective, current, verified, counted, unpaid, advance)
          ELSE topUpOrEnd(id, advance, current, mem)
  BY DEF evaluateNeedAuth
<1>4. nextVerified \in Nat
  BY <1>2
<1> HIDE DEF nextVerified
<1>5. verified \in Nat
  BY <1>4, ReopenedType
<1> HIDE DEF verified
<1>6. maxSignable \in Nat
  BY <1>2, <1>5, SignableBound
<1> HIDE DEF maxSignable
<1>7. advance => maxSignable <= required
  BY <1>6 DEF needsCeilingAdvance
<1> HIDE DEF advance, limit, top, spent
<1>8. effective \in Nat /\ effective <= limit
  <2>1. required <= limit /\ current <= limit
    BY <1>1 DEF limit, spent
  <2> QED BY <1>1, <1>6, <1>7, <2>1 DEF Greatest, Least
<1> HIDE DEF effective
<1>9. effective > current => unpaid <= top
  BY <1>1, <1>8 DEF Least, top
<1> HIDE DEF unpaid, counted
<1>10. CASE effective > current
  <2> DEFINE c == signing(session, effective, current, verified, counted, unpaid, advance)
  <2>1. CallOwed(c, spent, limit, top)
    BY <1>8, <1>9, <1>10, SigningOwed DEF limit
  <2> QED BY <1>3, <1>10, <2>1 DEF limit, top, spent
<1>11. CASE ~(effective > current)
  <2>1. CallOwed(topUpOrEnd(id, advance, current, mem), spent, limit, top)
    BY <1>1, TopUpOrEndOwed
  <2> QED BY <1>3, <1>11, <2>1 DEF limit, top, spent
<1> QED BY <1>10, <1>11

LEMMA ResponseCalls ==
  ASSUME NEW id \in Requests \cup {None}
  PROVE  id \in Calls /\ id # "extend" /\ id # "close"
BY BuyerAssumption DEF Calls

LEMMA HandleNeedAuthOwed ==
  ASSUME BuyerInv, BuyerInv', OweInv, handleNeedAuth
  PROVE  OweInv'
<1> DEFINE frame == Head(needAuths)
           id == frame.request
           waiting == [phase |-> "waiting", required |-> frame.required, cost |-> frame.cost,
                       current |-> mem.cumulativeAmount, session |-> row]
           evaluated == evaluateNeedAuth(id, frame.required, frame.cost,
                                         mem.cumulativeAmount, row)
           frames == FrameOwed(seller.spent, LargestPrice)
<1>1. /\ needAuths' = Tail(needAuths) /\ needAuths # <<>>
      /\ UNCHANGED <<row, mem, seller, extends, closes, restarts>>
      /\ \/ UNCHANGED call
         \/ call' = [call EXCEPT ![id] = waiting]
         \/ call' = [call EXCEPT ![id] = evaluated]
  BY DEF handleNeedAuth
<1>2. /\ needAuths \in Seq(frames) /\ restarts \in Nat
      /\ seller.accepted <= PayLimit /\ row.authMax <= PayLimit
      /\ mem.cumulativeAmount <= PayLimit /\ mem.cumulativeAmount \in Nat
      /\ \A r \in Requests : mem.unpaid[r] <= LargestPrice
  BY OweParts
<1>3. frame \in frames /\ needAuths' \in Seq(frames)
  BY <1>1, <1>2, OwedQueue
<1> HIDE DEF frame
<1>4. /\ frame \in FrameType /\ frame.required <= seller.spent /\ frame.cost <= LargestPrice
  BY <1>3 DEF FrameOwed
<1>5. frame.required \in Nat /\ frame.cost \in Nat /\ id \in Requests \cup {None}
  BY <1>4 DEF FrameType
<1>6. id \in Calls /\ id # "extend"
  BY <1>5, ResponseCalls
<1>7. CallOwed(waiting, seller.spent, PayLimit, LargestPrice)
  BY <1>2, <1>4 DEF CallOwed
<1>8. CallOwed(evaluated, seller.spent, PayLimit, LargestPrice)
  BY <1>2, <1>4, <1>5, EvaluateOwed
<1>9. restarts' \in Nat
  BY <1>1, <1>2
<1> HIDE DEF id, waiting, evaluated, frames
<1>10. CASE UNCHANGED call
  BY <1>1, <1>2, <1>3, <1>10, SteadyIdle DEF frames
<1>11. CASE call' = [call EXCEPT ![id] = waiting]
  BY <1>1, <1>2, <1>3, <1>6, <1>7, <1>9, <1>11, SteadyStep DEF frames
<1>12. CASE call' = [call EXCEPT ![id] = evaluated]
  BY <1>1, <1>2, <1>3, <1>6, <1>8, <1>9, <1>12, SteadyStep DEF frames
<1> QED BY <1>1, <1>10, <1>11, <1>12

(* What a step of one running handler leaves of the maps and the seller. *)
LEMMA HandlerOwed ==
  ASSUME BuyerInv, BuyerInv', OweInv, UNCHANGED <<mem, seller, extends, closes, restarts, needAuths>>,
         NEW id \in Calls, NEW c, call' = [call EXCEPT ![id] = c],
         row'.authMax <= PayLimit, call[id] # Idle \/ c = Idle \/ id # "extend",
         CallOwed(c, seller.spent, PayLimit, LargestPrice)
  PROVE  OweInv'
<1>1. /\ restarts' \in Nat /\ seller'.price = seller.price /\ seller'.spent = seller.spent
      /\ seller'.accepted <= PayLimit /\ mem'.cumulativeAmount <= PayLimit
      /\ \A r \in Requests : mem'.unpaid[r] <= LargestPrice
      /\ needAuths' \in Seq(FrameOwed(seller.spent, LargestPrice))
  BY OweParts
<1> QED BY <1>1, SteadyStep

LEMMA ResumeNeedAuthOwed ==
  ASSUME BuyerInv, BuyerInv', OweInv, NEW id \in Calls, resumeNeedAuth(id)
  PROVE  OweInv'
<1> DEFINE c == call[id]
           evaluated == evaluateNeedAuth(id, c.required, c.cost, c.current, c.session)
<1>1. /\ c.phase = "waiting"
      /\ call' = [call EXCEPT ![id] = evaluated] \/ call' = [call EXCEPT ![id] = Idle]
      /\ UNCHANGED <<row, mem, seller, extends, closes, restarts, needAuths>>
  BY DEF resumeNeedAuth
<1>2. c \in CallType /\ CallOwed(c, seller.spent, PayLimit, LargestPrice)
  BY Parts, OweParts
<1>3. c # Idle
  BY <1>1 DEF Idle
<1>4. row'.authMax <= PayLimit
  BY <1>1, OweParts
<1>5. /\ c.required \in Nat /\ c.cost \in Nat /\ c.current \in Nat
      /\ c.required <= seller.spent /\ c.cost <= LargestPrice /\ c.current <= PayLimit
      /\ c.session.authMax <= PayLimit
  <2> HIDE DEF c
  <2>1. c \in WaitingType
    BY <1>1, <1>2, PhaseTells
  <2> QED BY <1>1, <1>2, <2>1 DEF WaitingType, CallOwed
<1>6. CallOwed(evaluated, seller.spent, PayLimit, LargestPrice)
  BY <1>5, EvaluateOwed
<1>7. CallOwed(Idle, seller.spent, PayLimit, LargestPrice)
  BY OwesNothing DEF Idle
<1> HIDE DEF evaluated
<1>8. CASE call' = [call EXCEPT ![id] = evaluated]
  BY <1>1, <1>3, <1>4, <1>6, <1>8, HandlerOwed
<1>9. CASE call' = [call EXCEPT ![id] = Idle]
  BY <1>1, <1>3, <1>4, <1>7, <1>9, HandlerOwed
<1> QED BY <1>1, <1>8, <1>9

LEMMA CommitOwed ==
  ASSUME BuyerInv, BuyerInv', OweInv, NEW id \in Calls, commitAuthorization(id)
  PROVE  OweInv'
<1> DEFINE c == call[id]
           d == [c EXCEPT !.phase = "committed"]
<1>1. /\ c.phase = "signing" /\ row' = [c.session EXCEPT !.authMax = c.amount]
      /\ call' = [call EXCEPT ![id] = d]
      /\ UNCHANGED <<mem, seller, extends, closes, restarts, needAuths>>
  BY DEF commitAuthorization
<1>2. c \in CallType /\ CallOwed(c, seller.spent, PayLimit, LargestPrice)
  BY Parts, OweParts
<1>3. c # Idle
  BY <1>1 DEF Idle
<1>4. row'.authMax <= PayLimit /\ CallOwed(d, seller.spent, PayLimit, LargestPrice)
  <2> HIDE DEF c
  <2>1. c \in SigningType
    BY <1>1, <1>2, PhaseTells
  <2> QED BY <1>1, <1>2, <2>1 DEF SigningType, Rows, CallOwed
<1> HIDE DEF d
<1> QED BY <1>1, <1>3, <1>4, HandlerOwed

(* The seller that was sent an authorization. *)
LEMMA SendOwed ==
  ASSUME BuyerInv, OweInv, NEW amount \in Nat, amount <= PayLimit, send(amount)
  PROVE  /\ seller'.price = seller.price /\ seller'.spent = seller.spent
         /\ seller'.accepted <= PayLimit
         /\ seller'.accepted >= seller.accepted /\ seller'.accepted >= amount
         /\ seller'.open = seller.open
<1>1. seller \in SellerType /\ seller.accepted \in Nat /\ seller.accepted <= PayLimit
  BY Parts, OweParts
<1>2. seller' = [seller EXCEPT !.accepted = Greatest(seller.accepted, amount)]
  BY DEF send
<1>3. /\ Greatest(seller.accepted, amount) <= PayLimit
      /\ Greatest(seller.accepted, amount) >= seller.accepted
      /\ Greatest(seller.accepted, amount) >= amount
  BY <1>1 DEF Greatest
<1> QED BY <1>1, <1>2, <1>3 DEF SellerType

LEMMA FinishNeedAuthOwed ==
  ASSUME BuyerInv, BuyerInv', OweInv, NEW id \in Calls, finishNeedAuth(id)
  PROVE  OweInv'
<1> DEFINE c == call[id]
           m == [mem EXCEPT !.cumulativeAmount = c.amount, !.verifiedCost = c.verifiedCost,
                            !.unpaid = marked(id, c)]
           wanted == c.topUp \/ (id # "extend" /\ needsTopUp(c.amount))
           next == topUpOrEnd(id, wanted, c.before, m)
<1>1. /\ c.phase = "committed" /\ mem' = m /\ send(c.amount)
      /\ call' = [call EXCEPT ![id] = next]
      /\ UNCHANGED <<row, needAuths, extends, closes, restarts>>
  BY DEF finishNeedAuth
<1>2. /\ c \in CallType /\ CallOwed(c, seller.spent, PayLimit, LargestPrice)
      /\ mem \in MemType /\ row.authMax <= PayLimit /\ restarts \in Nat
      /\ needAuths \in Seq(FrameOwed(seller.spent, LargestPrice))
      /\ \A r \in Requests : mem.unpaid[r] <= LargestPrice
  BY Parts, OweParts
<1>3. c # Idle
  BY <1>1 DEF Idle
<1>4. c.amount \in Nat /\ c.amount <= PayLimit /\ c.unpaid \in Nat /\ c.unpaid <= LargestPrice
  <2> HIDE DEF c
  <2>1. c \in SigningType
    BY <1>1, <1>2, PhaseTells
  <2> QED BY <1>1, <1>2, <2>1 DEF SigningType, CallOwed
<1>5. /\ mem'.cumulativeAmount = c.amount /\ mem'.unpaid = marked(id, c)
  <2> HIDE DEF c
  <2> QED BY <1>1, <1>2 DEF MemType
<1>6. \A r \in Requests : mem'.unpaid[r] <= LargestPrice
  <2>1. mem.unpaid \in [Requests -> Nat \cup {NotCounted}]
    BY <1>2 DEF MemType
  <2> HIDE DEF c
  <2> QED BY <1>2, <1>4, <1>5, <2>1 DEF marked
<1>7. CallOwed(next, seller.spent, PayLimit, LargestPrice)
  BY <1>2, TopUpOrEndOwed
<1>8. /\ seller'.price = seller.price /\ seller'.spent = seller.spent
      /\ seller'.accepted <= PayLimit
  BY <1>1, <1>4, SendOwed
<1>9. /\ restarts' \in Nat /\ row'.authMax <= PayLimit
      /\ needAuths' \in Seq(FrameOwed(seller.spent, LargestPrice))
  BY <1>1, <1>2
<1>10. mem'.cumulativeAmount <= PayLimit
  BY <1>4, <1>5
<1> HIDE DEF next, m
<1> QED BY <1>1, <1>3, <1>6, <1>7, <1>8, <1>9, <1>10, SteadyStep

LEMMA TopUpReserveOwed ==
  ASSUME BuyerInv, BuyerInv', OweInv, NEW id \in Calls, topUpReserve(id)
  PROVE  OweInv'
<1> DEFINE c == call[id]
           ceiling == c.prevCeiling + maxReserveAmountUsdc
           after == IF id = "close" THEN Idle ELSE afterwards(id, c.before)
           reserving == [phase |-> "reserving", prevCeiling |-> c.prevCeiling,
                         ceiling |-> ceiling, before |-> c.before]
<1>1. /\ c.phase = "toppingUp"
      /\ \/ call' = [call EXCEPT ![id] = after] /\ UNCHANGED row
         \/ /\ call' = [call EXCEPT ![id] = reserving]
            /\ row' = [c.session EXCEPT !.reserveMaxAmount = ceiling, !.reserveAuthPending = TRUE,
                                        !.confirmedReserveAmount = c.prevCeiling]
      /\ UNCHANGED <<mem, seller, extends, closes, restarts, needAuths>>
  BY DEF topUpReserve
<1>2. /\ c \in CallType /\ CallOwed(c, seller.spent, PayLimit, LargestPrice)
      /\ row.authMax <= PayLimit
  BY Parts, OweParts
<1>3. c # Idle
  BY <1>1 DEF Idle
<1>4. row'.authMax <= PayLimit
  <2> HIDE DEF c
  <2>1. c \in ToppingUpType
    BY <1>1, <1>2, PhaseTells
  <2>2. c.session \in Rows /\ c.session.authMax <= PayLimit
    BY <1>1, <1>2, <2>1 DEF ToppingUpType, CallOwed
  <2> HIDE DEF ceiling
  <2> QED BY <1>1, <1>2, <2>2 DEF Rows
<1>5. CallOwed(after, seller.spent, PayLimit, LargestPrice)
  <2>1. CallOwed(Idle, seller.spent, PayLimit, LargestPrice)
    BY OwesNothing DEF Idle
  <2> QED BY <2>1, AfterwardsOwed
<1>6. CallOwed(reserving, seller.spent, PayLimit, LargestPrice)
  BY OwesNothing
<1> HIDE DEF after, reserving
<1> QED BY <1>1, <1>3, <1>4, <1>5, <1>6, HandlerOwed

LEMMA SendReserveAuthOwed ==
  ASSUME BuyerInv, BuyerInv', OweInv, NEW id \in Calls, sendReserveAuth(id)
  PROVE  OweInv'
<1> DEFINE c == call[id]
           after == afterwards(id, c.before)
           limit == Greatest(seller.signedReserve, c.ceiling)
           reserve == [maxAmount |-> c.ceiling, confirmedAmount |-> c.prevCeiling]
<1>1. /\ c.phase = "reserving"
      /\ mem' = [mem EXCEPT !.reserveCeiling = c.ceiling, !.pendingReserveAuth = reserve]
      /\ seller' = [seller EXCEPT !.signedReserve = limit]
      /\ call' = [call EXCEPT ![id] = after]
      /\ UNCHANGED <<row, needAuths, extends, closes, restarts>>
  BY DEF sendReserveAuth
<1>2. mem \in MemType /\ seller \in SellerType
  BY Parts
<1>3. c # Idle
  BY <1>1 DEF Idle
<1> HIDE DEF c, limit, reserve
<1>4. /\ mem'.cumulativeAmount = mem.cumulativeAmount /\ mem'.unpaid = mem.unpaid
      /\ seller'.price = seller.price /\ seller'.spent = seller.spent
      /\ seller'.accepted = seller.accepted
  BY <1>1, <1>2 DEF MemType, SellerType
<1>5. CallOwed(after, seller.spent, PayLimit, LargestPrice)
  BY AfterwardsOwed
<1>6. /\ restarts' \in Nat /\ row'.authMax <= PayLimit /\ seller'.accepted <= PayLimit
      /\ mem'.cumulativeAmount <= PayLimit
      /\ \A r \in Requests : mem'.unpaid[r] <= LargestPrice
      /\ needAuths' \in Seq(FrameOwed(seller.spent, LargestPrice))
  BY <1>1, <1>4, OweParts
<1> HIDE DEF after
<1> QED BY <1>1, <1>3, <1>4, <1>5, <1>6, SteadyStep DEF c

LEMMA HandleAuthAckOwed ==
  ASSUME BuyerInv, BuyerInv', OweInv, handleAuthAck
  PROVE  OweInv'
<1> DEFINE max == mem.pendingReserveAuth.maxAmount
<1>1. /\ mem' = [mem EXCEPT !.reserveCeiling = max, !.pendingReserveAuth = NoReserve]
      /\ row' = [row EXCEPT !.reserveAuthPending = FALSE, !.confirmedReserveAmount = max]
      /\ UNCHANGED <<call, needAuths, seller, extends, closes, restarts>>
  BY DEF handleAuthAck
<1>2. mem \in MemType /\ row \in Rows
  BY Parts
<1> HIDE DEF max
<1>3. /\ mem'.cumulativeAmount = mem.cumulativeAmount /\ mem'.unpaid = mem.unpaid
      /\ row'.authMax = row.authMax
  BY <1>1, <1>2 DEF MemType, Rows
<1>4. /\ row'.authMax <= PayLimit /\ seller'.accepted <= PayLimit
      /\ mem'.cumulativeAmount <= PayLimit
      /\ \A r \in Requests : mem'.unpaid[r] <= LargestPrice
      /\ needAuths' \in Seq(FrameOwed(seller.spent, LargestPrice))
  BY <1>1, <1>3, OweParts
<1> QED BY <1>1, <1>4, SteadyIdle

(* Retiring a session raises no amount. *)
LEMMA RetiredOwed ==
  ASSUME NEW r \in Rows, NEW m \in MemType
  PROVE  /\ retired(r).authMax = r.authMax /\ cleanedUp(m).cumulativeAmount = 0
         /\ cleanedUp(m).unpaid = m.unpaid
         /\ cleanedUp(m).reserveCeiling = maxReserveAmountUsdc
         /\ cleanedUp(m).pendingReserveAuth = NoReserve
BY DEF retired, cleanedUp, Rows, MemType

LEMMA EndRecoveryOwed ==
  ASSUME BuyerInv, BuyerInv', OweInv, endRecovery
  PROVE  OweInv'
<1>1. /\ call' = [call EXCEPT !["extend"] = Idle]
      /\ UNCHANGED <<row, mem>> \/ (row' = retired(row) /\ mem' = cleanedUp(mem))
      /\ UNCHANGED <<needAuths, seller, extends, closes, restarts>>
  BY DEF endRecovery
<1>2. mem \in MemType /\ row \in Rows
  BY Parts
<1>3. /\ mem'.cumulativeAmount \in {0, mem.cumulativeAmount} /\ mem'.unpaid = mem.unpaid
      /\ row'.authMax = row.authMax
  BY <1>1, <1>2, RetiredOwed
<1>4. /\ row'.authMax <= PayLimit /\ seller'.accepted <= PayLimit
      /\ mem'.cumulativeAmount <= PayLimit /\ restarts' \in Nat
      /\ \A r \in Requests : mem'.unpaid[r] <= LargestPrice
      /\ needAuths' \in Seq(FrameOwed(seller.spent, LargestPrice))
  BY <1>1, <1>3, OweParts
<1>5. CallOwed(Idle, seller.spent, PayLimit, LargestPrice)
  BY OwesNothing DEF Idle
<1> QED BY <1>1, <1>4, <1>5, EndpointCalls, SteadyStep

LEMMA RestartOwed ==
  ASSUME BuyerInv, BuyerInv', OweInv, NEW keepsReserve \in BOOLEAN, restart(keepsReserve)
  PROVE  OweInv'
<1>1. /\ mem'.cumulativeAmount = row.authMax /\ mem'.unpaid = [r \in Requests |-> NotCounted]
      /\ call' = [id \in Calls |-> Idle] /\ needAuths' = <<>> /\ restarts' = restarts + 1
      /\ UNCHANGED <<row, seller, extends, closes>>
  BY DEF restart
<1>2. /\ restarts \in Nat /\ extends \in Nat /\ closes \in Nat /\ LargestPrice \in Nat
      /\ row.authMax <= PayLimit /\ seller.accepted <= PayLimit
  BY OweParts
<1>3. LargestPrice' = LargestPrice /\ PayLimit' = PayLimit
  <2>1. LargestPrice' = LargestPrice
    BY <1>1 DEF LargestPrice
  <2> QED BY <1>1, <2>1 DEF PayLimit
<1>4. \A r \in Requests : mem'.unpaid[r] <= LargestPrice
  BY <1>1, <1>2 DEF NotCounted
<1>5. CallOwed(Idle, seller.spent, PayLimit, LargestPrice)
  BY OwesNothing DEF Idle
<1>6. needAuths' \in Seq(FrameOwed(seller.spent, LargestPrice))
  BY <1>1
<1>7. call'["extend"] = Idle
  BY <1>1, EndpointCalls
<1> QED BY <1>1, <1>2, <1>3, <1>4, <1>5, <1>6, <1>7 DEF OweInv

(* What the seller asks for again, for no request. *)
LEMMA AskedAgain ==
  ASSUME BuyerInv, OweInv
  PROVE  needAuth(None, seller.spent, 0) \in FrameOwed(seller.spent, LargestPrice)
<1>1. seller.spent \in Nat /\ LargestPrice \in Nat
  BY OweParts
<1>2. needAuth(None, seller.spent, 0) \in FrameType
  BY <1>1, NeedAuthType
<1> QED BY <1>1, <1>2 DEF FrameOwed, needAuth

LEMMA Handle402Owed ==
  ASSUME BuyerInv, BuyerInv', OweInv, handle402
  PROVE  OweInv'
<1> DEFINE recovering == [phase |-> "recovering", target |-> seller.spent]
           frames == FrameOwed(seller.spent, LargestPrice)
<1>1. /\ extends' = extends + 1 /\ UNCHANGED <<closes, restarts, seller>>
      /\ \/ /\ row' = retired(row) /\ mem' = cleanedUp(mem) /\ UNCHANGED <<call, needAuths>>
         \/ /\ UNCHANGED <<row, mem>> /\ call' = [call EXCEPT !["extend"] = recovering]
            /\ needAuths' = Append(needAuths, needAuth(None, seller.spent, 0))
  BY DEF handle402
<1>2. /\ extends \in Nat /\ closes \in Nat /\ restarts \in Nat /\ seller.spent \in Nat
      /\ PayLimit \in Nat /\ LargestPrice \in Nat /\ seller.accepted \in Nat
      /\ row.authMax \in Nat /\ mem.cumulativeAmount \in Nat
      /\ seller.accepted <= PayLimit /\ row.authMax <= PayLimit
      /\ mem.cumulativeAmount <= PayLimit /\ needAuths \in Seq(frames)
      /\ \A r \in Requests : mem.unpaid[r] <= LargestPrice
  BY OweParts
<1>3. /\ seller'.price = seller.price /\ seller'.spent = seller.spent
      /\ seller'.accepted = seller.accepted /\ row'.authMax = row.authMax
      /\ mem'.unpaid = mem.unpaid /\ mem'.cumulativeAmount \in {0, mem.cumulativeAmount}
  <2>1. mem \in MemType /\ row \in Rows
    BY Parts
  <2> QED BY <1>1, <2>1, RetiredOwed
<1>4. /\ extends' \in Nat /\ closes' \in Nat /\ restarts' \in Nat /\ extends <= extends'
      /\ closes <= closes' /\ seller.spent <= seller'.spent /\ extends' >= 1
  BY <1>1, <1>2, <1>3
<1>5. PayLimit' \in Nat /\ PayLimit <= PayLimit'
  BY <1>2, <1>3, <1>4, PayLimitGrows
<1>6. /\ seller'.accepted <= PayLimit' /\ row'.authMax <= PayLimit'
      /\ mem'.cumulativeAmount <= PayLimit' /\ \A r \in Requests : mem'.unpaid[r] <= LargestPrice
  BY <1>2, <1>3, <1>5
<1>7. needAuths' \in Seq(frames)
  <2> DEFINE f == needAuth(None, seller.spent, 0)
  <2>1. f \in frames
    BY AskedAgain
  <2>2. UNCHANGED needAuths \/ needAuths' = Append(needAuths, f)
    BY <1>1
  <2> HIDE DEF f, frames
  <2> QED BY <1>2, <2>1, <2>2, OwedQueue
<1>8. needAuths' \in Seq(FrameOwed(seller'.spent, LargestPrice))
  BY <1>3, <1>7
<1>9. CASE UNCHANGED call
  <2> DEFINE c == call["extend"]
  <2>1. c \in CallType /\ call' = [call EXCEPT !["extend"] = c]
    BY <1>9, Parts, EndpointCalls
  <2>2. CallOwed(c, seller.spent, PayLimit, LargestPrice)
    BY OweParts, EndpointCalls
  <2> HIDE DEF c
  <2>3. CallOwed(c, seller'.spent, PayLimit', LargestPrice)
    <3>1. seller.spent <= seller.spent
      BY <1>2
    <3>2. CallOwed(c, seller.spent, PayLimit', LargestPrice)
      BY <1>2, <1>5, <2>1, <2>2, <3>1, CallOwedGrows
    <3> QED BY <1>3, <3>2
  <2> QED BY <1>3, <1>4, <1>6, <1>8, <2>1, <2>3, EndpointCalls, OweStep
<1>10. CASE call' = [call EXCEPT !["extend"] = recovering]
  <2>1. CallOwed(recovering, seller'.spent, PayLimit', LargestPrice)
    BY <1>2, <1>3 DEF CallOwed
  <2> HIDE DEF recovering
  <2> QED BY <1>3, <1>4, <1>6, <1>8, <1>10, <2>1, EndpointCalls, OweStep
<1> QED BY <1>1, <1>9, <1>10

LEMMA ReconcileOwed ==
  ASSUME BuyerInv, BuyerInv', OweInv, reconcileReserveAmount
  PROVE  OweInv'
<1> DEFINE c == call["extend"]
           recovered == [c EXCEPT !.phase = "recovered"]
           pending == mem.pendingReserveAuth
           applied == seller.deposit >= pending.maxAmount
           reserve == IF applied THEN NoReserve ELSE pending
           ceiling == IF applied THEN seller.deposit ELSE pending.maxAmount
           confirmed == IF applied THEN seller.deposit ELSE pending.confirmedAmount
           max == IF applied THEN row.reserveMaxAmount ELSE pending.maxAmount
           limit == Greatest(seller.signedReserve, pending.maxAmount)
<1>1. /\ c.phase = "recovering"
      /\ mem' = [mem EXCEPT !.pendingReserveAuth = reserve, !.reserveCeiling = ceiling]
      /\ row' = [row EXCEPT !.reserveAuthPending = ~applied, !.confirmedReserveAmount = confirmed,
                            !.reserveMaxAmount = max]
      /\ seller' = [seller EXCEPT !.signedReserve = limit]
      /\ call' = [call EXCEPT !["extend"] = recovered]
      /\ UNCHANGED <<needAuths, extends, closes, restarts>>
  BY Zenon DEF reconcileReserveAmount
<1>2. mem \in MemType /\ row \in Rows /\ seller \in SellerType /\ c \in CallType
  BY Parts, EndpointCalls
<1>3. c # Idle
  BY <1>1 DEF Idle
<1>5. CallOwed(recovered, seller.spent, PayLimit, LargestPrice)
  <2>1. c \in RecoveredType
    BY <1>1, <1>2, PhaseTells
  <2>2. recovered.phase = "recovered" /\ recovered.target = c.target
    BY <2>1 DEF RecoveredType
  <2>3. CallOwed(c, seller.spent, PayLimit, LargestPrice)
    BY OweParts, EndpointCalls
  <2>4. recovered.target <= seller.spent
    BY <1>1, <2>2, <2>3 DEF CallOwed
  <2> QED BY <2>2, <2>4 DEF CallOwed
<1> HIDE DEF c, applied, reserve, ceiling, confirmed, max, limit
<1>4. /\ mem'.cumulativeAmount = mem.cumulativeAmount /\ mem'.unpaid = mem.unpaid
      /\ row'.authMax = row.authMax
      /\ seller'.price = seller.price /\ seller'.spent = seller.spent
      /\ seller'.accepted = seller.accepted
  BY <1>1, <1>2 DEF MemType, SellerType, Rows
<1>6. /\ restarts' \in Nat /\ row'.authMax <= PayLimit /\ seller'.accepted <= PayLimit
      /\ mem'.cumulativeAmount <= PayLimit
      /\ \A r \in Requests : mem'.unpaid[r] <= LargestPrice
      /\ needAuths' \in Seq(FrameOwed(seller.spent, LargestPrice))
  BY <1>1, <1>4, OweParts
<1> HIDE DEF recovered
<1> QED BY <1>1, <1>3, <1>4, <1>5, <1>6, EndpointCalls, SteadyStep DEF c

(* A recovery signs for less than minBudgetPerRequest above what it was    *)
(* asked for, because it signs only when less than that is signed.         *)
LEMMA ExtendOwed ==
  ASSUME BuyerInv, BuyerInv', OweInv, NEW n \in Nat, extendCurrentSpendingAuth(n)
  PROVE  OweInv'
<1> DEFINE current == mem.cumulativeAmount
           c == call["extend"]
           target == c.target
           verified == reopened(current, mem.verifiedCost)
           maxSignable == Least(verified + maxPerRequestUsdc * n, mem.reserveCeiling)
           requested == Greatest(target, current + minBudgetPerRequest)
           next == Least(requested, maxSignable)
           advance == needsCeilingAdvance(requested, maxSignable)
           unsigned == 0
           signed == signing(row, next, current, verified, FALSE, unsigned, advance)
           ended == topUpOrEnd("extend", advance, current, mem)
           extended == IF next > current THEN signed ELSE ended
           resending == [phase |-> "resending", session |-> row, amount |-> current]
<1>1. /\ c.phase = "recovered"
      /\ \/ \E d \in {Idle, resending} : call' = [call EXCEPT !["extend"] = d]
         \/ /\ ~(current >= target)
            /\ call' = [call EXCEPT !["extend"] = extended]
      /\ UNCHANGED <<row, mem, seller, needAuths, extends, closes, restarts>>
  BY DEF extendCurrentSpendingAuth, signedEnough
<1>2. c \in CallType /\ mem \in MemType
  BY Parts, EndpointCalls
<1>3. c # Idle
  BY <1>1 DEF Idle
<1>4. /\ extends >= 1 /\ CallOwed(c, seller.spent, PayLimit, LargestPrice)
      /\ current \in Nat /\ current <= PayLimit /\ row.authMax <= PayLimit
      /\ PayLimit \in Nat /\ LargestPrice \in Nat /\ seller.spent \in Nat
      /\ seller.spent + minBudgetPerRequest - 1 <= PayLimit /\ seller.accepted <= PayLimit
      /\ restarts \in Nat /\ needAuths \in Seq(FrameOwed(seller.spent, LargestPrice))
      /\ \A r \in Requests : mem.unpaid[r] <= LargestPrice
  BY <1>3, OweParts, EndpointCalls
<1>5. target \in Nat /\ target <= seller.spent
  <2> HIDE DEF c
  <2>1. c \in RecoveredType
    BY <1>1, <1>2, PhaseTells
  <2> QED BY <1>1, <1>4, <2>1 DEF RecoveredType, CallOwed
<1>6. mem.reserveCeiling \in Nat /\ mem.verifiedCost \in Nat
  BY <1>2 DEF MemType
<1> HIDE DEF c, target, current
<1>7. verified \in Nat
  BY <1>4, <1>6, ReopenedType
<1> HIDE DEF verified
<1>8. maxSignable \in Nat
  <2>1. verified + maxPerRequestUsdc * n \in Nat
    BY <1>7, AmountsOK
  <2> QED BY <1>6, <2>1 DEF Least
<1> HIDE DEF maxSignable
<1>9. ~(current >= target) => requested \in Nat /\ requested <= PayLimit
  BY <1>4, <1>5, AmountsOK DEF Greatest
<1> HIDE DEF requested
<1>10. ~(current >= target) => next <= PayLimit
  BY <1>4, <1>8, <1>9 DEF Least
<1> HIDE DEF next, advance
<1>11. unsigned <= LargestPrice
  BY <1>4
<1> HIDE DEF unsigned
<1>12. ~(current >= target) => CallOwed(signed, seller.spent, PayLimit, LargestPrice)
  BY <1>4, <1>10, <1>11, SigningOwed
<1>13. CallOwed(ended, seller.spent, PayLimit, LargestPrice)
  BY <1>4, TopUpOrEndOwed
<1> HIDE DEF signed, ended
<1>14. ~(current >= target) => CallOwed(extended, seller.spent, PayLimit, LargestPrice)
  BY <1>12, <1>13
<1>15. CallOwed(Idle, seller.spent, PayLimit, LargestPrice)
  BY OwesNothing DEF Idle
<1>16. CallOwed(resending, seller.spent, PayLimit, LargestPrice)
  BY <1>4 DEF CallOwed
<1> HIDE DEF extended, resending
<1>17. PICK d : /\ call' = [call EXCEPT !["extend"] = d]
                /\ CallOwed(d, seller.spent, PayLimit, LargestPrice)
  BY <1>1, <1>14, <1>15, <1>16
<1>18. row'.authMax <= PayLimit
  BY <1>1, <1>4
<1> QED BY <1>1, <1>3, <1>17, <1>18, EndpointCalls, HandlerOwed DEF c

LEMMA ResendOwed ==
  ASSUME BuyerInv, BuyerInv', OweInv, resendCurrentSpendingAuth
  PROVE  OweInv'
<1> DEFINE c == call["extend"]
<1>1. /\ c.phase = "resending" /\ row' = c.session /\ send(c.amount)
      /\ call' = [call EXCEPT !["extend"] = Idle]
      /\ UNCHANGED <<mem, needAuths, extends, closes, restarts>>
  BY DEF resendCurrentSpendingAuth
<1>2. c \in CallType /\ CallOwed(c, seller.spent, PayLimit, LargestPrice)
  BY Parts, OweParts, EndpointCalls
<1>3. c.amount \in Nat /\ c.amount <= PayLimit /\ c.session.authMax <= PayLimit
  <2> HIDE DEF c
  <2>1. c \in ResendingType
    BY <1>1, <1>2, PhaseTells
  <2> QED BY <1>1, <1>2, <2>1 DEF ResendingType, CallOwed
<1>4. /\ seller'.price = seller.price /\ seller'.spent = seller.spent
      /\ seller'.accepted <= PayLimit
  BY <1>1, <1>3, SendOwed
<1>5. /\ restarts' \in Nat /\ row'.authMax <= PayLimit /\ mem'.cumulativeAmount <= PayLimit
      /\ \A r \in Requests : mem'.unpaid[r] <= LargestPrice
      /\ needAuths' \in Seq(FrameOwed(seller.spent, LargestPrice))
  BY <1>1, <1>3, OweParts
<1>6. CallOwed(Idle, seller.spent, PayLimit, LargestPrice)
  BY OwesNothing DEF Idle
<1> QED BY <1>1, <1>4, <1>5, <1>6, EndpointCalls, SteadyStep

(* A close request signs once more for one response, at most at the        *)
(* largest price.                                                          *)
LEMMA RequestCloseOwed ==
  ASSUME BuyerInv, BuyerInv', OweInv, requestChannelClose
  PROVE  OweInv'
<1> DEFINE signed == [phase |-> "signed"]
           r == lastResponse
           counted == mem.unpaid[r] # NotCounted
           cost == IF counted THEN mem.unpaid[r] ELSE seller.price[r]
           verified == IF counted THEN mem.verifiedCost ELSE mem.verifiedCost + cost
           amount == perRequestAmount(cost, verified)
           current == mem.cumulativeAmount
           unsigned == 0
           perRequest == signing(row, amount, current, verified, counted, unsigned, FALSE)
           next == IF r = None THEN signed ELSE perRequest
<1>1. /\ call' = [call EXCEPT !["close"] = next] /\ closes' = closes + 1
      /\ UNCHANGED <<row, mem, needAuths, seller, extends, restarts>>
  BY DEF requestChannelClose, signPerRequestAuth
<1>2. mem \in MemType /\ seller \in SellerType /\ lastResponse \in Requests \cup {None}
  BY Parts
<1>3. /\ extends \in Nat /\ closes \in Nat /\ restarts \in Nat /\ seller.spent \in Nat
      /\ PayLimit \in Nat /\ LargestPrice \in Nat /\ seller.accepted \in Nat
      /\ row.authMax \in Nat /\ current \in Nat
      /\ seller.accepted <= PayLimit /\ row.authMax <= PayLimit /\ current <= PayLimit
      /\ needAuths \in Seq(FrameOwed(seller.spent, LargestPrice))
      /\ \A x \in Requests : mem.unpaid[x] \in Int /\ mem.unpaid[x] <= LargestPrice
  BY OweParts
<1>4. /\ extends' \in Nat /\ closes' \in Nat /\ restarts' \in Nat /\ extends <= extends'
      /\ closes <= closes' /\ seller.spent <= seller'.spent /\ seller'.price = seller.price
  BY <1>1, <1>3
<1>5. PayLimit' \in Nat /\ PayLimit + LargestPrice <= PayLimit'
  BY <1>1, <1>3, <1>4, PayLimitGrows
<1>6. /\ seller'.accepted <= PayLimit' /\ row'.authMax <= PayLimit'
      /\ mem'.cumulativeAmount <= PayLimit' /\ \A x \in Requests : mem'.unpaid[x] <= LargestPrice
      /\ needAuths' \in Seq(FrameOwed(seller'.spent, LargestPrice))
  BY <1>1, <1>3, <1>5
<1>7. CallOwed(signed, seller'.spent, PayLimit', LargestPrice)
  BY OwesNothing
<1>8. ASSUME r # None PROVE CallOwed(perRequest, seller'.spent, PayLimit', LargestPrice)
  <2>1. /\ mem.verifiedCost \in Nat /\ mem.unpaid \in [Requests -> Nat \cup {NotCounted}]
        /\ seller.price \in [Requests -> Nat \ {0}] /\ r \in Requests
    BY <1>2, <1>8 DEF MemType, SellerType
  <2>2. cost \in Nat /\ cost <= LargestPrice
    BY <1>2, <1>3, <2>1, LargestPriceOK
  <2> HIDE DEF cost, counted
  <2>3. verified \in Nat
    BY <2>1, <2>2
  <2> HIDE DEF verified
  <2>4. maxSignableForVerified(verified) \in Nat
    BY <1>2, <2>3, SignableBound
  <2>5. amount <= PayLimit'
    BY <1>3, <1>5, <2>2, <2>4 DEF perRequestAmount, Greatest, Least
  <2>6. unsigned <= LargestPrice /\ row.authMax <= PayLimit'
    BY <1>3, <1>5
  <2> HIDE DEF amount, unsigned, current
  <2> QED BY <2>5, <2>6, SigningOwed
<1> HIDE DEF signed, perRequest
<1>9. CallOwed(next, seller'.spent, PayLimit', LargestPrice)
  BY <1>7, <1>8
<1> HIDE DEF next
<1> QED BY <1>1, <1>4, <1>6, <1>9, EndpointCalls, OweStep

LEMMA FinishPerRequestOwed ==
  ASSUME BuyerInv, BuyerInv', OweInv, finishPerRequestAuth
  PROVE  OweInv'
<1> DEFINE c == call["close"]
           r == lastResponse
           left == IF c.counted THEN Greatest(mem.unpaid[r] - (c.amount - c.before), 0) ELSE 0
           unpaid == [mem.unpaid EXCEPT ![r] = left]
           m == [mem EXCEPT !.cumulativeAmount = c.amount, !.verifiedCost = c.verifiedCost,
                            !.unpaid = unpaid]
           next == topUpOrEnd("close", needsTopUp(c.amount), c.before, m)
<1>1. /\ c.phase = "committed" /\ mem' = m /\ send(c.amount)
      /\ call' = [call EXCEPT !["close"] = next]
      /\ UNCHANGED <<row, needAuths, extends, closes, restarts>>
  BY DEF finishPerRequestAuth
<1>2. /\ c \in CallType /\ CallOwed(c, seller.spent, PayLimit, LargestPrice)
      /\ CallBounded(c, SignableReserve) /\ LargestPrice \in Nat
      /\ mem \in MemType /\ row.authMax <= PayLimit /\ restarts \in Nat
      /\ needAuths \in Seq(FrameOwed(seller.spent, LargestPrice))
      /\ \A x \in Requests : mem.unpaid[x] \in Int /\ mem.unpaid[x] <= LargestPrice
  BY Parts, OweParts, EndpointCalls
<1>3. c.amount \in Nat /\ c.amount <= PayLimit /\ c.before \in Nat /\ c.before <= c.amount
  <2> HIDE DEF c
  <2>1. c \in SigningType
    BY <1>1, <1>2, PhaseTells
  <2> QED BY <1>1, <1>2, <2>1 DEF SigningType, CallOwed, CallBounded
<1>4. r \in Requests => left <= LargestPrice
  <2> HIDE DEF c, r
  <2> QED BY <1>2, <1>3 DEF Greatest
<1> HIDE DEF left
<1>5. \A x \in Requests : unpaid[x] <= LargestPrice
  <2>1. mem.unpaid \in [Requests -> Nat \cup {NotCounted}]
    BY <1>2 DEF MemType
  <2> HIDE DEF r
  <2> QED BY <1>2, <1>4, <2>1
<1> HIDE DEF unpaid
<1>6. mem'.cumulativeAmount = c.amount /\ mem'.unpaid = unpaid
  <2> HIDE DEF c
  <2> QED BY <1>1, <1>2 DEF MemType
<1>7. CallOwed(next, seller.spent, PayLimit, LargestPrice)
  BY <1>2, TopUpOrEndOwed
<1>8. /\ seller'.price = seller.price /\ seller'.spent = seller.spent
      /\ seller'.accepted <= PayLimit
  BY <1>1, <1>3, SendOwed
<1>9. /\ restarts' \in Nat /\ row'.authMax <= PayLimit /\ mem'.cumulativeAmount <= PayLimit
      /\ needAuths' \in Seq(FrameOwed(seller.spent, LargestPrice))
      /\ \A x \in Requests : mem'.unpaid[x] <= LargestPrice
  BY <1>1, <1>2, <1>3, <1>5, <1>6
<1> HIDE DEF next, m
<1> QED BY <1>1, <1>7, <1>8, <1>9, EndpointCalls, SteadyStep

LEMMA BuildCloseOwed ==
  ASSUME BuyerInv, BuyerInv', OweInv, buildCloseChannelRequest
  PROVE  OweInv'
<1>1. PICK capped \in {FALSE, mem.cumulativeAmount > seller.deposit} :
        call' = [call EXCEPT !["close"] =
          [phase |-> "closing", session |-> row, capped |-> capped,
           amount |-> IF capped THEN seller.deposit ELSE mem.cumulativeAmount]]
  BY DEF buildCloseChannelRequest
<1>2. UNCHANGED <<row, mem, needAuths, seller, extends, closes, restarts>>
  BY DEF buildCloseChannelRequest
<1> DEFINE amount == IF capped THEN seller.deposit ELSE mem.cumulativeAmount
           c == [phase |-> "closing", session |-> row, capped |-> capped, amount |-> amount]
<1>3. /\ mem.cumulativeAmount \in Nat /\ mem.cumulativeAmount <= PayLimit /\ PayLimit \in Nat
      /\ row.authMax <= PayLimit
  BY OweParts
<1>4. seller.deposit \in Nat
  BY Parts DEF SellerType
<1>5. amount <= PayLimit
  <2>1. capped => mem.cumulativeAmount > seller.deposit
    OBVIOUS
  <2> QED BY <1>3, <1>4, <2>1
<1>6. call' = [call EXCEPT !["close"] = c]
  BY <1>1
<1> HIDE DEF amount
<1>7. CallOwed(c, seller.spent, PayLimit, LargestPrice)
  BY <1>3, <1>5 DEF CallOwed
<1>8. row'.authMax <= PayLimit
  BY <1>2, <1>3
<1> HIDE DEF c
<1> QED BY <1>2, <1>6, <1>7, <1>8, EndpointCalls, HandlerOwed

LEMMA SendCloseOwed ==
  ASSUME BuyerInv, BuyerInv', OweInv, sendCloseChannelRequest
  PROVE  OweInv'
<1> DEFINE c == call["close"]
           accepted == Greatest(seller.accepted, c.amount)
           committed == IF c.capped THEN row ELSE c.session
           stillOpen == seller.spent > accepted
           frame == needAuth(None, seller.spent, 0)
           frames == FrameOwed(seller.spent, LargestPrice)
<1>1. /\ c.phase = "closing" /\ call' = [call EXCEPT !["close"] = Idle]
      /\ seller' = [seller EXCEPT !.accepted = accepted, !.open = stillOpen]
      /\ \/ /\ needAuths' = Append(needAuths, frame) /\ row' = committed /\ UNCHANGED mem
         \/ /\ row' = retired(committed) /\ mem' = cleanedUp(mem) /\ UNCHANGED needAuths
      /\ UNCHANGED <<extends, closes, restarts>>
  BY DEF sendCloseChannelRequest
<1>2. /\ c \in CallType /\ row \in Rows /\ mem \in MemType /\ seller \in SellerType
      /\ CallOwed(c, seller.spent, PayLimit, LargestPrice) /\ PayLimit \in Nat
      /\ seller.accepted \in Nat /\ seller.accepted <= PayLimit /\ row.authMax <= PayLimit
      /\ mem.cumulativeAmount <= PayLimit /\ restarts \in Nat /\ needAuths \in Seq(frames)
      /\ \A r \in Requests : mem.unpaid[r] <= LargestPrice
  BY Parts, OweParts, EndpointCalls
<1>3. frame \in frames
  BY AskedAgain
<1> HIDE DEF c, frame, frames
<1>4. /\ c.amount \in Nat /\ c.session \in Rows /\ c.amount <= PayLimit
      /\ c.session.authMax <= PayLimit
  <2>1. c \in ClosingType
    BY <1>1, <1>2, PhaseTells
  <2> QED BY <1>1, <1>2, <2>1 DEF ClosingType, CallOwed
<1>5. committed \in Rows /\ committed.authMax <= PayLimit
  BY <1>2, <1>4
<1>6. accepted <= PayLimit
  BY <1>2, <1>4 DEF Greatest
<1> HIDE DEF accepted, committed, stillOpen
<1>7. /\ seller'.price = seller.price /\ seller'.spent = seller.spent
      /\ seller'.accepted = accepted
  BY <1>1, <1>2 DEF SellerType
<1>8. /\ row'.authMax <= PayLimit /\ mem'.unpaid = mem.unpaid
      /\ mem'.cumulativeAmount \in {0, mem.cumulativeAmount}
  BY <1>1, <1>2, <1>5, RetiredOwed
<1>9. /\ seller'.accepted <= PayLimit /\ mem'.cumulativeAmount <= PayLimit /\ restarts' \in Nat
      /\ \A r \in Requests : mem'.unpaid[r] <= LargestPrice
  BY <1>1, <1>2, <1>6, <1>7, <1>8
<1>10. needAuths' \in Seq(frames)
  BY <1>1, <1>2, <1>3, OwedQueue
<1>11. CallOwed(Idle, seller.spent, PayLimit, LargestPrice)
  BY OwesNothing DEF Idle
<1> QED BY <1>1, <1>7, <1>8, <1>9, <1>10, <1>11, EndpointCalls, SteadyStep DEF frames

LEMMA CloseNotAnsweredOwed ==
  ASSUME BuyerInv, BuyerInv', OweInv, closeNotAnswered
  PROVE  OweInv'
<1> DEFINE c == call["close"]
           accepted == Greatest(seller.accepted, c.amount)
           committed == IF c.capped THEN row ELSE c.session
<1>1. /\ c.phase = "closing" /\ call' = [call EXCEPT !["close"] = Idle]
      /\ seller' = seller \/ seller' = [seller EXCEPT !.accepted = accepted, !.open = FALSE]
      /\ row' = committed /\ UNCHANGED <<mem, needAuths, extends, closes, restarts>>
  BY DEF closeNotAnswered
<1>2. /\ c \in CallType /\ seller \in SellerType
      /\ CallOwed(c, seller.spent, PayLimit, LargestPrice) /\ PayLimit \in Nat
      /\ seller.accepted \in Nat /\ seller.accepted <= PayLimit /\ row.authMax <= PayLimit
  BY Parts, OweParts, EndpointCalls
<1> HIDE DEF c
<1>3. c.amount \in Nat /\ c.amount <= PayLimit /\ c.session.authMax <= PayLimit
  <2>1. c \in ClosingType
    BY <1>1, <1>2, PhaseTells
  <2> QED BY <1>1, <1>2, <2>1 DEF ClosingType, CallOwed
<1>4. committed.authMax <= PayLimit /\ accepted <= PayLimit
  BY <1>2, <1>3 DEF Greatest
<1> HIDE DEF accepted, committed
<1>5. /\ seller'.price = seller.price /\ seller'.spent = seller.spent
      /\ seller'.accepted \in {seller.accepted, accepted}
  BY <1>1, <1>2 DEF SellerType
<1>6. /\ seller'.accepted <= PayLimit /\ row'.authMax <= PayLimit /\ restarts' \in Nat
      /\ mem'.cumulativeAmount <= PayLimit
      /\ \A r \in Requests : mem'.unpaid[r] <= LargestPrice
      /\ needAuths' \in Seq(FrameOwed(seller.spent, LargestPrice))
  BY <1>1, <1>2, <1>4, <1>5, OweParts
<1>7. CallOwed(Idle, seller.spent, PayLimit, LargestPrice)
  BY OwesNothing DEF Idle
<1> QED BY <1>1, <1>5, <1>6, <1>7, EndpointCalls, SteadyStep

LEMMA ServeRequestOwed ==
  ASSUME BuyerInv, BuyerInv', OweInv, NEW r \in Requests, serveRequest(r)
  PROVE  OweInv'
<1> DEFINE price == seller.price[r]
           served == seller.served \cup {r}
           spent == seller.spent + price
           frame == needAuth(r, spent, price)
           frames == FrameOwed(spent, LargestPrice)
           c == call["close"]
<1>1. /\ seller' = [seller EXCEPT !.served = served, !.spent = spent]
      /\ needAuths' = Append(needAuths, frame)
      /\ UNCHANGED <<row, mem, call, extends, closes, restarts>>
  BY DEF serveRequest
<1>2. /\ seller \in SellerType /\ call \in [Calls -> CallType]
      /\ extends \in Nat /\ closes \in Nat /\ restarts \in Nat /\ seller.spent \in Nat
      /\ PayLimit \in Nat /\ LargestPrice \in Nat /\ seller.accepted \in Nat
      /\ row.authMax \in Nat /\ mem.cumulativeAmount \in Nat
      /\ seller.accepted <= PayLimit /\ row.authMax <= PayLimit
      /\ mem.cumulativeAmount <= PayLimit
      /\ needAuths \in Seq(FrameOwed(seller.spent, LargestPrice))
      /\ \A x \in Requests : mem.unpaid[x] <= LargestPrice
      /\ CallOwed(c, seller.spent, PayLimit, LargestPrice)
  BY Parts, OweParts, EndpointCalls
<1>3. price \in Nat /\ price <= LargestPrice /\ spent \in Nat /\ seller.spent <= spent
  <2>1. price \in Nat /\ price <= LargestPrice
    BY <1>2, LargestPriceOK DEF SellerType
  <2> HIDE DEF price
  <2> QED BY <1>2, <2>1
<1> HIDE DEF price, served, spent
<1>4. frame \in frames
  <2>1. frame \in FrameType
    BY <1>3, NeedAuthType
  <2> QED BY <1>3, <2>1 DEF FrameOwed, needAuth
<1>5. FrameOwed(seller.spent, LargestPrice) \subseteq frames
  BY <1>2, <1>3 DEF FrameOwed, FrameType
<1> HIDE DEF frame, frames
<1>6. needAuths \in Seq(frames)
  BY <1>2, <1>5, OwedQueue
<1>7. needAuths' \in Seq(frames)
  BY <1>1, <1>4, <1>6, OwedQueue
<1>8. /\ seller'.price = seller.price /\ seller'.spent = spent
      /\ seller'.accepted = seller.accepted
  BY <1>1, <1>2 DEF SellerType
<1>9. /\ extends' \in Nat /\ closes' \in Nat /\ restarts' \in Nat /\ extends <= extends'
      /\ closes <= closes' /\ seller.spent <= seller'.spent
  BY <1>1, <1>2, <1>3, <1>8
<1>10. PayLimit' \in Nat /\ PayLimit <= PayLimit'
  BY <1>2, <1>8, <1>9, PayLimitGrows
<1>11. /\ seller'.accepted <= PayLimit' /\ row'.authMax <= PayLimit'
       /\ mem'.cumulativeAmount <= PayLimit' /\ \A x \in Requests : mem'.unpaid[x] <= LargestPrice
  BY <1>1, <1>2, <1>8, <1>10
<1>12. c \in CallType /\ call' = [call EXCEPT !["close"] = c]
  BY <1>1, <1>2, EndpointCalls
<1> HIDE DEF c
<1>13. CallOwed(c, seller'.spent, PayLimit', LargestPrice)
  BY <1>2, <1>3, <1>8, <1>10, <1>12, CallOwedGrows
<1>14. needAuths' \in Seq(FrameOwed(seller'.spent, LargestPrice))
  BY <1>7, <1>8 DEF frames
<1> QED BY <1>8, <1>9, <1>11, <1>12, <1>13, <1>14, EndpointCalls, OweStep

(* The other steps of the seller and of the node. *)
LEMMA QuietOwed ==
  ASSUME BuyerInv, BuyerInv', OweInv,
         (\E r \in Requests : receiveResponse(r)) \/ reserveOrTopUp \/ UNCHANGED vars
  PROVE  OweInv'
<1>1. /\ UNCHANGED <<row, mem, call, needAuths, extends, closes, restarts>>
      /\ UNCHANGED seller \/ seller' = [seller EXCEPT !.deposit = seller.signedReserve]
  BY DEF receiveResponse, reserveOrTopUp, vars
<1>2. seller \in SellerType
  BY Parts
<1>3. /\ seller'.price = seller.price /\ seller'.spent = seller.spent
      /\ seller'.accepted = seller.accepted
  BY <1>1, <1>2 DEF SellerType
<1>4. /\ row'.authMax <= PayLimit /\ seller'.accepted <= PayLimit
      /\ mem'.cumulativeAmount <= PayLimit
      /\ \A r \in Requests : mem'.unpaid[r] <= LargestPrice
      /\ needAuths' \in Seq(FrameOwed(seller.spent, LargestPrice))
  BY <1>1, <1>3, OweParts
<1> QED BY <1>1, <1>3, <1>4, SteadyIdle

LEMMA InitOwed == Init => OweInv
<1> SUFFICES ASSUME Init PROVE OweInv
  OBVIOUS
<1>1. BuyerInv
  BY InitInv
<1>2. /\ extends = 0 /\ closes = 0 /\ restarts = 0 /\ needAuths = <<>>
      /\ row.authMax = 0 /\ mem.cumulativeAmount = 0
      /\ mem.unpaid = [r \in Requests |-> NotCounted] /\ call = [id \in Calls |-> Idle]
  BY DEF Init
<1>3. seller.accepted = 0
  BY DEF Init
<1>4. PayLimit \in Nat /\ LargestPrice \in Nat
  BY <1>1, <1>2, PayLimitType
<1>5. \A r \in Requests : mem.unpaid[r] <= LargestPrice
  BY <1>2, <1>4 DEF NotCounted
<1>6. CallOwed(Idle, seller.spent, PayLimit, LargestPrice)
  BY OwesNothing DEF Idle
<1>7. \A id \in Calls : call[id] = Idle
  BY <1>2
<1>8. needAuths \in Seq(FrameOwed(seller.spent, LargestPrice))
  BY <1>2
<1>9. /\ seller.accepted <= PayLimit /\ row.authMax <= PayLimit
      /\ mem.cumulativeAmount <= PayLimit
  BY <1>2, <1>3, <1>4
<1>10. extends \in Nat /\ closes \in Nat /\ restarts \in Nat
  BY <1>2
<1> QED BY <1>5, <1>6, <1>7, <1>8, <1>9, <1>10, EndpointCalls DEF OweInv

LEMMA NextOwed ==
  ASSUME BuyerInv, OweInv, [Next]_vars
  PROVE  OweInv'
<1>0. BuyerInv'
  BY NextInv
<1>1. ASSUME NEW id \in Calls, finishNeedAuth(id) \/ sendReserveAuth(id) PROVE OweInv'
  BY <1>0, <1>1, FinishNeedAuthOwed, SendReserveAuthOwed
<1>2. CASE finishPerRequestAuth
  BY <1>0, <1>2, FinishPerRequestOwed
<1>3. ASSUME NEW keepsReserve \in BOOLEAN, restart(keepsReserve) PROVE OweInv'
  BY <1>0, <1>3, RestartOwed
<1>4. CASE handleNeedAuth
  BY <1>0, <1>4, HandleNeedAuthOwed
<1>5. ASSUME NEW id \in Calls,
             resumeNeedAuth(id) \/ commitAuthorization(id) \/ topUpReserve(id)
      PROVE  OweInv'
  BY <1>0, <1>5, ResumeNeedAuthOwed, CommitOwed, TopUpReserveOwed
<1>6. CASE handleAuthAck
  BY <1>0, <1>6, HandleAuthAckOwed
<1>7. CASE handle402
  BY <1>0, <1>7, Handle402Owed
<1>15. CASE reconcileReserveAmount
  BY <1>0, <1>15, ReconcileOwed
<1>8. ASSUME NEW n \in 1..Cardinality(Requests), extendCurrentSpendingAuth(n) PROVE OweInv'
  <2>1. n \in Nat
    BY <1>8
  <2> QED BY <1>0, <1>8, <2>1, ExtendOwed
<1>9. CASE resendCurrentSpendingAuth \/ endRecovery
  BY <1>0, <1>9, ResendOwed, EndRecoveryOwed
<1>10. CASE requestChannelClose
  BY <1>0, <1>10, RequestCloseOwed
<1>11. CASE buildCloseChannelRequest
  BY <1>0, <1>11, BuildCloseOwed
<1>12. CASE sendCloseChannelRequest \/ closeNotAnswered
  BY <1>0, <1>12, SendCloseOwed, CloseNotAnsweredOwed
<1>13. ASSUME NEW r \in Requests, receiveResponse(r) \/ serveRequest(r) PROVE OweInv'
  BY <1>0, <1>13, QuietOwed, ServeRequestOwed
<1>14. CASE reserveOrTopUp \/ UNCHANGED vars
  BY <1>0, <1>14, QuietOwed
<1> QED
  BY <1>1, <1>2, <1>3, <1>4, <1>5, <1>6, <1>7, <1>8, <1>9, <1>10, <1>11, <1>12, <1>13, <1>14,
     <1>15
  DEF Next

(* A buyer signs for no more than was served, but for what a 402 and a     *)
(* close request add: for any number of requests and at any prices, with   *)
(* any number of 402s, restarts and close requests between the handlers'   *)
(* awaits.                                                                 *)
THEOREM OverpayBoundedCorrect == Spec => []OverpayBounded
<1>1. Init => BuyerInv /\ OweInv
  BY InitInv, InitOwed
<1>2. (BuyerInv /\ OweInv) /\ [Next]_vars => (BuyerInv /\ OweInv)'
  BY NextInv, NextOwed
<1>3. ASSUME BuyerInv, OweInv PROVE OverpayBounded
  <2>1. /\ seller.accepted <= PayLimit /\ row.authMax <= PayLimit
        /\ mem.cumulativeAmount <= PayLimit
    BY <1>3, OweParts
  <2>2. Highest <= PayLimit
    BY <2>1 DEF Highest, Greatest
  <2> QED BY <2>2 DEF OverpayBounded, PayLimit
<1> QED BY <1>1, <1>2, <1>3, PTL DEF Spec

(***************************************************************************)
(* What the opening reserves is written once: every row that a handler     *)
(* holds across an await, and writes back, has the same.                   *)
(***************************************************************************)
CallOpening(c, opening) ==
  c.phase \in {"waiting", "signing", "committed", "toppingUp", "resending", "closing"} =>
    c.session.initialReserveAmount = opening

OpeningInv ==
  /\ row.initialReserveAmount <= maxReserveAmountUsdc
  /\ \A id \in Calls : CallOpening(call[id], row.initialReserveAmount)

OpeningKept ==
  /\ row'.initialReserveAmount = row.initialReserveAmount
  /\ row.initialReserveAmount \in Nat /\ row.initialReserveAmount <= maxReserveAmountUsdc

LEMMA OpeningParts ==
  ASSUME BuyerInv, OpeningInv
  PROVE  /\ row \in Rows /\ row.initialReserveAmount \in Nat
         /\ row.initialReserveAmount <= maxReserveAmountUsdc
         /\ call \in [Calls -> CallType]
         /\ \A id \in Calls : CallOpening(call[id], row.initialReserveAmount)
<1>1. row \in Rows /\ call \in [Calls -> CallType]
  BY Parts
<1> QED BY <1>1 DEF Rows, OpeningInv

(* A step of one handler. *)
LEMMA OpeningStep ==
  ASSUME BuyerInv, OpeningInv, row'.initialReserveAmount = row.initialReserveAmount,
         NEW id \in Calls, NEW c, call' = [call EXCEPT ![id] = c],
         CallOpening(c, row.initialReserveAmount)
  PROVE  OpeningInv' /\ OpeningKept
<1> DEFINE opening == row.initialReserveAmount
<1>1. /\ opening \in Nat /\ opening <= maxReserveAmountUsdc /\ call \in [Calls -> CallType]
      /\ \A x \in Calls : CallOpening(call[x], opening)
  BY OpeningParts
<1>2. ASSUME NEW x \in Calls PROVE CallOpening(call'[x], opening)
  <2>1. CASE x = id
    BY <1>1, <2>1
  <2>2. CASE x # id
    <3>1. call'[x] = call[x]
      BY <1>1, <2>2
    <3> QED BY <1>1, <3>1
  <2> QED BY <2>1, <2>2
<1> QED BY <1>1, <1>2 DEF OpeningInv, OpeningKept

LEMMA NoSession ==
  ASSUME NEW c, NEW opening,
         c.phase \notin {"waiting", "signing", "committed", "toppingUp", "resending", "closing"}
  PROVE  CallOpening(c, opening)
BY DEF CallOpening

LEMMA IdleOpening ==
  ASSUME NEW opening
  PROVE  CallOpening(Idle, opening)
BY NoSession DEF Idle

LEMMA AfterwardsOpening ==
  ASSUME NEW id, NEW before, NEW opening
  PROVE  CallOpening(afterwards(id, before), opening)
<1>1. afterwards(id, before).phase \in {"signed", "extended", "idle"}
  BY DEF afterwards, Idle
<1> QED BY <1>1, NoSession

LEMMA TopUpOrEndOpening ==
  ASSUME NEW id, NEW wanted, NEW before, NEW m
  PROVE  CallOpening(topUpOrEnd(id, wanted, before, m), row.initialReserveAmount)
<1> DEFINE c == [phase |-> "toppingUp", session |-> row, prevCeiling |-> m.reserveCeiling,
                 before |-> before]
<1>1. CallOpening(c, row.initialReserveAmount)
  BY DEF CallOpening
<1>2. \/ topUpOrEnd(id, wanted, before, m) = c
      \/ topUpOrEnd(id, wanted, before, m) = afterwards(id, before)
  BY DEF topUpOrEnd
<1> HIDE DEF c
<1> QED BY <1>1, <1>2, AfterwardsOpening

LEMMA SigningOpening ==
  ASSUME NEW session, NEW amount, NEW current, NEW verified, NEW counted, NEW unpaid, NEW topUp
  PROVE  CallOpening(signing(session, amount, current, verified, counted, unpaid, topUp),
                     session.initialReserveAmount)
BY DEF CallOpening, signing

LEMMA EvaluateOpening ==
  ASSUME NEW id, NEW required, NEW cost, NEW current, NEW session,
         session.initialReserveAmount = row.initialReserveAmount
  PROVE  CallOpening(evaluateNeedAuth(id, required, cost, current, session),
                     row.initialReserveAmount)
<1> DEFINE e == evaluateNeedAuth(id, required, cost, current, session)
<1>1. \/ \E amount, verified, counted, unpaid, topUp :
           e = signing(session, amount, current, verified, counted, unpaid, topUp)
      \/ \E wanted : e = topUpOrEnd(id, wanted, current, mem)
  BY Zenon DEF evaluateNeedAuth
<1> HIDE DEF e
<1>2. CallOpening(e, row.initialReserveAmount)
  BY <1>1, SigningOpening, TopUpOrEndOpening
<1> QED BY <1>2 DEF e

(* The handlers' steps that sign, reserve, and close. *)
LEMMA HandlersOpening ==
  ASSUME BuyerInv, OpeningInv, NEW id \in Calls,
         \/ resumeNeedAuth(id) \/ commitAuthorization(id) \/ finishNeedAuth(id)
         \/ topUpReserve(id) \/ sendReserveAuth(id)
  PROVE  OpeningInv' /\ OpeningKept
<1> DEFINE c == call[id]
           opening == row.initialReserveAmount
<1>0. /\ c \in CallType /\ CallOpening(c, opening) /\ row \in Rows
  BY OpeningParts
<1>1. CASE resumeNeedAuth(id)
  <2> DEFINE e == evaluateNeedAuth(id, c.required, c.cost, c.current, c.session)
  <2>1. /\ c.phase = "waiting" /\ row' = row
        /\ call' = [call EXCEPT ![id] = e] \/ call' = [call EXCEPT ![id] = Idle]
    BY <1>1 DEF resumeNeedAuth
  <2>2. c.session.initialReserveAmount = opening
    BY <1>0, <2>1 DEF CallOpening
  <2>3. CallOpening(e, opening) /\ CallOpening(Idle, opening)
    BY <2>2, EvaluateOpening, IdleOpening
  <2> HIDE DEF e
  <2> QED BY <2>1, <2>3, OpeningStep
<1>2. CASE commitAuthorization(id)
  <2> DEFINE d == [c EXCEPT !.phase = "committed"]
  <2>1. /\ c.phase = "signing" /\ row' = [c.session EXCEPT !.authMax = c.amount]
        /\ call' = [call EXCEPT ![id] = d]
    BY <1>2 DEF commitAuthorization
  <2> HIDE DEF c
  <2>2. c \in SigningType /\ c.session.initialReserveAmount = opening
    BY <1>0, <2>1, PhaseTells DEF CallOpening
  <2>3. row'.initialReserveAmount = opening
    BY <2>1, <2>2 DEF SigningType, Rows
  <2>4. CallOpening(d, opening)
    BY <2>2 DEF SigningType, CallOpening
  <2> HIDE DEF d
  <2> QED BY <2>1, <2>3, <2>4, OpeningStep
<1>3. CASE finishNeedAuth(id)
  <2>1. PICK wanted, m : call' = [call EXCEPT ![id] = topUpOrEnd(id, wanted, c.before, m)]
    BY <1>3, Zenon DEF finishNeedAuth
  <2>2. row' = row
    BY <1>3 DEF finishNeedAuth
  <2> QED BY <2>1, <2>2, TopUpOrEndOpening, OpeningStep
<1>4. CASE topUpReserve(id)
  <2> DEFINE ceiling == c.prevCeiling + maxReserveAmountUsdc
             after == IF id = "close" THEN Idle ELSE afterwards(id, c.before)
             reserving == [phase |-> "reserving", prevCeiling |-> c.prevCeiling,
                           ceiling |-> ceiling, before |-> c.before]
  <2>1. /\ c.phase = "toppingUp"
        /\ \/ call' = [call EXCEPT ![id] = after] /\ row' = row
           \/ /\ call' = [call EXCEPT ![id] = reserving]
              /\ row' = [c.session EXCEPT !.reserveMaxAmount = ceiling, !.reserveAuthPending = TRUE,
                                          !.confirmedReserveAmount = c.prevCeiling]
    BY <1>4 DEF topUpReserve
  <2>2. CallOpening(after, opening)
    BY IdleOpening, AfterwardsOpening
  <2>3. CallOpening(reserving, opening)
    BY NoSession
  <2> HIDE DEF c, ceiling, after, reserving
  <2>4. c \in ToppingUpType /\ c.session.initialReserveAmount = opening
    BY <1>0, <2>1, PhaseTells DEF CallOpening
  <2>5. row'.initialReserveAmount = opening
    BY <2>1, <2>4 DEF ToppingUpType, Rows
  <2> QED BY <2>1, <2>2, <2>3, <2>5, OpeningStep
<1>5. CASE sendReserveAuth(id)
  <2>1. call' = [call EXCEPT ![id] = afterwards(id, c.before)] /\ row' = row
    BY <1>5 DEF sendReserveAuth
  <2> QED BY <2>1, AfterwardsOpening, OpeningStep
<1> QED BY <1>1, <1>2, <1>3, <1>4, <1>5

LEMMA RecoveryOpening ==
  ASSUME BuyerInv, OpeningInv,
         \/ handle402 \/ reconcileReserveAmount \/ \E n \in Nat : extendCurrentSpendingAuth(n)
         \/ resendCurrentSpendingAuth \/ endRecovery
         \/ \E keepsReserve \in BOOLEAN : restart(keepsReserve)
  PROVE  OpeningInv' /\ OpeningKept
<1> DEFINE c == call["extend"]
           opening == row.initialReserveAmount
<1>0. /\ c \in CallType /\ CallOpening(c, opening) /\ row \in Rows /\ call \in [Calls -> CallType]
      /\ opening \in Nat /\ opening <= maxReserveAmountUsdc
  BY OpeningParts, EndpointCalls
<1>r. retired(row).initialReserveAmount = opening
  BY <1>0 DEF retired, Rows
<1>1. CASE handle402
  <2> DEFINE d == [phase |-> "recovering", target |-> seller.spent]
  <2>1. call' = call \/ call' = [call EXCEPT !["extend"] = d]
    BY <1>1 DEF handle402
  <2>2. row'.initialReserveAmount = opening
    BY <1>1, <1>r DEF handle402
  <2>3. CallOpening(d, opening)
    BY NoSession
  <2>4. call = [call EXCEPT !["extend"] = c]
    BY <1>0
  <2> HIDE DEF c, d
  <2>5. PICK e \in {c, d} : call' = [call EXCEPT !["extend"] = e]
    BY <2>1, <2>4
  <2> QED BY <1>0, <2>2, <2>3, <2>5, EndpointCalls, OpeningStep
<1>6. CASE reconcileReserveAmount
  <2> DEFINE d == [c EXCEPT !.phase = "recovered"]
             pending == mem.pendingReserveAuth
             applied == seller.deposit >= pending.maxAmount
             confirmed == IF applied THEN seller.deposit ELSE pending.confirmedAmount
             max == IF applied THEN row.reserveMaxAmount ELSE pending.maxAmount
  <2>1. /\ c.phase = "recovering" /\ call' = [call EXCEPT !["extend"] = d]
        /\ row' = [row EXCEPT !.reserveAuthPending = ~applied, !.confirmedReserveAmount = confirmed,
                              !.reserveMaxAmount = max]
    BY <1>6, Zenon DEF reconcileReserveAmount
  <2> HIDE DEF applied, confirmed, max
  <2>2. row'.initialReserveAmount = opening
    BY <1>0, <2>1 DEF Rows
  <2>3. c \in RecoveredType
    BY <1>0, <2>1, PhaseTells
  <2>4. d.phase = "recovered"
    BY <2>3 DEF RecoveredType
  <2>5. CallOpening(d, opening)
    BY <2>4, NoSession
  <2> HIDE DEF d
  <2> QED BY <2>1, <2>2, <2>5, EndpointCalls, OpeningStep
<1>2. ASSUME NEW n \in Nat, extendCurrentSpendingAuth(n) PROVE OpeningInv' /\ OpeningKept
  <2> DEFINE current == mem.cumulativeAmount
             resending == [phase |-> "resending", session |-> row, amount |-> current]
  <2>1. PICK d : call' = [call EXCEPT !["extend"] = d]
                 /\ \/ d \in {Idle, resending}
                    \/ \E amount, verified, topUp :
                         d = signing(row, amount, current, verified, FALSE, 0, topUp)
                    \/ \E wanted : d = topUpOrEnd("extend", wanted, current, mem)
    BY <1>2, Zenon DEF extendCurrentSpendingAuth
  <2>2. row' = row
    BY <1>2 DEF extendCurrentSpendingAuth
  <2>3. CallOpening(resending, opening)
    BY DEF CallOpening
  <2> HIDE DEF resending, current
  <2>4. CallOpening(d, opening)
    BY <2>1, <2>3, IdleOpening, SigningOpening, TopUpOrEndOpening
  <2> QED BY <2>1, <2>2, <2>4, EndpointCalls, OpeningStep
<1>3. CASE resendCurrentSpendingAuth
  <2>1. c.phase = "resending" /\ row' = c.session /\ call' = [call EXCEPT !["extend"] = Idle]
    BY <1>3 DEF resendCurrentSpendingAuth
  <2>2. row'.initialReserveAmount = opening
    BY <1>0, <2>1 DEF CallOpening
  <2> QED BY <2>1, <2>2, IdleOpening, EndpointCalls, OpeningStep
<1>4. CASE endRecovery
  <2>1. row' \in {row, retired(row)} /\ call' = [call EXCEPT !["extend"] = Idle]
    BY <1>4 DEF endRecovery
  <2>2. row'.initialReserveAmount = opening
    BY <1>r, <2>1
  <2> QED BY <2>1, <2>2, IdleOpening, EndpointCalls, OpeningStep
<1>5. ASSUME NEW keepsReserve \in BOOLEAN, restart(keepsReserve) PROVE OpeningInv' /\ OpeningKept
  <2>1. row' = row /\ call' = [id \in Calls |-> Idle]
    BY <1>5 DEF restart
  <2>2. \A id \in Calls : CallOpening(call'[id], opening)
    BY <2>1, IdleOpening
  <2> QED BY <1>0, <2>1, <2>2 DEF OpeningInv, OpeningKept
<1> QED BY <1>1, <1>2, <1>3, <1>4, <1>5, <1>6

LEMMA CloseOpening ==
  ASSUME BuyerInv, OpeningInv,
         \/ requestChannelClose \/ finishPerRequestAuth \/ buildCloseChannelRequest
         \/ sendCloseChannelRequest \/ closeNotAnswered
  PROVE  OpeningInv' /\ OpeningKept
<1> DEFINE c == call["close"]
           opening == row.initialReserveAmount
           committed == IF c.capped THEN row ELSE c.session
<1>0. /\ c \in CallType /\ CallOpening(c, opening) /\ row \in Rows
  BY OpeningParts, EndpointCalls
<1>1. CASE requestChannelClose
  <2>1. PICK d : call' = [call EXCEPT !["close"] = d]
                 /\ \/ d = [phase |-> "signed"]
                    \/ \E amount, current, verified, counted :
                         d = signing(row, amount, current, verified, counted, 0, FALSE)
    BY <1>1, Zenon DEF requestChannelClose, signPerRequestAuth
  <2>2. row' = row
    BY <1>1 DEF requestChannelClose
  <2>3. CallOpening([phase |-> "signed"], opening)
    BY NoSession
  <2>4. CallOpening(d, opening)
    BY <2>1, <2>3, SigningOpening
  <2> QED BY <2>1, <2>2, <2>4, EndpointCalls, OpeningStep
<1>2. CASE finishPerRequestAuth
  <2>1. PICK wanted, m : call' = [call EXCEPT !["close"] = topUpOrEnd("close", wanted, c.before, m)]
    BY <1>2, Zenon DEF finishPerRequestAuth
  <2>2. row' = row
    BY <1>2 DEF finishPerRequestAuth
  <2> QED BY <2>1, <2>2, TopUpOrEndOpening, EndpointCalls, OpeningStep
<1>3. CASE buildCloseChannelRequest
  <2>1. PICK capped, amount :
          call' = [call EXCEPT !["close"] =
            [phase |-> "closing", session |-> row, capped |-> capped, amount |-> amount]]
    BY <1>3, Zenon DEF buildCloseChannelRequest
  <2> DEFINE d == [phase |-> "closing", session |-> row, capped |-> capped, amount |-> amount]
  <2>2. row' = row
    BY <1>3 DEF buildCloseChannelRequest
  <2>3. CallOpening(d, opening)
    BY DEF CallOpening
  <2> HIDE DEF d
  <2> QED BY <2>1, <2>2, <2>3, EndpointCalls, OpeningStep DEF d
<1>4. CASE sendCloseChannelRequest \/ closeNotAnswered
  <2>1. /\ c.phase = "closing" /\ row' \in {committed, retired(committed)}
        /\ call' = [call EXCEPT !["close"] = Idle]
    BY <1>4 DEF sendCloseChannelRequest, closeNotAnswered
  <2> HIDE DEF c
  <2>2. c \in ClosingType /\ c.session.initialReserveAmount = opening
    BY <1>0, <2>1, PhaseTells DEF CallOpening
  <2>3. committed \in Rows /\ committed.initialReserveAmount = opening
    BY <1>0, <2>2 DEF ClosingType
  <2> HIDE DEF committed
  <2>4. row'.initialReserveAmount = opening
    BY <2>1, <2>3 DEF retired, Rows
  <2> QED BY <2>1, <2>4, IdleOpening, EndpointCalls, OpeningStep
<1> QED BY <1>1, <1>2, <1>3, <1>4

LEMMA OtherOpening ==
  ASSUME BuyerInv, OpeningInv,
         \/ handleNeedAuth \/ handleAuthAck \/ reserveOrTopUp
         \/ (\E r \in Requests : receiveResponse(r) \/ serveRequest(r)) \/ UNCHANGED vars
  PROVE  OpeningInv' /\ OpeningKept
<1> DEFINE c == call["close"]
           opening == row.initialReserveAmount
<1>0. /\ CallOpening(c, opening) /\ row \in Rows /\ call = [call EXCEPT !["close"] = c]
  BY OpeningParts, EndpointCalls
<1>1. CASE handleNeedAuth
  <2> DEFINE frame == Head(needAuths)
             waiting == [phase |-> "waiting", required |-> frame.required, cost |-> frame.cost,
                         current |-> mem.cumulativeAmount, session |-> row]
             evaluated == evaluateNeedAuth(frame.request, frame.required, frame.cost,
                                           mem.cumulativeAmount, row)
  <2>1. /\ row' = row /\ needAuths # <<>>
        /\ \/ call' = call
           \/ call' = [call EXCEPT ![frame.request] = waiting]
           \/ call' = [call EXCEPT ![frame.request] = evaluated]
    BY <1>1 DEF handleNeedAuth
  <2>2. needAuths \in Seq(FrameType)
    BY Parts
  <2>3. frame \in FrameType
    BY <2>1, <2>2, FrameQueue
  <2>4. CallOpening(waiting, opening)
    BY DEF CallOpening
  <2>5. CallOpening(evaluated, opening)
    BY EvaluateOpening
  <2> HIDE DEF frame, waiting, evaluated, c
  <2>6. frame.request \in Calls
    BY <2>3, ResponseCalls DEF FrameType
  <2>7. CASE call' = call
    BY <1>0, <2>1, <2>7, EndpointCalls, OpeningStep
  <2>8. CASE call' = [call EXCEPT ![frame.request] = waiting]
    BY <2>1, <2>4, <2>6, <2>8, OpeningStep
  <2>9. CASE call' = [call EXCEPT ![frame.request] = evaluated]
    BY <2>1, <2>5, <2>6, <2>9, OpeningStep
  <2> QED BY <2>1, <2>7, <2>8, <2>9
<1>2. CASE handleAuthAck
  <2>1. /\ call' = call
        /\ row' = [row EXCEPT !.reserveAuthPending = FALSE,
                              !.confirmedReserveAmount = mem.pendingReserveAuth.maxAmount]
    BY <1>2 DEF handleAuthAck
  <2>2. row'.initialReserveAmount = opening
    BY <1>0, <2>1 DEF Rows
  <2> HIDE DEF c
  <2> QED BY <1>0, <2>1, <2>2, EndpointCalls, OpeningStep
<1>3. CASE reserveOrTopUp \/ (\E r \in Requests : receiveResponse(r) \/ serveRequest(r))
           \/ UNCHANGED vars
  <2>1. row' = row /\ call' = call
    BY <1>3 DEF reserveOrTopUp, receiveResponse, serveRequest, vars
  <2> HIDE DEF c
  <2> QED BY <1>0, <2>1, EndpointCalls, OpeningStep
<1> QED BY <1>1, <1>2, <1>3

LEMMA InitOpening == Init => OpeningInv
<1> SUFFICES ASSUME Init PROVE OpeningInv
  OBVIOUS
<1>1. row.initialReserveAmount <= maxReserveAmountUsdc
  BY AmountsOK DEF Init
<1>2. \A id \in Calls : call[id] = Idle
  BY DEF Init
<1> QED BY <1>1, <1>2, IdleOpening DEF OpeningInv

LEMMA NextOpening ==
  ASSUME BuyerInv, OpeningInv, [Next]_vars
  PROVE  OpeningInv' /\ OpeningKept
<1>1. \A n \in 1..Cardinality(Requests) : n \in Nat
  OBVIOUS
<1> QED BY <1>1, HandlersOpening, RecoveryOpening, CloseOpening, OtherOpening DEF Next

(***************************************************************************)
(* What was served is paid.  While no NeedAuth was refused and neither a   *)
(* 402 nor a restart came in between, and what was served fits the window  *)
(* and the opening reserve, something is always on its way that will cover *)
(* what was served: a frame, a handler that waits, or one that signs.      *)
(***************************************************************************)
Undisturbed ==
  /\ ~disputed /\ restarts = 0 /\ extends = 0
  /\ seller.spent <= row.initialReserveAmount /\ seller.spent <= maxPerRequestUsdc

CallPays(c, spent) ==
  \/ c.phase = "waiting" /\ c.required >= spent
  \/ c.phase \in {"signing", "committed"} /\ c.amount >= spent

Paying ==
  \/ seller.accepted >= seller.spent
  \/ \E i \in 1..Len(needAuths) : needAuths[i].required >= seller.spent
  \/ \E id \in Calls : CallPays(call[id], seller.spent)

(* What a handler read was sent, and the row it holds is of an active      *)
(* session as long as the seller's channel is open.                        *)
CallPlain(c, accepted, open) ==
  /\ c.phase = "waiting" => c.current <= accepted
  /\ c.phase = "reserving" => c.ceiling >= maxReserveAmountUsdc
  /\ c.phase \in {"waiting", "signing", "committed", "toppingUp", "closing"} /\ open =>
       c.session.active

ReservePlain(m) ==
  /\ m.reserveCeiling >= row.initialReserveAmount
  /\ \/ m.pendingReserveAuth.maxAmount = 0
     \/ m.pendingReserveAuth.maxAmount >= row.initialReserveAmount

Settling ==
  /\ mem.cumulativeAmount <= seller.accepted
  /\ ReservePlain(mem)
  /\ seller.open => row.active
  /\ ~seller.open => seller.accepted >= seller.spent
  /\ \A id \in Calls : CallPlain(call[id], seller.accepted, seller.open)
  /\ Paying

PaidInv == Undisturbed => Settling

(* A handler that holds nothing read before an await. *)
LEMMA PlainCall ==
  ASSUME NEW c, NEW accepted, NEW open,
         c.phase \notin {"waiting", "signing", "committed", "toppingUp", "reserving", "closing"}
  PROVE  CallPlain(c, accepted, open)
BY DEF CallPlain

LEMMA CallPlainGrows ==
  ASSUME NEW c \in CallType, NEW accepted \in Nat, NEW accepted2 \in Nat, accepted <= accepted2,
         NEW open \in BOOLEAN, NEW open2 \in BOOLEAN, open2 => open,
         CallPlain(c, accepted, open)
  PROVE  CallPlain(c, accepted2, open2)
<1>1. CASE c.phase = "waiting"
  <2>1. c.current \in Nat
    BY <1>1, PhaseTells DEF WaitingType
  <2> QED BY <1>1, <2>1 DEF CallPlain
<1>2. CASE c.phase # "waiting"
  BY <1>2 DEF CallPlain
<1> QED BY <1>1, <1>2

(* Some numbers, and their types. *)
LEMMA PaidTypes ==
  ASSUME BuyerInv
  PROVE  /\ seller.accepted \in Nat /\ seller.spent \in Nat /\ seller.open \in BOOLEAN
         /\ mem.cumulativeAmount \in Nat /\ mem.verifiedCost \in Nat
         /\ mem.reserveCeiling \in Nat /\ mem.pendingReserveAuth.maxAmount \in Nat
         /\ row.active \in BOOLEAN /\ call \in [Calls -> CallType]
         /\ needAuths \in Seq(FrameType)
<1>1. row \in Rows /\ mem \in MemType /\ seller \in SellerType
  BY Parts
<1>2. call \in [Calls -> CallType] /\ needAuths \in Seq(FrameType)
  BY Parts
<1>3. seller.accepted \in Nat /\ seller.spent \in Nat /\ seller.open \in BOOLEAN
  BY <1>1 DEF SellerType
<1>4. /\ mem.cumulativeAmount \in Nat /\ mem.verifiedCost \in Nat
      /\ mem.reserveCeiling \in Nat /\ mem.pendingReserveAuth.maxAmount \in Nat
  BY <1>1 DEF MemType, Reserves
<1>5. row.active \in BOOLEAN
  BY <1>1 DEF Rows
<1> QED BY <1>2, <1>3, <1>4, <1>5

LEMMA PaidTypesNext ==
  ASSUME BuyerInv'
  PROVE  /\ seller'.accepted \in Nat /\ seller'.spent \in Nat /\ seller'.open \in BOOLEAN
         /\ call' \in [Calls -> CallType] /\ needAuths' \in Seq(FrameType)
<1>1. seller' \in SellerType /\ call' \in [Calls -> CallType]
  BY DEF BuyerInv
<1>2. needAuths' \in Seq(FrameType)
  BY DEF BuyerInv, TypeOK, FrameType
<1> QED BY <1>1, <1>2 DEF SellerType

(* A step of one handler, whose frames stay where they are, keeps what is  *)
(* on its way unless that handler gives it up.                             *)
LEMMA PaysStep ==
  ASSUME BuyerInv, BuyerInv', Settling, UNCHANGED needAuths, seller'.spent = seller.spent,
         seller.accepted <= seller'.accepted,
         NEW id \in Calls, NEW c, call' = [call EXCEPT ![id] = c],
         CallPays(call[id], seller.spent) =>
           CallPays(c, seller.spent) \/ seller'.accepted >= seller.spent
  PROVE  Paying'
<1>1. /\ seller.accepted \in Nat /\ seller.spent \in Nat /\ seller'.accepted \in Nat
      /\ call \in [Calls -> CallType]
  BY PaidTypes, PaidTypesNext
<1>2. CASE seller.accepted >= seller.spent
  <2>1. seller'.accepted >= seller'.spent
    BY <1>1, <1>2
  <2> QED BY <2>1 DEF Paying
<1>3. CASE \E i \in 1..Len(needAuths) : needAuths[i].required >= seller.spent
  BY <1>3 DEF Paying
<1>4. ASSUME NEW x \in Calls, CallPays(call[x], seller.spent) PROVE Paying'
  <2>1. CASE x # id
    <3>1. CallPays(call'[x], seller'.spent)
      BY <1>1, <1>4, <2>1
    <3> QED BY <3>1 DEF Paying
  <2>2. CASE x = id /\ CallPays(c, seller.spent)
    <3>1. CallPays(call'[id], seller'.spent)
      BY <1>1, <2>2
    <3> QED BY <3>1 DEF Paying
  <2>3. CASE seller'.accepted >= seller.spent
    BY <2>3 DEF Paying
  <2> QED BY <1>4, <2>1, <2>2, <2>3
<1> QED BY <1>2, <1>3, <1>4 DEF Settling, Paying

(* A step of one handler. *)
LEMMA SettleStep ==
  ASSUME BuyerInv, BuyerInv', OpeningKept, Settling, seller.accepted <= seller'.accepted,
         mem'.cumulativeAmount <= seller'.accepted, ReservePlain(mem'),
         seller'.open => seller.open /\ row'.active,
         ~seller'.open => seller'.accepted >= seller'.spent,
         NEW id \in Calls, NEW c, call' = [call EXCEPT ![id] = c],
         CallPlain(c, seller'.accepted, seller'.open), Paying'
  PROVE  Settling'
<1>1. /\ seller.accepted \in Nat /\ seller'.accepted \in Nat /\ call \in [Calls -> CallType]
      /\ seller.open \in BOOLEAN /\ seller'.open \in BOOLEAN
  BY PaidTypes, PaidTypesNext
<1>2. ASSUME NEW x \in Calls PROVE CallPlain(call'[x], seller'.accepted, seller'.open)
  <2>1. CASE x = id
    BY <1>1, <2>1
  <2>2. CASE x # id
    <3>1. call'[x] = call[x] /\ call[x] \in CallType
      BY <1>1, <2>2
    <3>2. CallPlain(call[x], seller.accepted, seller.open)
      BY DEF Settling
    <3>3. CallPlain(call[x], seller'.accepted, seller'.open)
      BY <1>1, <3>1, <3>2, CallPlainGrows
    <3> QED BY <3>1, <3>3
  <2> QED BY <2>1, <2>2
<1>3. ReservePlain(mem)'
  BY DEF ReservePlain, OpeningKept
<1> QED BY <1>2, <1>3 DEF Settling

(* A step of one handler that leaves the maps, the frames and the seller   *)
(* alone.                                                                  *)
LEMMA SettleHandler ==
  ASSUME BuyerInv, BuyerInv', OpeningKept, Settling, UNCHANGED <<mem, seller, needAuths>>,
         seller.open => row'.active,
         NEW id \in Calls, NEW c, call' = [call EXCEPT ![id] = c],
         CallPlain(c, seller.accepted, seller.open),
         CallPays(call[id], seller.spent) =>
           CallPays(c, seller.spent) \/ seller.accepted >= seller.spent
  PROVE  Settling'
<1>0. mem' = mem /\ seller' = seller /\ UNCHANGED needAuths
  OBVIOUS
<1>1. /\ seller'.spent = seller.spent /\ seller.accepted <= seller'.accepted
      /\ seller'.accepted = seller.accepted /\ seller'.open = seller.open
  BY <1>0, PaidTypes
<1>2. Paying'
  BY <1>0, <1>1, PaysStep
<1>3. /\ mem'.cumulativeAmount <= seller'.accepted /\ ReservePlain(mem')
      /\ ~seller'.open => seller'.accepted >= seller'.spent
  BY <1>0 DEF Settling
<1>4. /\ seller'.open => seller.open /\ row'.active
      /\ CallPlain(c, seller'.accepted, seller'.open)
  BY <1>1
<1> QED BY <1>1, <1>2, <1>3, <1>4, SettleStep

LEMMA AfterwardsPlain ==
  ASSUME NEW id, NEW before, NEW accepted, NEW open
  PROVE  CallPlain(afterwards(id, before), accepted, open)
<1>1. afterwards(id, before).phase \in {"signed", "extended", "idle"}
  BY DEF afterwards, Idle
<1> QED BY <1>1, PlainCall

LEMMA TopUpOrEndPlain ==
  ASSUME NEW id, NEW wanted, NEW before, NEW m, NEW accepted, NEW open
  PROVE  CallPlain(topUpOrEnd(id, wanted, before, m), accepted, open)
<1> DEFINE c == [phase |-> "toppingUp", session |-> row, prevCeiling |-> m.reserveCeiling,
                 before |-> before]
<1>1. row.active => CallPlain(c, accepted, open)
  BY DEF CallPlain
<1>2. \/ row.active /\ topUpOrEnd(id, wanted, before, m) = c
      \/ topUpOrEnd(id, wanted, before, m) = afterwards(id, before)
  BY DEF topUpOrEnd
<1> HIDE DEF c
<1> QED BY <1>1, <1>2, AfterwardsPlain

LEMMA SigningPlain ==
  ASSUME NEW session, NEW amount, NEW current, NEW verified, NEW counted, NEW unpaid,
         NEW topUp, NEW accepted, NEW open, open => session.active
  PROVE  CallPlain(signing(session, amount, current, verified, counted, unpaid, topUp),
                   accepted, open)
BY DEF CallPlain, signing

(* The evaluation of a NeedAuth for all that was served signs for it, or   *)
(* it was signed for already.                                              *)
LEMMA EvaluatePays ==
  ASSUME BuyerInv, Undisturbed, Settling, row.initialReserveAmount \in Nat, NEW id, NEW required \in Nat, NEW cost \in Nat,
         NEW current \in Nat, NEW session, current <= seller.accepted,
         seller.open => session.active
  PROVE  LET e == evaluateNeedAuth(id, required, cost, current, session)
         IN  /\ CallPlain(e, seller.accepted, seller.open)
             /\ required >= seller.spent =>
                  CallPays(e, seller.spent) \/ seller.accepted >= seller.spent
<1> DEFINE nextVerified == mem.verifiedCost + cost
           first == maxSignableForVerified(nextVerified)
           collapsed == first <= current /\ ~needsCeilingAdvance(required, first)
           verified == IF collapsed THEN reopened(current, nextVerified) ELSE nextVerified
           maxSignable == maxSignableForVerified(verified)
           advance == needsCeilingAdvance(required, maxSignable)
           effective == IF advance THEN Greatest(maxSignable, current)
                                   ELSE Least(required, maxSignable)
           counted == id \in Requests /\ mem.unpaid[id] # NotCounted
           unpaid == cost - Least(cost, effective - current)
           spent == seller.spent
           e == evaluateNeedAuth(id, required, cost, current, session)
<1>1. /\ seller.accepted \in Nat /\ spent \in Nat /\ mem.verifiedCost \in Nat
      /\ mem.reserveCeiling \in Nat /\ mem \in MemType
  BY PaidTypes, Parts
<1>2. e = IF effective > current
          THEN signing(session, effective, current, verified, counted, unpaid, advance)
          ELSE topUpOrEnd(id, advance, current, mem)
  BY DEF evaluateNeedAuth
<1>3. spent <= maxPerRequestUsdc /\ spent <= mem.reserveCeiling
  <2>1. spent <= maxPerRequestUsdc /\ spent <= row.initialReserveAmount
    BY DEF Undisturbed
  <2>2. row.initialReserveAmount <= mem.reserveCeiling
    BY <1>1 DEF Settling, ReservePlain
  <2> QED BY <1>1, <2>1, <2>2, AmountsOK
<1>4. nextVerified \in Nat
  BY <1>1
<1> HIDE DEF nextVerified
<1>5. verified \in Nat
  BY <1>4, ReopenedType
<1> HIDE DEF verified
<1>6. maxSignable \in Nat /\ spent <= maxSignable
  BY <1>1, <1>3, <1>5, AmountsOK DEF maxSignableForVerified, Least
<1> HIDE DEF maxSignable, advance, spent, e
<1>7. effective \in Nat /\ (required >= spent => spent <= effective)
  BY <1>1, <1>6 DEF Greatest, Least
<1> HIDE DEF effective, unpaid, counted
<1>8. CASE effective > current
  <2>1. CallPlain(e, seller.accepted, seller.open)
    BY <1>2, <1>8, SigningPlain
  <2>2. e.phase = "signing" /\ e.amount = effective
    BY <1>2, <1>8 DEF signing
  <2>3. required >= spent => CallPays(e, spent)
    BY <1>1, <1>7, <2>2 DEF CallPays
  <2> QED BY <2>1, <2>3 DEF e, spent
<1>9. CASE ~(effective > current)
  <2>1. CallPlain(e, seller.accepted, seller.open)
    BY <1>2, <1>9, TopUpOrEndPlain
  <2>2. required >= spent => seller.accepted >= spent
    BY <1>1, <1>7, <1>9
  <2> QED BY <2>1, <2>2 DEF e, spent
<1> QED BY <1>8, <1>9

LEMMA IdlePaysNothing ==
  ASSUME NEW spent
  PROVE  ~CallPays(Idle, spent)
BY DEF CallPays, Idle

(* A frame that is taken leaves the others on their way. *)
LEMMA FrameTaken ==
  ASSUME NEW q \in Seq(FrameType), q # <<>>, NEW i \in 1..Len(q)
  PROVE  q[i] = Head(q) \/ \E j \in 1..Len(Tail(q)) : Tail(q)[j] = q[i]
<1>1. CASE i = 1
  BY <1>1
<1>2. CASE i # 1
  <2>1. /\ Len(q) \in Nat /\ Len(q) > 0 /\ Len(Tail(q)) = Len(q) - 1
        /\ \A j \in 1..Len(q) - 1 : Tail(q)[j] = q[j + 1]
    OBVIOUS
  <2>2. i - 1 \in 1..Len(q) - 1 /\ (i - 1) + 1 = i
    BY <1>2, <2>1
  <2>3. Tail(q)[i - 1] = q[i]
    BY <2>1, <2>2
  <2> QED BY <2>1, <2>2, <2>3
<1> QED BY <1>1, <1>2

LEMMA FrameSent ==
  ASSUME NEW q \in Seq(FrameType), NEW f \in FrameType
  PROVE  \E i \in 1..Len(Append(q, f)) : Append(q, f)[i] = f
<1>1. /\ Len(q) \in Nat /\ Len(Append(q, f)) = Len(q) + 1
      /\ Append(q, f)[Len(q) + 1] = f
  OBVIOUS
<1>2. Len(q) + 1 \in 1..Len(Append(q, f))
  BY <1>1
<1> QED BY <1>1, <1>2

LEMMA HandleNeedAuthPaid ==
  ASSUME BuyerInv, BuyerInv', OpeningKept, Undisturbed, Undisturbed', Settling, handleNeedAuth
  PROVE  Settling'
<1> DEFINE frame == Head(needAuths)
           id == frame.request
           waiting == [phase |-> "waiting", required |-> frame.required, cost |-> frame.cost,
                       current |-> mem.cumulativeAmount, session |-> row]
           evaluated == evaluateNeedAuth(id, frame.required, frame.cost,
                                         mem.cumulativeAmount, row)
           spent == seller.spent
<1>1. /\ needAuths' = Tail(needAuths) /\ needAuths # <<>> /\ call[id] = Idle
      /\ mem' = mem /\ seller' = seller /\ row' = row
      /\ \/ UNCHANGED call /\ (~row.active \/ frame.required <= mem.cumulativeAmount)
         \/ call' = [call EXCEPT ![id] = waiting] /\ row.active
         \/ call' = [call EXCEPT ![id] = evaluated] /\ row.active
  BY DEF handleNeedAuth, running, Undisturbed
<1>2. /\ seller.accepted \in Nat /\ spent \in Nat /\ mem.cumulativeAmount \in Nat
      /\ needAuths \in Seq(FrameType) /\ call \in [Calls -> CallType]
      /\ row.active \in BOOLEAN /\ seller.open \in BOOLEAN
  BY PaidTypes
<1>3. frame \in FrameType
  BY <1>1, <1>2, FrameQueue
<1>4. \A i \in 1..Len(needAuths) :
        needAuths[i] = frame \/ \E j \in 1..Len(needAuths') : needAuths'[j] = needAuths[i]
  BY <1>1, <1>2, FrameTaken
<1> HIDE DEF frame
<1>5. frame.required \in Nat /\ frame.cost \in Nat /\ id \in Requests \cup {None} /\ id \in Calls
  <2>1. frame.required \in Nat /\ frame.cost \in Nat /\ id \in Requests \cup {None}
    BY <1>3 DEF FrameType
  <2> QED BY <2>1, ResponseCalls
<1>6. /\ mem.cumulativeAmount <= seller.accepted /\ ReservePlain(mem)
      /\ (seller.open => row.active) /\ (~seller.open => seller.accepted >= spent) /\ Paying
  BY DEF Settling
<1>7. /\ CallPlain(waiting, seller.accepted, seller.open)
      /\ frame.required >= spent => CallPays(waiting, spent)
  BY <1>6 DEF CallPlain, CallPays
<1>8. /\ CallPlain(evaluated, seller.accepted, seller.open)
      /\ frame.required >= spent => CallPays(evaluated, spent) \/ seller.accepted >= spent
  BY <1>2, <1>5, <1>6, EvaluatePays DEF OpeningKept
<1>9. CallPlain(Idle, seller.accepted, seller.open)
  BY PlainCall DEF Idle
<1> HIDE DEF id, waiting, evaluated
<1>10. PICK d : /\ call' = [call EXCEPT ![id] = d] /\ CallPlain(d, seller.accepted, seller.open)
                /\ frame.required >= spent => CallPays(d, spent) \/ seller.accepted >= spent
  <2>1. CASE UNCHANGED call /\ (~row.active \/ frame.required <= mem.cumulativeAmount)
    <3>1. call' = [call EXCEPT ![id] = Idle]
      BY <1>1, <1>2, <2>1
    <3>2. frame.required >= spent => seller.accepted >= spent
      BY <1>2, <1>5, <1>6, <2>1
    <3> QED BY <1>9, <3>1, <3>2
  <2>2. CASE call' = [call EXCEPT ![id] = waiting]
    BY <1>7, <2>2
  <2>3. CASE call' = [call EXCEPT ![id] = evaluated]
    BY <1>8, <2>3
  <2> QED BY <1>1, <2>1, <2>2, <2>3
<1>11. Paying'
  <2>1. CASE seller.accepted >= spent
    BY <1>1, <2>1 DEF Paying
  <2>2. ASSUME NEW i \in 1..Len(needAuths), needAuths[i].required >= spent PROVE Paying'
    <3>1. CASE needAuths[i] = frame
      <4>1. CallPays(d, spent) \/ seller.accepted >= spent
        BY <1>10, <2>2, <3>1
      <4>2. call'[id] = d
        BY <1>2, <1>5, <1>10
      <4> QED BY <1>1, <1>5, <4>1, <4>2 DEF Paying
    <3>2. CASE \E j \in 1..Len(needAuths') : needAuths'[j] = needAuths[i]
      BY <1>1, <2>2, <3>2 DEF Paying
    <3> QED BY <1>4, <3>1, <3>2
  <2>3. ASSUME NEW x \in Calls, CallPays(call[x], spent) PROVE Paying'
    <3>1. x # id
      BY <1>1, <2>3, IdlePaysNothing
    <3>2. call'[x] = call[x]
      BY <1>2, <1>10, <3>1
    <3> QED BY <1>1, <2>3, <3>2 DEF Paying
  <2> QED BY <1>6, <2>1, <2>2, <2>3 DEF Paying
<1>12. /\ seller.accepted <= seller'.accepted /\ mem'.cumulativeAmount <= seller'.accepted
       /\ ReservePlain(mem') /\ (seller'.open => seller.open /\ row'.active)
       /\ (~seller'.open => seller'.accepted >= seller'.spent)
       /\ CallPlain(d, seller'.accepted, seller'.open)
  BY <1>1, <1>2, <1>6, <1>10
<1> QED BY <1>5, <1>10, <1>11, <1>12, SettleStep

LEMMA ResumeNeedAuthPaid ==
  ASSUME BuyerInv, BuyerInv', OpeningKept, Undisturbed, Undisturbed', Settling, NEW id \in Calls,
         resumeNeedAuth(id)
  PROVE  Settling'
<1> DEFINE c == call[id]
           e == evaluateNeedAuth(id, c.required, c.cost, c.current, c.session)
<1>1. /\ c.phase = "waiting" /\ call' = [call EXCEPT ![id] = e]
      /\ UNCHANGED <<mem, seller, needAuths>> /\ row' = row
  BY DEF resumeNeedAuth, Undisturbed
<1>2. c \in CallType /\ CallPlain(c, seller.accepted, seller.open)
  BY PaidTypes DEF Settling
<1>3. /\ c.required \in Nat /\ c.cost \in Nat /\ c.current \in Nat
      /\ c.current <= seller.accepted /\ (seller.open => c.session.active)
  <2> HIDE DEF c
  <2>1. c \in WaitingType
    BY <1>1, <1>2, PhaseTells
  <2> QED BY <1>1, <1>2, <2>1 DEF WaitingType, CallPlain
<1>4. /\ CallPlain(e, seller.accepted, seller.open)
      /\ c.required >= seller.spent =>
           CallPays(e, seller.spent) \/ seller.accepted >= seller.spent
  BY <1>3, EvaluatePays DEF OpeningKept
<1>5. CallPays(c, seller.spent) => c.required >= seller.spent
  BY <1>1 DEF CallPays
<1>6. seller.open => row'.active
  BY <1>1 DEF Settling
<1> HIDE DEF e
<1> QED BY <1>1, <1>4, <1>5, <1>6, SettleHandler

LEMMA CommitPaid ==
  ASSUME BuyerInv, BuyerInv', OpeningKept, Settling, NEW id \in Calls, commitAuthorization(id)
  PROVE  Settling'
<1> DEFINE c == call[id]
           d == [c EXCEPT !.phase = "committed"]
<1>1. /\ c.phase = "signing" /\ row' = [c.session EXCEPT !.authMax = c.amount]
      /\ call' = [call EXCEPT ![id] = d] /\ UNCHANGED <<mem, seller, needAuths>>
  BY DEF commitAuthorization
<1>2. c \in CallType /\ CallPlain(c, seller.accepted, seller.open)
  BY PaidTypes DEF Settling
<1>3. /\ seller.open => row'.active
      /\ CallPlain(d, seller.accepted, seller.open)
      /\ CallPays(c, seller.spent) => CallPays(d, seller.spent)
  <2> HIDE DEF c
  <2>1. c \in SigningType
    BY <1>1, <1>2, PhaseTells
  <2>2. /\ d.phase = "committed" /\ d.amount = c.amount /\ d.session = c.session
        /\ c.session \in Rows
    BY <2>1 DEF SigningType
  <2>3. seller.open => c.session.active
    BY <1>1, <1>2 DEF CallPlain
  <2>4. row'.active = c.session.active
    BY <1>1, <2>2 DEF Rows
  <2> HIDE DEF d
  <2>5. CallPays(c, seller.spent) => CallPays(d, seller.spent)
    BY <1>1, <2>2 DEF CallPays
  <2>6. CallPlain(d, seller.accepted, seller.open)
    BY <2>2, <2>3 DEF CallPlain
  <2> QED BY <2>3, <2>4, <2>5, <2>6
<1> HIDE DEF d
<1> QED BY <1>1, <1>3, SettleHandler

LEMMA SendPaid ==
  ASSUME BuyerInv, NEW amount \in Nat, send(amount)
  PROVE  /\ seller'.spent = seller.spent /\ seller'.open = seller.open
         /\ seller.accepted <= seller'.accepted /\ amount <= seller'.accepted
<1>1. seller \in SellerType /\ seller.accepted \in Nat
  BY Parts, PaidTypes
<1>2. seller' = [seller EXCEPT !.accepted = Greatest(seller.accepted, amount)]
  BY DEF send
<1>3. /\ seller.accepted <= Greatest(seller.accepted, amount)
      /\ amount <= Greatest(seller.accepted, amount)
  BY <1>1 DEF Greatest
<1> QED BY <1>1, <1>2, <1>3 DEF SellerType

(* The sending of what a handler signed. *)
LEMMA SentPaid ==
  ASSUME BuyerInv, BuyerInv', OpeningKept, Settling, NEW id \in Calls, call[id].phase = "committed",
         send(call[id].amount), UNCHANGED <<row, needAuths>>,
         mem'.cumulativeAmount = call[id].amount,
         mem'.reserveCeiling = mem.reserveCeiling,
         mem'.pendingReserveAuth = mem.pendingReserveAuth,
         NEW c, call' = [call EXCEPT ![id] = c], \A a, o : CallPlain(c, a, o)
  PROVE  Settling'
<1> DEFINE amount == call[id].amount
<1>1. amount \in Nat
  <2>1. call[id] \in SigningType
    BY PaidTypes, PhaseTells
  <2> QED BY <2>1 DEF SigningType
<1>2. /\ seller'.spent = seller.spent /\ seller'.open = seller.open
      /\ seller.accepted <= seller'.accepted /\ amount <= seller'.accepted
  BY <1>1, SendPaid
<1>3. /\ seller.accepted \in Nat /\ seller'.accepted \in Nat /\ seller.spent \in Nat
  BY PaidTypes, PaidTypesNext
<1>4. CallPays(call[id], seller.spent) => seller'.accepted >= seller.spent
  <2>1. CallPays(call[id], seller.spent) => amount >= seller.spent
    BY DEF CallPays
  <2> QED BY <1>1, <1>2, <1>3, <2>1
<1>5. Paying'
  BY <1>2, <1>4, PaysStep
<1>6. /\ mem'.cumulativeAmount <= seller'.accepted /\ ReservePlain(mem')
      /\ (seller'.open => seller.open /\ row'.active)
      /\ (~seller'.open => seller'.accepted >= seller'.spent)
      /\ CallPlain(c, seller'.accepted, seller'.open)
  BY <1>1, <1>2, <1>3 DEF Settling, ReservePlain
<1> QED BY <1>2, <1>5, <1>6, SettleStep

LEMMA FinishNeedAuthPaid ==
  ASSUME BuyerInv, BuyerInv', OpeningKept, Settling, NEW id \in Calls, finishNeedAuth(id)
  PROVE  Settling'
<1> DEFINE c == call[id]
           m == [mem EXCEPT !.cumulativeAmount = c.amount, !.verifiedCost = c.verifiedCost,
                            !.unpaid = marked(id, c)]
           wanted == c.topUp \/ (id # "extend" /\ needsTopUp(c.amount))
           next == topUpOrEnd(id, wanted, c.before, m)
<1>1. /\ c.phase = "committed" /\ mem' = m /\ send(c.amount)
      /\ call' = [call EXCEPT ![id] = next] /\ UNCHANGED <<row, needAuths>>
  BY DEF finishNeedAuth
<1>2. /\ mem'.cumulativeAmount = c.amount /\ mem'.reserveCeiling = mem.reserveCeiling
      /\ mem'.pendingReserveAuth = mem.pendingReserveAuth
  <2> HIDE DEF c
  <2>1. mem \in MemType
    BY Parts
  <2> QED BY <1>1, <2>1 DEF MemType
<1>3. \A a, o : CallPlain(next, a, o)
  BY TopUpOrEndPlain
<1> HIDE DEF next, m
<1> QED BY <1>1, <1>2, <1>3, SentPaid

LEMMA FinishPerRequestPaid ==
  ASSUME BuyerInv, BuyerInv', OpeningKept, Settling, finishPerRequestAuth
  PROVE  Settling'
<1> DEFINE c == call["close"]
           r == lastResponse
           left == IF c.counted THEN Greatest(mem.unpaid[r] - (c.amount - c.before), 0) ELSE 0
           unpaid == [mem.unpaid EXCEPT ![r] = left]
           m == [mem EXCEPT !.cumulativeAmount = c.amount, !.verifiedCost = c.verifiedCost,
                            !.unpaid = unpaid]
           next == topUpOrEnd("close", needsTopUp(c.amount), c.before, m)
<1>1. /\ c.phase = "committed" /\ mem' = m /\ send(c.amount)
      /\ call' = [call EXCEPT !["close"] = next] /\ UNCHANGED <<row, needAuths>>
  BY DEF finishPerRequestAuth
<1>2. /\ mem'.cumulativeAmount = c.amount /\ mem'.reserveCeiling = mem.reserveCeiling
      /\ mem'.pendingReserveAuth = mem.pendingReserveAuth
  <2> HIDE DEF c, unpaid
  <2>1. mem \in MemType
    BY Parts
  <2> QED BY <1>1, <2>1 DEF MemType
<1>3. \A a, o : CallPlain(next, a, o)
  BY TopUpOrEndPlain
<1> HIDE DEF next, m
<1> QED BY <1>1, <1>2, <1>3, EndpointCalls, SentPaid

LEMMA TopUpReservePaid ==
  ASSUME BuyerInv, BuyerInv', OpeningKept, Settling, NEW id \in Calls, topUpReserve(id)
  PROVE  Settling'
<1> DEFINE c == call[id]
           ceiling == c.prevCeiling + maxReserveAmountUsdc
           after == IF id = "close" THEN Idle ELSE afterwards(id, c.before)
           reserving == [phase |-> "reserving", prevCeiling |-> c.prevCeiling,
                         ceiling |-> ceiling, before |-> c.before]
<1>1. /\ c.phase = "toppingUp"
      /\ \/ call' = [call EXCEPT ![id] = after] /\ UNCHANGED row
         \/ /\ call' = [call EXCEPT ![id] = reserving]
            /\ row' = [c.session EXCEPT !.reserveMaxAmount = ceiling, !.reserveAuthPending = TRUE,
                                        !.confirmedReserveAmount = c.prevCeiling]
      /\ UNCHANGED <<mem, seller, needAuths>>
  BY DEF topUpReserve
<1>2. c \in CallType /\ CallPlain(c, seller.accepted, seller.open) /\ (seller.open => row.active)
  BY PaidTypes DEF Settling
<1>3. /\ c.prevCeiling \in Nat /\ c.session \in Rows /\ (seller.open => c.session.active)
  <2> HIDE DEF c
  <2>1. c \in ToppingUpType
    BY <1>1, <1>2, PhaseTells
  <2> QED BY <1>1, <1>2, <2>1 DEF ToppingUpType, CallPlain
<1>4. seller.open => row'.active
  <2> HIDE DEF c, ceiling
  <2> QED BY <1>1, <1>2, <1>3 DEF Rows
<1>5. CallPlain(after, seller.accepted, seller.open)
  <2>1. CallPlain(Idle, seller.accepted, seller.open)
    BY PlainCall DEF Idle
  <2> QED BY <2>1, AfterwardsPlain
<1>6. CallPlain(reserving, seller.accepted, seller.open)
  BY <1>3, AmountsOK DEF CallPlain
<1>7. ~CallPays(c, seller.spent)
  BY <1>1 DEF CallPays
<1> HIDE DEF after, reserving
<1> QED BY <1>1, <1>4, <1>5, <1>6, <1>7, SettleHandler

LEMMA SendReserveAuthPaid ==
  ASSUME BuyerInv, BuyerInv', OpeningKept, Settling, NEW id \in Calls, sendReserveAuth(id)
  PROVE  Settling'
<1> DEFINE c == call[id]
           after == afterwards(id, c.before)
           limit == Greatest(seller.signedReserve, c.ceiling)
           reserve == [maxAmount |-> c.ceiling, confirmedAmount |-> c.prevCeiling]
<1>1. /\ c.phase = "reserving"
      /\ mem' = [mem EXCEPT !.reserveCeiling = c.ceiling, !.pendingReserveAuth = reserve]
      /\ seller' = [seller EXCEPT !.signedReserve = limit]
      /\ call' = [call EXCEPT ![id] = after] /\ row' = row /\ UNCHANGED needAuths
  BY DEF sendReserveAuth
<1>2. /\ mem \in MemType /\ seller \in SellerType /\ seller.accepted \in Nat
      /\ CallPlain(c, seller.accepted, seller.open)
  BY Parts, PaidTypes DEF Settling
<1>3. c.ceiling >= row.initialReserveAmount
  <2>1. c.ceiling >= maxReserveAmountUsdc
    BY <1>1, <1>2 DEF CallPlain
  <2>2. c.ceiling \in Nat
    BY <1>1, PaidTypes, PhaseTells DEF ReservingType
  <2> QED BY <2>1, <2>2, AmountsOK DEF OpeningKept
<1>4. ~CallPays(c, seller.spent)
  BY <1>1 DEF CallPays
<1> HIDE DEF limit
<1>5. /\ seller'.spent = seller.spent /\ seller'.accepted = seller.accepted
      /\ seller'.open = seller.open
  BY <1>1, <1>2 DEF SellerType
<1>6. /\ mem'.cumulativeAmount = mem.cumulativeAmount /\ mem'.reserveCeiling = c.ceiling
      /\ mem'.pendingReserveAuth = reserve
  <2> HIDE DEF c, reserve
  <2> QED BY <1>1, <1>2 DEF MemType
<1>7. reserve.maxAmount = c.ceiling
  OBVIOUS
<1>8. CallPlain(after, seller'.accepted, seller'.open)
  BY AfterwardsPlain
<1>9. seller.accepted <= seller'.accepted
  BY <1>2, <1>5
<1> HIDE DEF after, reserve
<1>10. Paying'
  BY <1>1, <1>4, <1>5, <1>9, PaysStep
<1>11. /\ mem'.cumulativeAmount <= seller'.accepted /\ ReservePlain(mem')
       /\ (seller'.open => seller.open /\ row'.active)
       /\ (~seller'.open => seller'.accepted >= seller'.spent)
  BY <1>1, <1>3, <1>5, <1>6, <1>7 DEF Settling, ReservePlain
<1> QED BY <1>1, <1>8, <1>9, <1>10, <1>11, SettleStep

(* A step of no handler that sends nothing. *)
LEMMA SettleIdle ==
  ASSUME BuyerInv, BuyerInv', OpeningKept, Settling, UNCHANGED <<call, needAuths>>,
         seller'.spent = seller.spent, seller'.accepted = seller.accepted,
         seller'.open = seller.open, row'.active = row.active,
         mem'.cumulativeAmount = mem.cumulativeAmount, ReservePlain(mem')
  PROVE  Settling'
<1> DEFINE c == call["close"]
<1>1. call' = [call EXCEPT !["close"] = c]
  BY PaidTypes
<1>2. /\ CallPlain(c, seller'.accepted, seller'.open) /\ seller.accepted <= seller'.accepted
      /\ mem'.cumulativeAmount <= seller'.accepted
      /\ (seller'.open => seller.open /\ row'.active)
      /\ (~seller'.open => seller'.accepted >= seller'.spent)
  BY PaidTypes, EndpointCalls DEF Settling
<1>3. UNCHANGED needAuths
  OBVIOUS
<1> HIDE DEF c
<1>4. CallPays(call["close"], seller.spent) =>
        CallPays(c, seller.spent) \/ seller'.accepted >= seller.spent
  BY DEF c
<1>5. Paying'
  BY <1>1, <1>2, <1>3, <1>4, EndpointCalls, PaysStep
<1> QED BY <1>1, <1>2, <1>5, EndpointCalls, SettleStep

LEMMA HandleAuthAckPaid ==
  ASSUME BuyerInv, BuyerInv', OpeningKept, Settling, handleAuthAck
  PROVE  Settling'
<1> DEFINE max == mem.pendingReserveAuth.maxAmount
<1>1. /\ max > 0
      /\ mem' = [mem EXCEPT !.reserveCeiling = max, !.pendingReserveAuth = NoReserve]
      /\ row' = [row EXCEPT !.reserveAuthPending = FALSE, !.confirmedReserveAmount = max]
      /\ UNCHANGED <<call, needAuths>> /\ seller' = seller
  BY DEF handleAuthAck
<1>2. mem \in MemType /\ row \in Rows /\ max \in Nat
  BY Parts, PaidTypes
<1>3. max >= row.initialReserveAmount
  BY <1>1, <1>2 DEF Settling, ReservePlain
<1> HIDE DEF max
<1>4. /\ mem'.cumulativeAmount = mem.cumulativeAmount /\ mem'.reserveCeiling = max
      /\ mem'.pendingReserveAuth = NoReserve /\ row'.active = row.active
  BY <1>1, <1>2 DEF MemType, Rows
<1>5. ReservePlain(mem')
  BY <1>3, <1>4 DEF ReservePlain, NoReserve
<1> QED BY <1>1, <1>4, <1>5, SettleIdle

LEMMA RequestClosePaid ==
  ASSUME BuyerInv, BuyerInv', OpeningKept, Settling, requestChannelClose
  PROVE  Settling'
<1> DEFINE signed == [phase |-> "signed"]
           next == IF lastResponse = None THEN signed ELSE signPerRequestAuth
<1>1. /\ call' = [call EXCEPT !["close"] = next] /\ row' = row /\ row.active
      /\ UNCHANGED <<mem, needAuths, seller>> /\ call["close"] = Idle
  BY EndpointCalls DEF requestChannelClose, running
<1>2. CallPlain(signed, seller.accepted, seller.open)
  BY PlainCall
<1>3. CallPlain(signPerRequestAuth, seller.accepted, seller.open)
  BY <1>1, SigningPlain DEF signPerRequestAuth
<1>4. CallPlain(next, seller.accepted, seller.open)
  BY <1>2, <1>3
<1>5. ~CallPays(call["close"], seller.spent)
  BY <1>1, IdlePaysNothing
<1>6. seller.open => row'.active
  BY <1>1
<1> HIDE DEF next
<1> QED BY <1>1, <1>4, <1>5, <1>6, EndpointCalls, SettleHandler

LEMMA BuildClosePaid ==
  ASSUME BuyerInv, BuyerInv', OpeningKept, Settling, buildCloseChannelRequest
  PROVE  Settling'
<1>1. PICK capped \in {FALSE, mem.cumulativeAmount > seller.deposit} :
        call' = [call EXCEPT !["close"] =
          [phase |-> "closing", session |-> row, capped |-> capped,
           amount |-> IF capped THEN seller.deposit ELSE mem.cumulativeAmount]]
  BY DEF buildCloseChannelRequest
<1> DEFINE amount == IF capped THEN seller.deposit ELSE mem.cumulativeAmount
           c == [phase |-> "closing", session |-> row, capped |-> capped, amount |-> amount]
<1>2. UNCHANGED <<mem, needAuths, seller>> /\ row' = row /\ call["close"].phase = "signed"
  BY DEF buildCloseChannelRequest
<1>3. seller.open => row.active
  BY DEF Settling
<1>4. call' = [call EXCEPT !["close"] = c]
  BY <1>1
<1> HIDE DEF amount
<1>5. CallPlain(c, seller.accepted, seller.open)
  BY <1>3 DEF CallPlain
<1>6. ~CallPays(call["close"], seller.spent)
  BY <1>2 DEF CallPays
<1>7. seller.open => row'.active
  BY <1>2, <1>3
<1> HIDE DEF c
<1> QED BY <1>2, <1>4, <1>5, <1>6, <1>7, EndpointCalls, SettleHandler

LEMMA SendClosePaid ==
  ASSUME BuyerInv, BuyerInv', OpeningKept, Settling, sendCloseChannelRequest
  PROVE  Settling'
<1> DEFINE c == call["close"]
           accepted == Greatest(seller.accepted, c.amount)
           committed == IF c.capped THEN row ELSE c.session
           stillOpen == seller.spent > accepted
           frame == needAuth(None, seller.spent, 0)
<1>1. /\ c.phase = "closing" /\ call' = [call EXCEPT !["close"] = Idle]
      /\ seller' = [seller EXCEPT !.accepted = accepted, !.open = stillOpen]
      /\ \/ /\ stillOpen /\ needAuths' = Append(needAuths, frame) /\ row' = committed
            /\ mem' = mem
         \/ /\ ~stillOpen /\ mem' = cleanedUp(mem)
  BY DEF sendCloseChannelRequest
<1>2. /\ c \in CallType /\ row \in Rows /\ mem \in MemType /\ seller \in SellerType
      /\ CallPlain(c, seller.accepted, seller.open) /\ seller.accepted \in Nat
      /\ seller.spent \in Nat /\ needAuths \in Seq(FrameType)
      /\ seller.open \in BOOLEAN
  BY Parts, PaidTypes, EndpointCalls DEF Settling
<1>3. c.amount \in Nat /\ (seller.open => c.session.active)
  <2> HIDE DEF c
  <2>1. c \in ClosingType
    BY <1>1, <1>2, PhaseTells
  <2> QED BY <1>1, <1>2, <2>1 DEF ClosingType, CallPlain
<1>4. accepted \in Nat /\ seller.accepted <= accepted
  BY <1>2, <1>3 DEF Greatest
<1>5. stillOpen => seller.open
  BY <1>2, <1>4 DEF Settling
<1>6. seller.open => committed.active
  BY <1>3 DEF Settling
<1>7. frame \in FrameType /\ frame.required = seller.spent
  BY <1>2, NeedAuthType DEF needAuth
<1> HIDE DEF c, committed, frame, accepted
<1>8. /\ seller'.spent = seller.spent /\ seller'.accepted = accepted
      /\ seller'.open = stillOpen
  BY <1>1, <1>2 DEF SellerType
<1>9. CASE stillOpen
  <2>1. \E i \in 1..Len(needAuths') : needAuths'[i] = frame
    BY <1>1, <1>2, <1>7, <1>9, FrameSent
  <2>2. PICK i \in 1..Len(needAuths') : needAuths'[i].required = seller.spent
    BY <1>7, <2>1
  <2>3. needAuths'[i].required >= seller'.spent
    BY <1>2, <1>8, <2>2
  <2>4. Paying'
    BY <2>3 DEF Paying
  <2>5. /\ mem'.cumulativeAmount <= seller'.accepted /\ ReservePlain(mem')
        /\ row'.active /\ seller.open
    <3>1. mem.cumulativeAmount <= seller.accepted /\ ReservePlain(mem)
      BY DEF Settling
    <3>2. mem.cumulativeAmount <= accepted
      BY <1>2, <1>4, <3>1, PaidTypes
    <3> QED BY <1>1, <1>5, <1>6, <1>8, <1>9, <3>1, <3>2
  <2>6. CallPlain(Idle, seller'.accepted, seller'.open)
    BY PlainCall DEF Idle
  <2>7. /\ seller.accepted <= seller'.accepted /\ seller'.open
    BY <1>4, <1>8, <1>9
  <2> QED BY <1>1, <2>4, <2>5, <2>6, <2>7, EndpointCalls, SettleStep
<1>10. CASE ~stillOpen
  <2>1. seller'.accepted >= seller'.spent
    BY <1>2, <1>4, <1>8, <1>10
  <2>2. Paying'
    BY <2>1 DEF Paying
  <2>3. /\ mem'.cumulativeAmount = 0 /\ mem'.reserveCeiling = maxReserveAmountUsdc
        /\ mem'.pendingReserveAuth = NoReserve
    BY <1>1, <1>2, <1>10, RetiredOwed
  <2>4. mem'.cumulativeAmount <= seller'.accepted /\ ReservePlain(mem')
    BY <1>4, <1>8, <2>3, AmountsOK DEF ReservePlain, NoReserve, OpeningKept
  <2>5. CallPlain(Idle, seller'.accepted, seller'.open)
    BY PlainCall DEF Idle
  <2>6. seller.accepted <= seller'.accepted /\ ~seller'.open
    BY <1>4, <1>8, <1>10
  <2> QED BY <1>1, <2>1, <2>2, <2>4, <2>5, <2>6, EndpointCalls, SettleStep
<1> QED BY <1>9, <1>10

LEMMA CloseNotAnsweredPaid ==
  ASSUME BuyerInv, BuyerInv', OpeningKept, Settling, closeNotAnswered
  PROVE  Settling'
<1> DEFINE c == call["close"]
           accepted == Greatest(seller.accepted, c.amount)
           committed == IF c.capped THEN row ELSE c.session
           closed == [seller EXCEPT !.accepted = accepted, !.open = FALSE]
<1>1. /\ c.phase = "closing" /\ call' = [call EXCEPT !["close"] = Idle] /\ row' = committed
      /\ seller' = seller \/ (seller' = closed /\ seller.spent <= accepted)
      /\ mem' = mem /\ UNCHANGED needAuths
  BY DEF closeNotAnswered
<1>2. /\ c \in CallType /\ seller \in SellerType /\ CallPlain(c, seller.accepted, seller.open)
      /\ seller.accepted \in Nat /\ seller.spent \in Nat /\ mem.cumulativeAmount \in Nat
  BY Parts, PaidTypes, EndpointCalls DEF Settling
<1>3. c.amount \in Nat /\ (seller.open => c.session.active)
  <2> HIDE DEF c
  <2>1. c \in ClosingType
    BY <1>1, <1>2, PhaseTells
  <2> QED BY <1>1, <1>2, <2>1 DEF ClosingType, CallPlain
<1>4. accepted \in Nat /\ seller.accepted <= accepted
  BY <1>2, <1>3 DEF Greatest
<1>5. /\ seller.open => committed.active
      /\ mem.cumulativeAmount <= seller.accepted /\ ReservePlain(mem)
      /\ ~seller.open => seller.accepted >= seller.spent
  BY <1>3 DEF Settling
<1>6. ~CallPays(c, seller.spent)
  BY <1>1 DEF CallPays
<1>7. \A a, o : CallPlain(Idle, a, o)
  BY PlainCall DEF Idle
<1> HIDE DEF accepted, committed
<1>8. CASE seller' = seller
  <2>1. UNCHANGED <<mem, seller, needAuths>> /\ (seller.open => row'.active)
    BY <1>1, <1>5, <1>8
  <2> QED BY <1>1, <1>6, <1>7, <2>1, EndpointCalls, SettleHandler
<1>9. CASE seller' = closed /\ seller.spent <= accepted
  <2>1. /\ seller'.spent = seller.spent /\ seller'.accepted = accepted /\ ~seller'.open
    BY <1>2, <1>9 DEF SellerType
  <2>2. seller'.accepted >= seller'.spent
    BY <1>2, <1>4, <1>9, <2>1
  <2>3. Paying'
    BY <2>2 DEF Paying
  <2>4. /\ seller.accepted <= seller'.accepted /\ mem'.cumulativeAmount <= seller'.accepted
        /\ ReservePlain(mem')
    BY <1>1, <1>2, <1>4, <1>5, <2>1
  <2> QED BY <1>1, <1>7, <2>1, <2>2, <2>3, <2>4, EndpointCalls, SettleStep
<1> QED BY <1>1, <1>8, <1>9

LEMMA ServeRequestPaid ==
  ASSUME BuyerInv, BuyerInv', OpeningKept, Settling, NEW r \in Requests, serveRequest(r)
  PROVE  Settling'
<1> DEFINE price == seller.price[r]
           served == seller.served \cup {r}
           spent == seller.spent + price
           frame == needAuth(r, spent, price)
           c == call["close"]
<1>1. /\ seller' = [seller EXCEPT !.served = served, !.spent = spent] /\ seller.open
      /\ needAuths' = Append(needAuths, frame) /\ row.active
      /\ mem' = mem /\ row' = row /\ call' = call
  BY DEF serveRequest
<1>2. /\ seller \in SellerType /\ seller.spent \in Nat /\ needAuths \in Seq(FrameType)
      /\ seller.accepted \in Nat /\ call \in [Calls -> CallType]
  BY Parts, PaidTypes
<1>3. price \in Nat /\ spent \in Nat
  <2>1. price \in Nat
    BY <1>2 DEF SellerType
  <2> HIDE DEF price
  <2> QED BY <1>2, <2>1
<1> HIDE DEF price, served, spent
<1>4. frame \in FrameType /\ frame.required = spent
  BY <1>3, NeedAuthType DEF needAuth
<1> HIDE DEF frame
<1>5. /\ seller'.spent = spent /\ seller'.accepted = seller.accepted
      /\ seller'.open = seller.open
  BY <1>1, <1>2 DEF SellerType
<1>6. \E i \in 1..Len(needAuths') : needAuths'[i] = frame
  BY <1>1, <1>2, <1>4, FrameSent
<1>7. PICK i \in 1..Len(needAuths') : needAuths'[i].required = spent
  BY <1>4, <1>6
<1>8. needAuths'[i].required >= seller'.spent
  BY <1>3, <1>5, <1>7
<1>9. Paying'
  BY <1>8 DEF Paying
<1>10. call' = [call EXCEPT !["close"] = c]
  BY <1>1, <1>2
<1>11. /\ seller.accepted <= seller'.accepted /\ mem'.cumulativeAmount <= seller'.accepted
       /\ ReservePlain(mem') /\ seller'.open /\ row'.active
       /\ CallPlain(c, seller'.accepted, seller'.open)
  <2>1. /\ CallPlain(c, seller.accepted, seller.open) /\ ReservePlain(mem)
        /\ mem.cumulativeAmount <= seller.accepted
    BY EndpointCalls DEF Settling
  <2> HIDE DEF c
  <2>2. seller.open /\ row.active /\ mem' = mem /\ row' = row
    BY <1>1
  <2>3. seller.accepted <= seller'.accepted
    BY <1>2, <1>5
  <2>4. /\ CallPlain(c, seller'.accepted, seller'.open) /\ ReservePlain(mem')
        /\ mem'.cumulativeAmount <= seller'.accepted
    BY <1>5, <2>1, <2>2
  <2> QED BY <1>5, <2>2, <2>3, <2>4
<1> HIDE DEF c
<1> QED BY <1>1, <1>9, <1>10, <1>11, EndpointCalls, SettleStep

(* The other steps of the seller and of the node. *)
LEMMA QuietPaid ==
  ASSUME BuyerInv, BuyerInv', OpeningKept, Settling,
         (\E r \in Requests : receiveResponse(r)) \/ reserveOrTopUp \/ UNCHANGED vars
  PROVE  Settling'
<1>1. /\ UNCHANGED <<call, needAuths>> /\ row' = row /\ mem' = mem
      /\ UNCHANGED seller \/ seller' = [seller EXCEPT !.deposit = seller.signedReserve]
  BY DEF receiveResponse, reserveOrTopUp, vars
<1>2. seller \in SellerType
  BY Parts
<1>3. /\ seller'.open = seller.open /\ seller'.spent = seller.spent
      /\ seller'.accepted = seller.accepted
  BY <1>1, <1>2 DEF SellerType
<1>4. ReservePlain(mem')
  BY <1>1 DEF Settling
<1> QED BY <1>1, <1>3, <1>4, SettleIdle

(* What disturbs the payment of what was served is not undone. *)
LEMMA DisturbedStays ==
  ASSUME BuyerInv, OweInv, BuyerInv', OweInv', OpeningKept, [Next]_vars, Undisturbed'
  PROVE  Undisturbed
<1>1. /\ extends \in Nat /\ restarts \in Nat /\ extends' \in Nat /\ restarts' \in Nat
      /\ seller.spent \in Nat /\ seller'.spent \in Nat /\ seller \in SellerType
      /\ disputed \in BOOLEAN
  <2>1. extends' \in Nat /\ restarts' \in Nat
    BY DEF OweInv
  <2> QED BY <2>1, OweParts, PaidTypes, PaidTypesNext, Parts
<1> DEFINE Grows == /\ (disputed => disputed') /\ extends <= extends' /\ restarts <= restarts'
                    /\ seller.spent <= seller'.spent
<1>2. SUFFICES Grows
  <2>1. SUFFICES ASSUME Grows PROVE Undisturbed
    OBVIOUS
  <2>2. ~disputed
    BY <2>1 DEF Undisturbed
  <2>3. /\ restarts' = 0 /\ extends' = 0 /\ seller'.spent <= row'.initialReserveAmount
        /\ seller'.spent <= maxPerRequestUsdc
    BY DEF Undisturbed
  <2>4. /\ restarts = 0 /\ extends = 0 /\ seller.spent <= row.initialReserveAmount
        /\ seller.spent <= maxPerRequestUsdc
    BY <1>1, <2>1, <2>3, AmountsOK DEF OpeningKept
  <2> QED BY <2>2, <2>4 DEF Undisturbed
<1> DEFINE Still == UNCHANGED <<extends, restarts>> /\ seller'.spent = seller.spent
<1>3. ASSUME Still, disputed => disputed' PROVE Grows
  BY <1>1, <1>3
<1>4. \A amount : send(amount) => seller'.spent = seller.spent
  BY <1>1 DEF send, SellerType
<1>5. ASSUME NEW id \in Calls, finishNeedAuth(id) PROVE Grows
  BY <1>3, <1>4, <1>5 DEF finishNeedAuth
<1>6. ASSUME NEW id \in Calls, sendReserveAuth(id) PROVE Grows
  <2>1. Still /\ UNCHANGED disputed
    BY <1>1, <1>6 DEF sendReserveAuth, SellerType
  <2> QED BY <1>3, <2>1
<1>7. CASE finishPerRequestAuth
  BY <1>3, <1>4, <1>7 DEF finishPerRequestAuth
<1>8. ASSUME NEW keepsReserve \in BOOLEAN, restart(keepsReserve) PROVE Grows
  BY <1>1, <1>8 DEF restart
<1>9. CASE handleNeedAuth
  BY <1>3, <1>9 DEF handleNeedAuth
<1>10. ASSUME NEW id \in Calls,
              resumeNeedAuth(id) \/ commitAuthorization(id) \/ topUpReserve(id)
       PROVE  Grows
  BY <1>3, <1>10 DEF resumeNeedAuth, commitAuthorization, topUpReserve
<1>11. CASE handleAuthAck \/ endRecovery \/ requestChannelClose \/ buildCloseChannelRequest
  BY <1>3, <1>11 DEF handleAuthAck, endRecovery, requestChannelClose, buildCloseChannelRequest
<1>12. CASE handle402
  <2>1. extends' = extends + 1 /\ UNCHANGED <<restarts, disputed, seller>>
    BY <1>12 DEF handle402
  <2> QED BY <1>1, <2>1
<1>c. CASE reconcileReserveAmount
  <2>1. UNCHANGED <<extends, restarts, disputed>>
    BY <1>c DEF reconcileReserveAmount
  <2>2. seller' = [seller EXCEPT !.signedReserve =
                     Greatest(seller.signedReserve, mem.pendingReserveAuth.maxAmount)]
    BY <1>c DEF reconcileReserveAmount
  <2>3. seller'.spent = seller.spent
    BY <1>1, <2>2 DEF SellerType
  <2> QED BY <1>3, <2>1, <2>3
<1>13. ASSUME NEW n, extendCurrentSpendingAuth(n) PROVE Grows
  <2>1. UNCHANGED <<extends, restarts, disputed>>
    BY <1>13 DEF extendCurrentSpendingAuth
  <2>2. UNCHANGED seller
    BY <1>13 DEF extendCurrentSpendingAuth
  <2> QED BY <1>3, <2>1, <2>2
<1>r. CASE resendCurrentSpendingAuth
  BY <1>3, <1>4, <1>r DEF resendCurrentSpendingAuth
<1>14. CASE sendCloseChannelRequest \/ closeNotAnswered
  <2>1. UNCHANGED <<extends, restarts, disputed>>
    BY <1>14 DEF sendCloseChannelRequest, closeNotAnswered
  <2>2. UNCHANGED seller \/ \E a, o : seller' = [seller EXCEPT !.accepted = a, !.open = o]
    BY <1>14 DEF sendCloseChannelRequest, closeNotAnswered
  <2>3. seller'.spent = seller.spent
    BY <1>1, <2>2 DEF SellerType
  <2> QED BY <1>3, <2>1, <2>3
<1>15. ASSUME NEW r \in Requests, serveRequest(r) PROVE Grows
  <2> DEFINE price == seller.price[r]
             served == seller.served \cup {r}
             spent == seller.spent + price
  <2>1. /\ UNCHANGED <<extends, restarts, disputed>>
        /\ seller' = [seller EXCEPT !.served = served, !.spent = spent]
    BY <1>15 DEF serveRequest
  <2>2. price \in Nat
    BY <1>1 DEF SellerType
  <2> HIDE DEF price, served
  <2>3. seller'.spent = spent
    BY <1>1, <2>1 DEF SellerType
  <2> QED BY <1>1, <2>1, <2>2, <2>3
<1>16. ASSUME NEW r \in Requests, receiveResponse(r) PROVE Grows
  BY <1>3, <1>16 DEF receiveResponse
<1>17. CASE reserveOrTopUp
  <2>1. Still /\ UNCHANGED disputed
    BY <1>1, <1>17 DEF reserveOrTopUp, SellerType
  <2> QED BY <1>3, <2>1
<1>18. CASE UNCHANGED vars
  BY <1>3, <1>18 DEF vars
<1> HIDE DEF Grows, Still
<1> QED
  BY <1>5, <1>6, <1>7, <1>8, <1>9, <1>10, <1>11, <1>12, <1>13, <1>14, <1>15, <1>16, <1>17, <1>18,
     <1>c, <1>r
  DEF Next

LEMMA InitPaid == Init => PaidInv
<1> SUFFICES ASSUME Init PROVE Settling
  BY DEF PaidInv
<1>1. /\ seller.accepted = 0 /\ seller.spent = 0 /\ seller.open
  BY DEF Init
<1>2. /\ mem.cumulativeAmount = 0 /\ mem.reserveCeiling = row.initialReserveAmount
      /\ mem.pendingReserveAuth.maxAmount = row.initialReserveAmount /\ row.active
      /\ call = [id \in Calls |-> Idle]
  BY DEF Init
<1>3. CallPlain(Idle, seller.accepted, seller.open)
  BY PlainCall DEF Idle
<1>4. \A id \in Calls : call[id] = Idle
  BY <1>2
<1>5. Paying
  BY <1>1 DEF Paying
<1>6. ReservePlain(mem)
  <2>1. row.initialReserveAmount \in Nat
    BY InitInv, Parts DEF Rows
  <2> QED BY <1>2, <2>1 DEF ReservePlain
<1>7. mem.cumulativeAmount <= seller.accepted
  BY <1>1, <1>2
<1> QED BY <1>1, <1>2, <1>3, <1>4, <1>5, <1>6, <1>7 DEF Settling

LEMMA NextPaid ==
  ASSUME BuyerInv, OweInv, OpeningInv, PaidInv, [Next]_vars
  PROVE  PaidInv'
<1>0. BuyerInv' /\ OweInv' /\ OpeningKept
  BY NextInv, NextOwed, NextOpening
<1> SUFFICES ASSUME Undisturbed' PROVE Settling'
  BY DEF PaidInv
<1>u. Undisturbed /\ Settling
  BY <1>0, DisturbedStays DEF PaidInv
<1>e. /\ extends = 0 /\ extends' = 0 /\ restarts = 0 /\ restarts' = 0 /\ call["extend"] = Idle
  BY <1>u, OweParts DEF Undisturbed
<1>1. ASSUME NEW id \in Calls, finishNeedAuth(id) \/ sendReserveAuth(id) PROVE Settling'
  BY <1>0, <1>u, <1>1, FinishNeedAuthPaid, SendReserveAuthPaid
<1>2. CASE finishPerRequestAuth
  BY <1>0, <1>u, <1>2, FinishPerRequestPaid
<1>3. ASSUME NEW keepsReserve \in BOOLEAN, restart(keepsReserve) PROVE FALSE
  BY <1>e, <1>3 DEF restart
<1>4. CASE handleNeedAuth
  BY <1>0, <1>u, <1>4, HandleNeedAuthPaid
<1>5. ASSUME NEW id \in Calls,
             resumeNeedAuth(id) \/ commitAuthorization(id) \/ topUpReserve(id)
      PROVE  Settling'
  BY <1>0, <1>u, <1>5, ResumeNeedAuthPaid, CommitPaid, TopUpReservePaid
<1>6. CASE handleAuthAck
  BY <1>0, <1>u, <1>6, HandleAuthAckPaid
<1>7. CASE handle402
  BY <1>e, <1>7 DEF handle402
<1>15. CASE reconcileReserveAmount
  BY <1>e, <1>15 DEF reconcileReserveAmount, Idle
<1>8. ASSUME NEW n, extendCurrentSpendingAuth(n) PROVE FALSE
  BY <1>e, <1>8 DEF extendCurrentSpendingAuth, Idle
<1>9. CASE resendCurrentSpendingAuth \/ endRecovery
  BY <1>e, <1>9 DEF resendCurrentSpendingAuth, endRecovery, Idle
<1>10. CASE requestChannelClose
  BY <1>0, <1>u, <1>10, RequestClosePaid
<1>11. CASE buildCloseChannelRequest
  BY <1>0, <1>u, <1>11, BuildClosePaid
<1>12. CASE sendCloseChannelRequest \/ closeNotAnswered
  BY <1>0, <1>u, <1>12, SendClosePaid, CloseNotAnsweredPaid
<1>13. ASSUME NEW r \in Requests, receiveResponse(r) \/ serveRequest(r) PROVE Settling'
  BY <1>0, <1>u, <1>13, QuietPaid, ServeRequestPaid
<1>14. CASE reserveOrTopUp \/ UNCHANGED vars
  BY <1>0, <1>u, <1>14, QuietPaid
<1> QED
  BY <1>1, <1>2, <1>3, <1>4, <1>5, <1>6, <1>7, <1>8, <1>9, <1>10, <1>11, <1>12, <1>13, <1>14,
     <1>15
  DEF Next

(* Once every handler has ended, the seller holds an authorization for all *)
(* it served, whatever rows and amounts the handlers wrote over each other *)
(* between their awaits: for any number of requests, at any prices that    *)
(* fit the window and the opening reserve.                                 *)
THEOREM ServedIsPaidCorrect == Spec => []ServedIsPaid
<1> DEFINE Inv == BuyerInv /\ OweInv /\ OpeningInv /\ PaidInv
<1>1. Init => Inv
  BY InitInv, InitOwed, InitOpening, InitPaid
<1>2. Inv /\ [Next]_vars => Inv'
  BY NextInv, NextOwed, NextOpening, NextPaid
<1>3. ASSUME Inv PROVE ServedIsPaid
  <2>1. SUFFICES ASSUME \A id \in Calls : ~running(id), needAuths = <<>>, Undisturbed
                 PROVE  seller.accepted >= seller.spent
    BY DEF ServedIsPaid, Undisturbed
  <2>2. Paying
    BY <1>3, <2>1 DEF PaidInv, Settling
  <2>3. \A id \in Calls : ~CallPays(call[id], seller.spent)
    BY <2>1, IdlePaysNothing DEF running
  <2>4. ~\E i \in 1..Len(needAuths) : needAuths[i].required >= seller.spent
    BY <2>1
  <2> QED BY <2>2, <2>3, <2>4 DEF Paying
<1> QED BY <1>1, <1>2, <1>3, PTL DEF Spec
=============================================================================
