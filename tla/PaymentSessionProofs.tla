------------------------ MODULE PaymentSessionProofs ------------------------
(***************************************************************************)
(* Proofs about the seller's node and its session with one buyer.          *)
(***************************************************************************)
EXTENDS PaymentSession, SequenceTheorems, SumTheorems

----------------------------------------------------------------------------
(* The invariant is a predicate on the node's record n, the channel's      *)
(* record c, the wire w and the buyer b, because a handler is a function   *)
(* of the node's record and is proved about as one.                        *)

MemType ==
  [accepted: Nat \cup {Absent}, spent: Nat \cup {Absent}, latestAuth: Nat, sig: Nat,
   reserveMax: Nat, pendingTopUp: Nat, blocked: BOOLEAN, retries: 0..MAX_CLOSE_RETRIES,
   hydrated: BOOLEAN]

RowType ==
  [status: {"none", "active", "settled", "timeout"}, authMax: Nat, sig: Nat,
   tokensDelivered: Nat, reserveMax: Nat, expired: BOOLEAN, settledAt: BOOLEAN,
   recorded: Nat \cup {Absent}]

MessageType(kinds, ats) ==
  [kind: kinds, amount: Nat, fresh: BOOLEAN, at: ats, max: Nat, settle: Nat, sig: Nat,
   reactivates: BOOLEAN]

AuthType == MessageType({"reserve", "auth"},
                        {"lock", "reserve", "topUp", "close", "recovery", "validation"})

WireType == MessageType({"reserve", "auth", "close"}, {"lock"})

WaiterType ==
  [who: Settlers \cup Zombies \cup TimedOut \cup Requested, retries: 0..MAX_CLOSE_RETRIES]

ClosingType == [amount: Nat \cup {Absent}, sig: Nat, waiters: Seq(WaiterType), late: BOOLEAN]
CoopType == [at: {"none", "auths", "catchUp", "chain", "close"}, amount: Nat, ahead: Nat]
CheckingType == [at: {"none", "active", "timedOut", "close"}, accepted: Nat,
                 expired: BOOLEAN, sig: Nat]
ParkedType == [spent: Nat, reserveMax: Nat, blocked: BOOLEAN, atLimit: BOOLEAN]

NodeType ==
  [mem: MemType, stored: RowType, activeBuyer: BOOLEAN, auths: Seq(AuthType),
   closing: ClosingType, idleClose: {"none", "draining", "closing"}, coop: CoopType,
   checking: CheckingType, idleTimer: BOOLEAN, inFlight: Nat, uncounted: Nat,
   waiting: Seq(Nat), parked: Seq(ParkedType),
   attempts: 0..TIMED_OUT_AUTH_CLOSE_ATTEMPTS, starting: {"done", "channels", "poller"}]

ChannelType ==
  [status: {"none", "active", "settled", "timedOut"}, deposit: Nat, settled: Nat,
   closeRequested: BOOLEAN]

BuyerType == [opened: BOOLEAN, signed: Nat, ceiling: Nat]

Tracked(n) == n.mem.accepted # Absent
IsActive(n) == n.stored.status = "active"
HeadAt(n, at) == n.auths # <<>> /\ n.auths[1].at = at
Awaited(n, whos) == \E i \in DOMAIN n.closing.waiters : n.closing.waiters[i].who \in whos
Ended(c) == c.status \in {"settled", "timedOut"}

(* The requests and the auths counted against a bound are really there.    *)
Counted(n) ==
  /\ n.inFlight + n.uncounted + Len(n.waiting) + Len(n.parked) <= MaxInFlight
  /\ n.coop.ahead <= Len(n.auths)

(* The node does nothing for a channel that is not on chain.               *)
OnChain(n, c) ==
  c.status = "none" =>
    /\ n.stored.status = "none" /\ ~Tracked(n) /\ n.closing = NoClose
    /\ n.checking.at = "none" /\ n.coop.at = "none" /\ n.starting # "channels"
    /\ n.stored.authMax = 0 /\ c.deposit = 0 /\ c.settled = 0

Reserved(n, c) == n.mem.reserveMax <= c.deposit /\ n.stored.reserveMax <= c.deposit

Settlements(n, c) ==
  /\ n.stored.status = "settled" => Ended(c)
  /\ n.stored.settledAt => Ended(c) /\ n.stored.recorded = c.settled
  /\ n.stored.recorded # Absent => n.stored.recorded <= c.settled

(* The authorization in memory is the stored one, and what was settled     *)
(* with it is not above it.                                                *)
Authorizations(n, c) ==
  /\ Tracked(n) => n.stored.authMax = n.mem.accepted
  /\ IsActive(n) /\ ~Tracked(n) => n.stored.authMax = 0
  /\ n.activeBuyer => Tracked(n)
  /\ ~Tracked(n) => orZero(n.mem.spent) <= c.settled
  /\ Tracked(n) => \/ n.mem.latestAuth = n.mem.accepted /\ n.mem.sig = n.mem.accepted
                   \/ n.mem.accepted <= c.settled
  /\ n.stored.sig = n.stored.authMax \/ n.stored.authMax <= c.settled
  /\ c.settled <= n.stored.authMax
  /\ n.mem.latestAuth <= n.stored.authMax
  /\ n.closing.amount <= n.stored.authMax
  /\ n.checking.at = "timedOut" => n.checking.accepted <= n.stored.authMax
  /\ HeadAt(n, "topUp") => n.auths[1].settle <= n.stored.authMax

(* Served work: each request being served is counted with the bound on its *)
(* cost, and so are those that wait, in their order: when the first ends   *)
(* its wait it takes the place of one being served, and the others move up *)
(* by one.                                                                 *)
Load(k) == k * MaxCost

Exposure(n) ==
  /\ Tracked(n) /\ n.mem.spent # Absent =>
       /\ n.mem.spent <= n.mem.accepted + Load(MaxInFlight)
       /\ IsActive(n) =>
            n.mem.spent + Load(n.inFlight + n.uncounted) <= n.mem.accepted + Load(MaxInFlight)
       /\ IsActive(n) => \A i \in DOMAIN n.parked :
            \/ n.mem.spent + Load(n.inFlight + n.uncounted + i)
                 <= n.mem.accepted + Load(MaxInFlight)
            \/ n.mem.spent + Load(n.inFlight + n.uncounted + i)
                 <= n.parked[i].spent + Load(MaxInFlight)
  /\ IsActive(n) => n.stored.tokensDelivered <= n.stored.authMax + Load(MaxInFlight)

(* Amounts arrive in the order in which they were signed.                  *)
isAuth(m) == m.kind = "auth"

Ordered(n, w, b) ==
  /\ \A i, j \in DOMAIN n.auths :
       i < j /\ isAuth(n.auths[i]) /\ isAuth(n.auths[j])
         => n.auths[i].amount <= n.auths[j].amount
  /\ \A i \in DOMAIN n.auths, j \in DOMAIN w :
       isAuth(n.auths[i]) /\ isAuth(w[j]) => n.auths[i].amount <= w[j].amount
  /\ \A i, j \in DOMAIN w :
       i < j /\ w[i].kind # "reserve" /\ isAuth(w[j]) => w[i].amount <= w[j].amount
  /\ \A i \in DOMAIN n.auths : isAuth(n.auths[i]) => /\ n.auths[i].amount <= b.signed
                                                     /\ n.stored.authMax <= n.auths[i].amount
  /\ \A i \in DOMAIN w : /\ w[i].kind # "reserve" => w[i].amount <= b.signed
                         /\ isAuth(w[i]) => n.stored.authMax <= w[i].amount
  /\ n.stored.authMax <= b.signed
  /\ n.coop.at = "auths" =>
       /\ n.coop.amount <= b.signed
       /\ \A i \in DOMAIN n.auths :
            i > n.coop.ahead /\ isAuth(n.auths[i]) => n.coop.amount <= n.auths[i].amount
       /\ \A i \in DOMAIN w : isAuth(w[i]) => n.coop.amount <= w[i].amount

(* Only the head of the queue is being processed, and as what it is.       *)
Queued(n) ==
  /\ \A i \in DOMAIN n.auths : n.auths[i].at # "lock" => i = 1
  /\ HeadAt(n, "recovery") => isAuth(n.auths[1]) /\ ~n.activeBuyer
  /\ Awaited(n, {"topUp"}) => HeadAt(n, "close")

(* Who awaits a close, and what each was allowed to come for.              *)
Checkers == {"checkTimeouts", "zombie"} \cup TimedOut

Waiting(n) ==
  LET ws == n.closing.waiters
  IN  /\ n.closing = NoClose \/ (ws # <<>> /\ n.closing.amount # Absent)
      /\ \A i \in DOMAIN ws : ws[i].who \in Zombies => ws[i].retries < MAX_CLOSE_RETRIES
      /\ \A i, j \in DOMAIN ws : ws[i].who \in Checkers /\ ws[j].who \in Checkers => i = j
      /\ Awaited(n, Checkers) => n.checking.at = "close"
      /\ Awaited(n, {"timedOutAuth"}) => n.attempts < TIMED_OUT_AUTH_CLOSE_ATTEMPTS

(* While a close granted to the buyer is in flight nothing that is counted *)
(* can be billed.                                                          *)
GrantedTo(n, who) == n.closing # NoClose /\ n.closing.waiters[1].who = who

Unbillable(n, c) ==
  /\ ~IsActive(n)
  /\ c.closeRequested \/ (Tracked(n) /\ ~HeadAt(n, "recovery"))

Granted(n, c) ==
  /\ GrantedTo(n, "coop") =>
       /\ \/ n.closing.late
          \/ orZero(n.mem.spent) <= n.closing.amount \/ orZero(n.mem.spent) <= c.settled
       /\ n.inFlight = 0 \/ Unbillable(n, c)
  /\ Tracked(n) /\ ~IsActive(n) => n.checking.at # "active"

SessionInv(n, c, w, b) ==
  /\ Counted(n)
  /\ OnChain(n, c)
  /\ Reserved(n, c)
  /\ Settlements(n, c)
  /\ Authorizations(n, c)
  /\ Exposure(n)
  /\ Ordered(n, w, b)
  /\ Queued(n)
  /\ Waiting(n)
  /\ Granted(n, c)

WorldTyped ==
  /\ ch \in ChannelType
  /\ needAuth \in Nat
  /\ connected \in BOOLEAN
  /\ closeEvent \in BOOLEAN
  /\ txFailures \in 0..MaxTxFailures
  /\ closeEvent => ch.closeRequested

Typed ==
  /\ node \in NodeType
  /\ WorldTyped
  /\ wire \in Seq(WireType)
  /\ buyer \in BuyerType
  /\ Len(wire) <= MaxWire

Inv == Typed /\ SessionInv(node, ch, wire, buyer)

----------------------------------------------------------------------------
LEMMA ForgottenType == Forgotten \in MemType
BY SellerAssumption DEF Forgotten, MemType

(* s holds the messages of t; only what the head is doing may differ. *)
SameMessages(s, t) ==
  /\ DOMAIN s = DOMAIN t /\ Len(s) = Len(t)
  /\ \A i \in DOMAIN s : s[i].kind = t[i].kind /\ s[i].amount = t[i].amount
  /\ \A i \in DOMAIN s : i # 1 => s[i].at = t[i].at

(* ... and the head is doing the same. *)
SameAuths(s, t) ==
  /\ SameMessages(s, t)
  /\ \A i \in DOMAIN s : s[i].at = t[i].at /\ s[i].settle = t[i].settle

(* As many requests, and those that wait have read the same. *)
SameRequests(m, n) ==
  /\ m.inFlight = n.inFlight /\ m.uncounted = n.uncounted
  /\ Len(m.waiting) = Len(n.waiting) /\ m.parked = n.parked

USE DEF SameRequests

(* What the node has under way besides its queue and its closes. *)
SameWork(m, n) ==
  /\ m.coop = n.coop /\ m.checking = n.checking /\ SameRequests(m, n)
  /\ m.attempts = n.attempts /\ m.starting = n.starting

LEMMA StaleAuths ==
  ASSUME NEW s \in Seq(AuthType)
  PROVE  stale(s) \in Seq(AuthType) /\ SameAuths(stale(s), s)
<1>1. \A i \in 1..Len(s) : s[i] \in AuthType
  OBVIOUS
<1>2. DOMAIN s = 1..Len(s)
  OBVIOUS
<1>3. \A i \in 1..Len(s) : [s[i] EXCEPT !.fresh = FALSE] \in AuthType
  BY <1>1 DEF AuthType, MessageType
<1>4. stale(s) \in Seq(AuthType) /\ Len(stale(s)) = Len(s) /\ DOMAIN stale(s) = 1..Len(s)
  BY <1>2, <1>3 DEF stale
<1>5. \A i \in 1..Len(s) : stale(s)[i] = [s[i] EXCEPT !.fresh = FALSE]
  BY <1>2 DEF stale
<1>6. \A i \in 1..Len(s) : LET m == [s[i] EXCEPT !.fresh = FALSE]
                           IN  m.kind = s[i].kind /\ m.amount = s[i].amount
                               /\ m.at = s[i].at /\ m.settle = s[i].settle
  BY <1>1 DEF AuthType, MessageType
<1> QED BY <1>2, <1>4, <1>5, <1>6 DEF SameAuths, SameMessages

LEMMA SameAuthsRefl ==
  ASSUME NEW s
  PROVE  SameAuths(s, s)
BY DEF SameAuths, SameMessages

LEMMA DeactivateFields ==
  ASSUME NEW n \in NodeType, NEW m, m = deactivateBuyerForChannel(n)
  PROVE  /\ m \in NodeType
         /\ m.mem = n.mem /\ m.stored = n.stored /\ m.closing = n.closing /\ SameWork(m, n)
         /\ m.activeBuyer = FALSE
         /\ SameAuths(m.auths, n.auths)
<1>1. stale(n.auths) \in Seq(AuthType) /\ SameAuths(stale(n.auths), n.auths)
      /\ SameAuths(n.auths, n.auths)
  BY StaleAuths, SameAuthsRefl DEF NodeType
<1> QED BY <1>1 DEF deactivateBuyerForChannel, NodeType, SameWork

LEMMA ForgetFields ==
  ASSUME NEW n \in NodeType, NEW m, m = forgetChannel(n)
  PROVE  /\ m \in NodeType
         /\ m.mem = Forgotten /\ m.stored = n.stored /\ m.closing = n.closing /\ SameWork(m, n)
         /\ m.activeBuyer = FALSE
         /\ SameAuths(m.auths, n.auths)
<1> DEFINE k == [n EXCEPT !.mem = Forgotten]
<1>1. k \in NodeType
  BY ForgottenType DEF NodeType
<1>2. /\ k.mem = Forgotten /\ k.stored = n.stored /\ k.closing = n.closing /\ SameWork(k, n)
      /\ k.auths = n.auths
  BY DEF NodeType, SameWork
<1>3. m = deactivateBuyerForChannel(k)
  BY DEF forgetChannel
<1> HIDE DEF k
<1>4. /\ m \in NodeType
      /\ m.mem = k.mem /\ m.stored = k.stored /\ m.closing = k.closing /\ SameWork(m, k)
      /\ m.activeBuyer = FALSE
      /\ SameAuths(m.auths, k.auths)
  BY <1>1, <1>3, DeactivateFields
<1> QED BY <1>2, <1>4 DEF SameWork

(* The settlement of a row. *)
SameRecord(x, y) == x.recorded = y.recorded /\ x.settledAt = y.settledAt

USE DEF SameRecord

(* The amounts of a row. *)
SameAmounts(x, y) ==
  /\ x.authMax = y.authMax /\ x.sig = y.sig
  /\ x.tokensDelivered = y.tokensDelivered /\ x.reserveMax = y.reserveMax

LEMMA StatusFields ==
  ASSUME NEW n \in NodeType, NEW s \in {"none", "active", "settled", "timeout"},
         NEW m, m = updateChannelStatus(n, s)
  PROVE  /\ m \in NodeType
         /\ m.mem = n.mem /\ m.closing = n.closing /\ SameWork(m, n)
         /\ m.activeBuyer = n.activeBuyer /\ m.auths = n.auths
         /\ SameAmounts(m.stored, n.stored)
         /\ m.stored.status = s /\ SameRecord(m.stored, n.stored)
BY DEF SameAmounts, updateChannelStatus, NodeType, RowType, SameWork

LEMMA RecordFields ==
  ASSUME NEW n \in NodeType, NEW s \in {"none", "active", "settled", "timeout"},
         NEW a \in Nat, NEW m, m = recordSettlement(n, s, a)
  PROVE  /\ m \in NodeType
         /\ m.mem = n.mem /\ m.closing = n.closing /\ SameWork(m, n)
         /\ m.activeBuyer = n.activeBuyer /\ m.auths = n.auths
         /\ SameAmounts(m.stored, n.stored)
         /\ m.stored.status = s /\ m.stored.recorded = a /\ m.stored.settledAt
BY DEF SameAmounts, recordSettlement, NodeType, RowType, SameWork

----------------------------------------------------------------------------
(* What the conjuncts of the invariant depend on.                          *)

(* A conjunct about the order of the amounts looks only at the messages,   *)
(* the stored amount and the close request.                                *)
LEMMA OrderedFrame ==
  ASSUME NEW n, NEW m, NEW w, NEW b, Ordered(n, w, b),
         SameMessages(m.auths, n.auths), m.stored.authMax = n.stored.authMax,
         m.coop = n.coop \/ m.coop.at # "auths"
  PROVE  Ordered(m, w, b)
BY DEF Ordered, SameMessages, isAuth

(* Dropping a channel from memory keeps the invariant when its row is      *)
(* given up too, or when the row holds no authorization.                   *)
LEMMA ForgetKeeps ==
  ASSUME NEW n \in NodeType, NEW m \in NodeType, NEW c \in ChannelType, NEW w, NEW b,
         SessionInv(n, c, w, b),
         m.mem = Forgotten, m.closing = n.closing, SameWork(m, n), m.activeBuyer = FALSE,
         SameAuths(m.auths, n.auths),
         m.stored.authMax = n.stored.authMax, m.stored.sig = n.stored.sig,
         m.stored.reserveMax = n.stored.reserveMax,
         m.stored.tokensDelivered = n.stored.tokensDelivered,
         IsActive(m) => IsActive(n) /\ n.stored.authMax = 0,
         m.stored.status # "none" => c.status # "none",
         Settlements(m, c),
         GrantedTo(n, "coop") => n.inFlight = 0 \/ (c.closeRequested /\ ~IsActive(m))
  PROVE  SessionInv(m, c, w, b)
<1> USE DEF SessionInv
<1>0. ~Tracked(m) /\ m.mem.latestAuth = 0 /\ m.mem.reserveMax = 0 /\ m.mem.spent = Absent
  BY DEF Tracked, Forgotten
<1>1. Counted(m)
  BY DEF Counted, SameWork, SameAuths, SameMessages
<1>2. OnChain(m, c)
  BY <1>0 DEF OnChain, SameWork
<1>3. Reserved(m, c)
  BY <1>0 DEF Reserved, NodeType, RowType, ChannelType
<1>4. Settlements(m, c)
  OBVIOUS
<1>5. Authorizations(m, c)
  <2>1. HeadAt(m, "topUp") => HeadAt(n, "topUp") /\ m.auths[1].settle = n.auths[1].settle
    BY DEF HeadAt, SameAuths, SameMessages, NodeType
  <2>2. orZero(m.mem.spent) <= c.settled
    BY <1>0 DEF orZero, ChannelType
  <2> QED BY <1>0, <2>1, <2>2 DEF Authorizations, IsActive, SameWork, NodeType, RowType
<1>6. Exposure(m)
  BY <1>0 DEF Exposure, IsActive
<1>7. Ordered(m, w, b)
  BY OrderedFrame DEF SameAuths, SameWork
<1>8. Queued(m)
  <2>1. n.auths \in Seq(AuthType) /\ m.auths \in Seq(AuthType)
    BY DEF NodeType
  <2>2. /\ m.auths = <<>> <=> n.auths = <<>>
        /\ n.auths # <<>> => 1 \in DOMAIN n.auths
    BY <2>1 DEF SameAuths, SameMessages
  <2>3. \A at : HeadAt(m, at) <=> HeadAt(n, at)
    BY <2>2 DEF HeadAt, SameAuths, SameMessages
  <2>4. \A whos : Awaited(m, whos) <=> Awaited(n, whos)
    BY DEF Awaited
  <2>5. HeadAt(n, "recovery") => isAuth(m.auths[1])
    BY <2>2 DEF Queued, HeadAt, isAuth, SameAuths, SameMessages
  <2> QED BY <2>3, <2>4, <2>5 DEF Queued, SameAuths, SameMessages
<1>9. Waiting(m)
  BY DEF Waiting, Awaited, SameWork
<1>10. Granted(m, c)
  BY <1>0, <1>9 DEF Granted, GrantedTo, Unbillable, Waiting, orZero, SameWork, NodeType,
     ClosingType, Absent
<1> QED BY <1>1, <1>2, <1>3, <1>4, <1>5, <1>6, <1>7, <1>8, <1>9, <1>10

----------------------------------------------------------------------------
(* Arithmetic and sequences. *)

LEMMA LargerOfTwo ==
  ASSUME NEW x \in Int, NEW y \in Int
  PROVE  Max({x, y}) = IF x >= y THEN x ELSE y
<1> DEFINE m == IF x >= y THEN x ELSE y
<1>1. m \in {x, y} /\ \A z \in {x, y} : m >= z
  OBVIOUS
<1>2. \A v \in {x, y} : (\A z \in {x, y} : v >= z) => v = m
  OBVIOUS
<1>3. Max({x, y}) \in {x, y} /\ \A z \in {x, y} : Max({x, y}) >= z
  BY <1>1, Zenon DEF Max
<1> QED BY <1>2, <1>3, Zenon

LEMMA SmallerOfTwo ==
  ASSUME NEW x \in Int, NEW y \in Int
  PROVE  Min({x, y}) = IF x <= y THEN x ELSE y
<1> DEFINE m == IF x <= y THEN x ELSE y
<1>1. m \in {x, y} /\ \A z \in {x, y} : m <= z
  OBVIOUS
<1>2. \A v \in {x, y} : (\A z \in {x, y} : v <= z) => v = m
  OBVIOUS
<1>3. Min({x, y}) \in {x, y} /\ \A z \in {x, y} : Min({x, y}) <= z
  BY <1>1, Zenon DEF Min
<1> QED BY <1>2, <1>3, Zenon

LEMMA Loads ==
  /\ MaxCost \in Nat /\ MaxInFlight \in Nat
  /\ \A k \in Nat : Load(k) \in Nat /\ Load(k + 1) = Load(k) + MaxCost
  /\ \A j, k \in Nat : j <= k => Load(j) <= Load(k)
<1>1. MaxCost \in Nat /\ MaxInFlight \in Nat
  BY SellerAssumption
<1>2. \A x \in Nat, y \in Nat : x * y \in Nat /\ (x + 1) * y = x * y + y
  OBVIOUS
<1>3. \A x, y, z \in Nat : x <= y => x * z <= y * z
  <2> SUFFICES ASSUME NEW x \in Nat, NEW y \in Nat, NEW z \in Nat, x <= y
               PROVE  x * z <= y * z
    OBVIOUS
  <2>1. y - x \in Nat
    OBVIOUS
  <2>2. (y - x) * z \in Nat
    BY <2>1, <1>2
  <2>3. (y - x) * z = y * z - x * z
    OBVIOUS
  <2>4. x * z \in Nat /\ y * z \in Nat
    BY <1>2
  <2> QED BY <2>2, <2>3, <2>4
<1> QED BY <1>1, <1>2, <1>3 DEF Load

LEMMA Raised ==
  \A x, k, a, b, z \in Nat : x + k <= a + z /\ a <= b => x + k <= b + z
OBVIOUS

LEMMA Within ==
  \A x, a, l, z \in Nat : x <= a /\ l <= z => x + l <= a + z
OBVIOUS

LEMMA Lowered ==
  ASSUME NEW x \in Nat, NEW d \in Nat, NEW l \in Nat, NEW a \in Nat, NEW z \in Nat,
         x + (l + d) <= a + z
  PROVE  x + l <= a + z /\ x <= a + z
OBVIOUS

LEMMA OneFewer ==
  ASSUME NEW x \in Nat, NEW d \in Nat, NEW l \in Nat, NEW h \in Nat, NEW a \in Nat,
         NEW z \in Nat, h <= d, x + (l + d) <= a + z
  PROVE  (x + h) + l <= a + z /\ x + h <= a + z
OBVIOUS

LEMMA Moved ==
  \A k, x, y, z \in Nat : k + x + (y + 1) <= z => (k + 1) + x + y <= z /\ k + x + y <= z
OBVIOUS

LEMMA Positions ==
  ASSUME NEW k \in Nat, NEW x \in Nat, NEW y \in Nat, NEW z \in Nat, k + x + y <= z
  PROVE  k <= z /\ \A i \in 1..y : k + i \in Nat /\ k + i <= z
OBVIOUS

(* The numbers in a node's record. *)
LEMMA NodeNumbers ==
  ASSUME NEW n \in NodeType
  PROVE  /\ {n.stored.authMax, n.stored.sig, n.stored.tokensDelivered, n.stored.reserveMax,
              n.mem.latestAuth, n.mem.sig, n.mem.reserveMax, n.mem.pendingTopUp,
              n.mem.retries, n.inFlight, n.uncounted, Len(n.waiting), Len(n.parked),
              n.checking.accepted,
              n.checking.sig, n.coop.amount, n.coop.ahead} \subseteq Nat
         /\ {n.mem.accepted, n.mem.spent, n.closing.amount, n.stored.recorded}
              \subseteq Nat \cup {Absent}
         /\ DOMAIN n.parked = 1..Len(n.parked)
         /\ \A i \in DOMAIN n.parked : n.parked[i].spent \in Nat
<1>1. /\ n.mem \in MemType /\ n.stored \in RowType /\ n.closing \in ClosingType
      /\ n.coop \in CoopType /\ n.checking \in CheckingType /\ n.parked \in Seq(ParkedType)
      /\ n.inFlight \in Nat /\ n.uncounted \in Nat /\ n.waiting \in Seq(Nat)
  BY DEF NodeType
<1>2. /\ {n.mem.latestAuth, n.mem.sig, n.mem.reserveMax, n.mem.pendingTopUp} \subseteq Nat
      /\ {n.mem.accepted, n.mem.spent} \subseteq Nat \cup {Absent}
  BY <1>1 DEF MemType
<1>3. n.mem.retries \in Nat
  BY <1>1, SellerAssumption DEF MemType
<1>4. /\ {n.stored.authMax, n.stored.sig, n.stored.tokensDelivered, n.stored.reserveMax}
           \subseteq Nat
      /\ n.stored.recorded \in Nat \cup {Absent}
  BY <1>1 DEF RowType
<1>5. /\ {n.checking.accepted, n.checking.sig, n.coop.amount, n.coop.ahead} \subseteq Nat
      /\ n.closing.amount \in Nat \cup {Absent}
  BY <1>1 DEF CheckingType, CoopType, ClosingType
<1>6. /\ Len(n.waiting) \in Nat /\ Len(n.parked) \in Nat /\ DOMAIN n.parked = 1..Len(n.parked)
      /\ \A i \in DOMAIN n.parked : n.parked[i] \in ParkedType
  BY <1>1
<1>7. \A i \in DOMAIN n.parked : n.parked[i].spent \in Nat
  BY <1>6 DEF ParkedType
<1> QED BY <1>1, <1>2, <1>3, <1>4, <1>5, <1>6, <1>7

(* Served work is within its bounds when none of it is unsigned. *)
LEMMA SignedExposure ==
  ASSUME NEW n \in NodeType, Counted(n),
         Tracked(n) /\ n.mem.spent # Absent => n.mem.spent <= n.mem.accepted,
         IsActive(n) => n.stored.tokensDelivered <= n.stored.authMax + Load(MaxInFlight)
  PROVE  Exposure(n)
<1> DEFINE k == n.inFlight + n.uncounted
<1>1. /\ n.mem.spent # Absent => n.mem.spent \in Nat
      /\ n.mem.accepted # Absent => n.mem.accepted \in Nat
      /\ n.inFlight \in Nat /\ n.uncounted \in Nat /\ Len(n.waiting) \in Nat
      /\ Len(n.parked) \in Nat /\ DOMAIN n.parked = 1..Len(n.parked)
      /\ \A i \in DOMAIN n.parked : n.parked[i].spent \in Nat
  BY NodeNumbers
<1>a. k + Len(n.waiting) + Len(n.parked) <= MaxInFlight /\ MaxInFlight \in Nat /\ k \in Nat
  BY <1>1, SellerAssumption DEF Counted
<1> HIDE DEF k
<1>2. /\ k <= MaxInFlight
      /\ \A i \in 1..Len(n.parked) : k + i \in Nat /\ k + i <= MaxInFlight
  BY <1>1, <1>a, Positions
<1>3. /\ Load(MaxInFlight) \in Nat /\ Load(k) \in Nat /\ Load(k) <= Load(MaxInFlight)
      /\ \A i \in 1..Len(n.parked) : Load(k + i) \in Nat /\ Load(k + i) <= Load(MaxInFlight)
  BY <1>2, <1>a, Loads
<1>4. Tracked(n) /\ n.mem.spent # Absent =>
        /\ n.mem.spent <= n.mem.accepted + Load(MaxInFlight)
        /\ n.mem.spent + Load(k) <= n.mem.accepted + Load(MaxInFlight)
        /\ \A i \in 1..Len(n.parked) :
             n.mem.spent + Load(k + i) <= n.mem.accepted + Load(MaxInFlight)
  BY <1>1, <1>3, SMTT(60) DEF Tracked
<1> QED BY <1>1, <1>4 DEF Exposure, k

(* A larger authorization leaves it within them. *)
LEMMA LargerExposure ==
  ASSUME NEW n \in NodeType, NEW m \in NodeType, Exposure(n), Tracked(n),
         m.mem.spent = n.mem.spent, m.mem.accepted \in Nat, n.mem.accepted <= m.mem.accepted,
         n.stored.authMax <= m.stored.authMax, m.stored.status = n.stored.status,
         m.stored.tokensDelivered = n.stored.tokensDelivered, SameRequests(m, n)
  PROVE  Exposure(m)
<1> DEFINE k == n.inFlight + n.uncounted
<1>1. /\ n.mem.spent # Absent => n.mem.spent \in Nat
      /\ n.mem.accepted \in Nat /\ n.stored.tokensDelivered \in Nat
      /\ n.stored.authMax \in Nat /\ m.stored.authMax \in Nat
      /\ n.inFlight \in Nat /\ n.uncounted \in Nat
      /\ Len(n.parked) \in Nat /\ DOMAIN n.parked = 1..Len(n.parked)
      /\ \A i \in 1..Len(n.parked) : n.parked[i].spent \in Nat
  BY NodeNumbers DEF Tracked
<1>2. k \in Nat /\ \A i \in 1..Len(n.parked) : k + i \in Nat
  BY <1>1
<1> HIDE DEF k
<1>3. /\ Load(MaxInFlight) \in Nat /\ Load(k) \in Nat
      /\ \A i \in 1..Len(n.parked) : Load(k + i) \in Nat
  BY <1>2, Loads
<1>4. ASSUME n.mem.spent # Absent
      PROVE  /\ m.mem.spent <= m.mem.accepted + Load(MaxInFlight)
             /\ IsActive(m) => m.mem.spent + Load(k) <= m.mem.accepted + Load(MaxInFlight)
  <2>1. /\ n.mem.spent <= n.mem.accepted + Load(MaxInFlight)
        /\ IsActive(n) => n.mem.spent + Load(k) <= n.mem.accepted + Load(MaxInFlight)
    BY <1>4 DEF Exposure, k
  <2>2. IsActive(m) <=> IsActive(n)
    BY DEF IsActive
  <2>3. n.mem.spent \in Nat /\ Load(MaxInFlight) \in Nat /\ Load(k) \in Nat
    BY <1>1, <1>3, <1>4
  <2>4. n.mem.spent <= n.mem.accepted + Load(MaxInFlight)
          => n.mem.spent <= m.mem.accepted + Load(MaxInFlight)
    <3>1. \A x, a, b, z \in Nat : x <= a + z /\ a <= b => x <= b + z
      OBVIOUS
    <3> QED BY <1>1, <2>3, <3>1
  <2>5. n.mem.spent + Load(k) <= n.mem.accepted + Load(MaxInFlight)
          => n.mem.spent + Load(k) <= m.mem.accepted + Load(MaxInFlight)
    BY <1>1, <2>3, Raised
  <2> QED BY <2>1, <2>2, <2>4, <2>5
<1>5. ASSUME n.mem.spent # Absent, IsActive(m), NEW i \in 1..Len(n.parked)
      PROVE  \/ m.mem.spent + Load(k + i) <= m.mem.accepted + Load(MaxInFlight)
             \/ m.mem.spent + Load(k + i) <= m.parked[i].spent + Load(MaxInFlight)
  <2>1. \/ n.mem.spent + Load(k + i) <= n.mem.accepted + Load(MaxInFlight)
        \/ n.mem.spent + Load(k + i) <= n.parked[i].spent + Load(MaxInFlight)
    BY <1>1, <1>5 DEF Exposure, IsActive, k
  <2>2. /\ Load(k + i) \in Nat /\ Load(MaxInFlight) \in Nat /\ n.mem.spent \in Nat
        /\ n.mem.accepted \in Nat
    BY <1>1, <1>3, <1>5
  <2>3. n.mem.spent + Load(k + i) <= n.mem.accepted + Load(MaxInFlight)
          => n.mem.spent + Load(k + i) <= m.mem.accepted + Load(MaxInFlight)
    BY <2>2, Raised
  <2> QED BY <2>1, <2>3
<1>6. IsActive(m) => m.stored.tokensDelivered <= m.stored.authMax + Load(MaxInFlight)
  <2>1. IsActive(m) => n.stored.tokensDelivered <= n.stored.authMax + Load(MaxInFlight)
    BY DEF Exposure, IsActive
  <2>2. Load(MaxInFlight) \in Nat
    BY <1>3
  <2>3. \A x, a, b, z \in Nat : x <= a + z /\ a <= b => x <= b + z
    OBVIOUS
  <2>4. /\ m.stored.tokensDelivered \in Nat /\ n.stored.authMax \in Nat
        /\ m.stored.authMax \in Nat /\ n.stored.authMax <= m.stored.authMax
    BY <1>1
  <2> QED BY <2>1, <2>2, <2>3, <2>4
<1> QED BY <1>1, <1>4, <1>5, <1>6 DEF Exposure, k

(* ... and in its queue. *)
LEMMA QueueFields ==
  ASSUME NEW n \in NodeType, NEW i \in DOMAIN n.auths
  PROVE  /\ n.auths[i] \in AuthType /\ {n.auths[i].amount, n.auths[i].max, n.auths[i].settle,
                                        n.auths[i].sig} \subseteq Nat
         /\ n.auths[i].kind \in {"reserve", "auth"}
<1>1. n.auths[i] \in AuthType
  BY DEF NodeType
<1> QED BY <1>1 DEF AuthType, MessageType

----------------------------------------------------------------------------
(* A step that touches no amount keeps the invariant. *)

SameMoney(x, y) ==
  /\ x.accepted = y.accepted /\ x.spent = y.spent /\ x.latestAuth = y.latestAuth
  /\ x.sig = y.sig /\ x.reserveMax = y.reserveMax

SameRow(x, y) ==
  /\ x.status = y.status /\ x.authMax = y.authMax /\ x.sig = y.sig
  /\ x.tokensDelivered = y.tokensDelivered /\ x.reserveMax = y.reserveMax
  /\ SameRecord(x, y)

(* What the timeout checker of n may be doing next. *)
MayCheck(n, c, checking) ==
  \/ checking = n.checking
  \/ c.status # "none" /\ checking.at = "close"
  \/ /\ ~Awaited(n, Checkers)
     /\ \/ checking.at = "none"
        \/ c.status # "none" /\ checking.at = "active" /\ IsActive(n)
        \/ c.status # "none" /\ checking.at = "timedOut" /\ checking.accepted <= n.stored.authMax

(* What becomes of its close request, unless a new one comes. *)
MayRequestClose(n, c, coop) ==
  \/ coop = n.coop
  \/ coop.at = "none" /\ coop.ahead = 0
  \/ c.status # "none" /\ coop.at # "auths" /\ coop.ahead = n.coop.ahead

LEMMA FrameKeeps ==
  ASSUME NEW n \in NodeType, NEW m \in NodeType, NEW c \in ChannelType, NEW w, NEW b,
         SessionInv(n, c, w, b),
         SameMoney(m.mem, n.mem), SameRow(m.stored, n.stored), m.closing = n.closing,
         MayRequestClose(n, c, m.coop), SameRequests(m, n),
         m.attempts = n.attempts, SameAuths(m.auths, n.auths),
         m.activeBuyer => n.activeBuyer \/ (Tracked(n) /\ ~HeadAt(n, "recovery")),
         m.starting = n.starting \/ m.starting # "channels" \/ c.status # "none",
         MayCheck(n, c, m.checking)
  PROVE  SessionInv(m, c, w, b)
<1> USE DEF SessionInv
<1>0. /\ Tracked(m) <=> Tracked(n)
      /\ IsActive(m) <=> IsActive(n)
      /\ m.auths = <<>> <=> n.auths = <<>>
      /\ n.auths # <<>> => 1 \in DOMAIN n.auths /\ 1 \in DOMAIN m.auths
      /\ \A at : HeadAt(m, at) <=> HeadAt(n, at)
      /\ \A whos : Awaited(m, whos) <=> Awaited(n, whos)
  BY DEF Tracked, IsActive, HeadAt, Awaited, SameMoney, SameRow, SameAuths, SameMessages, NodeType
<1>1. Counted(m)
  BY DEF Counted, SameAuths, SameMessages, MayRequestClose, NodeType
<1>2. OnChain(m, c)
  BY <1>0 DEF OnChain, SameRow, MayCheck, MayRequestClose
<1>3. Reserved(m, c)
  BY DEF Reserved, SameMoney, SameRow
<1>4. Settlements(m, c)
  BY DEF Settlements, SameRow
<1>5. Authorizations(m, c)
  <2>1. HeadAt(m, "topUp") => m.auths[1].settle = n.auths[1].settle
    BY <1>0 DEF HeadAt, SameAuths, SameMessages
  <2> QED BY <1>0, <2>1 DEF Authorizations, SameMoney, SameRow, MayCheck
<1>6. Exposure(m)
  BY <1>0 DEF Exposure, SameMoney, SameRow
<1>7. Ordered(m, w, b)
  BY OrderedFrame DEF SameAuths, SameRow, MayRequestClose
<1>8. Queued(m)
  BY <1>0 DEF Queued, SameAuths, SameMessages, isAuth, Authorizations
<1>9. Waiting(m)
  BY <1>0 DEF Waiting, MayCheck, Awaited
<1>10. Granted(m, c)
  BY <1>0 DEF Granted, GrantedTo, Unbillable, SameMoney, MayCheck
<1> QED BY <1>1, <1>2, <1>3, <1>4, <1>5, <1>6, <1>7, <1>8, <1>9, <1>10

----------------------------------------------------------------------------
(* Submitting a close, or joining the one in flight. *)

Waiter(n, who) == [who |-> who, retries |-> n.mem.retries]

Closers == Settlers \cup Zombies \cup TimedOut \cup Requested

JoinedClose(n, amount, sig, who) ==
  IF n.closing = NoClose
  THEN [amount |-> amount, sig |-> sig, waiters |-> <<Waiter(n, who)>>, late |-> FALSE]
  ELSE [n.closing EXCEPT !.waiters = Append(@, Waiter(n, who))]

LEMMA NoCloseType == NoClose \in ClosingType
BY DEF NoClose, ClosingType, Absent

LEMMA JoinedCloseFields ==
  ASSUME NEW n \in NodeType, NEW amount \in Nat, NEW sig \in Nat, NEW who \in Closers,
         NEW k, k = JoinedClose(n, amount, sig, who), Waiting(n)
  PROVE  /\ k \in ClosingType /\ k # NoClose
         /\ n.closing = NoClose => /\ k.amount = amount /\ k.waiters = <<Waiter(n, who)>>
                                   /\ k.waiters[1].who = who
         /\ n.closing # NoClose => /\ k.amount = n.closing.amount
                                   /\ k.waiters = Append(n.closing.waiters, Waiter(n, who))
                                   /\ k.waiters[1] = n.closing.waiters[1]
                                   /\ k.late = n.closing.late
<1>1. Waiter(n, who) \in WaiterType /\ Waiter(n, who).who = who
  BY DEF Waiter, WaiterType, Closers, NodeType, MemType
<1>2. n.closing \in ClosingType
  BY DEF NodeType
<1>3. CASE n.closing = NoClose
  <2>1. k = [amount |-> amount, sig |-> sig, waiters |-> <<Waiter(n, who)>>, late |-> FALSE]
    BY <1>3 DEF JoinedClose
  <2> HIDE DEF Waiter
  <2>2. k \in ClosingType
    BY <1>1, <2>1 DEF ClosingType
  <2>3. k.amount = amount /\ k.waiters = <<Waiter(n, who)>> /\ k.waiters[1] = Waiter(n, who)
    BY <2>1
  <2>4. k # NoClose
    BY <2>3 DEF NoClose, Absent
  <2> QED BY <1>1, <1>3, <2>2, <2>3, <2>4
<1>4. CASE n.closing # NoClose
  <2> HIDE DEF Waiter
  <2> DEFINE ws == Append(n.closing.waiters, Waiter(n, who))
  <2>1. k = [n.closing EXCEPT !.waiters = ws]
    BY <1>4 DEF JoinedClose
  <2>2. n.closing.waiters \in Seq(WaiterType) /\ n.closing.waiters # <<>>
    BY <1>2, <1>4 DEF ClosingType, Waiting
  <2>3. ws \in Seq(WaiterType) /\ ws # <<>> /\ ws[1] = n.closing.waiters[1]
    BY <1>1, <2>2
  <2> HIDE DEF ws
  <2>4. /\ k \in ClosingType /\ k.amount = n.closing.amount /\ k.waiters = ws
        /\ k.late = n.closing.late
    BY <1>2, <2>1, <2>3 DEF ClosingType
  <2>5. k # NoClose
    BY <2>3, <2>4 DEF NoClose
  <2> QED BY <1>4, <2>3, <2>4, <2>5 DEF ws
<1> QED BY <1>3, <1>4

(* The waiters of a joined close are those of the one in flight and the    *)
(* new one, which is the last.                                             *)
LEMMA JoinedWaiters ==
  ASSUME NEW n \in NodeType, NEW amount \in Nat, NEW sig \in Nat, NEW who \in Closers,
         NEW k, k = JoinedClose(n, amount, sig, who), Waiting(n)
  PROVE  LET len == Len(n.closing.waiters)
         IN  /\ len \in Nat
             /\ DOMAIN n.closing.waiters = 1..len /\ DOMAIN k.waiters = 1..(len + 1)
             /\ k.waiters[len + 1] = Waiter(n, who)
             /\ \A i \in 1..len : k.waiters[i] = n.closing.waiters[i]
<1>1. n.closing.waiters \in Seq(WaiterType)
  BY DEF NodeType, ClosingType
<1>2. k.waiters = Append(n.closing.waiters, Waiter(n, who))
  <2>1. CASE n.closing = NoClose
    <3>1. k.waiters = <<Waiter(n, who)>> /\ n.closing.waiters = <<>>
      BY <2>1, JoinedCloseFields DEF NoClose
    <3> HIDE DEF Waiter
    <3> QED BY <3>1
  <2>2. CASE n.closing # NoClose
    BY <2>2, JoinedCloseFields
  <2> QED BY <2>1, <2>2
<1> HIDE DEF Waiter
<1> QED BY <1>1, <1>2

LEMMA CloseKeeps ==
  ASSUME NEW n \in NodeType, NEW m \in NodeType, NEW c \in ChannelType, NEW w, NEW b,
         SessionInv(n, c, w, b),
         NEW amount \in Nat, NEW sig \in Nat, NEW who \in Closers,
         m.closing = JoinedClose(n, amount, sig, who),
         SameMoney(m.mem, n.mem), SameRow(m.stored, n.stored),
         m.coop = n.coop, SameRequests(m, n),
         m.attempts = n.attempts, m.activeBuyer = n.activeBuyer,
         m.starting = n.starting, SameMessages(m.auths, n.auths),
         SameAuths(m.auths, n.auths) \/ (HeadAt(m, "close") /\ ~HeadAt(n, "recovery")),
         (m.checking = n.checking /\ who \notin Checkers) \/ m.checking.at = "close",
         c.status # "none", amount <= n.stored.authMax,
         who \in Zombies => n.mem.retries < MAX_CLOSE_RETRIES,
         who \in Checkers => n.checking.at # "close",
         who = "timedOutAuth" => n.attempts < TIMED_OUT_AUTH_CLOSE_ATTEMPTS,
         who = "topUp" => HeadAt(m, "close"),
         n.closing = NoClose /\ who = "coop" =>
           /\ orZero(n.mem.spent) <= amount \/ orZero(n.mem.spent) <= c.settled
           /\ n.inFlight = 0 \/ Unbillable(n, c)
  PROVE  SessionInv(m, c, w, b)
<1> USE DEF SessionInv
<1>0. /\ Tracked(m) <=> Tracked(n)
      /\ IsActive(m) <=> IsActive(n)
      /\ m.auths = <<>> <=> n.auths = <<>>
      /\ n.auths # <<>> => 1 \in DOMAIN n.auths /\ 1 \in DOMAIN m.auths
      /\ \A at : HeadAt(m, at) => HeadAt(n, at) \/ at = "close"
      /\ HeadAt(n, "close") => HeadAt(m, "close")
      /\ HeadAt(m, "recovery") <=> HeadAt(n, "recovery")
  BY DEF Tracked, IsActive, HeadAt, SameMoney, SameRow, SameAuths, SameMessages, NodeType
<1>a. /\ m.closing # NoClose
      /\ n.closing = NoClose => m.closing.amount = amount /\ m.closing.waiters[1].who = who
      /\ n.closing # NoClose => /\ m.closing.amount = n.closing.amount
                                /\ m.closing.waiters[1] = n.closing.waiters[1]
                                /\ m.closing.late = n.closing.late
  BY JoinedCloseFields
<1> DEFINE len == Len(n.closing.waiters)
<1>b. /\ len \in Nat
      /\ DOMAIN n.closing.waiters = 1..len
      /\ DOMAIN m.closing.waiters = 1..(len + 1)
      /\ m.closing.waiters[len + 1] = Waiter(n, who)
      /\ \A i \in 1..len : m.closing.waiters[i] = n.closing.waiters[i]
  BY JoinedWaiters, SMTT(60)
<1> HIDE DEF len
<1>c. Waiter(n, who).who = who /\ Waiter(n, who).retries = n.mem.retries
  BY DEF Waiter
<1>d. \A whos : Awaited(m, whos) => Awaited(n, whos) \/ who \in whos
  BY <1>b, <1>c DEF Awaited
<1>1. Counted(m)
  BY DEF Counted, SameMessages
<1>2. OnChain(m, c)
  BY DEF OnChain
<1>3. Reserved(m, c)
  BY DEF Reserved, SameMoney, SameRow
<1>4. Settlements(m, c)
  BY DEF Settlements, SameRow
<1>5. Authorizations(m, c)
  <2>1. HeadAt(m, "topUp") => HeadAt(n, "topUp") /\ m.auths[1].settle = n.auths[1].settle
    BY <1>0 DEF HeadAt, SameAuths, SameMessages
  <2>2. m.closing.amount <= m.stored.authMax
    BY <1>a DEF Authorizations, SameRow
  <2> QED BY <1>0, <2>1, <2>2 DEF Authorizations, SameMoney, SameRow
<1>6. Exposure(m)
  BY <1>0 DEF Exposure, SameMoney, SameRow
<1>7. Ordered(m, w, b)
  BY OrderedFrame DEF SameRow
<1>8. Queued(m)
  <2>1. \A i \in DOMAIN m.auths : m.auths[i].at # "lock" => i = 1
    BY DEF Queued, SameMessages
  <2>2. HeadAt(m, "recovery") => isAuth(m.auths[1]) /\ ~m.activeBuyer
    BY <1>0 DEF Queued, SameMessages, isAuth
  <2>3. Awaited(m, {"topUp"}) => HeadAt(m, "close")
    BY <1>0, <1>d DEF Queued
  <2> QED BY <2>1, <2>2, <2>3 DEF Queued
<1>9. Waiting(m)
  <2>1. m.closing.waiters # <<>> /\ m.closing.amount # Absent
    BY <1>a, <1>b DEF Waiting, Absent
  <2>2. \A i \in DOMAIN m.closing.waiters :
          m.closing.waiters[i].who \in Zombies => m.closing.waiters[i].retries < MAX_CLOSE_RETRIES
    BY <1>b, <1>c DEF Waiting
  <2>3. \A i, j \in DOMAIN m.closing.waiters :
          m.closing.waiters[i].who \in Checkers /\ m.closing.waiters[j].who \in Checkers => i = j
    <3>1. who \in Checkers => \A i \in 1..len : n.closing.waiters[i].who \notin Checkers
      BY <1>b DEF Waiting, Awaited
    <3>2. \A i, j \in 1..len : n.closing.waiters[i].who \in Checkers
                                /\ n.closing.waiters[j].who \in Checkers => i = j
      BY <1>b DEF Waiting
    <3>3. \A i \in 1..(len + 1) : i \in 1..len \/ i = len + 1
      BY <1>b
    <3> QED BY <1>b, <1>c, <3>1, <3>2, <3>3, SMTT(60)
  <2>4. Awaited(m, Checkers) => m.checking.at = "close"
    BY <1>d DEF Waiting
  <2>5. Awaited(m, {"timedOutAuth"}) => m.attempts < TIMED_OUT_AUTH_CLOSE_ATTEMPTS
    BY <1>d DEF Waiting
  <2> QED BY <2>1, <2>2, <2>3, <2>4, <2>5 DEF Waiting
<1>10. Granted(m, c)
  BY <1>0, <1>a DEF Granted, GrantedTo, Unbillable, SameMoney
<1> QED BY <1>1, <1>2, <1>3, <1>4, <1>5, <1>6, <1>7, <1>8, <1>9, <1>10

----------------------------------------------------------------------------
(* The head of the queue goes on. *)

LEMMA HeadUpdate ==
  ASSUME NEW s \in Seq(AuthType), s # <<>>, NEW x \in AuthType,
         x.kind = s[1].kind, x.amount = s[1].amount, NEW t, t = [s EXCEPT ![1] = x]
  PROVE  /\ t \in Seq(AuthType) /\ t # <<>> /\ t[1] = x
         /\ SameMessages(t, s)
<1>1. t \in Seq(AuthType) /\ Len(t) = Len(s) /\ DOMAIN t = DOMAIN s /\ 1 \in DOMAIN s /\ t[1] = x
  OBVIOUS
<1>2. \A i \in DOMAIN s : i # 1 => t[i] = s[i]
  OBVIOUS
<1>3. t # <<>>
  BY <1>1
<1> QED BY <1>1, <1>2, <1>3 DEF SameMessages

LEMMA AwaitKeeps ==
  ASSUME NEW n \in NodeType, NEW m \in NodeType, NEW c \in ChannelType, NEW w, NEW b,
         SessionInv(n, c, w, b),
         SameMoney(m.mem, n.mem), SameRow(m.stored, n.stored), m.closing = n.closing,
         SameWork(m, n), m.activeBuyer = n.activeBuyer,
         SameMessages(m.auths, n.auths), n.auths # <<>>,
         ~Awaited(n, {"topUp"}),
         HeadAt(m, "topUp") => m.auths[1].settle <= n.stored.authMax,
         HeadAt(m, "recovery") => isAuth(n.auths[1]) /\ ~Tracked(n)
  PROVE  SessionInv(m, c, w, b)
<1> USE DEF SessionInv
<1>0. /\ Tracked(m) <=> Tracked(n)
      /\ IsActive(m) <=> IsActive(n)
      /\ m.auths # <<>>
      /\ 1 \in DOMAIN n.auths /\ 1 \in DOMAIN m.auths
      /\ \A whos : Awaited(m, whos) <=> Awaited(n, whos)
  BY DEF Tracked, IsActive, Awaited, SameMoney, SameRow, SameMessages, NodeType
<1>1. Counted(m)
  BY DEF Counted, SameMessages, SameWork
<1>2. OnChain(m, c)
  BY <1>0 DEF OnChain, SameRow, SameWork
<1>3. Reserved(m, c)
  BY DEF Reserved, SameMoney, SameRow
<1>4. Settlements(m, c)
  BY DEF Settlements, SameRow
<1>5. Authorizations(m, c)
  BY <1>0 DEF Authorizations, SameMoney, SameRow, SameWork
<1>6. Exposure(m)
  BY <1>0 DEF Exposure, SameMoney, SameRow, SameWork
<1>7. Ordered(m, w, b)
  BY OrderedFrame DEF SameRow, SameWork
<1>8. Queued(m)
  BY <1>0 DEF Queued, SameMessages, isAuth, Authorizations
<1>9. Waiting(m)
  BY <1>0 DEF Waiting, Awaited, SameWork
<1>10. Granted(m, c)
  BY <1>0 DEF Granted, GrantedTo, Unbillable, SameMoney, SameWork
<1> QED BY <1>1, <1>2, <1>3, <1>4, <1>5, <1>6, <1>7, <1>8, <1>9, <1>10

(* await, for a continuation other than the two with conditions. *)
LEMMA AwaitFields ==
  ASSUME NEW n \in NodeType, n.auths # <<>>,
         NEW at \in {"lock", "reserve", "topUp", "close", "recovery", "validation"},
         NEW m, m = await(n, at)
  PROVE  /\ m \in NodeType
         /\ m.mem = n.mem /\ m.stored = n.stored /\ m.closing = n.closing /\ SameWork(m, n)
         /\ m.activeBuyer = n.activeBuyer
         /\ SameMessages(m.auths, n.auths) /\ m.auths # <<>> /\ m.auths[1].at = at
<1> DEFINE x == [n.auths[1] EXCEPT !.at = at]
           t == [n.auths EXCEPT ![1] = x]
<1>1. n.auths \in Seq(AuthType) /\ n.auths[1] \in AuthType
  BY DEF NodeType
<1>2. x \in AuthType /\ x.kind = n.auths[1].kind /\ x.amount = n.auths[1].amount /\ x.at = at
  BY <1>1 DEF AuthType, MessageType
<1>3. m = [n EXCEPT !.auths = t]
  BY DEF await, NodeType
<1> HIDE DEF x
<1>4. t \in Seq(AuthType) /\ t # <<>> /\ t[1] = x /\ SameMessages(t, n.auths)
  BY <1>1, <1>2, HeadUpdate
<1> HIDE DEF t
<1> QED BY <1>2, <1>3, <1>4 DEF NodeType, SameWork

LEMMA TailMessages ==
  ASSUME NEW T, NEW s \in Seq(T), s # <<>>, NEW t, t = Tail(s)
  PROVE  /\ t \in Seq(T)
         /\ Len(t) = Len(s) - 1 /\ Len(s) \in Nat \ {0}
         /\ DOMAIN s = 1..Len(s)
         /\ DOMAIN t = 1..(Len(s) - 1)
         /\ \A i \in 1..(Len(s) - 1) : i + 1 \in DOMAIN s /\ t[i] = s[i + 1]
OBVIOUS

LEMMA DequeueFields ==
  ASSUME NEW n \in NodeType, n.auths # <<>>, NEW m, m = dequeue(n)
  PROVE  /\ m \in NodeType
         /\ m.mem = n.mem /\ m.stored = n.stored /\ m.closing = n.closing
         /\ m.checking = n.checking /\ SameRequests(m, n)
         /\ m.attempts = n.attempts /\ m.starting = n.starting
         /\ m.activeBuyer = n.activeBuyer
         /\ m.auths = Tail(n.auths)
         /\ m.coop.at = n.coop.at /\ m.coop.amount = n.coop.amount
         /\ m.coop.ahead = IF n.coop.ahead = 0 THEN 0 ELSE n.coop.ahead - 1
<1>1. /\ n.coop \in CoopType /\ n.coop.ahead \in Nat
      /\ n.waiting \in Seq(Nat)
  BY DEF NodeType, CoopType
<1> DEFINE ahead == oneLess(n.coop.ahead)
           coop == [n.coop EXCEPT !.ahead = ahead]
           t == Tail(n.auths)
           ws == [i \in DOMAIN n.waiting |-> oneLess(n.waiting[i])]
<1>l. \A k \in Nat : oneLess(k) = (IF k = 0 THEN 0 ELSE k - 1) /\ oneLess(k) \in Nat
  BY LargerOfTwo DEF oneLess
<1>2. ahead = IF n.coop.ahead = 0 THEN 0 ELSE n.coop.ahead - 1
  BY <1>1, <1>l
<1>3. ahead \in Nat
  BY <1>1, <1>l
<1>w. ws \in Seq(Nat) /\ Len(ws) = Len(n.waiting)
  <2>1. /\ Len(n.waiting) \in Nat /\ DOMAIN n.waiting = 1..Len(n.waiting)
        /\ \A i \in 1..Len(n.waiting) : n.waiting[i] \in Nat
    BY <1>1
  <2>2. \A i \in 1..Len(n.waiting) : oneLess(n.waiting[i]) \in Nat
    BY <1>l, <2>1
  <2> QED BY <2>1, <2>2
<1>4. m = [n EXCEPT !.auths = t, !.coop = coop, !.waiting = ws]
  BY DEF dequeue, NodeType
<1>5. t \in Seq(AuthType)
  BY TailMessages DEF NodeType
<1> HIDE DEF ahead, t, ws
<1>6. coop \in CoopType /\ coop.at = n.coop.at /\ coop.amount = n.coop.amount /\ coop.ahead = ahead
  BY <1>1, <1>3 DEF CoopType
<1> HIDE DEF coop
<1>7. /\ m \in NodeType
      /\ m.mem = n.mem /\ m.stored = n.stored /\ m.closing = n.closing
      /\ m.checking = n.checking /\ SameRequests(m, n)
      /\ m.attempts = n.attempts /\ m.starting = n.starting
      /\ m.activeBuyer = n.activeBuyer
      /\ m.auths = t /\ m.coop = coop
  <2>1. m \in NodeType
    BY <1>4, <1>5, <1>6, <1>w DEF NodeType
  <2>2. /\ m.mem = n.mem /\ m.stored = n.stored /\ m.closing = n.closing
        /\ m.checking = n.checking /\ m.attempts = n.attempts /\ m.starting = n.starting
        /\ m.activeBuyer = n.activeBuyer /\ m.auths = t /\ m.coop = coop
        /\ m.inFlight = n.inFlight /\ m.uncounted = n.uncounted /\ m.parked = n.parked
        /\ m.waiting = ws
    BY <1>4 DEF NodeType
  <2> QED BY <1>w, <2>1, <2>2
<1> QED BY <1>2, <1>6, <1>7 DEF t

(* The order of the amounts is kept when the head of the queue is done. *)
LEMMA OrderedTail ==
  ASSUME NEW n \in NodeType, n.auths # <<>>, NEW w, NEW b, Ordered(n, w, b),
         NEW m, m.auths = Tail(n.auths), m.stored.authMax = n.stored.authMax,
         m.coop.at = n.coop.at, m.coop.amount = n.coop.amount,
         m.coop.ahead = IF n.coop.ahead = 0 THEN 0 ELSE n.coop.ahead - 1
  PROVE  Ordered(m, w, b)
<1>0. n.coop.ahead \in Nat /\ n.auths \in Seq(AuthType)
  BY DEF NodeType, CoopType
<1> DEFINE L == Len(n.auths)
<1>1. /\ L \in Nat \ {0} /\ DOMAIN n.auths = 1..L
      /\ DOMAIN m.auths = 1..(L - 1)
      /\ \A i \in 1..(L - 1) : i + 1 \in 1..L /\ m.auths[i] = n.auths[i + 1]
  BY <1>0, TailMessages
<1> HIDE DEF L
<1>2. \A i, j \in DOMAIN m.auths :
        i < j /\ isAuth(m.auths[i]) /\ isAuth(m.auths[j])
          => m.auths[i].amount <= m.auths[j].amount
  <2>1. \A i, j \in 1..(L - 1) : i < j => i + 1 < j + 1
    BY <1>1
  <2>2. \A i, j \in 1..L :
          i < j /\ isAuth(n.auths[i]) /\ isAuth(n.auths[j])
            => n.auths[i].amount <= n.auths[j].amount
    BY <1>1 DEF Ordered
  <2> QED BY <1>1, <2>1, <2>2
<1>3. \A i \in DOMAIN m.auths, j \in DOMAIN w :
       isAuth(m.auths[i]) /\ isAuth(w[j]) => m.auths[i].amount <= w[j].amount
  BY <1>1 DEF Ordered
<1>4. \A i \in DOMAIN m.auths : isAuth(m.auths[i]) => /\ m.auths[i].amount <= b.signed
                                                      /\ m.stored.authMax <= m.auths[i].amount
  BY <1>1 DEF Ordered
<1>5. m.coop.at = "auths" =>
       \A i \in DOMAIN m.auths :
            i > m.coop.ahead /\ isAuth(m.auths[i]) => m.coop.amount <= m.auths[i].amount
  <2>1. \A i \in 1..(L - 1) : i > m.coop.ahead => i + 1 > n.coop.ahead
    BY <1>0, <1>1
  <2> QED BY <1>1, <2>1 DEF Ordered
<1> QED BY <1>2, <1>3, <1>4, <1>5 DEF Ordered

(* The head of the queue is done, and nothing that it held is left. *)
LEMMA DequeueKeeps ==
  ASSUME NEW n \in NodeType, NEW c \in ChannelType, NEW w, NEW b, SessionInv(n, c, w, b),
         n.auths # <<>>, ~Awaited(n, {"topUp"}), NEW m, m = dequeue(n)
  PROVE  m \in NodeType /\ SessionInv(m, c, w, b)
<1> USE DEF SessionInv
<1>f. /\ m \in NodeType
      /\ m.mem = n.mem /\ m.stored = n.stored /\ m.closing = n.closing
      /\ m.checking = n.checking /\ SameRequests(m, n)
      /\ m.attempts = n.attempts /\ m.starting = n.starting
      /\ m.activeBuyer = n.activeBuyer
      /\ m.auths = Tail(n.auths)
      /\ m.coop.at = n.coop.at /\ m.coop.amount = n.coop.amount
      /\ m.coop.ahead = IF n.coop.ahead = 0 THEN 0 ELSE n.coop.ahead - 1
  BY DequeueFields
<1>0. /\ Tracked(m) <=> Tracked(n)
      /\ IsActive(m) <=> IsActive(n)
      /\ \A whos : Awaited(m, whos) <=> Awaited(n, whos)
  BY <1>f DEF Tracked, IsActive, Awaited
<1> DEFINE L == Len(n.auths)
<1>a. /\ L \in Nat \ {0} /\ DOMAIN n.auths = 1..L /\ Len(m.auths) = L - 1
      /\ DOMAIN m.auths = 1..(L - 1)
      /\ \A i \in 1..(L - 1) : i + 1 \in 1..L /\ m.auths[i] = n.auths[i + 1]
  BY <1>f, TailMessages DEF NodeType
<1>b. m.auths # <<>> => 1 \in DOMAIN m.auths
  BY <1>f DEF NodeType
<1>c. \A i \in DOMAIN m.auths : m.auths[i].at = "lock"
  <2>1. \A i \in 1..(L - 1) : i + 1 # 1
    BY <1>a
  <2> QED BY <1>a, <2>1 DEF Queued
<1>d. \A at : HeadAt(m, at) => at = "lock"
  BY <1>b, <1>c DEF HeadAt
<1>1. Counted(m)
  <2>1. n.coop.ahead \in Nat
    BY DEF NodeType, CoopType
  <2> QED BY <1>a, <1>f, <2>1 DEF Counted
<1>2. OnChain(m, c)
  BY <1>0, <1>f DEF OnChain
<1>3. Reserved(m, c)
  BY <1>f DEF Reserved
<1>4. Settlements(m, c)
  BY <1>f DEF Settlements
<1>5. Authorizations(m, c)
  BY <1>0, <1>d, <1>f DEF Authorizations
<1>6. Exposure(m)
  BY <1>0, <1>f DEF Exposure
<1>7. Ordered(m, w, b)
  BY <1>f, OrderedTail
<1>8. Queued(m)
  BY <1>0, <1>c, <1>d DEF Queued
<1>9. Waiting(m)
  BY <1>0, <1>f DEF Waiting, Awaited
<1>10. Granted(m, c)
  BY <1>0, <1>d, <1>f DEF Granted, GrantedTo, Unbillable
<1> QED BY <1>f, <1>1, <1>2, <1>3, <1>4, <1>5, <1>6, <1>7, <1>8, <1>9, <1>10

----------------------------------------------------------------------------
(* The actions. Each keeps the invariant and lowers no stored amount.      *)

Kept(n, m, c, w, b) ==
  /\ m \in NodeType
  /\ SessionInv(m, c, w, b)
  /\ n.stored.authMax <= m.stored.authMax

LEMMA SameMoneyRow ==
  ASSUME NEW x, NEW y
  PROVE  SameMoney(x, x) /\ SameRow(y, y)
BY DEF SameMoney, SameRow

(* Only an auth that is in its own close awaits one. *)
LEMMA NoTopUpClose ==
  ASSUME NEW n, Queued(n), n.auths # <<>>, n.auths[1].at # "close"
  PROVE  ~Awaited(n, {"topUp"})
BY DEF Queued, HeadAt

LEMMA ReactivateKeeps ==
  ASSUME NEW n \in NodeType, NEW c \in ChannelType, NEW w, NEW b, SessionInv(n, c, w, b),
         n.auths # <<>>, ~Awaited(n, {"topUp"}), NEW m, m = reactivate(n)
  PROVE  Kept(n, m, c, w, b)
<1>0. n.stored.authMax \in Nat
  BY DEF NodeType, RowType
<1>1. CASE m = dequeue(n)
  BY <1>0, <1>1, DequeueKeeps, DequeueFields DEF Kept
<1>2. CASE m = await(n, "validation")
  <2>1. /\ m \in NodeType
        /\ m.mem = n.mem /\ m.stored = n.stored /\ m.closing = n.closing /\ SameWork(m, n)
        /\ m.activeBuyer = n.activeBuyer
        /\ SameMessages(m.auths, n.auths) /\ m.auths # <<>> /\ m.auths[1].at = "validation"
    BY <1>2, AwaitFields
  <2>2. SessionInv(m, c, w, b)
    BY <2>1, AwaitKeeps, SameMoneyRow DEF HeadAt
  <2> QED BY <1>0, <2>1, <2>2 DEF Kept
<1> QED BY <1>1, <1>2 DEF reactivate

LEMMA AwaitTopUpFields ==
  ASSUME NEW n \in NodeType, n.auths # <<>>, NEW max \in Nat, NEW m, m = awaitTopUp(n, max)
  PROVE  /\ m \in NodeType
         /\ m.mem = n.mem /\ m.stored = n.stored /\ m.closing = n.closing /\ SameWork(m, n)
         /\ m.activeBuyer = n.activeBuyer
         /\ SameMessages(m.auths, n.auths) /\ m.auths # <<>>
         /\ m.auths[1].at = "topUp" /\ m.auths[1].settle = n.mem.latestAuth
<1> DEFINE x == [n.auths[1] EXCEPT !.at = "topUp", !.max = max,
                                   !.settle = n.mem.latestAuth, !.sig = n.mem.sig]
           t == [n.auths EXCEPT ![1] = x]
<1>1. /\ n.auths \in Seq(AuthType) /\ n.auths[1] \in AuthType
      /\ n.mem.latestAuth \in Nat /\ n.mem.sig \in Nat
  BY DEF NodeType, MemType
<1>2. /\ x \in AuthType /\ x.kind = n.auths[1].kind /\ x.amount = n.auths[1].amount
      /\ x.at = "topUp" /\ x.settle = n.mem.latestAuth
  BY <1>1 DEF AuthType, MessageType
<1>3. m = [n EXCEPT !.auths = t]
  BY DEF awaitTopUp, NodeType
<1> HIDE DEF x
<1>4. t \in Seq(AuthType) /\ t # <<>> /\ t[1] = x /\ SameMessages(t, n.auths)
  BY <1>1, <1>2, HeadUpdate
<1> HIDE DEF t
<1> QED BY <1>2, <1>3, <1>4 DEF NodeType, SameWork

(* An auth that has its turn is the head of the queue, and in the queue    *)
(* only.                                                                   *)
LEMMA AtHead ==
  ASSUME Inv, node.auths # <<>>, auth.at # "close"
  PROVE  /\ node \in NodeType /\ ch \in ChannelType /\ SessionInv(node, ch, wire, buyer)
         /\ auth = node.auths[1] /\ auth \in AuthType /\ auth.amount \in Nat
         /\ ~Awaited(node, {"topUp"})
<1>1. node \in NodeType /\ ch \in ChannelType /\ SessionInv(node, ch, wire, buyer)
  BY DEF Inv, Typed, WorldTyped
<1>2. node.auths \in Seq(AuthType)
  BY <1>1 DEF NodeType
<1>3. auth = node.auths[1] /\ auth \in AuthType
  BY <1>2 DEF auth
<1>4. auth.amount \in Nat
  BY <1>3 DEF AuthType, MessageType
<1>5. ~Awaited(node, {"topUp"})
  BY <1>1, <1>3, NoTopUpClose DEF SessionInv
<1> QED BY <1>1, <1>3, <1>4, <1>5

LEMMA BeginReserveKeeps ==
  ASSUME Inv, beginReserve
  PROVE  Kept(node, node', ch, wire, buyer)
<1>1. /\ node.auths # <<>> /\ auth.at = "lock" /\ node' = await(node, "reserve")
  BY DEF beginReserve, hasTurn
<1>2. /\ node' \in NodeType
      /\ node'.mem = node.mem /\ node'.stored = node.stored /\ node'.closing = node.closing
      /\ SameWork(node', node) /\ node'.activeBuyer = node.activeBuyer
      /\ SameMessages(node'.auths, node.auths) /\ node'.auths # <<>>
      /\ node'.auths[1].at = "reserve"
  BY <1>1, AtHead, AwaitFields
<1>3. SessionInv(node', ch, wire, buyer)
  BY <1>1, <1>2, AtHead, AwaitKeeps, SameMoneyRow DEF HeadAt
<1>4. node.stored.authMax \in Nat
  BY <1>1, AtHead DEF NodeType, RowType
<1> QED BY <1>2, <1>3, <1>4 DEF Kept

LEMMA BeginTopUpKeeps ==
  ASSUME Inv, beginTopUp
  PROVE  Kept(node, node', ch, wire, buyer)
<1>1. /\ node.auths # <<>> /\ auth.at = "lock"
      /\ node' = awaitTopUp(node, auth.amount) \/ node' = dequeue(node)
  BY DEF beginTopUp, hasTurn
<1>2. node.stored.authMax \in Nat /\ node.mem.latestAuth <= node.stored.authMax
  BY <1>1, AtHead DEF NodeType, RowType, SessionInv, Authorizations
<1>3. CASE node' = awaitTopUp(node, auth.amount)
  <2>1. /\ node' \in NodeType
        /\ node'.mem = node.mem /\ node'.stored = node.stored /\ node'.closing = node.closing
        /\ SameWork(node', node) /\ node'.activeBuyer = node.activeBuyer
        /\ SameMessages(node'.auths, node.auths) /\ node'.auths # <<>>
        /\ node'.auths[1].at = "topUp" /\ node'.auths[1].settle = node.mem.latestAuth
    BY <1>1, <1>3, AtHead, AwaitTopUpFields
  <2>2. SessionInv(node', ch, wire, buyer)
    BY <1>1, <1>2, <2>1, AtHead, AwaitKeeps, SameMoneyRow DEF HeadAt
  <2> QED BY <1>2, <2>1, <2>2 DEF Kept
<1>4. CASE node' = dequeue(node)
  BY <1>1, <1>2, <1>4, AtHead, DequeueKeeps, DequeueFields DEF Kept
<1> QED BY <1>1, <1>3, <1>4

LEMMA BeginRecoveryKeeps ==
  ASSUME Inv, beginRecovery
  PROVE  Kept(node, node', ch, wire, buyer)
<1>1. /\ node.auths # <<>> /\ auth.at = "lock" /\ auth.kind = "auth" /\ ~Tracked(node)
      /\ node' = await(node, "recovery")
  BY DEF beginRecovery, hasTurn, isTracked, Tracked
<1>2. /\ node' \in NodeType
      /\ node'.mem = node.mem /\ node'.stored = node.stored /\ node'.closing = node.closing
      /\ SameWork(node', node) /\ node'.activeBuyer = node.activeBuyer
      /\ SameMessages(node'.auths, node.auths) /\ node'.auths # <<>>
      /\ node'.auths[1].at = "recovery"
  BY <1>1, AtHead, AwaitFields
<1>3. isAuth(node.auths[1])
  BY <1>1, AtHead DEF isAuth
<1>4. SessionInv(node', ch, wire, buyer)
  BY <1>1, <1>2, <1>3, AtHead, AwaitKeeps, SameMoneyRow DEF HeadAt
<1>5. node.stored.authMax \in Nat
  BY <1>1, AtHead DEF NodeType, RowType
<1> QED BY <1>2, <1>4, <1>5 DEF Kept

(* A larger amount replaces the accepted and stored one. *)
LEMMA LargerAuthKeeps ==
  ASSUME NEW n \in NodeType, NEW m \in NodeType, NEW c \in ChannelType, NEW w, NEW b,
         SessionInv(n, c, w, b), NEW amount \in Nat,
         Tracked(n), n.stored.authMax < amount,
         m.mem.accepted = amount, m.mem.latestAuth = amount, m.mem.sig = amount,
         m.mem.spent = n.mem.spent, m.mem.reserveMax = n.mem.reserveMax,
         m.stored.authMax = amount, m.stored.sig = amount,
         m.stored.status = n.stored.status, SameRecord(m.stored, n.stored),
         m.stored.reserveMax = n.stored.reserveMax,
         m.stored.tokensDelivered = n.stored.tokensDelivered,
         m.closing = n.closing, SameWork(m, n), m.activeBuyer = n.activeBuyer,
         SameAuths(m.auths, n.auths),
         amount <= b.signed, b.signed \in Nat,
         \A i \in DOMAIN n.auths : isAuth(n.auths[i]) => amount <= n.auths[i].amount,
         \A i \in DOMAIN w : isAuth(w[i]) => amount <= w[i].amount
  PROVE  SessionInv(m, c, w, b)
<1> USE DEF SessionInv
<1>0. /\ Tracked(m)
      /\ IsActive(m) <=> IsActive(n)
      /\ m.auths = <<>> <=> n.auths = <<>>
      /\ n.auths # <<>> => 1 \in DOMAIN n.auths /\ 1 \in DOMAIN m.auths
      /\ \A at : HeadAt(m, at) <=> HeadAt(n, at)
      /\ \A whos : Awaited(m, whos) <=> Awaited(n, whos)
  BY SMTT(60) DEF Tracked, IsActive, HeadAt, Awaited, SameAuths, SameMessages, NodeType, Absent
<1>a. n.stored.authMax = n.mem.accepted /\ n.stored.authMax \in Nat
  BY DEF Authorizations, NodeType, RowType
<1>1. Counted(m)
  BY DEF Counted, SameAuths, SameMessages, SameWork
<1>2. OnChain(m, c)
  BY DEF OnChain
<1>3. Reserved(m, c)
  BY DEF Reserved
<1>4. Settlements(m, c)
  BY DEF Settlements
<1>5. Authorizations(m, c)
  <2>1. HeadAt(m, "topUp") => m.auths[1].settle = n.auths[1].settle /\ m.auths[1].settle \in Nat
    BY <1>0, QueueFields DEF HeadAt, SameAuths, SameMessages
  <2>2. /\ c.settled \in Nat /\ m.closing.amount \in Nat \cup {Absent}
        /\ m.checking.accepted \in Nat
    BY DEF ChannelType, NodeType, ClosingType, CheckingType
  <2> QED BY <1>0, <1>a, <2>1, <2>2, SMTT(60) DEF Authorizations, SameWork, Absent
<1>6. Exposure(m)
  <2>1. n.mem.accepted <= amount /\ n.stored.authMax <= amount
    BY <1>a
  <2>2. Exposure(n) /\ SameRequests(m, n) /\ m.mem.accepted \in Nat
    BY DEF SameWork
  <2> HIDE DEF SessionInv, SameRequests, SameRecord
  <2> QED BY <2>1, <2>2, LargerExposure
<1>7. Ordered(m, w, b)
  BY SMTT(60) DEF Ordered, SameAuths, SameMessages, isAuth, SameWork
<1>8. Queued(m)
  BY <1>0 DEF Queued, SameAuths, SameMessages, isAuth
<1>9. Waiting(m)
  BY <1>0 DEF Waiting, Awaited, SameWork
<1>10. Granted(m, c)
  BY <1>0 DEF Granted, GrantedTo, Unbillable, SameWork
<1> QED BY <1>1, <1>2, <1>3, <1>4, <1>5, <1>6, <1>7, <1>8, <1>9, <1>10

(* A change of the head that is not of what it is doing. *)
LEMMA ReactivatesFields ==
  ASSUME NEW s \in Seq(AuthType), s # <<>>, NEW x \in BOOLEAN,
         NEW t, t = [s EXCEPT ![1] = [@ EXCEPT !.reactivates = x]]
  PROVE  t \in Seq(AuthType) /\ t # <<>> /\ SameAuths(t, s)
<1> DEFINE h == [s[1] EXCEPT !.reactivates = x]
<1>1. s[1] \in AuthType /\ 1 \in DOMAIN s
  OBVIOUS
<1>2. /\ h \in AuthType /\ h.kind = s[1].kind /\ h.amount = s[1].amount
      /\ h.at = s[1].at /\ h.settle = s[1].settle
  BY <1>1 DEF AuthType, MessageType
<1>3. t = [s EXCEPT ![1] = h]
  OBVIOUS
<1> HIDE DEF h
<1>4. t \in Seq(AuthType) /\ t # <<>> /\ t[1] = h /\ SameMessages(t, s)
  BY <1>2, <1>3, HeadUpdate
<1>5. \A i \in DOMAIN t : i # 1 => t[i] = s[i]
  BY <1>3
<1> QED BY <1>2, <1>4, <1>5 DEF SameAuths, SameMessages

LEMMA AcceptSpendingAuthKeeps ==
  ASSUME Inv, acceptSpendingAuth
  PROVE  Kept(node, node', ch, wire, buyer)
<1> DEFINE mem == [node.mem EXCEPT !.accepted = auth.amount, !.latestAuth = auth.amount,
                                   !.sig = auth.amount]
           row == [node.stored EXCEPT !.authMax = auth.amount, !.sig = auth.amount]
           auths == [node.auths EXCEPT ![1] = [@ EXCEPT !.reactivates = requiresReactivation]]
           n == [node EXCEPT !.mem = mem, !.stored = row, !.auths = auths]
<1>1. /\ node.auths # <<>> /\ auth.at = "lock" /\ auth.kind = "auth" /\ Tracked(node)
      /\ auth.amount > node.mem.accepted
  BY DEF acceptSpendingAuth, hasTurn, isTracked, Tracked, isAcceptable
<1>2. /\ node \in NodeType /\ ch \in ChannelType /\ SessionInv(node, ch, wire, buyer)
      /\ auth = node.auths[1] /\ auth.amount \in Nat
      /\ ~Awaited(node, {"topUp"})
  BY <1>1, AtHead
<1>3. node' = IF n.mem.pendingTopUp > 0
              THEN [awaitTopUp(n, n.mem.pendingTopUp) EXCEPT !.mem.pendingTopUp = 0]
              ELSE reactivate(n)
  <2>1. n = [node EXCEPT !.mem.accepted = auth.amount, !.mem.latestAuth = auth.amount,
                        !.mem.sig = auth.amount,
                        !.stored.authMax = auth.amount, !.stored.sig = auth.amount,
                        !.auths[1].reactivates = requiresReactivation]
    BY <1>2, ZenonT(90) DEF NodeType, MemType, RowType
  <2> HIDE DEF n
  <2> QED BY <2>1 DEF acceptSpendingAuth
<1>4. /\ mem \in MemType /\ mem.accepted = auth.amount /\ mem.latestAuth = auth.amount
      /\ mem.sig = auth.amount /\ mem.spent = node.mem.spent
      /\ mem.reserveMax = node.mem.reserveMax
  <2>1. node.mem \in MemType
    BY <1>2 DEF NodeType
  <2> QED BY <1>2, <2>1 DEF MemType
<1>5. /\ row \in RowType /\ row.authMax = auth.amount /\ row.sig = auth.amount
      /\ row.status = node.stored.status /\ SameRecord(row, node.stored)
      /\ row.reserveMax = node.stored.reserveMax
      /\ row.tokensDelivered = node.stored.tokensDelivered
  <2>1. node.stored \in RowType
    BY <1>2 DEF NodeType
  <2> QED BY <1>2, <2>1 DEF RowType
<1>6. auths \in Seq(AuthType) /\ auths # <<>> /\ SameAuths(auths, node.auths)
  <2>1. node.auths \in Seq(AuthType)
    BY <1>2 DEF NodeType
  <2>2. requiresReactivation \in BOOLEAN
    BY DEF requiresReactivation
  <2> QED BY <1>1, <2>1, <2>2, ReactivatesFields
<1> HIDE DEF mem, row, auths
<1>7. /\ n \in NodeType /\ n.mem = mem /\ n.stored = row /\ n.auths = auths
      /\ n.closing = node.closing /\ SameWork(n, node) /\ n.activeBuyer = node.activeBuyer
  BY <1>2, <1>4, <1>5, <1>6 DEF NodeType, SameWork
<1> HIDE DEF n
<1>8. node.stored.authMax \in Nat /\ node.stored.authMax < auth.amount
  BY <1>1, <1>2 DEF SessionInv, Authorizations, NodeType, RowType
<1>9. SessionInv(n, ch, wire, buyer)
  <2>1. isAuth(node.auths[1]) /\ 1 \in DOMAIN node.auths
    BY <1>1, <1>2 DEF isAuth, NodeType
  <2>2. \A i \in DOMAIN node.auths : isAuth(node.auths[i]) => auth.amount <= node.auths[i].amount
    <3>1. \A i \in DOMAIN node.auths : i = 1 \/ 1 < i
      BY <1>2 DEF NodeType
    <3> QED BY <1>2, <2>1, <3>1 DEF SessionInv, Ordered
  <2>3. \A i \in DOMAIN wire : isAuth(wire[i]) => auth.amount <= wire[i].amount
    BY <1>2, <2>1 DEF SessionInv, Ordered
  <2>4. auth.amount <= buyer.signed /\ buyer.signed \in Nat
    BY <1>2, <2>1 DEF SessionInv, Ordered, Inv, Typed, BuyerType
  <2> QED BY <1>1, <1>2, <1>4, <1>5, <1>6, <1>7, <1>8, <2>2, <2>3, <2>4, LargerAuthKeeps
<1>10. n.auths # <<>> /\ ~Awaited(n, {"topUp"})
  BY <1>2, <1>6, <1>7 DEF Awaited
<1>11. CASE n.mem.pendingTopUp > 0
  <2> DEFINE k == awaitTopUp(n, n.mem.pendingTopUp)
             m == [k EXCEPT !.mem = [@ EXCEPT !.pendingTopUp = 0]]
  <2>1. n.mem.pendingTopUp \in Nat
    BY <1>7 DEF NodeType, MemType
  <2>2. /\ k \in NodeType
        /\ k.mem = n.mem /\ k.stored = n.stored /\ k.closing = n.closing /\ SameWork(k, n)
        /\ k.activeBuyer = n.activeBuyer
        /\ SameMessages(k.auths, n.auths) /\ k.auths # <<>>
        /\ k.auths[1].at = "topUp" /\ k.auths[1].settle = n.mem.latestAuth
    BY <1>7, <1>10, <2>1, AwaitTopUpFields
  <2>3. node' = m
    BY <1>3, <1>11, <2>2 DEF NodeType
  <2> HIDE DEF k
  <2>4. /\ m \in NodeType /\ SameMoney(m.mem, k.mem)
        /\ m.stored = k.stored /\ m.closing = k.closing /\ SameWork(m, k)
        /\ m.activeBuyer = k.activeBuyer /\ m.auths = k.auths
    <3> DEFINE x == [k.mem EXCEPT !.pendingTopUp = 0]
    <3>1. k.mem \in MemType
      BY <2>2 DEF NodeType
    <3>2. x \in MemType /\ SameMoney(x, k.mem)
      BY <3>1 DEF MemType, SameMoney
    <3> HIDE DEF x
    <3>3. m = [k EXCEPT !.mem = x]
      BY <2>2 DEF x, NodeType
    <3> QED BY <2>2, <3>2, <3>3 DEF NodeType, SameWork
  <2> HIDE DEF m
  <2>5. SessionInv(m, ch, wire, buyer)
    <3>1. m.auths[1].settle <= n.stored.authMax
      BY <1>4, <1>5, <1>7, <2>2, <2>4, <1>2
    <3>2. SameRow(m.stored, n.stored) /\ SameWork(m, n) /\ ~HeadAt(m, "recovery")
      BY <2>2, <2>4 DEF SameWork, SameRow, HeadAt
    <3> QED BY <1>2, <1>7, <1>9, <1>10, <2>2, <2>4, <3>1, <3>2, AwaitKeeps
  <2> QED BY <1>2, <1>5, <1>7, <1>8, <2>2, <2>3, <2>4, <2>5 DEF Kept
<1>12. CASE ~(n.mem.pendingTopUp > 0)
  <2>1. Kept(n, node', ch, wire, buyer)
    BY <1>2, <1>3, <1>7, <1>9, <1>10, <1>12, ReactivateKeeps
  <2>2. node'.stored.authMax \in Nat
    BY <2>1 DEF Kept, NodeType, RowType
  <2> QED BY <1>2, <1>5, <1>7, <1>8, <2>1, <2>2 DEF Kept
<1> QED BY <1>11, <1>12

LEMMA OtherSpendingAuthKeeps ==
  ASSUME Inv, otherSpendingAuth
  PROVE  Kept(node, node', ch, wire, buyer)
<1> DEFINE again == auth.amount = node.mem.accepted /\ requiresReactivation
           auths == [node.auths EXCEPT ![1] = [@ EXCEPT !.reactivates = again]]
           n == [node EXCEPT !.auths = auths]
<1>1. node.auths # <<>> /\ auth.at = "lock"
  BY DEF otherSpendingAuth, hasTurn
<1>2. /\ node \in NodeType /\ ch \in ChannelType /\ SessionInv(node, ch, wire, buyer)
      /\ ~Awaited(node, {"topUp"})
  BY <1>1, AtHead
<1>3. node' = reactivate(n)
  <2>1. n = [node EXCEPT !.auths[1].reactivates = again]
    BY <1>2 DEF NodeType
  <2> HIDE DEF n
  <2> QED BY <2>1 DEF otherSpendingAuth
<1>4. auths \in Seq(AuthType) /\ auths # <<>> /\ SameAuths(auths, node.auths)
  <2>1. node.auths \in Seq(AuthType)
    BY <1>2 DEF NodeType
  <2>2. again \in BOOLEAN
    OBVIOUS
  <2> HIDE DEF again
  <2> QED BY <1>1, <2>1, <2>2, ReactivatesFields
<1> HIDE DEF auths
<1>5. /\ n \in NodeType /\ n.mem = node.mem /\ n.stored = node.stored /\ n.auths = auths
      /\ n.closing = node.closing /\ SameWork(n, node) /\ n.activeBuyer = node.activeBuyer
  BY <1>2, <1>4 DEF NodeType, SameWork
<1> HIDE DEF n
<1>6. SessionInv(n, ch, wire, buyer)
  BY <1>2, <1>4, <1>5, FrameKeeps, SameMoneyRow DEF SameWork, MayCheck, MayRequestClose
<1>7. n.auths # <<>> /\ ~Awaited(n, {"topUp"})
  BY <1>2, <1>4, <1>5 DEF Awaited
<1>8. Kept(n, node', ch, wire, buyer)
  BY <1>2, <1>3, <1>5, <1>6, <1>7, ReactivateKeeps
<1> QED BY <1>5, <1>8 DEF Kept

----------------------------------------------------------------------------
(* Requests.                                                               *)

(* The same close, or one during which a request that is not counted was   *)
(* billed.                                                                 *)
SameClose(x, y) ==
  /\ x.amount = y.amount /\ x.waiters = y.waiters
  /\ x = NoClose <=> y = NoClose
  /\ y.late => x.late

(* A change of the requests keeps the invariant when they stay within      *)
(* their bounds and when none that is counted begins during a granted      *)
(* close that could bill it.                                               *)
LEMMA ServingKeeps ==
  ASSUME NEW n \in NodeType, NEW m \in NodeType, NEW c \in ChannelType, NEW w, NEW b,
         SessionInv(n, c, w, b),
         m.mem = n.mem, m.stored = n.stored, SameClose(m.closing, n.closing),
         m.coop = n.coop, m.checking = n.checking, m.attempts = n.attempts,
         m.starting = n.starting, m.auths = n.auths, m.activeBuyer = n.activeBuyer,
         m.inFlight + m.uncounted + Len(m.waiting) + Len(m.parked) <= MaxInFlight,
         Exposure(m),
         \/ m.inFlight <= n.inFlight
         \/ n.activeBuyer /\ ~(IsActive(n) /\ n.closing # NoClose)
  PROVE  SessionInv(m, c, w, b)
<1> USE DEF SessionInv
<1>0. /\ Tracked(m) <=> Tracked(n)
      /\ IsActive(m) <=> IsActive(n)
      /\ \A at : HeadAt(m, at) <=> HeadAt(n, at)
      /\ \A whos : Awaited(m, whos) <=> Awaited(n, whos)
  BY DEF Tracked, IsActive, HeadAt, Awaited, SameClose
<1>1. Counted(m)
  BY DEF Counted
<1>2. OnChain(m, c)
  BY <1>0 DEF OnChain, SameClose
<1>3. Reserved(m, c) /\ Settlements(m, c)
  BY DEF Reserved, Settlements
<1>4. Authorizations(m, c)
  BY <1>0 DEF Authorizations, SameClose
<1>5. Ordered(m, w, b)
  BY OrderedFrame DEF SameMessages
<1>6. Queued(m)
  BY <1>0 DEF Queued
<1>7. Waiting(m)
  BY <1>0 DEF Waiting, Awaited, SameClose
<1>8. Granted(m, c)
  <2>1. n.inFlight \in Nat /\ m.inFlight \in Nat
    BY DEF NodeType
  <2>2. n.activeBuyer => Tracked(n) /\ ~HeadAt(n, "recovery")
    BY DEF Authorizations, Queued
  <2>3. \A who : GrantedTo(m, who) <=> GrantedTo(n, who)
    BY DEF GrantedTo, SameClose
  <2>4. GrantedTo(n, "coop") => n.closing # NoClose
    BY DEF GrantedTo
  <2> QED BY <1>0, <2>1, <2>2, <2>3, <2>4 DEF Granted, Unbillable, SameClose
<1> QED BY <1>1, <1>2, <1>3, <1>4, <1>5, <1>6, <1>7, <1>8

LEMMA WhenIdleKeeps ==
  ASSUME NEW n \in NodeType, NEW c \in ChannelType, NEW w, NEW b, SessionInv(n, c, w, b),
         NEW m, m = closeSessionWhenIdle(n)
  PROVE  m \in NodeType /\ SessionInv(m, c, w, b) /\ m.stored = n.stored
<1>1. /\ m \in NodeType /\ m.mem = n.mem /\ m.stored = n.stored /\ m.closing = n.closing
      /\ SameWork(m, n) /\ m.activeBuyer = n.activeBuyer /\ m.auths = n.auths
  BY DEF closeSessionWhenIdle, NodeType, SameWork
<1>2. SessionInv(m, c, w, b)
  BY <1>1, FrameKeeps, SameMoneyRow, SameAuthsRefl DEF SameWork, MayCheck, MayRequestClose
<1> QED BY <1>1, <1>2

(* A request may begin when it leaves room for its own cost, and for that  *)
(* of those that wait.                                                     *)
MayBegin(n, k) ==
  /\ k + Len(n.waiting) + Len(n.parked) <= MaxInFlight
  /\ IsActive(n) /\ Tracked(n) /\ n.mem.spent # Absent =>
       /\ n.mem.spent + Load(k) <= n.mem.accepted + Load(MaxInFlight)
       /\ \A i \in DOMAIN n.parked :
            \/ n.mem.spent + Load(k + i) <= n.mem.accepted + Load(MaxInFlight)
            \/ n.mem.spent + Load(k + i) <= n.parked[i].spent + Load(MaxInFlight)

(* It leaves it when no work is unsigned. *)
LEMMA SignedMayBegin ==
  ASSUME NEW n \in NodeType, NEW k \in Nat,
         k + Len(n.waiting) + Len(n.parked) <= MaxInFlight,
         IsActive(n) /\ Tracked(n) /\ n.mem.spent # Absent => n.mem.spent <= n.mem.accepted
  PROVE  MayBegin(n, k)
<1>1. /\ n.mem.spent # Absent => n.mem.spent \in Nat
      /\ n.mem.accepted # Absent => n.mem.accepted \in Nat
      /\ Len(n.waiting) \in Nat
      /\ Len(n.parked) \in Nat /\ DOMAIN n.parked = 1..Len(n.parked)
  BY NodeNumbers
<1>2. /\ MaxInFlight \in Nat /\ k <= MaxInFlight
      /\ \A i \in 1..Len(n.parked) : k + i \in Nat /\ k + i <= MaxInFlight
  BY <1>1, Positions, SellerAssumption
<1>3. /\ Load(MaxInFlight) \in Nat /\ Load(k) \in Nat /\ Load(k) <= Load(MaxInFlight)
      /\ \A i \in 1..Len(n.parked) : Load(k + i) \in Nat /\ Load(k + i) <= Load(MaxInFlight)
  BY <1>2, Loads
<1>4. IsActive(n) /\ Tracked(n) /\ n.mem.spent # Absent =>
        /\ n.mem.spent + Load(k) <= n.mem.accepted + Load(MaxInFlight)
        /\ \A i \in 1..Len(n.parked) :
             n.mem.spent + Load(k + i) <= n.mem.accepted + Load(MaxInFlight)
  BY <1>1, <1>3, Within DEF Tracked
<1> QED BY <1>1, <1>4 DEF MayBegin

LEMMA BeginKeeps ==
  ASSUME NEW n \in NodeType, NEW c \in ChannelType, NEW w, NEW b, SessionInv(n, c, w, b),
         MayBegin(n, n.inFlight + n.uncounted + 1),
         NEW m, m = beginBillableRequest(n)
  PROVE  m \in NodeType /\ SessionInv(m, c, w, b) /\ m.stored = n.stored
<1>1. CASE m = n
  BY <1>1
<1>2. CASE m # n
  <2> DEFINE k == n.inFlight + n.uncounted + 1
  <2>1. /\ n.inFlight \in Nat /\ n.uncounted \in Nat
        /\ Len(n.waiting) \in Nat /\ Len(n.parked) \in Nat
    BY NodeNumbers
  <2>2. /\ m \in NodeType /\ m.mem = n.mem /\ m.stored = n.stored /\ m.closing = n.closing
        /\ m.coop = n.coop /\ m.checking = n.checking /\ m.attempts = n.attempts
        /\ m.starting = n.starting /\ m.auths = n.auths /\ m.activeBuyer = n.activeBuyer
        /\ m.waiting = n.waiting /\ m.parked = n.parked
        /\ \/ /\ m.inFlight = n.inFlight /\ m.uncounted = n.uncounted + 1
           \/ /\ m.inFlight = n.inFlight + 1 /\ m.uncounted = n.uncounted
              /\ n.activeBuyer /\ ~(IsActive(n) /\ n.closing # NoClose)
    <3>1. \/ m = [n EXCEPT !.uncounted = n.uncounted + 1]
          \/ /\ m = [n EXCEPT !.inFlight = n.inFlight + 1]
             /\ n.activeBuyer /\ ~(IsActive(n) /\ n.closing # NoClose)
      BY <1>2 DEF beginBillableRequest, hasClosingChannel, IsActive, NodeType
    <3>2. n.uncounted + 1 \in Nat /\ n.inFlight + 1 \in Nat
      BY <2>1
    <3>3. CASE m = [n EXCEPT !.uncounted = n.uncounted + 1]
      BY <3>2, <3>3 DEF NodeType
    <3>4. CASE /\ m = [n EXCEPT !.inFlight = n.inFlight + 1]
               /\ n.activeBuyer /\ ~(IsActive(n) /\ n.closing # NoClose)
      BY <3>2, <3>4 DEF NodeType
    <3> QED BY <3>1, <3>3, <3>4
  <2>3. m.inFlight + m.uncounted = k
    BY <2>1, <2>2
  <2>4. m.inFlight + m.uncounted + Len(m.waiting) + Len(m.parked) <= MaxInFlight
    BY <2>2, <2>3 DEF MayBegin
  <2>5. MayBegin(n, k)
    OBVIOUS
  <2>6. \/ m.inFlight <= n.inFlight
        \/ n.activeBuyer /\ ~(IsActive(n) /\ n.closing # NoClose)
    BY <2>1, <2>2
  <2> HIDE DEF k
  <2>7. Exposure(m)
    <3>1. Exposure(n)
      BY DEF SessionInv
    <3> QED BY <2>2, <2>3, <2>5, <3>1 DEF Exposure, MayBegin, Tracked, IsActive
  <2>8. SameClose(m.closing, n.closing)
    BY <2>2 DEF SameClose
  <2>9. SessionInv(m, c, w, b)
    BY <2>2, <2>4, <2>6, <2>7, <2>8, ServingKeeps
  <2> QED BY <2>2, <2>9
<1> QED BY <1>1, <1>2

(* decide, for a request whose admission leaves room. *)
LEMMA DecideKeeps ==
  ASSUME NEW n \in NodeType, NEW c \in ChannelType, NEW w, NEW b, SessionInv(n, c, w, b),
         WorldTyped,
         NEW read, read.spent \in Nat, NEW tooLarge, decide(n, read, tooLarge),
         ~isRefused(read, orZero(n.mem.accepted), tooLarge) =>
           MayBegin(n, n.inFlight + n.uncounted + 1)
  PROVE  node' \in NodeType /\ SessionInv(node', c, w, b) /\ node'.stored = n.stored
         /\ needAuth' \in Nat
<1> DEFINE refused == isRefused(read, orZero(n.mem.accepted), tooLarge)
           exhausted == isExhausted(read, orZero(n.mem.accepted), tooLarge)
<1>1. /\ node' = CASE refused /\ exhausted -> closeSessionWhenIdle(n)
                   [] refused /\ ~exhausted -> n
                   [] OTHER -> beginBillableRequest(n)
      /\ sendNeedAuth(read.spent) \/ needAuth' = needAuth
  BY DEF decide
<1>2. needAuth' \in Nat
  <2>1. needAuth \in Nat
    BY DEF WorldTyped
  <2>2. Max({needAuth, read.spent}) \in Nat
    BY <2>1, LargerOfTwo
  <2> QED BY <1>1, <2>1, <2>2 DEF sendNeedAuth
<1> HIDE DEF refused, exhausted
<1>3. CASE refused /\ exhausted
  BY <1>1, <1>2, <1>3, WhenIdleKeeps
<1>4. CASE refused /\ ~exhausted
  BY <1>1, <1>2, <1>4
<1>5. CASE ~refused
  <2>1. node' = beginBillableRequest(n)
    BY <1>1, <1>5
  <2> QED BY <1>2, <1>5, <2>1, BeginKeeps DEF refused
<1> QED BY <1>3, <1>4, <1>5

(* The first of the parked requests decides. The bound on its work holds   *)
(* with what it has read, so it holds with what is accepted when it is not *)
(* refused.                                                                *)
LEMMA RequestWakesKeeps ==
  ASSUME Inv, NEW tooLarge, requestWakes(tooLarge)
  PROVE  Kept(node, node', ch, wire, buyer) /\ needAuth' \in Nat
<1> DEFINE p == node.parked
           q == Tail(p)
           read == Head(p)
           n == [node EXCEPT !.parked = q]
           k == node.inFlight + node.uncounted
<1>1. /\ node \in NodeType /\ ch \in ChannelType /\ SessionInv(node, ch, wire, buyer)
      /\ WorldTyped
  BY DEF Inv, Typed, WorldTyped
<1>2. p # <<>> /\ decide(n, read, tooLarge)
  BY DEF requestWakes
<1>3. /\ p \in Seq(ParkedType) /\ q \in Seq(ParkedType) /\ Len(q) = Len(p) - 1
      /\ Len(p) \in Nat \ {0} /\ DOMAIN p = 1..Len(p) /\ DOMAIN q = 1..(Len(p) - 1)
      /\ \A i \in 1..(Len(p) - 1) : i + 1 \in DOMAIN p /\ q[i] = p[i + 1]
  <2>1. p \in Seq(ParkedType)
    BY <1>1 DEF NodeType
  <2> QED BY <1>2, <2>1, TailMessages
<1>4. read = p[1] /\ 1 \in DOMAIN p
  BY <1>2, <1>3
<1> HIDE DEF q, read
<1>5. /\ n \in NodeType /\ n.mem = node.mem /\ n.stored = node.stored
      /\ n.closing = node.closing /\ n.coop = node.coop /\ n.checking = node.checking
      /\ n.attempts = node.attempts /\ n.starting = node.starting /\ n.auths = node.auths
      /\ n.activeBuyer = node.activeBuyer /\ n.inFlight = node.inFlight
      /\ n.uncounted = node.uncounted /\ n.waiting = node.waiting /\ n.parked = q
  BY <1>1, <1>3 DEF NodeType
<1> HIDE DEF n
<1>6. /\ node.inFlight \in Nat /\ node.uncounted \in Nat /\ Len(node.waiting) \in Nat
      /\ node.mem.spent # Absent => node.mem.spent \in Nat
      /\ node.mem.accepted # Absent => node.mem.accepted \in Nat
      /\ \A i \in DOMAIN p : p[i].spent \in Nat
      /\ node.stored.authMax \in Nat
  BY <1>1, NodeNumbers
<1>7. k + Len(node.waiting) + Len(p) <= MaxInFlight /\ Exposure(node)
  BY <1>1 DEF SessionInv, Counted
<1>8. /\ k \in Nat /\ k + 1 \in Nat
      /\ \A i \in 1..(Len(p) - 1) : k + i \in Nat /\ k + (i + 1) = k + i + 1
                                    /\ (k + 1) + i = k + i + 1
  <2>1. k \in Nat /\ Len(p) - 1 \in Nat
    BY <1>3, <1>6, SMTT(60)
  <2>2. \A x, y \in Nat : x + 1 \in Nat /\ \A i \in 1..y :
          x + i \in Nat /\ x + (i + 1) = x + i + 1 /\ (x + 1) + i = x + i + 1
    OBVIOUS
  <2> HIDE DEF k
  <2> QED BY <2>1, <2>2
<1>s. /\ (k + 1) + Len(node.waiting) + (Len(p) - 1) <= MaxInFlight
      /\ k + Len(node.waiting) + (Len(p) - 1) <= MaxInFlight
  <2>1. /\ k \in Nat /\ Len(node.waiting) \in Nat /\ Len(p) \in Nat \ {0}
        /\ k + Len(node.waiting) + Len(p) <= MaxInFlight /\ MaxInFlight \in Nat
    BY <1>3, <1>6, <1>7, <1>8, SellerAssumption
  <2>2. Len(p) - 1 \in Nat /\ (Len(p) - 1) + 1 = Len(p)
    BY <2>1
  <2> HIDE DEF k, p
  <2> QED BY <2>1, <2>2, Moved
<1>9. k = n.inFlight + n.uncounted
  BY <1>5
<1> HIDE DEF k
<1>10. /\ MaxCost \in Nat /\ MaxInFlight \in Nat /\ Load(MaxInFlight) \in Nat
       /\ Load(k) \in Nat /\ Load(k + 1) \in Nat
       /\ \A i \in 1..(Len(p) - 1) : Load(k + i) \in Nat /\ Load(k + i + 1) = Load(k + i) + MaxCost
  BY <1>8, Loads
<1>11. ASSUME IsActive(node), Tracked(node), node.mem.spent # Absent
       PROVE  /\ node.mem.spent <= node.mem.accepted + Load(MaxInFlight)
              /\ node.mem.spent + Load(k) <= node.mem.accepted + Load(MaxInFlight)
              /\ \A i \in DOMAIN p :
                   \/ node.mem.spent + Load(k + i) <= node.mem.accepted + Load(MaxInFlight)
                   \/ node.mem.spent + Load(k + i) <= p[i].spent + Load(MaxInFlight)
  BY <1>7, <1>11 DEF Exposure, k
<1>12. ASSUME IsActive(node), Tracked(node), node.mem.spent # Absent,
              NEW i \in 1..(Len(p) - 1)
       PROVE  \/ node.mem.spent + Load(k + i + 1) <= node.mem.accepted + Load(MaxInFlight)
              \/ node.mem.spent + Load(k + i + 1) <= q[i].spent + Load(MaxInFlight)
  <2>1. i + 1 \in DOMAIN p /\ q[i] = p[i + 1] /\ k + (i + 1) = k + i + 1
    BY <1>3, <1>8
  <2> QED BY <1>11, <1>12, <2>1
<1>13. SessionInv(n, ch, wire, buyer)
  <2>1. Exposure(n)
    <3>1. ASSUME IsActive(node), Tracked(node), node.mem.spent # Absent,
                 NEW i \in 1..(Len(p) - 1)
          PROVE  \/ node.mem.spent + Load(k + i) <= node.mem.accepted + Load(MaxInFlight)
                 \/ node.mem.spent + Load(k + i) <= q[i].spent + Load(MaxInFlight)
      <4>1. /\ i + 1 \in DOMAIN p /\ q[i] = p[i + 1] /\ q[i].spent \in Nat
        BY <1>3, <1>6
      <4>2. /\ node.mem.spent \in Nat /\ node.mem.accepted \in Nat
            /\ Load(k + i) \in Nat /\ Load(k + i + 1) = Load(k + i) + MaxCost
        BY <1>6, <1>10, <3>1 DEF Tracked
      <4>3. \/ node.mem.spent + Load(k + i + 1) <= node.mem.accepted + Load(MaxInFlight)
            \/ node.mem.spent + Load(k + i + 1) <= q[i].spent + Load(MaxInFlight)
        BY <1>12, <3>1
      <4>4. MaxCost \in Nat /\ Load(MaxInFlight) \in Nat
        BY <1>10
      <4> QED BY <4>1, <4>2, <4>3, <4>4, Lowered
    <3> QED BY <1>3, <1>5, <1>7, <1>9, <3>1 DEF Exposure, Tracked, IsActive
  <2>2. n.inFlight + n.uncounted + Len(n.waiting) + Len(n.parked) <= MaxInFlight
    BY <1>3, <1>5, <1>9, <1>s
  <2>3. SameClose(n.closing, node.closing) /\ n.inFlight <= node.inFlight
    BY <1>5, <1>6 DEF SameClose
  <2> QED BY <1>1, <1>5, <2>1, <2>2, <2>3, ServingKeeps
<1>14. ASSUME ~isRefused(read, orZero(n.mem.accepted), tooLarge)
       PROVE  MayBegin(n, n.inFlight + n.uncounted + 1)
  <2>1. /\ read.spent \in Nat
        /\ node.mem.accepted # Absent => read.spent <= node.mem.accepted
    BY <1>4, <1>5, <1>6, <1>14 DEF isRefused, exceedsBudget, orZero
  <2>2. (k + 1) + Len(n.waiting) + Len(n.parked) <= MaxInFlight
    BY <1>3, <1>5, <1>s
  <2>3. IsActive(node) /\ Tracked(node) /\ node.mem.spent # Absent =>
          node.mem.spent + Load(k + 1) <= node.mem.accepted + Load(MaxInFlight)
    <3> SUFFICES ASSUME IsActive(node), Tracked(node), node.mem.spent # Absent
                 PROVE  node.mem.spent + Load(k + 1) <= node.mem.accepted + Load(MaxInFlight)
      OBVIOUS
    <3>1. node.mem.spent \in Nat /\ node.mem.accepted \in Nat
      BY <1>6 DEF Tracked
    <3>2. \/ node.mem.spent + Load(k + 1) <= node.mem.accepted + Load(MaxInFlight)
          \/ node.mem.spent + Load(k + 1) <= read.spent + Load(MaxInFlight)
      BY <1>4, <1>11
    <3> QED BY <1>10, <2>1, <3>1, <3>2, SMTT(60) DEF Tracked
  <2>4. IsActive(node) /\ Tracked(node) /\ node.mem.spent # Absent =>
          \A i \in 1..(Len(p) - 1) :
            \/ node.mem.spent + Load((k + 1) + i) <= node.mem.accepted + Load(MaxInFlight)
            \/ node.mem.spent + Load((k + 1) + i) <= q[i].spent + Load(MaxInFlight)
    BY <1>8, <1>12
  <2>5. MayBegin(n, k + 1)
    BY <1>3, <1>5, <2>2, <2>3, <2>4 DEF MayBegin, Tracked, IsActive
  <2> QED BY <1>9, <2>5
<1>15. read.spent \in Nat
  BY <1>4, <1>6
<1>16. /\ node' \in NodeType /\ SessionInv(node', ch, wire, buyer) /\ node'.stored = n.stored
       /\ needAuth' \in Nat
  BY <1>1, <1>2, <1>5, <1>13, <1>14, <1>15, DecideKeeps DEF n
<1> QED BY <1>5, <1>6, <1>16 DEF Kept

(* The check of the budget, when there is room for one more request. *)
LEMMA CheckBudgetKeeps ==
  ASSUME NEW n \in NodeType, NEW c \in ChannelType, NEW w, NEW b, SessionInv(n, c, w, b),
         WorldTyped, NEW tooLarge, checkBudget(n, tooLarge),
         n.inFlight + n.uncounted + 1 + Len(n.waiting) + Len(n.parked) <= MaxInFlight
  PROVE  node' \in NodeType /\ SessionInv(node', c, w, b) /\ node'.stored = n.stored
         /\ needAuth' \in Nat
<1> DEFINE read == budgetRead(n)
           k == n.inFlight + n.uncounted
           p == n.parked
           q == Append(p, read)
<1>1. IF read.spent > orZero(n.mem.accepted)
      THEN node' = [n EXCEPT !.parked = q] /\ needAuth' = needAuth
      ELSE decide(n, read, tooLarge)
  BY DEF checkBudget, NodeType
<1>2. /\ n.inFlight \in Nat /\ n.uncounted \in Nat /\ Len(n.waiting) \in Nat
      /\ n.mem.spent # Absent => n.mem.spent \in Nat
      /\ n.mem.accepted # Absent => n.mem.accepted \in Nat
      /\ n.mem.reserveMax \in Nat /\ n.mem.blocked \in BOOLEAN
      /\ p \in Seq(ParkedType) /\ Len(p) \in Nat /\ DOMAIN p = 1..Len(p)
  BY NodeNumbers DEF NodeType, MemType
<1>3. read \in ParkedType /\ read.spent = orZero(n.mem.spent) /\ read.spent \in Nat
  BY <1>2 DEF budgetRead, ParkedType, orZero
<1> HIDE DEF read
<1>4. CASE read.spent > orZero(n.mem.accepted)
  <2>1. /\ q \in Seq(ParkedType) /\ Len(q) = Len(p) + 1 /\ DOMAIN q = 1..(Len(p) + 1)
        /\ \A i \in 1..Len(p) : q[i] = p[i]
        /\ q[Len(p) + 1] = read
    BY <1>2, <1>3
  <2>0. node' = [n EXCEPT !.parked = q] /\ needAuth' = needAuth
    BY <1>1, <1>4
  <2> HIDE DEF q
  <2>2. /\ node' \in NodeType /\ node'.mem = n.mem /\ node'.stored = n.stored
        /\ node'.closing = n.closing /\ node'.coop = n.coop
        /\ node'.checking = n.checking /\ node'.attempts = n.attempts
        /\ node'.starting = n.starting /\ node'.auths = n.auths
        /\ node'.activeBuyer = n.activeBuyer /\ node'.inFlight = n.inFlight
        /\ node'.uncounted = n.uncounted /\ node'.waiting = n.waiting /\ node'.parked = q
        /\ needAuth' = needAuth
    <3>1. q \in Seq(ParkedType)
      BY <2>1
    <3> QED BY <2>0, <3>1 DEF NodeType
  <2>3. /\ k \in Nat /\ k + (Len(p) + 1) \in Nat /\ k + (Len(p) + 1) <= MaxInFlight
        /\ MaxInFlight \in Nat
        /\ k + Len(n.waiting) + (Len(p) + 1) <= MaxInFlight
    <3>1. /\ n.inFlight \in Nat /\ n.uncounted \in Nat /\ Len(n.waiting) \in Nat
          /\ Len(p) \in Nat /\ MaxInFlight \in Nat
      BY <1>2, SellerAssumption
    <3>2. \A x, y, v, u, z \in Nat : x + y + 1 + v + u <= z
            => /\ x + y \in Nat /\ x + y + (u + 1) \in Nat /\ x + y + (u + 1) <= z
               /\ x + y + v + (u + 1) <= z
      OBVIOUS
    <3> QED BY <3>1, <3>2
  <2> HIDE DEF k
  <2>4. /\ Load(MaxInFlight) \in Nat /\ Load(k + (Len(p) + 1)) \in Nat
        /\ Load(k + (Len(p) + 1)) <= Load(MaxInFlight)
    BY <2>3, Loads
  <2>5. k = node'.inFlight + node'.uncounted
    BY <2>2 DEF k
  <2>6. Exposure(n)
    BY DEF SessionInv
  <2>7. ASSUME IsActive(n), Tracked(n), n.mem.spent # Absent, NEW i \in 1..(Len(p) + 1)
        PROVE  \/ n.mem.spent + Load(k + i) <= n.mem.accepted + Load(MaxInFlight)
               \/ n.mem.spent + Load(k + i) <= q[i].spent + Load(MaxInFlight)
    <3>1. CASE i \in 1..Len(p)
      BY <1>2, <2>1, <2>6, <2>7, <3>1 DEF Exposure, k
    <3>2. CASE i = Len(p) + 1
      <4>1. n.mem.spent \in Nat /\ q[i].spent = n.mem.spent
        BY <1>2, <1>3, <2>1, <2>7, <3>2 DEF orZero
      <4>2. n.mem.spent + Load(k + (Len(p) + 1)) <= n.mem.spent + Load(MaxInFlight)
        BY <2>4, <4>1, Within
      <4>3. Load(k + i) = Load(k + (Len(p) + 1))
        BY <3>2
      <4> QED BY <4>1, <4>2, <4>3
    <3>3. Len(p) \in Nat
      BY <1>2
    <3>4. i \in 1..Len(p) \/ i = Len(p) + 1
      BY <3>3
    <3> QED BY <3>1, <3>2, <3>4
  <2>8. Exposure(node')
    <3>1. Tracked(node') = Tracked(n) /\ IsActive(node') = IsActive(n)
      BY <2>2 DEF Tracked, IsActive
    <3>2. Tracked(n) /\ n.mem.spent # Absent =>
            /\ n.mem.spent <= n.mem.accepted + Load(MaxInFlight)
            /\ IsActive(n) => n.mem.spent + Load(k) <= n.mem.accepted + Load(MaxInFlight)
      BY <2>6 DEF Exposure, k
    <3>3. IsActive(n) => n.stored.tokensDelivered <= n.stored.authMax + Load(MaxInFlight)
      BY <2>6 DEF Exposure
    <3> QED BY <2>1, <2>2, <2>5, <2>7, <3>1, <3>2, <3>3 DEF Exposure
  <2>9. node'.inFlight + node'.uncounted + Len(node'.waiting) + Len(node'.parked) <= MaxInFlight
    BY <2>1, <2>2, <2>3, <2>5
  <2>10. SameClose(node'.closing, n.closing) /\ node'.inFlight <= n.inFlight
    BY <1>2, <2>2 DEF SameClose
  <2>11. SessionInv(node', c, w, b)
    BY <2>2, <2>8, <2>9, <2>10, ServingKeeps
  <2> QED BY <2>2, <2>11 DEF WorldTyped
<1>5. CASE ~(read.spent > orZero(n.mem.accepted))
  <2>1. k + 1 \in Nat /\ k + 1 + Len(n.waiting) + Len(n.parked) <= MaxInFlight
    BY <1>2
  <2>2. Tracked(n) /\ n.mem.spent # Absent => n.mem.spent <= n.mem.accepted
    BY <1>2, <1>3, <1>5 DEF orZero, Tracked
  <2>3. MayBegin(n, k + 1)
    BY <2>1, <2>2, SignedMayBegin
  <2> QED BY <1>1, <1>3, <1>5, <2>3, DecideKeeps
<1> QED BY <1>4, <1>5

LEMMA RequestArrivesKeeps ==
  ASSUME Inv, NEW tooLarge, requestArrives(tooLarge)
  PROVE  Kept(node, node', ch, wire, buyer) /\ needAuth' \in Nat
<1> DEFINE k == node.inFlight + node.uncounted + 1
<1>1. /\ node \in NodeType /\ ch \in ChannelType /\ SessionInv(node, ch, wire, buyer)
      /\ WorldTyped /\ needAuth \in Nat
  BY DEF Inv, Typed, WorldTyped
<1>2. /\ node.inFlight \in Nat /\ node.uncounted \in Nat /\ Len(node.waiting) \in Nat
      /\ Len(node.parked) \in Nat /\ node.stored.authMax \in Nat /\ Len(node.auths) \in Nat
      /\ node.waiting \in Seq(Nat)
  BY <1>1, NodeNumbers DEF NodeType
<1>3. /\ k \in Nat /\ k + Len(node.waiting) + Len(node.parked) <= MaxInFlight
      /\ node.inFlight + node.uncounted + (Len(node.waiting) + 1) + Len(node.parked)
           <= MaxInFlight
  <2>1. node.inFlight + node.uncounted + Len(node.waiting) + Len(node.parked) < MaxInFlight
    BY DEF requestArrives, mayServe, unfinished, serving
  <2>2. /\ node.inFlight \in Nat /\ node.uncounted \in Nat /\ Len(node.waiting) \in Nat
        /\ Len(node.parked) \in Nat /\ MaxInFlight \in Nat
    BY <1>2, SellerAssumption
  <2>3. \A a, b, x, y, z \in Nat : a + b + x + y < z
          => /\ a + b + 1 \in Nat /\ a + b + 1 + x + y <= z
             /\ a + b + (x + 1) + y <= z
    OBVIOUS
  <2> QED BY <2>1, <2>2, <2>3
<1>4. \/ /\ ~IsActive(node) /\ node' = beginBillableRequest(node) /\ needAuth' = needAuth
      \/ /\ node' = [node EXCEPT !.waiting = Append(node.waiting, Len(node.auths))]
         /\ needAuth' = needAuth
      \/ checkBudget(node, tooLarge)
  BY <1>1 DEF requestArrives, IsActive, NodeType
<1>5. CASE ~IsActive(node) /\ node' = beginBillableRequest(node) /\ needAuth' = needAuth
  <2>1. MayBegin(node, k)
    BY <1>1, <1>3, <1>5, SignedMayBegin
  <2>2. node' \in NodeType /\ SessionInv(node', ch, wire, buyer) /\ node'.stored = node.stored
    BY <1>1, <1>5, <2>1, BeginKeeps
  <2> QED BY <1>1, <1>2, <1>5, <2>2 DEF Kept
<1>6. CASE /\ node' = [node EXCEPT !.waiting = Append(node.waiting, Len(node.auths))]
           /\ needAuth' = needAuth
  <2> DEFINE q == Append(node.waiting, Len(node.auths))
  <2>1. q \in Seq(Nat) /\ Len(q) = Len(node.waiting) + 1
    BY <1>2
  <2> HIDE DEF q
  <2>2. /\ node' \in NodeType /\ node'.mem = node.mem /\ node'.stored = node.stored
        /\ node'.closing = node.closing /\ node'.coop = node.coop
        /\ node'.checking = node.checking /\ node'.attempts = node.attempts
        /\ node'.starting = node.starting /\ node'.auths = node.auths
        /\ node'.activeBuyer = node.activeBuyer /\ node'.inFlight = node.inFlight
        /\ node'.uncounted = node.uncounted /\ node'.waiting = q
        /\ node'.parked = node.parked
    BY <1>1, <1>6, <2>1 DEF NodeType, q
  <2>3. Exposure(node')
    <3>1. Exposure(node)
      BY <1>1 DEF SessionInv
    <3> QED BY <2>2, <3>1 DEF Exposure, Tracked, IsActive
  <2>4. node'.inFlight + node'.uncounted + Len(node'.waiting) + Len(node'.parked) <= MaxInFlight
    BY <1>3, <2>1, <2>2
  <2>5. SameClose(node'.closing, node.closing) /\ node'.inFlight <= node.inFlight
    BY <1>2, <2>2 DEF SameClose
  <2>6. SessionInv(node', ch, wire, buyer)
    BY <1>1, <2>2, <2>3, <2>4, <2>5, ServingKeeps
  <2> QED BY <1>1, <1>2, <1>6, <2>2, <2>6 DEF Kept
<1>7. CASE checkBudget(node, tooLarge)
  <2>1. /\ node' \in NodeType /\ SessionInv(node', ch, wire, buyer)
        /\ node'.stored = node.stored /\ needAuth' \in Nat
    BY <1>1, <1>3, <1>7, CheckBudgetKeeps
  <2> QED BY <1>2, <2>1 DEF Kept
<1> QED BY <1>4, <1>5, <1>6, <1>7

LEMMA RequestProceedsKeeps ==
  ASSUME Inv, NEW tooLarge, requestProceeds(tooLarge)
  PROVE  Kept(node, node', ch, wire, buyer) /\ needAuth' \in Nat
<1> DEFINE q == Tail(node.waiting)
           n == [node EXCEPT !.waiting = q]
<1>1. /\ node \in NodeType /\ ch \in ChannelType /\ SessionInv(node, ch, wire, buyer)
      /\ WorldTyped /\ needAuth \in Nat
  BY DEF Inv, Typed, WorldTyped
<1>2. /\ node.inFlight \in Nat /\ node.uncounted \in Nat /\ Len(node.parked) \in Nat
      /\ node.stored.authMax \in Nat /\ node.waiting \in Seq(Nat)
  BY <1>1, NodeNumbers DEF NodeType
<1>3. /\ node.waiting # <<>>
      /\ (node' = n /\ needAuth' = needAuth) \/ checkBudget(n, tooLarge)
  BY <1>1 DEF requestProceeds, NodeType
<1>4. q \in Seq(Nat) /\ Len(q) = Len(node.waiting) - 1 /\ Len(node.waiting) \in Nat \ {0}
  BY <1>2, <1>3, TailMessages
<1> HIDE DEF q
<1>5. /\ n \in NodeType /\ n.mem = node.mem /\ n.stored = node.stored
      /\ n.closing = node.closing /\ n.coop = node.coop /\ n.checking = node.checking
      /\ n.attempts = node.attempts /\ n.starting = node.starting /\ n.auths = node.auths
      /\ n.activeBuyer = node.activeBuyer /\ n.inFlight = node.inFlight
      /\ n.uncounted = node.uncounted /\ n.waiting = q /\ n.parked = node.parked
  BY <1>1, <1>4 DEF NodeType
<1> HIDE DEF n
<1>6. node.inFlight + node.uncounted + Len(node.waiting) + Len(node.parked) <= MaxInFlight
  BY <1>1 DEF SessionInv, Counted
<1>7. /\ n.inFlight + n.uncounted + 1 + Len(n.waiting) + Len(n.parked) <= MaxInFlight
      /\ n.inFlight + n.uncounted + Len(n.waiting) + Len(n.parked) <= MaxInFlight
  <2>1. /\ node.inFlight \in Nat /\ node.uncounted \in Nat /\ Len(node.waiting) \in Nat \ {0}
        /\ Len(node.parked) \in Nat /\ MaxInFlight \in Nat
    BY <1>2, <1>4, SellerAssumption
  <2>2. Len(q) \in Nat /\ Len(node.waiting) = Len(q) + 1
    BY <1>4
  <2>3. \A a, b, x, y, z \in Nat : a + b + (x + 1) + y <= z
          => a + b + 1 + x + y <= z /\ a + b + x + y <= z
    OBVIOUS
  <2>4. node.inFlight + node.uncounted + (Len(q) + 1) + Len(node.parked) <= MaxInFlight
    BY <1>6, <2>2
  <2> QED BY <1>5, <2>1, <2>2, <2>3, <2>4
<1>8. SessionInv(n, ch, wire, buyer)
  <2>1. Exposure(n)
    <3>1. Exposure(node)
      BY <1>1 DEF SessionInv
    <3> QED BY <1>5, <3>1 DEF Exposure, Tracked, IsActive
  <2>2. SameClose(n.closing, node.closing) /\ n.inFlight <= node.inFlight
    BY <1>2, <1>5 DEF SameClose
  <2> QED BY <1>1, <1>5, <1>7, <2>1, <2>2, ServingKeeps
<1>9. CASE node' = n /\ needAuth' = needAuth
  BY <1>1, <1>2, <1>5, <1>8, <1>9 DEF Kept
<1>10. CASE checkBudget(n, tooLarge)
  <2>1. /\ node' \in NodeType /\ SessionInv(node', ch, wire, buyer)
        /\ node'.stored = n.stored /\ needAuth' \in Nat
    BY <1>1, <1>5, <1>7, <1>8, <1>10, CheckBudgetKeeps
  <2> QED BY <1>2, <1>5, <2>1 DEF Kept
<1> QED BY <1>3, <1>9, <1>10

(* The end of a request that was counted, or of one that was not: those    *)
(* being served are one less, and it may have been billed.                 *)
OneLess(m, n, billed) ==
  \/ /\ n.inFlight > 0 /\ m.inFlight = n.inFlight - 1 /\ m.uncounted = n.uncounted
     /\ m.closing = n.closing
  \/ /\ n.uncounted > 0 /\ m.inFlight = n.inFlight /\ m.uncounted = n.uncounted - 1
     /\ SameClose(m.closing, n.closing)
     /\ billed /\ n.closing # NoClose => m.closing.late

SameButBill(m, n) ==
  /\ m.coop = n.coop /\ m.checking = n.checking /\ m.attempts = n.attempts
  /\ m.starting = n.starting /\ m.auths = n.auths /\ m.activeBuyer = n.activeBuyer
  /\ m.waiting = n.waiting /\ m.parked = n.parked

LEMMA CompletedFields ==
  ASSUME NEW n \in NodeType, NEW t \in NodeType, NEW m,
         t.stored.status = n.stored.status, t.closing = n.closing,
         t.inFlight = n.inFlight, t.uncounted = n.uncounted, SameButBill(t, n),
         \/ n.inFlight > 0 /\ m = endBillableRequest(t)
         \/ n.uncounted > 0 /\ m = endUncounted(t)
  PROVE  /\ m \in NodeType /\ m.mem = t.mem /\ m.stored = t.stored
         /\ SameButBill(m, n) /\ OneLess(m, n, isBilled(n))
<1>1. n.inFlight \in Nat /\ n.uncounted \in Nat /\ n.closing \in ClosingType
  BY DEF NodeType
<1>4. isBilled(t) <=> isBilled(n)
  BY DEF isBilled, SameButBill
<1>5. CASE n.inFlight > 0 /\ m = endBillableRequest(t)
  <2>1. m = [t EXCEPT !.inFlight = n.inFlight - 1] /\ n.inFlight - 1 \in Nat
    BY <1>1, <1>5 DEF endBillableRequest, NodeType
  <2>2. /\ m \in NodeType /\ m.mem = t.mem /\ m.stored = t.stored /\ SameButBill(m, n)
        /\ m.inFlight = n.inFlight - 1 /\ m.uncounted = n.uncounted /\ m.closing = n.closing
    BY <2>1 DEF NodeType, SameButBill
  <2> QED BY <1>5, <2>2 DEF OneLess
<1>6. CASE n.uncounted > 0 /\ m = endUncounted(t)
  <2> DEFINE late == n.closing.late \/ (isBilled(t) /\ n.closing # NoClose)
             close == [n.closing EXCEPT !.late = late]
  <2>1. late \in BOOLEAN
    BY <1>1 DEF ClosingType
  <2>2. m = [t EXCEPT !.uncounted = n.uncounted - 1, !.closing = close] /\ n.uncounted - 1 \in Nat
    <3>1. m = [t EXCEPT !.uncounted = t.uncounted - 1,
                        !.closing = [t.closing EXCEPT !.late = t.closing.late
                                                \/ (isBilled(t) /\ t.closing # NoClose)]]
      BY <1>6 DEF endUncounted, NodeType
    <3>2. n.uncounted - 1 \in Nat
      BY <1>1, <1>6
    <3> QED BY <3>1, <3>2
  <2>3. /\ close \in ClosingType /\ close.amount = n.closing.amount
        /\ close.waiters = n.closing.waiters /\ close.late = late
    BY <1>1, <2>1 DEF ClosingType
  <2>4. close = NoClose <=> n.closing = NoClose
    <3>1. CASE n.closing = NoClose
      <4>1. late = NoClose.late
        BY <1>1, <3>1 DEF NoClose
      <4>2. close = n.closing
        BY <1>1, <3>1, <4>1 DEF NoClose, ClosingType
      <4> QED BY <3>1, <4>2
    <3>2. CASE n.closing # NoClose
      <4> SUFFICES ASSUME close = NoClose
                   PROVE  FALSE
        BY <3>2
      <4>1. ~late
        BY <2>3 DEF NoClose
      <4>2. n.closing.late = FALSE
        BY <1>1, <4>1 DEF ClosingType
      <4>3. close = n.closing
        BY <1>1, <4>1, <4>2 DEF ClosingType
      <4> QED BY <3>2, <4>3
    <3> QED BY <3>1, <3>2
  <2>5. isBilled(n) /\ n.closing # NoClose => late
    BY <1>4
  <2>6. n.closing.late => late
    OBVIOUS
  <2> HIDE DEF close, late
  <2>7. /\ m \in NodeType /\ m.mem = t.mem /\ m.stored = t.stored /\ SameButBill(m, n)
        /\ m.inFlight = n.inFlight /\ m.uncounted = n.uncounted - 1 /\ m.closing = close
    BY <2>2, <2>3 DEF NodeType, SameButBill
  <2> QED BY <1>6, <2>3, <2>4, <2>5, <2>6, <2>7 DEF OneLess, SameClose
<1> QED BY <1>5, <1>6

LEMMA RequestCompletesKeeps ==
  ASSUME Inv, NEW cost \in 1..MaxCost, requestCompletes(cost)
  PROVE  Kept(node, node', ch, wire, buyer) /\ needAuth' \in Nat
<1> DEFINE billed == isBilled(node)
           n == bill(node, cost)
           k == node.inFlight + node.uncounted
           p == node.parked
<1>1. /\ node \in NodeType /\ ch \in ChannelType /\ SessionInv(node, ch, wire, buyer)
      /\ WorldTyped /\ needAuth \in Nat
  BY DEF Inv, Typed, WorldTyped
<1>2. /\ LET timed == [n EXCEPT !.idleTimer = TRUE]
         IN  \/ node.inFlight > 0 /\ node' = endBillableRequest(timed)
             \/ node.uncounted > 0 /\ node' = endUncounted(timed)
      /\ IF billed THEN sendNeedAuth(orZero(n.mem.spent)) ELSE needAuth' = needAuth
  BY DEF requestCompletes
<1>3. /\ node.inFlight \in Nat /\ node.uncounted \in Nat /\ node.stored.authMax \in Nat
      /\ Len(node.waiting) \in Nat /\ Len(p) \in Nat /\ DOMAIN p = 1..Len(p)
      /\ \A i \in 1..Len(p) : p[i].spent \in Nat
      /\ node.stored.tokensDelivered \in Nat
      /\ node.mem.spent # Absent => node.mem.spent \in Nat
      /\ node.mem.accepted # Absent => node.mem.accepted \in Nat
      /\ node.mem \in MemType /\ node.stored \in RowType
  BY <1>1, NodeNumbers DEF NodeType
<1>4. cost \in Nat /\ cost <= MaxCost /\ MaxCost \in Nat /\ MaxInFlight \in Nat
  BY SellerAssumption
<1>5. k + Len(node.waiting) + Len(p) <= MaxInFlight /\ Exposure(node)
  BY <1>1 DEF SessionInv, Counted
<1> DEFINE total == node.mem.spent + cost
           adds == billed /\ node.mem.spent # Absent
           mem == IF adds THEN [node.mem EXCEPT !.spent = total] ELSE node.mem
           row == IF adds THEN [node.stored EXCEPT !.tokensDelivered = total] ELSE node.stored
<1>6. n = [node EXCEPT !.mem = mem, !.stored = row]
  BY <1>1 DEF bill, recordSpend, NodeType
<1>7. adds => total \in Nat
  BY <1>3, <1>4
<1>8. /\ mem \in MemType /\ mem.spent = (IF adds THEN total ELSE node.mem.spent)
      /\ mem.accepted = node.mem.accepted /\ mem.latestAuth = node.mem.latestAuth
      /\ mem.sig = node.mem.sig /\ mem.reserveMax = node.mem.reserveMax
  <2> HIDE DEF total, adds
  <2> QED BY <1>3, <1>7 DEF MemType
<1>9. /\ row \in RowType
      /\ row.tokensDelivered = (IF adds THEN total ELSE node.stored.tokensDelivered)
      /\ row.status = node.stored.status /\ row.authMax = node.stored.authMax
      /\ row.sig = node.stored.sig /\ row.reserveMax = node.stored.reserveMax
      /\ SameRecord(row, node.stored)
  <2> HIDE DEF total, adds
  <2> QED BY <1>3, <1>7 DEF RowType
<1>10. ~adds => mem = node.mem /\ row = node.stored
  OBVIOUS
<1> HIDE DEF mem, row, n
<1>11. /\ n.mem = mem /\ n.stored = row /\ n.activeBuyer = node.activeBuyer
  BY <1>1, <1>6 DEF NodeType
<1>12. /\ node' \in NodeType /\ node'.mem = mem /\ node'.stored = row
       /\ node'.coop = node.coop /\ node'.checking = node.checking
       /\ node'.attempts = node.attempts /\ node'.starting = node.starting
       /\ node'.auths = node.auths /\ node'.activeBuyer = node.activeBuyer
       /\ node'.waiting = node.waiting /\ node'.parked = p
       /\ OneLess(node', node, billed)
  <2> DEFINE t == [n EXCEPT !.idleTimer = TRUE]
  <2>1. \/ node.inFlight > 0 /\ node' = endBillableRequest(t)
        \/ node.uncounted > 0 /\ node' = endUncounted(t)
    BY <1>2
  <2>2. t = [node EXCEPT !.mem = mem, !.stored = row, !.idleTimer = TRUE]
    BY <1>1, <1>6 DEF NodeType
  <2>3. mem \in MemType /\ row \in RowType /\ row.status = node.stored.status
    BY <1>8, <1>9
  <2> HIDE DEF adds, total, billed, t
  <2>4. /\ t \in NodeType /\ t.mem = mem /\ t.stored = row /\ t.closing = node.closing
        /\ t.inFlight = node.inFlight /\ t.uncounted = node.uncounted /\ SameButBill(t, node)
    BY <1>1, <2>2, <2>3 DEF NodeType, SameButBill
  <2>5. /\ node' \in NodeType /\ node'.mem = mem /\ node'.stored = row
        /\ SameButBill(node', node) /\ OneLess(node', node, isBilled(node))
    BY <1>1, <2>1, <2>3, <2>4, CompletedFields
  <2> QED BY <2>5 DEF billed, SameButBill
<1>13. needAuth' \in Nat
  <2>1. orZero(n.mem.spent) \in Nat
    BY <1>3, <1>7, <1>8, <1>11 DEF orZero
  <2>2. Max({needAuth, orZero(n.mem.spent)}) \in Nat
    BY <1>1, <2>1, LargerOfTwo
  <2> QED BY <1>1, <1>2, <2>2 DEF sendNeedAuth
<1>14. /\ k \in Nat /\ k - 1 \in Nat /\ (k - 1) + 1 = k
       /\ node'.inFlight + node'.uncounted = k - 1
       /\ node'.inFlight \in Nat /\ node'.inFlight <= node.inFlight
  <2>1. node.inFlight \in Nat /\ node.uncounted \in Nat
    BY <1>3
  <2>2. \/ /\ node.inFlight > 0 /\ node'.inFlight = node.inFlight - 1
           /\ node'.uncounted = node.uncounted
        \/ /\ node.uncounted > 0 /\ node'.inFlight = node.inFlight
           /\ node'.uncounted = node.uncounted - 1
    BY <1>12 DEF OneLess
  <2> QED BY <2>1, <2>2
<1>15. SameClose(node'.closing, node.closing)
  BY <1>12 DEF OneLess, SameClose
<1>16. node'.inFlight + node'.uncounted + Len(node'.waiting) + Len(node'.parked) <= MaxInFlight
  <2>1. /\ k \in Nat /\ Len(node.waiting) \in Nat /\ Len(p) \in Nat
        /\ k + Len(node.waiting) + Len(p) <= MaxInFlight /\ MaxInFlight \in Nat
    BY <1>3, <1>4, <1>5, <1>14
  <2>2. \A x, y, z, v \in Nat : x + y + z <= v => (x - 1) + y + z <= v
    OBVIOUS
  <2> HIDE DEF k
  <2> QED BY <1>12, <1>14, <2>1, <2>2
<1> HIDE DEF k
<1>17. ASSUME NEW i \in 1..Len(p)
       PROVE  (k - 1) + i \in Nat /\ k + i = ((k - 1) + i) + 1
  BY <1>3, <1>14, <1>17
<1>18. /\ Load(MaxInFlight) \in Nat /\ Load(k - 1) \in Nat /\ Load(k) = Load(k - 1) + MaxCost
       /\ \A i \in 1..Len(p) : /\ Load((k - 1) + i) \in Nat
                               /\ Load(k + i) = Load((k - 1) + i) + MaxCost
  <2>1. Load(k - 1) \in Nat /\ Load((k - 1) + 1) = Load(k - 1) + MaxCost
    BY <1>14, Loads
  <2>2. \A i \in 1..Len(p) : /\ Load((k - 1) + i) \in Nat
                             /\ Load(((k - 1) + i) + 1) = Load((k - 1) + i) + MaxCost
    BY <1>17, Loads
  <2> QED BY <1>4, <1>14, <1>17, <2>1, <2>2, Loads
<1>19. Exposure(node')
  <2>1. ASSUME Tracked(node), node.mem.spent # Absent
        PROVE  /\ node'.mem.spent <= node'.mem.accepted + Load(MaxInFlight)
               /\ IsActive(node) =>
                    node'.mem.spent + Load(k - 1) <= node'.mem.accepted + Load(MaxInFlight)
               /\ IsActive(node) => \A i \in 1..Len(p) :
                    \/ node'.mem.spent + Load((k - 1) + i)
                         <= node'.mem.accepted + Load(MaxInFlight)
                    \/ node'.mem.spent + Load((k - 1) + i) <= p[i].spent + Load(MaxInFlight)
    <3>1. /\ node.mem.spent \in Nat /\ node.mem.accepted \in Nat
          /\ node'.mem.accepted = node.mem.accepted
          /\ node'.mem.spent \in {node.mem.spent, node.mem.spent + cost}
          /\ ~IsActive(node) => node'.mem.spent = node.mem.spent
      BY <1>3, <1>8, <1>12, <2>1 DEF Tracked, IsActive, isBilled
    <3>2. /\ node.mem.spent <= node.mem.accepted + Load(MaxInFlight)
          /\ IsActive(node) => node.mem.spent + Load(k) <= node.mem.accepted + Load(MaxInFlight)
          /\ IsActive(node) => \A i \in 1..Len(p) :
               \/ node.mem.spent + Load(k + i) <= node.mem.accepted + Load(MaxInFlight)
               \/ node.mem.spent + Load(k + i) <= p[i].spent + Load(MaxInFlight)
      BY <1>3, <1>5, <2>1 DEF Exposure, k
    <3>3. IsActive(node) =>
            node'.mem.spent + Load(k - 1) <= node'.mem.accepted + Load(MaxInFlight)
      <4>1. ASSUME IsActive(node)
            PROVE  /\ (node.mem.spent + cost) + Load(k - 1) <= node.mem.accepted + Load(MaxInFlight)
                   /\ node.mem.spent + Load(k - 1) <= node.mem.accepted + Load(MaxInFlight)
                   /\ node.mem.spent + cost <= node.mem.accepted + Load(MaxInFlight)
        <5>1. /\ Load(MaxInFlight) \in Nat /\ Load(k - 1) \in Nat
              /\ node.mem.spent + (Load(k - 1) + MaxCost) <= node.mem.accepted + Load(MaxInFlight)
          BY <1>18, <3>2, <4>1
        <5> QED BY <1>4, <3>1, <5>1, OneFewer, Lowered
      <4> QED BY <3>1, <4>1
    <3>4. node'.mem.spent <= node'.mem.accepted + Load(MaxInFlight)
      <4>1. CASE ~IsActive(node)
        BY <3>1, <3>2, <4>1
      <4>2. CASE IsActive(node)
        <5>1. /\ Load(MaxInFlight) \in Nat /\ Load(k - 1) \in Nat
              /\ node.mem.spent + (Load(k - 1) + MaxCost) <= node.mem.accepted + Load(MaxInFlight)
          BY <1>18, <3>2, <4>2
        <5>2. /\ node.mem.spent + cost <= node.mem.accepted + Load(MaxInFlight)
              /\ node.mem.spent <= node.mem.accepted + Load(MaxInFlight)
          BY <1>4, <3>1, <5>1, OneFewer, Lowered
        <5> QED BY <3>1, <5>2
      <4> QED BY <4>1, <4>2
    <3>5. ASSUME IsActive(node), NEW i \in 1..Len(p)
          PROVE  \/ node'.mem.spent + Load((k - 1) + i)
                      <= node'.mem.accepted + Load(MaxInFlight)
                 \/ node'.mem.spent + Load((k - 1) + i) <= p[i].spent + Load(MaxInFlight)
      <4>1. Load((k - 1) + i) \in Nat /\ Load(k + i) = Load((k - 1) + i) + MaxCost
            /\ p[i].spent \in Nat
        BY <1>3, <1>18
      <4>2. \/ node.mem.spent + Load(k + i) <= node.mem.accepted + Load(MaxInFlight)
            \/ node.mem.spent + Load(k + i) <= p[i].spent + Load(MaxInFlight)
        BY <3>2, <3>5
      <4>3. Load(MaxInFlight) \in Nat
        BY <1>18
      <4>4. ASSUME NEW a \in Nat, node.mem.spent + Load(k + i) <= a + Load(MaxInFlight)
            PROVE  node'.mem.spent + Load((k - 1) + i) <= a + Load(MaxInFlight)
        <5>1. node.mem.spent + (Load((k - 1) + i) + MaxCost) <= a + Load(MaxInFlight)
          BY <4>1, <4>4
        <5>2. /\ (node.mem.spent + cost) + Load((k - 1) + i) <= a + Load(MaxInFlight)
              /\ node.mem.spent + Load((k - 1) + i) <= a + Load(MaxInFlight)
          <6> DEFINE l == Load((k - 1) + i)
                     z == Load(MaxInFlight)
          <6>1. l \in Nat /\ z \in Nat /\ node.mem.spent \in Nat
            BY <3>1, <4>1, <4>3
          <6>2. node.mem.spent + (l + MaxCost) <= a + z
            BY <5>1
          <6> HIDE DEF l, z
          <6>3. (node.mem.spent + cost) + l <= a + z /\ node.mem.spent + l <= a + z
            BY <1>4, <6>1, <6>2, OneFewer, Lowered
          <6> QED BY <6>3 DEF l, z
        <5> QED BY <3>1, <5>2
      <4> QED BY <3>1, <4>1, <4>2, <4>4
    <3> QED BY <3>3, <3>4, <3>5
  <2>2. IsActive(node) => node'.stored.tokensDelivered <= node'.stored.authMax + Load(MaxInFlight)
    <3>1. CASE adds
      <4>1. Tracked(node) /\ node.stored.authMax = node.mem.accepted
        BY <1>1, <3>1 DEF SessionInv, Authorizations, isBilled
      <4> QED BY <1>8, <1>9, <1>12, <2>1, <3>1, <4>1
    <3>2. CASE ~adds
      BY <1>5, <1>10, <1>12, <3>2 DEF Exposure, IsActive
    <3> QED BY <3>1, <3>2
  <2>3. Tracked(node') /\ node'.mem.spent # Absent => Tracked(node) /\ node.mem.spent # Absent
    BY <1>8, <1>12 DEF Tracked
  <2>4. IsActive(node') <=> IsActive(node)
    BY <1>9, <1>12 DEF IsActive
  <2> QED BY <1>3, <1>12, <1>14, <2>1, <2>2, <2>3, <2>4 DEF Exposure
<1>20. CASE ~adds
  <2>1. SessionInv(node', ch, wire, buyer)
    BY <1>1, <1>10, <1>12, <1>14, <1>15, <1>16, <1>19, <1>20, ServingKeeps
  <2> QED BY <1>3, <1>10, <1>12, <1>13, <1>20, <2>1 DEF Kept
<1>21. CASE adds
  <2>1. IsActive(node) /\ Tracked(node) /\ ~Unbillable(node, ch) /\ node.mem.spent # Absent
    BY <1>1, <1>21 DEF IsActive, Unbillable, SessionInv, Authorizations, isBilled
  <2> USE DEF SessionInv
  <2>2. /\ Tracked(node') /\ IsActive(node')
        /\ \A at : HeadAt(node', at) <=> HeadAt(node, at)
        /\ \A whos : Awaited(node', whos) <=> Awaited(node, whos)
    BY <1>8, <1>9, <1>12, <1>15, <2>1 DEF Tracked, IsActive, HeadAt, Awaited, SameClose
  <2>3. Counted(node')
    BY <1>1, <1>12, <1>16 DEF Counted
  <2>4. OnChain(node', ch)
    BY <1>1, <2>1 DEF OnChain
  <2>5. Reserved(node', ch) /\ Settlements(node', ch)
    BY <1>1, <1>8, <1>9, <1>12 DEF Reserved, Settlements
  <2>6. Authorizations(node', ch)
    BY <1>1, <1>8, <1>9, <1>12, <1>15, <2>1, <2>2 DEF Authorizations, SameClose
  <2>7. Ordered(node', wire, buyer)
    BY <1>1, <1>9, <1>12, OrderedFrame DEF SameMessages
  <2>8. Queued(node')
    BY <1>1, <1>12, <2>2 DEF Queued
  <2>9. Waiting(node')
    BY <1>1, <1>12, <1>15, <2>2 DEF Waiting, Awaited, SameClose
  <2>10. Granted(node', ch)
    <3>1. GrantedTo(node', "coop") => GrantedTo(node, "coop") /\ node.closing # NoClose
      BY <1>15 DEF GrantedTo, SameClose
    <3>2. GrantedTo(node, "coop") => node.inFlight = 0
      BY <1>1, <2>1 DEF Granted
    <3>3. GrantedTo(node', "coop") => node'.closing.late /\ node'.inFlight = 0
      BY <1>3, <1>12, <1>21, <3>1, <3>2 DEF OneLess
    <3> QED BY <2>2, <3>3 DEF Granted
  <2>11. SessionInv(node', ch, wire, buyer)
    BY <1>19, <2>3, <2>4, <2>5, <2>6, <2>7, <2>8, <2>9, <2>10
  <2> QED BY <1>3, <1>9, <1>12, <1>13, <2>11 DEF Kept
<1> QED BY <1>20, <1>21

----------------------------------------------------------------------------
(* Transactions.                                                           *)

(* The channel c has gone on to d: it does not come back from its end, and *)
(* what is locked and what is settled grow, up to what the seller holds.   *)
After(c, d, limit) ==
  /\ d \in ChannelType
  /\ d.status = "none" => d = c
  /\ Ended(c) => Ended(d) /\ d.settled = c.settled
  /\ c.deposit <= d.deposit
  /\ c.settled <= d.settled
  /\ d.settled <= limit
  /\ c.closeRequested => d.closeRequested

LEMMA ChainKeeps ==
  ASSUME NEW n \in NodeType, NEW c \in ChannelType, NEW d, NEW w, NEW b,
         SessionInv(n, c, w, b), After(c, d, n.stored.authMax)
  PROVE  SessionInv(n, d, w, b)
<1> USE DEF SessionInv
<1>0. /\ {c.deposit, c.settled, d.deposit, d.settled} \subseteq Nat
      /\ c.deposit <= d.deposit /\ c.settled <= d.settled /\ d.settled <= n.stored.authMax
  BY DEF ChannelType, After
<1>1. OnChain(n, d)
  BY DEF OnChain, After
<1>2. Reserved(n, d)
  BY <1>0, NodeNumbers DEF Reserved
<1>3. Settlements(n, d)
  <2>1. n.stored.recorded \in Nat \cup {Absent}
    BY DEF NodeType, RowType
  <2>2. /\ n.stored.recorded # Absent => n.stored.recorded <= d.settled
        /\ Ended(c) => Ended(d) /\ d.settled = c.settled
    BY <1>0, <2>1 DEF Settlements, After
  <2> QED BY <2>2 DEF Settlements
<1>4. Authorizations(n, d)
  <2>1. orZero(n.mem.spent) \in Nat
    BY NodeNumbers DEF orZero
  <2>2. n.stored.authMax \in Nat /\ (Tracked(n) => n.mem.accepted \in Nat)
    BY NodeNumbers DEF Tracked
  <2> QED BY <1>0, <2>1, <2>2 DEF Authorizations
<1>5. Granted(n, d)
  <2>1. orZero(n.mem.spent) \in Nat
    BY NodeNumbers DEF orZero
  <2> QED BY <1>0, <2>1 DEF Granted, Unbillable, After
<1> QED BY <1>1, <1>2, <1>3, <1>4, <1>5

LEMMA SameChain ==
  ASSUME NEW c \in ChannelType, NEW limit, c.settled <= limit
  PROVE  After(c, c, limit)
BY DEF After, ChannelType

LEMMA TxFailuresTyped ==
  ASSUME WorldTyped, NEW can, NEW after, NEW r, tx(can, after, r)
  PROVE  /\ txFailures' \in 0..MaxTxFailures
         /\ ch' = ch \/ (can /\ ch' = after /\ r \in {"ok", "unseen"})
         /\ r = "ok" => can /\ ch' = after
<1>1. txFailures \in 0..MaxTxFailures /\ MaxTxFailures \in Nat
  BY ChainAssumption DEF WorldTyped
<1> QED BY <1>1 DEF tx

LEMMA ReserveTxAfter ==
  ASSUME WorldTyped, NEW max \in Nat, NEW r, reserveTx(max, r), NEW limit, ch.settled <= limit,
         ch.status = "none" => ch.deposit = 0
  PROVE  /\ After(ch, ch', limit) /\ txFailures' \in 0..MaxTxFailures
         /\ r = "ok" => /\ ch.status = "none" /\ ch'.status = "active" /\ ch'.deposit = max
                        /\ ch'.settled = ch.settled
<1> DEFINE d == [ch EXCEPT !.status = "active", !.deposit = max]
<1>1. ch \in ChannelType
  BY DEF WorldTyped
<1>2. d \in ChannelType /\ d.status = "active" /\ d.deposit = max /\ d.settled = ch.settled
      /\ d.closeRequested = ch.closeRequested
  BY <1>1 DEF ChannelType
<1>3. tx(ch.status = "none" /\ max > 0, d, r)
  BY DEF reserveTx
<1> HIDE DEF d
<1>4. /\ txFailures' \in 0..MaxTxFailures
      /\ ch' = ch \/ (ch.status = "none" /\ ch' = d)
      /\ r = "ok" => ch.status = "none" /\ ch' = d
  BY <1>3, TxFailuresTyped
<1>5. CASE ch' = ch
  BY <1>1, <1>2, <1>4, <1>5, SameChain
<1>6. CASE ch.status = "none" /\ ch' = d
  BY <1>1, <1>2, <1>4, <1>6 DEF After, Ended, ChannelType
<1> QED BY <1>4, <1>5, <1>6

LEMMA SettleTxAfter ==
  ASSUME WorldTyped, NEW amount \in Nat, NEW sig, NEW r, settleTx(amount, sig, r),
         NEW limit \in Nat, ch.settled <= limit, amount <= limit
  PROVE  After(ch, ch', limit) /\ txFailures' \in 0..MaxTxFailures
<1> DEFINE d == [ch EXCEPT !.settled = amount]
           can == isOpen /\ amount > ch.settled /\ authorized(amount, sig)
<1>1. ch \in ChannelType
  BY DEF WorldTyped
<1>2. /\ d \in ChannelType /\ d.status = ch.status /\ d.deposit = ch.deposit
      /\ d.settled = amount /\ d.closeRequested = ch.closeRequested
  BY <1>1 DEF ChannelType
<1>3. tx(can, d, r)
  BY DEF settleTx
<1>a. can => ch.status = "active" /\ amount > ch.settled
  BY DEF isOpen
<1> HIDE DEF d, can
<1>4. txFailures' \in 0..MaxTxFailures /\ (ch' = ch \/ (can /\ ch' = d))
  BY <1>3, TxFailuresTyped
<1>5. CASE ch' = ch
  BY <1>1, <1>4, <1>5, SameChain
<1>6. CASE can /\ ch' = d
  BY <1>1, <1>2, <1>4, <1>6, <1>a DEF After, Ended, ChannelType
<1> QED BY <1>4, <1>5, <1>6

LEMMA CloseTxAfter ==
  ASSUME WorldTyped, NEW amount \in Nat, NEW sig, NEW r, closeTx(amount, sig, r),
         NEW limit \in Nat, ch.settled <= limit, amount <= limit
  PROVE  /\ After(ch, ch', limit) /\ txFailures' \in 0..MaxTxFailures
         /\ r = "ok" => Ended(ch') /\ ch'.settled = amount
<1> DEFINE d == [ch EXCEPT !.status = "settled", !.settled = amount]
           can == isOpen /\ authorized(amount, sig)
<1>1. ch \in ChannelType
  BY DEF WorldTyped
<1>2. /\ d \in ChannelType /\ d.status = "settled" /\ d.deposit = ch.deposit
      /\ d.settled = amount /\ d.closeRequested = ch.closeRequested
  BY <1>1 DEF ChannelType
<1>3. tx(can, d, r)
  BY DEF closeTx
<1>a. can => ch.status = "active" /\ amount >= ch.settled
  BY <1>1 DEF isOpen, authorized, ChannelType
<1> HIDE DEF d, can
<1>4. /\ txFailures' \in 0..MaxTxFailures /\ (ch' = ch \/ (can /\ ch' = d))
      /\ r = "ok" => ch' = d
  BY <1>3, TxFailuresTyped
<1>5. CASE ch' = ch
  BY <1>1, <1>2, <1>4, <1>5, SameChain DEF Ended
<1>6. CASE can /\ ch' = d
  BY <1>1, <1>2, <1>4, <1>6, <1>a DEF After, Ended, ChannelType
<1> QED BY <1>4, <1>5, <1>6

LEMMA TopUpTxAfter ==
  ASSUME WorldTyped, NEW amount \in Nat, NEW sig, NEW max \in Nat, NEW r,
         topUpTx(amount, sig, max, r),
         NEW limit \in Nat, ch.settled <= limit, amount <= limit
  PROVE  /\ After(ch, ch', limit) /\ txFailures' \in 0..MaxTxFailures
         /\ r = "ok" => ch'.deposit = max /\ ch'.status = "active"
<1> DEFINE settled == Max({amount, ch.settled})
           d == [ch EXCEPT !.settled = settled, !.deposit = max]
           can == /\ isOpen /\ ~ch.closeRequested
                  /\ max > ch.deposit
                  /\ amount > ch.settled => authorized(amount, sig)
           threshold == (ch.deposit * TOP_UP_SETTLED_THRESHOLD_BPS) \div 10000
<1>1. ch \in ChannelType /\ ch.settled \in Nat /\ ch.deposit \in Nat
  BY DEF WorldTyped, ChannelType
<1>2. settled \in Nat /\ ch.settled <= settled /\ settled <= limit
  BY <1>1, LargerOfTwo
<1>4. /\ txFailures' \in 0..MaxTxFailures /\ (ch' = ch \/ (can /\ ch' = d))
      /\ r = "ok" => can /\ ch' = d
  <2>0. txFailures \in 0..MaxTxFailures /\ MaxTxFailures \in Nat
    BY ChainAssumption DEF WorldTyped
  <2>1. CASE can /\ settled < threshold
    BY <2>0, <2>1 DEF topUpTx, tx, chainVars
  <2>2. CASE ~(can /\ settled < threshold)
    <3> DEFINE trouble == IF r = "ok" \/ (r = "failed" /\ ~can) THEN 0 ELSE 1
    <3>1. /\ r \in {"ok", "unseen"} => can
          /\ txFailures + trouble <= MaxTxFailures
          /\ txFailures' = txFailures + trouble
          /\ ch' = IF r \in {"ok", "unseen"} THEN d ELSE ch
      <4> HIDE DEF threshold
      <4>1. CASE ~can
        BY <2>2, <4>1 DEF topUpTx, tx
      <4>2. CASE can /\ ~(settled < threshold)
        BY <2>2, <4>2 DEF topUpTx, tx, threshold
      <4> QED BY <2>2, <4>1, <4>2
    <3>2. trouble \in {0, 1}
      OBVIOUS
    <3> HIDE DEF can, d, trouble
    <3> QED BY <2>0, <3>1, <3>2
  <2> QED BY <2>1, <2>2
<1>a. can => ch.status = "active" /\ max > ch.deposit
  BY DEF isOpen
<1> HIDE DEF settled, can, threshold
<1>3. /\ d \in ChannelType /\ d.status = ch.status /\ d.deposit = max
      /\ d.settled = settled /\ d.closeRequested = ch.closeRequested
  BY <1>1, <1>2 DEF ChannelType
<1> HIDE DEF d
<1>5. CASE ch' = ch
  BY <1>1, <1>3, <1>4, <1>5, <1>a, SameChain
<1>6. CASE can /\ ch' = d
  BY <1>1, <1>2, <1>3, <1>4, <1>6, <1>a DEF After, Ended, ChannelType
<1> QED BY <1>4, <1>5, <1>6

----------------------------------------------------------------------------
(* SpendingAuths that await the chain.                                     *)

LEMMA ActivateFields ==
  ASSUME NEW n \in NodeType, n.auths # <<>>, NEW row \in RowType, NEW accepted \in Nat,
         NEW spent \in Nat, NEW m, m = dequeue(activateSession(n, row, accepted, spent))
  PROVE  /\ m \in NodeType
         /\ m.mem.accepted = accepted /\ m.mem.spent = spent
         /\ m.mem.reserveMax = row.reserveMax /\ m.mem.latestAuth = row.authMax
         /\ m.mem.sig = row.sig
         /\ m.stored = row /\ m.closing = n.closing /\ m.activeBuyer
         /\ m.checking = n.checking /\ SameRequests(m, n)
         /\ m.attempts = n.attempts /\ m.starting = n.starting
         /\ m.auths = Tail(n.auths)
         /\ m.coop.at = n.coop.at /\ m.coop.amount = n.coop.amount
         /\ m.coop.ahead = IF n.coop.ahead = 0 THEN 0 ELSE n.coop.ahead - 1
<1> DEFINE mem == [n.mem EXCEPT !.hydrated = FALSE, !.accepted = accepted, !.spent = spent,
                              !.reserveMax = row.reserveMax,
                              !.latestAuth = row.authMax, !.sig = row.sig]
           k == [n EXCEPT !.stored = row, !.activeBuyer = TRUE, !.mem = mem]
<1>1. {row.reserveMax, row.authMax, row.sig} \subseteq Nat
  BY DEF RowType
<1>2. n.mem \in MemType
  BY DEF NodeType
<1>3. /\ mem \in MemType /\ mem.accepted = accepted /\ mem.spent = spent
      /\ mem.reserveMax = row.reserveMax /\ mem.latestAuth = row.authMax /\ mem.sig = row.sig
  BY <1>1, <1>2 DEF MemType
<1>4. m = dequeue(k)
  <2>1. k = activateSession(n, row, accepted, spent)
    BY DEF activateSession, NodeType
  <2> HIDE DEF k
  <2> QED BY <2>1
<1> HIDE DEF mem
<1>5. /\ k \in NodeType /\ k.mem = mem /\ k.stored = row /\ k.closing = n.closing
      /\ k.activeBuyer = TRUE /\ k.auths = n.auths /\ SameWork(k, n)
  BY <1>3 DEF NodeType, SameWork
<1> HIDE DEF k
<1>6. /\ m \in NodeType
      /\ m.mem = k.mem /\ m.stored = k.stored /\ m.closing = k.closing
      /\ m.checking = k.checking /\ SameRequests(m, k)
      /\ m.attempts = k.attempts /\ m.starting = k.starting
      /\ m.activeBuyer = k.activeBuyer
      /\ m.auths = Tail(k.auths)
      /\ m.coop.at = k.coop.at /\ m.coop.amount = k.coop.amount
      /\ m.coop.ahead = IF k.coop.ahead = 0 THEN 0 ELSE k.coop.ahead - 1
  BY <1>4, <1>5, DequeueFields
<1> QED BY <1>3, <1>5, <1>6 DEF SameWork

(* The auths behind the head all wait for the lock. *)
LEMMA TailLocked ==
  ASSUME NEW n \in NodeType, n.auths # <<>>, Queued(n), NEW m, m.auths = Tail(n.auths)
  PROVE  LET L == Len(n.auths)
         IN  /\ L \in Nat \ {0} /\ DOMAIN n.auths = 1..L /\ Len(m.auths) = L - 1
             /\ DOMAIN m.auths = 1..(L - 1)
             /\ \A i \in 1..(L - 1) : i + 1 \in 1..L /\ m.auths[i] = n.auths[i + 1]
             /\ \A i \in DOMAIN m.auths : m.auths[i].at = "lock"
             /\ \A at : HeadAt(m, at) => at = "lock"
<1> DEFINE L == Len(n.auths)
<1>a. /\ L \in Nat \ {0} /\ DOMAIN n.auths = 1..L /\ Len(m.auths) = L - 1
      /\ DOMAIN m.auths = 1..(L - 1)
      /\ \A i \in 1..(L - 1) : i + 1 \in 1..L /\ m.auths[i] = n.auths[i + 1]
  BY TailMessages DEF NodeType
<1>b. m.auths # <<>> => 1 \in DOMAIN m.auths
  BY TailMessages DEF NodeType
<1>c. \A i \in DOMAIN m.auths : m.auths[i].at = "lock"
  <2>1. \A i \in 1..(L - 1) : i + 1 # 1
    BY <1>a
  <2> QED BY <1>a, <2>1 DEF Queued
<1>d. \A at : HeadAt(m, at) => at = "lock"
  BY <1>b, <1>c DEF HeadAt
<1> QED BY <1>a, <1>c, <1>d

(* A session is opened for an untracked channel, by the auth at the head   *)
(* of the queue.                                                           *)
LEMMA ActivateKeeps ==
  ASSUME NEW n \in NodeType, n.auths # <<>>, NEW c \in ChannelType, NEW w, NEW b,
         SessionInv(n, c, w, b), ~Awaited(n, {"topUp"}),
         NEW row \in RowType, NEW accepted \in Nat, NEW spent \in Nat,
         NEW m, m = dequeue(activateSession(n, row, accepted, spent)),
         row.status = "active", ~row.settledAt,
         row.recorded = Absent \/ row.recorded <= c.settled,
         row.authMax = accepted, row.sig = accepted, row.tokensDelivered = spent,
         row.reserveMax <= c.deposit,
         spent <= c.settled, c.settled <= accepted, n.stored.authMax <= accepted,
         c.status = "active", accepted <= b.signed,
         \A i \in DOMAIN n.auths : isAuth(n.auths[i]) => accepted <= n.auths[i].amount,
         \A i \in DOMAIN w : isAuth(w[i]) => accepted <= w[i].amount,
         GrantedTo(n, "coop") => n.inFlight = 0
  PROVE  Kept(n, m, c, w, b)
<1> USE DEF SessionInv
<1>f. /\ m \in NodeType
      /\ m.mem.accepted = accepted /\ m.mem.spent = spent
      /\ m.mem.reserveMax = row.reserveMax /\ m.mem.latestAuth = accepted
      /\ m.mem.sig = accepted
      /\ m.stored = row /\ m.closing = n.closing /\ m.activeBuyer
      /\ m.checking = n.checking /\ SameRequests(m, n)
      /\ m.attempts = n.attempts /\ m.starting = n.starting
      /\ m.auths = Tail(n.auths)
      /\ m.coop.at = n.coop.at /\ m.coop.amount = n.coop.amount
      /\ m.coop.ahead = IF n.coop.ahead = 0 THEN 0 ELSE n.coop.ahead - 1
  <2>1. /\ m \in NodeType
        /\ m.mem.accepted = accepted /\ m.mem.spent = spent
        /\ m.mem.reserveMax = row.reserveMax /\ m.mem.latestAuth = row.authMax
        /\ m.mem.sig = row.sig
        /\ m.stored = row /\ m.closing = n.closing /\ m.activeBuyer
        /\ m.checking = n.checking /\ SameRequests(m, n)
        /\ m.attempts = n.attempts /\ m.starting = n.starting
        /\ m.auths = Tail(n.auths)
        /\ m.coop.at = n.coop.at /\ m.coop.amount = n.coop.amount
        /\ m.coop.ahead = IF n.coop.ahead = 0 THEN 0 ELSE n.coop.ahead - 1
    BY ActivateFields
  <2> QED BY <2>1
<1>0. /\ Tracked(m) /\ IsActive(m) /\ m.mem.spent # Absent
      /\ \A whos : Awaited(m, whos) <=> Awaited(n, whos)
  BY <1>f DEF Tracked, IsActive, Awaited, Absent
<1>t. /\ c.settled \in Nat /\ n.stored.authMax \in Nat /\ n.checking.accepted \in Nat
      /\ n.closing.amount \in Nat \cup {Absent} /\ n.inFlight \in Nat /\ n.coop.ahead \in Nat
  BY NodeNumbers DEF ChannelType
<1> DEFINE L == Len(n.auths)
<1>a. /\ L \in Nat \ {0} /\ DOMAIN n.auths = 1..L /\ Len(m.auths) = L - 1
      /\ DOMAIN m.auths = 1..(L - 1)
      /\ \A i \in 1..(L - 1) : i + 1 \in 1..L /\ m.auths[i] = n.auths[i + 1]
      /\ \A i \in DOMAIN m.auths : m.auths[i].at = "lock"
      /\ \A at : HeadAt(m, at) => at = "lock"
  <2>1. Queued(n) /\ m.auths = Tail(n.auths)
    BY <1>f
  <2> HIDE DEF SessionInv
  <2> QED BY <2>1, TailLocked, ZenonT(60)
<1>1. Counted(m)
  BY <1>a, <1>f, <1>t DEF Counted
<1>2. OnChain(m, c)
  BY DEF OnChain
<1>3. Reserved(m, c)
  BY <1>f DEF Reserved
<1>4. Settlements(m, c)
  BY <1>f DEF Settlements
<1>5. Authorizations(m, c)
  <2>1. n.closing.amount <= accepted
        /\ (n.checking.at = "timedOut" => n.checking.accepted <= accepted)
    BY <1>t DEF Authorizations, Absent
  <2>2. ~HeadAt(m, "topUp")
    BY <1>a
  <2>3. /\ m.stored.authMax = accepted /\ m.stored.sig = accepted
        /\ m.mem.accepted = accepted /\ m.mem.latestAuth = accepted /\ m.mem.sig = accepted
        /\ m.closing = n.closing /\ m.checking = n.checking
    BY <1>f
  <2> HIDE DEF SessionInv
  <2> QED BY <1>0, <2>1, <2>2, <2>3 DEF Authorizations
<1>6. Exposure(m)
  <2>1. spent <= accepted
    BY <1>t
  <2>2. /\ m.mem.accepted = accepted /\ m.mem.spent = spent /\ m.stored.authMax = accepted
        /\ m.stored.tokensDelivered = spent
    BY <1>f
  <2>3. m.stored.tokensDelivered <= m.stored.authMax + Load(MaxInFlight)
    <3>1. Load(MaxInFlight) \in Nat
      BY SellerAssumption, Loads
    <3> QED BY <2>1, <2>2, <3>1
  <2> HIDE DEF SessionInv
  <2>4. m \in NodeType
    BY <1>f
  <2> QED BY <1>1, <2>1, <2>2, <2>3, <2>4, SignedExposure
<1>7. Ordered(m, w, b)
  <2> DEFINE k == [auths |-> m.auths, stored |-> n.stored, coop |-> m.coop]
  <2>1. /\ k.auths = Tail(n.auths) /\ k.stored.authMax = n.stored.authMax
        /\ k.coop.at = n.coop.at /\ k.coop.amount = n.coop.amount
        /\ k.coop.ahead = IF n.coop.ahead = 0 THEN 0 ELSE n.coop.ahead - 1
        /\ m.auths = k.auths /\ m.coop = k.coop
    BY <1>f
  <2> HIDE DEF k
  <2>2. Ordered(k, w, b)
    BY <2>1, OrderedTail
  <2>3. \A i \in DOMAIN m.auths : isAuth(m.auths[i]) => accepted <= m.auths[i].amount
    BY <1>a, ZenonT(90)
  <2>4. m.stored.authMax = accepted
    BY <1>f
  <2> HIDE DEF SessionInv
  <2> QED BY <2>1, <2>2, <2>3, <2>4 DEF Ordered
<1>8. Queued(m)
  BY <1>0, <1>a DEF Queued
<1>9. Waiting(m)
  BY <1>0, <1>f DEF Waiting, Awaited
<1>10. Granted(m, c)
  <2>1. orZero(m.mem.spent) <= c.settled
    BY <1>f DEF orZero, Absent
  <2> QED BY <1>0, <1>f, <2>1 DEF Granted, GrantedTo
<1> QED BY <1>f, <1>1, <1>2, <1>3, <1>4, <1>5, <1>6, <1>7, <1>8, <1>9, <1>10 DEF Kept

LEMMA NoRowType == NoRow \in RowType
BY DEF NoRow, RowType, Absent

LEMMA RecoverKeeps ==
  ASSUME Inv, NEW expired \in BOOLEAN, recoverOnChainSession(expired)
  PROVE  Kept(node, node', ch, wire, buyer)
<1> DEFINE row == [NoRow EXCEPT !.status = "active", !.authMax = auth.amount, !.sig = auth.amount,
                           !.reserveMax = ch.deposit, !.tokensDelivered = ch.settled,
                           !.recorded = IF ch.settled > 0 THEN ch.settled ELSE Absent,
                           !.expired = expired]
           recovers == isOpen /\ ~ch.closeRequested /\ auth.amount >= ch.settled
<1>1. /\ node.auths # <<>> /\ auth.at = "recovery"
      /\ node' = dequeue(IF recovers THEN activateSession(node, row, auth.amount, ch.settled)
                         ELSE node)
  BY DEF recoverOnChainSession, awaits
<1>2. /\ node \in NodeType /\ ch \in ChannelType /\ SessionInv(node, ch, wire, buyer)
      /\ auth = node.auths[1] /\ auth.amount \in Nat /\ ~Awaited(node, {"topUp"})
      /\ node.stored.authMax \in Nat
  BY <1>1, AtHead, NodeNumbers
<1>3. CASE ~recovers
  <2>1. node' = dequeue(node)
    BY <1>1, <1>3
  <2> QED BY <1>1, <1>2, <2>1, DequeueKeeps, DequeueFields DEF Kept
<1>4. CASE recovers
  <2>1. node' = dequeue(activateSession(node, row, auth.amount, ch.settled))
    BY <1>1, <1>4
  <2>2. ch.deposit \in Nat /\ ch.settled \in Nat
    BY <1>2 DEF ChannelType
  <2> DEFINE paid == IF ch.settled > 0 THEN ch.settled ELSE Absent
  <2>p. paid \in Nat \cup {Absent} /\ (paid = Absent \/ paid <= ch.settled)
    BY <2>2 DEF Absent
  <2>3. /\ row \in RowType /\ row.status = "active" /\ ~row.settledAt /\ row.recorded = paid
        /\ row.authMax = auth.amount /\ row.sig = auth.amount
        /\ row.tokensDelivered = ch.settled /\ row.reserveMax = ch.deposit
    BY <1>2, <2>2, <2>p, NoRowType, ZenonT(90) DEF NoRow, RowType, Absent
  <2> HIDE DEF row, paid
  <2>4. ch.status = "active" /\ ~ch.closeRequested /\ ch.settled <= auth.amount
    BY <1>2, <1>4, <2>2 DEF isOpen
  <2>5. 1 \in DOMAIN node.auths /\ HeadAt(node, "recovery")
    BY <1>1, <1>2 DEF HeadAt, NodeType
  <2>6. isAuth(node.auths[1])
    BY <1>2, <2>5 DEF SessionInv, Queued
  <2>7. /\ node.stored.authMax <= auth.amount /\ auth.amount <= buyer.signed
        /\ \A i \in DOMAIN wire : isAuth(wire[i]) => auth.amount <= wire[i].amount
    BY <1>2, <2>5, <2>6 DEF SessionInv, Ordered
  <2>8. \A i \in DOMAIN node.auths : isAuth(node.auths[i]) => auth.amount <= node.auths[i].amount
    <3>1. \A i \in DOMAIN node.auths : i = 1 \/ 1 < i
      BY <1>2 DEF NodeType
    <3> QED BY <1>2, <2>5, <2>6, <3>1 DEF SessionInv, Ordered
  <2>9. GrantedTo(node, "coop") => node.inFlight = 0
    BY <1>2, <2>4, <2>5 DEF SessionInv, Granted, Unbillable
  <2>10. row.reserveMax <= ch.deposit /\ ch.settled <= ch.settled
    BY <2>2, <2>3
  <2> HIDE DEF recovers
  <2> QED BY <1>1, <1>2, <2>1, <2>2, <2>p, <2>3, <2>4, <2>7, <2>8, <2>9, <2>10, ActivateKeeps
<1> QED BY <1>3, <1>4

LEMMA FinishReserveKeeps ==
  ASSUME Inv, NEW r, finishReserve(r)
  PROVE  Kept(node, node', ch', wire, buyer) /\ WorldTyped'
<1> DEFINE row == [NoRow EXCEPT !.status = "active", !.reserveMax = auth.amount]
<1>1. /\ node.auths # <<>> /\ auth.at = "reserve" /\ reserveTx(auth.amount, r)
      /\ node' = dequeue(IF r = "ok" THEN activateSession(node, row, 0, 0) ELSE node)
      /\ UNCHANGED <<connected, needAuth, closeEvent>>
  BY DEF finishReserve, awaits
<1>2. /\ node \in NodeType /\ ch \in ChannelType /\ SessionInv(node, ch, wire, buyer)
      /\ auth = node.auths[1] /\ auth.amount \in Nat /\ ~Awaited(node, {"topUp"})
      /\ node.stored.authMax \in Nat /\ WorldTyped
  BY <1>1, AtHead, NodeNumbers DEF Inv, Typed
<1>3. ch.settled <= node.stored.authMax /\ (ch.status = "none" => ch.deposit = 0)
  BY <1>2 DEF SessionInv, Authorizations, OnChain
<1>4. /\ After(ch, ch', node.stored.authMax) /\ txFailures' \in 0..MaxTxFailures
      /\ r = "ok" => /\ ch.status = "none" /\ ch'.status = "active"
                     /\ ch'.deposit = auth.amount /\ ch'.settled = ch.settled
  BY <1>1, <1>2, <1>3, ReserveTxAfter
<1>5. WorldTyped'
  BY <1>1, <1>2, <1>4 DEF WorldTyped, After
<1>6. ch' \in ChannelType /\ SessionInv(node, ch', wire, buyer)
  BY <1>2, <1>4, ChainKeeps DEF After
<1>7. CASE r # "ok"
  <2>1. node' = dequeue(node)
    BY <1>1, <1>7
  <2>2. node' \in NodeType /\ SessionInv(node', ch', wire, buyer)
    BY <1>1, <1>2, <1>6, <2>1, DequeueKeeps
  <2>3. node'.stored = node.stored
    BY <1>1, <1>2, <2>1, DequeueFields
  <2> QED BY <1>2, <1>5, <2>2, <2>3 DEF Kept
<1>8. CASE r = "ok"
  <2>1. node' = dequeue(activateSession(node, row, 0, 0))
    BY <1>1, <1>8
  <2>3. /\ row \in RowType /\ row.status = "active" /\ row.recorded = Absent /\ ~row.settledAt
        /\ row.authMax = 0 /\ row.sig = 0
        /\ row.tokensDelivered = 0 /\ row.reserveMax = auth.amount
    BY <1>2, NoRowType DEF NoRow, RowType, Absent
  <2> HIDE DEF row
  <2>4. /\ ch'.settled = 0 /\ node.stored.authMax = 0 /\ node.closing = NoClose
        /\ ch'.status = "active" /\ ch'.deposit = auth.amount
    BY <1>2, <1>4, <1>8 DEF SessionInv, OnChain
  <2>5. buyer.signed \in Nat
    BY DEF Inv, Typed, BuyerType
  <2>6. \A i \in DOMAIN node.auths : isAuth(node.auths[i]) => 0 <= node.auths[i].amount
    BY <1>2, QueueFields
  <2>7. \A i \in DOMAIN wire : isAuth(wire[i]) => 0 <= wire[i].amount
    <3>1. \A i \in DOMAIN wire : wire[i] \in WireType
      BY DEF Inv, Typed
    <3> QED BY <3>1 DEF WireType, MessageType
  <2>8. ~GrantedTo(node, "coop")
    BY <2>4 DEF GrantedTo
  <2>9. row.reserveMax <= ch'.deposit /\ 0 <= ch'.settled /\ ch'.settled <= 0
        /\ node.stored.authMax <= 0 /\ 0 <= buyer.signed /\ 0 \in Nat
    BY <1>2, <2>3, <2>4, <2>5
  <2>10. Kept(node, node', ch', wire, buyer)
    BY <1>1, <1>2, <1>6, <2>1, <2>3, <2>4, <2>6, <2>7, <2>8, <2>9, ActivateKeeps
  <2> QED BY <1>5, <2>10
<1> QED BY <1>7, <1>8

----------------------------------------------------------------------------
(* The ways to give a channel up or to close it.                           *)

LEMMA DropKeeps ==
  ASSUME NEW n \in NodeType, NEW c \in ChannelType, NEW w, NEW b, SessionInv(n, c, w, b),
         NEW s \in {"settled", "timeout"}, s = "settled" => Ended(c), c.status # "none",
         GrantedTo(n, "coop") => n.inFlight = 0 \/ c.closeRequested,
         NEW m, m = forgetChannel(updateChannelStatus(n, s))
  PROVE  /\ Kept(n, m, c, w, b)
         /\ m.closing = n.closing /\ SameWork(m, n) /\ SameAuths(m.auths, n.auths)
<1>0. s \in {"none", "active", "settled", "timeout"}
  OBVIOUS
<1> DEFINE k == updateChannelStatus(n, s)
<1> HIDE DEF k
<1>1. /\ k \in NodeType
      /\ k.mem = n.mem /\ k.closing = n.closing /\ SameWork(k, n)
      /\ k.activeBuyer = n.activeBuyer /\ k.auths = n.auths
      /\ SameAmounts(k.stored, n.stored)
      /\ k.stored.status = s /\ SameRecord(k.stored, n.stored)
  <2>1. k = updateChannelStatus(n, s)
    BY DEF k
  <2> QED BY <1>0, <2>1, StatusFields
<1>2. /\ m \in NodeType
      /\ m.mem = Forgotten /\ m.stored = k.stored /\ m.closing = k.closing /\ SameWork(m, k)
      /\ m.activeBuyer = FALSE
      /\ SameAuths(m.auths, k.auths)
  BY <1>1, ForgetFields DEF k
<1>3. /\ m.stored.authMax = n.stored.authMax /\ m.stored.sig = n.stored.sig
      /\ m.stored.reserveMax = n.stored.reserveMax /\ SameRecord(m.stored, n.stored)
      /\ m.stored.tokensDelivered = n.stored.tokensDelivered /\ m.stored.status = s
      /\ n.stored.authMax \in Nat
  BY <1>1, <1>2, NodeNumbers DEF SameAmounts
<1>4. m.closing = n.closing /\ SameWork(m, n) /\ SameAuths(m.auths, n.auths)
  BY <1>1, <1>2 DEF SameWork
<1>5. ~IsActive(m) /\ Settlements(m, c)
  BY <1>3 DEF IsActive, Settlements, SessionInv
<1>6. SessionInv(m, c, w, b)
  BY <1>2, <1>3, <1>4, <1>5, ForgetKeeps
<1> QED BY <1>2, <1>3, <1>4, <1>6 DEF Kept

LEMMA ForgetEmptyKeeps ==
  ASSUME NEW n \in NodeType, NEW c \in ChannelType, NEW w, NEW b, SessionInv(n, c, w, b),
         IsActive(n), orZero(n.mem.accepted) = 0,
         NEW m, m = forgetChannel(n)
  PROVE  /\ Kept(n, m, c, w, b)
         /\ m.closing = n.closing /\ SameWork(m, n) /\ SameAuths(m.auths, n.auths)
<1>1. /\ m \in NodeType
      /\ m.mem = Forgotten /\ m.stored = n.stored /\ m.closing = n.closing /\ SameWork(m, n)
      /\ m.activeBuyer = FALSE
      /\ SameAuths(m.auths, n.auths)
  BY ForgetFields
<1>2. n.stored.authMax = 0 /\ (n.stored.status # "none" => c.status # "none")
  BY DEF SessionInv, Authorizations, OnChain, Tracked, orZero
<1>3. Settlements(m, c)
  BY <1>1 DEF SessionInv, Settlements
<1>4. GrantedTo(n, "coop") => n.inFlight = 0
  BY DEF SessionInv, Granted, Unbillable
<1>5. SessionInv(m, c, w, b)
  BY <1>1, <1>2, <1>3, <1>4, ForgetKeeps
<1> QED BY <1>1, <1>2, <1>5 DEF Kept

LEMMA SubmitFields ==
  ASSUME NEW n \in NodeType, NEW amount \in Nat, NEW sig \in Nat, NEW who \in Closers,
         Waiting(n), NEW m, m = submitClose(n, amount, sig, who)
  PROVE  /\ m \in NodeType
         /\ m.closing = JoinedClose(n, amount, sig, who)
         /\ m.mem = n.mem /\ m.stored = n.stored /\ m.auths = n.auths
         /\ m.activeBuyer = n.activeBuyer /\ SameWork(m, n)
<1> DEFINE k == JoinedClose(n, amount, sig, who)
<1>1. k \in ClosingType
  BY JoinedCloseFields
<1>2. m = [n EXCEPT !.closing = k]
  BY DEF submitClose, JoinedClose, Waiter, NodeType
<1> HIDE DEF k
<1>3. /\ m \in NodeType /\ m.closing = k
      /\ m.mem = n.mem /\ m.stored = n.stored /\ m.auths = n.auths
      /\ m.activeBuyer = n.activeBuyer /\ SameWork(m, n)
  BY <1>1, <1>2 DEF NodeType, SameWork
<1> QED BY <1>3 DEF k

(* A close that is submitted for no one who must be found waiting. *)
LEMMA SubmitKeeps ==
  ASSUME NEW n \in NodeType, NEW c \in ChannelType, NEW w, NEW b, SessionInv(n, c, w, b),
         NEW amount \in Nat, NEW sig \in Nat,
         NEW who \in {"disconnect", "whenIdle", "blocked"} \cup Requested,
         c.status # "none", amount <= n.stored.authMax,
         who \in Zombies => n.mem.retries < MAX_CLOSE_RETRIES,
         n.closing = NoClose /\ who = "coop" =>
           /\ orZero(n.mem.spent) <= amount \/ orZero(n.mem.spent) <= c.settled
           /\ n.inFlight = 0 \/ Unbillable(n, c),
         NEW m, m = submitClose(n, amount, sig, who)
  PROVE  Kept(n, m, c, w, b)
<1>1. /\ who \in Closers /\ who \notin Checkers /\ who # "timedOutAuth" /\ who # "topUp"
  BY DEF Closers, Checkers, Settlers, Zombies, TimedOut, Requested
<1>2. /\ m \in NodeType
      /\ m.closing = JoinedClose(n, amount, sig, who)
      /\ m.mem = n.mem /\ m.stored = n.stored /\ m.auths = n.auths
      /\ m.activeBuyer = n.activeBuyer /\ SameWork(m, n)
  BY <1>1, SubmitFields DEF SessionInv
<1>3. /\ SameMoney(m.mem, n.mem) /\ SameRow(m.stored, n.stored)
      /\ SameAuths(m.auths, n.auths) /\ SameMessages(m.auths, n.auths)
      /\ n.stored.authMax \in Nat
  BY <1>2, SameMoneyRow, SameAuthsRefl, NodeNumbers DEF SameAuths
<1>4. SessionInv(m, c, w, b)
  BY <1>1, <1>2, <1>3, CloseKeeps DEF SameWork
<1> QED BY <1>2, <1>3, <1>4 DEF Kept

LEMMA SettleCases ==
  ASSUME NEW n \in NodeType, NEW c \in ChannelType, NEW w, NEW b, SessionInv(n, c, w, b),
         NEW who, NEW m, m = settleSession(n, who)
  PROVE  \/ /\ m = submitClose(n, n.mem.latestAuth, n.mem.sig, who)
            /\ IsActive(n) /\ c.status # "none"
         \/ /\ Kept(n, m, c, w, b)
            /\ m.closing = n.closing /\ SameWork(m, n) /\ SameAuths(m.auths, n.auths)
<1>1. CASE ~IsActive(n)
  <2>1. m = n
    BY <1>1 DEF settleSession, IsActive
  <2> QED BY <2>1, SameAuthsRefl, NodeNumbers DEF Kept, SameWork
<1>2. CASE IsActive(n)
  <2>1. c.status # "none" /\ (GrantedTo(n, "coop") => n.inFlight = 0)
    BY <1>2 DEF SessionInv, OnChain, IsActive, Granted, Unbillable
  <2>2. CASE orZero(n.mem.accepted) = 0
    <3>1. m = forgetChannel(n)
      BY <1>2, <2>2 DEF settleSession, IsActive
    <3> QED BY <1>2, <2>2, <3>1, ForgetEmptyKeeps
  <2>3. CASE orZero(n.mem.accepted) # 0 /\ n.mem.retries >= MAX_CLOSE_RETRIES
    <3>0. orZero(n.mem.accepted) > 0
      BY <2>3, NodeNumbers DEF orZero
    <3>1. m = forgetChannel(updateChannelStatus(n, "timeout"))
      BY <1>2, <2>3, <3>0 DEF settleSession, IsActive
    <3> QED BY <2>1, <3>1, DropKeeps
  <2>4. CASE orZero(n.mem.accepted) # 0 /\ ~(n.mem.retries >= MAX_CLOSE_RETRIES)
    BY <1>2, <2>1, <2>4 DEF settleSession, IsActive
  <2> QED BY <2>2, <2>3, <2>4
<1> QED BY <1>1, <1>2

LEMMA SettleKeeps ==
  ASSUME NEW n \in NodeType, NEW c \in ChannelType, NEW w, NEW b, SessionInv(n, c, w, b),
         NEW who \in {"disconnect", "whenIdle"}, NEW m, m = settleSession(n, who)
  PROVE  Kept(n, m, c, w, b)
<1>1. CASE m = submitClose(n, n.mem.latestAuth, n.mem.sig, who) /\ c.status # "none"
  <2>1. /\ n.mem.latestAuth \in Nat /\ n.mem.sig \in Nat
        /\ n.mem.latestAuth <= n.stored.authMax
    BY NodeNumbers DEF SessionInv, Authorizations
  <2>2. who # "coop" /\ who \notin Zombies
    BY DEF Zombies
  <2> QED BY <1>1, <2>1, <2>2, SubmitKeeps
<1> QED BY <1>1, SettleCases

LEMMA CloseRequestedKeeps ==
  ASSUME NEW n \in NodeType, NEW c \in ChannelType, NEW w, NEW b, SessionInv(n, c, w, b),
         NEW who \in {"poller", "startup"}, c.closeRequested, c.status # "none",
         NEW m, m = handleCloseRequested(n, who)
  PROVE  Kept(n, m, c, w, b)
<1>1. CASE m = submitClose(n, n.mem.latestAuth, n.mem.sig, who)
  <2>1. /\ n.mem.latestAuth \in Nat /\ n.mem.sig \in Nat
        /\ n.mem.latestAuth <= n.stored.authMax
    BY NodeNumbers DEF SessionInv, Authorizations
  <2>2. who # "coop" /\ who \notin Zombies /\ who \in Requested
    BY DEF Zombies, Requested
  <2> QED BY <1>1, <2>1, <2>2, SubmitKeeps
<1>2. CASE m = forgetChannel(updateChannelStatus(n, "timeout"))
  BY <1>2, DropKeeps
<1> QED BY <1>1, <1>2 DEF handleCloseRequested

----------------------------------------------------------------------------
LEMMA ValidateRetainedKeeps ==
  ASSUME Inv, validateRetainedChannel
  PROVE  Kept(node, node', ch, wire, buyer)
<1> DEFINE mem == [node.mem EXCEPT !.hydrated = FALSE]
           n == [node EXCEPT !.mem = mem, !.activeBuyer = TRUE]
<1>1. /\ node.auths # <<>> /\ auth.at = "validation"
      /\ node' = dequeue(node) \/ (canAcknowledgeRetainedChannel(node) /\ node' = dequeue(n))
  <2>1. node \in NodeType
    BY DEF Inv, Typed
  <2>2. n = [node EXCEPT !.mem.hydrated = FALSE, !.activeBuyer = TRUE]
    BY <2>1 DEF NodeType
  <2> HIDE DEF n
  <2> QED BY <2>2 DEF validateRetainedChannel, awaits
<1>2. /\ node \in NodeType /\ ch \in ChannelType /\ SessionInv(node, ch, wire, buyer)
      /\ auth = node.auths[1] /\ ~Awaited(node, {"topUp"}) /\ node.stored.authMax \in Nat
  BY <1>1, AtHead, NodeNumbers
<1>3. CASE node' = dequeue(node)
  BY <1>1, <1>2, <1>3, DequeueKeeps, DequeueFields DEF Kept
<1>4. CASE canAcknowledgeRetainedChannel(node) /\ node' = dequeue(n)
  <2>1. mem \in MemType /\ SameMoney(mem, node.mem)
    <3>1. node.mem \in MemType
      BY <1>2 DEF NodeType
    <3> QED BY <3>1 DEF MemType, SameMoney
  <2> HIDE DEF mem
  <2>2. /\ n \in NodeType /\ n.mem = mem /\ n.stored = node.stored /\ n.auths = node.auths
        /\ n.closing = node.closing /\ SameWork(n, node)
    BY <1>2, <2>1 DEF NodeType, SameWork
  <2> HIDE DEF n
  <2>3. Tracked(node) /\ ~HeadAt(node, "recovery")
    BY <1>1, <1>2, <1>4 DEF canAcknowledgeRetainedChannel, Tracked, HeadAt
  <2>4. SessionInv(n, ch, wire, buyer)
    BY <1>2, <2>1, <2>2, <2>3, FrameKeeps, SameMoneyRow, SameAuthsRefl
       DEF SameWork, MayCheck, MayRequestClose
  <2>5. n.auths # <<>> /\ ~Awaited(n, {"topUp"})
    BY <1>1, <1>2, <2>2 DEF Awaited
  <2> QED BY <1>2, <1>4, <2>2, <2>4, <2>5, DequeueKeeps, DequeueFields DEF Kept
<1> QED BY <1>1, <1>3, <1>4

(* A reserve that is on chain may be counted on. *)
LEMMA ReserveKeeps ==
  ASSUME NEW n \in NodeType, NEW m \in NodeType, NEW c \in ChannelType, NEW w, NEW b,
         SessionInv(n, c, w, b),
         m.mem.accepted = n.mem.accepted, m.mem.spent = n.mem.spent,
         m.mem.latestAuth = n.mem.latestAuth, m.mem.sig = n.mem.sig,
         m.stored.status = n.stored.status, SameRecord(m.stored, n.stored),
         m.stored.authMax = n.stored.authMax, m.stored.sig = n.stored.sig,
         m.stored.tokensDelivered = n.stored.tokensDelivered,
         m.mem.reserveMax <= c.deposit, m.stored.reserveMax <= c.deposit,
         m.closing = n.closing, SameWork(m, n), m.activeBuyer = n.activeBuyer,
         m.auths = n.auths
  PROVE  SessionInv(m, c, w, b)
<1> USE DEF SessionInv
<1>0. /\ Tracked(m) <=> Tracked(n)
      /\ IsActive(m) <=> IsActive(n)
      /\ \A at : HeadAt(m, at) <=> HeadAt(n, at)
      /\ \A whos : Awaited(m, whos) <=> Awaited(n, whos)
  BY DEF Tracked, IsActive, HeadAt, Awaited
<1>1. Counted(m)
  BY DEF Counted, SameWork
<1>2. OnChain(m, c)
  BY <1>0 DEF OnChain, SameWork
<1>3. Reserved(m, c) /\ Settlements(m, c)
  BY DEF Reserved, Settlements
<1>4. Authorizations(m, c)
  BY <1>0 DEF Authorizations, SameWork
<1>5. Exposure(m)
  BY <1>0 DEF Exposure, SameWork
<1>6. Ordered(m, w, b)
  BY OrderedFrame DEF SameMessages, SameWork
<1>7. Queued(m)
  BY <1>0 DEF Queued
<1>8. Waiting(m)
  BY <1>0 DEF Waiting, Awaited, SameWork
<1>9. Granted(m, c)
  BY <1>0 DEF Granted, GrantedTo, Unbillable, SameWork
<1> QED BY <1>1, <1>2, <1>3, <1>4, <1>5, <1>6, <1>7, <1>8, <1>9

(* Only the amounts of the memory matter. *)
LEMMA MemKeeps ==
  ASSUME NEW n \in NodeType, NEW c \in ChannelType, NEW w, NEW b, SessionInv(n, c, w, b),
         NEW mem \in MemType, SameMoney(mem, n.mem), NEW m, m = [n EXCEPT !.mem = mem]
  PROVE  /\ Kept(n, m, c, w, b)
         /\ m.mem = mem /\ m.stored = n.stored /\ m.auths = n.auths
         /\ m.closing = n.closing /\ SameWork(m, n) /\ m.activeBuyer = n.activeBuyer
<1>1. /\ m \in NodeType /\ m.mem = mem /\ m.stored = n.stored /\ m.auths = n.auths
      /\ m.closing = n.closing /\ SameWork(m, n) /\ m.activeBuyer = n.activeBuyer
  BY DEF NodeType, SameWork
<1>2. SessionInv(m, c, w, b)
  BY <1>1, FrameKeeps, SameMoneyRow, SameAuthsRefl DEF SameWork, MayCheck, MayRequestClose
<1> QED BY <1>1, <1>2, NodeNumbers DEF Kept

LEMMA ToppedUpKeeps ==
  ASSUME Inv, NEW c \in ChannelType, SessionInv(node, c, wire, buyer), node.auths # <<>>,
         auth.at = "topUp", auth.max = c.deposit, NEW m, m = reactivate(toppedUp(node))
  PROVE  Kept(node, m, c, wire, buyer)
<1> DEFINE mem == [node.mem EXCEPT !.reserveMax = auth.max,
                                   !.hydrated = @ /\ auth.kind = "auth"]
           row == [node.stored EXCEPT !.reserveMax = auth.max]
           n == [node EXCEPT !.mem = mem, !.stored = row]
<1>1. node \in NodeType /\ ~Awaited(node, {"topUp"}) /\ auth \in AuthType
  BY AtHead
<1>2. auth.max \in Nat
  BY <1>1 DEF AuthType, MessageType
<1>3. m = reactivate(n)
  <2>1. n = toppedUp(node)
    BY <1>1 DEF toppedUp, NodeType
  <2> HIDE DEF n
  <2> QED BY <2>1
<1>4. /\ mem \in MemType
      /\ mem.accepted = node.mem.accepted /\ mem.spent = node.mem.spent
      /\ mem.latestAuth = node.mem.latestAuth /\ mem.sig = node.mem.sig
      /\ mem.reserveMax = auth.max
  <2>1. node.mem \in MemType
    BY <1>1 DEF NodeType
  <2>2. (node.mem.hydrated /\ auth.kind = "auth") \in BOOLEAN
    OBVIOUS
  <2> QED BY <1>2, <2>1, <2>2 DEF MemType
<1>5. /\ row \in RowType
      /\ row.status = node.stored.status /\ SameRecord(row, node.stored)
      /\ row.authMax = node.stored.authMax /\ row.sig = node.stored.sig
      /\ row.tokensDelivered = node.stored.tokensDelivered /\ row.reserveMax = auth.max
  <2>1. node.stored \in RowType
    BY <1>1 DEF NodeType
  <2> QED BY <1>2, <2>1 DEF RowType
<1> HIDE DEF mem, row
<1>6. /\ n \in NodeType /\ n.mem = mem /\ n.stored = row /\ n.auths = node.auths
      /\ n.closing = node.closing /\ SameWork(n, node) /\ n.activeBuyer = node.activeBuyer
  BY <1>1, <1>4, <1>5 DEF NodeType, SameWork
<1> HIDE DEF n
<1>7. SessionInv(n, c, wire, buyer)
  BY <1>1, <1>2, <1>4, <1>5, <1>6, ReserveKeeps
<1>8. n.auths # <<>> /\ ~Awaited(n, {"topUp"})
  BY <1>1, <1>6 DEF Awaited
<1>9. Kept(n, m, c, wire, buyer)
  BY <1>3, <1>6, <1>7, <1>8, ReactivateKeeps
<1> QED BY <1>5, <1>6, <1>9 DEF Kept

LEMMA TopUpFailedKeeps ==
  ASSUME Inv, NEW c \in ChannelType, SessionInv(node, c, wire, buyer), node.auths # <<>>,
         auth.at = "topUp", NEW m, m = topUpFailed(node)
  PROVE  Kept(node, m, c, wire, buyer)
<1> DEFINE pending == IF auth.kind = "reserve" THEN 0 ELSE node.mem.pendingTopUp
           mem == [node.mem EXCEPT !.blocked = TRUE, !.pendingTopUp = pending]
           n1 == [node EXCEPT !.mem = mem]
           n2 == settleSession(n1, "topUp")
<1>1. node \in NodeType /\ ~Awaited(node, {"topUp"}) /\ auth = node.auths[1]
      /\ node.stored.authMax \in Nat
  BY AtHead, NodeNumbers
<1>2. m = IF isAwaiting(n2, {"topUp"}) THEN await(n2, "close") ELSE dequeue(n2)
  <2>1. n1 = [node EXCEPT !.mem.blocked = TRUE,
                          !.mem.pendingTopUp = IF auth.kind = "reserve" THEN 0 ELSE @]
    BY <1>1 DEF NodeType, MemType
  <2> HIDE DEF n1
  <2> QED BY <2>1 DEF topUpFailed
<1>3. mem \in MemType /\ SameMoney(mem, node.mem)
  <2>1. node.mem \in MemType
    BY <1>1 DEF NodeType
  <2>2. pending \in Nat
    BY <2>1 DEF MemType
  <2> HIDE DEF pending
  <2> QED BY <2>1, <2>2 DEF MemType, SameMoney
<1> HIDE DEF mem
<1>4. /\ Kept(node, n1, c, wire, buyer)
      /\ n1.mem = mem /\ n1.stored = node.stored /\ n1.auths = node.auths
      /\ n1.closing = node.closing /\ SameWork(n1, node) /\ n1.activeBuyer = node.activeBuyer
  BY <1>1, <1>3, MemKeeps
<1> HIDE DEF n1
<1>5. n1 \in NodeType /\ SessionInv(n1, c, wire, buyer) /\ n1.auths # <<>>
      /\ ~Awaited(n1, {"topUp"}) /\ n1.auths[1].at = "topUp" /\ n1.stored.authMax \in Nat
  BY <1>1, <1>4 DEF Kept, Awaited
<1>6. \A k : isAwaiting(k, {"topUp"}) <=> Awaited(k, {"topUp"})
  BY DEF isAwaiting, isAmong, Awaited
<1>7. CASE /\ Kept(n1, n2, c, wire, buyer)
           /\ n2.closing = n1.closing /\ SameWork(n2, n1) /\ SameAuths(n2.auths, n1.auths)
  <2>1. n2 \in NodeType /\ SessionInv(n2, c, wire, buyer) /\ ~Awaited(n2, {"topUp"})
        /\ n2.stored.authMax \in Nat /\ n1.stored.authMax <= n2.stored.authMax
    BY <1>5, <1>7, NodeNumbers DEF Kept, Awaited
  <2>2. n2.auths # <<>>
    BY <1>5, <1>7, <2>1 DEF SameAuths, SameMessages, NodeType
  <2> HIDE DEF n2
  <2>3. m = dequeue(n2)
    BY <1>2, <1>6, <2>1
  <2> QED BY <1>4, <2>1, <2>2, <2>3, DequeueKeeps, DequeueFields DEF Kept
<1>8. CASE /\ n2 = submitClose(n1, n1.mem.latestAuth, n1.mem.sig, "topUp")
           /\ IsActive(n1) /\ c.status # "none"
  <2>1. /\ n1.mem.latestAuth \in Nat /\ n1.mem.sig \in Nat
        /\ n1.mem.latestAuth <= n1.stored.authMax /\ Waiting(n1)
    BY <1>5, NodeNumbers DEF SessionInv, Authorizations
  <2>w. "topUp" \in Closers /\ "topUp" \notin Zombies /\ "topUp" \notin Checkers
    BY DEF Closers, Settlers, Zombies, Checkers, TimedOut
  <2> HIDE DEF n2
  <2>2. /\ n2 \in NodeType
        /\ n2.closing = JoinedClose(n1, n1.mem.latestAuth, n1.mem.sig, "topUp")
        /\ n2.mem = n1.mem /\ n2.stored = n1.stored /\ n2.auths = n1.auths
        /\ n2.activeBuyer = n1.activeBuyer /\ SameWork(n2, n1)
    BY <1>5, <1>8, <2>1, <2>w, SubmitFields
  <2>3. Awaited(n2, {"topUp"})
    <3> DEFINE len == Len(n1.closing.waiters)
    <3>1. /\ len \in Nat /\ DOMAIN n2.closing.waiters = 1..(len + 1)
          /\ n2.closing.waiters[len + 1] = Waiter(n1, "topUp")
      BY <1>5, <2>1, <2>2, <2>w, JoinedWaiters
    <3> HIDE DEF len
    <3> QED BY <3>1 DEF Awaited, Waiter
  <2>4. m = await(n2, "close")
    BY <1>2, <1>6, <2>3
  <2>5. /\ m \in NodeType
        /\ m.mem = n2.mem /\ m.stored = n2.stored /\ m.closing = n2.closing /\ SameWork(m, n2)
        /\ m.activeBuyer = n2.activeBuyer
        /\ SameMessages(m.auths, n2.auths) /\ m.auths # <<>> /\ m.auths[1].at = "close"
    BY <1>5, <2>2, <2>4, AwaitFields
  <2>6. SessionInv(m, c, wire, buyer)
    <3>1. /\ m.closing = JoinedClose(n1, n1.mem.latestAuth, n1.mem.sig, "topUp")
          /\ SameMoney(m.mem, n1.mem) /\ SameRow(m.stored, n1.stored)
          /\ m.coop = n1.coop /\ SameRequests(m, n1)
          /\ m.attempts = n1.attempts /\ m.activeBuyer = n1.activeBuyer
          /\ m.starting = n1.starting /\ SameMessages(m.auths, n1.auths)
          /\ m.checking = n1.checking
      BY <2>2, <2>5, SameMoneyRow DEF SameWork
    <3>2. HeadAt(m, "close") /\ ~HeadAt(n1, "recovery")
      BY <1>5, <2>5 DEF HeadAt
    <3> QED BY <1>5, <1>8, <2>1, <2>w, <2>5, <3>1, <3>2, CloseKeeps
  <2> QED BY <1>1, <1>4, <2>2, <2>5, <2>6 DEF Kept
<1> QED BY <1>5, <1>7, <1>8, SettleCases

LEMMA FinishTopUpKeeps ==
  ASSUME Inv, NEW r, finishTopUp(r)
  PROVE  Kept(node, node', ch', wire, buyer) /\ WorldTyped'
<1>1. /\ node.auths # <<>> /\ auth.at = "topUp" /\ topUpTx(auth.settle, auth.sig, auth.max, r)
      /\ node' = CASE r = "ok" -> reactivate(toppedUp(node))
                   [] r = "retryable" -> reactivate(storePendingTopUp(node, auth.max))
                   [] OTHER -> topUpFailed(node)
      /\ UNCHANGED <<connected, needAuth, closeEvent>>
  BY DEF finishTopUp, awaits
<1>2. /\ node \in NodeType /\ ch \in ChannelType /\ SessionInv(node, ch, wire, buyer)
      /\ auth = node.auths[1] /\ auth \in AuthType /\ ~Awaited(node, {"topUp"})
      /\ node.stored.authMax \in Nat /\ WorldTyped
  BY <1>1, AtHead, NodeNumbers DEF Inv, Typed
<1>3. {auth.settle, auth.max} \subseteq Nat
  BY <1>2 DEF AuthType, MessageType
<1>4. ch.settled <= node.stored.authMax /\ auth.settle <= node.stored.authMax
  BY <1>1, <1>2 DEF SessionInv, Authorizations, HeadAt
<1>5. /\ After(ch, ch', node.stored.authMax) /\ txFailures' \in 0..MaxTxFailures
      /\ r = "ok" => ch'.deposit = auth.max
  BY <1>1, <1>2, <1>3, <1>4, TopUpTxAfter
<1>6. WorldTyped'
  BY <1>1, <1>2, <1>5 DEF WorldTyped, After
<1>7. ch' \in ChannelType /\ SessionInv(node, ch', wire, buyer)
  BY <1>2, <1>5, ChainKeeps DEF After
<1>8. CASE r = "ok"
  <2>1. node' = reactivate(toppedUp(node))
    BY <1>1, <1>8
  <2>2. Kept(node, node', ch', wire, buyer)
    BY <1>1, <1>5, <1>7, <1>8, <2>1, ToppedUpKeeps
  <2> QED BY <1>6, <2>2
<1>9. CASE r = "retryable"
  <2> DEFINE pending == Max({node.mem.pendingTopUp, auth.max})
             mem == [node.mem EXCEPT !.pendingTopUp = pending]
             n == [node EXCEPT !.mem = mem]
  <2>1. node' = reactivate(n)
    <3>1. n = storePendingTopUp(node, auth.max)
      BY <1>2 DEF storePendingTopUp, NodeType
    <3> HIDE DEF n
    <3> QED BY <1>1, <1>9, <3>1
  <2>2. pending \in Nat
    <3>1. node.mem.pendingTopUp \in Nat /\ auth.max \in Nat
      BY <1>2, <1>3 DEF NodeType, MemType
    <3> QED BY <3>1, LargerOfTwo
  <2> HIDE DEF pending
  <2>3. mem \in MemType /\ SameMoney(mem, node.mem)
    <3>1. node.mem \in MemType
      BY <1>2 DEF NodeType
    <3> QED BY <2>2, <3>1 DEF MemType, SameMoney
  <2> HIDE DEF mem
  <2>4. Kept(node, n, ch', wire, buyer) /\ n.auths = node.auths /\ n.closing = node.closing
    BY <1>2, <1>7, <2>3, MemKeeps
  <2> HIDE DEF n
  <2>5. n \in NodeType /\ SessionInv(n, ch', wire, buyer) /\ n.auths # <<>>
        /\ ~Awaited(n, {"topUp"}) /\ n.stored.authMax \in Nat
    BY <1>1, <1>2, <2>4, NodeNumbers DEF Kept, Awaited
  <2>6. Kept(n, node', ch', wire, buyer)
    BY <1>7, <2>1, <2>5, ReactivateKeeps
  <2>7. node'.stored.authMax \in Nat
    BY <2>6, NodeNumbers DEF Kept
  <2> QED BY <1>2, <1>6, <2>4, <2>5, <2>6, <2>7 DEF Kept
<1>10. CASE r # "ok" /\ r # "retryable"
  <2>1. node' = topUpFailed(node)
    BY <1>1, <1>10
  <2>2. Kept(node, node', ch', wire, buyer)
    BY <1>1, <1>7, <2>1, TopUpFailedKeeps
  <2> QED BY <1>6, <2>2
<1> QED BY <1>8, <1>9, <1>10

----------------------------------------------------------------------------
(* Closes and settlements the seller starts by itself.                     *)

LEMMA KeptTrans ==
  ASSUME NEW n \in NodeType, NEW k, NEW m, NEW c, NEW w, NEW b,
         Kept(n, k, c, w, b), Kept(k, m, c, w, b)
  PROVE  Kept(n, m, c, w, b)
<1>1. n.stored.authMax \in Nat /\ k.stored.authMax \in Nat /\ m.stored.authMax \in Nat
  BY NodeNumbers DEF Kept
<1> QED BY <1>1 DEF Kept

LEMMA KeptRefl ==
  ASSUME NEW n \in NodeType, NEW c, NEW w, NEW b, SessionInv(n, c, w, b)
  PROVE  Kept(n, n, c, w, b)
BY NodeNumbers DEF Kept

(* The timers and the drain are not part of the invariant. *)
LEMMA IdleKeeps ==
  ASSUME NEW n \in NodeType, NEW c \in ChannelType, NEW w, NEW b, SessionInv(n, c, w, b),
         NEW m, \/ \E x \in {"none", "draining", "closing"} : m = [n EXCEPT !.idleClose = x]
                \/ m = [n EXCEPT !.idleTimer = FALSE]
  PROVE  /\ Kept(n, m, c, w, b)
         /\ m.mem = n.mem /\ m.stored = n.stored /\ m.auths = n.auths
         /\ m.closing = n.closing /\ SameWork(m, n) /\ m.activeBuyer = n.activeBuyer
<1>1. /\ m \in NodeType /\ m.mem = n.mem /\ m.stored = n.stored /\ m.auths = n.auths
      /\ m.closing = n.closing /\ SameWork(m, n) /\ m.activeBuyer = n.activeBuyer
  <2>1. CASE m = [n EXCEPT !.idleTimer = FALSE]
    BY <2>1 DEF NodeType, SameWork, SameRequests
  <2>2. ASSUME NEW x \in {"none", "draining", "closing"}, m = [n EXCEPT !.idleClose = x]
        PROVE  /\ m \in NodeType /\ m.mem = n.mem /\ m.stored = n.stored /\ m.auths = n.auths
               /\ m.closing = n.closing /\ SameWork(m, n) /\ m.activeBuyer = n.activeBuyer
    BY <2>2 DEF NodeType, SameWork, SameRequests
  <2> QED BY <2>1, <2>2
<1>2. SessionInv(m, c, w, b)
  BY <1>1, FrameKeeps, SameMoneyRow, SameAuthsRefl DEF SameWork, MayCheck, MayRequestClose
<1> QED BY <1>1, <1>2, NodeNumbers DEF Kept

LEMMA IdleSettleKeeps ==
  ASSUME Inv, NEW r, idleSettle(r)
  PROVE  Kept(node, node', ch', wire, buyer) /\ WorldTyped'
<1>1. /\ node \in NodeType /\ ch \in ChannelType /\ SessionInv(node, ch, wire, buyer)
      /\ node.stored.authMax \in Nat /\ node.mem.latestAuth \in Nat /\ WorldTyped
  BY NodeNumbers DEF Inv, Typed, WorldTyped
<1>2. settleTx(node.mem.latestAuth, node.mem.sig, r) /\ UNCHANGED sellerVars
  BY DEF idleSettle
<1>3. ch.settled <= node.stored.authMax /\ node.mem.latestAuth <= node.stored.authMax
  BY <1>1 DEF SessionInv, Authorizations
<1>4. After(ch, ch', node.stored.authMax) /\ txFailures' \in 0..MaxTxFailures
  BY <1>1, <1>2, <1>3, SettleTxAfter
<1>5. WorldTyped'
  BY <1>1, <1>2, <1>4 DEF WorldTyped, After, sellerVars
<1>6. SessionInv(node, ch', wire, buyer)
  BY <1>1, <1>4, ChainKeeps
<1> QED BY <1>1, <1>2, <1>5, <1>6 DEF Kept, sellerVars

LEMMA CloseAfterDrainKeeps ==
  ASSUME Inv, closeAfterDrain
  PROVE  Kept(node, node', ch, wire, buyer)
<1> DEFINE n == [node EXCEPT !.idleClose = "closing"]
           n1 == CASE n.stored.status # "active" -> n
                   [] n.stored.status = "active"
                        /\ (orZero(n.mem.accepted) > 0 \/ ~n.mem.blocked) ->
                        settleSession(n, "whenIdle")
                   [] OTHER -> IF isOpen THEN closeWithoutAuth(n, "blocked") ELSE n
<1>1. /\ node \in NodeType /\ ch \in ChannelType /\ SessionInv(node, ch, wire, buyer)
  BY DEF Inv, Typed, WorldTyped
<1>2. node' = n1 \/ node' = [n1 EXCEPT !.idleClose = "none"]
  BY DEF closeAfterDrain
<1>3. Kept(node, n, ch, wire, buyer)
  BY <1>1, IdleKeeps
<1>4. Kept(n, n1, ch, wire, buyer)
  <2> HIDE DEF n
  <2>0. n \in NodeType /\ SessionInv(n, ch, wire, buyer)
    BY <1>3 DEF Kept
  <2>1. CASE n1 = n
    BY <2>0, <2>1, KeptRefl
  <2>2. CASE n1 = settleSession(n, "whenIdle")
    BY <1>1, <2>0, <2>2, SettleKeeps
  <2>3. CASE n1 = closeWithoutAuth(n, "blocked") /\ IsActive(n)
    <3>1. ch.status # "none" /\ (GrantedTo(n, "coop") => n.inFlight = 0)
      BY <2>0, <2>3 DEF SessionInv, OnChain, IsActive, Granted, Unbillable
    <3>2. CASE n1 = evictStaleChannel(n, "timeout")
      <4>1. n1 = forgetChannel(updateChannelStatus(n, "timeout"))
        BY <3>2 DEF evictStaleChannel
      <4> HIDE DEF n1
      <4> QED BY <1>1, <2>0, <3>1, <4>1, DropKeeps
    <3>3. CASE n1 = submitClose(n, ch.settled, 0, "blocked") /\ ~(n.mem.retries >= MAX_CLOSE_RETRIES)
      <4>1. ch.settled \in Nat /\ ch.settled <= n.stored.authMax
        BY <1>1, <2>0 DEF ChannelType, SessionInv, Authorizations
      <4>2. n.mem.retries < MAX_CLOSE_RETRIES
        BY <2>0, <3>3, NodeNumbers, SellerAssumption
      <4> HIDE DEF n1
      <4> QED BY <1>1, <2>0, <3>1, <3>3, <4>1, <4>2, SubmitKeeps
    <3> QED BY <2>3, <3>2, <3>3 DEF closeWithoutAuth
  <2> QED BY <2>1, <2>2, <2>3 DEF IsActive
<1>5. Kept(node, n1, ch, wire, buyer)
  <2> HIDE DEF n, n1
  <2> QED BY <1>1, <1>3, <1>4, KeptTrans
<1> HIDE DEF n1
<1>6. CASE node' = [n1 EXCEPT !.idleClose = "none"]
  <2>1. Kept(n1, node', ch, wire, buyer)
    <3>1. n1 \in NodeType /\ SessionInv(n1, ch, wire, buyer)
      BY <1>5 DEF Kept
    <3> QED BY <1>1, <1>6, <3>1, IdleKeeps
  <2> QED BY <1>1, <1>5, <2>1, KeptTrans
<1> QED BY <1>2, <1>5, <1>6

LEMMA IdleTimeoutKeeps ==
  ASSUME Inv, idleTimeout
  PROVE  Kept(node, node', ch, wire, buyer)
<1> DEFINE n == [node EXCEPT !.idleTimer = FALSE]
<1>1. /\ node \in NodeType /\ ch \in ChannelType /\ SessionInv(node, ch, wire, buyer)
  BY DEF Inv, Typed, WorldTyped
<1>2. node' = settleSession(n, "disconnect")
  BY DEF idleTimeout
<1>3. Kept(node, n, ch, wire, buyer)
  BY <1>1, IdleKeeps
<1> HIDE DEF n
<1>4. n \in NodeType /\ SessionInv(n, ch, wire, buyer)
  BY <1>3 DEF Kept
<1>5. Kept(n, node', ch, wire, buyer)
  BY <1>1, <1>2, <1>4, SettleKeeps
<1> QED BY <1>1, <1>3, <1>5, KeptTrans

LEMMA PollKeeps ==
  ASSUME Inv, pollCloseRequested
  PROVE  Kept(node, node', ch, wire, buyer)
<1>1. /\ node \in NodeType /\ ch \in ChannelType /\ SessionInv(node, ch, wire, buyer)
      /\ closeEvent => ch.closeRequested
  BY DEF Inv, Typed, WorldTyped
<1>2. closeEvent /\ (node' = node \/ ((Tracked(node) \/ IsActive(node))
                                      /\ node' = handleCloseRequested(node, "poller")))
  BY DEF pollCloseRequested, isTracked, Tracked, IsActive
<1>3. CASE node' = node
  BY <1>1, <1>3, KeptRefl
<1>4. CASE (Tracked(node) \/ IsActive(node)) /\ node' = handleCloseRequested(node, "poller")
  <2>1. ch.status # "none"
    BY <1>1, <1>4 DEF SessionInv, OnChain, IsActive
  <2> QED BY <1>1, <1>2, <1>4, <2>1, CloseRequestedKeeps
<1> QED BY <1>2, <1>3, <1>4

----------------------------------------------------------------------------
(* CloseChannelRequests.                                                   *)

LEMMA CoopKeeps ==
  ASSUME NEW n \in NodeType, NEW c \in ChannelType, NEW w, NEW b, SessionInv(n, c, w, b),
         NEW x \in CoopType, MayRequestClose(n, c, x), NEW m, m = [n EXCEPT !.coop = x]
  PROVE  /\ Kept(n, m, c, w, b)
         /\ m.mem = n.mem /\ m.stored = n.stored /\ m.auths = n.auths /\ m.coop = x
         /\ m.closing = n.closing /\ SameRequests(m, n) /\ m.activeBuyer = n.activeBuyer
<1>1. /\ m \in NodeType /\ m.mem = n.mem /\ m.stored = n.stored /\ m.auths = n.auths
      /\ m.closing = n.closing /\ m.activeBuyer = n.activeBuyer /\ m.coop = x
      /\ SameRequests(m, n) /\ m.attempts = n.attempts
      /\ m.starting = n.starting /\ m.checking = n.checking
  BY DEF NodeType
<1>2. SessionInv(m, c, w, b)
  BY <1>1, FrameKeeps, SameMoneyRow, SameAuthsRefl DEF MayCheck
<1> QED BY <1>1, <1>2, NodeNumbers DEF Kept

LEMMA RejectKeeps ==
  ASSUME NEW n \in NodeType, NEW c \in ChannelType, NEW w, NEW b, SessionInv(n, c, w, b),
         NEW m, m = rejectClose(n)
  PROVE  Kept(n, m, c, w, b)
<1> DEFINE x == NoCloseRequest
<1>1. x \in CoopType /\ x.at = "none" /\ x.ahead = 0
  BY DEF NoCloseRequest, CoopType
<1>2. m = [n EXCEPT !.coop = x]
  BY DEF rejectClose
<1> HIDE DEF x
<1> QED BY <1>1, <1>2, CoopKeeps DEF MayRequestClose

(* A close request goes on to a later stage. *)
LEMMA StageKeeps ==
  ASSUME NEW n \in NodeType, NEW c \in ChannelType, NEW w, NEW b, SessionInv(n, c, w, b),
         n.coop.at # "none", NEW at \in {"catchUp", "chain", "close"},
         NEW m, m = [n EXCEPT !.coop.at = at]
  PROVE  /\ Kept(n, m, c, w, b)
         /\ m.mem = n.mem /\ m.stored = n.stored /\ m.auths = n.auths
         /\ m.closing = n.closing /\ SameRequests(m, n) /\ m.activeBuyer = n.activeBuyer
<1> DEFINE x == [n.coop EXCEPT !.at = at]
<1>1. n.coop \in CoopType
  BY DEF NodeType
<1>2. x \in CoopType /\ x.at = at /\ x.ahead = n.coop.ahead
  BY <1>1 DEF CoopType
<1>3. m = [n EXCEPT !.coop = x]
  BY DEF NodeType
<1>4. c.status # "none"
  BY DEF SessionInv, OnChain
<1> HIDE DEF x
<1>5. MayRequestClose(n, c, x)
  BY <1>2, <1>4 DEF MayRequestClose
<1> QED BY <1>2, <1>3, <1>5, CoopKeeps

(* The first authorization of an active channel that is not tracked. *)
LEMMA FirstAuthKeeps ==
  ASSUME NEW n \in NodeType, NEW m \in NodeType, NEW c \in ChannelType, NEW w, NEW b,
         SessionInv(n, c, w, b), NEW amount \in Nat,
         ~Tracked(n), IsActive(n),
         m.mem.accepted = amount, m.mem.latestAuth = amount, m.mem.sig = amount,
         m.mem.spent = n.mem.spent, m.mem.reserveMax = n.mem.reserveMax,
         m.stored.authMax = amount, m.stored.sig = amount,
         m.stored.status = n.stored.status, SameRecord(m.stored, n.stored),
         m.stored.reserveMax = n.stored.reserveMax,
         m.stored.tokensDelivered = n.stored.tokensDelivered,
         m.closing = n.closing, SameWork(m, n), m.activeBuyer = n.activeBuyer,
         m.auths = n.auths,
         amount <= b.signed, b.signed \in Nat,
         \A i \in DOMAIN n.auths : isAuth(n.auths[i]) => amount <= n.auths[i].amount,
         \A i \in DOMAIN w : isAuth(w[i]) => amount <= w[i].amount
  PROVE  SessionInv(m, c, w, b)
<1> USE DEF SessionInv
<1>0. /\ Tracked(m) /\ IsActive(m)
      /\ \A at : HeadAt(m, at) <=> HeadAt(n, at)
      /\ \A whos : Awaited(m, whos) <=> Awaited(n, whos)
  BY DEF Tracked, IsActive, HeadAt, Awaited, Absent
<1>a. /\ n.stored.authMax = 0 /\ c.settled \in Nat /\ c.settled <= 0
      /\ orZero(n.mem.spent) <= c.settled
  BY DEF Authorizations, ChannelType
<1>b. n.mem.spent \in {Absent, 0}
  BY <1>a, NodeNumbers DEF orZero
<1>1. Counted(m)
  BY DEF Counted, SameWork
<1>2. OnChain(m, c)
  BY DEF OnChain, IsActive
<1>3. Reserved(m, c)
  BY DEF Reserved
<1>4. Settlements(m, c)
  BY DEF Settlements
<1>5. Authorizations(m, c)
  <2>1. HeadAt(m, "topUp") => m.auths[1].settle <= 0
    BY <1>0, <1>a DEF Authorizations
  <2>2. HeadAt(m, "topUp") => m.auths[1].settle \in Nat
    <3> HIDE DEF SessionInv
    <3>1. m.auths \in Seq(AuthType)
      BY DEF NodeType
    <3>2. m.auths # <<>> => m.auths[1] \in AuthType
      BY <3>1
    <3> QED BY <3>2 DEF HeadAt, AuthType, MessageType
  <2>3. /\ m.closing.amount <= 0 /\ m.closing.amount \in Nat \cup {Absent}
        /\ m.checking.accepted \in Nat
        /\ m.checking.at = "timedOut" => m.checking.accepted <= 0
    BY <1>a, NodeNumbers DEF Authorizations, SameWork
  <2> HIDE DEF SessionInv
  <2> QED BY <1>0, <1>a, <2>1, <2>2, <2>3 DEF Authorizations, SameWork, Absent
<1>6. Exposure(m)
  <2>1. Load(MaxInFlight) \in Nat
    BY SellerAssumption, Loads
  <2>2. n.stored.tokensDelivered \in Nat /\ n.stored.tokensDelivered <= 0 + Load(MaxInFlight)
    <3>1. n.stored.tokensDelivered <= n.stored.authMax + Load(MaxInFlight)
      BY DEF Exposure
    <3> HIDE DEF SessionInv
    <3>2. n.stored.tokensDelivered \in Nat
      BY NodeNumbers
    <3> QED BY <1>a, <3>1, <3>2
  <2>3. m.stored.tokensDelivered <= m.stored.authMax + Load(MaxInFlight)
    BY <2>1, <2>2
  <2>4. m.mem.spent # Absent => m.mem.spent <= m.mem.accepted
    BY <1>b
  <2> QED BY <1>1, <2>3, <2>4, SignedExposure
<1>7. Ordered(m, w, b)
  BY DEF Ordered, SameWork
<1>8. Queued(m)
  BY <1>0 DEF Queued
<1>9. Waiting(m)
  BY <1>0 DEF Waiting, Awaited, SameWork
<1>10. Granted(m, c)
  BY <1>0 DEF Granted, GrantedTo, Unbillable, SameWork
<1> QED BY <1>1, <1>2, <1>3, <1>4, <1>5, <1>6, <1>7, <1>8, <1>9, <1>10

(* An authorization that is not above what was settled. *)
LEMMA SettledAuthKeeps ==
  ASSUME NEW n \in NodeType, NEW m \in NodeType, NEW c \in ChannelType, NEW w, NEW b,
         SessionInv(n, c, w, b), NEW amount \in Nat,
         Tracked(n), n.mem.accepted <= c.settled, amount <= n.stored.authMax,
         m.mem.accepted = n.mem.accepted, m.mem.latestAuth = amount, m.mem.sig = amount,
         m.mem.spent = n.mem.spent, m.mem.reserveMax = n.mem.reserveMax,
         m.stored.authMax = n.stored.authMax, m.stored.sig = amount,
         m.stored.status = n.stored.status, SameRecord(m.stored, n.stored),
         m.stored.reserveMax = n.stored.reserveMax,
         m.stored.tokensDelivered = n.stored.tokensDelivered,
         m.closing = n.closing, SameWork(m, n), m.activeBuyer = n.activeBuyer,
         m.auths = n.auths
  PROVE  SessionInv(m, c, w, b)
<1> USE DEF SessionInv
<1>0. /\ Tracked(m) /\ (IsActive(m) <=> IsActive(n))
      /\ \A at : HeadAt(m, at) <=> HeadAt(n, at)
      /\ \A whos : Awaited(m, whos) <=> Awaited(n, whos)
  BY DEF Tracked, IsActive, HeadAt, Awaited
<1>1. Counted(m)
  BY DEF Counted, SameWork
<1>2. OnChain(m, c)
  BY DEF OnChain
<1>3. Reserved(m, c)
  BY DEF Reserved
<1>4. Settlements(m, c)
  BY DEF Settlements
<1>5. Authorizations(m, c)
  BY <1>0 DEF Authorizations, SameWork
<1>6. Exposure(m)
  BY <1>0 DEF Exposure, SameWork
<1>7. Ordered(m, w, b)
  BY OrderedFrame DEF SameMessages, SameWork
<1>8. Queued(m)
  BY <1>0 DEF Queued
<1>9. Waiting(m)
  BY <1>0 DEF Waiting, Awaited, SameWork
<1>10. Granted(m, c)
  BY <1>0 DEF Granted, GrantedTo, Unbillable, SameWork
<1> QED BY <1>1, <1>2, <1>3, <1>4, <1>5, <1>6, <1>7, <1>8, <1>9, <1>10

LEMMA AdoptFields ==
  ASSUME NEW n \in NodeType, NEW amount \in Nat, NEW m, m = adoptBuyerCloseAuth(n, amount)
  PROVE  \/ m = n
         \/ /\ amount > 0 /\ (n.mem.sig = 0 \/ n.mem.latestAuth < amount)
            /\ m \in NodeType
            /\ m.mem.accepted = IF orZero(n.mem.accepted) >= amount THEN orZero(n.mem.accepted)
                                ELSE amount
            /\ m.mem.latestAuth = amount /\ m.mem.sig = amount
            /\ m.mem.spent = n.mem.spent /\ m.mem.reserveMax = n.mem.reserveMax
            /\ m.stored.authMax = IF n.stored.authMax >= amount THEN n.stored.authMax ELSE amount
            /\ m.stored.sig = amount
            /\ m.stored.status = n.stored.status /\ SameRecord(m.stored, n.stored)
            /\ m.stored.reserveMax = n.stored.reserveMax
            /\ m.stored.tokensDelivered = n.stored.tokensDelivered
            /\ m.closing = n.closing /\ SameWork(m, n) /\ m.activeBuyer = n.activeBuyer
            /\ m.auths = n.auths
<1> DEFINE accepted == Max({orZero(n.mem.accepted), amount})
           authMax == Max({n.stored.authMax, amount})
           mem == [n.mem EXCEPT !.latestAuth = amount, !.sig = amount, !.accepted = accepted]
           row == [n.stored EXCEPT !.authMax = authMax, !.sig = amount]
<1>1. orZero(n.mem.accepted) \in Nat /\ n.stored.authMax \in Nat /\ n.mem.sig \in Nat
      /\ n.mem.latestAuth \in Nat
  BY NodeNumbers DEF orZero
<1>2. /\ accepted = IF orZero(n.mem.accepted) >= amount THEN orZero(n.mem.accepted) ELSE amount
      /\ authMax = IF n.stored.authMax >= amount THEN n.stored.authMax ELSE amount
  BY <1>1, LargerOfTwo
<1>3. accepted \in Nat /\ authMax \in Nat
  BY <1>1, <1>2
<1>4. n.mem \in MemType /\ n.stored \in RowType
  BY DEF NodeType
<1>5. ~(amount = 0 \/ (n.mem.sig > 0 /\ n.mem.latestAuth >= amount))
        => m = [n EXCEPT !.mem = mem, !.stored = row]
  BY DEF adoptBuyerCloseAuth, NodeType
<1>6. (amount = 0 \/ (n.mem.sig > 0 /\ n.mem.latestAuth >= amount)) => m = n
  BY DEF adoptBuyerCloseAuth
<1> HIDE DEF accepted, authMax
<1>7. /\ mem \in MemType /\ mem.accepted = accepted /\ mem.latestAuth = amount
      /\ mem.sig = amount /\ mem.spent = n.mem.spent /\ mem.reserveMax = n.mem.reserveMax
  BY <1>3, <1>4 DEF MemType
<1>8. /\ row \in RowType /\ row.authMax = authMax /\ row.sig = amount
      /\ row.status = n.stored.status /\ SameRecord(row, n.stored)
      /\ row.reserveMax = n.stored.reserveMax /\ row.tokensDelivered = n.stored.tokensDelivered
  BY <1>3, <1>4 DEF RowType
<1> HIDE DEF mem, row
<1>9. m = [n EXCEPT !.mem = mem, !.stored = row] =>
        /\ m \in NodeType /\ m.mem = mem /\ m.stored = row
        /\ m.closing = n.closing /\ SameWork(m, n) /\ m.activeBuyer = n.activeBuyer
        /\ m.auths = n.auths
  BY <1>7, <1>8, ZenonT(90) DEF NodeType, SameWork
<1> QED BY <1>1, <1>2, <1>5, <1>6, <1>7, <1>8, <1>9

LEMMA AdoptKeeps ==
  ASSUME NEW n \in NodeType, NEW c \in ChannelType, NEW w, NEW b \in BuyerType,
         SessionInv(n, c, w, b),
         IsActive(n), n.coop.at = "auths", n.coop.ahead = 0,
         NEW m, m = adoptBuyerCloseAuth(n, n.coop.amount)
  PROVE  Kept(n, m, c, w, b) /\ m.coop = n.coop
<1> DEFINE amount == n.coop.amount
           acc == orZero(n.mem.accepted)
<1>1. amount \in Nat /\ n.stored.authMax \in Nat /\ b.signed \in Nat /\ acc \in Nat
      /\ n.mem.sig \in Nat /\ n.mem.latestAuth \in Nat
  BY NodeNumbers DEF BuyerType, orZero
<1>2. CASE m = n
  BY <1>2, KeptRefl
<1> DEFINE adopted ==
            /\ amount > 0 /\ (n.mem.sig = 0 \/ n.mem.latestAuth < amount)
            /\ m \in NodeType
            /\ m.mem.accepted = IF acc >= amount THEN acc ELSE amount
            /\ m.mem.latestAuth = amount /\ m.mem.sig = amount
            /\ m.mem.spent = n.mem.spent /\ m.mem.reserveMax = n.mem.reserveMax
            /\ m.stored.authMax = IF n.stored.authMax >= amount THEN n.stored.authMax ELSE amount
            /\ m.stored.sig = amount
            /\ m.stored.status = n.stored.status /\ SameRecord(m.stored, n.stored)
            /\ m.stored.reserveMax = n.stored.reserveMax
            /\ m.stored.tokensDelivered = n.stored.tokensDelivered
            /\ m.closing = n.closing /\ SameWork(m, n) /\ m.activeBuyer = n.activeBuyer
            /\ m.auths = n.auths
<1>3. m = n \/ adopted
  BY <1>1, AdoptFields
<1>4. CASE adopted
  <2>1. /\ amount <= b.signed
        /\ \A i \in DOMAIN n.auths : isAuth(n.auths[i]) => amount <= n.auths[i].amount
        /\ \A i \in DOMAIN w : isAuth(w[i]) => amount <= w[i].amount
    <3>1. n.auths \in Seq(AuthType)
      BY DEF NodeType
    <3>2. \A i \in DOMAIN n.auths : i > 0
      BY <3>1
    <3> QED BY <3>2 DEF SessionInv, Ordered
  <2>2. m.coop = n.coop
    BY <1>4 DEF SameWork
  <2>3. CASE ~Tracked(n)
    <3>1. n.stored.authMax = 0 /\ acc = 0
      BY <2>3 DEF SessionInv, Authorizations, Tracked, orZero
    <3>2. m.mem.accepted = amount /\ m.stored.authMax = amount
      BY <1>1, <1>4, <3>1
    <3> HIDE DEF amount, acc
    <3>3. SessionInv(m, c, w, b)
      BY <1>1, <1>4, <2>1, <2>3, <3>2, FirstAuthKeeps
    <3> QED BY <1>1, <1>4, <2>2, <3>1, <3>2, <3>3 DEF Kept
  <2>4. CASE Tracked(n) /\ n.stored.authMax < amount
    <3>1. acc = n.stored.authMax
      BY <2>4 DEF SessionInv, Authorizations, Tracked, orZero
    <3>2. m.mem.accepted = amount /\ m.stored.authMax = amount
      BY <1>1, <1>4, <2>4, <3>1
    <3>3. SameAuths(m.auths, n.auths)
      BY <1>4, SameAuthsRefl
    <3> HIDE DEF amount, acc
    <3>4. SessionInv(m, c, w, b)
      BY <1>1, <1>4, <2>1, <2>4, <3>2, <3>3, LargerAuthKeeps
    <3> QED BY <1>1, <1>4, <2>2, <2>4, <3>2, <3>4 DEF Kept
  <2>5. CASE Tracked(n) /\ ~(n.stored.authMax < amount)
    <3>1. acc = n.stored.authMax /\ n.mem.accepted = acc
      BY <2>5 DEF SessionInv, Authorizations, Tracked, orZero
    <3>2. m.mem.accepted = n.mem.accepted /\ m.stored.authMax = n.stored.authMax
      BY <1>1, <1>4, <2>5, <3>1
    <3>3. \/ n.mem.latestAuth = n.mem.accepted /\ n.mem.sig = n.mem.accepted
          \/ n.mem.accepted <= c.settled
      BY <2>5 DEF SessionInv, Authorizations
    <3>4. n.mem.accepted <= c.settled
      BY <1>1, <1>4, <2>5, <3>1, <3>3
    <3>5. amount <= n.stored.authMax
      BY <1>1, <2>5
    <3> HIDE DEF amount, acc
    <3>6. SessionInv(m, c, w, b)
      BY <1>1, <1>4, <2>5, <3>2, <3>4, <3>5, SettledAuthKeeps
    <3> QED BY <1>1, <1>4, <2>2, <3>2, <3>6 DEF Kept
  <2> QED BY <2>3, <2>4, <2>5
<1> QED BY <1>2, <1>3, <1>4

LEMMA AdoptCloseAuthKeeps ==
  ASSUME Inv, adoptCloseAuth
  PROVE  Kept(node, node', ch, wire, buyer)
<1> DEFINE n == adoptBuyerCloseAuth(node, node.coop.amount)
<1>1. /\ node \in NodeType /\ ch \in ChannelType /\ buyer \in BuyerType
      /\ SessionInv(node, ch, wire, buyer)
  BY DEF Inv, Typed, WorldTyped
<1>2. /\ node.coop.at = "auths" /\ node.coop.ahead = 0
      /\ \/ node' = rejectClose(node)
         \/ /\ IsActive(node)
            /\ \E at \in {"catchUp", "chain", "close"} : node' = [n EXCEPT !.coop.at = at]
  BY DEF adoptCloseAuth, IsActive
<1>3. CASE node' = rejectClose(node)
  BY <1>1, <1>3, RejectKeeps
<1>4. ASSUME IsActive(node), NEW at \in {"catchUp", "chain", "close"},
             node' = [n EXCEPT !.coop.at = at]
      PROVE  Kept(node, node', ch, wire, buyer)
  <2>1. Kept(node, n, ch, wire, buyer) /\ n.coop = node.coop
    BY <1>1, <1>2, <1>4, AdoptKeeps
  <2> HIDE DEF n
  <2>2. n \in NodeType /\ SessionInv(n, ch, wire, buyer) /\ n.coop.at # "none"
    BY <1>2, <2>1 DEF Kept
  <2>3. Kept(n, node', ch, wire, buyer)
    BY <1>1, <1>4, <2>2, StageKeeps
  <2> QED BY <1>1, <2>1, <2>3, KeptTrans
<1> QED BY <1>2, <1>3, <1>4

LEMMA NeedAuthTyped ==
  ASSUME WorldTyped, NEW required \in Nat, sendNeedAuth(required)
  PROVE  needAuth' \in Nat
<1>1. needAuth \in Nat
  BY DEF WorldTyped
<1>2. Max({needAuth, required}) \in Nat
  BY <1>1, LargerOfTwo
<1> QED BY <1>1, <1>2 DEF sendNeedAuth

LEMMA CloseCatchUpKeeps ==
  ASSUME Inv, closeCatchUp
  PROVE  Kept(node, node', ch, wire, buyer) /\ needAuth' \in Nat
<1>1. /\ node \in NodeType /\ ch \in ChannelType /\ SessionInv(node, ch, wire, buyer)
      /\ WorldTyped /\ needAuth \in Nat /\ orZero(node.mem.spent) \in Nat
  BY NodeNumbers DEF Inv, Typed, WorldTyped, orZero
<1>2. /\ node.coop.at = "catchUp"
      /\ \/ node' = rejectClose(node) /\ sendNeedAuth(orZero(node.mem.spent))
         \/ node' = [node EXCEPT !.coop.at = "chain"] /\ needAuth' = needAuth
  BY DEF closeCatchUp
<1>3. CASE node' = rejectClose(node) /\ sendNeedAuth(orZero(node.mem.spent))
  BY <1>1, <1>3, RejectKeeps, NeedAuthTyped
<1>4. CASE node' = [node EXCEPT !.coop.at = "chain"] /\ needAuth' = needAuth
  BY <1>1, <1>2, <1>4, StageKeeps
<1> QED BY <1>2, <1>3, <1>4

LEMMA HandleCloseKeeps ==
  ASSUME Inv, handleCloseChannelRequest
  PROVE  Kept(node, node', ch, wire, buyer)
<1> DEFINE amount == Max({node.mem.latestAuth, ch.settled})
           sig == IF node.mem.latestAuth > ch.settled THEN node.mem.sig ELSE 0
           n == [node EXCEPT !.coop.at = "close"]
<1>1. /\ node \in NodeType /\ ch \in ChannelType /\ SessionInv(node, ch, wire, buyer)
  BY DEF Inv, Typed, WorldTyped
<1>2. /\ node.coop.at = "chain"
      /\ \/ node' = rejectClose(node)
         \/ /\ node' = submitClose(n, amount, sig, "coop")
            /\ ~isBusy(node) /\ ~isOwedMore(node)
  BY DEF handleCloseChannelRequest
<1>3. CASE node' = rejectClose(node)
  BY <1>1, <1>3, RejectKeeps
<1>4. CASE node' = submitClose(n, amount, sig, "coop") /\ ~isBusy(node) /\ ~isOwedMore(node)
  <2>1. /\ Kept(node, n, ch, wire, buyer) /\ n.mem = node.mem /\ n.stored = node.stored
        /\ SameRequests(n, node)
    BY <1>1, <1>2, StageKeeps
  <2> HIDE DEF n
  <2>2. n \in NodeType /\ SessionInv(n, ch, wire, buyer)
    BY <2>1 DEF Kept
  <2>3. /\ {node.mem.latestAuth, node.mem.sig, node.inFlight, ch.settled,
            node.stored.authMax, orZero(node.mem.spent)} \subseteq Nat
    BY <1>1, NodeNumbers DEF ChannelType, orZero
  <2>4. amount = IF node.mem.latestAuth >= ch.settled THEN node.mem.latestAuth ELSE ch.settled
    BY <2>3, LargerOfTwo
  <2>5. ch.settled <= node.stored.authMax /\ node.mem.latestAuth <= node.stored.authMax
    BY <1>1 DEF SessionInv, Authorizations
  <2>6. /\ amount \in Nat /\ sig \in Nat /\ amount <= n.stored.authMax
        /\ orZero(n.mem.spent) <= amount /\ n.inFlight = 0
    BY <1>4, <2>1, <2>3, <2>4, <2>5 DEF isBusy, isOwedMore
  <2>7. ch.status # "none"
    BY <1>1, <1>2 DEF SessionInv, OnChain
  <2>8. "coop" \in Requested /\ "coop" \notin Zombies
    BY DEF Requested, Zombies
  <2> HIDE DEF amount, sig
  <2>9. Kept(n, node', ch, wire, buyer)
    BY <1>1, <1>4, <2>2, <2>6, <2>7, <2>8, SubmitKeeps
  <2> QED BY <1>1, <2>1, <2>9, KeptTrans
<1> QED BY <1>2, <1>3, <1>4

----------------------------------------------------------------------------
(* The timeout checker.                                                    *)

LEMMA NotCheckingType == NotChecking \in CheckingType /\ NotChecking.at = "none"
BY DEF NotChecking, CheckingType

LEMMA CheckingKeeps ==
  ASSUME NEW n \in NodeType, NEW c \in ChannelType, NEW w, NEW b, SessionInv(n, c, w, b),
         NEW x \in CheckingType, MayCheck(n, c, x), NEW m, m = [n EXCEPT !.checking = x]
  PROVE  Kept(n, m, c, w, b)
<1>1. /\ m \in NodeType /\ m.mem = n.mem /\ m.stored = n.stored /\ m.auths = n.auths
      /\ m.closing = n.closing /\ m.activeBuyer = n.activeBuyer /\ m.coop = n.coop
      /\ SameRequests(m, n) /\ m.attempts = n.attempts
      /\ m.starting = n.starting /\ m.checking = x
  BY DEF NodeType
<1>2. SessionInv(m, c, w, b)
  BY <1>1, FrameKeeps, SameMoneyRow, SameAuthsRefl DEF MayRequestClose
<1> QED BY <1>1, <1>2, NodeNumbers DEF Kept

LEMMA CheckTimeoutsKeeps ==
  ASSUME Inv, checkTimeouts
  PROVE  Kept(node, node', ch, wire, buyer)
<1> DEFINE x == [at |-> "active", accepted |-> orZero(node.mem.accepted),
                 expired |-> node.stored.expired, sig |-> 0]
<1>1. /\ node \in NodeType /\ ch \in ChannelType /\ SessionInv(node, ch, wire, buyer)
  BY DEF Inv, Typed, WorldTyped
<1>2. node.checking = NotChecking /\ IsActive(node)
  BY DEF checkTimeouts, IsActive
<1>3. ~(orZero(node.mem.accepted) = 0 /\ hasDurableAuth(node.stored))
  BY <1>1, <1>2, NodeNumbers DEF SessionInv, Authorizations, hasDurableAuth, Tracked, orZero
<1>4. node' = [node EXCEPT !.checking = x]
  BY <1>3 DEF checkTimeouts
<1>5. x \in CheckingType /\ x.at = "active"
  <2>1. orZero(node.mem.accepted) \in Nat /\ node.stored.expired \in BOOLEAN
    BY <1>1, NodeNumbers DEF orZero, NodeType, RowType
  <2> QED BY <2>1 DEF CheckingType
<1>6. ~Awaited(node, Checkers) /\ ch.status # "none"
  BY <1>1, <1>2, NotCheckingType DEF SessionInv, Waiting, OnChain, IsActive
<1> HIDE DEF x
<1>7. MayCheck(node, ch, x)
  BY <1>2, <1>5, <1>6 DEF MayCheck
<1> QED BY <1>1, <1>4, <1>5, <1>7, CheckingKeeps

LEMMA RetryTimedOutClosesKeeps ==
  ASSUME Inv, retryTimedOutCloses
  PROVE  Kept(node, node', ch, wire, buyer)
<1> DEFINE x == [at |-> "timedOut", accepted |-> node.stored.authMax,
                 expired |-> FALSE, sig |-> node.stored.sig]
<1>1. /\ node \in NodeType /\ ch \in ChannelType /\ SessionInv(node, ch, wire, buyer)
  BY DEF Inv, Typed, WorldTyped
<1>2. /\ node.checking = NotChecking /\ node.stored.status = "timeout"
      /\ node' = [node EXCEPT !.checking = x]
  BY DEF retryTimedOutCloses
<1>3. x \in CheckingType /\ x.at = "timedOut" /\ x.accepted <= node.stored.authMax
  BY <1>1, NodeNumbers DEF CheckingType
<1>4. ~Awaited(node, Checkers) /\ ch.status # "none"
  BY <1>1, <1>2, NotCheckingType DEF SessionInv, Waiting, OnChain
<1> HIDE DEF x
<1>5. MayCheck(node, ch, x)
  BY <1>3, <1>4 DEF MayCheck
<1> QED BY <1>1, <1>2, <1>3, <1>5, CheckingKeeps

(* A checker that submits a close waits for it. *)
LEMMA CheckerCloseKeeps ==
  ASSUME NEW n \in NodeType, NEW m \in NodeType, NEW c \in ChannelType, NEW w, NEW b,
         SessionInv(n, c, w, b), NEW amount \in Nat, NEW sig \in Nat, NEW who \in Checkers,
         m.closing = JoinedClose(n, amount, sig, who),
         m.mem = n.mem, m.stored = n.stored, m.auths = n.auths,
         m.activeBuyer = n.activeBuyer, m.coop = n.coop, SameRequests(m, n),
         m.attempts = n.attempts, m.starting = n.starting,
         m.checking.at = "close", n.checking.at # "close",
         c.status # "none", amount <= n.stored.authMax,
         who \in Zombies => n.mem.retries < MAX_CLOSE_RETRIES,
         who = "timedOutAuth" => n.attempts < TIMED_OUT_AUTH_CLOSE_ATTEMPTS
  PROVE  Kept(n, m, c, w, b)
<1>1. who \in Closers /\ who # "topUp" /\ who # "coop"
  BY DEF Closers, Checkers, Settlers, Zombies, TimedOut, Requested
<1>2. /\ SameMoney(m.mem, n.mem) /\ SameRow(m.stored, n.stored)
      /\ SameAuths(m.auths, n.auths) /\ SameMessages(m.auths, n.auths)
      /\ n.stored.authMax \in Nat
  BY SameMoneyRow, SameAuthsRefl, NodeNumbers DEF SameAuths
<1>3. SessionInv(m, c, w, b)
  BY <1>1, <1>2, CloseKeeps
<1> QED BY <1>2, <1>3 DEF Kept

LEMMA CheckActiveKeeps ==
  ASSUME Inv, checkActiveChannel
  PROVE  Kept(node, node', ch, wire, buyer)
<1> DEFINE n == node
           n1 == CASE ~isOpen -> evictStaleChannel(n, "settled")
                   [] isOpen /\ n.checking.accepted > 0 /\ ~n.activeBuyer ->
                        settleSession(n, "checkTimeouts")
                   [] isOpen /\ isZombie(n) -> closeWithoutAuth(n, "zombie")
                   [] OTHER -> n
           whos == {"checkTimeouts", "zombie"}
<1>1. /\ node \in NodeType /\ ch \in ChannelType /\ SessionInv(node, ch, wire, buyer)
  BY DEF Inv, Typed, WorldTyped
<1>2. /\ node.checking.at = "active"
      /\ node' = IF isAwaiting(n1, whos)
                 THEN [n1 EXCEPT !.checking.at = "close"]
                 ELSE [n1 EXCEPT !.checking = NotChecking]
  BY DEF checkActiveChannel
<1>3. /\ ch.status # "none" /\ ~Awaited(node, Checkers)
      /\ GrantedTo(node, "coop") => node.inFlight = 0 \/ ch.closeRequested
  BY <1>1, <1>2 DEF SessionInv, OnChain, Waiting, Granted, Unbillable
<1>4. \/ Kept(node, n1, ch, wire, buyer) /\ n1.closing = node.closing
      \/ /\ n1 = submitClose(node, node.mem.latestAuth, node.mem.sig, "checkTimeouts")
      \/ /\ n1 = submitClose(node, ch.settled, 0, "zombie")
         /\ node.mem.retries < MAX_CLOSE_RETRIES
  <2>1. CASE n1 = evictStaleChannel(n, "settled") /\ ~isOpen
    <3>1. n1 = forgetChannel(updateChannelStatus(node, "settled"))
      BY <2>1 DEF evictStaleChannel
    <3>2. Ended(ch)
      BY <1>1, <1>3, <2>1 DEF Ended, isOpen, ChannelType
    <3> HIDE DEF n1
    <3> QED BY <1>1, <1>3, <3>1, <3>2, DropKeeps
  <2>2. CASE n1 = settleSession(n, "checkTimeouts")
    <3> HIDE DEF n1
    <3> QED BY <1>1, <2>2, SettleCases
  <2>3. CASE n1 = closeWithoutAuth(n, "zombie")
    <3>1. CASE n1 = evictStaleChannel(n, "timeout")
      <4>1. n1 = forgetChannel(updateChannelStatus(node, "timeout"))
        BY <3>1 DEF evictStaleChannel
      <4> HIDE DEF n1
      <4> QED BY <1>1, <1>3, <4>1, DropKeeps
    <3>2. CASE n1 = submitClose(n, ch.settled, 0, "zombie") /\ ~(n.mem.retries >= MAX_CLOSE_RETRIES)
      <4>1. n.mem.retries < MAX_CLOSE_RETRIES
        BY <1>1, <3>2, NodeNumbers, SellerAssumption
      <4> HIDE DEF n1
      <4> QED BY <3>2, <4>1
    <3> QED BY <2>3, <3>1, <3>2 DEF closeWithoutAuth
  <2>4. CASE n1 = n
    <3> HIDE DEF n1
    <3> QED BY <1>1, <2>4, KeptRefl
  <2> QED BY <2>1, <2>2, <2>3, <2>4
<1> HIDE DEF n1
<1>5. CASE Kept(node, n1, ch, wire, buyer) /\ n1.closing = node.closing
  <2>0. ~Awaited(n1, Checkers)
    BY <1>3, <1>5 DEF Awaited
  <2>1. ~isAwaiting(n1, whos)
    BY <2>0 DEF Awaited, isAwaiting, isAmong, Checkers
  <2>2. node' = [n1 EXCEPT !.checking = NotChecking]
    BY <1>2, <2>1
  <2>3. n1 \in NodeType /\ SessionInv(n1, ch, wire, buyer)
    BY <1>5 DEF Kept
  <2>4. MayCheck(n1, ch, NotChecking)
    BY <2>0, NotCheckingType DEF MayCheck
  <2>5. Kept(n1, node', ch, wire, buyer)
    BY <1>1, <2>2, <2>3, <2>4, NotCheckingType, CheckingKeeps
  <2> QED BY <1>1, <1>5, <2>5, KeptTrans
<1>6. ASSUME NEW amount \in Nat, NEW sig \in Nat, NEW who \in whos,
             n1 = submitClose(node, amount, sig, who), amount <= node.stored.authMax,
             who \in Zombies => node.mem.retries < MAX_CLOSE_RETRIES
      PROVE  Kept(node, node', ch, wire, buyer)
  <2>0. who \in Closers /\ who \in Checkers /\ who # "timedOutAuth" /\ Waiting(node)
    BY <1>1 DEF Closers, Checkers, Settlers, Zombies, TimedOut, Requested, SessionInv
  <2>1. /\ n1 \in NodeType
        /\ n1.closing = JoinedClose(node, amount, sig, who)
        /\ n1.mem = node.mem /\ n1.stored = node.stored /\ n1.auths = node.auths
        /\ n1.activeBuyer = node.activeBuyer /\ SameWork(n1, node)
    BY <1>1, <1>6, <2>0, SubmitFields, SMTT(60)
  <2>2. isAwaiting(n1, whos)
    <3> DEFINE len == Len(node.closing.waiters)
    <3>1. /\ len \in Nat /\ DOMAIN n1.closing.waiters = 1..(len + 1)
          /\ n1.closing.waiters[len + 1] = Waiter(node, who)
      BY <1>1, <2>0, <2>1, JoinedWaiters
    <3>2. Waiter(node, who).who = who
      BY DEF Waiter
    <3> HIDE DEF len
    <3>3. len + 1 \in DOMAIN n1.closing.waiters
      BY <3>1
    <3> QED BY <3>1, <3>2, <3>3 DEF isAwaiting, isAmong
  <2>3. node' = [n1 EXCEPT !.checking.at = "close"]
    BY <1>2, <2>2
  <2> DEFINE x == [n1.checking EXCEPT !.at = "close"]
  <2>4. node' = [n1 EXCEPT !.checking = x]
    BY <2>1, <2>3 DEF NodeType
  <2>5. x \in CheckingType /\ x.at = "close"
    BY <2>1 DEF NodeType, CheckingType
  <2> HIDE DEF x
  <2>6. /\ node' \in NodeType /\ node'.mem = n1.mem /\ node'.stored = n1.stored
        /\ node'.auths = n1.auths /\ node'.closing = n1.closing
        /\ node'.activeBuyer = n1.activeBuyer /\ node'.coop = n1.coop
        /\ SameRequests(node', n1)
        /\ node'.attempts = n1.attempts /\ node'.starting = n1.starting
        /\ node'.checking.at = "close"
    BY <2>1, <2>4, <2>5 DEF NodeType
  <2>7. /\ node'.mem = node.mem /\ node'.stored = node.stored /\ node'.auths = node.auths
        /\ node'.closing = JoinedClose(node, amount, sig, who)
        /\ node'.activeBuyer = node.activeBuyer /\ node'.coop = node.coop
        /\ SameRequests(node', node)
        /\ node'.attempts = node.attempts /\ node'.starting = node.starting
    BY <2>1, <2>6 DEF SameWork
  <2>8. node' \in NodeType /\ node'.checking.at = "close" /\ node.checking.at # "close"
        /\ ch.status # "none"
    BY <1>2, <1>3, <2>6
  <2> HIDE DEF whos
  <2> QED BY <1>1, <1>6, <2>0, <2>7, <2>8, CheckerCloseKeeps
<1>7. /\ {node.mem.latestAuth, node.mem.sig, ch.settled} \subseteq Nat
      /\ node.mem.latestAuth <= node.stored.authMax /\ ch.settled <= node.stored.authMax
  BY <1>1, NodeNumbers DEF SessionInv, Authorizations, ChannelType
<1>8. CASE n1 = submitClose(node, node.mem.latestAuth, node.mem.sig, "checkTimeouts")
  BY <1>6, <1>7, <1>8 DEF Zombies
<1>9. CASE n1 = submitClose(node, ch.settled, 0, "zombie") /\ node.mem.retries < MAX_CLOSE_RETRIES
  BY <1>6, <1>7, <1>9
<1> QED BY <1>4, <1>5, <1>8, <1>9

(* The row of a channel that is not active changes its status or gains a   *)
(* recorded settlement.                                                    *)
LEMMA RowKeeps ==
  ASSUME NEW n \in NodeType, NEW m \in NodeType, NEW c \in ChannelType, NEW w, NEW b,
         SessionInv(n, c, w, b),
         SameMoney(m.mem, n.mem), SameAmounts(m.stored, n.stored), ~IsActive(m),
         Settlements(m, c), c.status # "none",
         m.closing = n.closing, SameAuths(m.auths, n.auths), m.activeBuyer => n.activeBuyer,
         m.coop = n.coop, SameRequests(m, n),
         MayCheck(n, c, m.checking), Tracked(m) => m.checking.at # "active",
         Awaited(n, {"timedOutAuth"}) => m.attempts < TIMED_OUT_AUTH_CLOSE_ATTEMPTS
  PROVE  SessionInv(m, c, w, b)
<1> USE DEF SessionInv
<1>0. /\ Tracked(m) <=> Tracked(n)
      /\ m.auths = <<>> <=> n.auths = <<>>
      /\ n.auths # <<>> => 1 \in DOMAIN n.auths /\ 1 \in DOMAIN m.auths
      /\ \A at : HeadAt(m, at) <=> HeadAt(n, at)
      /\ \A whos : Awaited(m, whos) <=> Awaited(n, whos)
  BY DEF Tracked, HeadAt, Awaited, SameMoney, SameAuths, SameMessages, NodeType
<1>1. Counted(m)
  BY DEF Counted, SameAuths, SameMessages
<1>2. OnChain(m, c)
  BY DEF OnChain
<1>3. Reserved(m, c)
  BY DEF Reserved, SameMoney, SameAmounts
<1>4. Settlements(m, c)
  OBVIOUS
<1>5. Authorizations(m, c)
  <2>1. HeadAt(m, "topUp") => m.auths[1].settle = n.auths[1].settle
    BY <1>0 DEF HeadAt, SameAuths, SameMessages
  <2>2. m.checking.at = "timedOut" => m.checking.accepted <= n.stored.authMax
    BY DEF MayCheck, Authorizations
  <2> QED BY <1>0, <2>1, <2>2 DEF Authorizations, SameMoney, SameAmounts
<1>6. Exposure(m)
  BY <1>0 DEF Exposure, SameMoney
<1>7. Ordered(m, w, b)
  BY OrderedFrame DEF SameAuths, SameAmounts
<1>8. Queued(m)
  BY <1>0 DEF Queued, SameAuths, SameMessages, isAuth
<1>9. Waiting(m)
  BY <1>0 DEF Waiting, MayCheck, Awaited
<1>10. Granted(m, c)
  BY <1>0 DEF Granted, GrantedTo, Unbillable, SameMoney
<1> QED BY <1>1, <1>2, <1>3, <1>4, <1>5, <1>6, <1>7, <1>8, <1>9, <1>10

LEMMA RetryTimedOutCloseKeeps ==
  ASSUME Inv, retryTimedOutClose
  PROVE  Kept(node, node', ch, wire, buyer)
<1> DEFINE row == node.checking
           done == [node EXCEPT !.checking = NotChecking, !.attempts = 0]
           x == [row EXCEPT !.at = "close"]
           closes == [node EXCEPT !.checking = x]
<1>1. /\ node \in NodeType /\ ch \in ChannelType /\ SessionInv(node, ch, wire, buyer)
  BY DEF Inv, Typed, WorldTyped
<1>2. closes = [node EXCEPT !.checking.at = "close"]
  BY <1>1 DEF NodeType
<1>3. /\ row.at = "timedOut"
      /\ \/ ch.status = "settled" /\ node' = recordSettlement(done, "settled", ch.settled)
         \/ ch.status = "timedOut" /\ node' = recordSettlement(done, "timeout", ch.settled)
         \/ /\ node.attempts < TIMED_OUT_AUTH_CLOSE_ATTEMPTS
            /\ node' = submitClose(closes, row.accepted, row.sig, "timedOutAuth")
         \/ node' = submitClose(closes, ch.settled, 0, "timedOutSettled")
  <2> HIDE DEF closes, done
  <2> QED BY <1>2 DEF retryTimedOutClose, done
<1>4. /\ ch.status # "none" /\ ~Awaited(node, Checkers) /\ node.checking.at # "close"
  BY <1>1, <1>3 DEF SessionInv, OnChain, Waiting
<1>5. /\ {row.accepted, row.sig, ch.settled, node.stored.authMax} \subseteq Nat
      /\ row.accepted <= node.stored.authMax /\ ch.settled <= node.stored.authMax
  BY <1>1, <1>3, NodeNumbers DEF SessionInv, Authorizations, ChannelType
<1>6. ASSUME NEW s \in {"settled", "timeout"}, Ended(ch),
             node' = recordSettlement(done, s, ch.settled)
      PROVE  Kept(node, node', ch, wire, buyer)
  <2>0. 0 \in 0..TIMED_OUT_AUTH_CLOSE_ATTEMPTS
    BY SellerAssumption
  <2>1. /\ done \in NodeType /\ done.mem = node.mem /\ done.stored = node.stored
        /\ done.auths = node.auths /\ done.closing = node.closing
        /\ done.activeBuyer = node.activeBuyer /\ done.coop = node.coop
        /\ SameRequests(done, node)
        /\ done.checking = NotChecking
    BY <1>1, <2>0, NotCheckingType DEF NodeType
  <2> HIDE DEF done
  <2>2. s \in {"none", "active", "settled", "timeout"}
    OBVIOUS
  <2>3. /\ node' \in NodeType
        /\ node'.mem = done.mem /\ node'.closing = done.closing /\ SameWork(node', done)
        /\ node'.activeBuyer = done.activeBuyer /\ node'.auths = done.auths
        /\ SameAmounts(node'.stored, done.stored)
        /\ node'.stored.status = s /\ node'.stored.recorded = ch.settled
        /\ node'.stored.settledAt
    <3>1. done \in NodeType /\ ch.settled \in Nat /\ node' = recordSettlement(done, s, ch.settled)
      BY <1>5, <1>6, <2>1
    <3> DEFINE r == [done.stored EXCEPT !.status = s, !.recorded = ch.settled,
                                        !.settledAt = TRUE]
    <3>2. node' = [done EXCEPT !.stored = r]
      BY <3>1 DEF recordSettlement, NodeType
    <3>3. done.stored \in RowType
      BY <3>1 DEF NodeType
    <3>4. /\ r \in RowType /\ SameAmounts(r, done.stored)
          /\ r.status = s /\ r.recorded = ch.settled /\ r.settledAt
      BY <2>2, <3>1, <3>3 DEF RowType, SameAmounts
    <3> HIDE DEF r
    <3>5. /\ node' \in NodeType /\ node'.stored = r
          /\ node'.mem = done.mem /\ node'.closing = done.closing /\ SameWork(node', done)
          /\ node'.activeBuyer = done.activeBuyer /\ node'.auths = done.auths
      BY <3>1, <3>2, <3>4 DEF NodeType, SameWork
    <3> QED BY <3>4, <3>5
  <2>4. /\ SameMoney(node'.mem, node.mem) /\ SameAmounts(node'.stored, node.stored)
        /\ ~IsActive(node') /\ Settlements(node', ch) /\ SameAuths(node'.auths, node.auths)
    BY <1>5, <1>6, <2>1, <2>3, SameMoneyRow, SameAuthsRefl DEF IsActive, Settlements
  <2>5. /\ node'.closing = node.closing /\ node'.coop = node.coop
        /\ node'.activeBuyer = node.activeBuyer /\ SameRequests(node', node)
        /\ node'.checking = NotChecking
    BY <2>1, <2>3 DEF SameWork
  <2>6. MayCheck(node, ch, node'.checking) /\ node'.checking.at # "active"
    BY <1>4, <2>5, NotCheckingType DEF MayCheck
  <2>7. ~Awaited(node, {"timedOutAuth"})
    BY <1>4 DEF Awaited, Checkers, TimedOut
  <2>8. SessionInv(node', ch, wire, buyer)
    BY <1>1, <1>4, <2>3, <2>4, <2>5, <2>6, <2>7, RowKeeps
  <2> QED BY <1>5, <2>3, <2>4, <2>8 DEF Kept, SameAmounts
<1>7. ASSUME NEW amount \in Nat, NEW sig \in Nat, NEW who \in TimedOut,
             amount <= node.stored.authMax, node' = submitClose(closes, amount, sig, who),
             who = "timedOutAuth" => node.attempts < TIMED_OUT_AUTH_CLOSE_ATTEMPTS
      PROVE  Kept(node, node', ch, wire, buyer)
  <2>0. who \in Closers /\ who \in Checkers /\ who \notin Zombies /\ Waiting(node)
    BY <1>1 DEF Closers, Checkers, Settlers, Zombies, TimedOut, Requested, SessionInv
  <2>1. x \in CheckingType /\ x.at = "close"
    BY <1>1 DEF NodeType, CheckingType
  <2> HIDE DEF x
  <2>2. /\ closes \in NodeType /\ closes.mem = node.mem /\ closes.stored = node.stored
        /\ closes.auths = node.auths /\ closes.closing = node.closing
        /\ closes.activeBuyer = node.activeBuyer /\ closes.coop = node.coop
        /\ SameRequests(closes, node)
        /\ closes.attempts = node.attempts /\ closes.starting = node.starting
        /\ closes.checking = x
    BY <1>1, <2>1 DEF NodeType
  <2> HIDE DEF closes
  <2>3. Waiting(closes)
    BY <2>0, <2>1, <2>2 DEF Waiting, Awaited
  <2>4. /\ node' \in NodeType
        /\ node'.closing = JoinedClose(closes, amount, sig, who)
        /\ node'.mem = closes.mem /\ node'.stored = closes.stored /\ node'.auths = closes.auths
        /\ node'.activeBuyer = closes.activeBuyer /\ SameWork(node', closes)
    BY <1>7, <2>0, <2>2, <2>3, SubmitFields
  <2>5. JoinedClose(closes, amount, sig, who) = JoinedClose(node, amount, sig, who)
    BY <2>2 DEF JoinedClose, Waiter
  <2>6. /\ node'.closing = JoinedClose(node, amount, sig, who)
        /\ node'.mem = node.mem /\ node'.stored = node.stored /\ node'.auths = node.auths
        /\ node'.activeBuyer = node.activeBuyer /\ node'.coop = node.coop
        /\ SameRequests(node', node)
        /\ node'.attempts = node.attempts /\ node'.starting = node.starting
        /\ node'.checking.at = "close"
    BY <2>1, <2>2, <2>4, <2>5 DEF SameWork
  <2> QED BY <1>1, <1>4, <1>7, <2>0, <2>4, <2>6, CheckerCloseKeeps
<1> HIDE DEF done, closes
<1>8. CASE ch.status = "settled" /\ node' = recordSettlement(done, "settled", ch.settled)
  BY <1>6, <1>8 DEF Ended
<1>9. CASE ch.status = "timedOut" /\ node' = recordSettlement(done, "timeout", ch.settled)
  BY <1>6, <1>9 DEF Ended
<1>10. CASE /\ node.attempts < TIMED_OUT_AUTH_CLOSE_ATTEMPTS
            /\ node' = submitClose(closes, row.accepted, row.sig, "timedOutAuth")
  BY <1>5, <1>7, <1>10 DEF TimedOut
<1>11. CASE node' = submitClose(closes, ch.settled, 0, "timedOutSettled")
  BY <1>5, <1>7, <1>11 DEF TimedOut
<1> QED BY <1>3, <1>8, <1>9, <1>10, <1>11

----------------------------------------------------------------------------
(* The startup.                                                            *)

LEMMA StartingKeeps ==
  ASSUME NEW n \in NodeType, NEW c \in ChannelType, NEW w, NEW b, SessionInv(n, c, w, b),
         NEW x \in {"done", "channels", "poller"}, x = "channels" => c.status # "none",
         NEW m, m = [n EXCEPT !.starting = x]
  PROVE  /\ Kept(n, m, c, w, b)
         /\ m.closing = n.closing /\ m.mem = n.mem /\ SameRequests(m, n)
<1>1. /\ m \in NodeType /\ m.mem = n.mem /\ m.stored = n.stored /\ m.auths = n.auths
      /\ m.closing = n.closing /\ m.activeBuyer = n.activeBuyer /\ m.coop = n.coop
      /\ SameRequests(m, n) /\ m.attempts = n.attempts
      /\ m.starting = x /\ m.checking = n.checking
  BY DEF NodeType
<1>2. SessionInv(m, c, w, b)
  BY <1>1, FrameKeeps, SameMoneyRow, SameAuthsRefl DEF MayRequestClose, MayCheck
<1> QED BY <1>1, <1>2, NodeNumbers DEF Kept

LEMMA ReconcileFields ==
  ASSUME NEW n \in NodeType, ch \in ChannelType, NEW m, m = reconcile(n)
  PROVE  \/ m = n
         \/ /\ m \in NodeType /\ m.stored = n.stored /\ m.auths = n.auths
            /\ m.closing = n.closing /\ SameWork(m, n) /\ m.activeBuyer = n.activeBuyer
            /\ m.mem.spent = ch.settled /\ m.mem.accepted = n.mem.accepted
            /\ m.mem.reserveMax = n.mem.reserveMax
            /\ \/ m.mem.latestAuth = n.mem.latestAuth /\ m.mem.sig = n.mem.sig
               \/ m.mem.latestAuth = 0 /\ n.mem.latestAuth <= ch.settled
<1> DEFINE useless == n.mem.latestAuth <= ch.settled
           mem == [n.mem EXCEPT !.spent = ch.settled,
                                !.latestAuth = IF useless THEN 0 ELSE @,
                                !.sig = IF useless THEN 0 ELSE @]
<1>1. n.mem \in MemType /\ ch.settled \in Nat
  BY DEF NodeType, ChannelType
<1>2. m = n \/ m = [n EXCEPT !.mem = mem]
  BY DEF reconcile, NodeType
<1>3. /\ mem \in MemType /\ mem.spent = ch.settled /\ mem.accepted = n.mem.accepted
      /\ mem.reserveMax = n.mem.reserveMax
      /\ \/ mem.latestAuth = n.mem.latestAuth /\ mem.sig = n.mem.sig
         \/ mem.latestAuth = 0 /\ n.mem.latestAuth <= ch.settled
  BY <1>1 DEF MemType
<1> HIDE DEF mem
<1>4. m = [n EXCEPT !.mem = mem] =>
        /\ m \in NodeType /\ m.stored = n.stored /\ m.auths = n.auths
        /\ m.closing = n.closing /\ SameWork(m, n) /\ m.activeBuyer = n.activeBuyer
        /\ m.mem = mem
  BY <1>3 DEF NodeType, SameWork
<1> QED BY <1>2, <1>3, <1>4

(* What the chain has settled is the work that is known to be served, and  *)
(* an authorization of no more is of no use.                               *)
LEMMA ReconcileKeeps ==
  ASSUME NEW n \in NodeType, ch \in ChannelType, NEW w, NEW b, SessionInv(n, ch, w, b),
         n.closing = NoClose, NEW m, m = reconcile(n)
  PROVE  Kept(n, m, ch, w, b)
<1> DEFINE changed ==
      /\ m \in NodeType /\ m.stored = n.stored /\ m.auths = n.auths
      /\ m.closing = n.closing /\ SameWork(m, n) /\ m.activeBuyer = n.activeBuyer
      /\ m.mem.spent = ch.settled /\ m.mem.accepted = n.mem.accepted
      /\ m.mem.reserveMax = n.mem.reserveMax
      /\ \/ m.mem.latestAuth = n.mem.latestAuth /\ m.mem.sig = n.mem.sig
         \/ m.mem.latestAuth = 0 /\ n.mem.latestAuth <= ch.settled
<1>1. m = n \/ changed
  BY ReconcileFields
<1>2. CASE m = n
  BY <1>2, KeptRefl
<1>3. CASE changed
  <2> USE DEF SessionInv
  <2>0. /\ Tracked(m) <=> Tracked(n)
        /\ IsActive(m) <=> IsActive(n)
        /\ \A at : HeadAt(m, at) <=> HeadAt(n, at)
        /\ \A whos : Awaited(m, whos) <=> Awaited(n, whos)
    BY <1>3 DEF Tracked, IsActive, HeadAt, Awaited
  <2>a. /\ {ch.settled, n.stored.authMax, n.mem.latestAuth, n.inFlight} \subseteq Nat
        /\ ch.settled <= n.stored.authMax
        /\ Tracked(n) => n.mem.accepted = n.stored.authMax
    BY NodeNumbers DEF Authorizations, ChannelType
  <2>1. Counted(m)
    BY <1>3 DEF Counted, SameWork
  <2>2. OnChain(m, ch)
    BY <1>3, <2>0 DEF OnChain, SameWork
  <2>3. Reserved(m, ch) /\ Settlements(m, ch)
    BY <1>3 DEF Reserved, Settlements
  <2>4. Authorizations(m, ch)
    <3>1. orZero(m.mem.spent) <= ch.settled
      BY <1>3, <2>a DEF orZero, Absent
    <3>2. m.mem.latestAuth <= m.stored.authMax
      BY <1>3, <2>a DEF Authorizations
    <3>3. Tracked(m) => \/ m.mem.latestAuth = m.mem.accepted /\ m.mem.sig = m.mem.accepted
                        \/ m.mem.accepted <= ch.settled
      BY <1>3, <2>0, <2>a DEF Authorizations
    <3> QED BY <1>3, <2>0, <3>1, <3>2, <3>3 DEF Authorizations, SameWork
  <2>5. Exposure(m)
    <3>1. m \in NodeType /\ (Tracked(m) => m.mem.spent <= m.mem.accepted)
      BY <1>3, <2>0, <2>a
    <3>2. IsActive(m) => m.stored.tokensDelivered <= m.stored.authMax + Load(MaxInFlight)
      BY <1>3, <2>0 DEF Exposure
    <3> QED BY <2>1, <3>1, <3>2, SignedExposure
  <2>6. Ordered(m, w, b)
    BY <1>3, OrderedFrame DEF SameMessages, SameWork
  <2>7. Queued(m)
    BY <1>3, <2>0 DEF Queued
  <2>8. Waiting(m)
    BY <1>3, <2>0 DEF Waiting, Awaited, SameWork
  <2>9. Granted(m, ch)
    BY <1>3, <2>0 DEF Granted, GrantedTo, SameWork
  <2>10. SessionInv(m, ch, w, b)
    BY <2>1, <2>2, <2>3, <2>4, <2>5, <2>6, <2>7, <2>8, <2>9
  <2> QED BY <1>3, <2>a, <2>10 DEF Kept
<1> QED BY <1>1, <1>2, <1>3

LEMMA ValidateHydratedKeeps ==
  ASSUME Inv, NEW readable, validateHydratedChannels(readable)
  PROVE  Kept(node, node', ch, wire, buyer)
<1> DEFINE n == [node EXCEPT !.starting = "poller"]
           n1 == CASE ~readable -> n
                   [] readable /\ ~isOpen -> evictStaleChannel(n, "settled")
                   [] readable /\ isOpen /\ ch.closeRequested -> handleCloseRequested(n, "startup")
                   [] OTHER -> reconcile(n)
<1>1. /\ node \in NodeType /\ ch \in ChannelType /\ SessionInv(node, ch, wire, buyer)
  BY DEF Inv, Typed, WorldTyped
<1>2. /\ node.starting = "channels" /\ node.closing = NoClose
      /\ node' = [n1 EXCEPT !.starting = IF isAwaiting(n1, {"startup"}) THEN "channels" ELSE @]
  BY DEF validateHydratedChannels
<1>3. ch.status # "none"
  BY <1>1, <1>2 DEF SessionInv, OnChain
<1>4. Kept(node, n, ch, wire, buyer) /\ n.closing = NoClose
  BY <1>1, <1>2, StartingKeeps
<1>5. Kept(n, n1, ch, wire, buyer)
  <2> HIDE DEF n
  <2>0. n \in NodeType /\ SessionInv(n, ch, wire, buyer) /\ ~GrantedTo(n, "coop")
    BY <1>4 DEF Kept, GrantedTo
  <2>1. CASE n1 = n
    BY <2>0, <2>1, KeptRefl
  <2>2. CASE n1 = evictStaleChannel(n, "settled") /\ ~isOpen
    <3>1. n1 = forgetChannel(updateChannelStatus(n, "settled"))
      BY <2>2 DEF evictStaleChannel
    <3>2. Ended(ch)
      BY <1>1, <1>3, <2>2 DEF Ended, isOpen, ChannelType
    <3> HIDE DEF n1
    <3> QED BY <1>1, <1>3, <2>0, <3>1, <3>2, DropKeeps
  <2>3. CASE n1 = handleCloseRequested(n, "startup") /\ ch.closeRequested
    <3> HIDE DEF n1
    <3> QED BY <1>1, <1>3, <2>0, <2>3, CloseRequestedKeeps
  <2>4. CASE n1 = reconcile(n)
    <3> HIDE DEF n1
    <3> QED BY <1>1, <1>4, <2>0, <2>4, ReconcileKeeps
  <2> QED BY <2>1, <2>2, <2>3, <2>4
<1> DEFINE x == IF isAwaiting(n1, {"startup"}) THEN "channels" ELSE n1.starting
<1>6. n1 \in NodeType /\ SessionInv(n1, ch, wire, buyer)
  BY <1>5 DEF Kept
<1> HIDE DEF n, n1
<1>7. x \in {"done", "channels", "poller"} /\ node' = [n1 EXCEPT !.starting = x]
  BY <1>2, <1>6 DEF NodeType
<1> HIDE DEF x
<1>8. Kept(n1, node', ch, wire, buyer)
  BY <1>1, <1>3, <1>6, <1>7, StartingKeeps
<1>9. Kept(node, n1, ch, wire, buyer)
  BY <1>1, <1>4, <1>5, KeptTrans
<1> QED BY <1>1, <1>8, <1>9, KeptTrans

LEMMA StartPollerKeeps ==
  ASSUME Inv, startPoller
  PROVE  Kept(node, node', ch, wire, buyer)
<1>1. /\ node \in NodeType /\ ch \in ChannelType /\ SessionInv(node, ch, wire, buyer)
  BY DEF Inv, Typed, WorldTyped
<1>2. node' = [node EXCEPT !.starting = "done"]
  BY DEF startPoller
<1> QED BY <1>1, <1>2, StartingKeeps

----------------------------------------------------------------------------
(* The buyer.                                                              *)

LEMMA WireKeeps ==
  ASSUME NEW n, NEW c, NEW w, NEW b, SessionInv(n, c, w, b),
         NEW v, NEW d, Ordered(n, v, d)
  PROVE  SessionInv(n, c, v, d)
BY DEF SessionInv

LEMMA SentTyped ==
  ASSUME NEW kind \in {"reserve", "auth", "close"}, NEW amount \in Nat,
         NEW x, x = SpendingAuth(kind, amount)
  PROVE  x \in WireType /\ x.kind = kind /\ x.amount = amount
BY DEF SpendingAuth, WireType, MessageType

(* The buyer sends a message, or none: what it signs grows. *)
LEMMA SentKeeps ==
  ASSUME NEW n \in NodeType, NEW w \in Seq(WireType), NEW b \in BuyerType, NEW d \in BuyerType,
         Ordered(n, w, b), b.signed <= d.signed, NEW x \in WireType,
         x.kind # "reserve" => x.amount <= d.signed, isAuth(x) => b.signed <= x.amount,
         NEW ms, ms = <<>> \/ ms = <<x>>, NEW v, v = w \o ms
  PROVE  v \in Seq(WireType) /\ Ordered(n, v, d)
<1> DEFINE L == Len(w)
<1>1. /\ v \in Seq(WireType) /\ L \in Nat /\ DOMAIN w = 1..L
      /\ DOMAIN v = 1..L \/ (DOMAIN v = 1..(L + 1) /\ v[L + 1] = x)
      /\ \A i \in 1..L : v[i] = w[i]
  <2>1. CASE ms = <<>>
    BY <2>1
  <2>2. CASE ms = <<x>>
    BY <2>2
  <2> QED BY <2>1, <2>2
<1>2. b.signed \in Nat /\ d.signed \in Nat /\ x.amount \in Nat
  BY DEF BuyerType, WireType, MessageType
<1>3. /\ \A i \in 1..L : w[i].amount \in Nat
      /\ \A i \in DOMAIN n.auths : n.auths[i].amount \in Nat
      /\ n.stored.authMax \in Nat /\ n.coop.amount \in Nat
  <2>1. \A i \in 1..L : w[i] \in WireType
    OBVIOUS
  <2> QED BY <2>1, QueueFields, NodeNumbers DEF WireType, MessageType
<1> HIDE DEF L
<1>4. \A i \in DOMAIN v : i \in 1..L \/ (i = L + 1 /\ v[i] = x)
  BY <1>1
<1>5. /\ \A i \in 1..L : /\ w[i].kind # "reserve" => w[i].amount <= b.signed
                         /\ isAuth(w[i]) => n.stored.authMax <= w[i].amount
      /\ \A i, j \in 1..L :
           i < j /\ w[i].kind # "reserve" /\ isAuth(w[j]) => w[i].amount <= w[j].amount
      /\ \A i \in DOMAIN n.auths : isAuth(n.auths[i]) => n.auths[i].amount <= b.signed
      /\ n.stored.authMax <= b.signed
      /\ n.coop.at = "auths" => n.coop.amount <= b.signed
  BY <1>1 DEF Ordered
<1>6. \A i \in DOMAIN n.auths, j \in DOMAIN v :
        isAuth(n.auths[i]) /\ isAuth(v[j]) => n.auths[i].amount <= v[j].amount
  <2> SUFFICES ASSUME NEW i \in DOMAIN n.auths, NEW j \in DOMAIN v,
                      isAuth(n.auths[i]), isAuth(v[j])
               PROVE  n.auths[i].amount <= v[j].amount
    OBVIOUS
  <2>1. CASE j \in 1..L
    BY <1>1, <2>1 DEF Ordered
  <2>2. CASE v[j] = x
    BY <1>2, <1>3, <1>5, <2>2
  <2> QED BY <1>4, <2>1, <2>2
<1>7. \A i, j \in DOMAIN v :
        i < j /\ v[i].kind # "reserve" /\ isAuth(v[j]) => v[i].amount <= v[j].amount
  <2> SUFFICES ASSUME NEW i \in DOMAIN v, NEW j \in DOMAIN v,
                      i < j, v[i].kind # "reserve", isAuth(v[j])
               PROVE  v[i].amount <= v[j].amount
    OBVIOUS
  <2>1. i \in 1..L
    BY <1>1
  <2>2. CASE j \in 1..L
    BY <1>1, <1>5, <2>1, <2>2
  <2>3. CASE v[j] = x
    <3>1. v[i] = w[i] /\ w[i].kind # "reserve"
      BY <1>1, <2>1
    <3>2. w[i].amount <= b.signed /\ w[i].amount \in Nat
      BY <1>3, <1>5, <2>1, <3>1
    <3>3. b.signed <= x.amount
      BY <2>3
    <3> QED BY <1>2, <2>3, <3>1, <3>2, <3>3
  <2> QED BY <1>4, <2>2, <2>3
<1>8. \A i \in DOMAIN n.auths : isAuth(n.auths[i]) => n.auths[i].amount <= d.signed
  BY <1>2, <1>3, <1>5
<1>9. \A i \in DOMAIN v : /\ v[i].kind # "reserve" => v[i].amount <= d.signed
                          /\ isAuth(v[i]) => n.stored.authMax <= v[i].amount
  <2> SUFFICES ASSUME NEW i \in DOMAIN v
               PROVE  /\ v[i].kind # "reserve" => v[i].amount <= d.signed
                      /\ isAuth(v[i]) => n.stored.authMax <= v[i].amount
    OBVIOUS
  <2>1. CASE i \in 1..L
    <3>1. v[i] = w[i] /\ w[i].amount \in Nat
      BY <1>1, <1>3, <2>1
    <3>2. /\ w[i].kind # "reserve" => w[i].amount <= b.signed
          /\ isAuth(w[i]) => n.stored.authMax <= w[i].amount
      BY <1>5, <2>1
    <3> QED BY <1>2, <3>1, <3>2
  <2>2. CASE v[i] = x
    BY <1>2, <1>3, <1>5, <2>2
  <2> QED BY <1>4, <2>1, <2>2
<1>10. n.stored.authMax <= d.signed /\ (n.coop.at = "auths" => n.coop.amount <= d.signed)
  BY <1>2, <1>3, <1>5
<1>11. n.coop.at = "auths" => \A i \in DOMAIN v : isAuth(v[i]) => n.coop.amount <= v[i].amount
  <2> SUFFICES ASSUME n.coop.at = "auths", NEW i \in DOMAIN v, isAuth(v[i])
               PROVE  n.coop.amount <= v[i].amount
    OBVIOUS
  <2>1. CASE i \in 1..L
    BY <1>1, <2>1 DEF Ordered
  <2>2. CASE v[i] = x
    BY <1>2, <1>3, <1>5, <2>2
  <2> QED BY <1>4, <2>1, <2>2
<1>12. Ordered(n, v, d)
  BY <1>6, <1>7, <1>8, <1>9, <1>10, <1>11 DEF Ordered
<1> QED BY <1>1, <1>12

(* A step that keeps the invariant and lowers no stored amount. *)
Stepped == Inv' /\ node.stored.authMax <= node'.stored.authMax

LEMMA KeptStepped ==
  ASSUME Kept(node, node', ch', wire', buyer'), WorldTyped',
         wire' \in Seq(WireType), buyer' \in BuyerType, Len(wire') <= MaxWire
  PROVE  Stepped
BY DEF Stepped, Kept, Inv, Typed

(* The buyer sends ms and becomes d; the node and the chain do nothing. *)
LEMMA SentStepped ==
  ASSUME Inv, NEW d \in BuyerType, buyer' = d, wire' \in Seq(WireType), Len(wire') <= MaxWire,
         Ordered(node, wire', d), node' = node, WorldTyped', ch' = ch
  PROVE  Stepped
<1>1. node \in NodeType /\ SessionInv(node, ch, wire, buyer)
  BY DEF Inv, Typed
<1>2. SessionInv(node, ch, wire', buyer')
  BY <1>1, WireKeeps
<1>3. Kept(node, node', ch', wire', buyer')
  BY <1>1, <1>2, KeptRefl
<1> QED BY <1>3, KeptStepped

LEMMA SendLength ==
  ASSUME Inv, NEW ms \in Seq(WireType), send(ms)
  PROVE  wire' = wire \o ms /\ Len(wire') <= MaxWire
<1>1. wire \in Seq(WireType) /\ MaxWire \in Nat
  BY SessionAssumption DEF Inv, Typed
<1> QED BY <1>1 DEF send

LEMMA AuthorizeSpendingStepped ==
  ASSUME Inv, authorizeSpending
  PROVE  Stepped
<1> DEFINE x == SpendingAuth("reserve", maxReserveAmountUsdc)
           d == [buyer EXCEPT !.opened = TRUE, !.ceiling = maxReserveAmountUsdc]
<1>1. /\ node \in NodeType /\ wire \in Seq(WireType) /\ buyer \in BuyerType
      /\ Ordered(node, wire, buyer) /\ maxReserveAmountUsdc \in Nat
  BY SessionAssumption DEF Inv, Typed, SessionInv
<1>2. x \in WireType /\ x.kind = "reserve"
  BY <1>1, SentTyped
<1>3. d \in BuyerType /\ d.signed = buyer.signed /\ buyer.signed \in Nat
  BY <1>1 DEF BuyerType
<1>4. /\ send(<<x>>) /\ buyer' = d /\ UNCHANGED <<ch, txFailures>>
      /\ UNCHANGED <<node, connected, needAuth, closeEvent>>
  BY DEF authorizeSpending, reserveAuth, chainVars, sellerVars
<1> HIDE DEF x, d
<1> DEFINE ms == <<x>>
<1>a. ms \in Seq(WireType) /\ send(ms) /\ (ms = <<>> \/ ms = <<x>>)
  BY <1>2, <1>4
<1>b. buyer.signed <= d.signed /\ ~isAuth(x)
  BY <1>2, <1>3 DEF isAuth
<1> HIDE DEF ms
<1>5. wire' = wire \o ms /\ Len(wire') <= MaxWire
  BY <1>a, SendLength
<1>6. wire' \in Seq(WireType) /\ Ordered(node, wire', d)
  BY <1>1, <1>2, <1>3, <1>5, <1>a, <1>b, SentKeeps, Zenon
<1>7. WorldTyped'
  BY <1>4 DEF Inv, Typed, WorldTyped
<1> QED BY <1>3, <1>4, <1>5, <1>6, <1>7, SentStepped

LEMMA HandleNeedAuthStepped ==
  ASSUME Inv, NEW toppingUp, handleNeedAuth(toppingUp)
  PROVE  Stepped
<1> DEFINE amount == Min({needAuth, buyer.ceiling})
           ceiling == buyer.ceiling + maxReserveAmountUsdc
           x == SpendingAuth("auth", amount)
           y == SpendingAuth("reserve", ceiling)
           catchUp == IF amount > buyer.signed THEN <<x>> ELSE <<>>
           topUp == IF toppingUp THEN <<y>> ELSE <<>>
           signed == Max({buyer.signed, amount})
           top == IF toppingUp THEN ceiling ELSE buyer.ceiling
           d == [buyer EXCEPT !.signed = signed, !.ceiling = top]
<1>1. /\ node \in NodeType /\ wire \in Seq(WireType) /\ buyer \in BuyerType
      /\ Ordered(node, wire, buyer) /\ maxReserveAmountUsdc \in Nat
      /\ needAuth \in Nat /\ WorldTyped
  BY SessionAssumption DEF Inv, Typed, SessionInv, WorldTyped
<1>2. buyer.signed \in Nat /\ buyer.ceiling \in Nat
  BY <1>1 DEF BuyerType
<1>3. amount \in Nat
  BY <1>1, <1>2, SmallerOfTwo
<1>4. send(catchUp \o topUp) /\ buyer' = d /\ needAuth' = 0
  BY <1>1 DEF handleNeedAuth, spendingAuth, reserveAuth, BuyerType
<1>5. UNCHANGED <<ch, txFailures>> /\ UNCHANGED <<node, connected, closeEvent>>
  BY DEF handleNeedAuth, chainVars
<1> HIDE DEF amount
<1>6. /\ signed = IF buyer.signed >= amount THEN buyer.signed ELSE amount
  BY <1>2, <1>3, LargerOfTwo
<1>7. signed \in Nat /\ buyer.signed <= signed /\ amount <= signed
  BY <1>2, <1>3, <1>6
<1>8. ceiling \in Nat /\ top \in Nat
  BY <1>1, <1>2
<1> HIDE DEF signed, ceiling, top
<1>9. d \in BuyerType /\ d.signed = signed
  BY <1>1, <1>7, <1>8 DEF BuyerType
<1>10. x \in WireType /\ x.kind = "auth" /\ x.amount = amount
  BY <1>3, SentTyped
<1>11. y \in WireType /\ y.kind = "reserve"
  BY <1>8, SentTyped
<1> HIDE DEF x, y, d
<1>12. catchUp \in Seq(WireType) /\ topUp \in Seq(WireType) /\ (catchUp = <<>> \/ catchUp = <<x>>)
       /\ (topUp = <<>> \/ topUp = <<y>>) /\ (catchUp = <<x>> \/ catchUp = <<>>)
  BY <1>10, <1>11
<1>13. CASE catchUp = <<>>
  <2>1. wire' = wire \o topUp /\ Len(wire') <= MaxWire
    <3>1. catchUp \o topUp = topUp
      <4> HIDE DEF topUp, catchUp
      <4> QED BY <1>12, <1>13, ConcatEmptySeq
    <3> QED BY <1>4, <1>12, <3>1, SendLength
  <2> HIDE DEF topUp, catchUp
  <2>2. wire' \in Seq(WireType) /\ Ordered(node, wire', d)
    BY <1>1, <1>7, <1>9, <1>11, <1>12, <2>1, SentKeeps DEF isAuth
  <2>3. WorldTyped'
    BY <1>1, <1>4, <1>5 DEF WorldTyped
  <2> QED BY <1>4, <1>5, <1>9, <2>1, <2>2, <2>3, SentStepped
<1>14. CASE catchUp = <<x>> /\ amount > buyer.signed
  <2> HIDE DEF topUp, catchUp
  <2>1. wire' = wire \o (catchUp \o topUp) /\ Len(wire') <= MaxWire
    <3>1. catchUp \o topUp \in Seq(WireType)
      BY <1>12
    <3> QED BY <1>4, <3>1, SendLength
  <2> DEFINE v == wire \o catchUp
  <2>2. wire' = v \o topUp
    <3>1. wire \in Seq(WireType) /\ catchUp \in Seq(WireType) /\ topUp \in Seq(WireType)
      BY <1>1, <1>12
    <3>2. (wire \o catchUp) \o topUp = wire \o (catchUp \o topUp)
      BY <3>1, ConcatAssociative
    <3> QED BY <2>1, <3>2, Zenon
  <2>3. buyer.signed <= x.amount /\ x.amount <= d.signed /\ buyer.signed <= d.signed
    BY <1>2, <1>3, <1>7, <1>9, <1>10, <1>14
  <2>4. v \in Seq(WireType) /\ Ordered(node, v, d)
    BY <1>1, <1>9, <1>10, <1>12, <2>3, SentKeeps
  <2> HIDE DEF v
  <2>5. d.signed <= d.signed
    BY <1>7, <1>9
  <2>6. wire' \in Seq(WireType) /\ Ordered(node, wire', d)
    BY <1>1, <1>9, <1>11, <1>12, <2>2, <2>4, <2>5, SentKeeps DEF isAuth
  <2>7. WorldTyped'
    BY <1>1, <1>4, <1>5 DEF WorldTyped
  <2> QED BY <1>4, <1>5, <1>9, <2>1, <2>6, <2>7, SentStepped
<1> QED BY <1>13, <1>14

LEMMA RecoverSessionStepped ==
  ASSUME Inv, recoverExistingSession
  PROVE  Stepped
<1> DEFINE x == SpendingAuth("reserve", maxReserveAmountUsdc)
           y == SpendingAuth("auth", buyer.signed)
           z == SpendingAuth("reserve", buyer.ceiling)
           pending == IF buyer.ceiling > ch.deposit THEN <<z>> ELSE <<>>
<1>1. /\ node \in NodeType /\ wire \in Seq(WireType) /\ buyer \in BuyerType
      /\ Ordered(node, wire, buyer) /\ maxReserveAmountUsdc \in Nat /\ WorldTyped
  BY SessionAssumption DEF Inv, Typed, SessionInv, WorldTyped
<1>2. buyer.signed \in Nat /\ buyer.ceiling \in Nat /\ buyer.signed <= buyer.signed
  BY <1>1 DEF BuyerType
<1>3. /\ x \in WireType /\ x.kind = "reserve" /\ z \in WireType /\ z.kind = "reserve"
      /\ y \in WireType /\ y.kind = "auth" /\ y.amount = buyer.signed
  BY <1>1, <1>2, SentTyped
<1>4. send(<<x>>) \/ send(<<y>> \o pending)
  BY DEF recoverExistingSession, reserveAuth, spendingAuth
<1>5. /\ UNCHANGED <<ch, txFailures>> /\ buyer' = buyer
      /\ UNCHANGED <<node, connected, needAuth, closeEvent>>
  BY DEF recoverExistingSession, chainVars, sellerVars
<1>6. WorldTyped'
  BY <1>1, <1>5 DEF WorldTyped
<1> HIDE DEF x, y, z
<1>7. CASE send(<<x>>)
  <2> DEFINE ms == <<x>>
  <2>a. ms \in Seq(WireType) /\ send(ms) /\ (ms = <<>> \/ ms = <<x>>) /\ ~isAuth(x)
    BY <1>3, <1>7 DEF isAuth
  <2> HIDE DEF ms
  <2>1. wire' = wire \o ms /\ Len(wire') <= MaxWire
    BY <2>a, SendLength
  <2>2. wire' \in Seq(WireType) /\ Ordered(node, wire', buyer)
    BY <1>1, <1>2, <1>3, <2>1, <2>a, SentKeeps, Zenon
  <2> QED BY <1>1, <1>5, <1>6, <2>1, <2>2, SentStepped
<1>8. CASE send(<<y>> \o pending)
  <2>0. pending \in Seq(WireType) /\ (pending = <<>> \/ pending = <<z>>) /\ <<y>> \in Seq(WireType)
    BY <1>3
  <2> HIDE DEF pending
  <2>1. wire' = wire \o (<<y>> \o pending) /\ Len(wire') <= MaxWire
    <3>1. <<y>> \o pending \in Seq(WireType)
      BY <2>0
    <3> QED BY <1>8, <3>1, SendLength
  <2> DEFINE v == wire \o <<y>>
  <2>2. wire' = v \o pending
    BY <1>1, <2>0, <2>1, ConcatAssociative
  <2>3. v \in Seq(WireType) /\ Ordered(node, v, buyer)
    BY <1>1, <1>2, <1>3, SentKeeps
  <2> HIDE DEF v
  <2>4. wire' \in Seq(WireType) /\ Ordered(node, wire', buyer)
    BY <1>1, <1>2, <1>3, <2>0, <2>2, <2>3, SentKeeps DEF isAuth
  <2> QED BY <1>1, <1>5, <1>6, <2>1, <2>4, SentStepped
<1> QED BY <1>4, <1>7, <1>8

LEMMA RequestChannelCloseStepped ==
  ASSUME Inv, NEW attached \in CloseAuths, requestChannelClose(attached)
  PROVE  Stepped
<1> DEFINE amount == closeAuth(attached)
           x == SpendingAuth("close", amount)
<1>1. /\ node \in NodeType /\ wire \in Seq(WireType) /\ buyer \in BuyerType
      /\ Ordered(node, wire, buyer) /\ WorldTyped /\ ch \in ChannelType
  BY DEF Inv, Typed, SessionInv, WorldTyped
<1>2. buyer.signed \in Nat /\ ch.deposit \in Nat
  BY <1>1 DEF BuyerType, ChannelType
<1>3. amount \in Nat /\ amount <= buyer.signed
  <2>0. attached \in {"none", "capped", "latest"}
    BY SessionAssumption
  <2>1. /\ Min({buyer.signed, ch.deposit}) \in Nat
        /\ Min({buyer.signed, ch.deposit}) <= buyer.signed
    BY <1>2, SmallerOfTwo
  <2>2. CASE attached = "none"
    BY <1>2, <2>2 DEF closeAuth
  <2>3. CASE attached = "latest"
    BY <1>2, <2>3 DEF closeAuth
  <2>4. CASE attached = "capped"
    BY <2>1, <2>4 DEF closeAuth
  <2> QED BY <2>0, <2>2, <2>3, <2>4
<1>4. /\ send(<<x>>) /\ UNCHANGED <<ch, txFailures>> /\ buyer' = buyer
      /\ UNCHANGED <<node, connected, needAuth, closeEvent>>
  BY DEF requestChannelClose, chainVars, sellerVars
<1> HIDE DEF amount
<1>5. x \in WireType /\ x.kind = "close" /\ x.amount = amount
  BY <1>3, SentTyped
<1> HIDE DEF x
<1> DEFINE ms == <<x>>
<1>a. ms \in Seq(WireType) /\ send(ms) /\ (ms = <<>> \/ ms = <<x>>)
  BY <1>4, <1>5
<1>b. buyer.signed <= buyer.signed /\ ~isAuth(x) /\ x.amount <= buyer.signed
  BY <1>2, <1>3, <1>5 DEF isAuth
<1> HIDE DEF ms
<1>6. wire' = wire \o ms /\ Len(wire') <= MaxWire
  BY <1>a, SendLength
<1>7. wire' \in Seq(WireType) /\ Ordered(node, wire', buyer)
  BY <1>1, <1>5, <1>6, <1>a, <1>b, SentKeeps, Zenon
<1>8. WorldTyped'
  BY <1>1, <1>4 DEF WorldTyped
<1> QED BY <1>1, <1>4, <1>6, <1>7, <1>8, SentStepped

(* The wire and the buyer stay as they are. *)
LEMMA EnvKept ==
  ASSUME Inv, UNCHANGED <<wire, buyer>>, Kept(node, node', ch', wire, buyer), WorldTyped'
  PROVE  Stepped
<1>1. wire \in Seq(WireType) /\ buyer \in BuyerType /\ Len(wire) <= MaxWire
  BY DEF Inv, Typed
<1>2. Kept(node, node', ch', wire', buyer')
  OBVIOUS
<1> QED BY <1>1, <1>2, KeptStepped

(* The buyer's operator goes to the chain. *)
LEMMA OperatorStepped ==
  ASSUME Inv, requestClose \/ withdraw
  PROVE  Stepped
<1> DEFINE d == [ch EXCEPT !.closeRequested = TRUE]
           e == [ch EXCEPT !.status = "timedOut"]
<1>1. /\ node \in NodeType /\ ch \in ChannelType /\ SessionInv(node, ch, wire, buyer) /\ WorldTyped
  BY DEF Inv, Typed, WorldTyped
<1>2. /\ d \in ChannelType /\ d.status = ch.status /\ d.deposit = ch.deposit
      /\ d.settled = ch.settled /\ d.closeRequested
      /\ e \in ChannelType /\ e.status = "timedOut" /\ e.deposit = ch.deposit
      /\ e.settled = ch.settled /\ e.closeRequested = ch.closeRequested
      /\ ch.deposit \in Nat /\ ch.settled \in Nat
  BY <1>1 DEF ChannelType
<1>3. /\ ch.status = "active" /\ txFailures' = txFailures
      /\ UNCHANGED <<node, connected, needAuth>> /\ UNCHANGED <<wire, buyer>>
      /\ \/ ch' = d /\ closeEvent' = TRUE
         \/ ch' = e /\ closeEvent' = closeEvent
  <2>1. CASE requestClose
    BY <2>1 DEF requestClose, requestCloseTx, isOpen, envVars
  <2>2. CASE withdraw
    BY <2>2 DEF withdraw, withdrawTx, isOpen, sellerVars, envVars
  <2> QED BY <2>1, <2>2
<1> HIDE DEF d, e
<1>4. ch.settled <= node.stored.authMax
  BY <1>1 DEF SessionInv, Authorizations
<1>5. After(ch, ch', node.stored.authMax)
  BY <1>2, <1>3, <1>4 DEF After, Ended
<1>6. WorldTyped'
  <2>1. /\ ch \in ChannelType /\ needAuth \in Nat /\ connected \in BOOLEAN
        /\ txFailures \in 0..MaxTxFailures
    BY <1>1 DEF WorldTyped
  <2>2. closeEvent \in BOOLEAN /\ (closeEvent => ch.closeRequested)
    BY <1>1 DEF WorldTyped
  <2>3. ch' \in ChannelType
    BY <1>2, <1>3
  <2>4. closeEvent' \in BOOLEAN /\ (closeEvent' => ch'.closeRequested)
    <3>1. CASE ch' = d /\ closeEvent' = TRUE
      BY <1>2, <3>1, Zenon
    <3>2. CASE ch' = e /\ closeEvent' = closeEvent
      BY <1>2, <2>2, <3>2, Zenon
    <3> QED BY <1>3, <3>1, <3>2
  <2> QED BY <1>3, <2>1, <2>3, <2>4 DEF WorldTyped
<1>7. SessionInv(node, ch', wire, buyer)
  BY <1>1, <1>5, ChainKeeps
<1>8. Kept(node, node', ch', wire, buyer)
  BY <1>1, <1>3, <1>7, KeptRefl
<1> QED BY <1>3, <1>6, <1>8, EnvKept

LEMMA BuyerStepped ==
  ASSUME Inv, BuyerStep
  PROVE  Stepped
BY AuthorizeSpendingStepped, HandleNeedAuthStepped, RecoverSessionStepped,
   RequestChannelCloseStepped, OperatorStepped DEF BuyerStep

----------------------------------------------------------------------------
(* The wire and the world.                                                 *)

LEMMA ConnectStepped ==
  ASSUME Inv, connect
  PROVE  Stepped
<1>1. node \in NodeType /\ SessionInv(node, ch, wire, buyer) /\ WorldTyped
  BY DEF Inv, Typed
<1>2. /\ UNCHANGED <<ch, txFailures>> /\ UNCHANGED <<node, needAuth, closeEvent, wire, buyer>>
      /\ connected' = TRUE
  BY DEF connect, chainVars
<1>3. WorldTyped'
  BY <1>1, <1>2 DEF WorldTyped
<1>4. Kept(node, node', ch', wire, buyer)
  BY <1>1, <1>2, KeptRefl
<1> QED BY <1>2, <1>3, <1>4, EnvKept

LEMMA DeadlineStepped ==
  ASSUME Inv, deadlinePasses
  PROVE  Stepped
<1> DEFINE row == [node.stored EXCEPT !.expired = TRUE]
<1>1. /\ node \in NodeType /\ ch \in ChannelType /\ SessionInv(node, ch, wire, buyer)
      /\ WorldTyped /\ node.stored \in RowType
  BY DEF Inv, Typed, WorldTyped, NodeType
<1>2. /\ UNCHANGED <<ch, txFailures>> /\ UNCHANGED <<connected, needAuth, closeEvent>>
      /\ UNCHANGED <<wire, buyer>> /\ node' = [node EXCEPT !.stored = row]
  BY <1>1 DEF deadlinePasses, chainVars, envVars, NodeType
<1>3. row \in RowType /\ SameRow(row, node.stored)
  BY <1>1 DEF RowType, SameRow
<1> HIDE DEF row
<1>4. /\ node' \in NodeType /\ node'.stored = row
      /\ node'.mem = node.mem /\ node'.closing = node.closing /\ SameWork(node', node)
      /\ node'.activeBuyer = node.activeBuyer /\ node'.auths = node.auths
  BY <1>1, <1>2, <1>3 DEF NodeType, SameWork
<1>5. SessionInv(node', ch, wire, buyer)
  BY <1>1, <1>3, <1>4, FrameKeeps, SameMoneyRow, SameAuthsRefl
     DEF SameWork, MayCheck, MayRequestClose
<1>6. Kept(node, node', ch', wire, buyer)
  BY <1>1, <1>2, <1>3, <1>4, <1>5, NodeNumbers DEF Kept, SameRow
<1>7. WorldTyped'
  BY <1>1, <1>2 DEF WorldTyped
<1> QED BY <1>2, <1>6, <1>7, EnvKept

LEMMA DisconnectKeeps ==
  ASSUME NEW n \in NodeType, NEW c \in ChannelType, NEW w, NEW b, SessionInv(n, c, w, b),
         NEW m, m = onBuyerDisconnect(n)
  PROVE  Kept(n, m, c, w, b)
<1> DEFINE k == [n EXCEPT !.auths = stale(@)]
<1>1. stale(n.auths) \in Seq(AuthType) /\ SameAuths(stale(n.auths), n.auths)
  BY StaleAuths DEF NodeType
<1>2. /\ k \in NodeType /\ k.auths = stale(n.auths) /\ k.mem = n.mem /\ k.stored = n.stored
      /\ k.closing = n.closing /\ k.activeBuyer = n.activeBuyer /\ SameWork(k, n)
  BY <1>1 DEF NodeType, SameWork
<1>3. \/ m = n
      \/ m = settleSession(k, "disconnect")
      \/ m = [k EXCEPT !.activeBuyer = FALSE]
  BY DEF onBuyerDisconnect
<1> HIDE DEF k
<1>4. SessionInv(k, c, w, b)
  BY <1>1, <1>2, FrameKeeps, SameMoneyRow DEF SameWork, MayCheck, MayRequestClose
<1>5. Kept(n, k, c, w, b)
  BY <1>2, <1>4, NodeNumbers DEF Kept
<1>6. CASE m = settleSession(k, "disconnect")
  <2>1. Kept(k, m, c, w, b)
    BY <1>2, <1>4, <1>6, SettleKeeps
  <2> QED BY <1>5, <2>1, KeptTrans
<1>7. CASE m = [k EXCEPT !.activeBuyer = FALSE]
  <2>1. /\ m \in NodeType /\ m.auths = k.auths /\ m.mem = k.mem /\ m.stored = k.stored
        /\ m.closing = k.closing /\ ~m.activeBuyer /\ SameWork(m, k)
    BY <1>2, <1>7 DEF NodeType, SameWork
  <2>2. SessionInv(m, c, w, b)
    BY <1>2, <1>4, <2>1, FrameKeeps, SameMoneyRow, SameAuthsRefl
       DEF SameWork, MayCheck, MayRequestClose
  <2>3. Kept(k, m, c, w, b)
    BY <1>2, <2>1, <2>2, NodeNumbers DEF Kept
  <2> QED BY <1>5, <2>3, KeptTrans
<1> QED BY <1>3, <1>6, <1>7, KeptRefl

LEMMA OrderedNothing ==
  ASSUME NEW n, NEW w, NEW b, Ordered(n, w, b)
  PROVE  Ordered(n, <<>>, b)
BY DEF Ordered

LEMMA DisconnectStepped ==
  ASSUME Inv, disconnect
  PROVE  Stepped
<1> DEFINE n == [node EXCEPT !.idleTimer = FALSE]
<1>1. /\ node \in NodeType /\ ch \in ChannelType /\ SessionInv(node, ch, wire, buyer)
      /\ WorldTyped /\ buyer \in BuyerType
  BY DEF Inv, Typed, WorldTyped
<1>2. /\ node' = onBuyerDisconnect(n) /\ wire' = <<>> /\ needAuth' = 0 /\ connected' = FALSE
      /\ UNCHANGED <<ch, txFailures>> /\ UNCHANGED <<closeEvent, buyer>>
  BY DEF disconnect, chainVars
<1>3. SessionInv(node, ch, <<>>, buyer)
  BY <1>1, OrderedNothing, WireKeeps DEF SessionInv
<1>4. Kept(node, n, ch, <<>>, buyer)
  BY <1>1, <1>3, IdleKeeps
<1> HIDE DEF n
<1>5. n \in NodeType /\ SessionInv(n, ch, <<>>, buyer)
  BY <1>4 DEF Kept
<1>6. Kept(n, node', ch, <<>>, buyer)
  BY <1>1, <1>2, <1>5, DisconnectKeeps
<1>7. Kept(node, node', ch, <<>>, buyer)
  BY <1>1, <1>4, <1>6, KeptTrans
<1>8. WorldTyped'
  BY <1>1, <1>2 DEF WorldTyped
<1>9. wire' \in Seq(WireType) /\ Len(wire') <= MaxWire
  BY <1>2, SessionAssumption
<1>10. Kept(node, node', ch', wire', buyer')
  BY <1>2, <1>7
<1> QED BY <1>1, <1>2, <1>8, <1>9, <1>10, KeptStepped

(* The first message of the wire joins the queue. *)
LEMMA QueuedOrdered ==
  ASSUME NEW n \in NodeType, NEW m \in NodeType, NEW w \in Seq(WireType), w # <<>>, NEW b,
         Ordered(n, w, b), n.coop.ahead <= Len(n.auths), NEW v, v = Tail(w),
         NEW x, x = w[1],
         m.auths = Append(n.auths, x), m.stored = n.stored, m.coop = n.coop
  PROVE  Ordered(m, v, b)
<1> DEFINE L == Len(n.auths)
           K == Len(w)
<1>1. /\ K \in Nat \ {0} /\ DOMAIN w = 1..K /\ DOMAIN v = 1..(K - 1) /\ 1 \in 1..K
      /\ \A i \in 1..(K - 1) : i + 1 \in 1..K /\ v[i] = w[i + 1]
  BY TailMessages
<1>2. /\ L \in Nat /\ DOMAIN n.auths = 1..L /\ DOMAIN m.auths = 1..(L + 1)
      /\ \A i \in 1..L : m.auths[i] = n.auths[i]
      /\ m.auths[L + 1] = x
  <2>1. n.auths \in Seq(AuthType)
    BY DEF NodeType
  <2> QED BY <2>1
<1> HIDE DEF L, K
<1>3. \A i \in DOMAIN m.auths : i \in 1..L \/ (i = L + 1 /\ m.auths[i] = x)
  BY <1>2
<1>4. \A i \in 1..L : isAuth(n.auths[i]) /\ isAuth(x) => n.auths[i].amount <= x.amount
  BY <1>1, <1>2 DEF Ordered
<1>5. \A j \in DOMAIN v : isAuth(x) /\ isAuth(v[j]) => x.amount <= v[j].amount
  <2> SUFFICES ASSUME NEW j \in 1..(K - 1), isAuth(x), isAuth(w[j + 1])
               PROVE  x.amount <= w[j + 1].amount
    BY <1>1
  <2>1. 1 < j + 1 /\ j + 1 \in DOMAIN w /\ 1 \in DOMAIN w /\ w[1].kind # "reserve"
    BY <1>1 DEF isAuth
  <2> QED BY <2>1 DEF Ordered
<1>6. \A i, j \in DOMAIN m.auths :
        i < j /\ isAuth(m.auths[i]) /\ isAuth(m.auths[j])
          => m.auths[i].amount <= m.auths[j].amount
  <2> SUFFICES ASSUME NEW i \in DOMAIN m.auths, NEW j \in DOMAIN m.auths, i < j,
                      isAuth(m.auths[i]), isAuth(m.auths[j])
               PROVE  m.auths[i].amount <= m.auths[j].amount
    OBVIOUS
  <2>1. i \in 1..L
    BY <1>2
  <2>2. CASE j \in 1..L
    BY <1>2, <2>1, <2>2 DEF Ordered
  <2>3. CASE m.auths[j] = x
    BY <1>2, <1>4, <2>1, <2>3
  <2> QED BY <1>3, <2>2, <2>3
<1>7. \A i \in DOMAIN m.auths, j \in DOMAIN v :
        isAuth(m.auths[i]) /\ isAuth(v[j]) => m.auths[i].amount <= v[j].amount
  <2> SUFFICES ASSUME NEW i \in DOMAIN m.auths, NEW j \in DOMAIN v,
                      isAuth(m.auths[i]), isAuth(v[j])
               PROVE  m.auths[i].amount <= v[j].amount
    OBVIOUS
  <2>1. CASE i \in 1..L
    BY <1>1, <1>2, <2>1 DEF Ordered
  <2>2. CASE m.auths[i] = x
    BY <1>5, <2>2
  <2> QED BY <1>3, <2>1, <2>2
<1>8. \A i, j \in DOMAIN v :
        i < j /\ v[i].kind # "reserve" /\ isAuth(v[j]) => v[i].amount <= v[j].amount
  <2>1. \A i, j \in 1..(K - 1) : i < j => i + 1 < j + 1
    BY <1>1
  <2>2. \A i, j \in 1..K :
          i < j /\ w[i].kind # "reserve" /\ isAuth(w[j]) => w[i].amount <= w[j].amount
    BY <1>1 DEF Ordered
  <2> QED BY <1>1, <2>1, <2>2
<1>9. \A i \in DOMAIN m.auths : isAuth(m.auths[i]) => /\ m.auths[i].amount <= b.signed
                                                      /\ m.stored.authMax <= m.auths[i].amount
  <2>1. isAuth(x) => x.amount <= b.signed /\ n.stored.authMax <= x.amount
    BY <1>1 DEF Ordered, isAuth
  <2>2. \A i \in 1..L : isAuth(n.auths[i]) => /\ n.auths[i].amount <= b.signed
                                              /\ n.stored.authMax <= n.auths[i].amount
    BY <1>2 DEF Ordered
  <2> QED BY <1>2, <1>3, <2>1, <2>2
<1>10. \A i \in DOMAIN v : /\ v[i].kind # "reserve" => v[i].amount <= b.signed
                           /\ isAuth(v[i]) => m.stored.authMax <= v[i].amount
  BY <1>1 DEF Ordered
<1>11. m.coop.at = "auths" =>
         /\ m.coop.amount <= b.signed
         /\ \A i \in DOMAIN m.auths :
              i > m.coop.ahead /\ isAuth(m.auths[i]) => m.coop.amount <= m.auths[i].amount
         /\ \A i \in DOMAIN v : isAuth(v[i]) => m.coop.amount <= v[i].amount
  <2> SUFFICES ASSUME n.coop.at = "auths"
               PROVE  /\ n.coop.amount <= b.signed
                      /\ \A i \in DOMAIN m.auths : i > n.coop.ahead /\ isAuth(m.auths[i])
                           => n.coop.amount <= m.auths[i].amount
                      /\ \A i \in DOMAIN v : isAuth(v[i]) => n.coop.amount <= v[i].amount
    OBVIOUS
  <2>1. \A i \in 1..K : isAuth(w[i]) => n.coop.amount <= w[i].amount
    BY <1>1 DEF Ordered
  <2>2. \A i \in 1..L : i > n.coop.ahead /\ isAuth(n.auths[i]) => n.coop.amount <= n.auths[i].amount
    BY <1>2 DEF Ordered
  <2>3. n.coop.amount <= b.signed
    BY DEF Ordered
  <2> QED BY <1>1, <1>2, <1>3, <2>1, <2>2, <2>3
<1>12. m.stored.authMax <= b.signed
  BY DEF Ordered
<1> QED BY <1>6, <1>7, <1>8, <1>9, <1>10, <1>11, <1>12 DEF Ordered

LEMMA ReceiveAuthKeeps ==
  ASSUME NEW n \in NodeType, NEW c \in ChannelType, NEW w \in Seq(WireType), w # <<>>, NEW b,
         SessionInv(n, c, w, b), NEW v, v = Tail(w), NEW x, x = w[1], x.kind # "close",
         NEW m, m = [n EXCEPT !.auths = Append(@, x)]
  PROVE  Kept(n, m, c, v, b)
<1> USE DEF SessionInv
<1> DEFINE t == Append(n.auths, x)
           L == Len(n.auths)
<1>0. n.auths \in Seq(AuthType) /\ x \in WireType
  BY DEF NodeType
<1>1. x \in AuthType /\ x.at = "lock"
  BY <1>0 DEF AuthType, WireType, MessageType
<1>2. t \in Seq(AuthType)
  BY <1>0, <1>1
<1>3. m = [n EXCEPT !.auths = t]
  OBVIOUS
<1>4. /\ L \in Nat /\ DOMAIN n.auths = 1..L /\ DOMAIN t = 1..(L + 1) /\ Len(t) = L + 1
      /\ \A i \in 1..L : t[i] = n.auths[i]
      /\ t[L + 1] = x /\ t # <<>>
      /\ n.auths = <<>> <=> L = 0
  BY <1>0, <1>1
<1> HIDE DEF L, t
<1>5. /\ m \in NodeType /\ m.auths = t /\ m.mem = n.mem /\ m.stored = n.stored
      /\ m.closing = n.closing /\ m.activeBuyer = n.activeBuyer /\ SameWork(m, n)
  BY <1>2, <1>3 DEF NodeType, SameWork
<1>6. /\ Tracked(m) <=> Tracked(n)
      /\ IsActive(m) <=> IsActive(n)
      /\ \A whos : Awaited(m, whos) <=> Awaited(n, whos)
  BY <1>5 DEF Tracked, IsActive, Awaited
<1>7. /\ L # 0 => m.auths[1] = n.auths[1]
      /\ L = 0 => m.auths[1] = x
  BY <1>4, <1>5
<1>8. /\ \A at : HeadAt(m, at) => HeadAt(n, at) \/ at = "lock"
      /\ \A at : HeadAt(n, at) => HeadAt(m, at)
  BY <1>1, <1>4, <1>5, <1>7 DEF HeadAt
<1>9. \A at : HeadAt(m, at) /\ at # "lock" => m.auths[1] = n.auths[1]
  BY <1>1, <1>4, <1>5, <1>7 DEF HeadAt
<1>10. n.coop.ahead \in Nat /\ n.coop.ahead <= L
  BY NodeNumbers DEF Counted, L
<1>11. Counted(m)
  BY <1>4, <1>5, <1>10 DEF Counted, SameWork
<1>12. OnChain(m, c)
  BY <1>5, <1>6 DEF OnChain, SameWork
<1>13. Reserved(m, c) /\ Settlements(m, c)
  BY <1>5 DEF Reserved, Settlements
<1>14. Authorizations(m, c)
  BY <1>5, <1>6, <1>8, <1>9 DEF Authorizations, SameWork
<1>15. Exposure(m)
  BY <1>5, <1>6 DEF Exposure, SameWork
<1>16. Ordered(m, v, b)
  <2>1. m.auths = Append(n.auths, x) /\ n.coop.ahead <= Len(n.auths)
    BY <1>5, <1>10 DEF L, t
  <2>2. Ordered(n, w, b) /\ m \in NodeType /\ m.stored = n.stored /\ m.coop = n.coop
    BY <1>5 DEF SameWork
  <2> HIDE DEF SessionInv
  <2> QED BY <2>1, <2>2, QueuedOrdered
<1>17. Queued(m)
  <2>1. \A i \in DOMAIN m.auths : m.auths[i].at # "lock" => i = 1
    <3>1. \A i \in 1..L : n.auths[i].at # "lock" => i = 1
      BY <1>4 DEF Queued
    <3>2. \A i \in 1..(L + 1) : i \in 1..L \/ i = L + 1
      BY <1>4
    <3> QED BY <1>1, <1>4, <1>5, <3>1, <3>2
  <2>2. HeadAt(m, "recovery") => isAuth(m.auths[1]) /\ ~m.activeBuyer
    BY <1>5, <1>8, <1>9 DEF Queued, isAuth
  <2>3. Awaited(m, {"topUp"}) => HeadAt(m, "close")
    BY <1>6, <1>8 DEF Queued
  <2> QED BY <2>1, <2>2, <2>3 DEF Queued
<1>18. Waiting(m)
  BY <1>5, <1>6 DEF Waiting, Awaited, SameWork
<1>19. Granted(m, c)
  BY <1>5, <1>6, <1>8 DEF Granted, GrantedTo, Unbillable, SameWork
<1>20. SessionInv(m, c, v, b)
  BY <1>11, <1>12, <1>13, <1>14, <1>15, <1>16, <1>17, <1>18, <1>19
<1> QED BY <1>5, <1>20, NodeNumbers DEF Kept

LEMMA TailOrdered ==
  ASSUME NEW n, NEW w \in Seq(WireType), w # <<>>, NEW b, Ordered(n, w, b), NEW v, v = Tail(w)
  PROVE  Ordered(n, v, b)
<1> DEFINE K == Len(w)
<1>1. /\ K \in Nat \ {0} /\ DOMAIN w = 1..K /\ DOMAIN v = 1..(K - 1)
      /\ \A i \in 1..(K - 1) : i + 1 \in 1..K /\ v[i] = w[i + 1]
  BY TailMessages
<1> HIDE DEF K
<1>2. \A i, j \in DOMAIN v :
        i < j /\ v[i].kind # "reserve" /\ isAuth(v[j]) => v[i].amount <= v[j].amount
  <2>1. \A i, j \in 1..(K - 1) : i < j => i + 1 < j + 1
    BY <1>1
  <2>2. \A i, j \in 1..K :
          i < j /\ w[i].kind # "reserve" /\ isAuth(w[j]) => w[i].amount <= w[j].amount
    BY <1>1 DEF Ordered
  <2> QED BY <1>1, <2>1, <2>2
<1> QED BY <1>1, <1>2 DEF Ordered

LEMMA ReceiveCloseKeeps ==
  ASSUME NEW n \in NodeType, NEW c \in ChannelType, NEW w \in Seq(WireType), w # <<>>, NEW b,
         SessionInv(n, c, w, b), NEW v, v = Tail(w), NEW x, x = w[1], x.kind = "close",
         NEW m, m = receiveCloseRequest(n, x.amount)
  PROVE  Kept(n, m, c, v, b)
<1> DEFINE coop == [at |-> "auths", amount |-> x.amount, ahead |-> Len(n.auths)]
<1>0. n.auths \in Seq(AuthType) /\ x \in WireType /\ Len(n.auths) \in Nat /\ x.amount \in Nat
  <2>1. n.auths \in Seq(AuthType) /\ Len(n.auths) \in Nat
    BY DEF NodeType
  <2>2. x \in WireType
    OBVIOUS
  <2>3. x.amount \in Nat
    BY <2>2 DEF WireType, MessageType
  <2> QED BY <2>1, <2>2, <2>3
<1>1. Ordered(n, v, b)
  BY TailOrdered DEF SessionInv
<1>2. SessionInv(n, c, v, b)
  BY <1>1, WireKeeps
<1>3. m = n \/ (IsActive(n) /\ m = [n EXCEPT !.coop = coop])
  BY DEF receiveCloseRequest, IsActive
<1>4. CASE m = n
  BY <1>2, <1>4, KeptRefl
<1>5. CASE IsActive(n) /\ m = [n EXCEPT !.coop = coop]
  <2> USE DEF SessionInv
  <2>1. coop \in CoopType /\ coop.at = "auths" /\ coop.amount = x.amount /\ coop.ahead = Len(n.auths)
    BY <1>0 DEF CoopType
  <2> HIDE DEF coop
  <2>2. /\ m \in NodeType /\ m.auths = n.auths /\ m.mem = n.mem /\ m.stored = n.stored
        /\ m.closing = n.closing /\ m.activeBuyer = n.activeBuyer /\ m.coop = coop
        /\ m.checking = n.checking /\ SameRequests(m, n)
        /\ m.attempts = n.attempts /\ m.starting = n.starting
    BY <1>5, <2>1 DEF NodeType
  <2>3. /\ Tracked(m) <=> Tracked(n)
        /\ IsActive(m) <=> IsActive(n)
        /\ \A at : HeadAt(m, at) <=> HeadAt(n, at)
        /\ \A whos : Awaited(m, whos) <=> Awaited(n, whos)
    BY <2>2 DEF Tracked, IsActive, HeadAt, Awaited
  <2>4. Counted(m)
    BY <1>0, <2>1, <2>2 DEF Counted
  <2>5. OnChain(m, c)
    BY <1>5 DEF OnChain, IsActive
  <2>6. Reserved(m, c) /\ Settlements(m, c) /\ Authorizations(m, c)
    BY <2>2, <2>3 DEF Reserved, Settlements, Authorizations
  <2>7. Exposure(m)
    BY <2>2, <2>3 DEF Exposure
  <2>8. Ordered(m, v, b)
    <3> DEFINE K == Len(w)
    <3>1. /\ K \in Nat \ {0} /\ DOMAIN w = 1..K /\ DOMAIN v = 1..(K - 1) /\ 1 \in 1..K
          /\ \A i \in 1..(K - 1) : i + 1 \in 1..K /\ v[i] = w[i + 1]
      BY TailMessages
    <3> HIDE DEF K
    <3>2. \A i \in 1..(K - 1) : 1 < i + 1
      BY <3>1
    <3>3. \A i \in DOMAIN v : isAuth(v[i]) => coop.amount <= v[i].amount
      BY <2>1, <3>1, <3>2 DEF Ordered
    <3>4. coop.amount <= b.signed
      BY <2>1, <3>1 DEF Ordered
    <3>5. \A i \in DOMAIN n.auths : ~(i > coop.ahead)
      BY <1>0, <2>1
    <3> QED BY <1>1, <2>2, <3>3, <3>4, <3>5 DEF Ordered
  <2>9. Queued(m)
    BY <2>2, <2>3 DEF Queued
  <2>10. Waiting(m)
    BY <2>2, <2>3 DEF Waiting, Awaited
  <2>11. Granted(m, c)
    BY <2>2, <2>3 DEF Granted, GrantedTo, Unbillable
  <2>12. SessionInv(m, c, v, b)
    BY <2>4, <2>5, <2>6, <2>7, <2>8, <2>9, <2>10, <2>11
  <2> QED BY <2>2, <2>12, NodeNumbers DEF Kept
<1> QED BY <1>3, <1>4, <1>5

LEMMA ReceiveStepped ==
  ASSUME Inv, receive
  PROVE  Stepped
<1> DEFINE x == wire[1]
<1>1. /\ node \in NodeType /\ ch \in ChannelType /\ SessionInv(node, ch, wire, buyer)
      /\ WorldTyped /\ buyer \in BuyerType /\ wire \in Seq(WireType) /\ Len(wire) <= MaxWire
  BY DEF Inv, Typed, WorldTyped
<1>2. wire # <<>> /\ wire' = Tail(wire)
  BY DEF receive
<1>3. Head(wire) = x
  BY <1>1, <1>2
<1>4. /\ \/ x.kind = "close" /\ node' = receiveCloseRequest(node, x.amount)
         \/ x.kind # "close" /\ node' = [node EXCEPT !.auths = Append(@, x)]
      /\ UNCHANGED <<ch, txFailures>> /\ UNCHANGED <<connected, needAuth, closeEvent, buyer>>
  BY <1>3 DEF receive, chainVars
<1>5. wire' \in Seq(WireType) /\ Len(wire') <= MaxWire
  <2>1. Len(wire) \in Nat /\ MaxWire \in Nat /\ Len(wire') = Len(wire) - 1
    BY <1>1, <1>2, TailMessages, SessionAssumption
  <2> QED BY <1>1, <1>2, <2>1, TailMessages
<1> HIDE DEF x
<1>6. Kept(node, node', ch, wire', buyer)
  <2>0. x = wire[1]
    BY DEF x
  <2>1. CASE x.kind = "close" /\ node' = receiveCloseRequest(node, x.amount)
    BY <1>1, <1>2, <2>0, <2>1, ReceiveCloseKeeps
  <2>2. CASE x.kind # "close" /\ node' = [node EXCEPT !.auths = Append(@, x)]
    BY <1>1, <1>2, <2>0, <2>2, ReceiveAuthKeeps
  <2> QED BY <1>4, <2>1, <2>2
<1>7. WorldTyped'
  BY <1>1, <1>4 DEF WorldTyped
<1>8. Kept(node, node', ch', wire', buyer')
  BY <1>4, <1>6
<1> QED BY <1>1, <1>4, <1>5, <1>7, <1>8, KeptStepped

----------------------------------------------------------------------------
(* The restart: only the row is left of the node.                          *)

Idle(n) == n.inFlight = 0 /\ n.uncounted = 0 /\ n.waiting = <<>> /\ n.parked = <<>>

LEMMA RunningFields ==
  ASSUME NEW row \in RowType, NEW n, n = Running(row)
  PROVE  /\ n \in NodeType /\ n.mem = Forgotten /\ n.stored = row /\ n.activeBuyer = FALSE
         /\ n.auths = <<>> /\ n.closing = NoClose /\ n.coop = NoCloseRequest
         /\ n.checking = NotChecking /\ Idle(n)
         /\ n.attempts = 0 /\ n.starting = "done"
<1>1. NoCloseRequest \in CoopType
  BY DEF NoCloseRequest, CoopType
<1>2. 0 \in 0..TIMED_OUT_AUTH_CLOSE_ATTEMPTS
  BY SellerAssumption
<1>3. <<>> \in Seq(AuthType) /\ <<>> \in Seq(Nat) /\ <<>> \in Seq(ParkedType)
  OBVIOUS
<1> QED BY <1>1, <1>2, <1>3, ForgottenType, NoCloseType, NotCheckingType
        DEF Running, NodeType, Idle

(* A node that does nothing but hold its row and what it read of it. *)
AtRest(m) ==
  /\ m \in NodeType
  /\ m.auths = <<>> /\ m.closing = NoClose /\ m.coop = NoCloseRequest
  /\ m.checking = NotChecking /\ Idle(m)

(* m is n after a restart. *)
Restarted(n, m) ==
  /\ AtRest(m) /\ m.stored = n.stored
  /\ IsActive(n) => /\ m.mem.accepted = n.stored.authMax
                    /\ m.mem.spent = n.stored.tokensDelivered
                    /\ m.mem.latestAuth = IF n.stored.sig > 0 THEN n.stored.authMax ELSE 0
                    /\ m.mem.sig = IF n.stored.sig > 0 THEN n.stored.sig ELSE 0
                    /\ m.mem.reserveMax = n.stored.reserveMax
  /\ ~IsActive(n) => m.mem = Forgotten /\ ~m.activeBuyer /\ m.starting = "poller"

LEMMA RestartFields ==
  ASSUME NEW n \in NodeType
  PROVE  Restarted(n, IF n.stored.status = "active"
                      THEN [hydrate(Running(n.stored), TRUE) EXCEPT !.activeBuyer = TRUE,
                                                                    !.starting = "channels"]
                      ELSE [Running(n.stored) EXCEPT !.starting = "poller"])
<1> DEFINE m == IF n.stored.status = "active"
                THEN [hydrate(Running(n.stored), TRUE) EXCEPT !.activeBuyer = TRUE,
                                                              !.starting = "channels"]
                ELSE [Running(n.stored) EXCEPT !.starting = "poller"]
<1> SUFFICES Restarted(n, m)
  OBVIOUS
<1> DEFINE k == Running(n.stored)
<1>0. n.stored \in RowType
  BY DEF NodeType
<1>1. /\ k \in NodeType /\ k.mem = Forgotten /\ k.stored = n.stored /\ k.activeBuyer = FALSE
      /\ k.auths = <<>> /\ k.closing = NoClose /\ k.coop = NoCloseRequest
      /\ k.checking = NotChecking /\ Idle(k)
  BY <1>0, RunningFields, ZenonT(90)
<1>2. IsActive(n) => m = [hydrate(k, TRUE) EXCEPT !.activeBuyer = TRUE, !.starting = "channels"]
  BY DEF IsActive
<1>3. ~IsActive(n) => m = [k EXCEPT !.starting = "poller"]
  BY DEF IsActive
<1> HIDE DEF k, m
<1>4. CASE ~IsActive(n)
  <2>1. m = [k EXCEPT !.starting = "poller"]
    BY <1>3, <1>4
  <2>2. /\ AtRest(m) /\ m.stored = n.stored /\ m.mem = Forgotten /\ ~m.activeBuyer
        /\ m.starting = "poller"
    BY <1>1, <2>1 DEF NodeType, AtRest, Idle
  <2> QED BY <1>4, <2>2 DEF Restarted
<1>5. CASE IsActive(n)
  <2> DEFINE row == k.stored
             mem == [k.mem EXCEPT !.accepted = row.authMax,
                       !.spent = row.tokensDelivered,
                       !.latestAuth = IF row.sig > 0 THEN row.authMax ELSE @,
                       !.sig = IF row.sig > 0 THEN row.sig ELSE @,
                       !.reserveMax = IF row.reserveMax > 0 THEN row.reserveMax ELSE @,
                       !.hydrated = TRUE]
             h == [k EXCEPT !.mem = mem]
  <2>1. {row.authMax, row.tokensDelivered, row.sig, row.reserveMax} \subseteq Nat
    BY <1>1, NodeNumbers
  <2>2. h = hydrate(k, TRUE)
    BY <1>1, ZenonT(90) DEF hydrate, NodeType
  <2>3. /\ mem.accepted = row.authMax /\ mem.spent = row.tokensDelivered
        /\ mem.latestAuth = IF row.sig > 0 THEN row.authMax ELSE 0
        /\ mem.sig = IF row.sig > 0 THEN row.sig ELSE 0
        /\ mem.reserveMax = row.reserveMax
    BY <1>1, <2>1 DEF Forgotten
  <2>4. mem \in MemType
    <3>1. k.mem \in MemType
      BY <1>1 DEF NodeType
    <3> QED BY <2>1, <3>1 DEF MemType
  <2> HIDE DEF mem
  <2>5. m = [k EXCEPT !.mem = mem, !.activeBuyer = TRUE, !.starting = "channels"]
    <3>1. m = [h EXCEPT !.activeBuyer = TRUE, !.starting = "channels"]
      BY <1>2, <1>5, <2>2
    <3> QED BY <1>1, <3>1 DEF NodeType
  <2>6. AtRest(m) /\ m.stored = n.stored /\ m.mem = mem
    BY <1>1, <2>4, <2>5 DEF NodeType, AtRest, Idle
  <2> QED BY <1>1, <1>5, <2>3, <2>6 DEF Restarted
<1> QED BY <1>4, <1>5

LEMMA RestartKeeps ==
  ASSUME NEW n \in NodeType, NEW c \in ChannelType, NEW w, NEW b, SessionInv(n, c, w, b),
         NEW m, Restarted(n, m)
  PROVE  Kept(n, m, c, <<>>, b)
<1> USE DEF SessionInv
<1>1. /\ AtRest(m) /\ m.stored = n.stored
      /\ IsActive(n) => /\ m.mem.accepted = n.stored.authMax
                        /\ m.mem.spent = n.stored.tokensDelivered
                        /\ m.mem.latestAuth = IF n.stored.sig > 0 THEN n.stored.authMax ELSE 0
                        /\ m.mem.sig = IF n.stored.sig > 0 THEN n.stored.sig ELSE 0
                        /\ m.mem.reserveMax = n.stored.reserveMax
      /\ ~IsActive(n) => m.mem = Forgotten /\ ~m.activeBuyer /\ m.starting = "poller"
  BY DEF Restarted
<1>2. /\ {n.stored.authMax, n.stored.sig, n.stored.tokensDelivered, n.stored.reserveMax,
          c.settled, c.deposit} \subseteq Nat
  BY NodeNumbers DEF ChannelType
<1>3. /\ m \in NodeType /\ m.auths = <<>> /\ Idle(m)
      /\ m.closing = NoClose /\ m.closing.waiters = <<>> /\ m.closing.amount = Absent
      /\ m.coop.at = "none" /\ m.coop.ahead = 0 /\ m.checking.at = "none"
  BY <1>1, NotCheckingType DEF AtRest, NoClose, NoCloseRequest
<1>4. /\ IsActive(m) <=> IsActive(n)
      /\ Tracked(m) <=> IsActive(n)
      /\ \A at : ~HeadAt(m, at)
      /\ \A whos : ~Awaited(m, whos)
  <2>1. Tracked(m) <=> IsActive(n)
    BY <1>1, <1>2 DEF Tracked, Forgotten, Absent
  <2>2. (IsActive(m) <=> IsActive(n)) /\ \A at : ~HeadAt(m, at)
    BY <1>1, <1>3 DEF IsActive, HeadAt
  <2>3. \A whos : ~Awaited(m, whos)
    BY <1>3 DEF Awaited
  <2> QED BY <2>1, <2>2, <2>3
<1>5. ~IsActive(n) => m.mem.latestAuth = 0 /\ m.mem.reserveMax = 0 /\ m.mem.spent = Absent
  BY <1>1 DEF Forgotten
<1>6. Counted(m)
  BY <1>3, SellerAssumption DEF Counted, Idle
<1>7. OnChain(m, c)
  BY <1>1, <1>3, <1>4 DEF OnChain, IsActive
<1>8. Reserved(m, c)
  BY <1>1, <1>2, <1>5 DEF Reserved
<1>9. Settlements(m, c)
  BY <1>1 DEF Settlements
<1>10. Authorizations(m, c)
  <2>1. /\ n.stored.sig = n.stored.authMax \/ n.stored.authMax <= c.settled
        /\ c.settled <= n.stored.authMax
    BY DEF Authorizations
  <2>2. CASE IsActive(n)
    BY <1>1, <1>2, <1>3, <1>4, <2>1, <2>2 DEF Authorizations, Absent
  <2>3. CASE ~IsActive(n)
    <3>1. orZero(m.mem.spent) <= c.settled
      BY <1>2, <1>5, <2>3 DEF orZero
    <3> QED BY <1>1, <1>2, <1>3, <1>4, <1>5, <2>1, <2>3, <3>1 DEF Authorizations, Absent
  <2> QED BY <2>2, <2>3
<1>11. Exposure(m)
  <2>1. Load(MaxInFlight) \in Nat /\ Load(m.inFlight + m.uncounted) = 0
    BY <1>3, SellerAssumption, Loads DEF Idle, Load
  <2>2. IsActive(n) => n.stored.tokensDelivered <= n.stored.authMax + Load(MaxInFlight)
    BY DEF Exposure
  <2>3. DOMAIN m.parked = {}
    BY <1>3 DEF Idle
  <2> HIDE DEF SessionInv
  <2> QED BY <1>1, <1>2, <1>4, <2>1, <2>2, <2>3 DEF Exposure
<1>12. Ordered(m, <<>>, b)
  BY <1>1, <1>3 DEF Ordered
<1>13. Queued(m)
  BY <1>3, <1>4 DEF Queued
<1>14. Waiting(m)
  BY <1>3, <1>4 DEF Waiting
<1>15. Granted(m, c)
  BY <1>3 DEF Granted, GrantedTo
<1>16. SessionInv(m, c, <<>>, b)
  BY <1>6, <1>7, <1>8, <1>9, <1>10, <1>11, <1>12, <1>13, <1>14, <1>15
<1> QED BY <1>1, <1>2, <1>3, <1>16 DEF Kept

(* A transaction that had been submitted is mined, or none is. *)
LEMMA MinedAfter ==
  ASSUME Inv, submittedIsMined \/ UNCHANGED chainVars
  PROVE  After(ch, ch', node.stored.authMax) /\ txFailures' \in 0..MaxTxFailures
<1>1. /\ node \in NodeType /\ ch \in ChannelType /\ SessionInv(node, ch, wire, buyer)
      /\ WorldTyped /\ node.stored.authMax \in Nat
  BY NodeNumbers DEF Inv, Typed, WorldTyped
<1>2. ch.settled <= node.stored.authMax
  BY <1>1 DEF SessionInv, Authorizations
<1>3. CASE node.closing # NoClose /\ closeTx(node.closing.amount, node.closing.sig, "ok")
  <2>1. node.closing.amount \in Nat /\ node.closing.amount <= node.stored.authMax
    BY <1>1, <1>3, NodeNumbers DEF SessionInv, Authorizations, Waiting
  <2> QED BY <1>1, <1>2, <1>3, <2>1, CloseTxAfter
<1>4. CASE awaits("reserve") /\ reserveTx(auth.amount, "ok")
  <2>1. auth.amount \in Nat
    BY <1>4, AtHead DEF awaits
  <2>2. ch.status = "none" => ch.deposit = 0
    BY <1>1 DEF SessionInv, OnChain
  <2> QED BY <1>1, <1>2, <1>4, <2>1, <2>2, ReserveTxAfter
<1>5. CASE awaits("topUp") /\ topUpTx(auth.settle, auth.sig, auth.max, "ok")
  <2>1. node.auths # <<>> /\ auth.at = "topUp" /\ auth = node.auths[1] /\ auth \in AuthType
    BY <1>5, AtHead DEF awaits
  <2>2. {auth.settle, auth.max} \subseteq Nat
    BY <2>1 DEF AuthType, MessageType
  <2>3. auth.settle <= node.stored.authMax
    BY <1>1, <2>1 DEF SessionInv, Authorizations, HeadAt
  <2> QED BY <1>1, <1>2, <1>5, <2>2, <2>3, TopUpTxAfter
<1>6. CASE UNCHANGED chainVars
  BY <1>1, <1>2, <1>6, SameChain DEF chainVars, WorldTyped
<1> QED BY <1>3, <1>4, <1>5, <1>6 DEF submittedIsMined

LEMMA CrashStepped ==
  ASSUME Inv, crash
  PROVE  Stepped
<1>1. /\ node \in NodeType /\ ch \in ChannelType /\ SessionInv(node, ch, wire, buyer)
      /\ WorldTyped /\ buyer \in BuyerType
  BY DEF Inv, Typed, WorldTyped
<1>2. /\ submittedIsMined \/ UNCHANGED chainVars
      /\ wire' = <<>> /\ buyer' = buyer /\ connected' = FALSE /\ needAuth' = 0
      /\ closeEvent' = closeEvent
      /\ node' = IF node.stored.status = "active"
                 THEN [hydrate(Running(node.stored), TRUE) EXCEPT !.activeBuyer = TRUE,
                                                                  !.starting = "channels"]
                 ELSE [Running(node.stored) EXCEPT !.starting = "poller"]
  BY DEF crash, restart
<1>3. After(ch, ch', node.stored.authMax) /\ txFailures' \in 0..MaxTxFailures
  BY <1>2, MinedAfter
<1>4. ch' \in ChannelType /\ SessionInv(node, ch', wire, buyer)
  BY <1>1, <1>3, ChainKeeps DEF After
<1>5. Kept(node, node', ch', <<>>, buyer)
  <2>1. Restarted(node, node')
    BY <1>1, <1>2, RestartFields
  <2> QED BY <1>1, <1>4, <2>1, RestartKeeps
<1>6. WorldTyped'
  <2>1. closeEvent \in BOOLEAN /\ (closeEvent => ch.closeRequested)
    BY <1>1 DEF WorldTyped
  <2>2. closeEvent' => ch'.closeRequested
    BY <1>2, <1>3, <2>1 DEF After
  <2> QED BY <1>2, <1>3, <1>4, <2>1, <2>2 DEF WorldTyped
<1>7. wire' \in Seq(WireType) /\ Len(wire') <= MaxWire
  BY <1>2, SessionAssumption
<1>8. Kept(node, node', ch', wire', buyer')
  BY <1>2, <1>5
<1> QED BY <1>1, <1>2, <1>6, <1>7, <1>8, KeptStepped

LEMMA WorldStepped ==
  ASSUME Inv, WorldStep
  PROVE  Stepped
BY ConnectStepped, DisconnectStepped, ReceiveStepped, CrashStepped DEF WorldStep

----------------------------------------------------------------------------
(* The end of a close. Its waiters go on one after the other; the record   *)
(* of the close is read by none of them, so that the invariant is followed *)
(* on the node without it.                                                 *)

Closed(n) == [n EXCEPT !.closing = NoClose]

LEMMA ClosedFields ==
  ASSUME NEW n \in NodeType
  PROVE  /\ Closed(n) \in NodeType /\ Closed(n).closing = NoClose
         /\ Closed(n).mem = n.mem /\ Closed(n).stored = n.stored /\ Closed(n).auths = n.auths
         /\ Closed(n).activeBuyer = n.activeBuyer /\ SameWork(Closed(n), n)
         /\ ~GrantedTo(Closed(n), "coop") /\ \A whos : ~Awaited(Closed(n), whos)
<1> DEFINE k == Closed(n)
<1>1. /\ k \in NodeType /\ k.closing = NoClose
      /\ k.mem = n.mem /\ k.stored = n.stored /\ k.auths = n.auths
      /\ k.activeBuyer = n.activeBuyer /\ SameWork(k, n)
  BY NoCloseType DEF Closed, NodeType, SameWork
<1> HIDE DEF k
<1>2. ~GrantedTo(k, "coop") /\ \A whos : ~Awaited(k, whos)
  BY <1>1 DEF GrantedTo, Awaited, NoClose
<1> QED BY <1>1, <1>2 DEF k

LEMMA ClosedKeeps ==
  ASSUME NEW n \in NodeType, NEW c \in ChannelType, NEW w, NEW b, SessionInv(n, c, w, b)
  PROVE  SessionInv(Closed(n), c, w, b)
<1> DEFINE k == Closed(n)
<1>1. /\ k \in NodeType /\ k.closing = NoClose
      /\ k.mem = n.mem /\ k.stored = n.stored /\ k.auths = n.auths
      /\ k.activeBuyer = n.activeBuyer /\ SameWork(k, n)
      /\ ~GrantedTo(k, "coop") /\ \A whos : ~Awaited(k, whos)
  BY ClosedFields
<1> SUFFICES SessionInv(k, c, w, b)
  OBVIOUS
<1> HIDE DEF k
<1> USE DEF SessionInv
<1>2. Counted(k) /\ OnChain(k, c) /\ Reserved(k, c) /\ Settlements(k, c)
  BY <1>1 DEF Counted, OnChain, Reserved, Settlements, SameWork, Tracked
<1>3. Authorizations(k, c)
  <2>1. k.closing.amount <= k.stored.authMax
    BY <1>1, NodeNumbers DEF NoClose, Absent
  <2> QED BY <1>1, <2>1 DEF Authorizations, SameWork, Tracked, IsActive, HeadAt
<1>4. Exposure(k)
  BY <1>1 DEF Exposure, SameWork, Tracked, IsActive
<1>5. Ordered(k, w, b)
  BY <1>1 DEF Ordered, SameWork
<1>6. Queued(k)
  BY <1>1 DEF Queued, HeadAt
<1>7. Waiting(k)
  <2>1. k.closing.waiters = <<>>
    BY <1>1 DEF NoClose
  <2> QED BY <1>1, <2>1 DEF Waiting
<1>8. Granted(k, c)
  BY <1>1 DEF Granted, SameWork, Tracked, IsActive
<1> QED BY <1>2, <1>3, <1>4, <1>5, <1>6, <1>7, <1>8

(* What a waiter leaves to the next one. *)
Continued(n, m, c, w, b) ==
  /\ m \in NodeType /\ SessionInv(Closed(m), c, w, b)
  /\ m.closing = n.closing /\ SameAuths(m.auths, n.auths)
  /\ m.stored.authMax = n.stored.authMax
  /\ m.coop = n.coop /\ m.checking = n.checking /\ m.starting = n.starting

(* It drops the channel. *)
LEMMA ContinueForget ==
  ASSUME NEW n \in NodeType, NEW k \in NodeType, NEW c \in ChannelType, NEW w, NEW b,
         SessionInv(Closed(n), c, w, b), c.status # "none",
         k.closing = n.closing, SameWork(k, n), k.auths = n.auths,
         SameAmounts(k.stored, n.stored), ~IsActive(k), Settlements(k, c),
         NEW m, m = forgetChannel(k)
  PROVE  Continued(n, m, c, w, b) /\ m.attempts = n.attempts
<1>1. /\ m \in NodeType
      /\ m.mem = Forgotten /\ m.stored = k.stored /\ m.closing = k.closing /\ SameWork(m, k)
      /\ m.activeBuyer = FALSE /\ SameAuths(m.auths, k.auths)
  BY ForgetFields
<1> DEFINE x == Closed(n)
           y == Closed(m)
<1>2. /\ x \in NodeType /\ x.closing = NoClose
      /\ x.mem = n.mem /\ x.stored = n.stored /\ x.auths = n.auths
      /\ x.activeBuyer = n.activeBuyer /\ SameWork(x, n)
      /\ ~GrantedTo(x, "coop")
  BY ClosedFields
<1>3. /\ y \in NodeType /\ y.closing = NoClose
      /\ y.mem = m.mem /\ y.stored = m.stored /\ y.auths = m.auths
      /\ y.activeBuyer = m.activeBuyer /\ SameWork(y, m)
  BY <1>1, ClosedFields
<1>4. SessionInv(x, c, w, b)
  OBVIOUS
<1>5. SUFFICES SessionInv(y, c, w, b)
  BY <1>1 DEF Continued, SameAmounts, SameWork
<1> HIDE DEF x, y
<1>6. /\ y.mem = Forgotten /\ y.closing = x.closing /\ SameWork(y, x) /\ y.activeBuyer = FALSE
      /\ SameAuths(y.auths, x.auths) /\ ~IsActive(y) /\ Settlements(y, c)
      /\ y.stored.authMax = x.stored.authMax /\ y.stored.sig = x.stored.sig
      /\ y.stored.reserveMax = x.stored.reserveMax
      /\ y.stored.tokensDelivered = x.stored.tokensDelivered
  BY <1>1, <1>2, <1>3 DEF SameWork, SameAmounts, IsActive, Settlements
<1> QED BY <1>2, <1>3, <1>4, <1>6, ForgetKeeps

(* It writes the row and leaves the memory alone. *)
LEMMA ContinueRow ==
  ASSUME NEW n \in NodeType, NEW m \in NodeType, NEW c \in ChannelType, NEW w, NEW b,
         SessionInv(Closed(n), c, w, b), c.status # "none",
         SameMoney(m.mem, n.mem), m.closing = n.closing, m.auths = n.auths,
         m.activeBuyer = n.activeBuyer, m.coop = n.coop, SameRequests(m, n),
         m.checking = n.checking, m.starting = n.starting,
         SameAmounts(m.stored, n.stored), ~IsActive(m), Settlements(m, c),
         n.checking.at # "active"
  PROVE  Continued(n, m, c, w, b)
<1> DEFINE x == Closed(n)
           y == Closed(m)
<1>2. /\ x \in NodeType /\ x.closing = NoClose
      /\ x.mem = n.mem /\ x.stored = n.stored /\ x.auths = n.auths
      /\ x.activeBuyer = n.activeBuyer /\ SameWork(x, n)
      /\ ~Awaited(x, {"timedOutAuth"})
  BY ClosedFields
<1>3. /\ y \in NodeType /\ y.closing = NoClose
      /\ y.mem = m.mem /\ y.stored = m.stored /\ y.auths = m.auths
      /\ y.activeBuyer = m.activeBuyer /\ SameWork(y, m)
  BY ClosedFields
<1>4. SessionInv(x, c, w, b)
  OBVIOUS
<1>5. SUFFICES SessionInv(y, c, w, b)
  BY SameAuthsRefl DEF Continued, SameAmounts
<1> HIDE DEF x, y
<1>6. /\ SameMoney(y.mem, x.mem) /\ SameAmounts(y.stored, x.stored) /\ ~IsActive(y)
      /\ Settlements(y, c) /\ y.closing = x.closing /\ SameAuths(y.auths, x.auths)
      /\ y.activeBuyer = x.activeBuyer /\ y.coop = x.coop /\ SameRequests(y, x)
      /\ MayCheck(x, c, y.checking) /\ y.checking.at # "active"
  BY <1>2, <1>3, SameAuthsRefl DEF SameWork, IsActive, Settlements, MayCheck
<1> QED BY <1>2, <1>3, <1>4, <1>6, RowKeeps

(* It touches neither the row nor an amount. *)
LEMMA ContinueFrame ==
  ASSUME NEW n \in NodeType, NEW m \in NodeType, NEW c \in ChannelType, NEW w, NEW b,
         SessionInv(Closed(n), c, w, b),
         SameMoney(m.mem, n.mem), m.closing = n.closing, SameAuths(m.auths, n.auths),
         m.activeBuyer => n.activeBuyer, SameWork(m, n), m.stored = n.stored
  PROVE  Continued(n, m, c, w, b) /\ m.attempts = n.attempts
<1> DEFINE x == Closed(n)
           y == Closed(m)
<1>2. /\ x \in NodeType /\ x.closing = NoClose
      /\ x.mem = n.mem /\ x.stored = n.stored /\ x.auths = n.auths
      /\ x.activeBuyer = n.activeBuyer /\ SameWork(x, n)
  BY ClosedFields
<1>3. /\ y \in NodeType /\ y.closing = NoClose
      /\ y.mem = m.mem /\ y.stored = m.stored /\ y.auths = m.auths
      /\ y.activeBuyer = m.activeBuyer /\ SameWork(y, m)
  BY ClosedFields
<1>4. SessionInv(x, c, w, b)
  OBVIOUS
<1>5. SUFFICES SessionInv(y, c, w, b)
  BY DEF Continued, SameWork
<1> HIDE DEF x, y
<1>6. /\ SameMoney(y.mem, x.mem) /\ SameRow(y.stored, x.stored)
      /\ y.closing = x.closing /\ SameAuths(y.auths, x.auths)
      /\ y.activeBuyer => x.activeBuyer
      /\ SameWork(y, x)
  BY <1>2, <1>3, SameMoneyRow DEF SameWork
<1> QED BY <1>2, <1>3, <1>4, <1>6, FrameKeeps DEF SameWork, MayCheck, MayRequestClose

(* What a waiter may rely on. *)
MayContinue(n, x) ==
  /\ x \in WaiterType
  /\ x.who \in Checkers => n.checking.at = "close"
  /\ x.who \in Zombies => x.retries < MAX_CLOSE_RETRIES
  /\ x.who = "timedOutAuth" => n.attempts < TIMED_OUT_AUTH_CLOSE_ATTEMPTS

LEMMA AfterClosedKeeps ==
  ASSUME NEW n \in NodeType, NEW c \in ChannelType, NEW w, NEW b,
         SessionInv(Closed(n), c, w, b), c.status # "none", NEW x, MayContinue(n, x),
         NEW amount \in Nat, Ended(c), c.settled = amount,
         NEW m, m = afterClosed(n, x, amount)
  PROVE  Continued(n, m, c, w, b) /\ (m.attempts = n.attempts \/ x.who \in TimedOut)
<1>1. /\ x.who \in Settlers \cup Zombies \cup TimedOut \cup Requested
      /\ x.who \in Checkers => n.checking.at = "close"
      /\ TimedOut \cap (Settlers \cup Requested \cup Zombies) = {}
      /\ Zombies \cap (Settlers \cup Requested) = {} /\ TimedOut \subseteq Checkers
  BY DEF MayContinue, WaiterType, Settlers, Zombies, TimedOut, Requested, Checkers
<1>2. Settlements(n, c)
  BY ClosedFields DEF SessionInv, Settlements
<1> DEFINE k == recordSettlement(n, "settled", amount)
           l == updateChannelStatus(n, "settled")
<1>3. /\ k \in NodeType
      /\ k.mem = n.mem /\ k.closing = n.closing /\ SameWork(k, n)
      /\ k.activeBuyer = n.activeBuyer /\ k.auths = n.auths
      /\ SameAmounts(k.stored, n.stored)
      /\ k.stored.status = "settled" /\ k.stored.recorded = amount /\ k.stored.settledAt
  BY RecordFields
<1>4. /\ l \in NodeType
      /\ l.mem = n.mem /\ l.closing = n.closing /\ SameWork(l, n)
      /\ l.activeBuyer = n.activeBuyer /\ l.auths = n.auths
      /\ SameAmounts(l.stored, n.stored)
      /\ l.stored.status = "settled" /\ SameRecord(l.stored, n.stored)
  BY StatusFields
<1>5. /\ x.who \in Settlers \cup Requested => m = forgetChannel(k)
      /\ x.who \in Zombies => m = forgetChannel(l)
      /\ x.who \in TimedOut => m = [k EXCEPT !.attempts = 0]
  BY <1>1 DEF afterClosed, evictStaleChannel
<1> HIDE DEF k, l
<1>6. ~IsActive(k) /\ Settlements(k, c) /\ ~IsActive(l) /\ Settlements(l, c)
  BY <1>2, <1>3, <1>4 DEF IsActive, Settlements
<1>7. CASE x.who \in Settlers \cup Requested
  BY <1>3, <1>5, <1>6, <1>7, ContinueForget
<1>8. CASE x.who \in Zombies
  BY <1>4, <1>5, <1>6, <1>8, ContinueForget
<1>9. CASE x.who \in TimedOut
  <2>0. 0 \in 0..TIMED_OUT_AUTH_CLOSE_ATTEMPTS
    BY SellerAssumption
  <2>1. /\ m \in NodeType /\ m.mem = k.mem /\ m.stored = k.stored /\ m.closing = k.closing
        /\ m.auths = k.auths /\ m.activeBuyer = k.activeBuyer /\ m.coop = k.coop
        /\ SameRequests(m, k) /\ m.checking = k.checking
        /\ m.starting = k.starting
    <3>1. k \in NodeType /\ m = [k EXCEPT !.attempts = 0]
      BY <1>3, <1>5, <1>9
    <3> QED BY <2>0, <3>1 DEF NodeType
  <2>2. n.checking.at # "active"
    BY <1>1, <1>9
  <2>3. /\ SameMoney(m.mem, n.mem) /\ m.closing = n.closing /\ m.auths = n.auths
        /\ m.activeBuyer = n.activeBuyer /\ m.coop = n.coop /\ SameRequests(m, n)
        /\ m.checking = n.checking /\ m.starting = n.starting
        /\ SameAmounts(m.stored, n.stored) /\ ~IsActive(m) /\ Settlements(m, c)
    BY <1>3, <1>6, <2>1, SameMoneyRow DEF SameWork, IsActive, Settlements
  <2> QED BY <1>9, <2>1, <2>2, <2>3, ContinueRow
<1> QED BY <1>1, <1>7, <1>8, <1>9

(* The count of failed closes is not part of the invariant. *)
LEMMA FailedFields ==
  ASSUME NEW n \in NodeType, NEW x \in WaiterType, x.retries < MAX_CLOSE_RETRIES,
         NEW m, m = [n EXCEPT !.mem.retries = x.retries + 1]
  PROVE  /\ m \in NodeType /\ SameMoney(m.mem, n.mem) /\ m.stored = n.stored
         /\ m.closing = n.closing /\ m.auths = n.auths /\ m.activeBuyer = n.activeBuyer
         /\ SameWork(m, n)
<1> DEFINE mem == [n.mem EXCEPT !.retries = x.retries + 1]
<1>1. n.mem \in MemType /\ x.retries + 1 \in 0..MAX_CLOSE_RETRIES
  BY SellerAssumption DEF NodeType, WaiterType
<1>2. mem \in MemType /\ SameMoney(mem, n.mem)
  BY <1>1 DEF MemType, SameMoney
<1>3. m = [n EXCEPT !.mem = mem]
  BY DEF NodeType
<1> HIDE DEF mem
<1> QED BY <1>2, <1>3 DEF NodeType, SameWork

LEMMA CleanupKeeps ==
  ASSUME NEW n \in NodeType, NEW k \in NodeType, NEW c \in ChannelType, NEW w, NEW b,
         SessionInv(Closed(n), c, w, b), NEW x,
         SameMoney(k.mem, n.mem), k.stored = n.stored, k.closing = n.closing,
         k.auths = n.auths, k.activeBuyer = n.activeBuyer, SameWork(k, n),
         NEW m, m = cleanup(k, x)
  PROVE  Continued(n, m, c, w, b) /\ m.attempts = n.attempts
<1>1. /\ m \in NodeType /\ m.mem = k.mem /\ m.stored = k.stored /\ m.closing = k.closing
      /\ SameWork(m, k) /\ SameAuths(m.auths, k.auths) /\ (m.activeBuyer => k.activeBuyer)
  <2>1. CASE m = k
    BY <2>1, SameAuthsRefl DEF SameWork
  <2>2. CASE m = deactivateBuyerForChannel(k)
    <3>1. /\ m \in NodeType
          /\ m.mem = k.mem /\ m.stored = k.stored /\ m.closing = k.closing /\ SameWork(m, k)
          /\ m.activeBuyer = FALSE
          /\ SameAuths(m.auths, k.auths)
      BY <2>2, DeactivateFields
    <3> QED BY <3>1
  <2> QED BY <2>1, <2>2 DEF cleanup
<1>2. SameWork(m, n)
  BY <1>1 DEF SameWork
<1> QED BY <1>1, <1>2, ContinueFrame

LEMMA AfterCloseFailedKeeps ==
  ASSUME NEW n \in NodeType, NEW c \in ChannelType, NEW w, NEW b,
         SessionInv(Closed(n), c, w, b), c.status # "none", NEW x, MayContinue(n, x),
         NEW isRetryable \in BOOLEAN,
         NEW m, m = afterCloseFailed(n, x, isRetryable)
  PROVE  Continued(n, m, c, w, b) /\ (m.attempts = n.attempts \/ x.who \in TimedOut)
<1>1. /\ x.who \in Settlers \cup Zombies \cup TimedOut \cup Requested
      /\ x.who \in Checkers => n.checking.at = "close"
      /\ TimedOut \cap (Settlers \cup Requested \cup Zombies) = {}
      /\ Zombies \cap (Settlers \cup Requested) = {} /\ TimedOut \subseteq Checkers
      /\ Settlers \cap Requested = {}
      /\ x \in WaiterType /\ x.retries \in Nat /\ MAX_CLOSE_RETRIES \in Nat
      /\ x.who \in Zombies => x.retries < MAX_CLOSE_RETRIES
      /\ x.who = "timedOutAuth" => n.attempts < TIMED_OUT_AUTH_CLOSE_ATTEMPTS
  BY SellerAssumption
     DEF MayContinue, WaiterType, Settlers, Zombies, TimedOut, Requested, Checkers
<1>2. Settlements(n, c)
  BY ClosedFields DEF SessionInv, Settlements
<1>3. SameMoney(n.mem, n.mem) /\ SameAuths(n.auths, n.auths) /\ SameWork(n, n)
  BY SameMoneyRow, SameAuthsRefl DEF SameWork
<1> DEFINE failed == [n EXCEPT !.mem.retries = x.retries + 1]
           tried == IF x.who = "timedOutAuth" /\ ~isRetryable
                    THEN [n EXCEPT !.attempts = n.attempts + 1] ELSE n
           l == updateChannelStatus(n, "timeout")
<1>4. x.retries < MAX_CLOSE_RETRIES =>
        /\ failed \in NodeType /\ SameMoney(failed.mem, n.mem) /\ failed.stored = n.stored
        /\ failed.closing = n.closing /\ failed.auths = n.auths
        /\ failed.activeBuyer = n.activeBuyer /\ SameWork(failed, n)
  BY <1>1, FailedFields, ZenonT(90)
<1>5. x.who \in TimedOut =>
        /\ tried \in NodeType /\ tried.mem = n.mem /\ tried.stored = n.stored
        /\ tried.closing = n.closing /\ tried.auths = n.auths
        /\ tried.activeBuyer = n.activeBuyer /\ tried.coop = n.coop
        /\ SameRequests(tried, n)
        /\ tried.checking = n.checking /\ tried.starting = n.starting
  <2>1. CASE tried = n
    BY <2>1
  <2>2. CASE x.who = "timedOutAuth" /\ tried = [n EXCEPT !.attempts = n.attempts + 1]
    <3>1. n.attempts + 1 \in 0..TIMED_OUT_AUTH_CLOSE_ATTEMPTS
      BY <1>1, <2>2, SellerAssumption DEF NodeType
    <3> HIDE DEF tried
    <3> QED BY <2>2, <3>1 DEF NodeType
  <2> QED BY <2>1, <2>2
<1>6. /\ x.who \in Settlers /\ isRetryable => m = cleanup(n, x)
      /\ x.who \in Settlers /\ ~isRetryable /\ x.retries + 1 < MAX_CLOSE_RETRIES =>
           m = cleanup(failed, x)
      /\ x.who \in Settlers /\ ~isRetryable /\ ~(x.retries + 1 < MAX_CLOSE_RETRIES) =>
           m = forgetChannel(l)
      /\ x.who \in Zombies => m = n \/ m = failed
      /\ x.who \in TimedOut => m = updateChannelStatus(tried, "timeout")
      /\ x.who \in Requested => m = n
  BY <1>1 DEF afterCloseFailed
<1> HIDE DEF failed, tried
<1>7. CASE x.who \in Settlers /\ isRetryable
  <2>1. m = cleanup(n, x)
    BY <1>6, <1>7
  <2> QED BY <1>3, <2>1, CleanupKeeps
<1>8. CASE x.who \in Settlers /\ ~isRetryable /\ x.retries + 1 < MAX_CLOSE_RETRIES
  <2>1. x.retries < MAX_CLOSE_RETRIES
    BY <1>1, <1>8
  <2> QED BY <1>4, <1>6, <1>8, <2>1, CleanupKeeps
<1>9. CASE x.who \in Settlers /\ ~isRetryable /\ ~(x.retries + 1 < MAX_CLOSE_RETRIES)
  <2>1. /\ l \in NodeType
        /\ l.mem = n.mem /\ l.closing = n.closing /\ SameWork(l, n)
        /\ l.activeBuyer = n.activeBuyer /\ l.auths = n.auths
        /\ SameAmounts(l.stored, n.stored)
        /\ l.stored.status = "timeout" /\ SameRecord(l.stored, n.stored)
    BY StatusFields
  <2> HIDE DEF l
  <2>2. ~IsActive(l) /\ Settlements(l, c)
    BY <1>2, <2>1 DEF IsActive, Settlements
  <2> QED BY <1>6, <1>9, <2>1, <2>2, ContinueForget
<1>10. CASE x.who \in Zombies
  <2>1. CASE m = n
    BY <1>3, <2>1, ContinueFrame
  <2>2. CASE m = failed
    BY <1>1, <1>4, <1>10, <2>2, <1>3, ContinueFrame
  <2> QED BY <1>6, <1>10, <2>1, <2>2
<1>11. CASE x.who \in TimedOut
  <2>1. /\ m \in NodeType
        /\ m.mem = tried.mem /\ m.closing = tried.closing /\ SameWork(m, tried)
        /\ m.activeBuyer = tried.activeBuyer /\ m.auths = tried.auths
        /\ SameAmounts(m.stored, tried.stored)
        /\ m.stored.status = "timeout" /\ SameRecord(m.stored, tried.stored)
    BY <1>5, <1>6, <1>11, StatusFields
  <2>2. n.checking.at # "active"
    BY <1>1, <1>11
  <2>3. /\ SameMoney(m.mem, n.mem) /\ m.closing = n.closing /\ m.auths = n.auths
        /\ m.activeBuyer = n.activeBuyer /\ m.coop = n.coop /\ SameRequests(m, n)
        /\ m.checking = n.checking /\ m.starting = n.starting
        /\ SameAmounts(m.stored, n.stored) /\ ~IsActive(m) /\ Settlements(m, c)
    BY <1>2, <1>5, <1>11, <2>1, SameMoneyRow DEF SameWork, IsActive, Settlements
  <2> QED BY <1>11, <2>1, <2>2, <2>3, ContinueRow
<1>12. CASE x.who \in Requested
  <2>1. m = n
    BY <1>6, <1>12
  <2> QED BY <1>3, <2>1, ContinueFrame
<1> QED BY <1>1, <1>7, <1>8, <1>9, <1>10, <1>11, <1>12

(* The waiters one after the other: the equation that continueWaiters solves. *)
ContinueOne(n, x, amount, r) ==
  IF r = "ok" THEN afterClosed(n, x, amount) ELSE afterCloseFailed(n, x, r = "retryable")

IsContinuation(s, n, c, r, k) ==
  s = [i \in 0..k |-> IF i = 0 THEN n ELSE ContinueOne(s[i - 1], c.waiters[i], c.amount, r)]

LEMMA ContinuationExists ==
  ASSUME NEW n, NEW c, NEW r, NEW k \in Nat
  PROVE  \E s : IsContinuation(s, n, c, r, k)
<1> DEFINE T == {j \in Nat : ~ \E s : IsContinuation(s, n, c, r, j)}
<1>1. SUFFICES ASSUME T # {} PROVE FALSE
  OBVIOUS
<1>2. PICK m \in T : \A j \in T : m <= j
  BY <1>1, LeastNumber
<1>3. m # 0
  <2>1. IsContinuation([i \in 0..0 |-> n], n, c, r, 0)
    BY DEF IsContinuation
  <2> QED BY <1>2, <2>1
<1>4. m - 1 \in Nat /\ m - 1 \notin T
  BY <1>2, <1>3
<1>5. PICK s : IsContinuation(s, n, c, r, m - 1)
  BY <1>4
<1> DEFINE t == [i \in 0..m |->
                   IF i = m THEN ContinueOne(s[m - 1], c.waiters[m], c.amount, r) ELSE s[i]]
<1>6. IsContinuation(t, n, c, r, m)
  <2>1. \A i \in 0..(m - 1) :
          s[i] = IF i = 0 THEN n ELSE ContinueOne(s[i - 1], c.waiters[i], c.amount, r)
    BY <1>5 DEF IsContinuation
  <2>2. \A i \in 0..m :
          t[i] = IF i = 0 THEN n ELSE ContinueOne(t[i - 1], c.waiters[i], c.amount, r)
    BY <1>2, <1>3, <2>1
  <2>3. t = [i \in 0..m |-> t[i]]
    OBVIOUS
  <2>4. t = [i \in 0..m |->
               IF i = 0 THEN n ELSE ContinueOne(t[i - 1], c.waiters[i], c.amount, r)]
    BY <2>2, <2>3
  <2> QED BY <2>4 DEF IsContinuation
<1> QED BY <1>2, <1>6

LEMMA ContinueWaitersDef ==
  ASSUME NEW n, NEW c, NEW r, Len(c.waiters) \in Nat
  PROVE  \E s : /\ s[0] = n /\ continueWaiters(n, c, r) = s[Len(c.waiters)]
                /\ \A i \in 1..Len(c.waiters) :
                     s[i] = ContinueOne(s[i - 1], c.waiters[i], c.amount, r)
<1> DEFINE k == Len(c.waiters)
           s == CHOOSE x : IsContinuation(x, n, c, r, k)
<1>1. continueWaiters(n, c, r) = s[k]
  BY DEF continueWaiters, IsContinuation, ContinueOne
<1>2. IsContinuation(s, n, c, r, k)
  BY ContinuationExists
<1> HIDE DEF s
<1>3. \A i \in 0..k :
        s[i] = IF i = 0 THEN n ELSE ContinueOne(s[i - 1], c.waiters[i], c.amount, r)
  BY <1>2 DEF IsContinuation
<1>4. s[0] = n /\ \A i \in 1..k : s[i] = ContinueOne(s[i - 1], c.waiters[i], c.amount, r)
  BY <1>3
<1> QED BY <1>1, <1>4

LEMMA SameAuthsTrans ==
  ASSUME NEW s, NEW t, NEW u, SameAuths(s, t), SameAuths(t, u)
  PROVE  SameAuths(s, u)
BY DEF SameAuths, SameMessages

LEMMA ContinuedTrans ==
  ASSUME NEW n, NEW k, NEW m, NEW c, NEW w, NEW b,
         Continued(n, k, c, w, b), Continued(k, m, c, w, b)
  PROVE  Continued(n, m, c, w, b)
BY SameAuthsTrans DEF Continued

(* All waiters of a close continue. *)
LEMMA ContinueWaitersKeeps ==
  ASSUME NEW n \in NodeType, NEW c \in ChannelType, NEW w, NEW b, SessionInv(n, c, w, b),
         n.closing # NoClose, NEW r, r = "ok" => Ended(c) /\ c.settled = n.closing.amount,
         NEW m, m = continueWaiters(n, n.closing, r)
  PROVE  Continued(n, m, c, w, b)
<1> DEFINE ws == n.closing.waiters
           L == Len(ws)
<1>1. /\ ws \in Seq(WaiterType) /\ L \in Nat /\ DOMAIN ws = 1..L
      /\ \A i \in 1..L : ws[i] \in WaiterType
  <2>1. n.closing \in ClosingType
    BY DEF NodeType
  <2>2. ws \in Seq(WaiterType)
    BY <2>1 DEF ClosingType
  <2> HIDE DEF ws
  <2> QED BY <2>2
<1>2. /\ \A i \in 1..L : ws[i].who \in Zombies => ws[i].retries < MAX_CLOSE_RETRIES
      /\ \A i, j \in 1..L : ws[i].who \in Checkers /\ ws[j].who \in Checkers => i = j
      /\ \A i \in 1..L : ws[i].who \in Checkers => n.checking.at = "close"
      /\ \A i \in 1..L : ws[i].who = "timedOutAuth" => n.attempts < TIMED_OUT_AUTH_CLOSE_ATTEMPTS
      /\ n.closing.amount \in Nat
  <2>1. n.closing.amount \in Nat
    BY NodeNumbers DEF SessionInv, Waiting
  <2> QED BY <1>1, <2>1 DEF SessionInv, Waiting, Awaited
<1>3. c.status # "none"
  BY DEF SessionInv, OnChain
<1>4. PICK s : /\ s[0] = n /\ m = s[L]
               /\ \A i \in 1..L : s[i] = ContinueOne(s[i - 1], ws[i], n.closing.amount, r)
  <2>1. Len(n.closing.waiters) \in Nat
    BY <1>1
  <2>2. \E s : /\ s[0] = n
               /\ continueWaiters(n, n.closing, r) = s[Len(n.closing.waiters)]
               /\ \A i \in 1..Len(n.closing.waiters) :
                    s[i] = ContinueOne(s[i - 1], n.closing.waiters[i], n.closing.amount, r)
    BY <2>1, ContinueWaitersDef
  <2> QED BY <2>2
<1> DEFINE may(i, k) == \A j \in 1..L : j > i /\ ws[j].who = "timedOutAuth"
                                          => k.attempts < TIMED_OUT_AUTH_CLOSE_ATTEMPTS
           P(i) == Continued(n, s[i], c, w, b) /\ may(i, s[i])
<1>5. P(0)
  <2>1. Continued(n, n, c, w, b)
    BY ClosedKeeps, SameAuthsRefl DEF Continued
  <2> QED BY <1>2, <1>4, <2>1
<1>6. ASSUME NEW i \in 1..L, P(i - 1)
      PROVE  P(i)
  <2> DEFINE k == s[i - 1]
             x == ws[i]
             l == s[i]
  <2>1. /\ Continued(n, k, c, w, b) /\ may(i - 1, k)
        /\ l = ContinueOne(k, x, n.closing.amount, r)
    BY <1>4, <1>6
  <2>2. k \in NodeType /\ SessionInv(Closed(k), c, w, b) /\ k.checking = n.checking
    BY <2>1 DEF Continued
  <2>3. x.who = "timedOutAuth" => k.attempts < TIMED_OUT_AUTH_CLOSE_ATTEMPTS
    BY <2>1
  <2>4. MayContinue(k, x)
    BY <1>1, <1>2, <2>2, <2>3 DEF MayContinue
  <2> HIDE DEF k, x, l
  <2>5. Continued(k, l, c, w, b) /\ (l.attempts = k.attempts \/ x.who \in TimedOut)
    <3>1. CASE r = "ok"
      <4>1. l = afterClosed(k, x, n.closing.amount) /\ Ended(c) /\ c.settled = n.closing.amount
        BY <2>1, <3>1 DEF ContinueOne
      <4> QED BY <1>2, <1>3, <2>2, <2>4, <4>1, AfterClosedKeeps
    <3>2. CASE r # "ok"
      <4>1. l = afterCloseFailed(k, x, r = "retryable") /\ (r = "retryable") \in BOOLEAN
        BY <2>1, <3>2 DEF ContinueOne
      <4> DEFINE isRetryable == r = "retryable"
      <4>2. l = afterCloseFailed(k, x, isRetryable) /\ isRetryable \in BOOLEAN
        BY <4>1
      <4> HIDE DEF isRetryable
      <4> QED BY <1>3, <2>2, <2>4, <4>2, AfterCloseFailedKeeps
    <3> QED BY <3>1, <3>2
  <2>6. Continued(n, l, c, w, b)
    BY <2>1, <2>5, ContinuedTrans
  <2>7. may(i, l)
    <3> SUFFICES ASSUME NEW j \in 1..L, j > i, ws[j].who = "timedOutAuth"
                 PROVE  l.attempts < TIMED_OUT_AUTH_CLOSE_ATTEMPTS
      OBVIOUS
    <3>1. ws[j].who \in Checkers /\ TimedOut \subseteq Checkers
      BY DEF Checkers, TimedOut
    <3>2. x.who \notin TimedOut
      BY <1>2, <3>1 DEF x
    <3>3. k.attempts < TIMED_OUT_AUTH_CLOSE_ATTEMPTS
      BY <2>1
    <3> QED BY <2>5, <3>2, <3>3
  <2> QED BY <2>6, <2>7 DEF l
<1> DEFINE T == {i \in Nat : i <= L /\ ~P(i)}
<1>7. T = {}
  <2> SUFFICES ASSUME T # {} PROVE FALSE
    OBVIOUS
  <2>1. PICK i \in T : \A j \in T : i <= j
    BY LeastNumber
  <2>2. i # 0
    BY <1>5, <2>1
  <2>3. i \in 1..L /\ i - 1 \in Nat /\ i - 1 <= L
    BY <1>1, <2>1, <2>2
  <2>4. i - 1 \notin T
    BY <2>1, <2>3
  <2>5. P(i - 1)
    BY <2>3, <2>4
  <2>6. P(i)
    BY <1>6, <2>3, <2>5
  <2> QED BY <2>1, <2>6
<1>8. P(L)
  BY <1>1, <1>7
<1> QED BY <1>4, <1>8

(* The callers go on: none of what they had under way is left. *)
LEMMA ReleaseKeeps ==
  ASSUME NEW n \in NodeType, NEW c \in ChannelType, NEW w, NEW b,
         SessionInv(Closed(n), c, w, b), NEW ws,
         isAmong({"topUp"}, ws) => n.auths # <<>>,
         NEW m, m = releaseWaiters(n, ws)
  PROVE  m \in NodeType /\ SessionInv(m, c, w, b) /\ m.stored.authMax = n.stored.authMax
<1> DEFINE idleClose == IF isAmong({"whenIdle", "blocked"}, ws) THEN "none" ELSE n.idleClose
           checking == IF isAmong({"checkTimeouts", "zombie"} \cup TimedOut, ws)
                       THEN NotChecking ELSE n.checking
           coop == IF isAmong({"coop"}, ws) THEN NoCloseRequest ELSE n.coop
           starting == IF isAmong({"startup"}, ws) THEN "poller" ELSE n.starting
           k == [n EXCEPT !.closing = NoClose, !.idleClose = idleClose,
                          !.checking = checking, !.coop = coop, !.starting = starting]
<1>1. m = IF isAmong({"topUp"}, ws) THEN dequeue(k) ELSE k
  BY DEF releaseWaiters
<1>2. /\ idleClose \in {"none", "draining", "closing"}
      /\ checking \in CheckingType /\ (checking = n.checking \/ checking.at = "none")
      /\ coop \in CoopType /\ (coop = n.coop \/ (coop.at = "none" /\ coop.ahead = 0))
      /\ starting \in {"done", "channels", "poller"}
      /\ starting = n.starting \/ starting # "channels"
  <2>1. /\ NoCloseRequest \in CoopType /\ NoCloseRequest.at = "none"
        /\ NoCloseRequest.ahead = 0
    BY DEF NoCloseRequest, CoopType
  <2>2. /\ n.idleClose \in {"none", "draining", "closing"} /\ n.checking \in CheckingType
        /\ n.coop \in CoopType /\ n.starting \in {"done", "channels", "poller"}
    BY DEF NodeType
  <2> QED BY <2>1, <2>2, NotCheckingType
<1> HIDE DEF idleClose, checking, coop, starting
<1>3. /\ k \in NodeType /\ k.closing = NoClose /\ k.checking = checking /\ k.coop = coop
      /\ k.starting = starting /\ k.mem = n.mem /\ k.stored = n.stored /\ k.auths = n.auths
      /\ k.activeBuyer = n.activeBuyer /\ SameRequests(k, n)
      /\ k.attempts = n.attempts
  BY <1>2, NoCloseType DEF NodeType
<1> HIDE DEF k
<1> DEFINE x == Closed(n)
<1>4. /\ x \in NodeType /\ x.closing = NoClose
      /\ x.mem = n.mem /\ x.stored = n.stored /\ x.auths = n.auths
      /\ x.activeBuyer = n.activeBuyer /\ SameWork(x, n)
      /\ ~Awaited(x, Checkers) /\ SessionInv(x, c, w, b)
  BY ClosedFields
<1> HIDE DEF x
<1>5. /\ SameMoney(k.mem, x.mem) /\ SameRow(k.stored, x.stored) /\ k.closing = x.closing
      /\ MayRequestClose(x, c, k.coop) /\ SameRequests(k, x)
      /\ k.attempts = x.attempts /\ SameAuths(k.auths, x.auths)
      /\ k.activeBuyer => x.activeBuyer
      /\ k.starting = x.starting \/ k.starting # "channels"
      /\ MayCheck(x, c, k.checking)
  BY <1>2, <1>3, <1>4, SameMoneyRow, SameAuthsRefl DEF SameWork, MayRequestClose, MayCheck
<1>6. SessionInv(k, c, w, b)
  BY <1>3, <1>4, <1>5, FrameKeeps
<1>7. CASE ~isAmong({"topUp"}, ws)
  BY <1>1, <1>3, <1>6, <1>7
<1>8. CASE isAmong({"topUp"}, ws)
  <2>1. k.auths # <<>> /\ ~Awaited(k, {"topUp"}) /\ m = dequeue(k)
    BY <1>1, <1>3, <1>8 DEF Awaited, NoClose
  <2>2. m \in NodeType /\ SessionInv(m, c, w, b)
    BY <1>3, <1>6, <2>1, DequeueKeeps
  <2>3. m.stored = k.stored
    BY <1>3, <2>1, DequeueFields
  <2> QED BY <1>3, <2>2, <2>3
<1> QED BY <1>7, <1>8

LEMMA FinishCloseKeeps ==
  ASSUME Inv, NEW r, finishClose(r)
  PROVE  Kept(node, node', ch', wire, buyer) /\ WorldTyped'
<1>1. /\ node \in NodeType /\ ch \in ChannelType /\ SessionInv(node, ch, wire, buyer)
      /\ node.stored.authMax \in Nat /\ WorldTyped
  BY NodeNumbers DEF Inv, Typed, WorldTyped
<1> DEFINE c == node.closing
           m == continueWaiters(node, c, r)
<1>2. /\ c # NoClose /\ closeTx(c.amount, c.sig, r)
      /\ node' = releaseWaiters(m, c.waiters) /\ UNCHANGED <<connected, needAuth, closeEvent>>
  BY DEF finishClose
<1>3. c.amount \in Nat /\ c.amount <= node.stored.authMax /\ ch.settled <= node.stored.authMax
  BY <1>1, <1>2, NodeNumbers DEF SessionInv, Waiting, Authorizations
<1>4. /\ After(ch, ch', node.stored.authMax) /\ txFailures' \in 0..MaxTxFailures
      /\ r = "ok" => Ended(ch') /\ ch'.settled = c.amount
  BY <1>1, <1>2, <1>3, CloseTxAfter
<1>5. SessionInv(node, ch', wire, buyer) /\ ch' \in ChannelType
  BY <1>1, <1>4, ChainKeeps DEF After
<1>6. Continued(node, m, ch', wire, buyer)
  BY <1>1, <1>2, <1>4, <1>5, ContinueWaitersKeeps
<1>7. isAmong({"topUp"}, c.waiters) => m.auths # <<>>
  <2>1. isAmong({"topUp"}, c.waiters) => node.auths # <<>>
    BY <1>1 DEF SessionInv, Queued, Awaited, isAmong, HeadAt
  <2>2. Len(m.auths) = Len(node.auths) /\ m.auths \in Seq(AuthType)
    BY <1>6 DEF Continued, SameAuths, SameMessages, NodeType
  <2>3. node.auths \in Seq(AuthType)
    BY <1>1 DEF NodeType
  <2> QED BY <2>1, <2>2, <2>3
<1>8. /\ m \in NodeType /\ SessionInv(Closed(m), ch', wire, buyer)
      /\ m.stored.authMax = node.stored.authMax
  BY <1>6 DEF Continued
<1> HIDE DEF c, m
<1>9. /\ node' \in NodeType /\ SessionInv(node', ch', wire, buyer)
      /\ node'.stored.authMax = m.stored.authMax
  BY <1>2, <1>5, <1>7, <1>8, ReleaseKeeps
<1>10. WorldTyped'
  <2>1. closeEvent' => ch'.closeRequested
    BY <1>1, <1>2, <1>4 DEF WorldTyped, After
  <2> QED BY <1>1, <1>2, <1>4, <1>5, <2>1 DEF WorldTyped
<1> QED BY <1>1, <1>8, <1>9, <1>10 DEF Kept

----------------------------------------------------------------------------
(* Every step keeps the invariant, and the stored amount never shrinks.    *)

(* A step of the node alone. *)
LEMMA NodeStepped ==
  ASSUME Inv, UNCHANGED envVars, UNCHANGED chainVars, UNCHANGED connected,
         closeEvent' = closeEvent \/ closeEvent' = FALSE, needAuth' \in Nat,
         Kept(node, node', ch, wire, buyer)
  PROVE  Stepped
<1>1. WorldTyped
  BY DEF Inv, Typed
<1>2. UNCHANGED <<wire, buyer>> /\ ch' = ch /\ txFailures' = txFailures
  BY DEF envVars, chainVars
<1>3. closeEvent' \in BOOLEAN /\ (closeEvent' => ch.closeRequested)
  <2>1. CASE closeEvent' = closeEvent
    BY <1>1, <2>1 DEF WorldTyped
  <2>2. CASE closeEvent' = FALSE
    BY <2>2
  <2> QED BY <2>1, <2>2
<1>4. WorldTyped'
  BY <1>1, <1>2, <1>3 DEF WorldTyped
<1>5. Kept(node, node', ch', wire, buyer)
  BY <1>2
<1> QED BY <1>2, <1>4, <1>5, EnvKept

LEMMA NeedAuthKept ==
  ASSUME Inv, UNCHANGED needAuth
  PROVE  needAuth' \in Nat
BY DEF Inv, Typed, WorldTyped

LEMMA RequestWakesStepped ==
  ASSUME Inv, NEW tooLarge, requestWakes(tooLarge), UNCHANGED envVars
  PROVE  Stepped
<1>1. Kept(node, node', ch, wire, buyer) /\ needAuth' \in Nat
  BY RequestWakesKeeps
<1>2. UNCHANGED chainVars /\ UNCHANGED connected /\ UNCHANGED closeEvent
  BY DEF requestWakes
<1> QED BY <1>1, <1>2, NodeStepped

LEMMA RequestProceedsStepped ==
  ASSUME Inv, NEW tooLarge, requestProceeds(tooLarge), UNCHANGED envVars
  PROVE  Stepped
<1>1. Kept(node, node', ch, wire, buyer) /\ needAuth' \in Nat
  BY RequestProceedsKeeps
<1>2. UNCHANGED chainVars /\ UNCHANGED connected /\ UNCHANGED closeEvent
  BY DEF requestProceeds
<1> QED BY <1>1, <1>2, NodeStepped

LEMMA TurnStepped ==
  ASSUME Inv, TurnStep
  PROVE  Stepped
<1>1. UNCHANGED envVars
  BY DEF TurnStep
<1>2. CASE beginReserve \/ beginTopUp \/ beginRecovery \/ acceptSpendingAuth \/ otherSpendingAuth
  <2>1. Kept(node, node', ch, wire, buyer)
    BY <1>2, BeginReserveKeeps, BeginTopUpKeeps, BeginRecoveryKeeps, AcceptSpendingAuthKeeps,
       OtherSpendingAuthKeeps
  <2>2. UNCHANGED <<chainVars, connected, needAuth, closeEvent>>
    <3>1. CASE beginReserve BY <3>1 DEF beginReserve
    <3>2. CASE beginTopUp BY <3>2 DEF beginTopUp
    <3>3. CASE beginRecovery BY <3>3 DEF beginRecovery
    <3>4. CASE acceptSpendingAuth BY <3>4 DEF acceptSpendingAuth
    <3>5. CASE otherSpendingAuth BY <3>5 DEF otherSpendingAuth
    <3> QED BY <1>2, <3>1, <3>2, <3>3, <3>4, <3>5
  <2> QED BY <1>1, <2>1, <2>2, NeedAuthKept, NodeStepped
<1>3. CASE \E tooLarge \in BOOLEAN : requestWakes(tooLarge)
  BY <1>1, <1>3, RequestWakesStepped
<1>4. CASE \E tooLarge \in BOOLEAN : requestProceeds(tooLarge)
  BY <1>1, <1>4, RequestProceedsStepped
<1> QED BY <1>2, <1>3, <1>4 DEF TurnStep

LEMMA AuthStepped ==
  ASSUME Inv, AuthStep
  PROVE  Stepped
<1>1. UNCHANGED envVars /\ UNCHANGED <<wire, buyer>>
  BY DEF AuthStep, envVars
<1>2. CASE (\E expired \in BOOLEAN : recoverOnChainSession(expired)) \/ validateRetainedChannel
  <2>1. Kept(node, node', ch, wire, buyer)
    BY <1>2, RecoverKeeps, ValidateRetainedKeeps
  <2>2. UNCHANGED <<chainVars, connected, needAuth, closeEvent>>
    <3>1. CASE \E expired \in BOOLEAN : recoverOnChainSession(expired)
      BY <3>1 DEF recoverOnChainSession
    <3>2. CASE validateRetainedChannel BY <3>2 DEF validateRetainedChannel
    <3> QED BY <1>2, <3>1, <3>2
  <2> QED BY <1>1, <2>1, <2>2, NeedAuthKept, NodeStepped
<1>3. CASE \E r \in TxResults : finishReserve(r) \/ finishTopUp(r)
  <2>1. Kept(node, node', ch', wire, buyer) /\ WorldTyped'
    BY <1>3, FinishReserveKeeps, FinishTopUpKeeps
  <2> QED BY <1>1, <2>1, EnvKept
<1> QED BY <1>2, <1>3 DEF AuthStep

LEMMA RequestStepped ==
  ASSUME Inv, RequestStep
  PROVE  Stepped
<1>1. UNCHANGED envVars
  BY DEF RequestStep
<1>2. CASE \E tooLarge \in BOOLEAN : requestArrives(tooLarge)
  <2>1. Kept(node, node', ch, wire, buyer) /\ needAuth' \in Nat
    BY <1>2, RequestArrivesKeeps
  <2>2. UNCHANGED chainVars /\ UNCHANGED connected /\ UNCHANGED closeEvent
    BY <1>2 DEF requestArrives
  <2> QED BY <1>1, <2>1, <2>2, NodeStepped
<1>3. CASE \E tooLarge \in BOOLEAN : requestWakes(tooLarge)
  BY <1>1, <1>3, RequestWakesStepped
<1>4. CASE \E cost \in 1..MaxCost : requestCompletes(cost)
  <2>1. Kept(node, node', ch, wire, buyer) /\ needAuth' \in Nat
    BY <1>4, RequestCompletesKeeps
  <2>2. UNCHANGED chainVars /\ UNCHANGED connected /\ UNCHANGED closeEvent
    BY <1>4 DEF requestCompletes
  <2> QED BY <1>1, <2>1, <2>2, NodeStepped
<1> QED BY <1>2, <1>3, <1>4 DEF RequestStep

LEMMA CloseEndsStepped ==
  ASSUME Inv, CloseEnds
  PROVE  Stepped
<1>1. UNCHANGED <<wire, buyer>>
  BY DEF CloseEnds, envVars
<1>2. Kept(node, node', ch', wire, buyer) /\ WorldTyped'
  BY FinishCloseKeeps DEF CloseEnds
<1> QED BY <1>1, <1>2, EnvKept

LEMMA CloseStepped ==
  ASSUME Inv, CloseStep
  PROVE  Stepped
<1>1. UNCHANGED envVars /\ UNCHANGED <<wire, buyer>>
  BY DEF CloseStep, envVars
<1>2. CASE \E r \in TxResults : idleSettle(r)
  <2>1. Kept(node, node', ch', wire, buyer) /\ WorldTyped'
    BY <1>2, IdleSettleKeeps
  <2> QED BY <1>1, <2>1, EnvKept
<1>3. CASE closeAfterDrain \/ idleTimeout \/ adoptCloseAuth \/ handleCloseChannelRequest
           \/ pollCloseRequested
  <2>1. Kept(node, node', ch, wire, buyer)
    BY <1>3, CloseAfterDrainKeeps, IdleTimeoutKeeps, AdoptCloseAuthKeeps, HandleCloseKeeps,
       PollKeeps
  <2>2. /\ UNCHANGED chainVars /\ UNCHANGED connected /\ UNCHANGED needAuth
        /\ closeEvent' = closeEvent \/ closeEvent' = FALSE
    <3>1. CASE closeAfterDrain BY <3>1 DEF closeAfterDrain
    <3>2. CASE idleTimeout BY <3>2 DEF idleTimeout
    <3>3. CASE adoptCloseAuth BY <3>3 DEF adoptCloseAuth
    <3>4. CASE handleCloseChannelRequest BY <3>4 DEF handleCloseChannelRequest
    <3>5. CASE pollCloseRequested BY <3>5 DEF pollCloseRequested
    <3> QED BY <1>3, <3>1, <3>2, <3>3, <3>4, <3>5
  <2> QED BY <1>1, <2>1, <2>2, NeedAuthKept, NodeStepped
<1>4. CASE closeCatchUp
  <2>1. Kept(node, node', ch, wire, buyer) /\ needAuth' \in Nat
    BY <1>4, CloseCatchUpKeeps
  <2>2. UNCHANGED chainVars /\ UNCHANGED connected /\ UNCHANGED closeEvent
    BY <1>4 DEF closeCatchUp
  <2> QED BY <1>1, <2>1, <2>2, NodeStepped
<1> QED BY <1>2, <1>3, <1>4 DEF CloseStep

LEMMA CheckStepped ==
  ASSUME Inv, CheckStep
  PROVE  Stepped
<1>1. UNCHANGED envVars
  BY DEF CheckStep
<1> DEFINE validates == \E readable \in BOOLEAN : validateHydratedChannels(readable)
<1>2. checkTimeouts \/ checkActiveChannel \/ retryTimedOutCloses \/ retryTimedOutClose
      \/ validates \/ startPoller
  BY DEF CheckStep
<1>3. Kept(node, node', ch, wire, buyer)
  BY <1>2, CheckTimeoutsKeeps, CheckActiveKeeps, RetryTimedOutClosesKeeps,
     RetryTimedOutCloseKeeps, ValidateHydratedKeeps, StartPollerKeeps
<1>4. /\ UNCHANGED chainVars /\ UNCHANGED connected /\ UNCHANGED needAuth
      /\ closeEvent' = closeEvent \/ closeEvent' = FALSE
  <2>1. CASE checkTimeouts BY <2>1 DEF checkTimeouts
  <2>2. CASE checkActiveChannel BY <2>2 DEF checkActiveChannel
  <2>3. CASE retryTimedOutCloses BY <2>3 DEF retryTimedOutCloses
  <2>4. CASE retryTimedOutClose BY <2>4 DEF retryTimedOutClose
  <2>5. CASE validates BY <2>5 DEF validateHydratedChannels
  <2>6. CASE startPoller BY <2>6 DEF startPoller
  <2> QED BY <1>2, <2>1, <2>2, <2>3, <2>4, <2>5, <2>6
<1> QED BY <1>1, <1>3, <1>4, NeedAuthKept, NodeStepped

LEMMA NextStepped ==
  ASSUME Inv, [Next]_vars
  PROVE  Stepped
<1>1. CASE Next
  BY <1>1, TurnStepped, AuthStepped, RequestStepped, CloseEndsStepped, CloseStepped,
     CheckStepped, BuyerStepped, WorldStepped, DeadlineStepped DEF Next, TimePasses
<1>2. CASE UNCHANGED vars
  <2>1. /\ UNCHANGED envVars /\ UNCHANGED chainVars /\ UNCHANGED <<connected, needAuth>>
        /\ UNCHANGED closeEvent /\ node' = node
    BY <1>2 DEF vars, sellerVars
  <2>2. node \in NodeType /\ SessionInv(node, ch, wire, buyer)
    BY DEF Inv, Typed
  <2>3. Kept(node, node', ch, wire, buyer)
    BY <2>1, <2>2, KeptRefl
  <2> QED BY <2>1, <2>3, NeedAuthKept, NodeStepped
<1> QED BY <1>1, <1>2

LEMMA InitInv ==
  ASSUME Init
  PROVE  Inv
<1> DEFINE n == Running(NoRow)
<1>1. /\ node = n /\ wire = <<>> /\ needAuth = 0 /\ connected = FALSE /\ closeEvent = FALSE
      /\ ch = [status |-> "none", deposit |-> 0, settled |-> 0, closeRequested |-> FALSE]
      /\ txFailures = 0 /\ buyer = [opened |-> FALSE, signed |-> 0, ceiling |-> 0]
  BY DEF Init, ChainInit
<1>2. /\ ch \in ChannelType /\ ch.status = "none" /\ ch.deposit = 0 /\ ch.settled = 0
      /\ buyer \in BuyerType /\ buyer.signed = 0
  BY <1>1 DEF ChannelType, BuyerType
<1>3. WorldTyped
  <2>1. txFailures \in 0..MaxTxFailures
    BY <1>1, ChainAssumption
  <2>2. connected \in BOOLEAN /\ closeEvent \in BOOLEAN /\ ~closeEvent
    BY <1>1, Zenon
  <2> QED BY <1>1, <1>2, <2>1, <2>2 DEF WorldTyped
<1>4. /\ n \in NodeType /\ n.mem = Forgotten /\ n.stored = NoRow /\ n.activeBuyer = FALSE
      /\ n.auths = <<>> /\ n.closing = NoClose /\ n.coop = NoCloseRequest
      /\ n.checking = NotChecking /\ Idle(n)
      /\ n.attempts = 0 /\ n.starting = "done"
  BY NoRowType, RunningFields
<1>5. wire \in Seq(WireType) /\ Len(wire) <= MaxWire
  BY <1>1, SessionAssumption
<1> HIDE DEF n
<1>6. /\ ~Tracked(n) /\ ~IsActive(n) /\ n.mem.latestAuth = 0 /\ n.mem.reserveMax = 0
      /\ n.mem.spent = Absent /\ n.stored.status = "none" /\ n.stored.authMax = 0
      /\ n.stored.sig = 0 /\ n.stored.reserveMax = 0 /\ n.stored.recorded = Absent
      /\ ~n.stored.settledAt
      /\ n.closing.waiters = <<>> /\ n.closing.amount = Absent
      /\ n.coop.at = "none" /\ n.coop.ahead = 0 /\ n.checking.at = "none"
  BY <1>4 DEF Tracked, IsActive, Forgotten, NoRow, NoClose, NoCloseRequest, NotChecking
<1>7. (\A at : ~HeadAt(n, at)) /\ (\A whos : ~Awaited(n, whos))
  BY <1>4, <1>6 DEF HeadAt, Awaited
<1>8. Counted(n) /\ OnChain(n, ch) /\ Reserved(n, ch) /\ Settlements(n, ch)
  BY <1>2, <1>4, <1>6, SellerAssumption DEF Counted, Idle, OnChain, Reserved, Settlements
<1>9. Authorizations(n, ch)
  <2>1. orZero(n.mem.spent) <= ch.settled /\ ~n.activeBuyer
    BY <1>2, <1>4, <1>6 DEF orZero
  <2> QED BY <1>2, <1>6, <1>7, <2>1 DEF Authorizations, Absent
<1>10. Exposure(n) /\ Ordered(n, wire, buyer) /\ Queued(n) /\ Waiting(n) /\ Granted(n, ch)
  BY <1>1, <1>2, <1>4, <1>6, <1>7 DEF Exposure, Ordered, Queued, Waiting, Granted, GrantedTo
<1>11. SessionInv(n, ch, wire, buyer)
  BY <1>8, <1>9, <1>10 DEF SessionInv
<1> QED BY <1>1, <1>2, <1>3, <1>4, <1>5, <1>11 DEF Inv, Typed

----------------------------------------------------------------------------
(* The theorems.                                                           *)

(* The session's inductive invariant holds: through every order of         *)
(* authorizations, requests, closes, timeout checks, failed and unseen     *)
(* transactions, disconnects and restarts.                                 *)
THEOREM SessionInvariant == Spec => []Inv
<1>1. Init => Inv
  BY InitInv
<1>2. Inv /\ [Next]_vars => Inv'
  BY NextStepped DEF Stepped
<1> QED BY <1>1, <1>2, PTL DEF Spec

(* Every handler keeps the types and the bounds of the node's maps and     *)
(* row: the retry counters stop at their limits, no more requests wait and *)
(* are served than admitted, whether or not they are counted, and a close  *)
(* request never waits for more auths than are queued, though auths end in *)
(* five different places.                                                  *)
THEOREM SessionTypeCorrect == Spec => []TypeOK
<1>1. Inv => TypeOK
  <2> SUFFICES ASSUME Inv PROVE TypeOK
    OBVIOUS
  <2>1. /\ node \in NodeType /\ WorldTyped /\ buyer \in BuyerType /\ Len(wire) <= MaxWire
        /\ Counted(node)
    BY DEF Inv, Typed, SessionInv
  <2>2. /\ node.mem \in MemType /\ node.stored \in RowType
        /\ node.inFlight \in Nat /\ node.uncounted \in Nat
        /\ node.coop.ahead \in Nat /\ node.auths \in Seq(AuthType)
        /\ node.attempts \in 0..TIMED_OUT_AUTH_CLOSE_ATTEMPTS /\ node.activeBuyer \in BOOLEAN
    BY <2>1 DEF NodeType, CoopType
  <2>3. ChainTypeOK
    BY <2>1 DEF ChainTypeOK, WorldTyped, ChannelType
  <2>4. node.mem \in [accepted: Int, spent: Int, latestAuth: Nat, sig: Nat, reserveMax: Nat,
                      pendingTopUp: Nat, blocked: BOOLEAN, retries: 0..MAX_CLOSE_RETRIES,
                      hydrated: BOOLEAN]
    BY <2>2, SMTT(60) DEF MemType, Absent
  <2>5. node.stored \in [status: {"none", "active", "settled", "timeout"}, authMax: Nat,
                         sig: Nat, tokensDelivered: Nat, reserveMax: Nat, expired: BOOLEAN,
                         settledAt: BOOLEAN, recorded: Int]
    BY <2>2 DEF RowType, Absent
  <2>6. /\ {node.inFlight, node.uncounted} \subseteq Nat /\ unfinished(node) <= MaxInFlight
        /\ node.coop.ahead \in 0..Len(node.auths)
    BY <2>1, <2>2 DEF Counted, unfinished, serving
  <2>7. {node.activeBuyer, connected, closeEvent, buyer.opened} \subseteq BOOLEAN
    BY <2>1, <2>2 DEF WorldTyped, BuyerType
  <2> QED BY <2>1, <2>2, <2>3, <2>4, <2>5, <2>6, <2>7 DEF TypeOK, WorldTyped
<1> QED BY <1>1, SessionInvariant, PTL

(* The seller never counts on more reserve than is locked on chain: the    *)
(* maximum kept in memory and in the row is raised only after the          *)
(* transaction that locks it is seen to succeed.                           *)
THEOREM ReserveNeverOverstatedCorrect == Spec => []ReserveNeverOverstated
<1>1. Inv => ReserveNeverOverstated
  BY DEF Inv, SessionInv, Reserved, ReserveNeverOverstated
<1> QED BY <1>1, SessionInvariant, PTL

(* What is served and not signed for is at most one round of requests,     *)
(* for any number of concurrent requests, any cost, any interleaving with  *)
(* authorizations, and any number of requests that wait and are admitted   *)
(* on what they read before, counted or not.                               *)
THEOREM ExposureBoundedCorrect == Spec => []ExposureBounded
<1>1. Inv => ExposureBounded
  <2> SUFFICES ASSUME Inv, isTracked
               PROVE  orZero(node.mem.spent) <= node.mem.accepted + MaxInFlight * MaxCost
    BY DEF ExposureBounded
  <2>1. node \in NodeType /\ Exposure(node) /\ Tracked(node)
    BY DEF Inv, Typed, SessionInv, isTracked, Tracked
  <2>2. MaxInFlight * MaxCost \in Nat /\ Load(MaxInFlight) = MaxInFlight * MaxCost
    BY Loads DEF Load
  <2>3. node.mem.accepted \in Nat
    BY <2>1, NodeNumbers DEF Tracked
  <2>4. CASE node.mem.spent = Absent
    BY <2>2, <2>3, <2>4 DEF orZero
  <2>5. CASE node.mem.spent # Absent
    <3>1. node.mem.spent <= node.mem.accepted + Load(MaxInFlight)
      BY <2>1, <2>5 DEF Exposure
    <3> QED BY <2>2, <2>5, <3>1 DEF orZero
  <2> QED BY <2>4, <2>5
<1> QED BY <1>1, SessionInvariant, PTL

(* A row says settled only for a channel that has ended on chain, and      *)
(* names an amount with a time only if it ended with that amount: for      *)
(* every caller that shares a close, and for a close mined without the     *)
(* seller seeing it. The amount that a recovery writes without a time is   *)
(* never more than the chain has paid, however long it stays.              *)
THEOREM RecordedSettlementTrueCorrect == Spec => []RecordedSettlementTrue
<1>1. Inv => RecordedSettlementTrue
  BY DEF Inv, SessionInv, Settlements, RecordedSettlementTrue, Ended, hasEnded
<1> QED BY <1>1, SessionInvariant, PTL

(* A close granted to the buyer pays for all the work recorded, before and *)
(* while its transaction is in flight, unless a request that began without *)
(* a session, and is not counted, was billed meanwhile.                    *)
THEOREM GrantedCloseSettlesAllCorrect == Spec => []GrantedCloseSettlesAll
<1>1. Inv => GrantedCloseSettlesAll
  <2> SUFFICES ASSUME Inv, node.closing # NoClose, node.closing.waiters[1].who = "coop",
                      ~node.closing.late
               PROVE  orZero(node.mem.spent) <= Max({node.closing.amount, ch.settled})
    BY DEF GrantedCloseSettlesAll
  <2>1. node \in NodeType /\ ch \in ChannelType /\ Granted(node, ch)
    BY DEF Inv, Typed, WorldTyped, SessionInv
  <2>2. /\ node.closing.amount \in Int /\ ch.settled \in Int
        /\ node.mem.spent \in Nat \cup {Absent}
    BY <2>1, NodeNumbers DEF ChannelType, Absent
  <2>3. orZero(node.mem.spent) <= node.closing.amount \/ orZero(node.mem.spent) <= ch.settled
    BY <2>1 DEF Granted, GrantedTo
  <2>4. orZero(node.mem.spent) \in Int
    BY <2>2 DEF orZero
  <2> QED BY <2>2, <2>3, <2>4, LargerOfTwo
<1> QED BY <1>1, SessionInvariant, PTL

(* While the channel is open, what the seller could still claim after      *)
(* losing its memory never shrinks, for a stored authorization that the    *)
(* deposit covers.                                                         *)
THEOREM DurableClaimKeptCorrect == Spec => DurableClaimKept
<1>1. Inv /\ [Next]_vars
        => [isOpen /\ isOpen' /\ node'.stored.authMax <= ch'.deposit
              => durableClaim' >= durableClaim]_vars
  <2> SUFFICES ASSUME Inv, [Next]_vars, isOpen, isOpen', node'.stored.authMax <= ch'.deposit
               PROVE  durableClaim' >= durableClaim
    OBVIOUS
  <2>1. Inv' /\ node.stored.authMax <= node'.stored.authMax
    BY NextStepped DEF Stepped
  <2>2. /\ node \in NodeType /\ ch \in ChannelType /\ Authorizations(node, ch)
        /\ node' \in NodeType /\ ch' \in ChannelType /\ Authorizations(node', ch')
    BY <2>1 DEF Inv, Typed, WorldTyped, SessionInv
  <2>3. /\ {node.stored.authMax, node.stored.sig, node'.stored.authMax, node'.stored.sig,
            ch.settled, ch'.settled, ch.deposit, ch'.deposit} \subseteq Nat
    BY <2>2, NodeNumbers DEF ChannelType
  <2>4. durableClaim <= node.stored.authMax /\ durableClaim \in Nat
    BY <2>2, <2>3 DEF durableClaim, Authorizations
  <2>5. durableClaim' = node'.stored.authMax
    BY <2>2, <2>3 DEF durableClaim, authorized, Authorizations
  <2> QED BY <2>1, <2>3, <2>4, <2>5
<1> QED BY <1>1, SessionInvariant, PTL DEF Spec, DurableClaimKept
=============================================================================
