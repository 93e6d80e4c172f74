# Antseed: models and proofs of the payment path

Antseed is a peer-to-peer market for AI inference. Buyers pay sellers through
payment channels: a buyer deposits USDC in a contract, reserves a part of it for
one seller, signs ever larger cumulative amounts as it is served, and the seller
claims the latest signature on chain. Around it, stakers share a seller's
revenue through a staking proxy, and lock reward tokens in pools behind sellers.
This directory holds TLA+ models of the payment path, from the contracts to the
two nodes, and of these two contracts, the configurations that check them with
TLC, and proofs checked by TLAPS.

Run, in this directory, `tlc -config <run>.cfg <module>` for a run and
`tlapm <module>.tla` for each module that ends in `Proofs` or `Theorems`. The file PROJECT.json lists
runs, properties, theorems, and the source lines behind every definition.

## 1. Inventory

### The contracts (packages/contracts)

| Component | State | Operations | Correct when |
|---|---|---|---|
| AntseedChannels | per channel: parties, deposit, settled, deadline, close request, status; active channels per seller; agent statistics | reserve, settle, topUp, close (seller); requestClose, withdraw (the buyer's operator); pause and settings (owner) | only signed amounts are paid; a channel moves forward only; a requested close can always be completed |
| AntseedDeposits | per buyer: balance, one reserved total, operator and nonce, credit history | deposit, withdraw, lock, charge, release, setOperator, transferOperator | solvent; reserved is what open channels hold; nothing is lost between charge and payout |
| AntseedStaking, AntseedSlashing | stake, seller-agent binding | stake, stakeFor, unstake | stake stays while serving; binding is one to one |
| AntseedStats | last metadata per channel, totals per agent and buyer | recordMetadata | every unit is counted once |
| AntseedRegistry | addresses of the other contracts | setters | re-pointing it while channels are open breaks no account |
| DiemStakingProxy, SellerDelegation | stake per staker, unstake batches and the one external cooldown, USDC reward per token and reserve, ANTS points per staker and epoch | stake, initiateUnstake, flush, claimUnstakeBatch, claimUsdc, claimAnts, catchUpPoints, syncRewardEpochs, the forwarded settle, close and topUp, the owner's calls | principal and reserved rewards are there when claimed; nobody is paid twice or more than arrived; a batch that cools down is paid |
| AntseedSellerPools | positions (an ERC-721) with their checkpoints, power trees per pool and in total, active stake per staker | stake, move, extend, enable and disable max lock, split, merge, restake a reward, withdraw, transfer | the trees agree with the positions, past epochs are final, stake is backed and can leave, no cheap early exit |
| FreeUsage, emissions, seller registry, relay, policies, verification, token | | | not modelled, see section 8 |

Channels calls Deposits (lock, charge, release), Staking (who is the agent) and
Stats (metadata); Staking calls Channels (active count); every contract finds the
others in the registry. A transaction is atomic. What is hard is the order of
transactions of several channels over the one reserved total, and parameters,
addresses and operators that change in between. The proxy is a seller to the
Channels contract and holds the money of many stakers; it takes whatever USDC a
settlement brings, and settles its accounts with a staker only when that staker
next calls. Pool power of past epochs decides rewards that are computed later.

### The node (packages/node, packages/buyer-core)

| Component | State | Operations | Correct when |
|---|---|---|---|
| SellerPaymentManager | maps by channel (accepted, spent, latest auth, reserve, pending top-up, blocked, retries), closes in flight, active buyers | handle SpendingAuth, top up, recover, settle, close, check timeouts, handle close requests, restart | it serves only what it can claim, claims what it can, and says in its store what the chain paid |
| ChannelStore | SQLite row per channel | upsert, update status | survives a restart with the claim intact |
| Seller request handler | requests in flight | session check, budget check, admission, billing | unsigned work is bounded |
| Session tracker | idle timers | schedule, finalize | |
| BuyerPaymentManager, BuyerPaymentNegotiator | signed cumulative amount, verified cost, ceiling, pending ReserveAuth, requests counted, the row | open, sign for a NeedAuth, top up, recover after a 402, request a close, restart | it signs for what was served, once, within its reserve, and never less than before |
| Node wiring | connections, poller cursor | connect, disconnect, poll, start | |
| Transport, discovery, routing, reputation, metering, verification, apps, plugins | | | not modelled, see section 8 |

The node is single-threaded JavaScript: handlers run between two awaits without
interruption and interleave at every await. SpendingAuths of one buyer are
serialised by the seller's lock; everything else (closes, the timeout checker, the
poller, requests, disconnects, and on the buyer's side every NeedAuth) is not. Transactions fail, are refused for back-pressure,
or are mined without the node learning of it. The process may stop at any time
and keeps only its rows. PROJECT.json lists the hazards line by line.

## 2. Modules

| Module | Models | How its state corresponds |
|---|---|---|
| `Sums` | | sum of a function over 1..n, as a recursive function |
| `AntseedRegistry` | registry, owner settings, clock | `registry`, `config`, `paused`, `now` |
| `AntseedDeposits` | AntseedDeposits.sol | `balance`, `reserved`, `operator`, ... are the fields of BuyerAccount; `held` is the contract's USDC |
| `AntseedStaking`, `AntseedStats` | the contracts of that name | one variable per mapping |
| `AntseedChannels` | AntseedChannels.sol, and the composition of all five | one variable per field of Channel; a signature is an element of `spendingAuths[c]` or `reserveAuths[c]`, the messages the buyer has signed. A revert is a disabled action |
| `EscrowLedger` | what the contracts promise: every channel has an escrow of its own | refinement target |
| `MCAntseedChannels` | constants for TLC | |
| `SumTheorems` | lemmas about `Sums` | |
| `AntseedChannelsProofs`, `AntseedSettlementProofs`, `EscrowLedgerProofs` | theorems about the contracts: accounts and stakes, what settlements pay and record, and the refinement | |
| `ChannelOnChain` | the one channel a seller's node sees, and how its transactions end | `ch` is the answer of getSession |
| `SellerPaymentManager` | seller-payment-manager.ts, its rows, admission and billing of seller-request-handler.ts | `node` is a record: `mem` the maps by channel, `stored` the row, `auths` the buyer's lock with the SpendingAuths behind it, `closing` the close in flight and its callers. What the code does between two awaits is a function on this record, composed as the code composes its calls, and an action is one such stretch |
| `PaymentSession` | buyer, wire, restarts, clock; composes the node with them | `wire` is the ordered connection, `buyer` what it has signed |
| `MCPaymentSession` | root module of the runs | |
| `BuyerPaymentManager` | buyer-payment-manager.ts, the counting of requests, and the parts of buyer-payment-negotiator.ts that call it | `row` is the stored channel, `mem` the maps for one seller, `call` the running handlers with their local variables; a step of a handler runs from one await to the next. The seller is external and keeps the highest amount it is sent |
| `DiemStakingProxy` | DiemStakingProxy.sol with the fee of AntseedSellerDelegation.sol | one variable per field; DIEM's own staking contract (external) is its cooling amount and the end of the cooldown |
| `AntseedSellerPools` | AntseedSellerPools.sol | `positions`, the trees as functions on their indexes, checkpoints as functions of the epoch; the Fenwick operations are folds over the index's bits and ranges |
| `MCBuyerPaymentManager`, `MCDiemStakingProxy`, `MCAntseedSellerPools` | constants for TLC | |
| `PaymentSessionProofs`, `BuyerPaymentProofs`, `DiemStakingProofs`, `SellerPoolsProofs` | theorems about the modules of that name | |

`AntseedChannels` keeps the whole of the contracts' control: each guard is a
revert, each primed variable an assignment. `ChannelOnChain` abstracts the same
contract for the node: a pause, a missing balance or a dropped transaction is a
failed transaction, bounded by `MaxTxFailures`. `PaymentSession` has a buyer that
signs in one step, because the seller can tell no more apart;
`BuyerPaymentManager` opens that step up, and has in turn a seller that only
serves, asks and keeps.

## 3. Runs on the contracts

All amounts are small integers; a fee of 25% and a threshold of 85% make rounding
bite on them. `MaxTime`, `MaxAuths`, `MaxStake`, `MaxNonce` and `MaxOtherPaid`
bound the clock, the signatures, the stakes, the nonces and the other contract.

| Run | Shows | Bounds |
|---|---|---|
| `shared_lock` | two channels of one buyer, opened, settled, topped up, closed and withdrawn in every order: reserved backs the channels, settlements are funded, counts are exact, reputation is earned, channels move forward, and the contracts implement `EscrowLedger` | 2 channels, amounts up to 2, two signatures each: enough for a second settlement and a top-up |
| `settlements` | one channel settled in every way while the owner changes the rate, sets the reserve and revokes stats writers, metadata repeats or goes back, and the seller changes its agent: only signed amounts are paid, payouts are conserved, fees bounded, usage counted once | two rates, every split of a payment of 4, metadata that are ordered in one counter and not the other, three signatures |
| `agents` | bindings while tokens change hands and stakes come and go; and another Channels contract locks, charges and releases for the same buyer while the registry points at one and then the other: locks never eat each other | 2 sellers, 2 agents, 1 channel, 1 unit at a time in the other contract |
| `operators` | a SetOperator signature installs once; a requested close completes, also while paused | 2 operators, 2 nonces |

Fairness of `operators`: the clock advances, and an operator that may withdraw
does. No transaction of a seller or of the owner is assumed.

The property speaks of the operator because requestClose and withdraw ask for
it: a buyer that has installed none cannot start the grace period, although
docs/protocol/spec/04-payments.md names "the buyer (or their deposits operator)".

The proxy and the pools:

| Run | Shows | Bounds |
|---|---|---|
| `diem_staking` | stakers join, leave in batches and claim, revenue arrives and epochs pass, the owner interferes: `PrincipalBacked` (every DIEM staked, queued or cooling is accounted for, batch by batch), `ClaimsWithinInflow` (what is owed and paid stays within what came in, and sweep never takes reserved USDC), `EpochPointsWithinRevenue` (points are captured in the epoch they belong to), `ClaimedEpochsFinal`, `EarnedNeverLost`, and `FlushedBatchPaid` (liveness, also while paused) | two stakers with 2 and 1 units, `RAY` = 10 so that divisions by 3 round, payouts of 5 less a fee, a catch-up of at most one epoch per call. The whole product is out of TLC's reach, so five scenarios each give room to one concern: three batches under every setting, leaving within and across epochs, revenue with fee changes and sweeps, a backlog of epochs |
| `seller_pools` | any four calls and the epochs between them: `PoolPowerExact` compares the trees in every epoch with the sum over positions, `StakeBacked` the contract's tokens, totals and swap-and-pop lists with the open positions and their owners, `ExpiredWithdrawable`, `PastPowerFrozen`, and `NoSlashDodge` (no operation lowers the cost of leaving now) | 2 stakers and 2 agents (symmetric), 4 positions, locks of 1 and 2 epochs of at most 2, a tree of 8, `MaxCalls` = 4: enough to stake, split, merge and leave, or to lock, unlock, extend and leave |

Fairness of `diem_staking`: the clock advances and somebody calls
claimUnstakeBatch, which anyone may do. Nothing is assumed of the owner.

## 4. Runs on the node

| Run | Shows | Bounds |
|---|---|---|
| `top_ups` | the seller never counts on a reserve that the chain has not locked, through deferred, failed and unseen top-ups; and work served and not signed for is at most one round of requests, though parked requests decide with what they read earlier and some are served uncounted | threshold 100%, so that a deposit of one unit is not topped up before it is spent; one failing transaction; two requests at a time, spent up to 3, reserve 1 topped up to 2 |
| `close_requests` | a close granted to the buyer pays all recorded work, but for that of a request served uncounted; what the store records of a settlement is true (`RecordedSettlementTrue`); the claim that survives a restart never shrinks, not by an older authorization either | requests, auths, a close request without and with the latest authorization (within the reserve the capped one is the same), closes of four other origins, a reconnect, and one restart, also between a transaction and its receipt |
| `disconnected` | a channel whose buyer the node holds for disconnected is closed, and what the store records of a settlement is true, also when the buyer's operator closes on chain | all close paths, one failing transaction, one restart, amounts 0 and 1 (a branch depends only on whether anything is signed and settled) |
| `buyer_signing` | handlers of NeedAuths, of a 402 and of a close request overwrite each other at every await, the buyer restarts: what it signs stays within the ReserveAuths it sent, or within the configured maximum once it lost track of them (`SignedWithinReserve`), and within what was served, up to a stated margin (`OverpayBounded`), no handler goes below what it read (`TypeOK`), and once all is quiet the seller holds an authorization for all it served (`ServedIsPaid`) | two requests, one of which waits for evidence; costs of 1 each, of an opening reserve of 1 or 2 (the configured maximum), so that it covers both requests or needs a top-up; one 402 or restart (`MaxFaults`), one close request |

In `BuyerPaymentManager` what follows the commit of a row runs next, unless the
process ends there: the node's store commits synchronously. A browser's store
does not; the interleavings it adds are those between the signature and the
commit, which are modelled.

The bounds are chosen so that each counterexample of the mutants and of the
violations of section 5 fits with room to spare. MAX_CLOSE_RETRIES is 3 and
TIMED_OUT_AUTH_CLOSE_ATTEMPTS 6 in the code; 1 or 2 and 1 here reach the same
branches. `signing_race` adds a cost of 2. `DurableClaimKept` makes one exception, for a step that stores an
authorization above the deposit: the first point under "Observed without a run".

Fairness (`LiveSpec`): what the node has received and submitted is dealt with,
the interval timer runs the checker, closes end, and time passes. It is strong
fairness because a due callback runs however often another one comes first.
Nothing is assumed of the buyer, of requests or of connections. Deadlock is not
checked because the system may stop: all bounded actors may be done.

## 5. Disagreements between the code and what it says of itself

Each is a run that TLC refutes:

| Run | What happens |
|---|---|
| `reward_rounding` | DiemStakingProxy reserves each payout rounded down, and pays a staker the floor of the sum. After two payouts that the stake does not divide, the claims exceed the reserve: with RAY = 10^27, one staker of 3*10^18 and two payouts of 500*10^6 the reserve is 999999998 and the claim 999999999. claimUsdc reverts for the last claimer, and sweepOrphanUsdc takes the difference |
| `signing_race` | two NeedAuth handlers on one channel: the one that waits for evidence has read the amount before, and sends, stores and remembers a lower amount than the other one has sent |

### Observed without a run

The models reach these too. On the seller's side:

- A SpendingAuth above the deposit is accepted by the recovery from the chain
  (seller-payment-manager.ts:1619), and an authorization that comes with a close
  request is not checked against it either (:2481), though the comment at :841
  explains why a tracked channel must refuse it. The row then loses an earlier
  authorization that could be claimed, and what survives a restart shrinks. The
  proof of `DurableClaimKept` met this; TLC confirms it with a reserve of 1, a
  ceiling of 2 and two failing transactions.
- The timeout checker reads what is accepted, awaits the chain, and closes at the
  settled amount although an authorization was accepted meanwhile (:1928), which
  the comment at :440 sets out to prevent.
- After a restart the buyer of every stored channel counts as connected (:278);
  if it does not return, the signed amount is never claimed.
- The comment at seller-request-handler.ts:720 says that a request is counted "so a
  buyer-requested close can't land between serving the request and claiming its
  cost". It can: a request passes the session check at :497 and then waits for
  pending auths (:550) or for a signature (:589); when its buyer has no session at
  :724 it is served uncounted, a close is granted beside it, and its cost is
  recorded at :889 if the buyer has a session again by then. The close in flight
  does not pay for it. `closing.late` marks this, and `GrantedCloseSettlesAll`
  makes an exception for it.
- The recovery of an open channel writes what is settled so far as the row's
  settled_amount (seller-payment-manager.ts:1643), without a time. When the channel
  is later marked settled without an amount, the old one stays, and the sums over
  settled rows (channel-store.ts:403) count it: at most what was paid, and possibly
  less. `RecordedSettlementTrue` says this of an amount without a time.
- A deferred top-up that no acceptable SpendingAuth can retry; a session activated
  after its buyer has left.
- A timed-out channel may be recovered while the retry of its close is in flight.
  If that close then fails, the retry puts the row back to timed out (:2022) with
  the buyer still active: its requests are served without a budget check and are
  not billed. `ExposureBounded` holds because unbilled work is not recorded.
- An authorization accepted while a close with an older one is in flight is lost
  with the channel (:1754); a close that fails after a CloseRequested event is not
  retried by the poller, whose cursor has moved on (:2528); an event mined between
  the validation of the channels at startup and the reading of the cursor is never
  polled (node.ts:2479).
- The upsert of a row keeps the first deadline of a topped-up channel
  (channel-store.ts:153).
- On chain, unstake reverts while a slash is due and no protocol reserve is set
  (AntseedStaking.sol:118).

On the buyer's side:

- A ceiling that is not known reads as maxReserveAmountUsdc
  (buyer-payment-manager.ts:468), while the opening reserves what the seller
  suggests and no more than that (buyer-payment-negotiator.ts:1355). After a
  cleanup during the await of a handler, and after a start from a row without the
  state of the reserve, the buyer may sign above every ReserveAuth it has sent, up
  to that maximum; a top-up after a start with no confirmed reserve leads there
  too. The seller and the chain refuse such an amount. `reserveLost` marks these
  states, and `SignedWithinReserve` has the maximum as its bound in them.
- The comment at buyer-payment-manager.ts:365 says that the node's store does not
  keep the state of the reserve; it does (channel-store.ts:285, :748). `restart`
  has both cases, because rows written before that have none.

From the unordered handlers:

- *Paid twice*: a response whose NeedAuth was ignored as stale, because a 402 or
  another request's NeedAuth had covered it, is not counted, and a close request
  signs its full cost again. `OverpayBounded` states how far this goes.
- *Left short*: with a cost above the overdraft window, a NeedAuth judged on an
  old amount marks its request as paid though it is not. `ServedIsPaid` therefore
  speaks of work that fits the window and the opening reserve.
- The row falls behind what was sent, and a retired session is revived, by a
  handler or a top-up that commits the row it read before its await.

In AntseedSellerPools the comments at :35 and :481 say that an early withdrawal
takes effect in the next epoch; the code closes the position in the current one
(:519-522), and so does the model.

The proof of `ExpiredWithdrawable` found a gap there: a move with a penalty of
100%, which setMoveWeightPenalty allows (:751), or a move of dust under a smaller
one, leaves a position of weight zero (only splitStake refuses that, :319-320).
Its owner may enable the max lock, which writes a checkpoint of power zero and an
end of zero; disableMaxLock then takes it for not max-locked and reverts (:274),
withdrawStake reverts for want of an end (:530), and the principal cannot leave.
The property therefore speaks of positions with weight.

## 6. What is proved

The theorems hold for every value of the constants that satisfies the named
ASSUMEs (TLC evaluates them in the runs): amounts are natural numbers, rates are
at most 100%, a channel has a buyer and a seller, RAY is positive, an epoch fits
the tree, a buyer's requests are finitely many and are not named like its other
handlers. PROJECT.json lists them. Each safety theorem has the form
Spec => []P and rests on an inductive invariant that TLC was run on first.

### The contracts

`AntseedChannelsProofs`: `TypeOK`, `ReservedBacksChannels`, `Solvent`,
`SettlementFunded`, `ActiveCountExact`, `StakeBoundToAgent` as invariants and
`StakeStaysWhileServing` as an action property, for every number of buyers,
sellers, agents and channels. None is inductive alone. A release is a natural
number only because settled stays within the deposit; it fits into `reserved`
only because `reserved` is exactly the sum of the channels' locks; a charge fits
into `balance` only because `reserved <= balance`, and into the contract's USDC
only because that is the sum of the balances. A count can be decremented because
it is exact; a stake can be paid out because the stakes add up to what the
contract owns. Hence

    AccountsInv == TypeOK /\ SettledWithinDeposit /\ ReservedBacksChannels
                     /\ Solvent /\ ActiveCountExact /\ StakeBoundToAgent

with Init => AccountsInv (`InitInv`) and AccountsInv /\ [Next]_vars => AccountsInv'
(`NextInv`, one step per action). The step needs to know how a sum over all
channels, buyers or sellers changes when one summand changes: `SumTheorems`
proves that, and the linearity and monotonicity of sums, by induction over the
prefix.

`AntseedSettlementProofs` starts from AccountsInv. `StepKinds` sorts the steps by
what they do to channels (reserve, a spending of one channel, withdraw, another
Channels contract, nothing), and `ChargeOf` says what a spending charges, pays
and records; each theorem then has five cases:

- `PaidOnlyWhatWasSigned`: signatures are never taken back, and every amount a
  channel settles or locks was checked against one.
- `PayoutsConserved`, `FeeBounded`: what left the buyers is what sellers and the
  protocol got; the fee of each payment is at most the maximal share of it, and
  rounding each down keeps the sum below. Needs `UnusedClean`: a channel not yet
  opened has settled nothing.
- `UsageMatchesSnapshots`: a record adds to the seller's agent of that moment what
  it has more than the last one, so that the totals of a buyer over all agents are
  the sum of the last records, whatever agents were credited on the way.
- `ReputationEarned`: volumes, channels and ghosts of all agents together.
- `OperatorInstallsSigned`: every nonce below a buyer's current one is that of a
  message the buyer signed.
- `ChannelsMoveForward`, an action property.

`EscrowLedgerProofs` proves `ImplementsLedger`: the ledger's escrow of a channel is
deposit less settled while it is active; initial states map to initial states, and
each step of the contracts is a step of the ledger or a stutter. AccountsInv is
what makes the guards of the ledger's steps true.

### The buyer

`BuyerPaymentProofs`: `TypeOK`, which includes that a handler signs no less than it
read, `SignedWithinReserve`, `OverpayBounded` and `ServedIsPaid`, for any number of
requests, 402s, restarts and top-ups, at all prices. For `SignedWithinReserve`: a
handler acts on what it read before an await, so that the bound must hold of every
value that any handler holds, of the row, of a row a handler read earlier, of the
maps and of what a restart makes of the row (`RowBounded`, `MemBounded`,
`CallBounded`, together `BuyerInv`). The bound is `SignableReserve`: the largest
ReserveAuth sent, and the configured maximum as well once the manager lost track
of its reserve (`reserveLost`); it only grows. The opening reserves any amount up
to that maximum. Two parts are subtle. `OpeningOnly`: an acknowledgement turns a
pending ReserveAuth into the ceiling only if none was confirmed before, and such a
one is the opening ReserveAuth or a top-up by a manager that had lost it, within
the bound either way. `CeilingBounded`: a ceiling of 0, from which a top-up leads
straight to the configured maximum, occurs only after such a loss.

`OverpayBounded` rests on a second invariant on top of it, `OweInv`: the bound
(`PayLimit`: what was served, less than minBudgetPerRequest per 402, the largest
price per close request) holds of the row, of the maps and of every amount a
suspended handler holds or read; NeedAuths on the wire and handlers that wait ask
for no more than was served; every cost and every unpaid remainder is at most the
largest price. Two facts carry the steps that sign without a NeedAuth. A recovery
signs only while less than its target is signed, so it adds less than
minBudgetPerRequest to what was served, and it was counted in `extends` when it
began. A close request signs at most the cost of the last response on top of what
is signed, and was counted when it began. There is a largest price because the requests are finitely many
(`FiniteMax`).

`ServedIsPaid` rests on a third, `PaidInv`: while nothing disturbs the handlers (no
restart, 402 or refused NeedAuth, and all that was served fits the window and the
opening reserve), either all that was served is accepted, or some NeedAuth on the
wire, waiting handler or signing handler carries at least that much (`Paying`).
Keeping it needs that no handler drops such an amount for a wrong reason: what a
handler compares its NeedAuth with was sent (`CallPlain`), so a NeedAuth ignored as
stale is one already paid; the session it read is active as long as the seller's
channel is open; and the ceiling it is clamped to is at least the opening reserve
(`ReservePlain`), which needs that no handler that writes back an old row changes
what the opening reserved (`OpeningInv`). When all handlers have ended, only the
first alternative is left.

### The seller's node

`PaymentSessionProofs`: `TypeOK`, `ReserveNeverOverstated`, `ExposureBounded`,
`RecordedSettlementTrue`, `GrantedCloseSettlesAll` as invariants and
`DurableClaimKept` as an action property, for all reserves, costs, retry limits,
numbers of requests, messages, failures, connections and restarts. They share one
inductive invariant, because each needs what the others say:

    Inv == Typed /\ SessionInv(node, ch, wire, buyer)
    SessionInv == Counted /\ OnChain /\ Reserved /\ Settlements /\ Authorizations
                    /\ Exposure /\ Ordered /\ Queued /\ Waiting /\ Granted

- `Authorizations`: the amount in memory is the stored one; what is settled, what a
  close in flight carries, what the timeout checker read and what a top-up would
  settle are all at most the stored amount; and the stored signature is for that
  amount, or the amount is already settled.
- `Ordered`: amounts in the lock's queue and on the wire come in the order in which
  they were signed, none below the stored one, and a close request's attached amount
  is at most that of each auth behind it. This is why an authorization that replaces
  another one without comparing them (the recovery) is never lower.
- `Exposure`: a request counts with the bound on its cost from the moment it may no
  longer be refused for its budget: each one in flight, counted or not, each one
  that waits for pending auths, and each one parked in awaitAcceptedAtLeast. A parked
  one decides with what it read before waiting, so it counts against that or against
  what is accepted, whichever it will be admitted on; the requests behind it in the
  queue count too.
- `Waiting` and `Queued`: who awaits the close in flight. At most one waiter is the
  timeout checker, a waiter for a top-up holds the lock, a zombie's retry count is
  below its limit; the counters stay within bounds only for these reasons.
- `Granted`: while a close granted to the buyer is in flight no counted request is,
  or nothing can be billed, because the row is no longer active and the recovery that
  would reactivate it cannot happen. What an uncounted request bills meanwhile sets
  `late`.
- `Settlements`: a settled row is of an ended channel; an amount stored with a time is
  the paid one; one stored without a time is at most the settled one, which only
  grows, as long as the channel is open.
- `Reserved`, `OnChain`, `Counted`: what the row and the maps say
  agrees with the chain, or errs on the safe side.

A handler is a function on the node's record, and the invariant a predicate on
that record: frame lemmas (`FrameKeeps`, `ForgetKeeps`, `RowKeeps`, `CloseKeeps`,
`DequeueKeeps`, `ActivateKeeps`, ...) say which parts of it each kind of update
keeps, a lemma per action composes them, and `NextStepped` collects the actions.
The end of a close (`FinishCloseKeeps`) continues all waiters in turn, a recursion
over the sequence of waiters: `ContinueWaitersKeeps` follows the invariant of the
node without the close (`Closed`) from one waiter to the next, by induction as the
search for a first waiter that breaks it. A transaction changes the chain's record
only forward and never settles above the stored amount (`After`), which is all the
node's invariant needs to know of it.

### The staking proxy

`DiemStakingProofs`, for all numbers of stakers, batches and epochs, and every RAY:

- `PrincipalBacked`: with `BatchesInOrder`, that batches are flushed and claimed in
  order and at most one is cooling down.
- `ClaimsWithinInflow` and `EarnedNeverLost`: in units of 1/RAY, what a staker is
  due is `Due(u)`: paid, credited, and the share since its last call. A payout adds
  to all dues together at most RAY times its net amount, and no other step adds.
- `EpochPointsWithinRevenue`: the same for the points of each epoch, where a
  staker's share of an epoch may be captured epochs later: `PointsDue(u, n)` counts
  the captured points and those the recorded ends of the epochs still give.
- `ClaimedEpochsFinal`: a staker's cursor is never ahead of the closed epochs
  (`CursorsBehind`), and an epoch is claimed only behind it.

### The pools

`SellerPoolsProofs`: `StakeBacked`, `ExpiredWithdrawable` and the action property
`PastPowerFrozen`, for all stakers, agents, amounts, lock lengths and settings.
An operation of the contract is a chain of internal functions, and so is the
proof: what each function does to the storage is a lemma (`RemoveEffect` for
swap-and-pop, `CreateEffect`, `CloseEffect`, ...), each link of a chain keeps

    Books(s, h)      ids in order; lists and indexes inverse to each other;
                     totals and balance h equal to the principal of the positions
    LocksKept(s, e)  what the checkpoints of an open position may be in epoch e
    Frozen(s, s0, e) the weights up to e are those of the storage s0 at the start

(`SoundClose`, `SoundCreate`, `Relocking`, `HandedSound`), and the operations
compose them. `LockKept` is the strengthening that `ExpiredWithdrawable` needs:
from the next epoch on the checkpoints are constant; a position with weight has
an end exactly where it is not max-locked; the end in force is the stored one; and
an end that only starts next epoch lies beyond it. The last is why a position past
its end has no change pending and withdrawStake does not refuse it.

## 7. Only model-checked

- Liveness (fairness and ENABLED are out of the prover's reach):
  `RequestedCloseCompletes`, `DisconnectedChannelCloses`, `FlushedBatchPaid`.
- `PoolPowerExact`: it rests on the arithmetic of powers of two, for which the
  provers have no theory (`lowBit` is defined with `2^k`): that the nodes
  `_fenwickAdd` visits from i and those a prefix sum up to j visits have exactly
  one node in common when i <= j, and none otherwise.
- `NoSlashDodge`: it compares quotients of sums whose summands a split or merge
  replaces; it has not been proved yet.
- The two refuted properties of section 5.

## 8. Abstractions, and what is not modelled

Contracts: signatures cannot be forged; USDC neither fails nor takes a fee;
amounts stay below 2^128; the emissions hook of a settlement is left out; the
metadata has two counters where the code has three.

Node: one buyer and one session channel. A read of the chain is answered when its
continuation runs; a failed read is a task that did not start. The idle settle is
one step. Requests that wait for the same thing go on in the order they came. For
a blocked channel with nothing accepted, closeSessionWhenIdle reads the chain
(:2188) and closes (:2190) in one step; what blocks a channel in the model is a
failed top-up of one with an accepted amount, and blockChannelForBuyer, which
blocks others, is not modelled, so the runs do not come there. A transaction still
in the mempool long after a restart is not modelled: it is mined when the process
stops, or never. The check at startup is one of the later passes; two passes at
once are not modelled. A row keeps its deadline when it is written again, as the
upsert does. The buyer of `PaymentSession` chooses to sign or not; its window and
its counting are in `BuyerPaymentManager`.

Buyer: one seller and one channel; the chain's answer to a recovery and the two
commits that follow it (reconcileReserveAmount, resendPendingReserveAuth) are one
step, since the node's store commits synchronously and a pending ReserveAuth is
signed anew only near its deadline; a close request is committed, sent and
answered, or not answered, in one step, and close requests and 402s exclude each
other; a claimed cost agrees with the buyer's own estimate or is refused
(`disputed`); a retired channel is not followed by a fresh one; the 402 of a
seller that does not know the channel is in `PaymentSession`.

Proxy and pools: a position is not transferred to its own staker, which changes
nothing; tokens neither fail nor take a fee; ANTS pots are chosen freely when an
epoch is funded, and the points that share them are exact while the division that
pays them is not modelled further; an agent is always a registered seller; epochs
advance one at a time.

Not modelled yet: replacement of a superseded channel, one-off channels (a video
job's own channel), blockChannelForBuyer, serveWhileClosePending and
settleOnDisconnect away from their defaults, the grace for channels not yet
visible, the cache behind minSettleDelta. Not modelled at all, with the reason in
PROJECT.json: free usage, emissions and their rewards, the seller registry, relay,
verification and policies, transport, discovery, routing, reputation, apps and
plugins. Most of the repository's lines are in these applications and in user
interfaces, which have no protocol state of their own.

## 9. Plan

Done: the payment contracts, with all their safety properties and the refinement
proved; the seller's side with one buyer, with all its safety properties proved;
the buyer's signing, the staking proxy and the seller pools with their main safety
properties proved.

1. Proofs: the properties left in section 7.
2. Superseded and one-off channels in `SellerPaymentManager`: two channels of one
   buyer, at most one active on chain.
3. `AntseedFreeUsage` and the free-tier limiter; the rewards that are computed
   from pool power and usage.
4. The authenticated connection handshake.
