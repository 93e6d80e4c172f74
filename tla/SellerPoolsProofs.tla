-------------------------- MODULE SellerPoolsProofs --------------------------
(***************************************************************************)
(* Proofs about AntseedSellerPools, for every set of stakers and agents,   *)
(* all amounts and lock lengths, and every configuration the owner may     *)
(* set.                                                                    *)
(***************************************************************************)
EXTENDS AntseedSellerPools, SumTheorems, SequenceTheorems, TLAPS

(***************************************************************************)
(* The inductive invariant.  Its parts are stated of a storage s, since an *)
(* operation takes the storage through several internal functions, each of *)
(* which leaves the books balanced.                                        *)
(***************************************************************************)
PositionType ==
  [owner: Stakers \cup {NoStaker}, agentId: Agents \cup {NoAgent}, amount: Nat,
   weightAmount: Nat, stakeStartEpoch: Nat, stakeEndEpoch: Nat, closedAtEpoch: Nat,
   withdrawn: BOOLEAN]
NatTrace == [Epochs -> Nat]
IntTrace == [Epochs -> Int]
Node == [amount: Int, weightedEnd: Int]
Tree == [Indexes -> Node]

Storage ==
  [positions: [Positions -> PositionType], nextPositionId: 1..MaxPositions + 1,
   ownerOf: [Positions -> Stakers \cup {NoStaker}], withdrawableEpoch: [Positions -> Nat],
   maxLockPower: [Positions -> NatTrace], normalStart: [Positions -> NatTrace],
   normalEnd: [Positions -> NatTrace],
   poolTree: [Agents -> Tree], totalTree: Tree,
   poolMaxLock: [Agents -> IntTrace], totalMaxLock: IntTrace,
   positionIds: [Stakers -> Seq(Positions)], positionIndex: [Positions -> Nat],
   totalStake: [Stakers -> Int], agentStake: [Stakers -> [Agents -> Int]]]

Owned(s, p) == s.ownerOf[p] # NoStaker

(* Ids are given out in order, and the token of a position exists exactly  *)
(* while the position is open, in the hands of its owner.                  *)
FreshPosition(s, p) ==
  /\ s.positions[p] = NoPosition /\ s.ownerOf[p] = NoStaker /\ s.withdrawableEpoch[p] = 0
  /\ s.maxLockPower[p] = EmptyTrace /\ s.normalStart[p] = EmptyTrace /\ s.normalEnd[p] = EmptyTrace

PositionsKnown(s) ==
  \A p \in Positions :
    /\ p >= s.nextPositionId => FreshPosition(s, p)
    /\ s.positions[p].owner # NoStaker => s.positions[p].agentId \in Agents
    /\ Owned(s, p) => /\ s.positions[p].owner = s.ownerOf[p]
                      /\ ~s.positions[p].withdrawn /\ s.positions[p].closedAtEpoch = 0

(* The list of a staker and the indexes of its positions are inverse to    *)
(* each other.                                                             *)
Listed(ownerOf, positionIds, positionIndex) ==
  \A u \in Stakers :
    /\ \A i \in 1..Len(positionIds[u]) :
         ownerOf[positionIds[u][i]] = u /\ positionIndex[positionIds[u][i]] = i
    /\ \A p \in Positions : ownerOf[p] = u =>
         positionIndex[p] \in 1..Len(positionIds[u]) /\ positionIds[u][positionIndex[p]] = p
ListsExact(s) == Listed(s.ownerOf, s.positionIds, s.positionIndex)

(* The principal of the positions that stakers in U have behind agents in A.*)
Principal(s, U, A) ==
  [p \in Positions |-> IF s.ownerOf[p] \in U /\ s.positions[p].agentId \in A
                       THEN s.positions[p].amount ELSE 0]
StakeIn(s, U, A) == Sum(Principal(s, U, A), MaxPositions)

TotalsExact(s, h) ==
  /\ h = StakeIn(s, Stakers, Agents)
  /\ \A u \in Stakers : s.totalStake[u] = StakeIn(s, {u}, Agents)
  /\ \A u \in Stakers, a \in Agents : s.agentStake[u][a] = StakeIn(s, {u}, {a})

(* The checkpoints of an open position, in epoch now: from the next epoch  *)
(* on (or from its start) they do not change any more; a position with     *)
(* weight is either max-locked or has an end, and the end that is in force *)
(* then is the one that it stores.  If that end is new in the next epoch,  *)
(* it lies behind it.                                                      *)
Effective(s, p, now) == Later(now + 1, s.positions[p].stakeStartEpoch)

LockKept(s, p, now) ==
  LET position == s.positions[p]
      start == position.stakeStartEpoch
      ahead == Effective(s, p, now)
  IN  /\ start < position.stakeEndEpoch /\ position.stakeEndEpoch \in Epochs
      /\ s.withdrawableEpoch[p] <= start
      /\ \A e \in Epochs : e >= ahead =>
           /\ s.maxLockPower[p][e] = s.maxLockPower[p][ahead]
           /\ s.normalStart[p][e] = s.normalStart[p][ahead]
           /\ s.normalEnd[p][e] = s.normalEnd[p][ahead]
      /\ \A e \in Epochs : e >= start /\ position.weightAmount # 0 =>
           (s.maxLockPower[p][e] = 0 <=> s.normalEnd[p][e] # 0)
      /\ s.normalEnd[p][ahead] \in {0, position.stakeEndEpoch}
      /\ \A e \in Epochs : s.maxLockPower[p][e] # 0 => start <= e
      /\ start <= now =>
           \/ 0 \in {s.normalEnd[p][now], s.normalEnd[p][now + 1]}
           \/ s.normalEnd[p][now] = s.normalEnd[p][now + 1]
           \/ position.stakeEndEpoch > now + 1

LocksKept(s, now) == \A p \in Positions : Owned(s, p) => LockKept(s, p, now)

Books(s, h) == s \in Storage /\ PositionsKnown(s) /\ ListsExact(s) /\ TotalsExact(s, h)

PoolsInv ==
  /\ Books(pools, held) /\ LocksKept(pools, epoch)
  /\ config \in Config /\ epoch \in 0..MaxEpoch

-----------------------------------------------------------------------------
(* What the internal functions do to the storage.                          *)

LEMMA FenwickAddType ==
  ASSUME NEW tree \in Tree, NEW e, NEW amount \in Int, NEW weightedEnd \in Int
  PROVE  fenwickAdd(tree, e, amount, weightedEnd) \in Tree
BY DEF fenwickAdd, Tree, Node

LEMMA RangeDeltaType ==
  ASSUME NEW tree \in Tree, NEW start, NEW end \in Int, NEW amount \in Int
  PROVE  applyRangeDelta(tree, start, end, amount) \in Tree
<1>1. amount * end \in Int /\ -amount \in Int /\ -(amount * end) \in Int
  OBVIOUS
<1> QED BY <1>1, FenwickAddType DEF applyRangeDelta

LEMMA PushType ==
  ASSUME NEW key \in Int
  PROVE  /\ \A trace \in NatTrace, value \in Nat : push(trace, key, value) \in NatTrace
         /\ \A trace \in IntTrace, value \in Int : push(trace, key, value) \in IntTrace
BY DEF push, NatTrace, IntTrace

(* The storage but for the trees and the max-lock totals of the pools.     *)
SameTerms(r, s) ==
  /\ r.positions = s.positions /\ r.nextPositionId = s.nextPositionId
  /\ r.withdrawableEpoch = s.withdrawableEpoch /\ r.maxLockPower = s.maxLockPower
  /\ r.normalStart = s.normalStart /\ r.normalEnd = s.normalEnd
SameLists(r, s) == r.positionIds = s.positionIds /\ r.positionIndex = s.positionIndex
SameTotals(r, s) == r.totalStake = s.totalStake /\ r.agentStake = s.agentStake
SameBooks(r, s) ==
  SameTerms(r, s) /\ SameLists(r, s) /\ SameTotals(r, s) /\ r.ownerOf = s.ownerOf

(* A change of power touches the trees only. *)
LEMMA PowerRangeEffect ==
  ASSUME NEW s \in Storage, NEW agent \in Agents, NEW start, NEW end \in Int, NEW amount \in Int
  PROVE  LET r == applyPowerRange(s, agent, start, end, amount)
         IN  r \in Storage /\ SameBooks(r, s)
<1> DEFINE pool == applyRangeDelta(s.poolTree[agent], start, end, amount)
           total == applyRangeDelta(s.totalTree, start, end, amount)
           r == applyPowerRange(s, agent, start, end, amount)
<1>1. s.poolTree \in [Agents -> Tree] /\ s.totalTree \in Tree
  BY DEF Storage
<1>2. pool \in Tree /\ total \in Tree
  BY <1>1, RangeDeltaType
<1>3. r = [s EXCEPT !.poolTree = [@ EXCEPT ![agent] = pool], !.totalTree = total]
  BY DEF applyPowerRange
<1> HIDE DEF pool, total, r
<1>4. [s.poolTree EXCEPT ![agent] = pool] \in [Agents -> Tree]
  BY <1>1, <1>2
<1>5. r \in Storage
  BY <1>2, <1>3, <1>4 DEF Storage
<1>6. SameBooks(r, s)
  BY <1>3 DEF Storage, SameBooks, SameTerms, SameLists, SameTotals
<1> QED BY <1>5, <1>6 DEF r

LEMMA MaxLockEffect ==
  ASSUME NEW s \in Storage, NEW agent \in Agents, NEW e \in Int, NEW amount \in Int
  PROVE  LET r == applyMaxLockWeightAmount(s, agent, e, amount)
         IN  r \in Storage /\ SameBooks(r, s)
<1> DEFINE pool == push(s.poolMaxLock[agent], e, latest(s.poolMaxLock[agent]) + amount)
           total == push(s.totalMaxLock, e, latest(s.totalMaxLock) + amount)
           r == applyMaxLockWeightAmount(s, agent, e, amount)
<1>1. s.poolMaxLock \in [Agents -> IntTrace] /\ s.totalMaxLock \in IntTrace
  BY DEF Storage
<1>2. \A trace \in IntTrace : latest(trace) \in Int
  BY PoolsAssumption DEF latest, IntTrace, Epochs
<1>a. s.poolMaxLock[agent] \in IntTrace
  BY <1>1
<1>b. latest(s.poolMaxLock[agent]) + amount \in Int /\ latest(s.totalMaxLock) + amount \in Int
  BY <1>1, <1>2, <1>a
<1>3. pool \in IntTrace /\ total \in IntTrace
  BY <1>1, <1>a, <1>b, PushType
<1>4. r = [s EXCEPT !.poolMaxLock = [@ EXCEPT ![agent] = pool], !.totalMaxLock = total]
  BY DEF applyMaxLockWeightAmount
<1> HIDE DEF pool, total, r
<1>5. [s.poolMaxLock EXCEPT ![agent] = pool] \in [Agents -> IntTrace]
  BY <1>1, <1>3
<1>6. r \in Storage
  BY <1>3, <1>4, <1>5 DEF Storage
<1>7. SameBooks(r, s)
  BY <1>4 DEF Storage, SameBooks, SameTerms, SameLists, SameTotals
<1> QED BY <1>6, <1>7 DEF r

(* An appended position is the last of its list. *)
LEMMA AddEffect ==
  ASSUME NEW s \in Storage, NEW u \in Stakers, NEW p \in Positions
  PROVE  LET r == addStakerPosition(s, u, p) IN
         /\ r \in Storage /\ SameTerms(r, s) /\ SameTotals(r, s) /\ r.ownerOf = s.ownerOf
         /\ r.positionIds = [s.positionIds EXCEPT ![u] = Append(s.positionIds[u], p)]
         /\ r.positionIndex = [s.positionIndex EXCEPT ![p] = Len(s.positionIds[u]) + 1]
<1> DEFINE ids == [s.positionIds EXCEPT ![u] = Append(s.positionIds[u], p)]
           index == [s.positionIndex EXCEPT ![p] = Len(s.positionIds[u]) + 1]
           r == addStakerPosition(s, u, p)
<1>1. s.positionIds[u] \in Seq(Positions) /\ s.positionIds \in [Stakers -> Seq(Positions)]
      /\ s.positionIndex \in [Positions -> Nat]
  BY DEF Storage
<1>2. Len(s.positionIds[u]) + 1 \in Nat /\ Append(s.positionIds[u], p) \in Seq(Positions)
  BY <1>1
<1>3. r = [s EXCEPT !.positionIds = ids, !.positionIndex = index]
  BY DEF addStakerPosition
<1>4. ids \in [Stakers -> Seq(Positions)] /\ index \in [Positions -> Nat]
  BY <1>1, <1>2
<1> HIDE DEF ids, index, r
<1>5. r \in Storage
  BY <1>3, <1>4 DEF Storage
<1>6. SameTerms(r, s) /\ SameTotals(r, s) /\ r.ownerOf = s.ownerOf
  BY <1>3 DEF Storage, SameTerms, SameTotals
<1>7. r.positionIds = ids /\ r.positionIndex = index
  BY <1>3 DEF Storage
<1> QED BY <1>5, <1>6, <1>7 DEF ids, index, r

(* What a list is after its last element took the place of another one.    *)
Shortened(short, ids, index) ==
  /\ short \in Seq(Positions) /\ Len(short) = Len(ids) - 1
  /\ \A i \in 1..Len(ids) - 1 : short[i] = IF i = index THEN ids[Len(ids)] ELSE ids[i]

LEMMA SwapAndPop ==
  ASSUME NEW ids \in Seq(Positions), NEW index \in 1..Len(ids)
  PROVE  /\ Shortened(SubSeq([ids EXCEPT ![index] = ids[Len(ids)]], 1, Len(ids) - 1), ids, index)
         /\ index = Len(ids) => Shortened(SubSeq(ids, 1, Len(ids) - 1), ids, index)
         /\ Len([ids EXCEPT ![index] = ids[Len(ids)]]) = Len(ids)
<1> DEFINE n == Len(ids)
           swapped == [ids EXCEPT ![index] = ids[n]]
<1>1. n \in Nat /\ n >= 1 /\ ids[n] \in Positions
  OBVIOUS
<1>2. swapped \in Seq(Positions) /\ Len(swapped) = n
  BY <1>1
<1>3. \A i \in 1..n : swapped[i] = IF i = index THEN ids[n] ELSE ids[i]
  BY <1>1
<1>4. ASSUME NEW seq \in Seq(Positions), Len(seq) = n
      PROVE  /\ SubSeq(seq, 1, n - 1) \in Seq(Positions)
             /\ Len(SubSeq(seq, 1, n - 1)) = n - 1
             /\ \A i \in 1..n - 1 : SubSeq(seq, 1, n - 1)[i] = seq[i]
  BY <1>1, <1>4
<1> HIDE DEF swapped, n
<1>5. Shortened(SubSeq(swapped, 1, n - 1), ids, index)
  BY <1>1, <1>2, <1>3, <1>4 DEF Shortened, n
<1>6. index = n => Shortened(SubSeq(ids, 1, n - 1), ids, index)
  BY <1>1, <1>4 DEF Shortened, n
<1> QED BY <1>2, <1>5, <1>6 DEF swapped, n

(* Swap-and-pop over a list in which the position is at its index.         *)
LEMMA RemoveEffect ==
  ASSUME NEW s \in Storage, NEW u \in Stakers, NEW p \in Positions,
         s.positionIndex[p] \in 1..Len(s.positionIds[u]),
         s.positionIds[u][s.positionIndex[p]] = p
  PROVE  LET r == removeStakerPosition(s, u, p)
             ids == s.positionIds[u]
         IN
         /\ r \in Storage /\ SameTerms(r, s) /\ SameTotals(r, s) /\ r.ownerOf = s.ownerOf
         /\ r.positionIds = [s.positionIds EXCEPT ![u] = r.positionIds[u]]
         /\ Shortened(r.positionIds[u], ids, s.positionIndex[p])
         /\ \A q \in Positions : r.positionIndex[q] =
              IF q = p THEN 0
              ELSE IF q = ids[Len(ids)] THEN s.positionIndex[p] ELSE s.positionIndex[q]
<1> DEFINE ids == s.positionIds[u]
           n == Len(ids)
           index == s.positionIndex[p]
           swapped == IF index = n THEN ids ELSE [ids EXCEPT ![index] = ids[n]]
           short == SubSeq(swapped, 1, n - 1)
           r == removeStakerPosition(s, u, p)
           back == IF index = n THEN s.positionIndex ELSE [s.positionIndex EXCEPT ![ids[n]] = index]
           rids == [s.positionIds EXCEPT ![u] = short]
           rindex == [back EXCEPT ![p] = 0]
<1>1. ids \in Seq(Positions) /\ s.positionIds \in [Stakers -> Seq(Positions)]
      /\ s.positionIndex \in [Positions -> Nat] /\ n \in Nat /\ index \in 1..n
  BY DEF Storage
<1>2. ids[n] \in Positions
  BY <1>1
<1>3. Shortened(short, ids, index) /\ Len(swapped) = n
  BY <1>1, SwapAndPop
<1>4. short \in Seq(Positions)
  BY <1>3 DEF Shortened
<1>5. r = [s EXCEPT !.positionIds = rids, !.positionIndex = rindex]
  <2>1. CASE index = n
    BY <1>1, <1>3, <2>1 DEF removeStakerPosition, Storage
  <2>2. CASE index # n
    <3> DEFINE moved == [s EXCEPT !.positionIds[u][index] = ids[n], !.positionIndex[ids[n]] = index]
    <3>1. moved.positionIds = [s.positionIds EXCEPT ![u] = swapped]
      BY <2>2 DEF Storage
    <3>2. moved.positionIndex = back
      BY <2>2 DEF Storage
    <3>3. moved.positionIds[u] = swapped
      BY <3>1, <1>1
    <3>4. r = [moved EXCEPT !.positionIds[u] = SubSeq(moved.positionIds[u], 1, Len(moved.positionIds[u]) - 1),
                            !.positionIndex[p] = 0]
      BY <2>2 DEF removeStakerPosition
    <3>5. moved = [s EXCEPT !.positionIds = moved.positionIds, !.positionIndex = moved.positionIndex]
      BY DEF Storage
    <3>6. [moved.positionIds EXCEPT ![u] = short] = rids
      BY <3>1, <1>1
    <3> HIDE DEF moved, swapped, back, r
    <3>7. r = [moved EXCEPT !.positionIds[u] = short, !.positionIndex[p] = 0]
      BY <3>3, <3>4, <1>3
    <3> QED BY <3>2, <3>5, <3>6, <3>7 DEF Storage
  <2> QED BY <2>1, <2>2
<1>6. rids \in [Stakers -> Seq(Positions)] /\ rindex \in [Positions -> Nat]
  BY <1>1, <1>2, <1>4
<1>7. \A q \in Positions : rindex[q] = IF q = p THEN 0 ELSE IF q = ids[n] THEN index ELSE s.positionIndex[q]
  BY <1>1, <1>2
<1>8. rids[u] = short
  BY <1>1
<1> HIDE DEF rids, rindex, r, short
<1>9. r \in Storage
  BY <1>5, <1>6 DEF Storage
<1>10. SameTerms(r, s) /\ SameTotals(r, s) /\ r.ownerOf = s.ownerOf
  BY <1>5 DEF Storage, SameTerms, SameTotals
<1>11. r.positionIds = rids /\ r.positionIndex = rindex
  BY <1>5 DEF Storage
<1> QED BY <1>3, <1>7, <1>8, <1>9, <1>10, <1>11 DEF rids, r

LEMMA ListedAfterAdd ==
  ASSUME NEW ownerOf \in [Positions -> Stakers \cup {NoStaker}],
         NEW ids \in [Stakers -> Seq(Positions)], NEW index \in [Positions -> Nat],
         Listed(ownerOf, ids, index),
         NEW u \in Stakers, NEW p \in Positions, ownerOf[p] = NoStaker
  PROVE  Listed([ownerOf EXCEPT ![p] = u], [ids EXCEPT ![u] = Append(ids[u], p)],
                [index EXCEPT ![p] = Len(ids[u]) + 1])
<1> DEFINE o == [ownerOf EXCEPT ![p] = u]
           l == [ids EXCEPT ![u] = Append(ids[u], p)]
           x == [index EXCEPT ![p] = Len(ids[u]) + 1]
           n == Len(ids[u])
<1>0. NoStaker \notin Stakers
  BY PoolsAssumption
<1>1. /\ \A v \in Stakers : ids[v] \in Seq(Positions) /\ Len(ids[v]) \in Nat
      /\ \A v \in Stakers : \A i \in 1..Len(ids[v]) : ids[v][i] \in Positions
  OBVIOUS
<1>2. /\ l[u] \in Seq(Positions) /\ Len(l[u]) = n + 1 /\ l[u][n + 1] = p
      /\ \A i \in 1..n : l[u][i] = ids[u][i]
      /\ \A v \in Stakers : v # u => l[v] = ids[v]
  BY <1>1
<1>3. \A q \in Positions : q # p => o[q] = ownerOf[q] /\ x[q] = index[q]
  OBVIOUS
<1>4. o[p] = u /\ x[p] = n + 1
  OBVIOUS
<1>5. \A v \in Stakers : \A i \in 1..Len(ids[v]) : ids[v][i] # p
  BY <1>0 DEF Listed
<1> HIDE DEF o, l, x
<1>6. ASSUME NEW v \in Stakers, NEW i \in 1..Len(l[v])
      PROVE  o[l[v][i]] = v /\ x[l[v][i]] = i
  <2>1. CASE v = u /\ i = n + 1
    BY <1>2, <1>4, <2>1
  <2>2. CASE ~(v = u /\ i = n + 1)
    <3>1. CASE v = u
      <4>1. i \in 1..n
        BY <1>1, <1>2, <2>2, <3>1
      <4>2. l[v][i] = ids[v][i] /\ i \in 1..Len(ids[v])
        BY <1>2, <3>1, <4>1
      <4>3. ids[v][i] \in Positions /\ ids[v][i] # p
        BY <1>1, <1>5, <4>2
      <4>4. ownerOf[ids[v][i]] = v /\ index[ids[v][i]] = i
        BY <4>2 DEF Listed
      <4> QED BY <1>3, <4>2, <4>3, <4>4
    <3>2. CASE v # u
      <4>2. l[v][i] = ids[v][i] /\ i \in 1..Len(ids[v])
        BY <1>2, <3>2
      <4>3. ids[v][i] \in Positions /\ ids[v][i] # p
        BY <1>1, <1>5, <4>2
      <4>4. ownerOf[ids[v][i]] = v /\ index[ids[v][i]] = i
        BY <4>2 DEF Listed
      <4> QED BY <1>3, <4>2, <4>3, <4>4
    <3> QED BY <3>1, <3>2
  <2> QED BY <2>1, <2>2
<1>7. ASSUME NEW v \in Stakers, NEW q \in Positions, o[q] = v
      PROVE  x[q] \in 1..Len(l[v]) /\ l[v][x[q]] = q
  <2>1. CASE q = p
    BY <1>1, <1>2, <1>4, <1>7, <2>1
  <2>2. CASE q # p
    <3>1. index[q] \in 1..Len(ids[v]) /\ ids[v][index[q]] = q /\ x[q] = index[q]
      BY <1>3, <1>7, <2>2 DEF Listed
    <3>2. CASE v = u
      <4>1. index[q] \in 1..n /\ index[q] \in 1..n + 1
        BY <1>1, <3>1, <3>2
      <4> QED BY <1>2, <3>1, <3>2, <4>1
    <3>3. CASE v # u
      BY <1>2, <3>1, <3>3
    <3> QED BY <3>2, <3>3
  <2> QED BY <2>1, <2>2
<1> QED BY <1>6, <1>7 DEF Listed, o, l, x

LEMMA ListedAfterRemove ==
  ASSUME NEW ownerOf \in [Positions -> Stakers \cup {NoStaker}],
         NEW ids \in [Stakers -> Seq(Positions)], NEW index \in [Positions -> Nat],
         Listed(ownerOf, ids, index),
         NEW u \in Stakers, NEW p \in Positions, ownerOf[p] = u,
         NEW short, Shortened(short, ids[u], index[p]),
         NEW x, \A q \in Positions : x[q] =
                  IF q = p THEN 0
                  ELSE IF q = ids[u][Len(ids[u])] THEN index[p] ELSE index[q]
  PROVE  Listed([ownerOf EXCEPT ![p] = NoStaker], [ids EXCEPT ![u] = short], x)
<1> DEFINE o == [ownerOf EXCEPT ![p] = NoStaker]
           l == [ids EXCEPT ![u] = short]
           n == Len(ids[u])
           last == ids[u][n]
<1>0. NoStaker \notin Stakers
  BY PoolsAssumption
<1>1. /\ \A v \in Stakers : ids[v] \in Seq(Positions) /\ Len(ids[v]) \in Nat
      /\ \A v \in Stakers : \A i \in 1..Len(ids[v]) : ids[v][i] \in Positions
  OBVIOUS
<1>2. index[p] \in 1..n /\ ids[u][index[p]] = p /\ n \in Nat
  BY <1>1 DEF Listed
<1>3. last \in Positions /\ ownerOf[last] = u /\ index[last] = n
  BY <1>1, <1>2 DEF Listed
<1>4. /\ Len(l[u]) = n - 1
      /\ \A i \in 1..n - 1 : l[u][i] = IF i = index[p] THEN last ELSE ids[u][i]
      /\ \A v \in Stakers : v # u => l[v] = ids[v]
  BY DEF Shortened
<1>5. /\ o[p] = NoStaker /\ \A q \in Positions : q # p => o[q] = ownerOf[q]
  OBVIOUS
<1> HIDE DEF o, l, last, n
<1>6. ASSUME NEW v \in Stakers, NEW i \in 1..Len(l[v])
      PROVE  o[l[v][i]] = v /\ x[l[v][i]] = i
  <2>1. CASE v # u
    <3>1. l[v][i] = ids[v][i] /\ i \in 1..Len(ids[v]) /\ ids[v][i] \in Positions
      BY <1>1, <1>4, <2>1
    <3>2. ownerOf[ids[v][i]] = v /\ index[ids[v][i]] = i
      BY <3>1 DEF Listed
    <3>3. ids[v][i] # p /\ ids[v][i] # last
      BY <1>3, <2>1, <3>2
    <3> QED BY <1>5, <3>1, <3>2, <3>3 DEF last, n
  <2>2. CASE v = u /\ i = index[p]
    <3>1. i \in 1..n - 1 /\ l[v][i] = last /\ i # n
      BY <1>2, <1>4, <2>2
    <3>2. last # p
      BY <1>2, <1>3, <2>2, <3>1
    <3> QED BY <1>3, <1>5, <2>2, <3>1, <3>2 DEF last, n
  <2>3. CASE v = u /\ i # index[p]
    <3>1. i \in 1..n - 1 /\ i \in 1..n /\ l[v][i] = ids[u][i]
      BY <1>2, <1>4, <2>3
    <3>2. ids[u][i] \in Positions /\ ownerOf[ids[u][i]] = u /\ index[ids[u][i]] = i
      BY <1>1, <3>1 DEF Listed, n
    <3>3. ids[u][i] # p /\ ids[u][i] # last
      BY <1>2, <1>3, <2>3, <3>1, <3>2
    <3> QED BY <1>5, <2>3, <3>1, <3>2, <3>3 DEF last, n
  <2> QED BY <2>1, <2>2, <2>3
<1>7. ASSUME NEW v \in Stakers, NEW q \in Positions, o[q] = v
      PROVE  x[q] \in 1..Len(l[v]) /\ l[v][x[q]] = q
  <2>1. q # p /\ ownerOf[q] = v
    BY <1>0, <1>5, <1>7
  <2>2. index[q] \in 1..Len(ids[v]) /\ ids[v][index[q]] = q
    BY <2>1 DEF Listed
  <2>3. CASE v # u
    <3>1. q # last /\ x[q] = index[q]
      BY <1>3, <2>1, <2>3 DEF last, n
    <3> QED BY <1>4, <2>2, <2>3, <3>1
  <2>4. CASE v = u /\ q = last
    <3>1. x[q] = index[p] /\ index[p] # n
      BY <1>2, <2>1, <2>4 DEF last, n
    <3>2. index[p] \in 1..n - 1
      BY <1>2, <3>1
    <3> QED BY <1>4, <2>4, <3>1, <3>2
  <2>5. CASE v = u /\ q # last
    <3>1. x[q] = index[q] /\ index[q] # n /\ index[q] # index[p]
      BY <1>2, <2>1, <2>2, <2>5 DEF last, n
    <3>2. index[q] \in 1..n - 1
      BY <1>2, <2>2, <2>5, <3>1 DEF n
    <3> QED BY <1>4, <2>2, <2>5, <3>1, <3>2
  <2> QED BY <2>3, <2>4, <2>5
<1> QED BY <1>6, <1>7 DEF Listed, o, l

(* A change of a staker's active stake touches its two totals only.        *)
LEMMA ChangeStakeEffect ==
  ASSUME NEW s \in Storage, NEW u \in Stakers, NEW agent \in Agents, NEW amount \in Int
  PROVE  LET r == changeActiveStake(s, u, agent, amount) IN
         /\ r \in Storage /\ SameTerms(r, s) /\ SameLists(r, s) /\ r.ownerOf = s.ownerOf
         /\ \A v \in Stakers :
              /\ r.totalStake[v] = s.totalStake[v] + (IF v = u THEN amount ELSE 0)
              /\ \A a \in Agents : r.agentStake[v][a] =
                   s.agentStake[v][a] + (IF v = u /\ a = agent THEN amount ELSE 0)
<1> DEFINE r == changeActiveStake(s, u, agent, amount)
           total == [s.totalStake EXCEPT ![u] = s.totalStake[u] + amount]
           behind == [s.agentStake EXCEPT ![u][agent] = s.agentStake[u][agent] + amount]
<1>1. s.totalStake \in [Stakers -> Int] /\ s.agentStake \in [Stakers -> [Agents -> Int]]
  BY DEF Storage
<1>2. r = [s EXCEPT !.totalStake = total, !.agentStake = behind]
  BY DEF changeActiveStake
<1>3. total \in [Stakers -> Int]
      /\ \A v \in Stakers : total[v] = s.totalStake[v] + (IF v = u THEN amount ELSE 0)
  BY <1>1
<1>4. behind \in [Stakers -> [Agents -> Int]]
  BY <1>1
<1>5. \A v \in Stakers, a \in Agents :
        behind[v][a] = s.agentStake[v][a] + (IF v = u /\ a = agent THEN amount ELSE 0)
  BY <1>1
<1> HIDE DEF r, total, behind
<1>6. r \in Storage
  BY <1>2, <1>3, <1>4 DEF Storage
<1>7. SameTerms(r, s) /\ SameLists(r, s) /\ r.ownerOf = s.ownerOf
  BY <1>2 DEF Storage, SameTerms, SameLists
<1>8. r.totalStake = total /\ r.agentStake = behind
  BY <1>2 DEF Storage
<1> QED BY <1>3, <1>5, <1>6, <1>7, <1>8 DEF r

-----------------------------------------------------------------------------
(* The totals, when one position comes, goes or changes hands.             *)

OnlyAt(r, s, p) ==
  \A q \in Positions : q # p => r.ownerOf[q] = s.ownerOf[q] /\ r.positions[q] = s.positions[q]

LEMMA StakeInChange ==
  ASSUME NEW s \in Storage, NEW r \in Storage, NEW p \in Positions, OnlyAt(r, s, p), NEW U, NEW A
  PROVE  /\ StakeIn(r, U, A) =
              (StakeIn(s, U, A) + Principal(r, U, A)[p]) - Principal(s, U, A)[p]
         /\ StakeIn(s, U, A) \in Int /\ StakeIn(r, U, A) \in Int
<1>1. ASSUME NEW t \in Storage
      PROVE  /\ Principal(t, U, A) \in [1..MaxPositions -> Int]
             /\ StakeIn(t, U, A) \in Int
  <2>1. t.positions \in [Positions -> PositionType]
    BY DEF Storage
  <2>2. \A q \in Positions : t.positions[q].amount \in Nat
    BY <2>1 DEF PositionType
  <2>3. Principal(t, U, A) \in [1..MaxPositions -> Int]
    BY <2>2 DEF Principal, Positions
  <2> QED BY <2>3, SumInt, PoolsAssumption DEF StakeIn
<1>2. \A q \in 1..MaxPositions : q # p => Principal(r, U, A)[q] = Principal(s, U, A)[q]
  BY DEF OnlyAt, Principal, Positions
<1>3. p \in 1..MaxPositions
  BY DEF Positions
<1>4. Sum(Principal(r, U, A), MaxPositions) =
        (Sum(Principal(s, U, A), MaxPositions) + Principal(r, U, A)[p]) - Principal(s, U, A)[p]
  <2>1. MaxPositions \in Nat
    BY PoolsAssumption
  <2> DEFINE f == Principal(s, U, A)
             g == Principal(r, U, A)
  <2>2. f \in [1..MaxPositions -> Int] /\ g \in [1..MaxPositions -> Int]
    BY <1>1
  <2>3. \A q \in 1..MaxPositions : q # p => g[q] = f[q]
    BY <1>2
  <2> HIDE DEF f, g
  <2>4. Sum(g, MaxPositions) = Sum(f, MaxPositions) + g[p] - f[p]
    BY <1>3, <2>1, <2>2, <2>3, SumUpdate
  <2>5. Sum(f, MaxPositions) \in Int /\ g[p] \in Int /\ f[p] \in Int
    BY <1>3, <2>1, <2>2, SumInt
  <2>6. Sum(g, MaxPositions) = (Sum(f, MaxPositions) + g[p]) - f[p]
    BY <2>4, <2>5
  <2> QED BY <2>6 DEF f, g
<1> QED BY <1>1, <1>4 DEF StakeIn

(* How one position that is staked or taken away changes the totals.       *)
TotalsMoved(r, s, u, a, change) ==
  \A v \in Stakers :
    /\ r.totalStake[v] = s.totalStake[v] + (IF v = u THEN change ELSE 0)
    /\ \A b \in Agents :
         r.agentStake[v][b] = s.agentStake[v][b] + (IF v = u /\ b = a THEN change ELSE 0)

LEMMA TotalsAfterAdd ==
  ASSUME NEW s \in Storage, NEW r \in Storage, NEW p \in Positions, OnlyAt(r, s, p), NEW h,
         TotalsExact(s, h), s.ownerOf[p] = NoStaker,
         NEW u \in Stakers, NEW a \in Agents, NEW amount \in Nat,
         r.ownerOf[p] = u, r.positions[p].agentId = a, r.positions[p].amount = amount,
         TotalsMoved(r, s, u, a, amount)
  PROVE  TotalsExact(r, h + amount)
<1>0. NoStaker \notin Stakers
  BY PoolsAssumption
<1>1. ASSUME NEW U \in SUBSET Stakers, NEW A
      PROVE  /\ StakeIn(r, U, A) = StakeIn(s, U, A) + (IF u \in U /\ a \in A THEN amount ELSE 0)
             /\ StakeIn(s, U, A) \in Int
  <2>1. Principal(s, U, A)[p] = 0
    BY <1>0 DEF Principal
  <2>2. Principal(r, U, A)[p] = IF u \in U /\ a \in A THEN amount ELSE 0
    BY DEF Principal
  <2> QED BY <2>1, <2>2, StakeInChange
<1>2. h + amount = StakeIn(r, Stakers, Agents)
  BY <1>1 DEF TotalsExact
<1>3. ASSUME NEW v \in Stakers PROVE r.totalStake[v] = StakeIn(r, {v}, Agents)
  <2>1. StakeIn(r, {v}, Agents) = StakeIn(s, {v}, Agents) + (IF v = u THEN amount ELSE 0)
    <3>1. {v} \in SUBSET Stakers /\ (u \in {v} <=> v = u)
      OBVIOUS
    <3> QED BY <1>1, <3>1
  <2> QED BY <2>1 DEF TotalsExact, TotalsMoved
<1>4. ASSUME NEW v \in Stakers, NEW b \in Agents PROVE r.agentStake[v][b] = StakeIn(r, {v}, {b})
  <2>1. StakeIn(r, {v}, {b}) = StakeIn(s, {v}, {b}) + (IF v = u /\ b = a THEN amount ELSE 0)
    <3>1. {v} \in SUBSET Stakers /\ (u \in {v} <=> v = u) /\ (a \in {b} <=> b = a)
      OBVIOUS
    <3> QED BY <1>1, <3>1
  <2>2. s.agentStake[v][b] = StakeIn(s, {v}, {b})
    BY DEF TotalsExact
  <2> QED BY <2>1, <2>2 DEF TotalsMoved
<1> QED BY <1>2, <1>3, <1>4 DEF TotalsExact

LEMMA TotalsAfterRemove ==
  ASSUME NEW s \in Storage, NEW r \in Storage, NEW p \in Positions, OnlyAt(r, s, p), NEW h,
         TotalsExact(s, h), r.ownerOf[p] = NoStaker,
         NEW u \in Stakers, NEW a \in Agents, NEW amount \in Nat,
         s.ownerOf[p] = u, s.positions[p].agentId = a, s.positions[p].amount = amount,
         TotalsMoved(r, s, u, a, -amount)
  PROVE  TotalsExact(r, h - amount)
<1>0. NoStaker \notin Stakers
  BY PoolsAssumption
<1>1. ASSUME NEW U \in SUBSET Stakers, NEW A
      PROVE  /\ StakeIn(r, U, A) = StakeIn(s, U, A) + (IF u \in U /\ a \in A THEN -amount ELSE 0)
             /\ StakeIn(s, U, A) \in Int
  <2>1. Principal(r, U, A)[p] = 0
    BY <1>0 DEF Principal
  <2>2. Principal(s, U, A)[p] = IF u \in U /\ a \in A THEN amount ELSE 0
    BY DEF Principal
  <2> QED BY <2>1, <2>2, StakeInChange
<1>2. h - amount = StakeIn(r, Stakers, Agents)
  BY <1>1 DEF TotalsExact
<1>3. ASSUME NEW v \in Stakers PROVE r.totalStake[v] = StakeIn(r, {v}, Agents)
  <2>1. StakeIn(r, {v}, Agents) = StakeIn(s, {v}, Agents) + (IF v = u THEN -amount ELSE 0)
    <3>1. {v} \in SUBSET Stakers /\ (u \in {v} <=> v = u)
      OBVIOUS
    <3> QED BY <1>1, <3>1
  <2> QED BY <2>1 DEF TotalsExact, TotalsMoved
<1>4. ASSUME NEW v \in Stakers, NEW b \in Agents PROVE r.agentStake[v][b] = StakeIn(r, {v}, {b})
  <2>1. StakeIn(r, {v}, {b}) = StakeIn(s, {v}, {b}) + (IF v = u /\ b = a THEN -amount ELSE 0)
    <3>1. {v} \in SUBSET Stakers /\ (u \in {v} <=> v = u) /\ (a \in {b} <=> b = a)
      OBVIOUS
    <3> QED BY <1>1, <3>1
  <2>2. s.agentStake[v][b] = StakeIn(s, {v}, {b})
    BY DEF TotalsExact
  <2> QED BY <2>1, <2>2 DEF TotalsMoved
<1> QED BY <1>2, <1>3, <1>4 DEF TotalsExact

(* If neither the positions' principal nor the totals change, they agree.  *)
LEMMA TotalsKept ==
  ASSUME NEW s, NEW r, NEW h, TotalsExact(s, h), SameTotals(r, s), r.ownerOf = s.ownerOf,
         \A q \in Positions : /\ r.positions[q].agentId = s.positions[q].agentId
                              /\ r.positions[q].amount = s.positions[q].amount
  PROVE  TotalsExact(r, h)
<1>1. \A U, A : Principal(r, U, A) = Principal(s, U, A)
  BY DEF Principal
<1>2. \A U, A : StakeIn(r, U, A) = StakeIn(s, U, A)
  BY <1>1 DEF StakeIn
<1> QED BY <1>2 DEF TotalsExact, SameTotals

-----------------------------------------------------------------------------
(* A position that is closed, and one that is created, leave the books     *)
(* balanced.                                                               *)

SameTraces(r, s) ==
  /\ r.nextPositionId = s.nextPositionId /\ r.withdrawableEpoch = s.withdrawableEpoch
  /\ r.maxLockPower = s.maxLockPower /\ r.normalStart = s.normalStart /\ r.normalEnd = s.normalEnd

LEMMA BurnEffect ==
  ASSUME NEW s \in Storage, ListsExact(s), NEW p \in Positions, s.ownerOf[p] \in Stakers
  PROVE  LET r == burn(s, p) IN
         /\ r \in Storage /\ SameTerms(r, s) /\ SameTotals(r, s) /\ ListsExact(r)
         /\ r.ownerOf = [s.ownerOf EXCEPT ![p] = NoStaker]
<1> DEFINE u == s.ownerOf[p]
           o == [s.ownerOf EXCEPT ![p] = NoStaker]
           t == [s EXCEPT !.ownerOf = o]
           r == removeStakerPosition(t, u, p)
<1>1. s.ownerOf \in [Positions -> Stakers \cup {NoStaker}]
      /\ s.positionIds \in [Stakers -> Seq(Positions)] /\ s.positionIndex \in [Positions -> Nat]
  BY DEF Storage
<1>2. o \in [Positions -> Stakers \cup {NoStaker}]
  BY <1>1
<1>3. burn(s, p) = r
  BY DEF burn
<1>4. t \in Storage
  <2> HIDE DEF o
  <2> QED BY <1>2 DEF Storage
<1>5. SameTerms(t, s) /\ SameTotals(t, s) /\ SameLists(t, s) /\ t.ownerOf = o
  <2> HIDE DEF o
  <2> QED BY DEF Storage, SameTerms, SameTotals, SameLists
<1>6. s.positionIndex[p] \in 1..Len(s.positionIds[u]) /\ s.positionIds[u][s.positionIndex[p]] = p
  BY DEF ListsExact, Listed
<1>7. t.positionIds = s.positionIds /\ t.positionIndex = s.positionIndex
  BY <1>5 DEF SameLists
<1>8. u \in Stakers /\ t.positionIndex[p] \in 1..Len(t.positionIds[u])
      /\ t.positionIds[u][t.positionIndex[p]] = p
  BY <1>6, <1>7
<1> HIDE DEF t, u, r
<1>9. /\ r \in Storage /\ SameTerms(r, t) /\ SameTotals(r, t) /\ r.ownerOf = t.ownerOf
      /\ r.positionIds = [t.positionIds EXCEPT ![u] = r.positionIds[u]]
      /\ Shortened(r.positionIds[u], t.positionIds[u], t.positionIndex[p])
      /\ \A q \in Positions : r.positionIndex[q] =
           IF q = p THEN 0
           ELSE IF q = t.positionIds[u][Len(t.positionIds[u])] THEN t.positionIndex[p]
           ELSE t.positionIndex[q]
  BY <1>4, <1>8, RemoveEffect DEF r
<1>10. Listed(o, [s.positionIds EXCEPT ![u] = r.positionIds[u]], r.positionIndex)
  <2>1. Listed(s.ownerOf, s.positionIds, s.positionIndex) /\ s.ownerOf[p] = u
    BY DEF ListsExact, u
  <2>2. /\ Shortened(r.positionIds[u], s.positionIds[u], s.positionIndex[p])
        /\ \A q \in Positions : r.positionIndex[q] =
             IF q = p THEN 0
             ELSE IF q = s.positionIds[u][Len(s.positionIds[u])] THEN s.positionIndex[p]
             ELSE s.positionIndex[q]
    BY <1>7, <1>9
  <2> DEFINE short == r.positionIds[u]
             x == r.positionIndex
             ids == s.positionIds
             index == s.positionIndex
             ownerOf == s.ownerOf
  <2> HIDE DEF short, x, ids, index, ownerOf
  <2>3. /\ ownerOf \in [Positions -> Stakers \cup {NoStaker}]
        /\ ids \in [Stakers -> Seq(Positions)] /\ index \in [Positions -> Nat]
        /\ Listed(ownerOf, ids, index) /\ ownerOf[p] = u /\ u \in Stakers
        /\ Shortened(short, ids[u], index[p])
        /\ \A q \in Positions : x[q] =
             IF q = p THEN 0 ELSE IF q = ids[u][Len(ids[u])] THEN index[p] ELSE index[q]
    BY <1>1, <1>8, <2>1, <2>2 DEF short, x, ids, index, ownerOf
  <2>4. Listed([ownerOf EXCEPT ![p] = NoStaker], [ids EXCEPT ![u] = short], x)
    BY <2>3, ListedAfterRemove
  <2> QED BY <2>4 DEF short, x, ids, ownerOf
<1>11. ListsExact(r)
  BY <1>5, <1>7, <1>9, <1>10 DEF ListsExact
<1> QED BY <1>3, <1>5, <1>9, <1>11 DEF SameTerms, SameTotals

(* How a position that is closed leaves the storage. *)
Removed(r, s, p, position) ==
  /\ SameTraces(r, s)
  /\ r.positions = [s.positions EXCEPT ![p] = position]
  /\ r.ownerOf = [s.ownerOf EXCEPT ![p] = NoStaker]

LEMMA RemovePosition ==
  ASSUME NEW s, NEW h, Books(s, h), NEW p \in Positions, Owned(s, p),
         NEW position \in PositionType,
         position.owner = s.positions[p].owner, position.agentId = s.positions[p].agentId,
         NEW t \in Storage, SameTraces(t, s), SameLists(t, s), SameTotals(t, s),
         t.ownerOf = s.ownerOf, t.positions = [s.positions EXCEPT ![p] = position]
  PROVE  LET old == s.positions[p]
             r == burn(changeActiveStake(t, old.owner, old.agentId, -old.amount), p)
         IN  Books(r, h - old.amount) /\ Removed(r, s, p, position)
<1> DEFINE old == s.positions[p]
           m == changeActiveStake(t, old.owner, old.agentId, -old.amount)
           r == burn(m, p)
<1>0. s \in Storage /\ PositionsKnown(s) /\ ListsExact(s) /\ TotalsExact(s, h)
  BY DEF Books
<1>1. s.positions \in [Positions -> PositionType] /\ old \in PositionType
      /\ s.ownerOf \in [Positions -> Stakers \cup {NoStaker}]
  BY <1>0 DEF Storage
<1>2. old.owner = s.ownerOf[p] /\ old.owner \in Stakers /\ old.agentId \in Agents
  <2>1. old.owner = s.ownerOf[p]
    BY <1>0 DEF PositionsKnown
  <2>2. old.owner \in Stakers
    BY <1>1, <2>1 DEF Owned
  <2> QED BY <1>0, <2>1, <2>2 DEF PositionsKnown, Owned
<1>3. old.amount \in Nat /\ -old.amount \in Int
  BY <1>1 DEF PositionType
<1> HIDE DEF old
<1>4. /\ m \in Storage /\ SameTerms(m, t) /\ SameLists(m, t) /\ m.ownerOf = t.ownerOf
      /\ TotalsMoved(m, t, old.owner, old.agentId, -old.amount)
  BY <1>2, <1>3, ChangeStakeEffect DEF TotalsMoved
<1> HIDE DEF m
<1>5. ListsExact(m) /\ m.ownerOf[p] \in Stakers
  BY <1>0, <1>2, <1>4 DEF ListsExact, SameLists
<1>6. /\ r \in Storage /\ SameTerms(r, m) /\ SameTotals(r, m) /\ ListsExact(r)
      /\ r.ownerOf = [m.ownerOf EXCEPT ![p] = NoStaker]
  BY <1>4, <1>5, BurnEffect
<1> HIDE DEF r
<1>7. Removed(r, s, p, position)
  BY <1>4, <1>6 DEF Removed, SameTerms, SameTraces
<1>8. OnlyAt(r, s, p) /\ r.ownerOf[p] = NoStaker /\ r.positions[p] = position
  BY <1>1, <1>7 DEF Removed, OnlyAt
<1>9. TotalsMoved(r, s, old.owner, old.agentId, -old.amount)
  BY <1>4, <1>6 DEF TotalsMoved, SameTotals
<1>10. TotalsExact(r, h - old.amount)
  <2>1. s.ownerOf[p] = old.owner /\ s.positions[p].agentId = old.agentId
        /\ s.positions[p].amount = old.amount
    BY <1>2 DEF old
  <2> QED BY <1>0, <1>2, <1>3, <1>6, <1>8, <1>9, <2>1, TotalsAfterRemove
<1>11. PositionsKnown(r)
  <2> SUFFICES ASSUME NEW q \in Positions
               PROVE  /\ q >= r.nextPositionId => FreshPosition(r, q)
                      /\ r.positions[q].owner # NoStaker => r.positions[q].agentId \in Agents
                      /\ Owned(r, q) => /\ r.positions[q].owner = r.ownerOf[q]
                                        /\ ~r.positions[q].withdrawn
                                        /\ r.positions[q].closedAtEpoch = 0
    BY DEF PositionsKnown
  <2>1. CASE q = p
    <3>1. ~(p >= s.nextPositionId)
      BY <1>0 DEF PositionsKnown, FreshPosition, Owned
    <3>2. r.nextPositionId = s.nextPositionId
      BY <1>7 DEF Removed, SameTraces
    <3> QED BY <1>2, <1>8, <2>1, <3>1, <3>2 DEF Owned, old
  <2>2. CASE q # p
    <3>1. r.positions[q] = s.positions[q] /\ r.ownerOf[q] = s.ownerOf[q]
      BY <1>8, <2>2 DEF OnlyAt
    <3>2. SameTraces(r, s)
      BY <1>7 DEF Removed
    <3> QED BY <1>0, <3>1, <3>2 DEF PositionsKnown, FreshPosition, SameTraces, Owned
  <2> QED BY <2>1, <2>2
<1> QED BY <1>6, <1>7, <1>10, <1>11 DEF Books, old, m, r

LEMMA CloseEffect ==
  ASSUME NEW s, NEW h, Books(s, h), NEW p \in Positions, Owned(s, p), NEW effective \in Epochs
  PROVE  LET r == closeForRestructure(s, p, effective) IN
         /\ Books(r, h - s.positions[p].amount)
         /\ Removed(r, s, p, [s.positions[p] EXCEPT !.closedAtEpoch = effective])
<1> DEFINE old == s.positions[p]
           new == [old EXCEPT !.closedAtEpoch = effective]
           unpowered == applyPowerRange(s, old.agentId, effective, s.normalEnd[p][effective],
                                        -old.weightAmount)
           t == [unpowered EXCEPT !.positions = [unpowered.positions EXCEPT ![p] = new]]
<1>0. s \in Storage /\ PositionsKnown(s)
  BY DEF Books
<1>1. s.positions \in [Positions -> PositionType] /\ old \in PositionType
      /\ s.ownerOf \in [Positions -> Stakers \cup {NoStaker}]
      /\ s.normalEnd \in [Positions -> NatTrace]
  BY <1>0 DEF Storage
<1>2. effective \in Nat
  BY DEF Epochs
<1>3. new \in PositionType /\ new.owner = old.owner /\ new.agentId = old.agentId
  BY <1>1, <1>2 DEF PositionType
<1>4. s.normalEnd[p][effective] \in Int /\ -old.weightAmount \in Int
  BY <1>1 DEF NatTrace, PositionType
<1>5. old.agentId \in Agents
  BY <1>0, <1>1 DEF PositionsKnown, Owned
<1> HIDE DEF new
<1>6. unpowered \in Storage /\ SameBooks(unpowered, s)
  BY <1>0, <1>4, <1>5, PowerRangeEffect
<1>7. closeForRestructure(s, p, effective) =
        burn(changeActiveStake(t, old.owner, old.agentId, -old.amount), p)
  <2>1. unpowered.positions[p] = old
    BY <1>6 DEF SameBooks, SameTerms
  <2>2. [unpowered EXCEPT !.positions[p].closedAtEpoch = effective] = t
    <3> HIDE DEF unpowered, old
    <3> QED BY <2>1 DEF new
  <2> HIDE DEF t
  <2> QED BY <2>2 DEF closeForRestructure
<1> HIDE DEF unpowered, old
<1>8. t \in Storage
  <2>1. [unpowered.positions EXCEPT ![p] = new] \in [Positions -> PositionType]
    BY <1>3, <1>6 DEF Storage
  <2> QED BY <1>6, <2>1 DEF Storage
<1>9. /\ SameTraces(t, s) /\ SameLists(t, s) /\ SameTotals(t, s) /\ t.ownerOf = s.ownerOf
      /\ t.positions = [s.positions EXCEPT ![p] = new]
  <2>1. /\ SameTraces(t, unpowered) /\ SameLists(t, unpowered) /\ SameTotals(t, unpowered)
        /\ t.ownerOf = unpowered.ownerOf
        /\ t.positions = [unpowered.positions EXCEPT ![p] = new]
    BY <1>6 DEF Storage, SameTraces, SameLists, SameTotals
  <2> HIDE DEF t
  <2> QED BY <1>6, <2>1 DEF SameBooks, SameTerms, SameTraces, SameLists, SameTotals
<1> HIDE DEF t
<1>10. new.owner = s.positions[p].owner /\ new.agentId = s.positions[p].agentId
  BY <1>3 DEF old
<1>11. LET r == burn(changeActiveStake(t, s.positions[p].owner, s.positions[p].agentId,
                                       -s.positions[p].amount), p)
       IN  Books(r, h - s.positions[p].amount) /\ Removed(r, s, p, new)
  BY <1>3, <1>8, <1>9, <1>10, RemovePosition
<1> QED BY <1>7, <1>11 DEF old, new

(* The storage with a new position, the next one. *)
NewPosition(owner, agent, amount, weight, start, end) ==
  [owner |-> owner, agentId |-> agent, amount |-> amount, weightAmount |-> weight,
   stakeStartEpoch |-> start, stakeEndEpoch |-> end, closedAtEpoch |-> 0, withdrawn |-> FALSE]

Created(r, s, position, normalStart) ==
  LET p == s.nextPositionId IN
  /\ r.nextPositionId = p + 1
  /\ r.positions = [s.positions EXCEPT ![p] = position]
  /\ r.ownerOf = [s.ownerOf EXCEPT ![p] = position.owner]
  /\ r.maxLockPower = s.maxLockPower
  /\ r.normalStart = [s.normalStart EXCEPT ![p] = push(s.normalStart[p], position.stakeStartEpoch, normalStart)]
  /\ r.normalEnd = [s.normalEnd EXCEPT ![p] = push(s.normalEnd[p], position.stakeStartEpoch, position.stakeEndEpoch)]

LEMMA CreateEffect ==
  ASSUME NEW s, NEW h, Books(s, h), s.nextPositionId <= MaxPositions,
         NEW owner \in Stakers, NEW agent \in Agents, NEW amount \in Nat, NEW weight \in Nat,
         NEW start \in Nat, NEW normalStart \in Nat, NEW end \in Nat
  PROVE  LET r == createWeightedPosition(s, owner, agent, amount, weight, start, normalStart, end) IN
         /\ Books(r, h + amount)
         /\ Created(r, s, NewPosition(owner, agent, amount, weight, start, end), normalStart)
         /\ r.withdrawableEpoch = s.withdrawableEpoch
<1> DEFINE p == s.nextPositionId
           position == NewPosition(owner, agent, amount, weight, start, end)
           positions == [s.positions EXCEPT ![p] = position]
           ownerOf == [s.ownerOf EXCEPT ![p] = owner]
           starts == [s.normalStart EXCEPT ![p] = push(s.normalStart[p], start, normalStart)]
           ends == [s.normalEnd EXCEPT ![p] = push(s.normalEnd[p], start, end)]
           stored == [s EXCEPT !.nextPositionId = p + 1, !.positions = positions,
                               !.normalStart = starts, !.normalEnd = ends, !.ownerOf = ownerOf]
           powered == applyPowerRange(stored, agent, start, end, weight)
           counted == changeActiveStake(powered, owner, agent, amount)
           r == addStakerPosition(counted, owner, p)
<1>0. s \in Storage /\ PositionsKnown(s) /\ ListsExact(s) /\ TotalsExact(s, h)
  BY DEF Books
<1>1. /\ s.positions \in [Positions -> PositionType] /\ s.nextPositionId \in 1..MaxPositions + 1
      /\ s.ownerOf \in [Positions -> Stakers \cup {NoStaker}]
      /\ s.normalStart \in [Positions -> NatTrace] /\ s.normalEnd \in [Positions -> NatTrace]
  BY <1>0 DEF Storage
<1>2. p \in Positions /\ p + 1 \in 1..MaxPositions + 1 /\ p \in Nat
  BY <1>1, PoolsAssumption DEF Positions
<1>3. position \in PositionType
  BY PoolsAssumption DEF PositionType, NewPosition
<1>4. positions \in [Positions -> PositionType] /\ ownerOf \in [Positions -> Stakers \cup {NoStaker}]
  BY <1>1, <1>3
<1>5. starts \in [Positions -> NatTrace] /\ ends \in [Positions -> NatTrace]
  <2>1. s.normalStart[p] \in NatTrace /\ s.normalEnd[p] \in NatTrace
    BY <1>1, <1>2
  <2>2. push(s.normalStart[p], start, normalStart) \in NatTrace /\ push(s.normalEnd[p], start, end) \in NatTrace
    BY <2>1, PushType
  <2> QED BY <1>1, <2>2
<1>6. createWeightedPosition(s, owner, agent, amount, weight, start, normalStart, end) = r
  BY DEF createWeightedPosition, NewPosition
<1>p. position.owner = owner /\ position.agentId = agent /\ position.amount = amount
      /\ position.stakeStartEpoch = start /\ position.stakeEndEpoch = end
      /\ ~position.withdrawn /\ position.closedAtEpoch = 0
  BY DEF NewPosition
<1>f. FreshPosition(s, p)
  BY <1>0, <1>2 DEF PositionsKnown
<1> HIDE DEF position
<1>d. /\ positions[p] = position /\ ownerOf[p] = owner
      /\ \A q \in Positions : q # p => /\ positions[q] = s.positions[q] /\ ownerOf[q] = s.ownerOf[q]
                                       /\ starts[q] = s.normalStart[q] /\ ends[q] = s.normalEnd[q]
  BY <1>1, <1>2
<1> HIDE DEF p, positions, ownerOf, starts, ends, r, powered, counted
<1>7. stored \in Storage
  BY <1>0, <1>2, <1>4, <1>5 DEF Storage
<1>8. /\ stored.nextPositionId = p + 1 /\ stored.positions = positions /\ stored.ownerOf = ownerOf
      /\ stored.normalStart = starts /\ stored.normalEnd = ends
      /\ stored.withdrawableEpoch = s.withdrawableEpoch /\ stored.maxLockPower = s.maxLockPower
      /\ SameLists(stored, s) /\ SameTotals(stored, s)
  BY <1>0 DEF Storage, SameLists, SameTotals
<1> HIDE DEF stored
<1>9. powered \in Storage /\ SameBooks(powered, stored)
  BY <1>7, PowerRangeEffect DEF powered
<1>10. /\ counted \in Storage /\ SameTerms(counted, powered) /\ SameLists(counted, powered)
       /\ counted.ownerOf = powered.ownerOf
       /\ TotalsMoved(counted, powered, owner, agent, amount)
  BY <1>9, ChangeStakeEffect DEF counted, TotalsMoved
<1>11. /\ r \in Storage /\ SameTerms(r, counted) /\ SameTotals(r, counted) /\ r.ownerOf = counted.ownerOf
       /\ r.positionIds = [counted.positionIds EXCEPT ![owner] = Append(counted.positionIds[owner], p)]
       /\ r.positionIndex = [counted.positionIndex EXCEPT ![p] = Len(counted.positionIds[owner]) + 1]
  BY <1>2, <1>10, AddEffect DEF r
<1>12. SameTerms(r, stored) /\ r.ownerOf = ownerOf
  BY <1>8, <1>9, <1>10, <1>11 DEF SameTerms, SameBooks
<1>13. Created(r, s, position, normalStart) /\ r.withdrawableEpoch = s.withdrawableEpoch
  BY <1>8, <1>12, <1>p DEF Created, SameTerms, p, positions, ownerOf, starts, ends
<1>14. ListsExact(r)
  <2>1. counted.positionIds = s.positionIds /\ counted.positionIndex = s.positionIndex
    BY <1>8, <1>9, <1>10 DEF SameBooks, SameLists
  <2> DEFINE ids == s.positionIds
             index == s.positionIndex
             before == s.ownerOf
  <2>2. /\ before \in [Positions -> Stakers \cup {NoStaker}] /\ ids \in [Stakers -> Seq(Positions)]
        /\ index \in [Positions -> Nat] /\ Listed(before, ids, index) /\ before[p] = NoStaker
    BY <1>0, <1>f DEF Storage, ListsExact, FreshPosition
  <2>3. ownerOf = [before EXCEPT ![p] = owner]
    BY DEF ownerOf
  <2>4. r.positionIds = [ids EXCEPT ![owner] = Append(ids[owner], p)]
        /\ r.positionIndex = [index EXCEPT ![p] = Len(ids[owner]) + 1]
    BY <1>11, <2>1
  <2> HIDE DEF ids, index, before
  <2>5. Listed([before EXCEPT ![p] = owner], [ids EXCEPT ![owner] = Append(ids[owner], p)],
               [index EXCEPT ![p] = Len(ids[owner]) + 1])
    BY <1>2, <2>2, ListedAfterAdd
  <2> QED BY <1>12, <2>3, <2>4, <2>5 DEF ListsExact
<1>15. TotalsExact(r, h + amount)
  <2>1. OnlyAt(r, s, p)
    BY <1>8, <1>12, <1>d DEF OnlyAt, SameTerms
  <2>2. r.positions[p] = position /\ r.ownerOf[p] = owner /\ s.ownerOf[p] = NoStaker
    BY <1>8, <1>12, <1>d, <1>f DEF SameTerms, FreshPosition
  <2>3. TotalsMoved(r, s, owner, agent, amount)
    BY <1>8, <1>9, <1>10, <1>11 DEF TotalsMoved, SameTotals, SameBooks
  <2>4. r.positions[p].agentId = agent /\ r.positions[p].amount = amount
    BY <1>p, <2>2
  <2> QED BY <1>0, <1>2, <1>11, <2>1, <2>2, <2>3, <2>4, TotalsAfterAdd
<1>16. PositionsKnown(r)
  <2> SUFFICES ASSUME NEW q \in Positions
               PROVE  /\ q >= r.nextPositionId => FreshPosition(r, q)
                      /\ r.positions[q].owner # NoStaker => r.positions[q].agentId \in Agents
                      /\ Owned(r, q) => /\ r.positions[q].owner = r.ownerOf[q]
                                        /\ ~r.positions[q].withdrawn
                                        /\ r.positions[q].closedAtEpoch = 0
    BY DEF PositionsKnown
  <2>0. q \in Nat /\ r.nextPositionId = p + 1 /\ s.nextPositionId = p
    BY <1>8, <1>12 DEF SameTerms, Positions, p
  <2>1. CASE q = p
    <3>1. r.positions[q] = position /\ r.ownerOf[q] = owner
      BY <1>8, <1>12, <1>d, <2>1 DEF SameTerms
    <3>2. ~(q >= r.nextPositionId)
      BY <1>2, <2>0, <2>1
    <3> QED BY <1>p, <3>1, <3>2
  <2>2. CASE q # p
    <3>1. /\ r.positions[q] = s.positions[q] /\ r.ownerOf[q] = s.ownerOf[q]
          /\ r.normalStart[q] = s.normalStart[q] /\ r.normalEnd[q] = s.normalEnd[q]
          /\ r.maxLockPower[q] = s.maxLockPower[q] /\ r.withdrawableEpoch[q] = s.withdrawableEpoch[q]
      BY <1>8, <1>12, <1>d, <2>2 DEF SameTerms
    <3>2. q >= r.nextPositionId => q >= s.nextPositionId
      BY <1>2, <2>0
    <3> QED BY <1>0, <3>1, <3>2 DEF PositionsKnown, FreshPosition, Owned
  <2> QED BY <2>1, <2>2
<1> QED BY <1>6, <1>11, <1>13, <1>14, <1>15, <1>16 DEF Books, position

LEMMA CreateRestructuredEffect ==
  ASSUME NEW s, NEW h, Books(s, h), s.nextPositionId <= MaxPositions,
         NEW owner \in Stakers, NEW agent \in Agents, NEW amount \in Nat, NEW weight \in Nat,
         NEW start \in Nat, NEW normalStart \in Nat, NEW end \in Nat
  PROVE  LET r == createRestructuredPosition(s, owner, agent, amount, weight, start, normalStart, end) IN
         /\ Books(r, h + amount)
         /\ Created(r, s, NewPosition(owner, agent, amount, weight, start, end), normalStart)
         /\ r.withdrawableEpoch = [s.withdrawableEpoch EXCEPT ![s.nextPositionId] = start]
<1> DEFINE p == s.nextPositionId
           c == createWeightedPosition(s, owner, agent, amount, weight, start, normalStart, end)
           after == [s.withdrawableEpoch EXCEPT ![p] = start]
           r == [c EXCEPT !.withdrawableEpoch = after]
           position == NewPosition(owner, agent, amount, weight, start, end)
<1>1. Books(c, h + amount) /\ Created(c, s, position, normalStart)
      /\ c.withdrawableEpoch = s.withdrawableEpoch
  BY CreateEffect
<1>2. createRestructuredPosition(s, owner, agent, amount, weight, start, normalStart, end) = r
  BY <1>1 DEF createRestructuredPosition
<1> HIDE DEF c, position
<1>0. s \in Storage /\ PositionsKnown(s) /\ p \in Positions
  <2>1. s \in Storage /\ PositionsKnown(s)
    BY DEF Books
  <2>2. s.nextPositionId \in 1..MaxPositions + 1
    BY <2>1 DEF Storage
  <2> QED BY <2>1, <2>2, PoolsAssumption DEF Positions
<1>3. after \in [Positions -> Nat] /\ \A q \in Positions : q # p => after[q] = s.withdrawableEpoch[q]
  BY <1>0 DEF Storage
<1> HIDE DEF after
<1>c. c \in Storage /\ PositionsKnown(c) /\ ListsExact(c) /\ TotalsExact(c, h + amount)
  BY <1>1 DEF Books
<1>4. r \in Storage
  BY <1>c, <1>3 DEF Storage
<1>5. /\ SameTotals(r, c) /\ SameLists(r, c) /\ r.ownerOf = c.ownerOf /\ r.positions = c.positions
      /\ r.nextPositionId = c.nextPositionId /\ r.maxLockPower = c.maxLockPower
      /\ r.normalStart = c.normalStart /\ r.normalEnd = c.normalEnd /\ r.withdrawableEpoch = after
  BY <1>c DEF Storage, SameTotals, SameLists
<1> HIDE DEF r
<1>6. ListsExact(r) /\ TotalsExact(r, h + amount)
  BY <1>c, <1>5, TotalsKept DEF ListsExact, SameLists
<1>7. PositionsKnown(r)
  <2>1. c.nextPositionId = p + 1
    BY <1>1 DEF Created
  <2>2. ASSUME NEW q \in Positions, q >= r.nextPositionId
        PROVE  FreshPosition(r, q)
    <3>1. q # p /\ FreshPosition(c, q)
      BY <1>0, <1>c, <1>5, <2>1, <2>2 DEF PositionsKnown, Positions
    <3> QED BY <1>1, <1>3, <1>5, <3>1 DEF FreshPosition
  <2> QED BY <1>c, <1>5, <2>2 DEF PositionsKnown, Owned
<1>8. Created(r, s, position, normalStart)
  BY <1>1, <1>5 DEF Created
<1> QED BY <1>2, <1>4, <1>5, <1>6, <1>7, <1>8 DEF Books, after, position

-----------------------------------------------------------------------------
(* The weight of epochs up to now, and the locks, when a position is       *)
(* closed or created from the next epoch on.                               *)

(* positionWeightAtEpoch of a storage *)
Weight(s, p, e) ==
  LET position == s.positions[p]
      maxLockPower == s.maxLockPower[p][e]
      end == s.normalEnd[p][e]
  IN  IF e < position.stakeStartEpoch \/ (position.closedAtEpoch # 0 /\ e >= position.closedAtEpoch)
      THEN 0
      ELSE IF maxLockPower # 0 THEN maxLockPower
      ELSE IF e >= end THEN 0
      ELSE position.weightAmount * (end - e)

Frozen(r, s, now) == \A p \in Positions, e \in 0..now : Weight(r, p, e) = Weight(s, p, e)

LEMMA FrozenTransitive ==
  ASSUME NEW q, NEW r, NEW s, NEW now, Frozen(q, r, now), Frozen(r, s, now)
  PROVE  Frozen(q, s, now)
BY DEF Frozen

LEMMA RemovedFrozen ==
  ASSUME NEW s, NEW h, Books(s, h), NEW p \in Positions, Owned(s, p), NEW now \in 0..MaxEpoch,
         NEW effective \in Nat, effective > now, NEW r,
         Removed(r, s, p, [s.positions[p] EXCEPT !.closedAtEpoch = effective])
  PROVE  Frozen(r, s, now)
<1>1. s \in Storage /\ s.positions[p].closedAtEpoch = 0
  BY DEF Books, PositionsKnown
<1>2. s.positions \in [Positions -> PositionType]
  BY <1>1 DEF Storage
<1>3. r.maxLockPower = s.maxLockPower /\ r.normalEnd = s.normalEnd
  BY DEF Removed, SameTraces
<1>4. /\ r.positions[p].closedAtEpoch = effective
      /\ r.positions[p].stakeStartEpoch = s.positions[p].stakeStartEpoch
      /\ r.positions[p].weightAmount = s.positions[p].weightAmount
  BY <1>2 DEF Removed, PositionType
<1>5. \A q \in Positions : q # p => r.positions[q] = s.positions[q]
  BY <1>2 DEF Removed
<1> SUFFICES ASSUME NEW q \in Positions, NEW e \in 0..now
             PROVE  Weight(r, q, e) = Weight(s, q, e)
  BY DEF Frozen
<1>6. CASE q = p
  <2>1. ~(e >= effective)
    BY PoolsAssumption
  <2> QED BY <1>1, <1>3, <1>4, <1>6, <2>1 DEF Weight
<1>7. CASE q # p
  BY <1>3, <1>5, <1>7 DEF Weight
<1> QED BY <1>6, <1>7

LEMMA NowInEpochs ==
  ASSUME NEW now \in 0..MaxEpoch
  PROVE  0..now + 1 \subseteq Epochs /\ now \in Nat
BY PoolsAssumption DEF Epochs

LEMMA CreatedFrozen ==
  ASSUME NEW s, NEW h, Books(s, h), s.nextPositionId <= MaxPositions, NEW now \in 0..MaxEpoch,
         NEW r, NEW position \in PositionType, position.stakeStartEpoch > now, NEW normalStart,
         Created(r, s, position, normalStart)
  PROVE  Frozen(r, s, now)
<1> DEFINE p == s.nextPositionId
<1>1. s \in Storage /\ PositionsKnown(s)
  BY DEF Books
<1>2. /\ s.positions \in [Positions -> PositionType] /\ s.normalEnd \in [Positions -> NatTrace]
      /\ s.nextPositionId \in 1..MaxPositions + 1
  BY <1>1 DEF Storage
<1>3. p \in Positions /\ p \in Nat
  BY <1>2, PoolsAssumption DEF Positions
<1>4. FreshPosition(s, p)
  BY <1>1, <1>3 DEF PositionsKnown
<1>5. r.maxLockPower = s.maxLockPower /\ r.positions[p] = position
  BY <1>2, <1>3 DEF Created
<1>6. \A q \in Positions : q # p => r.positions[q] = s.positions[q] /\ r.normalEnd[q] = s.normalEnd[q]
  BY <1>2, <1>3 DEF Created
<1> SUFFICES ASSUME NEW q \in Positions, NEW e \in 0..now
             PROVE  Weight(r, q, e) = Weight(s, q, e)
  BY DEF Frozen
<1>7. CASE q = p
  <2>1. e < position.stakeStartEpoch /\ e \in Epochs /\ e \in Nat
    BY NowInEpochs DEF PositionType
  <2>2. Weight(r, q, e) = 0
    BY <1>5, <1>7, <2>1 DEF Weight
  <2>3. Weight(s, q, e) = 0
    BY <1>4, <1>7, <2>1 DEF Weight, FreshPosition, NoPosition, EmptyTrace
  <2> QED BY <2>2, <2>3
<1>8. CASE q # p
  BY <1>5, <1>6, <1>8 DEF Weight
<1> QED BY <1>7, <1>8

(* A lock depends on the position's own terms only. *)
SameAt(r, s, q) ==
  /\ r.positions[q] = s.positions[q] /\ r.withdrawableEpoch[q] = s.withdrawableEpoch[q]
  /\ r.maxLockPower[q] = s.maxLockPower[q] /\ r.normalStart[q] = s.normalStart[q]
  /\ r.normalEnd[q] = s.normalEnd[q]

LEMMA LockSame ==
  ASSUME NEW r, NEW s, NEW q, NEW now, SameAt(r, s, q), LockKept(s, q, now)
  PROVE  LockKept(r, q, now)
BY DEF SameAt, LockKept, Effective

LEMMA RemovedLocks ==
  ASSUME NEW s, NEW h, Books(s, h), NEW p \in Positions, NEW now, LocksKept(s, now),
         NEW r, NEW position, Removed(r, s, p, position)
  PROVE  LocksKept(r, now)
<1>1. s \in Storage
  BY DEF Books
<1>2. s.positions \in [Positions -> PositionType] /\ s.ownerOf \in [Positions -> Stakers \cup {NoStaker}]
  BY <1>1 DEF Storage
<1> SUFFICES ASSUME NEW q \in Positions, Owned(r, q)
             PROVE  LockKept(r, q, now)
  BY DEF LocksKept
<1>3. q # p /\ Owned(s, q)
  BY <1>2 DEF Removed, Owned
<1>4. SameAt(r, s, q)
  BY <1>2, <1>3 DEF SameAt, Removed, SameTraces
<1> QED BY <1>3, <1>4, LockSame DEF LocksKept

LEMMA CreatedLocks ==
  ASSUME NEW s, NEW h, Books(s, h), s.nextPositionId <= MaxPositions,
         NEW now \in 0..MaxEpoch, LocksKept(s, now),
         NEW r, NEW position \in PositionType, NEW normalStart, Created(r, s, position, normalStart),
         position.stakeStartEpoch > now, position.stakeStartEpoch < position.stakeEndEpoch,
         position.stakeEndEpoch \in Epochs,
         \/ r.withdrawableEpoch = s.withdrawableEpoch
         \/ r.withdrawableEpoch = [s.withdrawableEpoch EXCEPT ![s.nextPositionId] = position.stakeStartEpoch]
  PROVE  LocksKept(r, now)
<1> DEFINE p == s.nextPositionId
           start == position.stakeStartEpoch
           end == position.stakeEndEpoch
<1>1. s \in Storage /\ PositionsKnown(s)
  BY DEF Books
<1>2. /\ s.positions \in [Positions -> PositionType] /\ s.normalEnd \in [Positions -> NatTrace]
      /\ s.nextPositionId \in 1..MaxPositions + 1 /\ s.normalStart \in [Positions -> NatTrace]
      /\ s.withdrawableEpoch \in [Positions -> Nat]
      /\ s.ownerOf \in [Positions -> Stakers \cup {NoStaker}]
  BY <1>1 DEF Storage
<1>3. p \in Positions /\ p \in Nat
  BY <1>2, PoolsAssumption DEF Positions
<1>4. FreshPosition(s, p)
  BY <1>1, <1>3 DEF PositionsKnown
<1> SUFFICES ASSUME NEW q \in Positions, Owned(r, q)
             PROVE  LockKept(r, q, now)
  BY DEF LocksKept
<1>5. CASE q # p
  <2>1. SameAt(r, s, q) /\ Owned(s, q)
    BY <1>2, <1>3, <1>5 DEF SameAt, Created, Owned
  <2> QED BY <2>1, LockSame DEF LocksKept
<1>6. CASE q = p
  <2>1. start \in Nat /\ end \in Nat /\ end # 0 /\ now \in Nat /\ now + 1 <= start /\ start \in Epochs
    <3>1. start \in Nat /\ end \in Nat
      BY DEF PositionType
    <3>2. now \in Nat /\ FENWICK_SIZE \in Nat
      BY NowInEpochs, PoolsAssumption
    <3> QED BY <3>1, <3>2 DEF Epochs
  <2>2. r.positions[p] = position /\ r.maxLockPower[p] = EmptyTrace
    BY <1>2, <1>3, <1>4 DEF Created, FreshPosition
  <2>3. r.normalStart[p] = push(EmptyTrace, start, normalStart) /\ r.normalEnd[p] = push(EmptyTrace, start, end)
    BY <1>2, <1>3, <1>4 DEF Created, FreshPosition
  <2>4. \A e \in Epochs : e >= start => r.normalStart[p][e] = normalStart /\ r.normalEnd[p][e] = end
    BY <2>3 DEF push
  <2>5. r.withdrawableEpoch[p] <= start
    BY <1>2, <1>3, <1>4, <2>1 DEF FreshPosition
  <2>6. Effective(r, p, now) = start
    BY <2>1, <2>2 DEF Effective, Later
  <2>7. ~(start <= now)
    BY <2>1
  <2> HIDE DEF p, start, end
  <2>8. /\ r.positions[p].stakeStartEpoch = start /\ r.positions[p].stakeEndEpoch = end
        /\ start < end /\ end \in Epochs
    BY <2>2 DEF start, end
  <2>9. \A e \in Epochs : r.maxLockPower[p][e] = 0
    BY <2>2 DEF EmptyTrace
  <2>10. r.normalStart[p][start] = normalStart /\ r.normalEnd[p][start] = end /\ r.maxLockPower[p][start] = 0
    BY <2>1, <2>4, <2>9
  <2>11. \A e \in Epochs : e >= start => /\ r.maxLockPower[p][e] = r.maxLockPower[p][start]
                                         /\ r.normalStart[p][e] = r.normalStart[p][start]
                                         /\ r.normalEnd[p][e] = r.normalEnd[p][start]
                                         /\ (r.maxLockPower[p][e] = 0 <=> r.normalEnd[p][e] # 0)
    BY <2>1, <2>4, <2>9, <2>10
  <2> QED BY <1>6, <2>5, <2>6, <2>7, <2>8, <2>9, <2>10, <2>11 DEF LockKept
<1> QED BY <1>5, <1>6

-----------------------------------------------------------------------------
(* Operations that replace positions: a chain of closes and creations.     *)

(* The storage s, on the way from s0, in epoch now and with h tokens.      *)
Sound(s, h, now, s0) == Books(s, h) /\ LocksKept(s, now) /\ Frozen(s, s0, now)

LEMMA SoundClose ==
  ASSUME NEW s0, NEW s, NEW h, NEW now \in 0..MaxEpoch, Sound(s, h, now, s0),
         NEW p \in Positions, Owned(s, p), NEW effective \in Epochs, effective > now
  PROVE  LET r == closeForRestructure(s, p, effective) IN
         /\ Sound(r, h - s.positions[p].amount, now, s0)
         /\ r.nextPositionId = s.nextPositionId
         /\ \A q \in Positions : q # p =>
              r.positions[q] = s.positions[q] /\ r.ownerOf[q] = s.ownerOf[q]
<1> DEFINE r == closeForRestructure(s, p, effective)
           position == [s.positions[p] EXCEPT !.closedAtEpoch = effective]
<1>1. Books(s, h) /\ LocksKept(s, now) /\ Frozen(s, s0, now)
  BY DEF Sound
<1>2. Books(r, h - s.positions[p].amount) /\ Removed(r, s, p, position)
  BY <1>1, CloseEffect
<1> HIDE DEF r
<1>3. LocksKept(r, now)
  BY <1>1, <1>2, RemovedLocks
<1>4. effective \in Nat
  BY DEF Epochs
<1>5. Frozen(r, s, now)
  BY <1>1, <1>2, <1>4, RemovedFrozen
<1>6. s.positions \in [Positions -> PositionType] /\ s.ownerOf \in [Positions -> Stakers \cup {NoStaker}]
  BY <1>1 DEF Books, Storage
<1> QED BY <1>1, <1>2, <1>3, <1>5, <1>6, FrozenTransitive DEF Sound, Removed, SameTraces, r

LEMMA SoundCreate ==
  ASSUME NEW s0, NEW s, NEW h, NEW now, now \in 0..MaxEpoch, Sound(s, h, now, s0),
         s.nextPositionId <= MaxPositions,
         NEW owner \in Stakers, NEW agent \in Agents, NEW amount \in Nat, NEW weight \in Nat,
         NEW start \in Nat, start > now, NEW normalStart \in Nat,
         NEW end, end \in Epochs, start < end
  PROVE  /\ LET r == createWeightedPosition(s, owner, agent, amount, weight, start, normalStart, end) IN
            Sound(r, h + amount, now, s0)
         /\ LET r == createRestructuredPosition(s, owner, agent, amount, weight, start, normalStart, end) IN
            Sound(r, h + amount, now, s0) /\ r.nextPositionId = s.nextPositionId + 1
<1> DEFINE position == NewPosition(owner, agent, amount, weight, start, end)
           weighted == createWeightedPosition(s, owner, agent, amount, weight, start, normalStart, end)
           restructured == createRestructuredPosition(s, owner, agent, amount, weight, start, normalStart, end)
<1>1. Books(s, h) /\ LocksKept(s, now) /\ Frozen(s, s0, now)
  BY DEF Sound
<1>2. end \in Nat
  BY DEF Epochs
<1>a. Books(s, h) /\ s.nextPositionId <= MaxPositions /\ owner \in Stakers /\ agent \in Agents
      /\ amount \in Nat /\ weight \in Nat /\ start \in Nat /\ normalStart \in Nat /\ end \in Nat
  BY <1>1, <1>2
<1>3. /\ Books(weighted, h + amount) /\ Created(weighted, s, position, normalStart)
      /\ weighted.withdrawableEpoch = s.withdrawableEpoch
  BY ONLY <1>a, CreateEffect
<1>4. /\ Books(restructured, h + amount) /\ Created(restructured, s, position, normalStart)
      /\ restructured.withdrawableEpoch = [s.withdrawableEpoch EXCEPT ![s.nextPositionId] = start]
  BY ONLY <1>a, CreateRestructuredEffect
<1>5. position \in PositionType /\ position.stakeStartEpoch = start /\ position.stakeEndEpoch = end
  BY <1>2, PoolsAssumption DEF PositionType, NewPosition
<1> HIDE DEF position, weighted, restructured
<1>6. LocksKept(weighted, now) /\ Frozen(weighted, s, now)
  BY <1>1, <1>3, <1>5, CreatedLocks, CreatedFrozen
<1>7. LocksKept(restructured, now) /\ Frozen(restructured, s, now)
  BY <1>1, <1>4, <1>5, CreatedLocks, CreatedFrozen
<1>8. restructured.nextPositionId = s.nextPositionId + 1
  BY <1>4 DEF Created
<1> QED BY <1>1, <1>3, <1>4, <1>6, <1>7, <1>8, FrozenTransitive DEF Sound, weighted, restructured

(* What an operation relies on about an open position. *)
LEMMA OpenPosition ==
  ASSUME PoolsInv, NEW p \in Positions, Owned(pools, p)
  PROVE  /\ pools.positions[p] \in PositionType
         /\ pools.positions[p].owner \in Stakers /\ pools.positions[p].agentId \in Agents
         /\ pools.positions[p].owner = pools.ownerOf[p]
         /\ LockKept(pools, p, epoch)
         /\ effectiveEpoch(p) = Effective(pools, p, epoch)
         /\ effectiveEpoch(p) \in Epochs /\ effectiveEpoch(p) > epoch
         /\ pools.maxLockPower[p] \in NatTrace /\ pools.normalStart[p] \in NatTrace
         /\ pools.normalEnd[p] \in NatTrace
<1>1. pools \in Storage /\ PositionsKnown(pools) /\ LocksKept(pools, epoch) /\ epoch \in 0..MaxEpoch
  BY DEF PoolsInv, Books
<1>2. /\ pools.positions \in [Positions -> PositionType]
      /\ pools.ownerOf \in [Positions -> Stakers \cup {NoStaker}]
      /\ pools.maxLockPower \in [Positions -> NatTrace] /\ pools.normalStart \in [Positions -> NatTrace]
      /\ pools.normalEnd \in [Positions -> NatTrace]
  BY <1>1 DEF Storage
<1>3. pools.positions[p].owner = pools.ownerOf[p]
  BY <1>1 DEF PositionsKnown
<1>4. pools.positions[p].owner \in Stakers /\ pools.positions[p].agentId \in Agents
  BY <1>1, <1>2, <1>3 DEF PositionsKnown, Owned
<1>5. LockKept(pools, p, epoch)
  BY <1>1 DEF LocksKept
<1>6. effectiveEpoch(p) = Effective(pools, p, epoch)
  BY DEF effectiveEpoch, Effective
<1>7. pools.positions[p].stakeStartEpoch \in Nat /\ pools.positions[p] \in PositionType
  BY <1>2 DEF PositionType
<1>8. pools.positions[p].stakeStartEpoch \in Epochs
  <2>1. pools.positions[p].stakeStartEpoch < pools.positions[p].stakeEndEpoch
        /\ pools.positions[p].stakeEndEpoch \in Epochs
    BY <1>5 DEF LockKept
  <2> QED BY <1>7, <2>1, PoolsAssumption DEF Epochs
<1>9. epoch + 1 \in Epochs /\ epoch \in Nat
  BY <1>1, NowInEpochs
<1>10. effectiveEpoch(p) \in Epochs /\ effectiveEpoch(p) > epoch
  BY <1>7, <1>8, <1>9 DEF effectiveEpoch, Later
<1> QED BY <1>2, <1>3, <1>4, <1>5, <1>6, <1>7, <1>10

LEMMA RestructureTerms ==
  ASSUME PoolsInv, NEW p \in Positions, NEW effective \in Epochs, effective >= effectiveEpoch(p),
         canRestructure(p, effective)
  PROVE  /\ Owned(pools, p) /\ effective > epoch
         /\ pools.normalEnd[p][effective] \in Epochs /\ effective < pools.normalEnd[p][effective]
         /\ pools.normalEnd[p][effective] = pools.positions[p].stakeEndEpoch
         /\ pools.normalStart[p][effective] \in Nat
         /\ pools.maxLockPower[p][effectiveEpoch(p)] = 0
<1>1. Owned(pools, p) /\ effective < pools.normalEnd[p][effective]
      /\ pools.maxLockPower[p][effective] = 0
  BY DEF canRestructure, isOpen, Owned
<1>2. /\ LockKept(pools, p, epoch) /\ effectiveEpoch(p) = Effective(pools, p, epoch)
      /\ effectiveEpoch(p) \in Epochs /\ effectiveEpoch(p) > epoch
      /\ pools.normalStart[p] \in NatTrace
  BY <1>1, OpenPosition
<1>3. /\ pools.normalEnd[p][effective] = pools.normalEnd[p][effectiveEpoch(p)]
      /\ pools.maxLockPower[p][effective] = pools.maxLockPower[p][effectiveEpoch(p)]
      /\ pools.normalEnd[p][effectiveEpoch(p)] \in {0, pools.positions[p].stakeEndEpoch}
      /\ pools.positions[p].stakeEndEpoch \in Epochs
  BY <1>2 DEF LockKept
<1>4. effective \in Nat /\ effectiveEpoch(p) \in Nat /\ epoch \in Nat
  BY <1>2, NowInEpochs DEF Epochs, PoolsInv
<1>5. effective > epoch
  BY <1>2, <1>4
<1>6. pools.normalEnd[p][effective] # 0
  BY <1>1, <1>4
<1>7. pools.normalStart[p][effective] \in Nat
  BY <1>2 DEF NatTrace
<1> QED BY <1>1, <1>3, <1>5, <1>6, <1>7

LEMMA QuotientNat ==
  ASSUME NEW a \in Nat, NEW d \in Nat \ {0}
  PROVE  a \div d \in Nat /\ d * (a \div d) <= a
OBVIOUS

LEMMA ProductNat ==
  ASSUME NEW a \in Nat, NEW b \in Nat
  PROVE  a * b \in Nat
OBVIOUS

(* A part's share of the weight is within the weight. *)
LEMMA ShareWithin ==
  ASSUME NEW w \in Nat, NEW x \in Nat, NEW a \in Nat \ {0}, x <= a
  PROVE  (w * x) \div a \in Nat /\ w - (w * x) \div a \in Nat
<1> DEFINE y == w * x
           d == y \div a
<1>1. y \in Nat
  BY ProductNat
<1> HIDE DEF y
<1>2. d \in Nat /\ a * d <= y
  BY <1>1, QuotientNat
<1>3. y <= a * w
  <2>1. \E k \in Nat : a = x + k
    <3>1. a - x \in Nat /\ a = x + (a - x)
      OBVIOUS
    <3> QED BY <3>1
  <2>2. PICK k \in Nat : a = x + k
    BY <2>1
  <2>3. a * w = x * w + k * w
    BY <2>2
  <2>4. k * w \in Nat /\ x * w = w * x
    BY ProductNat
  <2> QED BY <2>3, <2>4, <1>1 DEF y
<1> HIDE DEF d
<1>4. d <= w
  <2> SUFFICES ASSUME d > w PROVE FALSE
    BY <1>2
  <2>1. PICK k \in Nat : d = w + 1 + k
    <3>1. d - (w + 1) \in Nat /\ d = w + 1 + (d - (w + 1))
      BY <1>2
    <3> QED BY <3>1
  <2>2. a * d = a * w + a + a * k
    BY <2>1
  <2>3. a * k \in Nat /\ a * w \in Nat
    BY ProductNat
  <2> QED BY <1>1, <1>2, <1>3, <2>2, <2>3
<1> QED BY <1>2, <1>4 DEF d, y

LEMMA InvSound ==
  ASSUME PoolsInv
  PROVE  Sound(pools, held, epoch, pools) /\ epoch \in 0..MaxEpoch /\ epoch \in Nat /\ config \in Config
BY NowInEpochs DEF PoolsInv, Sound, Frozen

LEMMA StakeForSound ==
  ASSUME PoolsInv, NEW u \in Stakers, NEW a \in Agents, NEW amount \in StakeAmounts,
         NEW n \in StakeLengths, stakeFor(u, a, amount, n)
  PROVE  Sound(pools', held', epoch, pools)
<1> DEFINE start == epoch + config.stakeActivationDelay
<1>1. Sound(pools, held, epoch, pools) /\ epoch \in 0..MaxEpoch /\ epoch \in Nat /\ config \in Config
  BY InvSound
<1>2. amount \in Nat /\ n \in Nat
  BY PoolsAssumption
<1>3. config.stakeActivationDelay \in Nat /\ config.stakeActivationDelay >= 1
      /\ config.minStakeEpochs \in Nat /\ config.minStakeEpochs >= 1
  BY <1>1, PoolsAssumption DEF Config
<1>4. /\ pools.nextPositionId + 1 <= MaxPositions + 1 /\ start + n \in Epochs /\ config.minStakeEpochs <= n
      /\ pools' = createWeightedPosition(pools, u, a, amount, amount, start, start, start + n)
      /\ held' = held + amount
  BY DEF stakeFor, canCreate, inTree
<1>5. start \in Nat /\ start > epoch /\ start < start + n
  BY <1>1, <1>2, <1>3, <1>4
<1>6. pools.nextPositionId \in Nat /\ MaxPositions \in Nat
  BY PoolsAssumption DEF PoolsInv, Books, Storage
<1>7. pools.nextPositionId <= MaxPositions
  BY <1>4, <1>6
<1> DEFINE end == start + n
<1>8. end \in Epochs /\ start < end
  BY <1>4, <1>5
<1> HIDE DEF start, end
<1>9. Sound(createWeightedPosition(pools, u, a, amount, amount, start, start, end), held + amount, epoch, pools)
  BY <1>1, <1>2, <1>5, <1>7, <1>8, SoundCreate
<1> QED BY <1>4, <1>9 DEF end

LEMMA StakeMintedRewardSound ==
  ASSUME PoolsInv, NEW p \in Positions, NEW amount \in StakeAmounts,
         NEW n \in StakeLengths, stakeMintedReward(p, amount, n)
  PROVE  Sound(pools', held', epoch, pools)
<1> DEFINE start == epoch + config.stakeActivationDelay
           position == pools.positions[p]
           weight == restakedWeight(amount, n)
<1>1. Sound(pools, held, epoch, pools) /\ epoch \in 0..MaxEpoch /\ epoch \in Nat /\ config \in Config
  BY InvSound
<1>2. amount \in Nat /\ n \in Nat
  BY PoolsAssumption
<1>3. /\ config.stakeActivationDelay \in Nat /\ config.stakeActivationDelay >= 1
      /\ config.minStakeEpochs \in Nat /\ config.minStakeEpochs >= 1
      /\ config.restakedRewardWeightBonusBps \in Nat
  BY <1>1, PoolsAssumption DEF Config
<1>4. /\ pools.nextPositionId + 1 <= MaxPositions + 1 /\ start + n \in Epochs /\ config.minStakeEpochs <= n
      /\ position.owner # NoStaker
      /\ pools' = createWeightedPosition(pools, position.owner, position.agentId, amount, weight,
                                         start, start, start + n)
      /\ held' = held + amount
  BY DEF stakeMintedReward, canCreate, inTree
<1>5. start \in Nat /\ start > epoch /\ start < start + n
  BY <1>1, <1>2, <1>3, <1>4
<1>6. pools.nextPositionId \in Nat /\ MaxPositions \in Nat
  BY PoolsAssumption DEF PoolsInv, Books, Storage
<1>7. pools.nextPositionId <= MaxPositions
  BY <1>4, <1>6
<1>8. position.owner \in Stakers /\ position.agentId \in Agents
  <2>1. pools.positions \in [Positions -> PositionType] /\ PositionsKnown(pools)
    BY DEF PoolsInv, Books, Storage
  <2>2. position \in PositionType
    BY <2>1
  <2>3. position.owner \in Stakers \cup {NoStaker}
    BY <2>2 DEF PositionType
  <2> QED BY <1>4, <2>1, <2>3 DEF PositionsKnown
<1>9. weight \in Nat
  <2> DEFINE bonus == (config.restakedRewardWeightBonusBps * n) \div MAX_STAKE_EPOCHS
             scale == 10000 + bonus
  <2>1. bonus \in Nat
    <3>1. config.restakedRewardWeightBonusBps * n \in Nat
      BY <1>2, <1>3, ProductNat
    <3>2. MAX_STAKE_EPOCHS \in Nat \ {0}
      BY PoolsAssumption
    <3> QED BY <3>1, <3>2, QuotientNat
  <2>2. weight = (amount * scale) \div 10000
    BY DEF restakedWeight, BPS_DENOMINATOR
  <2> HIDE DEF bonus
  <2>3. scale \in Nat
    BY <2>1
  <2> HIDE DEF scale, weight
  <2>4. amount * scale \in Nat
    BY <1>2, <2>3, ProductNat
  <2>5. 10000 \in Nat \ {0}
    OBVIOUS
  <2> QED BY <2>2, <2>4, <2>5, QuotientNat
<1> DEFINE end == start + n
           owner == position.owner
           agent == position.agentId
<1>10. end \in Epochs /\ start < end /\ owner \in Stakers /\ agent \in Agents
  BY <1>4, <1>5, <1>8
<1> HIDE DEF start, end, weight, position, owner, agent
<1>11. Sound(createWeightedPosition(pools, owner, agent, amount, weight, start, start, end), held + amount, epoch, pools)
  BY <1>1, <1>2, <1>5, <1>7, <1>9, <1>10, SoundCreate
<1> QED BY <1>4, <1>11 DEF end, owner, agent

(* How many positions there are, and how many more there may be. *)
LEMMA RoomFor ==
  ASSUME PoolsInv, NEW n \in Nat, canCreate(n)
  PROVE  pools.nextPositionId \in Nat /\ pools.nextPositionId + n <= MaxPositions + 1 /\ MaxPositions \in Nat
BY PoolsAssumption DEF PoolsInv, Books, Storage, canCreate

LEMMA InvHeld ==
  ASSUME PoolsInv
  PROVE  held \in Int
<1>1. pools \in Storage /\ held = StakeIn(pools, Stakers, Agents)
  BY DEF PoolsInv, Books, TotalsExact
<1>2. pools.positions \in [Positions -> PositionType]
  BY <1>1 DEF Storage
<1>3. \A q \in Positions : pools.positions[q].amount \in Int
  BY <1>2 DEF PositionType
<1>4. Principal(pools, Stakers, Agents) \in [1..MaxPositions -> Int]
  BY <1>3 DEF Principal, Positions
<1> QED BY <1>1, <1>4, SumInt, PoolsAssumption DEF StakeIn

LEMMA RestNat ==
  ASSUME NEW x, x \in 0..10000
  PROVE  10000 - x \in Nat
OBVIOUS

LEMMA MoveStakeSound ==
  ASSUME PoolsInv, NEW p \in Positions, NEW a \in Agents, moveStake(p, a)
  PROVE  Sound(pools', held', epoch, pools)
<1> DEFINE effective == effectiveEpoch(p)
           position == pools.positions[p]
           weight == (position.weightAmount * (BPS_DENOMINATOR - config.moveWeightPenaltyBps)) \div BPS_DENOMINATOR
           start == pools.normalStart[p][effective]
           end == pools.normalEnd[p][effective]
           closed == closeForRestructure(pools, p, effective)
           owner == position.owner
           amount == position.amount
<1>1. Sound(pools, held, epoch, pools) /\ epoch \in 0..MaxEpoch /\ epoch \in Nat /\ config \in Config
  BY InvSound
<1>2. /\ canCreate(1) /\ canRestructure(p, effective) /\ held' = held
      /\ pools' = createRestructuredPosition(closed, owner, a, amount, weight, effective, start, end)
  BY DEF moveStake
<1>3. Owned(pools, p)
  BY <1>2 DEF canRestructure, isOpen, Owned
<1>4. /\ position \in PositionType /\ owner \in Stakers
      /\ effective \in Epochs /\ effective > epoch
  BY <1>3, OpenPosition
<1>5. effective \in Nat /\ amount \in Nat /\ position.weightAmount \in Nat
  BY <1>4 DEF Epochs, PositionType
<1>6. effective >= effective
  BY <1>5
<1>7. end \in Epochs /\ effective < end /\ start \in Nat
  BY <1>2, <1>4, <1>6, RestructureTerms
<1>8. weight \in Nat
  <2> DEFINE rest == 10000 - config.moveWeightPenaltyBps
  <2>1. rest \in Nat
    <3>1. config.moveWeightPenaltyBps \in 0..BPS_DENOMINATOR
      BY <1>1 DEF Config
    <3>2. config.moveWeightPenaltyBps \in 0..10000
      BY ONLY <3>1 DEF BPS_DENOMINATOR
    <3> QED BY ONLY <3>2, RestNat
  <2>2. weight = (position.weightAmount * rest) \div 10000
    BY DEF BPS_DENOMINATOR
  <2> HIDE DEF rest, weight
  <2>3. position.weightAmount * rest \in Nat
    BY <1>5, <2>1, ProductNat
  <2>4. 10000 \in Nat \ {0}
    OBVIOUS
  <2> QED BY <2>2, <2>3, <2>4, QuotientNat
<1>9. pools.nextPositionId <= MaxPositions
  BY <1>2, RoomFor
<1> HIDE DEF effective, weight, start, end, closed, owner
<1>10. Sound(closed, held - amount, epoch, pools) /\ closed.nextPositionId = pools.nextPositionId
  BY <1>1, <1>3, <1>4, SoundClose DEF closed
<1> HIDE DEF amount, position
<1>11. Sound(pools', (held - amount) + amount, epoch, pools)
  <2> DEFINE h == held - amount
  <2>1. closed.nextPositionId <= MaxPositions
    BY <1>9, <1>10
  <2>2. Sound(closed, h, epoch, pools)
    BY <1>10
  <2> HIDE DEF h
  <2>3. Sound(createRestructuredPosition(closed, owner, a, amount, weight, effective, start, end),
              h + amount, epoch, pools)
    BY <1>1, <1>4, <1>5, <1>7, <1>8, <2>1, <2>2, SoundCreate
  <2> QED BY <1>2, <2>3 DEF h
<1>12. held \in Int
  BY InvHeld
<1> QED BY <1>2, <1>5, <1>11, <1>12

LEMMA SplitStakeSound ==
  ASSUME PoolsInv, NEW p \in Positions, NEW splitAmount \in SplitAmounts, splitStake(p, splitAmount)
  PROVE  Sound(pools', held', epoch, pools)
<1> DEFINE effective == effectiveEpoch(p)
           position == pools.positions[p]
           amount == position.amount
           firstAmount == amount - splitAmount
           secondWeight == (position.weightAmount * splitAmount) \div amount
           firstWeight == position.weightAmount - secondWeight
           start == pools.normalStart[p][effective]
           end == pools.normalEnd[p][effective]
           owner == position.owner
           agent == position.agentId
           closed == closeForRestructure(pools, p, effective)
           one == createRestructuredPosition(closed, owner, agent, firstAmount, firstWeight, effective, start, end)
           two == createRestructuredPosition(one, owner, agent, splitAmount, secondWeight, effective, start, end)
<1>1. Sound(pools, held, epoch, pools) /\ epoch \in 0..MaxEpoch /\ epoch \in Nat
  BY InvSound
<1>2. /\ canCreate(2) /\ canRestructure(p, effective) /\ held' = held /\ pools' = two
      /\ 0 < splitAmount /\ splitAmount < amount
  BY DEF splitStake
<1>3. Owned(pools, p)
  BY <1>2 DEF canRestructure, isOpen, Owned
<1>4. /\ position \in PositionType /\ owner \in Stakers /\ agent \in Agents
      /\ effective \in Epochs /\ effective > epoch
  BY <1>3, OpenPosition
<1>5. effective \in Nat /\ amount \in Nat /\ position.weightAmount \in Nat /\ splitAmount \in Nat
  BY <1>4, PoolsAssumption DEF Epochs, PositionType
<1>6. effective >= effective
  BY <1>5
<1>7. end \in Epochs /\ effective < end /\ start \in Nat
  BY <1>2, <1>4, <1>6, RestructureTerms
<1>8. firstAmount \in Nat /\ secondWeight \in Nat /\ firstWeight \in Nat
  <2>1. firstAmount \in Nat /\ amount \in Nat \ {0} /\ splitAmount <= amount
    BY <1>2, <1>5
  <2> QED BY <1>5, <2>1, ShareWithin
<1>9. pools.nextPositionId \in Nat /\ pools.nextPositionId + 2 <= MaxPositions + 1 /\ MaxPositions \in Nat
  BY <1>2, RoomFor
<1>10. held \in Int
  BY InvHeld
<1> HIDE DEF effective, firstWeight, secondWeight, start, end, closed, owner, agent, one
<1>11. Sound(closed, held - amount, epoch, pools) /\ closed.nextPositionId = pools.nextPositionId
  BY <1>1, <1>3, <1>4, SoundClose DEF closed
<1> DEFINE h == held - amount
<1>a. h \in Int /\ (h + firstAmount) + splitAmount = held
  BY <1>5, <1>10
<1>12. Sound(closed, h, epoch, pools) /\ closed.nextPositionId <= MaxPositions
  BY <1>9, <1>11
<1> HIDE DEF h, amount, position, firstAmount
<1>13. Sound(one, h + firstAmount, epoch, pools) /\ one.nextPositionId = closed.nextPositionId + 1
  BY <1>1, <1>4, <1>5, <1>7, <1>8, <1>12, SoundCreate DEF one
<1> DEFINE k == h + firstAmount
<1>14. Sound(one, k, epoch, pools) /\ one.nextPositionId <= MaxPositions
  BY <1>9, <1>11, <1>13
<1> HIDE DEF k
<1>15. Sound(two, k + splitAmount, epoch, pools)
  BY <1>1, <1>4, <1>5, <1>7, <1>8, <1>14, SoundCreate
<1> QED BY <1>2, <1>15, <1>a DEF k

LEMMA MergeStakesSound ==
  ASSUME PoolsInv, NEW p \in Positions, NEW q \in Positions, mergeStakes(p, q)
  PROVE  Sound(pools', held', epoch, pools)
<1> DEFINE effective == Later(effectiveEpoch(p), effectiveEpoch(q))
           first == pools.positions[p]
           second == pools.positions[q]
           start == pools.normalStart[p][effective]
           end == pools.normalEnd[p][effective]
           owner == first.owner
           agent == first.agentId
           weight == first.weightAmount + second.weightAmount
           one == closeForRestructure(pools, p, effective)
           both == closeForRestructure(one, q, effective)
           merged == createRestructuredPosition(both, owner, agent, first.amount + second.amount, weight,
                                                effective, start, end)
<1>1. Sound(pools, held, epoch, pools) /\ epoch \in 0..MaxEpoch /\ epoch \in Nat
  BY InvSound
<1>2. /\ canCreate(1) /\ p # q /\ canRestructure(p, effective) /\ canRestructure(q, effective)
      /\ held' = held /\ pools' = merged
  BY DEF mergeStakes
<1>3. Owned(pools, p) /\ Owned(pools, q)
  BY <1>2 DEF canRestructure, isOpen, Owned
<1>4. /\ first \in PositionType /\ owner \in Stakers /\ agent \in Agents /\ second \in PositionType
      /\ effectiveEpoch(p) \in Epochs /\ effectiveEpoch(p) > epoch
      /\ effectiveEpoch(q) \in Epochs /\ effectiveEpoch(q) > epoch
  BY <1>3, OpenPosition
<1>5. first.amount \in Nat /\ second.amount \in Nat /\ weight \in Nat
  BY <1>4 DEF PositionType
<1>6. effective \in Epochs /\ effective \in Nat /\ effective > epoch
      /\ effective >= effectiveEpoch(p) /\ effective >= effectiveEpoch(q)
  BY <1>4 DEF Later, Epochs
<1>7. end \in Epochs /\ effective < end /\ start \in Nat
  BY <1>2, <1>6, RestructureTerms
<1>9. pools.nextPositionId \in Nat /\ pools.nextPositionId + 1 <= MaxPositions + 1 /\ MaxPositions \in Nat
  BY <1>2, RoomFor
<1>10. held \in Int
  BY InvHeld
<1> HIDE DEF effective, weight, start, end, one, both, owner, agent
<1>11. /\ Sound(one, held - first.amount, epoch, pools) /\ one.nextPositionId = pools.nextPositionId
       /\ one.positions[q] = second /\ one.ownerOf[q] = pools.ownerOf[q]
  BY <1>1, <1>2, <1>3, <1>6, SoundClose DEF one
<1> DEFINE h == held - first.amount
<1>12. Sound(one, h, epoch, pools) /\ Owned(one, q) /\ one.positions[q].amount = second.amount
  BY <1>3, <1>11 DEF Owned
<1> HIDE DEF h
<1>13. Sound(both, h - second.amount, epoch, pools) /\ both.nextPositionId = one.nextPositionId
  BY <1>1, <1>6, <1>12, SoundClose DEF both
<1> DEFINE k == h - second.amount
           sum == first.amount + second.amount
<1>14. Sound(both, k, epoch, pools) /\ both.nextPositionId <= MaxPositions /\ sum \in Nat
  BY <1>5, <1>9, <1>11, <1>13
<1>15. k + sum = held
  BY <1>5, <1>10 DEF h
<1> HIDE DEF k, sum
<1>16. Sound(createRestructuredPosition(both, owner, agent, sum, weight, effective, start, end),
             k + sum, epoch, pools)
  BY <1>1, <1>4, <1>5, <1>6, <1>7, <1>14, SoundCreate
<1> QED BY <1>2, <1>15, <1>16 DEF sum

-----------------------------------------------------------------------------
(* Operations that change the lock of a position from the next epoch on.   *)

(* The terms of p in r: an end, and checkpoints that are as before until   *)
(* now.                                                                    *)
Relocked(r, s, p, end, now) ==
  /\ SameLists(r, s) /\ SameTotals(r, s) /\ r.ownerOf = s.ownerOf
  /\ r.nextPositionId = s.nextPositionId /\ r.withdrawableEpoch = s.withdrawableEpoch
  /\ r.positions = [s.positions EXCEPT ![p] = [s.positions[p] EXCEPT !.stakeEndEpoch = end]]
  /\ r.maxLockPower = [s.maxLockPower EXCEPT ![p] = r.maxLockPower[p]]
  /\ r.normalStart = [s.normalStart EXCEPT ![p] = r.normalStart[p]]
  /\ r.normalEnd = [s.normalEnd EXCEPT ![p] = r.normalEnd[p]]
  /\ \A e \in 0..now : /\ r.maxLockPower[p][e] = s.maxLockPower[p][e]
                       /\ r.normalEnd[p][e] = s.normalEnd[p][e]

LEMMA RelockedSound ==
  ASSUME NEW s, NEW h, NEW now, Books(s, h), LocksKept(s, now), NEW p \in Positions, Owned(s, p),
         NEW end, NEW r \in Storage, Relocked(r, s, p, end, now), LockKept(r, p, now)
  PROVE  Sound(r, h, now, s)
<1>1. s \in Storage /\ PositionsKnown(s) /\ ListsExact(s) /\ TotalsExact(s, h)
  BY DEF Books
<1>2. /\ s.positions \in [Positions -> PositionType] /\ s.maxLockPower \in [Positions -> NatTrace]
      /\ s.normalStart \in [Positions -> NatTrace] /\ s.normalEnd \in [Positions -> NatTrace]
  BY <1>1 DEF Storage
<1>3. /\ r.positions[p].owner = s.positions[p].owner /\ r.positions[p].agentId = s.positions[p].agentId
      /\ r.positions[p].amount = s.positions[p].amount
      /\ r.positions[p].weightAmount = s.positions[p].weightAmount
      /\ r.positions[p].stakeStartEpoch = s.positions[p].stakeStartEpoch
      /\ r.positions[p].closedAtEpoch = s.positions[p].closedAtEpoch
      /\ r.positions[p].withdrawn = s.positions[p].withdrawn
  BY <1>2 DEF Relocked, PositionType
<1>4. \A q \in Positions : q # p => SameAt(r, s, q)
  BY <1>2 DEF Relocked, SameAt
<1>5. r.ownerOf = s.ownerOf /\ r.nextPositionId = s.nextPositionId
  BY DEF Relocked
<1>6. ListsExact(r)
  BY <1>1 DEF Relocked, ListsExact, SameLists
<1>7. TotalsExact(r, h)
  <2>1. \A q \in Positions : /\ r.positions[q].agentId = s.positions[q].agentId
                             /\ r.positions[q].amount = s.positions[q].amount
    BY <1>3, <1>4 DEF SameAt
  <2>2. SameTotals(r, s)
    BY DEF Relocked
  <2> QED BY <1>1, <1>5, <2>1, <2>2, TotalsKept
<1>8. PositionsKnown(r)
  <2> SUFFICES ASSUME NEW q \in Positions
               PROVE  /\ q >= r.nextPositionId => FreshPosition(r, q)
                      /\ r.positions[q].owner # NoStaker => r.positions[q].agentId \in Agents
                      /\ Owned(r, q) => /\ r.positions[q].owner = r.ownerOf[q]
                                        /\ ~r.positions[q].withdrawn
                                        /\ r.positions[q].closedAtEpoch = 0
    BY DEF PositionsKnown
  <2>1. CASE q = p
    <3>1. ~(p >= s.nextPositionId)
      BY <1>1 DEF PositionsKnown, FreshPosition, Owned
    <3> QED BY <1>1, <1>3, <1>5, <2>1, <3>1 DEF PositionsKnown, Owned
  <2>2. CASE q # p
    BY <1>1, <1>4, <1>5, <2>2 DEF PositionsKnown, FreshPosition, Owned, SameAt
  <2> QED BY <2>1, <2>2
<1>9. LocksKept(r, now)
  <2> SUFFICES ASSUME NEW q \in Positions, Owned(r, q) PROVE LockKept(r, q, now)
    BY DEF LocksKept
  <2>1. q # p => LockKept(s, q, now)
    BY <1>5 DEF LocksKept, Owned
  <2> QED BY <1>4, <2>1, LockSame
<1>10. Frozen(r, s, now)
  <2> SUFFICES ASSUME NEW q \in Positions, NEW e \in 0..now PROVE Weight(r, q, e) = Weight(s, q, e)
    BY DEF Frozen
  <2>1. CASE q = p
    <3>1. r.maxLockPower[p][e] = s.maxLockPower[p][e] /\ r.normalEnd[p][e] = s.normalEnd[p][e]
      BY DEF Relocked
    <3> QED BY <1>3, <2>1, <3>1 DEF Weight
  <2>2. CASE q # p
    BY <1>4, <2>2 DEF Weight, SameAt
  <2> QED BY <2>1, <2>2
<1> QED BY <1>6, <1>7, <1>8, <1>9, <1>10 DEF Sound, Books

LEMMA PushValue ==
  ASSUME NEW trace, NEW key, NEW value, NEW e \in Epochs
  PROVE  push(trace, key, value)[e] = IF e >= key THEN value ELSE trace[e]
BY DEF push

(* New terms for p, in the storage and as far as they go. *)
RelockedTo(s, p, end, m, a, b) ==
  [s EXCEPT !.positions = [s.positions EXCEPT ![p] = [s.positions[p] EXCEPT !.stakeEndEpoch = end]],
            !.maxLockPower = [s.maxLockPower EXCEPT ![p] = m],
            !.normalStart = [s.normalStart EXCEPT ![p] = a],
            !.normalEnd = [s.normalEnd EXCEPT ![p] = b]]

LEMMA RelockType ==
  ASSUME NEW s \in Storage, NEW p \in Positions, NEW end \in Nat,
         NEW m \in NatTrace, NEW a \in NatTrace, NEW b \in NatTrace
  PROVE  LET r == RelockedTo(s, p, end, m, a, b)
         IN  /\ r \in Storage /\ SameLists(r, s) /\ SameTotals(r, s) /\ r.ownerOf = s.ownerOf
             /\ r.nextPositionId = s.nextPositionId /\ r.withdrawableEpoch = s.withdrawableEpoch
             /\ r.positions = [s.positions EXCEPT ![p] = [s.positions[p] EXCEPT !.stakeEndEpoch = end]]
             /\ r.maxLockPower = [s.maxLockPower EXCEPT ![p] = m]
             /\ r.normalStart = [s.normalStart EXCEPT ![p] = a]
             /\ r.normalEnd = [s.normalEnd EXCEPT ![p] = b]
             /\ r.maxLockPower[p] = m /\ r.normalStart[p] = a /\ r.normalEnd[p] = b
<1> DEFINE position == [s.positions[p] EXCEPT !.stakeEndEpoch = end]
           positions == [s.positions EXCEPT ![p] = position]
           ms == [s.maxLockPower EXCEPT ![p] = m]
           as == [s.normalStart EXCEPT ![p] = a]
           bs == [s.normalEnd EXCEPT ![p] = b]
           r == [s EXCEPT !.positions = positions, !.maxLockPower = ms, !.normalStart = as, !.normalEnd = bs]
<1>1. /\ s.positions \in [Positions -> PositionType] /\ s.maxLockPower \in [Positions -> NatTrace]
      /\ s.normalStart \in [Positions -> NatTrace] /\ s.normalEnd \in [Positions -> NatTrace]
  BY DEF Storage
<1>2. position \in PositionType
  BY <1>1 DEF PositionType
<1> HIDE DEF position
<1>3. positions \in [Positions -> PositionType] /\ ms \in [Positions -> NatTrace]
      /\ as \in [Positions -> NatTrace] /\ bs \in [Positions -> NatTrace]
  BY <1>1, <1>2
<1>4. ms[p] = m /\ as[p] = a /\ bs[p] = b
  BY <1>1
<1> HIDE DEF positions, ms, as, bs
<1>5. r \in Storage
  BY <1>3 DEF Storage
<1>6. /\ SameLists(r, s) /\ SameTotals(r, s) /\ r.ownerOf = s.ownerOf
      /\ r.nextPositionId = s.nextPositionId /\ r.withdrawableEpoch = s.withdrawableEpoch
      /\ r.positions = positions /\ r.maxLockPower = ms /\ r.normalStart = as /\ r.normalEnd = bs
  BY DEF Storage, SameLists, SameTotals
<1> QED BY <1>4, <1>5, <1>6 DEF positions, ms, as, bs, position, RelockedTo

(* New checkpoints leave the epochs until now as they are. *)
KeptUntil(s, p, now, m, b) ==
  \A e \in 0..now : m[e] = s.maxLockPower[p][e] /\ b[e] = s.normalEnd[p][e]

(* Trees and totals of the pools are no part of what Relocked says.        *)
LEMMA RelockedBySteps ==
  ASSUME NEW s \in Storage, NEW p \in Positions, NEW end \in Nat,
         NEW m \in NatTrace, NEW a \in NatTrace, NEW b \in NatTrace,
         NEW now, KeptUntil(s, p, now, m, b),
         NEW r, SameBooks(r, RelockedTo(s, p, end, m, a, b))
  PROVE  /\ Relocked(r, s, p, end, now)
         /\ r.maxLockPower[p] = m /\ r.normalStart[p] = a /\ r.normalEnd[p] = b
         /\ r.withdrawableEpoch = s.withdrawableEpoch
         /\ r.positions[p].stakeEndEpoch = end
         /\ r.positions[p].stakeStartEpoch = s.positions[p].stakeStartEpoch
         /\ r.positions[p].weightAmount = s.positions[p].weightAmount
<1> DEFINE t == RelockedTo(s, p, end, m, a, b)
           positions == [s.positions EXCEPT ![p] = [s.positions[p] EXCEPT !.stakeEndEpoch = end]]
<1>1. /\ SameLists(t, s) /\ SameTotals(t, s) /\ t.ownerOf = s.ownerOf
      /\ t.nextPositionId = s.nextPositionId /\ t.withdrawableEpoch = s.withdrawableEpoch
      /\ t.positions = positions
      /\ t.maxLockPower = [s.maxLockPower EXCEPT ![p] = m]
      /\ t.normalStart = [s.normalStart EXCEPT ![p] = a]
      /\ t.normalEnd = [s.normalEnd EXCEPT ![p] = b]
      /\ t.maxLockPower[p] = m /\ t.normalStart[p] = a /\ t.normalEnd[p] = b
  BY RelockType
<1>2. SameBooks(r, t)
  OBVIOUS
<1>3. s.positions \in [Positions -> PositionType]
  BY DEF Storage
<1>4. /\ positions[p].stakeEndEpoch = end
      /\ positions[p].stakeStartEpoch = s.positions[p].stakeStartEpoch
      /\ positions[p].weightAmount = s.positions[p].weightAmount
  BY <1>3 DEF PositionType
<1> HIDE DEF t
<1>5. /\ SameLists(r, s) /\ SameTotals(r, s) /\ r.ownerOf = s.ownerOf
      /\ r.nextPositionId = s.nextPositionId /\ r.withdrawableEpoch = s.withdrawableEpoch
      /\ r.positions = positions
      /\ r.maxLockPower = [s.maxLockPower EXCEPT ![p] = m]
      /\ r.normalStart = [s.normalStart EXCEPT ![p] = a]
      /\ r.normalEnd = [s.normalEnd EXCEPT ![p] = b]
      /\ r.maxLockPower[p] = m /\ r.normalStart[p] = a /\ r.normalEnd[p] = b
  BY <1>1, <1>2 DEF SameBooks, SameTerms, SameLists, SameTotals
<1> QED BY <1>4, <1>5 DEF Relocked, KeptUntil

LEMMA SameBooksTransitive ==
  ASSUME NEW q, NEW r, NEW s, SameBooks(q, r), SameBooks(r, s)
  PROVE  SameBooks(q, s)
BY DEF SameBooks, SameTerms, SameLists, SameTotals

(* A record update that keeps a field is none. *)
LEMMA SameTrace ==
  ASSUME NEW f, f \in [Positions -> NatTrace], NEW p \in Positions
  PROVE  [f EXCEPT ![p] = f[p]] = f
OBVIOUS

LEMMA SamePosition ==
  ASSUME NEW f, f \in [Positions -> PositionType], NEW p \in Positions
  PROVE  [f EXCEPT ![p] = [f[p] EXCEPT !.stakeEndEpoch = f[p].stakeEndEpoch]] = f
<1>1. f[p] \in PositionType
  OBVIOUS
<1>2. [f[p] EXCEPT !.stakeEndEpoch = f[p].stakeEndEpoch] = f[p]
  BY <1>1 DEF PositionType
<1> QED BY <1>2

(* What LockKept asks of the terms that p is given. *)
TermsFor(s, p, now, end, m, a, b) ==
  LET position == s.positions[p]
      start == position.stakeStartEpoch
      ahead == Effective(s, p, now)
  IN  /\ start < end /\ end \in Epochs /\ s.withdrawableEpoch[p] <= start
      /\ \A e \in Epochs : e >= ahead => m[e] = m[ahead] /\ a[e] = a[ahead] /\ b[e] = b[ahead]
      /\ \A e \in Epochs : e >= start /\ position.weightAmount # 0 => (m[e] = 0 <=> b[e] # 0)
      /\ b[ahead] \in {0, end}
      /\ \A e \in Epochs : m[e] # 0 => start <= e
      /\ start <= now => 0 \in {b[now], b[now + 1]} \/ b[now] = b[now + 1] \/ end > now + 1

LEMMA Relocking ==
  ASSUME NEW s, NEW h, NEW now, Books(s, h), LocksKept(s, now), NEW p, p \in Positions, Owned(s, p),
         NEW end, end \in Nat, NEW m, m \in NatTrace, NEW a, a \in NatTrace, NEW b, b \in NatTrace,
         KeptUntil(s, p, now, m, b), NEW r, r \in Storage, SameBooks(r, RelockedTo(s, p, end, m, a, b)),
         TermsFor(s, p, now, end, m, a, b)
  PROVE  Sound(r, h, now, s)
<1>1. s \in Storage
  BY DEF Books
<1>2. /\ Relocked(r, s, p, end, now)
      /\ r.maxLockPower[p] = m /\ r.normalStart[p] = a /\ r.normalEnd[p] = b
      /\ r.withdrawableEpoch = s.withdrawableEpoch /\ r.positions[p].stakeEndEpoch = end
      /\ r.positions[p].stakeStartEpoch = s.positions[p].stakeStartEpoch
      /\ r.positions[p].weightAmount = s.positions[p].weightAmount
  <2>1. /\ s \in Storage /\ p \in Positions /\ end \in Nat /\ m \in NatTrace /\ a \in NatTrace /\ b \in NatTrace
        /\ KeptUntil(s, p, now, m, b)
        /\ SameBooks(r, RelockedTo(s, p, end, m, a, b))
    BY <1>1
  <2> QED BY ONLY <2>1, RelockedBySteps
<1>3. Effective(r, p, now) = Effective(s, p, now)
  BY <1>2 DEF Effective
<1>4. LockKept(r, p, now)
  <2> DEFINE ahead == Effective(s, p, now)
             start == s.positions[p].stakeStartEpoch
             weight == s.positions[p].weightAmount
  <2>1. /\ start < end /\ end \in Epochs /\ s.withdrawableEpoch[p] <= start
        /\ \A e \in Epochs : e >= ahead => m[e] = m[ahead] /\ a[e] = a[ahead] /\ b[e] = b[ahead]
        /\ \A e \in Epochs : e >= start /\ weight # 0 => (m[e] = 0 <=> b[e] # 0)
        /\ b[ahead] \in {0, end}
        /\ \A e \in Epochs : m[e] # 0 => start <= e
        /\ start <= now => 0 \in {b[now], b[now + 1]} \/ b[now] = b[now + 1] \/ end > now + 1
    BY DEF TermsFor
  <2>2. /\ r.positions[p].stakeStartEpoch = start /\ r.positions[p].weightAmount = weight
        /\ Effective(r, p, now) = ahead /\ r.withdrawableEpoch[p] = s.withdrawableEpoch[p]
    BY <1>2, <1>3
  <2> HIDE DEF ahead, start, weight
  <2> QED BY ONLY <1>2, <2>1, <2>2 DEF LockKept
<1> QED BY <1>2, <1>4, RelockedSound

(* The pools' totals make no difference to the terms of a position.        *)
LEMMA RelockedAlike ==
  ASSUME NEW s, s \in Storage, NEW r, r \in Storage, SameBooks(r, s), NEW p, p \in Positions,
         NEW end, end \in Nat, NEW m, m \in NatTrace, NEW a, a \in NatTrace, NEW b, b \in NatTrace
  PROVE  SameBooks(RelockedTo(r, p, end, m, a, b), RelockedTo(s, p, end, m, a, b))
<1> DEFINE x == RelockedTo(r, p, end, m, a, b)
           y == RelockedTo(s, p, end, m, a, b)
<1>1. /\ SameLists(x, r) /\ SameTotals(x, r) /\ x.ownerOf = r.ownerOf
      /\ x.nextPositionId = r.nextPositionId /\ x.withdrawableEpoch = r.withdrawableEpoch
      /\ x.positions = [r.positions EXCEPT ![p] = [r.positions[p] EXCEPT !.stakeEndEpoch = end]]
      /\ x.maxLockPower = [r.maxLockPower EXCEPT ![p] = m]
      /\ x.normalStart = [r.normalStart EXCEPT ![p] = a] /\ x.normalEnd = [r.normalEnd EXCEPT ![p] = b]
  BY RelockType
<1>2. /\ SameLists(y, s) /\ SameTotals(y, s) /\ y.ownerOf = s.ownerOf
      /\ y.nextPositionId = s.nextPositionId /\ y.withdrawableEpoch = s.withdrawableEpoch
      /\ y.positions = [s.positions EXCEPT ![p] = [s.positions[p] EXCEPT !.stakeEndEpoch = end]]
      /\ y.maxLockPower = [s.maxLockPower EXCEPT ![p] = m]
      /\ y.normalStart = [s.normalStart EXCEPT ![p] = a] /\ y.normalEnd = [s.normalEnd EXCEPT ![p] = b]
  BY RelockType
<1> HIDE DEF x, y
<1>3. /\ r.positions = s.positions /\ r.maxLockPower = s.maxLockPower
      /\ r.normalStart = s.normalStart /\ r.normalEnd = s.normalEnd
      /\ r.nextPositionId = s.nextPositionId /\ r.withdrawableEpoch = s.withdrawableEpoch
      /\ SameLists(r, s) /\ SameTotals(r, s) /\ r.ownerOf = s.ownerOf
  BY DEF SameBooks, SameTerms
<1>4. SameTerms(x, y) /\ x.ownerOf = y.ownerOf
  BY <1>1, <1>2, <1>3 DEF SameTerms
<1>5. SameLists(x, y) /\ SameTotals(x, y)
  BY <1>1, <1>2, <1>3 DEF SameLists, SameTotals
<1>6. SameBooks(x, y)
  BY <1>4, <1>5 DEF SameBooks
<1> QED BY <1>6 DEF x, y

LEMMA ExtendLockSound ==
  ASSUME PoolsInv, NEW p \in Positions, NEW n \in StakeLengths, extendLock(p, n)
  PROVE  Sound(pools', held', epoch, pools)
<1> DEFINE effective == effectiveEpoch(p)
           position == pools.positions[p]
           oldEnd == pools.normalEnd[p][effective]
           newEnd == Earlier(oldEnd + n, effective + MAX_STAKE_EPOCHS)
           m == pools.maxLockPower[p]
           a == pools.normalStart[p]
           b == push(pools.normalEnd[p], effective, newEnd)
           relocked == [pools EXCEPT !.positions[p].stakeEndEpoch = newEnd,
                                     !.normalEnd[p] = push(@, effective, newEnd)]
           cut == applyPowerRange(relocked, position.agentId, effective, oldEnd, -position.weightAmount)
           t == RelockedTo(pools, p, newEnd, m, a, b)
<1>1. Books(pools, held) /\ LocksKept(pools, epoch) /\ epoch \in 0..MaxEpoch /\ epoch \in Nat
      /\ pools \in Storage
  BY InvSound DEF PoolsInv, Books
<1>2. /\ canRestructure(p, effective) /\ newEnd > oldEnd /\ newEnd \in Epochs /\ held' = held
      /\ pools' = applyPowerRange(cut, position.agentId, effective, newEnd, position.weightAmount)
  BY DEF extendLock, inTree
<1>3. Owned(pools, p)
  BY <1>2 DEF canRestructure, isOpen, Owned
<1>4. /\ position \in PositionType /\ position.agentId \in Agents
      /\ effective \in Epochs /\ effective > epoch /\ LockKept(pools, p, epoch)
      /\ effective = Effective(pools, p, epoch)
      /\ m \in NatTrace /\ a \in NatTrace /\ pools.normalEnd[p] \in NatTrace
  BY <1>3, OpenPosition
<1>5. effective \in Nat /\ newEnd \in Nat /\ position.weightAmount \in Int /\ -position.weightAmount \in Int
      /\ position.stakeStartEpoch \in Nat
  BY <1>2, <1>4 DEF Epochs, PositionType
<1>6. effective >= effective
  BY <1>5
<1>7. /\ oldEnd \in Epochs /\ effective < oldEnd /\ oldEnd = position.stakeEndEpoch
      /\ m[effective] = 0
  BY <1>2, <1>4, <1>6, RestructureTerms
<1>8. oldEnd \in Int /\ newEnd \in Int /\ oldEnd \in Nat
  BY <1>2, <1>7 DEF Epochs
<1>9. b \in NatTrace
  BY <1>4, <1>5, PushType
<1>10. /\ pools.positions \in [Positions -> PositionType] /\ pools.maxLockPower \in [Positions -> NatTrace]
       /\ pools.normalStart \in [Positions -> NatTrace] /\ pools.normalEnd \in [Positions -> NatTrace]
  BY <1>1 DEF Storage
<1> HIDE DEF newEnd, effective, oldEnd
<1>11. relocked = t
  <2>1. [pools.maxLockPower EXCEPT ![p] = m] = pools.maxLockPower
        /\ [pools.normalStart EXCEPT ![p] = a] = pools.normalStart
    BY <1>10, SameTrace
  <2>2. t = [pools EXCEPT
             !.positions = [pools.positions EXCEPT ![p] = [pools.positions[p] EXCEPT !.stakeEndEpoch = newEnd]],
             !.maxLockPower = pools.maxLockPower,
             !.normalStart = pools.normalStart,
             !.normalEnd = [pools.normalEnd EXCEPT ![p] = b]]
    BY <2>1 DEF RelockedTo
  <2>3. relocked = [pools EXCEPT
             !.positions = [pools.positions EXCEPT ![p] = [pools.positions[p] EXCEPT !.stakeEndEpoch = newEnd]],
             !.normalEnd = [pools.normalEnd EXCEPT ![p] = b]]
    OBVIOUS
  <2> DEFINE P == [pools.positions EXCEPT ![p] = [pools.positions[p] EXCEPT !.stakeEndEpoch = newEnd]]
             B == [pools.normalEnd EXCEPT ![p] = b]
  <2> HIDE DEF P, B
  <2>4. [pools EXCEPT !.positions = P, !.maxLockPower = pools.maxLockPower,
                      !.normalStart = pools.normalStart, !.normalEnd = B]
          = [pools EXCEPT !.positions = P, !.normalEnd = B]
    BY <1>1 DEF Storage
  <2> HIDE DEF t, relocked
  <2> QED BY <2>2, <2>3, <2>4 DEF P, B
<1>12. t \in Storage
  BY <1>1, <1>4, <1>5, <1>9, RelockType
<1> HIDE DEF t, relocked
<1>13. cut \in Storage /\ SameBooks(cut, t)
  BY <1>4, <1>5, <1>8, <1>11, <1>12, PowerRangeEffect
<1> HIDE DEF cut
<1>14. pools' \in Storage /\ SameBooks(pools', cut)
  BY <1>2, <1>4, <1>5, <1>8, <1>13, PowerRangeEffect
<1>15. SameBooks(pools', t)
  BY <1>13, <1>14, SameBooksTransitive
<1>16. \A e \in Epochs : b[e] = IF e >= effective THEN newEnd ELSE pools.normalEnd[p][e]
  BY PushValue
<1>17. KeptUntil(pools, p, epoch, m, b)
  <2> SUFFICES ASSUME NEW e \in 0..epoch PROVE m[e] = pools.maxLockPower[p][e] /\ b[e] = pools.normalEnd[p][e]
    BY DEF KeptUntil
  <2>1. e \in Epochs /\ ~(e >= effective)
    BY <1>1, <1>4, <1>5, NowInEpochs
  <2> QED BY <1>16, <2>1
<1> HIDE DEF b, m, a, position
<1> USE DEF position
<1>18. TermsFor(pools, p, epoch, newEnd, m, a, b)
  <2>1. Effective(pools, p, epoch) = effective
    BY <1>4
  <2>2. /\ position.stakeStartEpoch < position.stakeEndEpoch
        /\ pools.withdrawableEpoch[p] <= position.stakeStartEpoch
        /\ \A e \in Epochs : e >= effective => m[e] = m[effective] /\ a[e] = a[effective]
        /\ \A e \in Epochs : e >= position.stakeStartEpoch /\ position.weightAmount # 0 =>
             (m[e] = 0 <=> pools.normalEnd[p][e] # 0)
        /\ \A e \in Epochs : m[e] # 0 => position.stakeStartEpoch <= e
    BY <1>4 DEF LockKept, m, a
  <2>3. position.stakeStartEpoch < newEnd /\ newEnd > epoch + 1 /\ newEnd # 0
    BY <1>1, <1>2, <1>4, <1>5, <1>7, <1>8, <2>2
  <2>4. \A e \in Epochs : e >= effective => b[e] = newEnd
    BY <1>16
  <2>5. b[effective] = newEnd
    BY <1>4, <1>6, <2>4
  <2>6. \A e \in Epochs : e >= position.stakeStartEpoch /\ position.weightAmount # 0 =>
          (m[e] = 0 <=> b[e] # 0)
    BY <1>7, <1>16, <2>2, <2>3 DEF m
  <2> HIDE DEF position
  <2>7. position = pools.positions[p]
    BY DEF position
  <2> QED BY ONLY <1>2, <2>1, <2>2, <2>3, <2>4, <2>5, <2>6, <2>7 DEF TermsFor
<1>19. /\ Books(pools, held') /\ LocksKept(pools, epoch) /\ p \in Positions /\ Owned(pools, p)
       /\ newEnd \in Nat /\ m \in NatTrace /\ a \in NatTrace /\ b \in NatTrace
       /\ KeptUntil(pools, p, epoch, m, b) /\ pools' \in Storage
       /\ SameBooks(pools', RelockedTo(pools, p, newEnd, m, a, b))
  BY <1>1, <1>2, <1>3, <1>4, <1>5, <1>9, <1>14, <1>15, <1>17 DEF t
<1> QED BY ONLY <1>18, <1>19, Relocking

LEMMA EnableMaxLockSound ==
  ASSUME PoolsInv, NEW p \in Positions, enableMaxLock(p)
  PROVE  Sound(pools', held', epoch, pools)
<1> DEFINE effective == epoch + 1
           position == pools.positions[p]
           oldEnd == pools.normalEnd[p][effective]
           power == position.weightAmount * MAX_STAKE_EPOCHS
           m == push(pools.maxLockPower[p], effective, power)
           a == push(pools.normalStart[p], effective, 0)
           b == push(pools.normalEnd[p], effective, 0)
           end == position.stakeEndEpoch
           unpowered == applyPowerRange(pools, position.agentId, effective, oldEnd, -position.weightAmount)
           locked == [unpowered EXCEPT !.maxLockPower[p] = push(@, effective, power),
                                       !.normalStart[p] = push(@, effective, 0),
                                       !.normalEnd[p] = push(@, effective, 0)]
<1>1. Books(pools, held) /\ LocksKept(pools, epoch) /\ epoch \in 0..MaxEpoch /\ epoch \in Nat
      /\ pools \in Storage
  BY InvSound DEF PoolsInv, Books
<1>2. /\ effective >= position.stakeStartEpoch /\ canRestructure(p, effective) /\ held' = held
      /\ pools' = applyMaxLockWeightAmount(locked, position.agentId, effective, position.weightAmount)
  BY DEF enableMaxLock
<1>3. Owned(pools, p)
  BY <1>2 DEF canRestructure, isOpen, Owned
<1>4. /\ position \in PositionType /\ position.agentId \in Agents /\ LockKept(pools, p, epoch)
      /\ effectiveEpoch(p) = Effective(pools, p, epoch) /\ effectiveEpoch(p) \in Epochs
      /\ pools.maxLockPower[p] \in NatTrace /\ pools.normalStart[p] \in NatTrace
      /\ pools.normalEnd[p] \in NatTrace
  BY <1>3, OpenPosition
<1>5. /\ effective \in Nat /\ position.weightAmount \in Nat /\ -position.weightAmount \in Int
      /\ position.stakeStartEpoch \in Nat /\ end \in Nat /\ effective \in Int
  BY <1>1, <1>4 DEF PositionType
<1>6. effectiveEpoch(p) = effective /\ effective >= effectiveEpoch(p) /\ effective \in Epochs
  BY <1>2, <1>4, <1>5 DEF effectiveEpoch, Later
<1>7. oldEnd \in Epochs /\ oldEnd \in Int
  BY <1>2, <1>6, RestructureTerms DEF Epochs
<1>8. power \in Nat /\ (position.weightAmount # 0 => power # 0)
  BY <1>5, PoolsAssumption
<1>9. m \in NatTrace /\ a \in NatTrace /\ b \in NatTrace
  BY <1>4, <1>5, <1>8, PushType
<1>10. unpowered \in Storage /\ SameBooks(unpowered, pools)
  BY <1>1, <1>4, <1>5, <1>7, PowerRangeEffect
<1>11. locked = RelockedTo(unpowered, p, end, m, a, b)
  <2>1. /\ unpowered.positions = pools.positions /\ unpowered.maxLockPower = pools.maxLockPower
        /\ unpowered.normalStart = pools.normalStart /\ unpowered.normalEnd = pools.normalEnd
    BY <1>10 DEF SameBooks, SameTerms
  <2> HIDE DEF unpowered, power
  <2>2. locked = [unpowered EXCEPT !.maxLockPower = [unpowered.maxLockPower EXCEPT ![p] = m],
                                   !.normalStart = [unpowered.normalStart EXCEPT ![p] = a],
                                   !.normalEnd = [unpowered.normalEnd EXCEPT ![p] = b]]
    <3>1. /\ m = push(unpowered.maxLockPower[p], effective, power)
          /\ a = push(unpowered.normalStart[p], effective, 0)
          /\ b = push(unpowered.normalEnd[p], effective, 0)
      BY <2>1
    <3> HIDE DEF m, a, b
    <3> QED BY <3>1
  <2> HIDE DEF locked, m, a, b
  <2>3. locked = RelockedTo(unpowered, p, unpowered.positions[p].stakeEndEpoch, m, a, b)
    <3> DEFINE M == [unpowered.maxLockPower EXCEPT ![p] = m]
               A == [unpowered.normalStart EXCEPT ![p] = a]
               B == [unpowered.normalEnd EXCEPT ![p] = b]
               P == [unpowered.positions EXCEPT ![p] =
                       [unpowered.positions[p] EXCEPT !.stakeEndEpoch = unpowered.positions[p].stakeEndEpoch]]
    <3>1. unpowered.positions \in [Positions -> PositionType]
      BY <1>10 DEF Storage
    <3>2. P = unpowered.positions
      BY <3>1, SamePosition
    <3> HIDE DEF M, A, B, P
    <3>3. [unpowered EXCEPT !.maxLockPower = M, !.normalStart = A, !.normalEnd = B]
            = [unpowered EXCEPT !.positions = P, !.maxLockPower = M, !.normalStart = A, !.normalEnd = B]
      BY <1>10, <3>2 DEF Storage
    <3> QED BY <2>2, <3>3 DEF M, A, B, P, RelockedTo
  <2> QED BY <2>1, <2>3
<1> HIDE DEF m, a, b, unpowered, locked, oldEnd, power
<1>12. SameBooks(locked, RelockedTo(pools, p, end, m, a, b)) /\ locked \in Storage
  BY <1>1, <1>5, <1>9, <1>10, <1>11, RelockedAlike, RelockType
<1>13. pools' \in Storage /\ SameBooks(pools', locked)
  BY <1>2, <1>4, <1>5, <1>12, MaxLockEffect
<1>14. SameBooks(pools', RelockedTo(pools, p, end, m, a, b))
  BY <1>12, <1>13, SameBooksTransitive
<1>15. \A e \in Epochs : /\ m[e] = IF e >= effective THEN power ELSE pools.maxLockPower[p][e]
                         /\ a[e] = IF e >= effective THEN 0 ELSE pools.normalStart[p][e]
                         /\ b[e] = IF e >= effective THEN 0 ELSE pools.normalEnd[p][e]
  BY PushValue DEF m, a, b
<1>16. KeptUntil(pools, p, epoch, m, b)
  <2> SUFFICES ASSUME NEW e \in 0..epoch PROVE m[e] = pools.maxLockPower[p][e] /\ b[e] = pools.normalEnd[p][e]
    BY DEF KeptUntil
  <2>1. e \in Epochs /\ ~(e >= effective)
    BY <1>1, <1>5, NowInEpochs
  <2> QED BY <1>15, <2>1
<1>17. TermsFor(pools, p, epoch, end, m, a, b)
  <2> DEFINE start == position.stakeStartEpoch
             weight == position.weightAmount
  <2>1. Effective(pools, p, epoch) = effective
    BY <1>4, <1>6
  <2>2. /\ start < end /\ end \in Epochs /\ pools.withdrawableEpoch[p] <= start
        /\ \A e \in Epochs : e >= start /\ weight # 0 =>
             (pools.maxLockPower[p][e] = 0 <=> pools.normalEnd[p][e] # 0)
        /\ \A e \in Epochs : pools.maxLockPower[p][e] # 0 => start <= e
    BY <1>4 DEF LockKept
  <2>3. m[effective] = power /\ a[effective] = 0 /\ b[effective] = 0
    BY <1>5, <1>6, <1>15
  <2>4. \A e \in Epochs : e >= effective => m[e] = m[effective] /\ a[e] = a[effective] /\ b[e] = b[effective]
    BY <1>15, <2>3
  <2>5. \A e \in Epochs : e >= start /\ weight # 0 => (m[e] = 0 <=> b[e] # 0)
    BY <1>8, <1>15, <2>2
  <2>6. \A e \in Epochs : m[e] # 0 => start <= e
    <3> SUFFICES ASSUME NEW e \in Epochs, m[e] # 0 PROVE start <= e
      OBVIOUS
    <3>1. e \in Nat
      BY DEF Epochs
    <3> QED BY <1>2, <1>5, <1>15, <2>2, <3>1
  <2>7. start = pools.positions[p].stakeStartEpoch /\ weight = pools.positions[p].weightAmount
    OBVIOUS
  <2>8. b[epoch + 1] = 0 /\ b[effective] \in {0, end}
    BY <2>3
  <2> HIDE DEF start, weight, end, effective
  <2> QED BY ONLY <2>1, <2>2, <2>4, <2>5, <2>6, <2>7, <2>8 DEF TermsFor
<1>18. /\ Books(pools, held') /\ LocksKept(pools, epoch) /\ p \in Positions /\ Owned(pools, p)
       /\ end \in Nat /\ m \in NatTrace /\ a \in NatTrace /\ b \in NatTrace
       /\ KeptUntil(pools, p, epoch, m, b) /\ pools' \in Storage
       /\ SameBooks(pools', RelockedTo(pools, p, end, m, a, b))
       /\ TermsFor(pools, p, epoch, end, m, a, b)
  BY <1>1, <1>2, <1>3, <1>5, <1>9, <1>13, <1>14, <1>16, <1>17
<1> HIDE DEF end
<1> QED BY ONLY <1>18, Relocking

LEMMA DisableMaxLockSound ==
  ASSUME PoolsInv, NEW p \in Positions, disableMaxLock(p)
  PROVE  Sound(pools', held', epoch, pools)
<1> DEFINE effective == epoch + 1
           end == effective + MAX_STAKE_EPOCHS
           position == pools.positions[p]
           m == push(pools.maxLockPower[p], effective, 0)
           a == push(pools.normalStart[p], effective, effective)
           b == push(pools.normalEnd[p], effective, end)
           ended == [pools EXCEPT !.positions[p].stakeEndEpoch = end,
                                  !.maxLockPower[p] = push(@, effective, 0),
                                  !.normalStart[p] = push(@, effective, effective),
                                  !.normalEnd[p] = push(@, effective, end)]
           unlocked == applyMaxLockWeightAmount(ended, position.agentId, effective, -position.weightAmount)
<1>1. Books(pools, held) /\ LocksKept(pools, epoch) /\ epoch \in 0..MaxEpoch /\ epoch \in Nat
      /\ pools \in Storage
  BY InvSound DEF PoolsInv, Books
<1>2. /\ isOpen(p) /\ end \in Epochs /\ held' = held /\ pools.maxLockPower[p][effective] # 0
      /\ pools' = applyPowerRange(unlocked, position.agentId, effective, end, position.weightAmount)
  BY DEF disableMaxLock, inTree
<1>3. Owned(pools, p)
  BY <1>2 DEF isOpen, Owned
<1>4. /\ position \in PositionType /\ position.agentId \in Agents /\ LockKept(pools, p, epoch)
      /\ effectiveEpoch(p) = Effective(pools, p, epoch) /\ effectiveEpoch(p) \in Epochs
      /\ pools.maxLockPower[p] \in NatTrace /\ pools.normalStart[p] \in NatTrace
      /\ pools.normalEnd[p] \in NatTrace
  BY <1>3, OpenPosition
<1>5. /\ effective \in Nat /\ position.weightAmount \in Int /\ -position.weightAmount \in Int
      /\ position.stakeStartEpoch \in Nat /\ end \in Nat /\ effective \in Int
      /\ end > effective /\ effective \in Epochs
  BY <1>1, <1>4, PoolsAssumption, NowInEpochs DEF PositionType
<1>6. position.stakeStartEpoch <= effective
  BY <1>2, <1>4, <1>5 DEF LockKept
<1>7. effectiveEpoch(p) = effective
  BY <1>5, <1>6 DEF effectiveEpoch, Later
<1>9. m \in NatTrace /\ a \in NatTrace /\ b \in NatTrace
  BY <1>4, <1>5, PushType
<1>10. ended = RelockedTo(pools, p, end, m, a, b)
  BY DEF RelockedTo
<1> HIDE DEF m, a, b, ended, unlocked, end
<1>11. ended \in Storage
  BY <1>1, <1>5, <1>9, <1>10, RelockType
<1>12. unlocked \in Storage /\ SameBooks(unlocked, ended)
  BY <1>4, <1>5, <1>11, MaxLockEffect DEF unlocked
<1>13. pools' \in Storage /\ SameBooks(pools', unlocked)
  BY <1>2, <1>4, <1>5, <1>12, PowerRangeEffect
<1>14. SameBooks(pools', RelockedTo(pools, p, end, m, a, b))
  BY <1>10, <1>12, <1>13, SameBooksTransitive
<1>15. \A e \in Epochs : /\ m[e] = IF e >= effective THEN 0 ELSE pools.maxLockPower[p][e]
                         /\ a[e] = IF e >= effective THEN effective ELSE pools.normalStart[p][e]
                         /\ b[e] = IF e >= effective THEN end ELSE pools.normalEnd[p][e]
  BY PushValue DEF m, a, b
<1>16. KeptUntil(pools, p, epoch, m, b)
  <2> SUFFICES ASSUME NEW e \in 0..epoch PROVE m[e] = pools.maxLockPower[p][e] /\ b[e] = pools.normalEnd[p][e]
    BY DEF KeptUntil
  <2>1. e \in Epochs /\ ~(e >= effective)
    BY <1>1, <1>5, NowInEpochs
  <2> QED BY <1>15, <2>1
<1>17. TermsFor(pools, p, epoch, end, m, a, b)
  <2> DEFINE start == position.stakeStartEpoch
             weight == position.weightAmount
  <2>1. Effective(pools, p, epoch) = effective
    BY <1>4, <1>7
  <2>2. /\ pools.withdrawableEpoch[p] <= start
        /\ \A e \in Epochs : e >= start /\ weight # 0 =>
             (pools.maxLockPower[p][e] = 0 <=> pools.normalEnd[p][e] # 0)
        /\ \A e \in Epochs : pools.maxLockPower[p][e] # 0 => start <= e
    BY <1>4 DEF LockKept
  <2>3. m[effective] = 0 /\ a[effective] = effective /\ b[effective] = end
    BY <1>5, <1>15
  <2>4. \A e \in Epochs : e >= effective => m[e] = m[effective] /\ a[e] = a[effective] /\ b[e] = b[effective]
    BY <1>15, <2>3
  <2>a. end # 0 /\ start < end /\ end > epoch + 1
    BY <1>5, <1>6
  <2>5. \A e \in Epochs : e >= start /\ weight # 0 => (m[e] = 0 <=> b[e] # 0)
    BY <1>15, <2>2, <2>a
  <2>6. \A e \in Epochs : m[e] # 0 => start <= e
    BY <1>15, <2>2
  <2>7. start = pools.positions[p].stakeStartEpoch /\ weight = pools.positions[p].weightAmount
    OBVIOUS
  <2>8. b[effective] \in {0, end}
    BY <2>3
  <2> HIDE DEF start, weight, effective
  <2> QED BY ONLY <1>2, <2>1, <2>2, <2>4, <2>5, <2>6, <2>7, <2>8, <2>a DEF TermsFor
<1>18. /\ Books(pools, held') /\ LocksKept(pools, epoch) /\ p \in Positions /\ Owned(pools, p)
       /\ end \in Nat /\ m \in NatTrace /\ a \in NatTrace /\ b \in NatTrace
       /\ KeptUntil(pools, p, epoch, m, b) /\ pools' \in Storage
       /\ SameBooks(pools', RelockedTo(pools, p, end, m, a, b))
       /\ TermsFor(pools, p, epoch, end, m, a, b)
  BY <1>1, <1>2, <1>3, <1>5, <1>9, <1>13, <1>14, <1>16, <1>17
<1> QED BY ONLY <1>18, Relocking

-----------------------------------------------------------------------------
(* A withdrawal, which takes effect at once.                               *)

(* The weights of past epochs stay, and those of now only fall. *)
Faded(r, s, now) ==
  \A p \in Positions, e \in 0..now :
    IF e < now THEN Weight(r, p, e) = Weight(s, p, e) ELSE Weight(r, p, e) <= Weight(s, p, e)

LEMMA WeightNat ==
  ASSUME NEW s, s \in Storage, NEW p \in Positions, NEW e \in Epochs
  PROVE  Weight(s, p, e) \in Nat
<1> DEFINE max == s.maxLockPower[p][e]
           end == s.normalEnd[p][e]
           weight == s.positions[p].weightAmount
<1>1. max \in Nat /\ end \in Nat /\ weight \in Nat /\ e \in Nat
  <2>1. /\ s.positions[p] \in PositionType /\ s.maxLockPower[p] \in NatTrace /\ s.normalEnd[p] \in NatTrace
    BY DEF Storage
  <2>2. weight \in Nat
    BY <2>1 DEF PositionType
  <2>3. max \in Nat /\ end \in Nat
    BY <2>1 DEF NatTrace
  <2>4. e \in Nat
    BY DEF Epochs
  <2> QED BY <2>2, <2>3, <2>4
<1>2. ~(e >= end) => end - e \in Nat
  BY <1>1
<1>3. ~(e >= end) => weight * (end - e) \in Nat
  BY <1>1, <1>2, ProductNat
<1> HIDE DEF max, end, weight
<1> DEFINE w == weight * (end - e)
<1>4. Weight(s, p, e) \in {0, max} \/ (~(e >= end) /\ Weight(s, p, e) = w)
  BY DEF Weight, max, end, weight
<1>5. ~(e >= end) => w \in Nat
  BY <1>3
<1> HIDE DEF w
<1> QED BY <1>1, <1>4, <1>5

LEMMA FrozenFaded ==
  ASSUME NEW r, NEW s, s \in Storage, NEW now, now \in 0..MaxEpoch, Frozen(r, s, now)
  PROVE  Faded(r, s, now)
<1> SUFFICES ASSUME NEW p \in Positions, NEW e \in 0..now
             PROVE  Weight(r, p, e) = Weight(s, p, e) /\ Weight(r, p, e) <= Weight(s, p, e)
  BY DEF Faded
<1>1. e \in Epochs
  BY NowInEpochs
<1>2. Weight(r, p, e) = Weight(s, p, e)
  BY DEF Frozen
<1>3. Weight(s, p, e) \in Nat
  BY <1>1, WeightNat
<1> QED BY <1>2, <1>3

LEMMA WithdrawnFaded ==
  ASSUME NEW s, NEW h, Books(s, h), NEW p, p \in Positions, Owned(s, p), NEW now, now \in 0..MaxEpoch,
         NEW close, close \in Nat, close >= now, NEW r,
         Removed(r, s, p, [s.positions[p] EXCEPT !.withdrawn = TRUE, !.closedAtEpoch = close])
  PROVE  Faded(r, s, now)
<1>1. s \in Storage /\ s.positions[p].closedAtEpoch = 0
  BY DEF Books, PositionsKnown
<1>2. s.positions \in [Positions -> PositionType]
  BY <1>1 DEF Storage
<1>3. r.maxLockPower = s.maxLockPower /\ r.normalEnd = s.normalEnd
  BY DEF Removed, SameTraces
<1>4. /\ r.positions[p].closedAtEpoch = close
      /\ r.positions[p].stakeStartEpoch = s.positions[p].stakeStartEpoch
      /\ r.positions[p].weightAmount = s.positions[p].weightAmount
  BY <1>2 DEF Removed, PositionType
<1>5. \A q \in Positions : q # p => r.positions[q] = s.positions[q]
  BY <1>2 DEF Removed
<1> SUFFICES ASSUME NEW q \in Positions, NEW e \in 0..now
             PROVE  IF e < now THEN Weight(r, q, e) = Weight(s, q, e) ELSE Weight(r, q, e) <= Weight(s, q, e)
  BY DEF Faded
<1>6. e \in Epochs /\ now \in Nat
  BY NowInEpochs
<1>7. Weight(s, q, e) \in Nat
  BY <1>1, <1>6, WeightNat
<1>8. CASE q = p
  <2>1. e < now => ~(e >= close)
    BY <1>6
  <2>2. Weight(r, q, e) = Weight(s, q, e) \/ (e >= close /\ Weight(r, q, e) = 0)
    BY <1>1, <1>3, <1>4, <1>8 DEF Weight
  <2>3. 0 <= Weight(s, q, e) /\ Weight(s, q, e) <= Weight(s, q, e)
    BY <1>7
  <2> QED BY <2>1, <2>2, <2>3
<1>9. CASE q # p
  <2>1. Weight(r, q, e) = Weight(s, q, e)
    BY <1>3, <1>5, <1>9 DEF Weight
  <2> QED BY <1>7, <2>1
<1> QED BY <1>8, <1>9

LEMMA WithdrawStakeSound ==
  ASSUME PoolsInv, NEW p \in Positions, withdrawStake(p)
  PROVE  Books(pools', held') /\ LocksKept(pools', epoch) /\ Faded(pools', pools, epoch)
<1> DEFINE close == closeEpoch(p)
           end == pools.normalEnd[p][close]
           old == pools.positions[p]
           new == [old EXCEPT !.withdrawn = TRUE, !.closedAtEpoch = close]
           closed == [pools EXCEPT !.positions[p].withdrawn = TRUE, !.positions[p].closedAtEpoch = close]
           unpowered == IF close < end
                        THEN applyPowerRange(closed, old.agentId, close, end, -old.weightAmount)
                        ELSE closed
<1>1. Books(pools, held) /\ LocksKept(pools, epoch) /\ epoch \in 0..MaxEpoch /\ epoch \in Nat
      /\ pools \in Storage
  BY InvSound DEF PoolsInv, Books
<1>2. /\ isOpen(p) /\ held' = held - old.amount
      /\ pools' = burn(changeActiveStake(unpowered, old.owner, old.agentId, -old.amount), p)
  BY DEF withdrawStake
<1>3. Owned(pools, p)
  BY <1>2 DEF isOpen, Owned
<1>4. old \in PositionType /\ old.agentId \in Agents /\ pools.normalEnd[p] \in NatTrace
      /\ old.stakeStartEpoch \in Nat /\ -old.weightAmount \in Int
  BY <1>3, OpenPosition DEF PositionType
<1>5. close \in Nat /\ close >= epoch
  BY <1>1, <1>4 DEF closeEpoch, Later
<1>6. end \in Int
  <2>1. LockKept(pools, p, epoch)
    BY <1>1, <1>3 DEF LocksKept
  <2>2. close \in Epochs
    <3>1. old.stakeStartEpoch < old.stakeEndEpoch /\ old.stakeEndEpoch \in Epochs
      BY <2>1 DEF LockKept
    <3>2. old.stakeStartEpoch \in Epochs /\ epoch \in Epochs
      BY <1>1, <1>4, <3>1, NowInEpochs, PoolsAssumption DEF Epochs
    <3> QED BY <3>2 DEF closeEpoch, Later
  <2> QED BY <1>4, <2>2 DEF NatTrace
<1>7. new \in PositionType /\ new.owner = old.owner /\ new.agentId = old.agentId
  BY <1>4, <1>5 DEF PositionType
<1>8. closed = [pools EXCEPT !.positions = [pools.positions EXCEPT ![p] = new]]
  <2> HIDE DEF close
  <2>1. pools.positions \in [Positions -> PositionType]
    BY <1>1 DEF Storage
  <2> DEFINE half == [pools.positions EXCEPT ![p].withdrawn = TRUE]
  <2>2. closed = [pools EXCEPT !.positions = [half EXCEPT ![p].closedAtEpoch = close]]
    BY <1>1 DEF Storage
  <2>3. [half EXCEPT ![p].closedAtEpoch = close] = [pools.positions EXCEPT ![p] = new]
    BY <2>1, <1>4 DEF PositionType
  <2> QED BY <2>2, <2>3
<1> HIDE DEF new, close, end, closed, old
<1>9. /\ closed \in Storage /\ SameTraces(closed, pools) /\ SameLists(closed, pools)
      /\ SameTotals(closed, pools) /\ closed.ownerOf = pools.ownerOf
      /\ closed.positions = [pools.positions EXCEPT ![p] = new]
  <2> DEFINE P == [pools.positions EXCEPT ![p] = new]
  <2>1. P \in [Positions -> PositionType]
    BY <1>1, <1>7 DEF Storage
  <2> HIDE DEF P
  <2>2. closed = [pools EXCEPT !.positions = P]
    BY <1>8 DEF P
  <2>3. closed \in Storage
    BY <1>1, <2>1, <2>2 DEF Storage
  <2>4. /\ SameTraces(closed, pools) /\ SameLists(closed, pools) /\ SameTotals(closed, pools)
        /\ closed.ownerOf = pools.ownerOf /\ closed.positions = P
    BY <1>1, <2>2 DEF Storage, SameTraces, SameLists, SameTotals
  <2> QED BY <2>3, <2>4 DEF P
<1>10. unpowered \in Storage /\ SameBooks(unpowered, closed)
  <2>1. CASE close < end
    BY <1>4, <1>6, <1>9, <2>1, PowerRangeEffect
  <2>2. CASE ~(close < end)
    BY <1>9, <2>2 DEF SameBooks, SameTerms, SameLists, SameTotals
  <2> QED BY <2>1, <2>2
<1> HIDE DEF unpowered
<1>11. /\ SameTraces(unpowered, pools) /\ SameLists(unpowered, pools) /\ SameTotals(unpowered, pools)
       /\ unpowered.ownerOf = pools.ownerOf
       /\ unpowered.positions = [pools.positions EXCEPT ![p] = new]
  BY <1>9, <1>10 DEF SameBooks, SameTerms, SameTraces, SameLists, SameTotals
<1>12. Books(pools', held') /\ Removed(pools', pools, p, new)
  <2>1. /\ Books(pools, held) /\ p \in Positions /\ Owned(pools, p) /\ new \in PositionType
        /\ new.owner = pools.positions[p].owner /\ new.agentId = pools.positions[p].agentId
        /\ unpowered \in Storage
    BY <1>1, <1>3, <1>7, <1>10 DEF old
  <2>2. LET r == burn(changeActiveStake(unpowered, pools.positions[p].owner, pools.positions[p].agentId,
                                        -pools.positions[p].amount), p)
        IN  Books(r, held - pools.positions[p].amount) /\ Removed(r, pools, p, new)
    BY ONLY <1>11, <2>1, RemovePosition
  <2> QED BY <1>2, <2>2 DEF old
<1>13. LocksKept(pools', epoch)
  <2>1. Books(pools, held) /\ p \in Positions /\ LocksKept(pools, epoch) /\ Removed(pools', pools, p, new)
    BY <1>1, <1>12
  <2> QED BY ONLY <2>1, RemovedLocks
<1>14. Faded(pools', pools, epoch)
  <2>1. /\ Books(pools, held) /\ p \in Positions /\ Owned(pools, p) /\ epoch \in 0..MaxEpoch
        /\ close \in Nat /\ close >= epoch
        /\ Removed(pools', pools, p, [pools.positions[p] EXCEPT !.withdrawn = TRUE, !.closedAtEpoch = close])
    BY <1>1, <1>3, <1>5, <1>12 DEF new, old
  <2> QED BY ONLY <2>1, WithdrawnFaded
<1> QED BY <1>12, <1>13, <1>14

-----------------------------------------------------------------------------
(* A position that changes hands keeps its terms.                          *)

Handed(r, s, p, to) ==
  /\ SameTraces(r, s)
  /\ r.positions = [s.positions EXCEPT ![p] = [s.positions[p] EXCEPT !.owner = to]]
  /\ r.ownerOf = [s.ownerOf EXCEPT ![p] = to]

LEMMA HandedSound ==
  ASSUME NEW s, NEW h, NEW now, Books(s, h), LocksKept(s, now), NEW p, p \in Positions, Owned(s, p),
         NEW to, to \in Stakers, NEW r, r \in Storage, Handed(r, s, p, to), ListsExact(r), TotalsExact(r, h)
  PROVE  Sound(r, h, now, s)
<1>1. s \in Storage /\ PositionsKnown(s)
  BY DEF Books
<1>2. /\ s.positions \in [Positions -> PositionType] /\ s.ownerOf \in [Positions -> Stakers \cup {NoStaker}]
  BY <1>1 DEF Storage
<1>3. /\ r.positions[p].owner = to /\ r.positions[p].agentId = s.positions[p].agentId
      /\ r.positions[p].withdrawn = s.positions[p].withdrawn /\ r.ownerOf[p] = to
  BY <1>2 DEF Handed, PositionType
<1>4. \A q \in Positions : /\ r.positions[q].stakeStartEpoch = s.positions[q].stakeStartEpoch
                           /\ r.positions[q].stakeEndEpoch = s.positions[q].stakeEndEpoch
                           /\ r.positions[q].weightAmount = s.positions[q].weightAmount
                           /\ r.positions[q].closedAtEpoch = s.positions[q].closedAtEpoch
  BY <1>2 DEF Handed, PositionType
<1>5. \A q \in Positions : q # p => r.positions[q] = s.positions[q] /\ r.ownerOf[q] = s.ownerOf[q]
  BY <1>2 DEF Handed
<1>6. /\ r.nextPositionId = s.nextPositionId /\ r.withdrawableEpoch = s.withdrawableEpoch
      /\ r.maxLockPower = s.maxLockPower /\ r.normalStart = s.normalStart /\ r.normalEnd = s.normalEnd
  BY DEF Handed, SameTraces
<1>7. PositionsKnown(r)
  <2> SUFFICES ASSUME NEW q \in Positions
               PROVE  /\ q >= r.nextPositionId => FreshPosition(r, q)
                      /\ r.positions[q].owner # NoStaker => r.positions[q].agentId \in Agents
                      /\ Owned(r, q) => /\ r.positions[q].owner = r.ownerOf[q]
                                        /\ ~r.positions[q].withdrawn
                                        /\ r.positions[q].closedAtEpoch = 0
    BY DEF PositionsKnown
  <2>1. CASE q = p
    <3>1. ~(p >= s.nextPositionId)
      BY <1>1 DEF PositionsKnown, FreshPosition, Owned
    <3>2. s.positions[p].agentId \in Agents /\ ~s.positions[p].withdrawn /\ s.positions[p].closedAtEpoch = 0
      BY <1>1 DEF PositionsKnown, Owned
    <3> QED BY <1>3, <1>4, <1>6, <2>1, <3>1, <3>2
  <2>2. CASE q # p
    BY <1>1, <1>5, <1>6, <2>2 DEF PositionsKnown, FreshPosition, Owned
  <2> QED BY <2>1, <2>2
<1>8. LocksKept(r, now)
  <2> SUFFICES ASSUME NEW q \in Positions, Owned(r, q) PROVE LockKept(r, q, now)
    BY DEF LocksKept
  <2>1. Owned(s, q)
    BY <1>5 DEF Owned
  <2>2. LockKept(s, q, now)
    BY <2>1 DEF LocksKept
  <2>3. /\ r.positions[q].stakeStartEpoch = s.positions[q].stakeStartEpoch
        /\ r.positions[q].stakeEndEpoch = s.positions[q].stakeEndEpoch
        /\ r.positions[q].weightAmount = s.positions[q].weightAmount
    BY <1>4
  <2>4. Effective(r, q, now) = Effective(s, q, now)
    BY <2>3 DEF Effective
  <2> QED BY ONLY <1>6, <2>2, <2>3, <2>4 DEF LockKept
<1>9. Frozen(r, s, now)
  BY <1>4, <1>6 DEF Frozen, Weight
<1> QED BY <1>7, <1>8, <1>9 DEF Sound, Books

LEMMA RelistedExact ==
  ASSUME NEW s, s \in Storage, ListsExact(s), NEW p, p \in Positions, NEW from, from \in Stakers,
         s.ownerOf[p] = from, NEW to, to \in Stakers
  PROVE  LET r == addStakerPosition(removeStakerPosition(s, from, p), to, p) IN
         /\ r \in Storage /\ SameTerms(r, s) /\ SameTotals(r, s) /\ r.ownerOf = s.ownerOf
         /\ Listed([s.ownerOf EXCEPT ![p] = to], r.positionIds, r.positionIndex)
<1> DEFINE t == removeStakerPosition(s, from, p)
           r == addStakerPosition(t, to, p)
           o == [s.ownerOf EXCEPT ![p] = NoStaker]
<1>1. /\ s.ownerOf \in [Positions -> Stakers \cup {NoStaker}]
      /\ s.positionIds \in [Stakers -> Seq(Positions)] /\ s.positionIndex \in [Positions -> Nat]
  BY DEF Storage
<1>2. s.positionIndex[p] \in 1..Len(s.positionIds[from]) /\ s.positionIds[from][s.positionIndex[p]] = p
  BY DEF ListsExact, Listed
<1>3. /\ t \in Storage /\ SameTerms(t, s) /\ SameTotals(t, s) /\ t.ownerOf = s.ownerOf
      /\ t.positionIds = [s.positionIds EXCEPT ![from] = t.positionIds[from]]
      /\ Shortened(t.positionIds[from], s.positionIds[from], s.positionIndex[p])
      /\ \A q \in Positions : t.positionIndex[q] =
           IF q = p THEN 0
           ELSE IF q = s.positionIds[from][Len(s.positionIds[from])] THEN s.positionIndex[p]
           ELSE s.positionIndex[q]
  BY <1>2, RemoveEffect
<1> HIDE DEF t
<1>4. Listed(o, t.positionIds, t.positionIndex)
  <2> DEFINE short == t.positionIds[from]
             x == t.positionIndex
             ids == s.positionIds
             index == s.positionIndex
             ownerOf == s.ownerOf
  <2>1. /\ ownerOf \in [Positions -> Stakers \cup {NoStaker}]
        /\ ids \in [Stakers -> Seq(Positions)] /\ index \in [Positions -> Nat]
        /\ Listed(ownerOf, ids, index) /\ ownerOf[p] = from /\ from \in Stakers /\ p \in Positions
        /\ Shortened(short, ids[from], index[p])
        /\ \A q \in Positions : x[q] =
             IF q = p THEN 0 ELSE IF q = ids[from][Len(ids[from])] THEN index[p] ELSE index[q]
    BY <1>1, <1>3 DEF ListsExact
  <2> HIDE DEF short, x, ids, index, ownerOf
  <2>2. Listed([ownerOf EXCEPT ![p] = NoStaker], [ids EXCEPT ![from] = short], x)
    BY ONLY <2>1, ListedAfterRemove
  <2> QED BY <1>3, <2>2 DEF short, x, ids, ownerOf
<1>5. /\ r \in Storage /\ SameTerms(r, t) /\ SameTotals(r, t) /\ r.ownerOf = t.ownerOf
      /\ r.positionIds = [t.positionIds EXCEPT ![to] = Append(t.positionIds[to], p)]
      /\ r.positionIndex = [t.positionIndex EXCEPT ![p] = Len(t.positionIds[to]) + 1]
  BY <1>3, AddEffect
<1> HIDE DEF r
<1>6. Listed([o EXCEPT ![p] = to], r.positionIds, r.positionIndex)
  <2> DEFINE ids == t.positionIds
             index == t.positionIndex
  <2>1. /\ o \in [Positions -> Stakers \cup {NoStaker}] /\ ids \in [Stakers -> Seq(Positions)]
        /\ index \in [Positions -> Nat] /\ Listed(o, ids, index) /\ to \in Stakers /\ p \in Positions
        /\ o[p] = NoStaker
    BY <1>1, <1>3, <1>4 DEF Storage
  <2> HIDE DEF ids, index, o
  <2>2. Listed([o EXCEPT ![p] = to], [ids EXCEPT ![to] = Append(ids[to], p)],
               [index EXCEPT ![p] = Len(ids[to]) + 1])
    BY ONLY <2>1, ListedAfterAdd
  <2> QED BY <1>5, <2>2 DEF ids, index
<1>7. [o EXCEPT ![p] = to] = [s.ownerOf EXCEPT ![p] = to]
  BY <1>1
<1>8. SameTerms(r, s) /\ SameTotals(r, s) /\ r.ownerOf = s.ownerOf
  BY <1>3, <1>5 DEF SameTerms, SameTotals
<1> HIDE DEF o
<1> QED BY <1>5, <1>6, <1>7, <1>8 DEF r, t

(* The totals, by way of a storage in which nobody has the position.       *)
LEMMA TotalsAfterTransfer ==
  ASSUME NEW s, s \in Storage, NEW h, h \in Int, TotalsExact(s, h), NEW r, r \in Storage,
         NEW p, p \in Positions, NEW from, from \in Stakers, NEW to, to \in Stakers,
         NEW agent, agent \in Agents, NEW amount, amount \in Nat,
         s.ownerOf[p] = from, s.positions[p].agentId = agent, s.positions[p].amount = amount,
         OnlyAt(r, s, p), r.ownerOf[p] = to, r.positions[p].agentId = agent, r.positions[p].amount = amount,
         \A v \in Stakers :
           /\ r.totalStake[v] = (s.totalStake[v] + (IF v = from THEN -amount ELSE 0))
                                + (IF v = to THEN amount ELSE 0)
           /\ \A b \in Agents : r.agentStake[v][b] =
                (s.agentStake[v][b] + (IF v = from /\ b = agent THEN -amount ELSE 0))
                + (IF v = to /\ b = agent THEN amount ELSE 0)
  PROVE  TotalsExact(r, h)
<1> DEFINE o == [s.ownerOf EXCEPT ![p] = NoStaker]
           x == [s EXCEPT !.ownerOf = o]
           t == changeActiveStake(x, from, agent, -amount)
           k == h - amount
<1>1. s.ownerOf \in [Positions -> Stakers \cup {NoStaker}]
  BY DEF Storage
<1>2. o \in [Positions -> Stakers \cup {NoStaker}] /\ o[p] = NoStaker
      /\ \A q \in Positions : q # p => o[q] = s.ownerOf[q]
  BY <1>1
<1> HIDE DEF o
<1>3. x \in Storage /\ SameTerms(x, s) /\ SameTotals(x, s) /\ x.ownerOf = o
  BY <1>2 DEF Storage, SameTerms, SameTotals
<1>4. -amount \in Int
  OBVIOUS
<1> HIDE DEF x
<1>5. /\ t \in Storage /\ SameTerms(t, x) /\ t.ownerOf = x.ownerOf
      /\ TotalsMoved(t, x, from, agent, -amount)
  BY <1>3, <1>4, ChangeStakeEffect DEF TotalsMoved
<1> HIDE DEF t
<1>6. /\ t.ownerOf[p] = NoStaker /\ OnlyAt(t, s, p) /\ TotalsMoved(t, s, from, agent, -amount)
  <2>1. t.ownerOf = o /\ t.positions = s.positions
    BY <1>3, <1>5 DEF SameTerms
  <2>2. TotalsMoved(t, s, from, agent, -amount)
    BY <1>3, <1>5 DEF TotalsMoved, SameTotals
  <2> QED BY <1>2, <2>1, <2>2 DEF OnlyAt
<1>7. TotalsExact(t, h - amount)
  <2>1. /\ s \in Storage /\ t \in Storage /\ p \in Positions /\ OnlyAt(t, s, p) /\ TotalsExact(s, h)
        /\ t.ownerOf[p] = NoStaker /\ from \in Stakers /\ agent \in Agents /\ amount \in Nat
        /\ s.ownerOf[p] = from /\ s.positions[p].agentId = agent /\ s.positions[p].amount = amount
        /\ TotalsMoved(t, s, from, agent, -amount)
    BY <1>5, <1>6
  <2> QED BY ONLY <2>1, TotalsAfterRemove
<1>8. TotalsMoved(r, t, to, agent, amount)
  <2> SUFFICES ASSUME NEW v \in Stakers
               PROVE  /\ r.totalStake[v] = t.totalStake[v] + (IF v = to THEN amount ELSE 0)
                      /\ \A b \in Agents :
                           r.agentStake[v][b] = t.agentStake[v][b] + (IF v = to /\ b = agent THEN amount ELSE 0)
    BY DEF TotalsMoved
  <2>1. /\ t.totalStake[v] = s.totalStake[v] + (IF v = from THEN -amount ELSE 0)
        /\ \A b \in Agents : t.agentStake[v][b] =
             s.agentStake[v][b] + (IF v = from /\ b = agent THEN -amount ELSE 0)
    BY <1>6 DEF TotalsMoved
  <2> QED BY <2>1
<1>9. OnlyAt(r, t, p)
  BY <1>6 DEF OnlyAt
<1>10. TotalsExact(r, k + amount)
  <2>1. /\ t \in Storage /\ r \in Storage /\ p \in Positions /\ OnlyAt(r, t, p) /\ TotalsExact(t, k)
        /\ t.ownerOf[p] = NoStaker /\ to \in Stakers /\ agent \in Agents /\ amount \in Nat
        /\ r.ownerOf[p] = to /\ r.positions[p].agentId = agent /\ r.positions[p].amount = amount
        /\ TotalsMoved(r, t, to, agent, amount)
    BY <1>5, <1>6, <1>7, <1>8, <1>9
  <2> HIDE DEF k
  <2> QED BY ONLY <2>1, TotalsAfterAdd
<1>11. k + amount = h
  OBVIOUS
<1> QED BY <1>10, <1>11

LEMMA TransferSound ==
  ASSUME PoolsInv, NEW p \in Positions, NEW to \in Stakers, transfer(p, to)
  PROVE  Sound(pools', held', epoch, pools)
<1> DEFINE from == pools.ownerOf[p]
           old == pools.positions[p]
           new == [old EXCEPT !.owner = to]
           relisted == addStakerPosition(removeStakerPosition(pools, from, p), to, p)
           handed == [relisted EXCEPT !.positions[p].owner = to, !.ownerOf[p] = to]
           less == changeActiveStake(handed, from, old.agentId, -old.amount)
           P == [pools.positions EXCEPT ![p] = new]
           O == [pools.ownerOf EXCEPT ![p] = to]
<1>1. Books(pools, held) /\ LocksKept(pools, epoch) /\ epoch \in 0..MaxEpoch /\ pools \in Storage
      /\ ListsExact(pools) /\ TotalsExact(pools, held) /\ held \in Int
  BY InvSound, InvHeld DEF PoolsInv, Books
<1>2. from \notin {NoStaker, to} /\ held' = held
      /\ pools' = changeActiveStake(less, to, old.agentId, old.amount)
  BY DEF transfer
<1>3. Owned(pools, p)
  BY <1>2 DEF Owned
<1>4. old \in PositionType /\ old.agentId \in Agents /\ from \in Stakers
  BY <1>3, OpenPosition
<1>5. old.amount \in Nat /\ old.amount \in Int /\ -old.amount \in Int
  BY <1>4 DEF PositionType
<1>6. /\ pools.positions \in [Positions -> PositionType]
      /\ pools.ownerOf \in [Positions -> Stakers \cup {NoStaker}]
  BY <1>1 DEF Storage
<1>7. new \in PositionType /\ new.agentId = old.agentId /\ new.amount = old.amount
  BY <1>4 DEF PositionType
<1> HIDE DEF from
<1>8. /\ relisted \in Storage /\ SameTerms(relisted, pools) /\ SameTotals(relisted, pools)
      /\ relisted.ownerOf = pools.ownerOf
      /\ Listed(O, relisted.positionIds, relisted.positionIndex)
  <2>1. pools \in Storage /\ ListsExact(pools) /\ p \in Positions /\ from \in Stakers
        /\ pools.ownerOf[p] = from /\ to \in Stakers
    BY <1>1, <1>4 DEF from
  <2> QED BY ONLY <2>1, RelistedExact
<1> HIDE DEF relisted
<1>9. handed = [relisted EXCEPT !.positions = P, !.ownerOf = O]
  <2>1. relisted.positions = pools.positions /\ relisted.ownerOf = pools.ownerOf
    BY <1>8 DEF SameTerms
  <2> QED BY <2>1
<1>10. P \in [Positions -> PositionType] /\ O \in [Positions -> Stakers \cup {NoStaker}]
       /\ P[p] = new /\ O[p] = to
       /\ \A q \in Positions : q # p => P[q] = pools.positions[q] /\ O[q] = pools.ownerOf[q]
  BY <1>6, <1>7
<1> HIDE DEF P, O, handed, new, old
<1>11. handed \in Storage
  BY <1>8, <1>9, <1>10 DEF Storage
<1>12. /\ SameTraces(handed, pools) /\ handed.positions = P /\ handed.ownerOf = O
       /\ SameTotals(handed, pools) /\ ListsExact(handed)
  <2>1. /\ SameTraces(handed, relisted) /\ handed.positions = P /\ handed.ownerOf = O
        /\ SameTotals(handed, relisted) /\ SameLists(handed, relisted)
    BY <1>8, <1>9 DEF Storage, SameTraces, SameTotals, SameLists
  <2> QED BY <1>8, <2>1 DEF SameTerms, SameTraces, SameTotals, SameLists, ListsExact
<1>13. /\ less \in Storage /\ SameTerms(less, handed) /\ SameLists(less, handed)
       /\ less.ownerOf = handed.ownerOf
       /\ TotalsMoved(less, handed, from, old.agentId, -old.amount)
  <2> DEFINE agent == old.agentId
             amount == -old.amount
  <2>1. handed \in Storage /\ from \in Stakers /\ agent \in Agents /\ amount \in Int
    BY <1>4, <1>5, <1>11
  <2> HIDE DEF agent, amount
  <2>2. LET x == changeActiveStake(handed, from, agent, amount) IN
        /\ x \in Storage /\ SameTerms(x, handed) /\ SameLists(x, handed) /\ x.ownerOf = handed.ownerOf
        /\ TotalsMoved(x, handed, from, agent, amount)
    BY ONLY <2>1, ChangeStakeEffect DEF TotalsMoved
  <2> QED BY <2>2 DEF agent, amount
<1> HIDE DEF less
<1> DEFINE r == changeActiveStake(less, to, old.agentId, old.amount)
<1>14. /\ r \in Storage /\ SameTerms(r, less) /\ SameLists(r, less)
       /\ r.ownerOf = less.ownerOf /\ TotalsMoved(r, less, to, old.agentId, old.amount)
  <2> DEFINE agent == old.agentId
             amount == old.amount
  <2>1. less \in Storage /\ to \in Stakers /\ agent \in Agents /\ amount \in Int
    BY <1>4, <1>5, <1>13
  <2> HIDE DEF agent, amount
  <2>2. LET x == changeActiveStake(less, to, agent, amount) IN
        /\ x \in Storage /\ SameTerms(x, less) /\ SameLists(x, less) /\ x.ownerOf = less.ownerOf
        /\ TotalsMoved(x, less, to, agent, amount)
    BY ONLY <2>1, ChangeStakeEffect DEF TotalsMoved
  <2> QED BY <2>2 DEF agent, amount
<1> HIDE DEF r
<1>15. SameTraces(r, pools) /\ r.positions = P /\ r.ownerOf = O /\ ListsExact(r)
  BY <1>12, <1>13, <1>14 DEF SameTerms, SameTraces, SameLists, ListsExact
<1>16. Handed(r, pools, p, to)
  BY <1>15 DEF Handed, P, O, new, old
<1>17. TotalsExact(r, held)
  <2>1. \A v \in Stakers :
          /\ r.totalStake[v] = (pools.totalStake[v] + (IF v = from THEN -old.amount ELSE 0))
                               + (IF v = to THEN old.amount ELSE 0)
          /\ \A b \in Agents : r.agentStake[v][b] =
               (pools.agentStake[v][b] + (IF v = from /\ b = old.agentId THEN -old.amount ELSE 0))
               + (IF v = to /\ b = old.agentId THEN old.amount ELSE 0)
    BY <1>12, <1>13, <1>14 DEF TotalsMoved, SameTotals
  <2>2. OnlyAt(r, pools, p)
    BY <1>10, <1>15 DEF OnlyAt
  <2> DEFINE amount == old.amount
             agent == old.agentId
  <2>3. /\ r.ownerOf[p] = to /\ r.positions[p].agentId = agent /\ r.positions[p].amount = amount
        /\ pools.ownerOf[p] = from /\ pools.positions[p].agentId = agent /\ pools.positions[p].amount = amount
    BY <1>7, <1>10, <1>15 DEF from, old
  <2>4. /\ pools \in Storage /\ held \in Int /\ TotalsExact(pools, held) /\ r \in Storage /\ p \in Positions
        /\ from \in Stakers /\ to \in Stakers /\ agent \in Agents /\ amount \in Nat
    BY <1>1, <1>4, <1>5, <1>14
  <2> HIDE DEF amount, agent
  <2>5. \A v \in Stakers :
          /\ r.totalStake[v] = (pools.totalStake[v] + (IF v = from THEN -amount ELSE 0))
                               + (IF v = to THEN amount ELSE 0)
          /\ \A b \in Agents : r.agentStake[v][b] =
               (pools.agentStake[v][b] + (IF v = from /\ b = agent THEN -amount ELSE 0))
               + (IF v = to /\ b = agent THEN amount ELSE 0)
    BY <2>1 DEF amount, agent
  <2> QED BY ONLY <2>2, <2>3, <2>4, <2>5, TotalsAfterTransfer
<1>18. Sound(r, held, epoch, pools)
  <2>1. /\ Books(pools, held) /\ LocksKept(pools, epoch) /\ p \in Positions /\ Owned(pools, p)
        /\ to \in Stakers /\ r \in Storage /\ Handed(r, pools, p, to) /\ ListsExact(r) /\ TotalsExact(r, held)
    BY <1>1, <1>3, <1>14, <1>15, <1>16, <1>17
  <2> QED BY ONLY <2>1, HandedSound
<1> QED BY <1>2, <1>18 DEF r

-----------------------------------------------------------------------------
(* The invariant of the specification.                                     *)

LEMMA NextEpochLocks ==
  ASSUME NEW s, s \in Storage, NEW now, now \in Nat, now < MaxEpoch, LocksKept(s, now)
  PROVE  LocksKept(s, now + 1)
<1> SUFFICES ASSUME NEW p \in Positions, Owned(s, p) PROVE LockKept(s, p, now + 1)
  BY DEF LocksKept
<1> DEFINE start == s.positions[p].stakeStartEpoch
           end == s.positions[p].stakeEndEpoch
           weight == s.positions[p].weightAmount
           m == s.maxLockPower[p]
           a == s.normalStart[p]
           b == s.normalEnd[p]
           ahead == Effective(s, p, now)
           later == Effective(s, p, now + 1)
<1>1. /\ start < end /\ end \in Epochs /\ s.withdrawableEpoch[p] <= start
      /\ \A e \in Epochs : e >= ahead => m[e] = m[ahead] /\ a[e] = a[ahead] /\ b[e] = b[ahead]
      /\ \A e \in Epochs : e >= start /\ weight # 0 => (m[e] = 0 <=> b[e] # 0)
      /\ b[ahead] \in {0, end}
      /\ \A e \in Epochs : m[e] # 0 => start <= e
  BY DEF LocksKept, LockKept
<1>2. start \in Nat
  <2>1. s.positions[p] \in PositionType
    BY DEF Storage
  <2> QED BY <2>1 DEF PositionType
<1>3. ahead = Later(now + 1, start) /\ later = Later(now + 2, start)
  BY DEF Effective
<1>4. now + 2 \in Epochs /\ now + 1 \in Epochs
  BY PoolsAssumption DEF Epochs
<1> HIDE DEF ahead, later, m, a, b, end, weight, start
<1>5. start \in Epochs
  BY <1>1, <1>2, PoolsAssumption DEF Epochs
<1>6. ahead \in Nat /\ later \in Nat /\ later >= ahead /\ later \in Epochs
  BY <1>2, <1>3, <1>4, <1>5 DEF Later, Epochs
<1>7. m[later] = m[ahead] /\ a[later] = a[ahead] /\ b[later] = b[ahead]
  BY <1>1, <1>6
<1>8. \A e \in Epochs : e >= later => m[e] = m[later] /\ a[e] = a[later] /\ b[e] = b[later]
  <2> SUFFICES ASSUME NEW e \in Epochs, e >= later
               PROVE  m[e] = m[ahead] /\ a[e] = a[ahead] /\ b[e] = b[ahead]
    BY <1>7
  <2>1. e >= ahead
    BY <1>6 DEF Epochs
  <2> QED BY <1>1, <2>1
<1>9. start <= now + 1 => b[now + 1] = b[(now + 1) + 1]
  <2> SUFFICES ASSUME start <= now + 1 PROVE b[now + 1] = b[(now + 1) + 1]
    OBVIOUS
  <2>1. ahead = now + 1 /\ later = (now + 1) + 1
    BY <1>2, <1>3 DEF Later
  <2> QED BY <1>7, <2>1
<1>10. /\ s.positions[p].stakeStartEpoch = start /\ s.positions[p].stakeEndEpoch = end
       /\ s.positions[p].weightAmount = weight /\ s.maxLockPower[p] = m /\ s.normalStart[p] = a
       /\ s.normalEnd[p] = b /\ Effective(s, p, now + 1) = later
  BY DEF start, end, weight, m, a, b, later
<1>11. b[later] \in {0, end}
  BY <1>1, <1>7
<1> QED BY ONLY <1>1, <1>8, <1>9, <1>10, <1>11 DEF LockKept

LEMMA PoolsInit ==
  Init => PoolsInv
<1> SUFFICES ASSUME Init PROVE PoolsInv
  OBVIOUS
<1>1. /\ EmptyTrace \in NatTrace /\ EmptyTrace \in IntTrace /\ EmptyTree \in Tree
      /\ NoPosition \in PositionType /\ NoPosition.owner = NoStaker
  BY DEF EmptyTrace, NatTrace, IntTrace, EmptyTree, Zero, Tree, Node, NoPosition, PositionType
<1>2. /\ pools.positions = [p \in Positions |-> NoPosition] /\ pools.nextPositionId = 1
      /\ pools.ownerOf = [p \in Positions |-> NoStaker]
      /\ pools.withdrawableEpoch = [p \in Positions |-> 0]
      /\ pools.maxLockPower = [p \in Positions |-> EmptyTrace]
      /\ pools.normalStart = [p \in Positions |-> EmptyTrace]
      /\ pools.normalEnd = [p \in Positions |-> EmptyTrace]
      /\ pools.positionIds = [u \in Stakers |-> <<>>]
      /\ pools.totalStake = [u \in Stakers |-> 0]
      /\ pools.agentStake = [u \in Stakers |-> [a \in Agents |-> 0]]
  BY DEF Init
<1>3. pools \in Storage
  <2>1. 1 \in 1..MaxPositions + 1 /\ <<>> \in Seq(Positions)
    BY PoolsAssumption
  <2> HIDE DEF EmptyTrace, EmptyTree, NoPosition
  <2> QED BY <1>1, <2>1 DEF Init, Storage
<1>4. PositionsKnown(pools)
  BY <1>1, <1>2 DEF PositionsKnown, FreshPosition, Owned
<1>5. ListsExact(pools)
  <2>1. \A u \in Stakers : Len(pools.positionIds[u]) = 0
    BY <1>2
  <2>2. \A p \in Positions : pools.ownerOf[p] \notin Stakers
    BY <1>2, PoolsAssumption
  <2> QED BY <2>1, <2>2 DEF ListsExact, Listed
<1>6. TotalsExact(pools, held)
  <2>1. ASSUME NEW U \in SUBSET Stakers, NEW A PROVE StakeIn(pools, U, A) = 0
    <3>1. Principal(pools, U, A) = [p \in 1..MaxPositions |-> 0]
      BY <1>2, PoolsAssumption DEF Principal, Positions
    <3> QED BY <3>1, SumZero, PoolsAssumption DEF StakeIn
  <2>2. held = 0 /\ \A u \in Stakers : pools.totalStake[u] = 0
        /\ \A a \in Agents : pools.agentStake[u][a] = 0
    BY <1>2 DEF Init
  <2>3. \A u \in Stakers : {u} \in SUBSET Stakers
    OBVIOUS
  <2> QED BY <2>1, <2>2, <2>3 DEF TotalsExact
<1>7. LocksKept(pools, epoch)
  BY <1>2 DEF LocksKept, Owned
<1>8. config \in Config /\ epoch \in 0..MaxEpoch
  BY PoolsAssumption DEF Init, DefaultConfig, Config, BPS_DENOMINATOR
<1> QED BY <1>3, <1>4, <1>5, <1>6, <1>7, <1>8 DEF PoolsInv, Books

(* Every step keeps the invariant, and lets no weight of an epoch that has *)
(* begun grow, nor that of one that is over change.                        *)
LEMMA PoolsStep ==
  PoolsInv /\ [Next]_vars => PoolsInv' /\ Faded(pools', pools, epoch)
<1> SUFFICES ASSUME PoolsInv, [Next]_vars PROVE PoolsInv' /\ Faded(pools', pools, epoch)
  OBVIOUS
<1>1. pools \in Storage /\ Sound(pools, held, epoch, pools) /\ epoch \in 0..MaxEpoch /\ config \in Config
  BY InvSound DEF PoolsInv, Books
<1>2. ASSUME Sound(pools', held', epoch, pools), epoch' = epoch, config' \in Config
      PROVE  PoolsInv' /\ Faded(pools', pools, epoch)
  <2>1. Faded(pools', pools, epoch)
    BY <1>1, <1>2, FrozenFaded DEF Sound
  <2>2. Books(pools', held') /\ LocksKept(pools', epoch')
    BY <1>2 DEF Sound
  <2> HIDE DEF Books, LocksKept
  <2> QED BY <1>1, <1>2, <2>1, <2>2 DEF PoolsInv
<1>3. CASE Call
  <2>1. ASSUME NEW amount \in StakeAmounts, NEW n \in StakeLengths, NEW u \in Stakers, NEW a \in Agents,
               stakeFor(u, a, amount, n)
        PROVE  PoolsInv' /\ Faded(pools', pools, epoch)
    <3>1. epoch' = epoch /\ config' = config
      BY <2>1 DEF stakeFor
    <3> QED BY <1>1, <1>2, <2>1, <3>1, StakeForSound
  <2>2. ASSUME NEW amount \in StakeAmounts, NEW n \in StakeLengths, NEW p \in Positions,
               stakeMintedReward(p, amount, n)
        PROVE  PoolsInv' /\ Faded(pools', pools, epoch)
    <3>1. epoch' = epoch /\ config' = config
      BY <2>2 DEF stakeMintedReward
    <3> QED BY <1>1, <1>2, <2>2, <3>1, StakeMintedRewardSound
  <2>3. ASSUME NEW p \in Positions, NEW a \in Agents, moveStake(p, a)
        PROVE  PoolsInv' /\ Faded(pools', pools, epoch)
    <3>1. epoch' = epoch /\ config' = config
      BY <2>3 DEF moveStake
    <3> QED BY <1>1, <1>2, <2>3, <3>1, MoveStakeSound
  <2>4. ASSUME NEW p \in Positions, NEW n \in StakeLengths, extendLock(p, n)
        PROVE  PoolsInv' /\ Faded(pools', pools, epoch)
    <3>1. epoch' = epoch /\ config' = config
      BY <2>4 DEF extendLock
    <3> QED BY <1>1, <1>2, <2>4, <3>1, ExtendLockSound
  <2>5. ASSUME NEW p \in Positions, enableMaxLock(p)
        PROVE  PoolsInv' /\ Faded(pools', pools, epoch)
    <3>1. epoch' = epoch /\ config' = config
      BY <2>5 DEF enableMaxLock
    <3> QED BY <1>1, <1>2, <2>5, <3>1, EnableMaxLockSound
  <2>6. ASSUME NEW p \in Positions, disableMaxLock(p)
        PROVE  PoolsInv' /\ Faded(pools', pools, epoch)
    <3>1. epoch' = epoch /\ config' = config
      BY <2>6 DEF disableMaxLock
    <3> QED BY <1>1, <1>2, <2>6, <3>1, DisableMaxLockSound
  <2>7. ASSUME NEW p \in Positions, NEW amount \in SplitAmounts, splitStake(p, amount)
        PROVE  PoolsInv' /\ Faded(pools', pools, epoch)
    <3>1. epoch' = epoch /\ config' = config
      BY <2>7 DEF splitStake
    <3> QED BY <1>1, <1>2, <2>7, <3>1, SplitStakeSound
  <2>8. ASSUME NEW p \in Positions, NEW q \in Positions, mergeStakes(p, q)
        PROVE  PoolsInv' /\ Faded(pools', pools, epoch)
    <3>1. epoch' = epoch /\ config' = config
      BY <2>8 DEF mergeStakes
    <3> QED BY <1>1, <1>2, <2>8, <3>1, MergeStakesSound
  <2>9. ASSUME NEW p \in Positions, withdrawStake(p)
        PROVE  PoolsInv' /\ Faded(pools', pools, epoch)
    <3>1. epoch' = epoch /\ config' = config
      BY <2>9 DEF withdrawStake
    <3>2. Books(pools', held') /\ LocksKept(pools', epoch) /\ Faded(pools', pools, epoch)
      BY <2>9, WithdrawStakeSound
    <3> QED BY <1>1, <3>1, <3>2 DEF PoolsInv
  <2>10. ASSUME NEW p \in Positions, NEW u \in Stakers, transfer(p, u)
        PROVE  PoolsInv' /\ Faded(pools', pools, epoch)
    <3>1. epoch' = epoch /\ config' = config
      BY <2>10 DEF transfer
    <3> QED BY <1>1, <1>2, <2>10, <3>1, TransferSound
  <2>11. ASSUME NEW c \in Configs, setConfig(c)
        PROVE  PoolsInv' /\ Faded(pools', pools, epoch)
    <3>1. epoch' = epoch /\ config' \in Config /\ pools' = pools /\ held' = held
      BY <2>11, PoolsAssumption DEF setConfig
    <3> QED BY <1>1, <1>2, <3>1
  <2> QED BY <1>3, <2>1, <2>2, <2>3, <2>4, <2>5, <2>6, <2>7, <2>8, <2>9, <2>10, <2>11 DEF Call
<1>4. CASE NextEpoch
  <2>1. epoch' = epoch + 1 /\ epoch < MaxEpoch /\ pools' = pools /\ held' = held /\ config' = config
    BY <1>4 DEF NextEpoch
  <2>2. epoch' \in 0..MaxEpoch /\ epoch \in Nat
    BY <1>1, <2>1, PoolsAssumption
  <2>3. LocksKept(pools, epoch + 1)
    <3>1. pools \in Storage /\ epoch \in Nat /\ epoch < MaxEpoch /\ LocksKept(pools, epoch)
      BY <1>1, <2>1, <2>2 DEF Sound
    <3> QED BY ONLY <3>1, NextEpochLocks
  <2>4. Faded(pools, pools, epoch)
    BY <1>1, FrozenFaded DEF Sound
  <2>5. Books(pools, held)
    BY DEF PoolsInv
  <2> QED BY <1>1, <2>1, <2>2, <2>3, <2>4, <2>5 DEF PoolsInv
<1>5. CASE UNCHANGED vars
  <2>1. epoch' = epoch /\ config' = config /\ pools' = pools /\ held' = held
    BY <1>5 DEF vars
  <2> QED BY <1>1, <1>2, <2>1
<1> QED BY <1>3, <1>4, <1>5 DEF Next

(* The storage of AntseedSellerPools.sol is well formed, its lists, totals *)
(* and balance agree with its positions, and the lock of every open        *)
(* position is settled from the next epoch on.                             *)
THEOREM PoolsInvariant ==
  Spec => []PoolsInv
<1>1. PoolsInv /\ [Next]_vars => PoolsInv'
  BY PoolsStep
<1> QED BY <1>1, PoolsInit, PTL DEF Spec

(* The ANTS the contract owns are the principal of the open positions, its *)
(* totals per staker and agent add them up, and the swap-and-pop lists of  *)
(* _addStakerPosition and _removeStakerPosition name each exactly once.    *)
THEOREM StakeBackedCorrect ==
  Spec => []StakeBacked
<1>1. ASSUME PoolsInv PROVE StakeBacked
  <2>1. pools \in Storage /\ PositionsKnown(pools) /\ ListsExact(pools) /\ TotalsExact(pools, held)
    BY <1>1 DEF PoolsInv, Books
  <2>2. /\ pools.ownerOf \in [Positions -> Stakers \cup {NoStaker}]
        /\ pools.positionIds \in [Stakers -> Seq(Positions)]
    BY <2>1 DEF Storage
  <2>3. NoStaker \notin Stakers /\ MaxPositions \in Nat /\ Positions = 1..MaxPositions
    BY PoolsAssumption DEF Positions
  <2>4. \A p \in Positions : /\ pools.ownerOf[p] # NoStaker <=> isOpen(p)
                             /\ isOpen(p) => /\ pools.ownerOf[p] = pools.positions[p].owner
                                             /\ pools.ownerOf[p] \in Stakers
                                             /\ pools.positions[p].agentId \in Agents
    BY <2>1, <2>2 DEF PositionsKnown, Owned, isOpen
  <2>5. \A p \in Positions : pools.ownerOf[p] \in Stakers => isOpen(p)
    BY <2>3, <2>4
  <2>6. held = Sum([p \in Positions |-> IF isOpen(p) THEN pools.positions[p].amount ELSE 0], MaxPositions)
    <3>1. Principal(pools, Stakers, Agents) =
            [p \in Positions |-> IF isOpen(p) THEN pools.positions[p].amount ELSE 0]
      BY <2>4, <2>5 DEF Principal
    <3> QED BY <2>1, <3>1 DEF TotalsExact, StakeIn
  <2>7. ASSUME NEW u \in Stakers, NEW a \in Agents
        PROVE  pools.agentStake[u][a] =
                 Sum([p \in Positions |->
                       IF isOpen(p) /\ pools.ownerOf[p] = u /\ pools.positions[p].agentId = a
                       THEN pools.positions[p].amount ELSE 0], MaxPositions)
    <3>1. Principal(pools, {u}, {a}) =
            [p \in Positions |-> IF isOpen(p) /\ pools.ownerOf[p] = u /\ pools.positions[p].agentId = a
                                 THEN pools.positions[p].amount ELSE 0]
      BY <2>5 DEF Principal
    <3> QED BY <2>1, <3>1 DEF TotalsExact, StakeIn
  <2>8. ASSUME NEW u \in Stakers
        PROVE  pools.totalStake[u] = Sum([p \in Positions |->
                 IF isOpen(p) /\ pools.ownerOf[p] = u THEN pools.positions[p].amount ELSE 0], MaxPositions)
    <3>1. Principal(pools, {u}, Agents) =
            [p \in Positions |-> IF isOpen(p) /\ pools.ownerOf[p] = u THEN pools.positions[p].amount ELSE 0]
      BY <2>4, <2>5 DEF Principal
    <3> QED BY <2>1, <3>1 DEF TotalsExact, StakeIn
  <2>9. ASSUME NEW u \in Stakers
        PROVE  LET ids == pools.positionIds[u] IN
               /\ {ids[i] : i \in DOMAIN ids} = {p \in Positions : pools.ownerOf[p] = u}
               /\ \A i \in DOMAIN ids : pools.positionIndex[ids[i]] = i
    <3> DEFINE ids == pools.positionIds[u]
    <3>1. ids \in Seq(Positions) /\ DOMAIN ids = 1..Len(ids)
      BY <2>2
    <3>2. \A i \in 1..Len(ids) : ids[i] \in Positions
      BY <3>1
    <3>3. /\ \A i \in 1..Len(ids) : pools.ownerOf[ids[i]] = u /\ pools.positionIndex[ids[i]] = i
          /\ \A p \in Positions : pools.ownerOf[p] = u =>
               pools.positionIndex[p] \in 1..Len(ids) /\ ids[pools.positionIndex[p]] = p
      BY <2>1 DEF ListsExact, Listed
    <3> HIDE DEF ids
    <3>4. {ids[i] : i \in DOMAIN ids} = {p \in Positions : pools.ownerOf[p] = u}
      BY <3>1, <3>2, <3>3
    <3>5. \A i \in DOMAIN ids : pools.positionIndex[ids[i]] = i
      BY <3>1, <3>3
    <3> QED BY <3>4, <3>5 DEF ids
  <2> HIDE DEF isOpen
  <2> QED BY <2>4, <2>6, <2>7, <2>8, <2>9 DEF StakeBacked
<1> QED BY <1>1, PoolsInvariant, PTL

(* withdrawStake never refuses, and never slashes, a position with weight  *)
(* whose lock is over and that is not max-locked: whatever extensions, max *)
(* locks, moves, splits, merges and transfers it went through.             *)
THEOREM ExpiredWithdrawableCorrect ==
  Spec => []ExpiredWithdrawable
<1>1. ASSUME PoolsInv PROVE ExpiredWithdrawable
  <2> SUFFICES ASSUME NEW p \in Positions, isOpen(p), pools.positions[p].weightAmount # 0,
                      pools.maxLockPower[p][epoch] = 0, pools.maxLockPower[p][epoch + 1] = 0,
                      epoch >= pools.positions[p].stakeEndEpoch
               PROVE  lockSettled(p) /\ slashOf(p, closeEpoch(p)) = 0
    BY DEF ExpiredWithdrawable
  <2> DEFINE start == pools.positions[p].stakeStartEpoch
             end == pools.positions[p].stakeEndEpoch
             b == pools.normalEnd[p]
  <2>1. Owned(pools, p)
    BY DEF isOpen, Owned
  <2>2. LockKept(pools, p, epoch) /\ pools.positions[p] \in PositionType
    BY <1>1, <2>1, OpenPosition
  <2>3. epoch \in Nat /\ epoch \in Epochs /\ epoch + 1 \in Epochs
    BY <1>1, NowInEpochs DEF PoolsInv
  <2>4. start \in Nat /\ end \in Nat /\ pools.positions[p].amount \in Nat
    BY <2>2 DEF PositionType
  <2>5. /\ start < end /\ pools.withdrawableEpoch[p] <= start
        /\ pools.maxLockPower[p][epoch] = 0 <=> b[epoch] # 0
        /\ start <= epoch =>
             0 \in {b[epoch], b[epoch + 1]} \/ b[epoch] = b[epoch + 1] \/ end > epoch + 1
        /\ b[Effective(pools, p, epoch)] \in {0, end}
    <3>1. epoch >= start
      BY <2>2, <2>3, <2>4 DEF LockKept
    <3> QED BY <2>2, <2>3, <3>1 DEF LockKept
  <2>6. start <= epoch /\ ~(end > epoch + 1)
    BY <2>3, <2>4, <2>5
  <2>7. pools.maxLockPower[p][epoch + 1] = 0 <=> b[epoch + 1] # 0
    <3>1. epoch + 1 >= start
      BY <2>3, <2>4, <2>6
    <3> QED BY <2>2, <2>3, <3>1 DEF LockKept
  <2>8. b[epoch] # 0 /\ b[epoch + 1] = b[epoch]
    BY <2>5, <2>6, <2>7
  <2>9. closeEpoch(p) = epoch /\ Effective(pools, p, epoch) = epoch + 1
    BY <2>3, <2>4, <2>6 DEF closeEpoch, Effective, Later
  <2>10. b[epoch] = end
    BY <2>5, <2>8, <2>9
  <2>11. pools.withdrawableEpoch[p] \in Nat
    BY <1>1 DEF PoolsInv, Books, Storage
  <2>12. lockSettled(p)
    <3>1. epoch >= pools.withdrawableEpoch[p]
      BY <2>3, <2>4, <2>5, <2>6, <2>11
    <3> QED BY <2>8, <2>9, <3>1 DEF lockSettled
  <2>13. earlyExitSlashBps(p, closeEpoch(p)) = 0
    BY <2>9, <2>10 DEF earlyExitSlashBps
  <2>14. slashOf(p, closeEpoch(p)) = 0
    BY <2>4, <2>13 DEF slashOf, BPS_DENOMINATOR
  <2> QED BY <2>12, <2>14
<1> QED BY <1>1, PoolsInvariant, PTL

(* No operation rewrites the power of an epoch that is over, on which its  *)
(* rewards are claimed, and none raises the power of the current one.      *)
THEOREM PastPowerFrozenCorrect ==
  Spec => PastPowerFrozen
<1>1. PoolsInv /\ [Next]_vars =>
        [\A p \in Positions, e \in 0..epoch :
           LET before == positionWeightAtEpoch(p, e)
               after == positionWeightAtEpoch(p, e)'
           IN  IF e < epoch THEN after = before ELSE after <= before]_vars
  <2> SUFFICES ASSUME PoolsInv, [Next]_vars, NEW p \in Positions, NEW e \in 0..epoch
               PROVE  LET before == positionWeightAtEpoch(p, e)
                          after == positionWeightAtEpoch(p, e)'
                      IN  IF e < epoch THEN after = before ELSE after <= before
    OBVIOUS
  <2>1. Faded(pools', pools, epoch)
    BY PoolsStep
  <2>2. positionWeightAtEpoch(p, e) = Weight(pools, p, e)
    BY DEF positionWeightAtEpoch, Weight
  <2>3. positionWeightAtEpoch(p, e)' = Weight(pools', p, e)
    BY DEF positionWeightAtEpoch, Weight
  <2> QED BY <2>1, <2>2, <2>3 DEF Faded
<1>2. Spec => [][\A p \in Positions, e \in 0..epoch :
           LET before == positionWeightAtEpoch(p, e)
               after == positionWeightAtEpoch(p, e)'
           IN  IF e < epoch THEN after = before ELSE after <= before]_vars
  BY <1>1, PoolsInvariant, PTL DEF Spec
<1> QED BY <1>2 DEF PastPowerFrozen
=============================================================================
