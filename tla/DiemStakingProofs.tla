-------------------------- MODULE DiemStakingProofs --------------------------
(***************************************************************************)
(* Proofs about DiemStakingProxy, for any number of stakers and batches,   *)
(* all amounts, caps, fees, cooldowns and epochs.                          *)
(***************************************************************************)
EXTENDS DiemStakingProxy, SumTheorems, FiniteSetTheorems

(***************************************************************************)
(* Principal: the DIEM of the stakers.                                     *)
(***************************************************************************)
VeniceType == [amountStaked: Nat, coolDownAmount: Nat, coolDownIn: Nat]

PrincipalType ==
  /\ scenario \in Scenarios
  /\ staked \in [Stakers -> Nat] /\ totalStaked \in Nat /\ stakerCount \in Nat
  /\ unstakeBatches \in [Batches -> Batch]
  /\ currentUnstakeBatch \in Batches /\ oldestUnclaimedUnstakeBatch \in Batches
  /\ diem \in [Stakers -> Nat] /\ venice \in VeniceType

(* The batches are paid in the order in which they are flushed, and at     *)
(* most one of them cools down at Venice, which keeps one cooldown for the *)
(* whole account.                                                          *)
BatchesInOrder ==
  /\ oldestUnclaimedUnstakeBatch <= currentUnstakeBatch
  /\ currentUnstakeBatch <= oldestUnclaimedUnstakeBatch + 1
  /\ unstakeBatches[currentUnstakeBatch].total # 0 => currentUnstakeBatch <= MaxBatches
  /\ \A b \in Batches :
       /\ unstakeBatches[b].flushed <=> b < currentUnstakeBatch
       /\ unstakeBatches[b].claimed <=> b < oldestUnclaimedUnstakeBatch
       /\ b > currentUnstakeBatch => unstakeBatches[b].total = 0

PrincipalInv == PrincipalType /\ BatchesInOrder /\ PrincipalBacked

principalVars == <<scenario, stakeVars, unstakeBatches, currentUnstakeBatch,
                   oldestUnclaimedUnstakeBatch, diem, venice>>

LEMMA DiemConstants ==
  /\ NumStakers \in Nat /\ MaxBatches \in Nat /\ MaxBatches + 1 \in Nat
  /\ Batches = 1..(MaxBatches + 1) /\ Stakers = 1..NumStakers
  /\ Endowment \in [Stakers -> Nat]
  /\ \A amount \in StakeAmounts : amount \in Nat /\ amount > 0
  /\ CoolDowns \subseteq Nat
BY DiemAssumption DEF Batches, Stakers

(* Sums over the stakers and over the batches, when one term changes. *)
LEMMA StakerSum ==
  ASSUME NEW f \in [Stakers -> Nat], NEW g \in [Stakers -> Nat], NEW u \in Stakers,
         \A v \in Stakers : v # u => g[v] = f[v]
  PROVE  /\ Sum(f, NumStakers) \in Nat /\ f[u] <= Sum(f, NumStakers)
         /\ Sum(g, NumStakers) = Sum(f, NumStakers) + g[u] - f[u]
<1>1. /\ f \in [1..NumStakers -> Nat] /\ f \in [1..NumStakers -> Int]
      /\ g \in [1..NumStakers -> Int] /\ u \in 1..NumStakers /\ NumStakers \in Nat
      /\ \A v \in 1..NumStakers : v # u => g[v] = f[v]
  BY DiemConstants DEF Stakers
<1>2. Sum(f, NumStakers) \in Nat
  BY <1>1, SumNat
<1>3. f[u] <= Sum(f, NumStakers)
  BY <1>1, SumMember
<1>4. Sum(g, NumStakers) = Sum(f, NumStakers) + g[u] - f[u]
  BY <1>1, SumUpdate
<1> QED BY <1>2, <1>3, <1>4

LEMMA BatchSum ==
  ASSUME NEW f \in [Batches -> Nat], NEW g \in [Batches -> Nat], NEW b \in Batches,
         \A c \in Batches : c # b => g[c] = f[c]
  PROVE  /\ Sum(f, MaxBatches + 1) \in Nat
         /\ Sum(g, MaxBatches + 1) = Sum(f, MaxBatches + 1) + g[b] - f[b]
<1> DEFINE last == MaxBatches + 1
<1>1. /\ f \in [1..last -> Nat] /\ f \in [1..last -> Int]
      /\ g \in [1..last -> Int] /\ b \in 1..last /\ last \in Nat
      /\ \A c \in 1..last : c # b => g[c] = f[c]
  BY DiemConstants DEF Batches
<1> HIDE DEF last
<1>2. Sum(f, last) \in Nat
  BY <1>1, SumNat
<1>3. Sum(g, last) = Sum(f, last) + g[b] - f[b]
  BY <1>1, SumUpdate
<1> QED BY <1>2, <1>3 DEF last

(* Those who have something staked. *)
Holders(f) == {v \in Stakers : f[v] > 0}

(* A batch's amounts, and what cools down, as functions of the batch.      *)
QueuedIn(batches, u) == [b \in Batches |-> batches[b].amounts[u]]
CoolingIn(batches) ==
  [b \in Batches |-> IF batches[b].flushed /\ ~batches[b].claimed THEN batches[b].total ELSE 0]

LEMMA QueuedType ==
  ASSUME NEW batches \in [Batches -> Batch]
  PROVE  /\ \A u \in Stakers : QueuedIn(batches, u) \in [Batches -> Nat]
         /\ CoolingIn(batches) \in [Batches -> Nat]
<1>1. \A b \in Batches : /\ batches[b].total \in Nat
                          /\ \A u \in Stakers : batches[b].amounts[u] \in Nat
  BY DEF Batch
<1> QED BY <1>1 DEF QueuedIn, CoolingIn

(* The parts of PrincipalBacked. *)
Conserved(u) == diem[u] + staked[u] + Sum(QueuedIn(unstakeBatches, u), MaxBatches + 1) = Endowment[u]
BatchSound(batch) ==
  /\ ~batch.claimed => batch.total = Sum(batch.amounts, NumStakers)
  /\ batch.flushed /\ ~batch.claimed => venice.coolDownIn <= batch.unlockIn

LEMMA BackedParts ==
  ASSUME staked \in [Stakers -> Nat]
  PROVE  PrincipalBacked <=>
           /\ \A u \in Stakers : Conserved(u)
           /\ totalStaked = Sum(staked, NumStakers)
           /\ stakerCount = Cardinality(Holders(staked))
           /\ venice.amountStaked = totalStaked + unstakeBatches[currentUnstakeBatch].total
           /\ venice.coolDownAmount = Sum(CoolingIn(unstakeBatches), MaxBatches + 1)
           /\ \A b \in Batches : BatchSound(unstakeBatches[b])
<1>1. \A u \in Stakers : staked[u] >= 0
  OBVIOUS
<1> QED BY <1>1 DEF PrincipalBacked, Holders, Conserved, BatchSound, Queued, QueuedIn, CoolingIn

(* A step that changes none of the variables of the principal. *)
LEMMA PrincipalFrame ==
  ASSUME PrincipalInv, UNCHANGED principalVars
  PROVE  PrincipalInv'
BY DEF PrincipalInv, principalVars, PrincipalType, BatchesInOrder, PrincipalBacked, Queued, stakeVars

LEMMA PrincipalInit == Init => PrincipalInv
<1> SUFFICES ASSUME Init PROVE PrincipalInv
  OBVIOUS
<1> DEFINE none == [u \in Stakers |-> 0]
<1>1. none \in [Stakers -> Nat]
  OBVIOUS
<1>2. NoBatch \in Batch /\ NoBatch.amounts = none /\ NoBatch.total = 0
      /\ NoBatch.flushed = FALSE /\ NoBatch.claimed = FALSE
  BY <1>1 DEF NoBatch, Batch
<1>3. /\ staked = none /\ totalStaked = 0 /\ stakerCount = 0 /\ scenario \in Scenarios
      /\ unstakeBatches = [b \in Batches |-> NoBatch]
      /\ currentUnstakeBatch = 1 /\ oldestUnclaimedUnstakeBatch = 1 /\ diem = Endowment
      /\ venice = [amountStaked |-> 0, coolDownAmount |-> 0, coolDownIn |-> 0]
  BY DEF Init
<1>4. 1 \in Batches /\ \A b \in Batches : b >= 1
  BY DiemConstants
<1>5. PrincipalType
  BY <1>1, <1>2, <1>3, <1>4, DiemConstants DEF PrincipalType, VeniceType
<1>6. BatchesInOrder
  BY <1>2, <1>3, <1>4, DiemConstants DEF BatchesInOrder
<1>7. Sum(none, NumStakers) = 0
  BY SumZero, DiemConstants
<1>8. ASSUME NEW u \in Stakers PROVE Conserved(u)
  <2> DEFINE q == QueuedIn(unstakeBatches, u)
  <2>1. q = [b \in 1..(MaxBatches + 1) |-> 0]
    BY <1>2, <1>3, DiemConstants DEF QueuedIn
  <2> HIDE DEF q
  <2>2. Sum(q, MaxBatches + 1) = 0
    BY <2>1, SumZero, DiemConstants
  <2> QED BY <1>3, <2>2, DiemConstants DEF Conserved, q
<1>9. Sum(CoolingIn(unstakeBatches), MaxBatches + 1) = 0
  <2>1. CoolingIn(unstakeBatches) = [b \in 1..(MaxBatches + 1) |-> 0]
    BY <1>2, <1>3, DiemConstants DEF CoolingIn
  <2> QED BY <2>1, SumZero, DiemConstants
<1>10. \A b \in Batches : BatchSound(unstakeBatches[b])
  BY <1>2, <1>3, <1>7 DEF BatchSound
<1>11. Cardinality(Holders(staked)) = 0
  <2>1. Holders(staked) = {}
    BY <1>3 DEF Holders
  <2> QED BY <2>1, FS_EmptySet
<1>12. unstakeBatches[currentUnstakeBatch].total = 0
  BY <1>2, <1>3, <1>4
<1>13. staked \in [Stakers -> Nat]
  BY <1>1, <1>3
<1> HIDE DEF none
<1>14. PrincipalBacked
  BY <1>3, <1>7, <1>8, <1>9, <1>10, <1>11, <1>12, <1>13, BackedParts
<1> QED BY <1>5, <1>6, <1>14 DEF PrincipalInv

(* The parts of the invariant, as the steps below use them. *)
LEMMA PrincipalParts ==
  ASSUME PrincipalInv
  PROVE  /\ PrincipalType /\ BatchesInOrder
         /\ \A u \in Stakers : Conserved(u)
         /\ totalStaked = Sum(staked, NumStakers)
         /\ stakerCount = Cardinality(Holders(staked))
         /\ venice.amountStaked = totalStaked + unstakeBatches[currentUnstakeBatch].total
         /\ venice.coolDownAmount = Sum(CoolingIn(unstakeBatches), MaxBatches + 1)
         /\ \A b \in Batches : BatchSound(unstakeBatches[b])
BY BackedParts DEF PrincipalInv, PrincipalType

LEMMA PrincipalWhole ==
  ASSUME PrincipalType', BatchesInOrder',
         \A u \in Stakers : Conserved(u)',
         totalStaked' = Sum(staked', NumStakers),
         stakerCount' = Cardinality(Holders(staked')),
         venice'.amountStaked = totalStaked' + unstakeBatches'[currentUnstakeBatch'].total,
         venice'.coolDownAmount = Sum(CoolingIn(unstakeBatches'), MaxBatches + 1),
         \A b \in Batches : BatchSound(unstakeBatches[b])'
  PROVE  PrincipalInv'
<1>1. staked' \in [Stakers -> Nat]
  BY DEF PrincipalType
<1>2. \A u \in Stakers : staked'[u] >= 0
  BY <1>1
<1> QED
  BY <1>2 DEF PrincipalInv, PrincipalBacked, Holders, Conserved, BatchSound, Queued, QueuedIn, CoolingIn

(* What a change of one staker's stake does to the count of stakers.       *)
LEMMA StakerCounted ==
  ASSUME NEW f \in [Stakers -> Nat], NEW g \in [Stakers -> Nat], NEW u \in Stakers,
         \A v \in Stakers : v # u => g[v] = f[v]
  PROVE  LET before == Cardinality(Holders(f))
             after == Cardinality(Holders(g))
         IN  /\ before \in Nat /\ after \in Nat
             /\ f[u] = 0 /\ g[u] > 0 => after = before + 1
             /\ f[u] > 0 /\ g[u] = 0 => after = before - 1
             /\ (f[u] > 0 <=> g[u] > 0) => after = before
<1> DEFINE A == {v \in Stakers : f[v] > 0}
           B == {v \in Stakers : g[v] > 0}
<1>1. IsFiniteSet(Stakers)
  BY DiemConstants, FS_Interval
<1>2. IsFiniteSet(A) /\ IsFiniteSet(B)
  BY <1>1, FS_Subset
<1>3. Cardinality(A) \in Nat /\ Cardinality(B) \in Nat
  BY <1>2, FS_CardinalityType
<1>5. ASSUME f[u] = 0, g[u] > 0 PROVE Cardinality(B) = Cardinality(A) + 1
  <2>1. B = A \cup {u} /\ u \notin A
    BY <1>5
  <2> HIDE DEF A, B
  <2> QED BY <1>2, <2>1, FS_AddElement
<1>6. ASSUME f[u] > 0, g[u] = 0 PROVE Cardinality(B) = Cardinality(A) - 1
  <2>1. B = A \ {u} /\ u \in A
    BY <1>6
  <2> HIDE DEF A, B
  <2> QED BY <1>2, <2>1, FS_RemoveElement
<1>7. ASSUME f[u] > 0 <=> g[u] > 0 PROVE Cardinality(B) = Cardinality(A)
  <2>1. B = A
    BY <1>7
  <2> QED BY <2>1
<1>8. Holders(f) = A /\ Holders(g) = B
  BY DEF Holders
<1> HIDE DEF A, B
<1> QED BY <1>3, <1>5, <1>6, <1>7, <1>8

LEMMA StakePrincipal ==
  ASSUME PrincipalInv, NEW u \in Stakers, NEW amount \in StakeAmounts, stake(u, amount)
  PROVE  PrincipalInv'
<1>1. /\ amount <= diem[u]
      /\ stakerCount' = IF staked[u] = 0 THEN stakerCount + 1 ELSE stakerCount
      /\ staked' = [staked EXCEPT ![u] = staked[u] + amount]
      /\ totalStaked' = totalStaked + amount
      /\ diem' = [diem EXCEPT ![u] = diem[u] - amount]
      /\ venice' = [venice EXCEPT !.amountStaked = venice.amountStaked + amount]
      /\ UNCHANGED <<unstakeBatches, currentUnstakeBatch, oldestUnclaimedUnstakeBatch, scenario>>
  BY DEF stake, batchVars, settings
<1>2. amount \in Nat /\ amount > 0
  BY DiemConstants
<1>3. PrincipalType /\ BatchesInOrder
  BY PrincipalParts
<1>4. /\ diem[u] \in Nat /\ staked[u] \in Nat /\ staked \in [Stakers -> Nat]
      /\ diem[u] - amount \in Nat /\ staked[u] + amount \in Nat /\ staked[u] + amount > 0
      /\ venice \in VeniceType /\ venice.amountStaked \in Nat /\ totalStaked \in Nat
      /\ diem \in [Stakers -> Nat] /\ stakerCount \in Nat
      /\ unstakeBatches[currentUnstakeBatch].total \in Nat
  BY <1>1, <1>2, <1>3 DEF PrincipalType, VeniceType, Batch
<1>5. /\ venice' \in VeniceType /\ venice'.amountStaked = venice.amountStaked + amount
      /\ venice'.coolDownAmount = venice.coolDownAmount
      /\ venice'.coolDownIn = venice.coolDownIn
  BY <1>1, <1>2, <1>4 DEF VeniceType
<1>6. PrincipalType'
  BY <1>1, <1>2, <1>3, <1>4, <1>5 DEF PrincipalType
<1>7. BatchesInOrder'
  BY <1>1, <1>3 DEF BatchesInOrder
<1>8. ASSUME NEW v \in Stakers PROVE Conserved(v)'
  <2>1. Conserved(v)
    BY PrincipalParts
  <2>2. /\ diem'[v] + staked'[v] = diem[v] + staked[v]
    BY <1>1, <1>2, <1>4
  <2>3. QueuedIn(unstakeBatches', v) = QueuedIn(unstakeBatches, v)
    BY <1>1
  <2> QED BY <2>1, <2>2, <2>3 DEF Conserved
<1>9. totalStaked' = Sum(staked', NumStakers)
  <2>1. staked' \in [Stakers -> Nat]
    BY <1>1, <1>4
  <2>2. staked'[u] = staked[u] + amount /\ \A v \in Stakers : v # u => staked'[v] = staked[v]
    BY <1>1, <1>4
  <2>3. Sum(staked', NumStakers) = Sum(staked, NumStakers) + staked'[u] - staked[u]
    BY <1>4, <2>1, <2>2, StakerSum
  <2>4. totalStaked = Sum(staked, NumStakers)
    BY PrincipalParts
  <2> QED BY <1>1, <1>2, <1>4, <2>2, <2>3, <2>4
<1>10. stakerCount' = Cardinality(Holders(staked'))
  <2>1. stakerCount = Cardinality(Holders(staked))
    BY PrincipalParts
  <2>2. /\ staked' \in [Stakers -> Nat] /\ staked'[u] = staked[u] + amount
        /\ \A v \in Stakers : v # u => staked'[v] = staked[v]
    BY <1>1, <1>4
  <2>3. staked'[u] > 0 /\ (staked[u] = 0 \/ staked[u] > 0)
    BY <1>4, <2>2
  <2> QED BY <1>1, <1>4, <2>1, <2>2, <2>3, StakerCounted
<1>11. venice'.amountStaked = totalStaked' + unstakeBatches'[currentUnstakeBatch'].total
  <2>1. venice.amountStaked = totalStaked + unstakeBatches[currentUnstakeBatch].total
    BY PrincipalParts
  <2> QED BY <1>1, <1>2, <1>4, <1>5, <2>1
<1>12. venice'.coolDownAmount = Sum(CoolingIn(unstakeBatches'), MaxBatches + 1)
  BY <1>1, <1>5, PrincipalParts
<1>13. ASSUME NEW b \in Batches PROVE BatchSound(unstakeBatches[b])'
  BY <1>1, <1>5, PrincipalParts DEF BatchSound
<1> QED BY <1>6, <1>7, <1>8, <1>9, <1>10, <1>11, <1>12, <1>13, PrincipalWhole

(* A staker queues in the open batch. *)
LEMMA UnstakePrincipal ==
  ASSUME PrincipalInv, NEW u \in Stakers, NEW amount \in StakeAmounts, initiateUnstake(u, amount)
  PROVE  PrincipalInv'
<1> DEFINE b == currentUnstakeBatch
           batch == unstakeBatches[b]
           amounts == [batch.amounts EXCEPT ![u] = batch.amounts[u] + amount]
           next == [batch EXCEPT !.users = batch.users \cup {u}, !.amounts = amounts,
                                 !.total = batch.total + amount]
<1>1. /\ b <= scenario.batches /\ amount <= staked[u]
      /\ staked' = [staked EXCEPT ![u] = staked[u] - amount]
      /\ totalStaked' = totalStaked - amount
      /\ stakerCount' = IF staked[u] = amount THEN stakerCount - 1 ELSE stakerCount
      /\ UNCHANGED <<currentUnstakeBatch, oldestUnclaimedUnstakeBatch, diem, venice, scenario>>
  BY DEF initiateUnstake, diemVars, settings
<1>2. amount \in Nat /\ amount > 0
  BY DiemConstants
<1>3. PrincipalType /\ BatchesInOrder
  BY PrincipalParts
<1>4. /\ staked[u] \in Nat /\ staked \in [Stakers -> Nat] /\ staked[u] - amount \in Nat
      /\ totalStaked \in Nat /\ stakerCount \in Nat /\ venice \in VeniceType
      /\ unstakeBatches \in [Batches -> Batch] /\ b \in Batches /\ batch \in Batch
      /\ diem \in [Stakers -> Nat]
  BY <1>1, <1>2, <1>3 DEF PrincipalType
<1>5. unstakeBatches' = [unstakeBatches EXCEPT ![b] = next]
  BY DEF initiateUnstake
<1>6. /\ batch.users \in SUBSET Stakers /\ batch.amounts \in [Stakers -> Nat]
      /\ batch.total \in Nat /\ batch.flushed \in BOOLEAN /\ batch.claimed \in BOOLEAN
      /\ batch.unlockIn \in Nat
  BY <1>4 DEF Batch
<1> HIDE DEF b, batch
<1>7. amounts \in [Stakers -> Nat] /\ amounts[u] = batch.amounts[u] + amount
      /\ \A v \in Stakers : v # u => amounts[v] = batch.amounts[v]
  BY <1>2, <1>6
<1> HIDE DEF amounts
<1>8. /\ next \in Batch /\ next.amounts = amounts /\ next.total = batch.total + amount
      /\ next.flushed = batch.flushed /\ next.claimed = batch.claimed
      /\ next.unlockIn = batch.unlockIn
  <2> DEFINE users == batch.users \cup {u}
             total == batch.total + amount
  <2>1. users \in SUBSET Stakers /\ total \in Nat
    BY <1>2, <1>6
  <2> HIDE DEF users, total
  <2>2. next = [batch EXCEPT !.users = users, !.amounts = amounts, !.total = total]
    BY DEF users, total
  <2> HIDE DEF next
  <2>3. next \in Batch
    BY <1>4, <1>7, <2>1, <2>2 DEF Batch
  <2>4. /\ next.amounts = amounts /\ next.total = total /\ next.flushed = batch.flushed
        /\ next.claimed = batch.claimed /\ next.unlockIn = batch.unlockIn
    BY <1>4, <2>2 DEF Batch
  <2> QED BY <2>3, <2>4 DEF total
<1> HIDE DEF next
<1>9. /\ unstakeBatches' \in [Batches -> Batch] /\ unstakeBatches'[b] = next
      /\ \A c \in Batches : c # b => unstakeBatches'[c] = unstakeBatches[c]
  BY <1>4, <1>5, <1>8
<1>10. batch.flushed = FALSE /\ batch.claimed = FALSE
  <2>1. ~(b < b) /\ ~(b < oldestUnclaimedUnstakeBatch)
    BY <1>3, <1>4, DiemConstants DEF BatchesInOrder, PrincipalType, b
  <2>2. ~batch.flushed /\ ~batch.claimed
    BY <1>3, <1>4, <2>1 DEF BatchesInOrder, b, batch
  <2> QED BY <1>6, <2>2
<1>11. totalStaked = Sum(staked, NumStakers) /\ amount <= totalStaked
  <2>1. totalStaked = Sum(staked, NumStakers)
    BY PrincipalParts
  <2>2. staked[u] <= Sum(staked, NumStakers)
    BY <1>4, StakerSum
  <2> QED BY <1>1, <1>2, <1>4, <2>1, <2>2
<1>12. stakerCount' = Cardinality(Holders(staked')) /\ stakerCount' \in Nat
  <2>1. stakerCount = Cardinality(Holders(staked))
    BY PrincipalParts
  <2>2. /\ staked' \in [Stakers -> Nat] /\ staked'[u] = staked[u] - amount
        /\ \A v \in Stakers : v # u => staked'[v] = staked[v]
    BY <1>1, <1>4
  <2>3. /\ staked[u] > 0 /\ (staked[u] = amount <=> staked'[u] = 0)
        /\ (staked'[u] > 0 <=> staked'[u] # 0)
    BY <1>1, <1>2, <1>4, <2>2
  <2>4. /\ Cardinality(Holders(staked')) \in Nat
        /\ staked'[u] = 0 => Cardinality(Holders(staked')) = stakerCount - 1
        /\ staked'[u] > 0 => Cardinality(Holders(staked')) = stakerCount
    BY <1>4, <2>1, <2>2, <2>3, StakerCounted
  <2>5. stakerCount' = IF staked'[u] = 0 THEN stakerCount - 1 ELSE stakerCount
    BY <1>1, <2>3
  <2> QED BY <2>3, <2>4, <2>5
<1>13. PrincipalType'
  <2>1. staked' \in [Stakers -> Nat] /\ totalStaked' \in Nat
    BY <1>1, <1>2, <1>4, <1>11
  <2> QED BY <1>1, <1>3, <1>9, <1>12, <2>1 DEF PrincipalType
<1>14. BatchesInOrder'
  <2>1. b <= MaxBatches
    <3>1. scenario.batches \in 0..MaxBatches
      BY <1>3, DiemAssumption DEF PrincipalType, Scenario
    <3> QED BY <1>1, <1>4, <3>1, DiemConstants
  <2>2. ASSUME NEW c \in Batches
        PROVE  /\ unstakeBatches'[c].flushed <=> c < b
               /\ unstakeBatches'[c].claimed <=> c < oldestUnclaimedUnstakeBatch
               /\ c > b => unstakeBatches'[c].total = 0
    <3>1. /\ unstakeBatches[c].flushed <=> c < b
          /\ unstakeBatches[c].claimed <=> c < oldestUnclaimedUnstakeBatch
          /\ c > b => unstakeBatches[c].total = 0
      BY <1>3 DEF BatchesInOrder, b
    <3>2. CASE c = b
      <4>1. ~(c > b)
        BY <1>4, <3>2, DiemConstants
      <4> QED BY <1>8, <1>9, <3>1, <3>2, <4>1 DEF batch
    <3>3. CASE c # b
      BY <1>9, <3>1, <3>3
    <3> QED BY <3>2, <3>3
  <2> QED BY <1>1, <1>3, <2>1, <2>2 DEF BatchesInOrder, b
<1>15. ASSUME NEW v \in Stakers PROVE Conserved(v)'
  <2> DEFINE q == QueuedIn(unstakeBatches, v)
             r == QueuedIn(unstakeBatches', v)
  <2>1. q \in [Batches -> Nat] /\ r \in [Batches -> Nat]
    BY <1>4, <1>9, QueuedType
  <2>2. \A c \in Batches : c # b => r[c] = q[c]
    BY <1>9 DEF QueuedIn
  <2>3. q[b] = batch.amounts[v] /\ r[b] = amounts[v]
    BY <1>4, <1>8, <1>9 DEF QueuedIn, batch
  <2> HIDE DEF q, r
  <2>5. Sum(r, MaxBatches + 1) = Sum(q, MaxBatches + 1) + r[b] - q[b]
    BY <1>4, <2>1, <2>2, BatchSum
  <2>6. Sum(q, MaxBatches + 1) \in Nat
    BY <1>4, <2>1, BatchSum
  <2>7. diem[v] + staked[v] + Sum(q, MaxBatches + 1) = Endowment[v]
    BY PrincipalParts DEF Conserved, q
  <2>8. diem'[v] = diem[v] /\ diem[v] \in Nat /\ staked[v] \in Nat /\ batch.amounts[v] \in Nat
    BY <1>1, <1>4, <1>6
  <2>9. CASE v = u
    <3>1. staked'[v] = staked[v] - amount /\ r[b] = q[b] + amount
      BY <1>1, <1>4, <1>7, <2>3, <2>9
    <3>2. diem'[v] + staked'[v] + Sum(r, MaxBatches + 1) = diem[v] + staked[v] + Sum(q, MaxBatches + 1)
      BY <1>2, <2>3, <2>5, <2>6, <2>8, <3>1
    <3> QED BY <2>7, <3>2 DEF Conserved, r
  <2>10. CASE v # u
    <3>1. staked'[v] = staked[v] /\ r[b] = q[b]
      BY <1>1, <1>4, <1>7, <2>3, <2>10
    <3>2. Sum(r, MaxBatches + 1) = Sum(q, MaxBatches + 1)
      BY <2>3, <2>5, <2>6, <2>8, <3>1
    <3> QED BY <2>7, <2>8, <3>1, <3>2 DEF Conserved, r
  <2> QED BY <2>9, <2>10
<1>16. totalStaked' = Sum(staked', NumStakers)
  <2>1. staked' \in [Stakers -> Nat]
    BY <1>1, <1>4
  <2>2. staked'[u] = staked[u] - amount /\ \A v \in Stakers : v # u => staked'[v] = staked[v]
    BY <1>1, <1>4
  <2>3. Sum(staked', NumStakers) = Sum(staked, NumStakers) + staked'[u] - staked[u]
    BY <1>4, <2>1, <2>2, StakerSum
  <2> QED BY <1>1, <1>2, <1>4, <1>11, <2>2, <2>3
<1>17. venice'.amountStaked = totalStaked' + unstakeBatches'[currentUnstakeBatch'].total
  <2>1. venice.amountStaked = totalStaked + batch.total
    BY PrincipalParts DEF batch, b
  <2>2. unstakeBatches'[currentUnstakeBatch'].total = batch.total + amount
    BY <1>1, <1>8, <1>9 DEF b
  <2> QED BY <1>1, <1>2, <1>4, <1>6, <2>1, <2>2
<1>18. venice'.coolDownAmount = Sum(CoolingIn(unstakeBatches'), MaxBatches + 1)
  <2>1. CoolingIn(unstakeBatches') = CoolingIn(unstakeBatches)
    <3>1. ASSUME NEW c \in Batches
          PROVE  CoolingIn(unstakeBatches')[c] = CoolingIn(unstakeBatches)[c]
      BY <1>8, <1>9, <1>10 DEF CoolingIn, batch
    <3> QED BY <3>1 DEF CoolingIn
  <2> QED BY <1>1, <2>1, PrincipalParts
<1>19. ASSUME NEW c \in Batches PROVE BatchSound(unstakeBatches[c])'
  <2>1. BatchSound(unstakeBatches[c])
    BY PrincipalParts
  <2>2. CASE c # b
    BY <1>1, <1>9, <2>1, <2>2 DEF BatchSound
  <2>3. CASE c = b
    <3>1. batch.total = Sum(batch.amounts, NumStakers)
      BY <1>10, <2>1, <2>3 DEF BatchSound, batch
    <3>3. Sum(amounts, NumStakers) = Sum(batch.amounts, NumStakers) + amounts[u] - batch.amounts[u]
      BY <1>6, <1>7, StakerSum
    <3>4. batch.amounts[u] \in Nat
      BY <1>6
    <3>5. next.total = Sum(next.amounts, NumStakers)
      BY <1>2, <1>6, <1>7, <1>8, <3>1, <3>3, <3>4
    <3> QED BY <1>8, <1>9, <1>10, <2>3, <3>5 DEF BatchSound
  <2> QED BY <2>2, <2>3
<1> QED BY <1>12, <1>13, <1>14, <1>15, <1>16, <1>17, <1>18, <1>19, PrincipalWhole

(* When nothing cools down, the next batch goes to Venice. *)
LEMMA FlushPrincipal ==
  ASSUME PrincipalInv, NEW coolDown \in CoolDowns, flush(coolDown)
  PROVE  PrincipalInv'
<1> DEFINE b == currentUnstakeBatch
           batch == unstakeBatches[b]
           next == [batch EXCEPT !.flushed = TRUE, !.unlockIn = coolDown]
<1>1. /\ currentUnstakeBatch = oldestUnclaimedUnstakeBatch /\ batch.total # 0
      /\ unstakeBatches' = [unstakeBatches EXCEPT ![b] = next]
      /\ currentUnstakeBatch' = b + 1
      /\ venice' = [amountStaked |-> venice.amountStaked - batch.total,
                    coolDownAmount |-> venice.coolDownAmount + batch.total,
                    coolDownIn |-> coolDown]
      /\ UNCHANGED <<oldestUnclaimedUnstakeBatch, staked, totalStaked, stakerCount, diem, scenario>>
  BY DEF flush, nothingCooling, stakeVars, settings
<1>2. PrincipalType /\ BatchesInOrder /\ coolDown \in Nat
  BY PrincipalParts, DiemConstants
<1>3. /\ unstakeBatches \in [Batches -> Batch] /\ b \in Batches /\ batch \in Batch
      /\ staked \in [Stakers -> Nat] /\ totalStaked \in Nat /\ venice \in VeniceType
  BY <1>2 DEF PrincipalType
<1>4. batch.total \in Nat /\ batch.flushed \in BOOLEAN /\ batch.claimed \in BOOLEAN
  BY <1>3 DEF Batch
<1>5. /\ next \in Batch /\ next.total = batch.total /\ next.amounts = batch.amounts
      /\ next.flushed = TRUE /\ next.claimed = batch.claimed /\ next.unlockIn = coolDown
  BY <1>2, <1>3 DEF Batch
<1>6. b \in Nat /\ b + 1 \in Batches /\ \A c \in Batches : c \in Nat
  <2>1. b <= MaxBatches
    BY <1>1, <1>2 DEF BatchesInOrder
  <2> QED BY <1>3, <2>1, DiemConstants
<1>7. ~batch.flushed /\ ~batch.claimed
  BY <1>1, <1>2, <1>3, <1>6 DEF BatchesInOrder
<1> HIDE DEF b, next, batch
<1>8. /\ unstakeBatches' \in [Batches -> Batch] /\ unstakeBatches'[b] = next
      /\ \A c \in Batches : c # b => unstakeBatches'[c] = unstakeBatches[c]
  BY <1>1, <1>3, <1>5
<1>9. venice.amountStaked = totalStaked + batch.total
  BY PrincipalParts DEF b, batch
<1>10. venice' \in VeniceType
  BY <1>1, <1>2, <1>3, <1>4, <1>9 DEF VeniceType
<1>11. PrincipalType'
  BY <1>1, <1>2, <1>6, <1>8, <1>10 DEF PrincipalType
<1>12. BatchesInOrder'
  <2>1. ASSUME NEW c \in Batches
        PROVE  /\ unstakeBatches'[c].flushed <=> c < b + 1
               /\ unstakeBatches'[c].claimed <=> c < b
               /\ c > b + 1 => unstakeBatches'[c].total = 0
    <3>1. /\ unstakeBatches[c].flushed <=> c < b
          /\ unstakeBatches[c].claimed <=> c < b
          /\ c > b => unstakeBatches[c].total = 0
      BY <1>1, <1>2 DEF BatchesInOrder, b
    <3>2. CASE c = b
      BY <1>4, <1>5, <1>6, <1>7, <1>8, <3>2
    <3>3. CASE c # b
      BY <1>6, <1>8, <3>1, <3>3
    <3> QED BY <3>2, <3>3
  <2>2. unstakeBatches'[b + 1].total = 0
    BY <1>1, <1>2, <1>6, <1>8 DEF BatchesInOrder, b
  <2>3. oldestUnclaimedUnstakeBatch' = b
    BY <1>1 DEF b
  <2> QED BY <1>1, <1>6, <2>1, <2>2, <2>3 DEF BatchesInOrder
<1>13. ASSUME NEW v \in Stakers PROVE Conserved(v)'
  <2>1. QueuedIn(unstakeBatches', v) = QueuedIn(unstakeBatches, v)
    <3>1. \A c \in Batches : unstakeBatches'[c].amounts[v] = unstakeBatches[c].amounts[v]
      BY <1>5, <1>8 DEF batch
    <3> QED BY <3>1 DEF QueuedIn
  <2> QED BY <1>1, <2>1, PrincipalParts DEF Conserved
<1>14. venice'.amountStaked = totalStaked' + unstakeBatches'[currentUnstakeBatch'].total
  <2>1. unstakeBatches'[b + 1].total = 0
    BY <1>1, <1>2, <1>6, <1>8 DEF BatchesInOrder, b
  <2>2. venice'.amountStaked = venice.amountStaked - batch.total
    BY <1>1
  <2> QED BY <1>1, <1>3, <1>4, <1>9, <2>1, <2>2
<1>15. venice'.coolDownAmount = Sum(CoolingIn(unstakeBatches'), MaxBatches + 1)
  <2> DEFINE f == CoolingIn(unstakeBatches)
             g == CoolingIn(unstakeBatches')
  <2>1. f \in [Batches -> Nat] /\ g \in [Batches -> Nat]
    BY <1>3, <1>8, QueuedType
  <2>2. \A c \in Batches : c # b => g[c] = f[c]
    BY <1>8 DEF CoolingIn
  <2>3. f[b] = 0 /\ g[b] = batch.total
    BY <1>3, <1>5, <1>7, <1>8 DEF CoolingIn, batch
  <2> HIDE DEF f, g
  <2>4. /\ Sum(g, MaxBatches + 1) = Sum(f, MaxBatches + 1) + g[b] - f[b]
        /\ Sum(f, MaxBatches + 1) \in Nat
    BY <1>3, <2>1, <2>2, BatchSum
  <2>5. venice'.coolDownAmount = Sum(f, MaxBatches + 1) + batch.total
    BY <1>1, PrincipalParts DEF f
  <2>6. Sum(g, MaxBatches + 1) = Sum(f, MaxBatches + 1) + batch.total
    BY <1>4, <2>3, <2>4
  <2> QED BY <2>5, <2>6 DEF g
<1>16. ASSUME NEW c \in Batches PROVE BatchSound(unstakeBatches[c])'
  <2>1. BatchSound(unstakeBatches[c])
    BY PrincipalParts
  <2>2. CASE c = b
    <3>1. batch.total = Sum(batch.amounts, NumStakers)
      BY <1>7, <2>1, <2>2 DEF BatchSound, batch
    <3>2. venice'.coolDownIn = coolDown
      BY <1>1
    <3> QED BY <1>2, <1>5, <1>8, <2>2, <3>1, <3>2 DEF BatchSound
  <2>3. CASE c # b
    <3>1. (unstakeBatches[c].flushed => c < b) /\ (c < b => unstakeBatches[c].claimed)
      BY <1>1, <1>2 DEF BatchesInOrder, b
    <3> QED BY <1>8, <2>1, <2>3, <3>1 DEF BatchSound
  <2> QED BY <2>2, <2>3
<1>17. /\ totalStaked' = Sum(staked', NumStakers) /\ stakerCount' = Cardinality(Holders(staked'))
  BY <1>1, PrincipalParts
<1> QED BY <1>11, <1>12, <1>13, <1>14, <1>15, <1>16, <1>17, PrincipalWhole

(* The batch that cooled down is paid to its users, and nothing else was   *)
(* cooling down: Venice's one cooldown is empty afterwards.                *)
LEMMA ClaimPrincipal ==
  ASSUME PrincipalInv, NEW b \in Batches, claimUnstakeBatch(b)
  PROVE  PrincipalInv'
<1> DEFINE batch == unstakeBatches[b]
           amounts == [u \in Stakers |-> IF u \in batch.users THEN 0 ELSE batch.amounts[u]]
           next == [batch EXCEPT !.claimed = TRUE, !.amounts = amounts]
           oldest == oldestUnclaimedUnstakeBatch
           current == currentUnstakeBatch
<1>1. /\ batch.flushed /\ ~batch.claimed
      /\ oldest' = IF b = oldest THEN b + 1 ELSE oldest
      /\ venice' = [venice EXCEPT !.coolDownAmount = 0, !.coolDownIn = 0]
      /\ diem' = [u \in Stakers |-> diem[u] + IF u \in batch.users THEN batch.amounts[u] ELSE 0]
      /\ unstakeBatches' = [unstakeBatches EXCEPT ![b] = next]
      /\ UNCHANGED <<currentUnstakeBatch, staked, totalStaked, stakerCount, scenario>>
  BY DEF claimUnstakeBatch, isReady, stakeVars, settings
<1>2. PrincipalType /\ BatchesInOrder
  BY PrincipalParts
<1>3. /\ unstakeBatches \in [Batches -> Batch] /\ batch \in Batch
      /\ staked \in [Stakers -> Nat] /\ totalStaked \in Nat /\ venice \in VeniceType
      /\ diem \in [Stakers -> Nat] /\ current \in Batches /\ oldest \in Batches
  BY <1>2 DEF PrincipalType
<1>4. /\ batch.total \in Nat /\ batch.flushed \in BOOLEAN /\ batch.claimed \in BOOLEAN
      /\ batch.amounts \in [Stakers -> Nat] /\ batch.unlockIn \in Nat
  BY <1>3 DEF Batch
<1>5. amounts \in [Stakers -> Nat]
  BY <1>4
<1>6. /\ next \in Batch /\ next.total = batch.total /\ next.amounts = amounts
      /\ next.flushed = batch.flushed /\ next.claimed = TRUE
  <2> HIDE DEF amounts
  <2> QED BY <1>3, <1>5 DEF Batch
<1>7. /\ b = oldest /\ current = b + 1 /\ b \in Nat /\ oldest' = b + 1
      /\ \A c \in Batches : c \in Nat
  <2>1. b < current /\ ~(b < oldest)
    BY <1>1, <1>2 DEF BatchesInOrder
  <2>2. oldest <= current /\ current <= oldest + 1
    BY <1>2 DEF BatchesInOrder
  <2>3. b \in Nat /\ current \in Nat /\ oldest \in Nat /\ \A c \in Batches : c \in Nat
    BY <1>3, DiemConstants
  <2>4. b = oldest /\ current = b + 1
    BY <2>1, <2>2, <2>3
  <2> QED BY <1>1, <2>3, <2>4
<1>8. /\ venice' \in VeniceType /\ venice'.amountStaked = venice.amountStaked
      /\ venice'.coolDownAmount = 0 /\ venice'.coolDownIn = 0
  BY <1>1, <1>3 DEF VeniceType
<1> HIDE DEF next, batch
<1>9. /\ unstakeBatches' \in [Batches -> Batch] /\ unstakeBatches'[b] = next
      /\ \A c \in Batches : c # b => unstakeBatches'[c] = unstakeBatches[c]
  BY <1>1, <1>3, <1>6
<1>10. diem' \in [Stakers -> Nat]
  BY <1>1, <1>3, <1>4
<1>11. PrincipalType'
  <2>1. oldest' \in Batches
    BY <1>3, <1>7
  <2> QED BY <1>1, <1>2, <1>8, <1>9, <1>10, <2>1 DEF PrincipalType
<1>12. BatchesInOrder'
  <2>1. ASSUME NEW c \in Batches
        PROVE  /\ unstakeBatches'[c].flushed <=> c < b + 1
               /\ unstakeBatches'[c].claimed <=> c < b + 1
               /\ c > b + 1 => unstakeBatches'[c].total = 0
    <3>1. /\ unstakeBatches[c].flushed <=> c < b + 1
          /\ unstakeBatches[c].claimed <=> c < b
          /\ c > b + 1 => unstakeBatches[c].total = 0
      BY <1>2, <1>7 DEF BatchesInOrder
    <3>2. CASE c = b
      <4>1. c < b + 1 /\ ~(c > b + 1)
        BY <1>7, <3>2
      <4>2. unstakeBatches'[c].flushed /\ unstakeBatches'[c].claimed
        BY <1>1, <1>6, <1>9, <3>2
      <4> QED BY <4>1, <4>2
    <3>3. CASE c # b
      BY <1>7, <1>9, <3>1, <3>3
    <3> QED BY <3>2, <3>3
  <2>2. unstakeBatches'[current].total = unstakeBatches[current].total
    BY <1>3, <1>7, <1>9
  <2>3. unstakeBatches[current].total # 0 => current <= MaxBatches
    BY <1>2 DEF BatchesInOrder
  <2> QED BY <1>1, <1>7, <2>1, <2>2, <2>3 DEF BatchesInOrder
<1>13. ASSUME NEW v \in Stakers PROVE Conserved(v)'
  <2> DEFINE q == QueuedIn(unstakeBatches, v)
             r == QueuedIn(unstakeBatches', v)
             paid == IF v \in batch.users THEN batch.amounts[v] ELSE 0
  <2>1. q \in [Batches -> Nat] /\ r \in [Batches -> Nat]
    BY <1>3, <1>9, QueuedType
  <2>2. \A c \in Batches : c # b => r[c] = q[c]
    BY <1>9 DEF QueuedIn
  <2>3. q[b] = batch.amounts[v] /\ r[b] = amounts[v]
    BY <1>6, <1>9 DEF QueuedIn, batch
  <2>4. amounts[v] = batch.amounts[v] - paid /\ paid \in Nat /\ batch.amounts[v] \in Nat
    BY <1>4
  <2>5. diem'[v] = diem[v] + paid /\ diem[v] \in Nat /\ staked[v] \in Nat
    BY <1>1, <1>3
  <2>6. diem[v] + staked[v] + Sum(q, MaxBatches + 1) = Endowment[v]
    BY PrincipalParts DEF Conserved
  <2> HIDE DEF q, r, paid, amounts
  <2>7. /\ Sum(r, MaxBatches + 1) = Sum(q, MaxBatches + 1) + r[b] - q[b]
        /\ Sum(q, MaxBatches + 1) \in Nat
    BY <2>1, <2>2, BatchSum
  <2>8. Sum(r, MaxBatches + 1) = Sum(q, MaxBatches + 1) - paid
    BY <2>3, <2>4, <2>7
  <2>9. diem'[v] + staked[v] + Sum(r, MaxBatches + 1) = Endowment[v]
    BY <2>4, <2>5, <2>6, <2>7, <2>8
  <2> QED BY <1>1, <2>9 DEF Conserved, r
<1>14. venice'.amountStaked = totalStaked' + unstakeBatches'[currentUnstakeBatch'].total
  <2>1. unstakeBatches'[current] = unstakeBatches[current]
    BY <1>3, <1>7, <1>9
  <2> QED BY <1>1, <1>8, <2>1, PrincipalParts
<1>15. venice'.coolDownAmount = Sum(CoolingIn(unstakeBatches'), MaxBatches + 1)
  <2>1. ASSUME NEW c \in Batches PROVE CoolingIn(unstakeBatches')[c] = 0
    <3>1. unstakeBatches'[c].flushed <=> unstakeBatches'[c].claimed
      BY <1>1, <1>7, <1>12 DEF BatchesInOrder
    <3> QED BY <3>1 DEF CoolingIn
  <2>2. CoolingIn(unstakeBatches') = [c \in 1..(MaxBatches + 1) |-> 0]
    BY <2>1, DiemConstants DEF CoolingIn
  <2>3. Sum(CoolingIn(unstakeBatches'), MaxBatches + 1) = 0
    BY <2>2, SumZero, DiemConstants
  <2> QED BY <1>8, <2>3
<1>16. ASSUME NEW c \in Batches PROVE BatchSound(unstakeBatches[c])'
  <2>1. CASE c = b
    BY <1>6, <1>9, <2>1 DEF BatchSound
  <2>2. CASE c # b
    <3>1. unstakeBatches'[c].flushed <=> unstakeBatches'[c].claimed
      BY <1>1, <1>7, <1>12 DEF BatchesInOrder
    <3>2. BatchSound(unstakeBatches[c])
      BY PrincipalParts
    <3> QED BY <1>9, <2>2, <3>1, <3>2 DEF BatchSound
  <2> QED BY <2>1, <2>2
<1>17. /\ totalStaked' = Sum(staked', NumStakers) /\ stakerCount' = Cardinality(Holders(staked'))
  BY <1>1, PrincipalParts
<1> QED BY <1>11, <1>12, <1>13, <1>14, <1>15, <1>16, <1>17, PrincipalWhole

LEMMA TickPrincipal ==
  ASSUME PrincipalInv, Tick
  PROVE  PrincipalInv'
<1> DEFINE later(batch) == [batch EXCEPT !.unlockIn = Larger(batch.unlockIn - 1, 0)]
<1>1. /\ unstakeBatches' = [b \in Batches |-> later(unstakeBatches[b])]
      /\ venice' = [venice EXCEPT !.coolDownIn = Larger(venice.coolDownIn - 1, 0)]
      /\ UNCHANGED <<currentUnstakeBatch, oldestUnclaimedUnstakeBatch, staked, totalStaked,
                     stakerCount, diem, scenario>>
  BY DEF Tick, stakeVars, settings
<1>2. PrincipalType /\ BatchesInOrder
  BY PrincipalParts
<1>3. /\ unstakeBatches \in [Batches -> Batch] /\ venice \in VeniceType
      /\ currentUnstakeBatch \in Batches
  BY <1>2 DEF PrincipalType
<1>4. ASSUME NEW batch \in Batch
      PROVE  /\ later(batch) \in Batch /\ later(batch).total = batch.total
             /\ later(batch).amounts = batch.amounts /\ later(batch).flushed = batch.flushed
             /\ later(batch).claimed = batch.claimed /\ batch.unlockIn \in Nat
             /\ later(batch).unlockIn = Larger(batch.unlockIn - 1, 0)
  <2>1. batch.unlockIn \in Nat
    BY DEF Batch
  <2>2. Larger(batch.unlockIn - 1, 0) \in Nat
    BY <2>1 DEF Larger
  <2> QED BY <2>1, <2>2 DEF Batch
<1> HIDE DEF later
<1>5. ASSUME NEW b \in Batches
      PROVE  /\ unstakeBatches'[b] \in Batch
             /\ unstakeBatches'[b].total = unstakeBatches[b].total
             /\ unstakeBatches'[b].amounts = unstakeBatches[b].amounts
             /\ unstakeBatches'[b].flushed = unstakeBatches[b].flushed
             /\ unstakeBatches'[b].claimed = unstakeBatches[b].claimed
             /\ unstakeBatches[b].unlockIn \in Nat
             /\ unstakeBatches'[b].unlockIn = Larger(unstakeBatches[b].unlockIn - 1, 0)
  <2>1. unstakeBatches[b] \in Batch /\ unstakeBatches'[b] = later(unstakeBatches[b])
    BY <1>1, <1>3
  <2> QED BY <1>4, <2>1
<1>6. unstakeBatches' \in [Batches -> Batch]
  BY <1>1, <1>3, <1>4
<1>7. venice.coolDownIn \in Nat /\ Larger(venice.coolDownIn - 1, 0) \in Nat
  BY <1>3 DEF VeniceType, Larger
<1>8. /\ venice' \in VeniceType /\ venice'.amountStaked = venice.amountStaked
      /\ venice'.coolDownAmount = venice.coolDownAmount
      /\ venice'.coolDownIn = Larger(venice.coolDownIn - 1, 0)
  BY <1>1, <1>3, <1>7 DEF VeniceType
<1>9. PrincipalType'
  BY <1>1, <1>2, <1>6, <1>8 DEF PrincipalType
<1>10. BatchesInOrder'
  BY <1>1, <1>2, <1>3, <1>5 DEF BatchesInOrder
<1>11. ASSUME NEW v \in Stakers PROVE Conserved(v)'
  <2>1. QueuedIn(unstakeBatches', v) = QueuedIn(unstakeBatches, v)
    BY <1>5 DEF QueuedIn
  <2> QED BY <1>1, <2>1, PrincipalParts DEF Conserved
<1>12. venice'.amountStaked = totalStaked' + unstakeBatches'[currentUnstakeBatch'].total
  BY <1>1, <1>3, <1>5, <1>8, PrincipalParts
<1>13. venice'.coolDownAmount = Sum(CoolingIn(unstakeBatches'), MaxBatches + 1)
  <2>1. CoolingIn(unstakeBatches') = CoolingIn(unstakeBatches)
    BY <1>5 DEF CoolingIn
  <2> QED BY <1>8, <2>1, PrincipalParts
<1>14. ASSUME NEW b \in Batches PROVE BatchSound(unstakeBatches[b])'
  <2>1. BatchSound(unstakeBatches[b])
    BY PrincipalParts
  <2>2. venice.coolDownIn <= unstakeBatches[b].unlockIn =>
          venice'.coolDownIn <= unstakeBatches'[b].unlockIn
    BY <1>5, <1>7, <1>8 DEF Larger
  <2> QED BY <1>5, <2>1, <2>2 DEF BatchSound
<1>15. /\ totalStaked' = Sum(staked', NumStakers) /\ stakerCount' = Cardinality(Holders(staked'))
  BY <1>1, PrincipalParts
<1> QED BY <1>9, <1>10, <1>11, <1>12, <1>13, <1>14, <1>15, PrincipalWhole

(* The other calls leave the principal alone. *)
LEMMA OtherCalls ==
  ASSUME Next,
         ~ \E u \in Stakers, amount \in StakeAmounts : stake(u, amount) \/ initiateUnstake(u, amount),
         ~ \E coolDown \in CoolDowns : flush(coolDown),
         ~ \E b \in Batches : claimUnstakeBatch(b),
         ~ Tick
  PROVE  UNCHANGED principalVars
<1>1. ASSUME NEW u \in Stakers, claimUsdc(u) PROVE UNCHANGED principalVars
  BY <1>1 DEF claimUsdc, principalVars, batchVars, settings, diemVars
<1>2. ASSUME NEW u, NEW ids, NEW pots, claimAnts(u, ids, pots) PROVE UNCHANGED principalVars
  BY <1>2 DEF claimAnts, principalVars, batchVars, settings, diemVars
<1>3. ASSUME NEW n, syncRewardEpochs(n) PROVE UNCHANGED principalVars
  BY <1>3 DEF syncRewardEpochs, principalVars, batchVars, settings, diemVars
<1>4. ASSUME NEW u, NEW n, catchUpPoints(u, n) PROVE UNCHANGED principalVars
  BY <1>4 DEF catchUpPoints, principalVars, batchVars, settings, diemVars
<1>5. ASSUME NEW gross, PayoutKept(gross) \/ PayoutDistributed(gross)
      PROVE  UNCHANGED principalVars
  BY <1>5 DEF PayoutKept, PayoutDistributed, principalVars, batchVars, settings, diemVars
<1>6. ASSUME sweepOrphanUsdc \/ pause \/ (\E cap \in Caps : setMaxTotalStake(cap))
             \/ (\E secs \in OpenSecs : setMinUnstakeBatchOpenSecs(secs))
             \/ (\E bps \in OperatorFees : setOperatorFee(bps))
      PROVE  UNCHANGED principalVars
  BY <1>6 DEF sweepOrphanUsdc, pause, setMaxTotalStake, setMinUnstakeBatchOpenSecs,
              setOperatorFee, OwnerUnchanged, principalVars, batchVars, settings, diemVars
<1>7. ASSUME NextEpoch PROVE UNCHANGED principalVars
  BY <1>7 DEF NextEpoch, principalVars, batchVars, settings, diemVars
<1> QED BY <1>1, <1>2, <1>3, <1>4, <1>5, <1>6, <1>7 DEF Next

LEMMA PrincipalStep ==
  ASSUME PrincipalInv, [Next]_vars
  PROVE  PrincipalInv'
<1>1. CASE UNCHANGED vars
  BY <1>1, PrincipalFrame DEF vars, principalVars, batchVars, settings, diemVars
<1>2. CASE Next
  BY <1>2, StakePrincipal, UnstakePrincipal, FlushPrincipal, ClaimPrincipal, TickPrincipal,
     OtherCalls, PrincipalFrame
<1> QED BY <1>1, <1>2

LEMMA PrincipalCorrect == Spec => []PrincipalInv
BY PrincipalInit, PrincipalStep, PTL DEF Spec

(* No DIEM is lost between the proxy's books and Venice, for any number of *)
(* stakers and batches: wallets, stakes and queues add up, Venice holds    *)
(* the stake, the open batch and exactly what cools down, and a batch the  *)
(* proxy calls ready is ready there.                                       *)
THEOREM PrincipalBackedCorrect == Spec => []PrincipalBacked
<1>1. PrincipalInv => PrincipalBacked
  BY DEF PrincipalInv
<1> QED BY <1>1, PrincipalCorrect, PTL

(***************************************************************************)
(* USDC: what stakers are owed.                                            *)
(***************************************************************************)

(* What u has been paid, was credited, and its share of what has been      *)
(* distributed since, in units of 1 / RAY: the division of a credit rounds *)
(* down, so that a credit never adds to it.                                *)
Due(u) ==
  RAY * (usdcRewards[u] + usdcPaid[u])
    + staked[u] * (usdcRewardPerTokenStored - userUsdcRewardPerTokenPaid[u])

UsdcType ==
  /\ epoch \in firstRewardEpoch..MaxEpoch
  /\ operatorFeeBps \in OperatorFees
  /\ usdcRewardPerTokenStored \in Nat
  /\ totalUsdcReservedForStakers \in Nat /\ totalUsdcDistributedEver \in Nat
  /\ usdcBalance \in Nat /\ usdcPaid \in [Stakers -> Nat]
  /\ received \in Nat /\ revenue \in [Epochs -> Nat]
  /\ userUsdcRewardPerTokenPaid \in [Stakers -> Nat] /\ usdcRewards \in [Stakers -> Nat]

UsdcInv ==
  /\ UsdcType
  /\ \A u \in Stakers : userUsdcRewardPerTokenPaid[u] <= usdcRewardPerTokenStored
  /\ totalUsdcReservedForStakers <= usdcBalance
  /\ totalUsdcReservedForStakers + Sum(usdcPaid, NumStakers) = totalUsdcDistributedEver
  /\ Sum([u \in Stakers |-> Due(u)], NumStakers) <= RAY * Sum(revenue, MaxEpoch)


(* Division by RAY, and by the stake. *)
LEMMA DivisionDown ==
  ASSUME NEW a \in Nat, NEW d \in Nat \ {0}
  PROVE  a \div d \in Nat /\ d * (a \div d) <= a /\ (a \div d) * d <= a
OBVIOUS

LEMMA DivisionMonotone ==
  ASSUME NEW a \in Nat, NEW c \in Nat, NEW d \in Nat \ {0}, a <= c
  PROVE  a \div d <= c \div d
OBVIOUS

LEMMA TimesMonotone ==
  ASSUME NEW a \in Nat, NEW c \in Nat, NEW d \in Nat, a <= c
  PROVE  d * a <= d * c
OBVIOUS

LEMMA TimesCancels ==
  ASSUME NEW a \in Int, NEW c \in Int, NEW d \in Nat \ {0}, d * a <= d * c
  PROVE  a <= c
OBVIOUS

LEMMA TimesNat ==
  ASSUME NEW a \in Nat, NEW c \in Nat
  PROVE  a * c \in Nat
OBVIOUS

LEMMA UsdcConstants ==
  /\ RAY \in Nat /\ RAY \in Nat \ {0} /\ Payouts \subseteq Nat /\ BPS = 10000
  /\ \A bps \in OperatorFees : bps \in 0..10000
  /\ MaxEpoch \in Nat /\ firstRewardEpoch \in 1..MaxEpoch
<1>1. OperatorFees \subseteq 0..BPS
  BY DiemAssumption
<1>2. \A bps \in OperatorFees : bps \in 0..10000
  BY <1>1 DEF BPS
<1>3. /\ RAY \in Nat \ {0} /\ Payouts \subseteq Nat
      /\ MaxEpoch \in Nat /\ firstRewardEpoch \in 1..MaxEpoch
  BY DiemAssumption
<1> QED BY <1>2, <1>3 DEF BPS

(* The fee is part of the payout. *)
LEMMA NetOfFeeNat ==
  ASSUME operatorFeeBps \in OperatorFees, NEW gross \in Nat
  PROVE  NetOfFee(gross) \in Nat
<1>1. gross \in Nat /\ operatorFeeBps \in 0..10000
  BY UsdcConstants
<1>2. gross * operatorFeeBps <= gross * 10000 /\ gross * operatorFeeBps \in Nat
  BY <1>1, TimesMonotone, TimesNat
<1> DEFINE product == gross * operatorFeeBps
<1> HIDE DEF product
<1>3. product \in Nat /\ product <= gross * 10000
  BY <1>2 DEF product
<1>4. product \div 10000 \in Nat /\ product \div 10000 <= gross
  BY <1>1, <1>3
<1>5. NetOfFee(gross) = gross - product \div 10000
  BY UsdcConstants DEF NetOfFee, product
<1> QED BY <1>1, <1>4, <1>5

(* The steps, by what they do to what stakers are owed.  A credit moves    *)
(* the share of one staker to its account and may change its stake.        *)
Credit(u) ==
  /\ userUsdcRewardPerTokenPaid' = [userUsdcRewardPerTokenPaid EXCEPT ![u] = usdcRewardPerTokenStored]
  /\ usdcRewards' = credited(u)
  /\ \A v \in Stakers : v # u => staked'[v] = staked[v]
  /\ UNCHANGED <<poolVars, epoch, operatorFeeBps>>

usdcVars == <<poolVars, usdcUserVars, epoch, operatorFeeBps, staked>>

LEMMA UsdcSteps ==
  ASSUME Next, PrincipalType
  PROVE  \/ \E u \in Stakers : Credit(u) \/ claimUsdc(u)
         \/ \E gross \in Payouts : PayoutKept(gross) \/ PayoutDistributed(gross)
         \/ sweepOrphanUsdc
         \/ \E bps \in OperatorFees : setOperatorFee(bps)
         \/ NextEpoch
         \/ UNCHANGED usdcVars
<1>1. ASSUME NEW u \in Stakers, NEW amount \in StakeAmounts, stake(u, amount) PROVE Credit(u)
  <2>1. staked' = [staked EXCEPT ![u] = staked[u] + amount] /\ staked \in [Stakers -> Nat]
    BY <1>1 DEF stake, PrincipalType
  <2> QED BY <1>1, <2>1 DEF stake, UpdateRewards, Credit, settings
<1>2. ASSUME NEW u \in Stakers, NEW amount \in StakeAmounts, initiateUnstake(u, amount)
      PROVE  Credit(u)
  <2>1. staked' = [staked EXCEPT ![u] = staked[u] - amount] /\ staked \in [Stakers -> Nat]
    BY <1>2 DEF initiateUnstake, PrincipalType
  <2> QED BY <1>2, <2>1 DEF initiateUnstake, UpdateRewards, Credit, settings
<1>3. ASSUME NEW coolDown \in CoolDowns, flush(coolDown) PROVE UNCHANGED usdcVars
  BY <1>3 DEF flush, usdcVars, stakeVars, settings
<1>4. ASSUME NEW b \in Batches, claimUnstakeBatch(b) PROVE UNCHANGED usdcVars
  BY <1>4 DEF claimUnstakeBatch, usdcVars, stakeVars, settings
<1>5. ASSUME NEW u \in Stakers, NEW ids, NEW pots, claimAnts(u, ids, pots) PROVE Credit(u)
  BY <1>5 DEF claimAnts, Credit, stakeVars, settings
<1>6. ASSUME NEW n, syncRewardEpochs(n) PROVE UNCHANGED usdcVars
  BY <1>6 DEF syncRewardEpochs, usdcVars, stakeVars, settings
<1>7. ASSUME NEW u \in Stakers, NEW n, catchUpPoints(u, n) PROVE Credit(u)
  BY <1>7 DEF catchUpPoints, Credit, stakeVars, settings
<1>8. ASSUME pause \/ (\E cap \in Caps : setMaxTotalStake(cap))
             \/ (\E secs \in OpenSecs : setMinUnstakeBatchOpenSecs(secs))
      PROVE  UNCHANGED usdcVars
  BY <1>8 DEF pause, setMaxTotalStake, setMinUnstakeBatchOpenSecs, OwnerUnchanged, usdcVars,
              stakeVars, poolVars
<1>9. ASSUME Tick PROVE UNCHANGED usdcVars
  BY <1>9 DEF Tick, usdcVars, stakeVars, settings
<1> QED BY <1>1, <1>2, <1>3, <1>4, <1>5, <1>6, <1>7, <1>8, <1>9 DEF Next

(* What a staker can claim is within its due. *)
LEMMA EarnedBound ==
  ASSUME PrincipalType, UsdcInv, NEW u \in Stakers
  PROVE  LET share == staked[u] * (usdcRewardPerTokenStored - userUsdcRewardPerTokenPaid[u])
         IN  /\ share \in Nat /\ share \div RAY \in Nat /\ Earned(u) = usdcRewards[u] + share \div RAY
             /\ Earned(u) \in Nat /\ usdcRewards[u] \in Nat /\ usdcPaid[u] \in Nat
             /\ Due(u) \in Nat
             /\ RAY * (Earned(u) + usdcPaid[u]) <= Due(u)
<1> DEFINE delta == usdcRewardPerTokenStored - userUsdcRewardPerTokenPaid[u]
           share == staked[u] * delta
           x == usdcRewards[u]
           y == usdcPaid[u]
           q == share \div RAY
<1>1. staked[u] \in Nat /\ x \in Nat /\ y \in Nat /\ delta \in Nat
  BY DEF PrincipalType, UsdcInv, UsdcType
<1> HIDE DEF delta, x, y
<1>2. share \in Nat
  BY <1>1, TimesNat
<1>3. Earned(u) = x + q /\ Due(u) = RAY * (x + y) + share
  BY DEF Earned, Due, x, y, delta
<1> HIDE DEF share
<1>4. q \in Nat /\ RAY * q <= share
  BY <1>2, DivisionDown, UsdcConstants
<1> HIDE DEF q
<1>5. RAY * ((x + q) + y) = RAY * (x + y) + RAY * q
  BY <1>1, <1>4, UsdcConstants
<1>6. RAY * (x + y) \in Nat /\ RAY * q \in Nat
  BY <1>1, <1>4, TimesNat, UsdcConstants
<1>7. RAY * ((x + q) + y) <= RAY * (x + y) + share /\ RAY * (x + y) + share \in Nat
  BY <1>2, <1>4, <1>5, <1>6
<1> QED BY <1>1, <1>2, <1>3, <1>4, <1>7 DEF share, delta, x, y, q

(* The dues of all stakers, and the revenue, as sums. *)
Dues == [u \in Stakers |-> Due(u)]

LEMMA DuesType ==
  ASSUME PrincipalType, UsdcInv
  PROVE  Dues \in [Stakers -> Nat]
BY EarnedBound DEF Dues

LEMMA StakerSumNat ==
  ASSUME NEW f \in [Stakers -> Nat]
  PROVE  Sum(f, NumStakers) \in Nat
BY SumNat, DiemConstants

LEMMA StakerSumMonotone ==
  ASSUME NEW f \in [Stakers -> Nat], NEW g \in [Stakers -> Nat], \A u \in Stakers : f[u] <= g[u]
  PROVE  Sum(f, NumStakers) <= Sum(g, NumStakers)
<1>1. /\ f \in [1..NumStakers -> Int] /\ g \in [1..NumStakers -> Int] /\ NumStakers \in Nat
      /\ \A u \in 1..NumStakers : f[u] <= g[u]
  BY DiemConstants DEF Stakers
<1> QED BY <1>1, SumMonotone

LEMMA StakerSumLinear ==
  ASSUME NEW f \in [Stakers -> Nat], NEW g \in [Stakers -> Nat], NEW h \in [Stakers -> Nat],
         NEW a \in Nat, \A u \in Stakers : h[u] = f[u] + a * g[u]
  PROVE  Sum(h, NumStakers) = Sum(f, NumStakers) + a * Sum(g, NumStakers)
<1>1. /\ f \in [1..NumStakers -> Int] /\ g \in [1..NumStakers -> Int]
      /\ h \in [1..NumStakers -> Int] /\ NumStakers \in Nat /\ a \in Int
      /\ \A u \in 1..NumStakers : h[u] = f[u] + a * g[u]
  BY DiemConstants DEF Stakers
<1> QED BY <1>1, SumLinear

(* The revenue of an epoch adds to the total. *)
LEMMA RevenueSum ==
  ASSUME NEW f \in [Epochs -> Nat], NEW e \in 1..MaxEpoch, NEW x \in Nat
  PROVE  /\ Sum(f, MaxEpoch) \in Nat
         /\ Sum([f EXCEPT ![e] = f[e] + x], MaxEpoch) = Sum(f, MaxEpoch) + x
<1> DEFINE g == [f EXCEPT ![e] = f[e] + x]
           f1 == [n \in 1..MaxEpoch |-> f[n]]
           g1 == [n \in 1..MaxEpoch |-> g[n]]
<1>1. MaxEpoch \in Nat /\ Epochs = 0..MaxEpoch
  BY UsdcConstants DEF Epochs
<1>2. f1 \in [1..MaxEpoch -> Nat] /\ f1 \in [1..MaxEpoch -> Int] /\ g1 \in [1..MaxEpoch -> Int]
  BY <1>1
<1>3. g1[e] = f1[e] + x /\ f1[e] \in Nat /\ \A n \in 1..MaxEpoch : n # e => g1[n] = f1[n]
  BY <1>1
<1>4. (\A n \in 1..MaxEpoch : f[n] = f1[n]) /\ (\A n \in 1..MaxEpoch : g[n] = g1[n])
  OBVIOUS
<1> HIDE DEF g, f1, g1
<1>5. Sum(f, MaxEpoch) = Sum(f1, MaxEpoch) /\ Sum(g, MaxEpoch) = Sum(g1, MaxEpoch)
  BY <1>1, <1>4, SumSame
<1>6. Sum(f1, MaxEpoch) \in Nat
  BY <1>1, <1>2, SumNat
<1>7. Sum(g1, MaxEpoch) = Sum(f1, MaxEpoch) + g1[e] - f1[e]
  BY <1>1, <1>2, <1>3, SumUpdate
<1> QED BY <1>3, <1>5, <1>6, <1>7 DEF g

(* A credit adds nothing to the dues. *)
LEMMA CreditUsdc ==
  ASSUME PrincipalType, PrincipalType', UsdcInv, NEW u \in Stakers, Credit(u)
  PROVE  UsdcInv'
<1>1. /\ userUsdcRewardPerTokenPaid' =
           [userUsdcRewardPerTokenPaid EXCEPT ![u] = usdcRewardPerTokenStored]
      /\ usdcRewards' = [usdcRewards EXCEPT ![u] = Earned(u)]
      /\ \A v \in Stakers : v # u => staked'[v] = staked[v]
      /\ UNCHANGED <<usdcRewardPerTokenStored, totalUsdcReservedForStakers,
                     totalUsdcDistributedEver, usdcBalance, usdcPaid, received, revenue, epoch,
                     operatorFeeBps>>
  BY DEF Credit, credited, poolVars
<1>2. UsdcType /\ Earned(u) \in Nat /\ staked' \in [Stakers -> Nat]
  BY EarnedBound DEF UsdcInv, PrincipalType
<1>3. UsdcType'
  BY <1>1, <1>2 DEF UsdcType
<1>4. ASSUME NEW v \in Stakers
      PROVE  userUsdcRewardPerTokenPaid'[v] <= usdcRewardPerTokenStored'
  BY <1>1, <1>2 DEF UsdcInv, UsdcType
<1>5. ASSUME NEW v \in Stakers PROVE Due(v)' \in Nat /\ Due(v)' <= Due(v)
  <2>1. Due(v) \in Nat /\ RAY * (Earned(v) + usdcPaid[v]) <= Due(v)
    BY EarnedBound
  <2>2. CASE v = u
    <3>1. /\ userUsdcRewardPerTokenPaid'[v] = usdcRewardPerTokenStored
          /\ usdcRewards'[v] = Earned(v) /\ usdcPaid'[v] = usdcPaid[v]
          /\ usdcRewardPerTokenStored' = usdcRewardPerTokenStored
      BY <1>1, <1>2, <2>2 DEF UsdcType
    <3>2. staked'[v] \in Nat /\ usdcRewardPerTokenStored \in Nat /\ usdcPaid[v] \in Nat
      BY <1>2 DEF UsdcType
    <3>3. staked'[v] * (usdcRewardPerTokenStored - usdcRewardPerTokenStored) = 0
      BY <3>2
    <3>4. Due(v)' = RAY * (Earned(v) + usdcPaid[v]) + 0
      BY <3>1, <3>3 DEF Due
    <3>5. RAY * (Earned(v) + usdcPaid[v]) \in Nat
      BY <1>2, <2>2, <3>2, TimesNat, UsdcConstants
    <3> QED BY <2>1, <3>4, <3>5
  <2>3. CASE v # u
    <3>1. /\ userUsdcRewardPerTokenPaid'[v] = userUsdcRewardPerTokenPaid[v]
          /\ usdcRewards'[v] = usdcRewards[v] /\ usdcPaid' = usdcPaid
          /\ usdcRewardPerTokenStored' = usdcRewardPerTokenStored /\ staked'[v] = staked[v]
      BY <1>1, <1>2, <2>3 DEF UsdcType
    <3>2. Due(v)' = Due(v)
      BY <3>1 DEF Due
    <3> QED BY <2>1, <3>2
  <2> QED BY <2>2, <2>3
<1>6. Dues \in [Stakers -> Nat] /\ Dues' \in [Stakers -> Nat] /\ \A v \in Stakers : Dues'[v] <= Dues[v]
  BY <1>5, DuesType DEF Dues
<1>7. Sum(Dues', NumStakers) <= RAY * Sum(revenue', MaxEpoch)
  <2>1. Sum(Dues', NumStakers) <= Sum(Dues, NumStakers)
    BY <1>6, StakerSumMonotone
  <2>2. Sum(Dues', NumStakers) \in Nat /\ Sum(Dues, NumStakers) \in Nat
    BY <1>6, StakerSumNat
  <2>3. Sum(Dues, NumStakers) <= RAY * Sum(revenue, MaxEpoch)
    BY DEF UsdcInv, Dues
  <2>4. Sum(revenue, MaxEpoch) \in Nat
    BY <1>2, RevenueSum, UsdcConstants DEF UsdcType
  <2>5. RAY * Sum(revenue, MaxEpoch) \in Nat
    BY <2>4, TimesNat, UsdcConstants
  <2> QED BY <1>1, <2>1, <2>2, <2>3, <2>5
<1>8. /\ totalUsdcReservedForStakers' <= usdcBalance'
      /\ totalUsdcReservedForStakers' + Sum(usdcPaid', NumStakers) = totalUsdcDistributedEver'
  BY <1>1 DEF UsdcInv
<1> QED BY <1>3, <1>4, <1>7, <1>8 DEF UsdcInv, Dues

(* A claim pays what a credit would add to the account. *)
LEMMA ClaimUsdcStep ==
  ASSUME PrincipalType, UsdcInv, NEW u \in Stakers, claimUsdc(u)
  PROVE  UsdcInv'
<1>1. /\ Earned(u) <= totalUsdcReservedForStakers /\ Earned(u) <= usdcBalance
      /\ userUsdcRewardPerTokenPaid' =
           [userUsdcRewardPerTokenPaid EXCEPT ![u] = usdcRewardPerTokenStored]
      /\ usdcRewards' = [usdcRewards EXCEPT ![u] = 0]
      /\ totalUsdcReservedForStakers' = totalUsdcReservedForStakers - Earned(u)
      /\ usdcBalance' = usdcBalance - Earned(u)
      /\ usdcPaid' = [usdcPaid EXCEPT ![u] = usdcPaid[u] + Earned(u)]
      /\ UNCHANGED <<staked, usdcRewardPerTokenStored, totalUsdcDistributedEver, received,
                     revenue, epoch, operatorFeeBps>>
  BY DEF claimUsdc, UpdateRewards, stakeVars, settings
<1>2. UsdcType /\ Earned(u) \in Nat /\ staked \in [Stakers -> Nat] /\ usdcPaid[u] \in Nat
  BY EarnedBound DEF UsdcInv, PrincipalType
<1>3. UsdcType'
  BY <1>1, <1>2 DEF UsdcType
<1>4. ASSUME NEW v \in Stakers
      PROVE  userUsdcRewardPerTokenPaid'[v] <= usdcRewardPerTokenStored'
  BY <1>1, <1>2 DEF UsdcInv, UsdcType
<1>5. ASSUME NEW v \in Stakers PROVE Due(v)' \in Nat /\ Due(v)' <= Due(v)
  <2>1. Due(v) \in Nat /\ RAY * (Earned(v) + usdcPaid[v]) <= Due(v)
    BY EarnedBound
  <2>2. CASE v = u
    <3>1. /\ userUsdcRewardPerTokenPaid'[v] = usdcRewardPerTokenStored
          /\ usdcRewards'[v] = 0 /\ usdcPaid'[v] = usdcPaid[v] + Earned(v)
          /\ usdcRewardPerTokenStored' = usdcRewardPerTokenStored /\ staked' = staked
      BY <1>1, <1>2, <2>2 DEF UsdcType
    <3>2. staked[v] \in Nat /\ usdcRewardPerTokenStored \in Nat /\ usdcPaid[v] \in Nat
      BY <1>2 DEF UsdcType
    <3>3. staked[v] * (usdcRewardPerTokenStored - usdcRewardPerTokenStored) = 0
      BY <3>2
    <3>4. 0 + (usdcPaid[v] + Earned(v)) = Earned(v) + usdcPaid[v]
      BY <1>2, <2>2, <3>2
    <3>5. Due(v)' = RAY * (Earned(v) + usdcPaid[v]) + 0
      BY <3>1, <3>3, <3>4 DEF Due
    <3>6. RAY * (Earned(v) + usdcPaid[v]) \in Nat
      BY <1>2, <2>2, <3>2, TimesNat, UsdcConstants
    <3> QED BY <2>1, <3>5, <3>6
  <2>3. CASE v # u
    <3>1. /\ userUsdcRewardPerTokenPaid'[v] = userUsdcRewardPerTokenPaid[v]
          /\ usdcRewards'[v] = usdcRewards[v] /\ usdcPaid'[v] = usdcPaid[v]
          /\ usdcRewardPerTokenStored' = usdcRewardPerTokenStored /\ staked' = staked
      BY <1>1, <1>2, <2>3 DEF UsdcType
    <3>2. Due(v)' = Due(v)
      BY <3>1 DEF Due
    <3> QED BY <2>1, <3>2
  <2> QED BY <2>2, <2>3
<1>6. Dues \in [Stakers -> Nat] /\ Dues' \in [Stakers -> Nat] /\ \A v \in Stakers : Dues'[v] <= Dues[v]
  BY <1>5, DuesType DEF Dues
<1>7. Sum(Dues', NumStakers) <= RAY * Sum(revenue', MaxEpoch)
  <2>1. Sum(Dues', NumStakers) <= Sum(Dues, NumStakers)
    BY <1>6, StakerSumMonotone
  <2>2. Sum(Dues', NumStakers) \in Nat /\ Sum(Dues, NumStakers) \in Nat
    BY <1>6, StakerSumNat
  <2>3. Sum(Dues, NumStakers) <= RAY * Sum(revenue, MaxEpoch)
    BY DEF UsdcInv, Dues
  <2>4. Sum(revenue, MaxEpoch) \in Nat
    BY <1>2, RevenueSum, UsdcConstants DEF UsdcType
  <2>5. RAY * Sum(revenue, MaxEpoch) \in Nat
    BY <2>4, TimesNat, UsdcConstants
  <2> QED BY <1>1, <2>1, <2>2, <2>3, <2>5
<1>8. totalUsdcReservedForStakers' <= usdcBalance'
  BY <1>1, <1>2 DEF UsdcInv, UsdcType
<1>9. totalUsdcReservedForStakers' + Sum(usdcPaid', NumStakers) = totalUsdcDistributedEver'
  <2>1. /\ usdcPaid \in [Stakers -> Nat] /\ usdcPaid' \in [Stakers -> Nat]
        /\ usdcPaid'[u] = usdcPaid[u] + Earned(u)
        /\ \A v \in Stakers : v # u => usdcPaid'[v] = usdcPaid[v]
    BY <1>1, <1>2, <1>3 DEF UsdcType
  <2>2. /\ Sum(usdcPaid', NumStakers) = Sum(usdcPaid, NumStakers) + usdcPaid'[u] - usdcPaid[u]
        /\ Sum(usdcPaid, NumStakers) \in Nat
    BY <2>1, StakerSum
  <2>3. /\ totalUsdcReservedForStakers \in Nat
        /\ totalUsdcReservedForStakers + Sum(usdcPaid, NumStakers) = totalUsdcDistributedEver
    BY <1>2 DEF UsdcInv, UsdcType
  <2> QED BY <1>1, <1>2, <2>1, <2>2, <2>3
<1> QED BY <1>3, <1>4, <1>7, <1>8, <1>9 DEF UsdcInv, Dues

(* What is owed is a matter of these variables alone. *)
LEMMA UsdcSame ==
  ASSUME UsdcInv, UsdcType', totalUsdcReservedForStakers <= usdcBalance',
         UNCHANGED <<staked, usdcRewardPerTokenStored, userUsdcRewardPerTokenPaid, usdcRewards,
                     usdcPaid, totalUsdcReservedForStakers, totalUsdcDistributedEver, revenue>>
  PROVE  UsdcInv'
BY DEF UsdcInv, Due

(* The steps that distribute nothing. *)
LEMMA OtherUsdc ==
  ASSUME PrincipalType, UsdcInv,
         \/ \E gross \in Payouts : PayoutKept(gross)
         \/ sweepOrphanUsdc
         \/ \E bps \in OperatorFees : setOperatorFee(bps)
         \/ NextEpoch
         \/ UNCHANGED usdcVars
  PROVE  UsdcInv'
<1>1. UsdcType /\ totalUsdcReservedForStakers <= usdcBalance
  BY DEF UsdcInv
<1>2. ASSUME NEW gross \in Payouts, PayoutKept(gross) PROVE UsdcInv'
  <2>1. /\ usdcBalance' = usdcBalance + NetOfFee(gross) /\ received' = received + NetOfFee(gross)
        /\ UNCHANGED <<staked, usdcRewardPerTokenStored, userUsdcRewardPerTokenPaid, usdcRewards,
             usdcPaid, totalUsdcReservedForStakers, totalUsdcDistributedEver, revenue, epoch,
             operatorFeeBps>>
    BY <1>2 DEF PayoutKept, stakeVars, usdcUserVars, settings
  <2>2. NetOfFee(gross) \in Nat
    BY <1>1, NetOfFeeNat, UsdcConstants DEF UsdcType
  <2>3. usdcBalance \in Nat /\ received \in Nat /\ totalUsdcReservedForStakers \in Nat
    BY <1>1 DEF UsdcType
  <2>4. usdcBalance' \in Nat /\ received' \in Nat /\ totalUsdcReservedForStakers <= usdcBalance'
    BY <1>1, <2>1, <2>2, <2>3
  <2>5. UsdcType'
    BY <1>1, <2>1, <2>4 DEF UsdcType
  <2> QED BY <2>1, <2>4, <2>5, UsdcSame
<1>3. CASE sweepOrphanUsdc
  <2>1. /\ usdcBalance' = totalUsdcReservedForStakers
        /\ UNCHANGED <<staked, usdcRewardPerTokenStored, userUsdcRewardPerTokenPaid, usdcRewards,
             usdcPaid, totalUsdcReservedForStakers, totalUsdcDistributedEver, revenue, epoch,
             operatorFeeBps, received>>
    BY <1>3 DEF sweepOrphanUsdc, OwnerUnchanged, stakeVars, usdcUserVars, settings
  <2>2. UsdcType' /\ totalUsdcReservedForStakers <= usdcBalance'
    BY <1>1, <2>1 DEF UsdcType
  <2> QED BY <2>1, <2>2, UsdcSame
<1>4. ASSUME NEW bps \in OperatorFees, setOperatorFee(bps) PROVE UsdcInv'
  <2>1. /\ operatorFeeBps' = bps
        /\ UNCHANGED <<staked, usdcRewardPerTokenStored, userUsdcRewardPerTokenPaid, usdcRewards,
             usdcPaid, totalUsdcReservedForStakers, totalUsdcDistributedEver, revenue, epoch,
             usdcBalance, received>>
    BY <1>4 DEF setOperatorFee, OwnerUnchanged, stakeVars, usdcUserVars, settings
  <2>2. UsdcType' /\ totalUsdcReservedForStakers <= usdcBalance'
    BY <1>1, <2>1 DEF UsdcType
  <2> QED BY <2>1, <2>2, UsdcSame
<1>5. CASE NextEpoch
  <2>1. /\ epoch < scenario.epochs /\ epoch' = epoch + 1
        /\ UNCHANGED <<staked, usdcRewardPerTokenStored, userUsdcRewardPerTokenPaid, usdcRewards,
             usdcPaid, totalUsdcReservedForStakers, totalUsdcDistributedEver, revenue,
             operatorFeeBps, usdcBalance, received>>
    BY <1>5 DEF NextEpoch, poolVars, stakeVars, usdcUserVars, settings
  <2>2. scenario \in Scenario
    BY DiemAssumption DEF PrincipalType
  <2>3. scenario.epochs \in 0..MaxEpoch
    BY <2>2 DEF Scenario, Epochs
  <2>4. epoch' \in firstRewardEpoch..MaxEpoch
    BY <1>1, <2>1, <2>3, UsdcConstants DEF UsdcType
  <2>5. UsdcType' /\ totalUsdcReservedForStakers <= usdcBalance'
    BY <1>1, <2>1, <2>4 DEF UsdcType
  <2> QED BY <2>1, <2>5, UsdcSame
<1>6. CASE UNCHANGED usdcVars
  <2>1. UNCHANGED <<staked, usdcRewardPerTokenStored, userUsdcRewardPerTokenPaid, usdcRewards,
             usdcPaid, totalUsdcReservedForStakers, totalUsdcDistributedEver, revenue, epoch,
             operatorFeeBps, usdcBalance, received>>
    BY <1>6 DEF usdcVars, poolVars, usdcUserVars
  <2>2. UsdcType' /\ totalUsdcReservedForStakers <= usdcBalance'
    BY <1>1, <2>1 DEF UsdcType
  <2> QED BY <2>1, <2>2, UsdcSame
<1> QED BY <1>2, <1>3, <1>4, <1>5, <1>6

(* The share per unit of stake, and what is booked as distributed.         *)
Delta(gross) == (netPayout(gross) * RAY) \div totalStaked
Distributable(gross) == (Delta(gross) * totalStaked) \div RAY

LEMMA Distribution ==
  ASSUME PrincipalType, operatorFeeBps \in OperatorFees, NEW gross \in Payouts, totalStaked > 0
  PROVE  /\ netPayout(gross) \in Nat /\ Delta(gross) \in Nat /\ Distributable(gross) \in Nat
         /\ Delta(gross) * totalStaked <= RAY * netPayout(gross)
         /\ Distributable(gross) <= netPayout(gross)
<1> DEFINE amount == netPayout(gross)
           total == amount * RAY
           delta == total \div totalStaked
           spread == delta * totalStaked
           part == spread \div RAY
<1>1. amount \in Nat
  BY NetOfFeeNat, UsdcConstants DEF netPayout
<1>2. totalStaked \in Nat \ {0}
  BY DEF PrincipalType
<1>3. Delta(gross) = delta /\ Distributable(gross) = part
  BY DEF Delta, Distributable
<1> HIDE DEF amount
<1>4. total \in Nat /\ total = RAY * amount
  BY <1>1, TimesNat, UsdcConstants
<1> HIDE DEF total
<1>5. delta \in Nat /\ spread <= total
  BY <1>2, <1>4, DivisionDown
<1> HIDE DEF delta
<1>6. spread \in Nat
  BY <1>2, <1>5, TimesNat
<1>7. spread <= RAY * amount
  BY <1>4, <1>5
<1> HIDE DEF spread
<1>8. part \in Nat /\ RAY * part <= spread
  BY <1>6, DivisionDown, UsdcConstants
<1> HIDE DEF part
<1>9. RAY * part <= RAY * amount
  <2>1. RAY * part \in Nat /\ RAY * amount \in Nat
    BY <1>1, <1>8, TimesNat, UsdcConstants
  <2> QED BY <1>6, <1>7, <1>8, <2>1
<1>10. part <= amount
  BY <1>1, <1>8, <1>9, TimesCancels, UsdcConstants
<1> QED BY <1>1, <1>3, <1>5, <1>7, <1>8, <1>10 DEF amount, spread

(* A payout adds its share to everybody's due.                             *)
LEMMA DistributeUsdc ==
  ASSUME PrincipalInv, UsdcInv, NEW gross \in Payouts, PayoutDistributed(gross)
  PROVE  UsdcInv'
<1> DEFINE amount == netPayout(gross)
           delta == Delta(gross)
           part == Distributable(gross)
<1>1. /\ totalStaked > 0
      /\ usdcRewardPerTokenStored' = usdcRewardPerTokenStored + delta
      /\ totalUsdcReservedForStakers' = totalUsdcReservedForStakers + part
      /\ totalUsdcDistributedEver' = totalUsdcDistributedEver + part
      /\ usdcBalance' = usdcBalance + amount
      /\ received' = received + amount
      /\ revenue' = [revenue EXCEPT ![epoch] = revenue[epoch] + amount]
      /\ UNCHANGED <<staked, usdcPaid, userUsdcRewardPerTokenPaid, usdcRewards, epoch,
                     operatorFeeBps>>
  BY DEF PayoutDistributed, Delta, Distributable, netPayout, stakeVars, settings, usdcUserVars
<1>2. PrincipalType /\ UsdcType /\ totalStaked = Sum(staked, NumStakers)
  BY PrincipalParts DEF UsdcInv
<1>3. /\ amount \in Nat /\ delta \in Nat /\ part \in Nat
      /\ delta * totalStaked <= RAY * amount /\ part <= amount
  BY <1>1, <1>2, Distribution DEF UsdcType
<1> HIDE DEF amount, delta, part
<1>4. /\ usdcRewardPerTokenStored \in Nat /\ totalUsdcReservedForStakers \in Nat
      /\ totalUsdcDistributedEver \in Nat /\ usdcBalance \in Nat /\ received \in Nat
      /\ revenue \in [Epochs -> Nat] /\ epoch \in 1..MaxEpoch /\ epoch \in Epochs
      /\ staked \in [Stakers -> Nat] /\ totalStaked \in Nat
  BY <1>2, UsdcConstants DEF UsdcType, PrincipalType, Epochs
<1>5. UsdcType'
  <2>1. revenue[epoch] + amount \in Nat
    BY <1>3, <1>4
  <2>2. revenue' \in [Epochs -> Nat]
    BY <1>1, <1>4, <2>1
  <2>3. /\ usdcRewardPerTokenStored' \in Nat /\ totalUsdcReservedForStakers' \in Nat
        /\ totalUsdcDistributedEver' \in Nat /\ usdcBalance' \in Nat /\ received' \in Nat
    BY <1>1, <1>3, <1>4
  <2> QED BY <1>1, <1>2, <2>2, <2>3 DEF UsdcType
<1>6. ASSUME NEW v \in Stakers
      PROVE  userUsdcRewardPerTokenPaid'[v] <= usdcRewardPerTokenStored'
  <2>1. /\ userUsdcRewardPerTokenPaid[v] <= usdcRewardPerTokenStored
        /\ userUsdcRewardPerTokenPaid[v] \in Nat
    BY DEF UsdcInv, UsdcType
  <2> QED BY <1>1, <1>3, <1>4, <2>1
<1>7. totalUsdcReservedForStakers' <= usdcBalance'
  <2>1. totalUsdcReservedForStakers <= usdcBalance
    BY DEF UsdcInv
  <2> QED BY <1>1, <1>3, <1>4, <2>1
<1>8. totalUsdcReservedForStakers' + Sum(usdcPaid', NumStakers) = totalUsdcDistributedEver'
  <2>1. /\ totalUsdcReservedForStakers + Sum(usdcPaid, NumStakers) = totalUsdcDistributedEver
        /\ Sum(usdcPaid, NumStakers) \in Nat
    BY StakerSumNat DEF UsdcInv, UsdcType
  <2> QED BY <1>1, <1>3, <1>4, <2>1
<1>9. ASSUME NEW v \in Stakers PROVE Due(v)' \in Nat /\ Due(v)' = Due(v) + delta * staked[v]
  <2> DEFINE old == usdcRewardPerTokenStored - userUsdcRewardPerTokenPaid[v]
             base == RAY * (usdcRewards[v] + usdcPaid[v])
             s == staked[v]
  <2>1. old \in Nat /\ s \in Nat
    BY <1>4 DEF UsdcInv, UsdcType
  <2>2. usdcRewardPerTokenStored' - userUsdcRewardPerTokenPaid'[v] = old + delta
    <3>1. userUsdcRewardPerTokenPaid[v] \in Nat
      BY <1>2 DEF UsdcType
    <3> QED BY <1>1, <1>3, <1>4, <3>1
  <2>3. Due(v) = base + s * old /\ Due(v) \in Nat
    BY <1>2, EarnedBound DEF Due
  <2>4. Due(v)' = base + s * (old + delta)
    BY <1>1, <2>2 DEF Due
  <2>5. base \in Nat
    <3>1. usdcRewards[v] + usdcPaid[v] \in Nat
      BY <1>2 DEF UsdcType
    <3> QED BY <3>1, TimesNat, UsdcConstants
  <2> HIDE DEF old, base, s
  <2>6. s * (old + delta) = s * old + delta * s /\ delta * s \in Nat /\ s * old \in Nat
    BY <1>3, <2>1, TimesNat
  <2>7. Due(v)' = Due(v) + delta * s /\ Due(v)' \in Nat
    BY <2>3, <2>4, <2>5, <2>6
  <2> QED BY <2>7 DEF s
<1>10. Sum(Dues', NumStakers) = Sum(Dues, NumStakers) + delta * totalStaked
  <2>1. Dues \in [Stakers -> Nat] /\ Dues' \in [Stakers -> Nat]
    BY <1>2, <1>9, DuesType DEF Dues
  <2>2. \A v \in Stakers : Dues'[v] = Dues[v] + delta * staked[v]
    BY <1>9 DEF Dues
  <2> QED BY <1>2, <1>3, <1>4, <2>1, <2>2, StakerSumLinear
<1>11. Sum(Dues', NumStakers) <= RAY * Sum(revenue', MaxEpoch)
  <2> DEFINE r == Sum(revenue, MaxEpoch)
             d == Sum(Dues, NumStakers)
  <2>1. r \in Nat /\ Sum(revenue', MaxEpoch) = r + amount
    BY <1>1, <1>3, <1>4, RevenueSum
  <2>2. d <= RAY * r
    BY DEF UsdcInv, Dues
  <2>3. d \in Nat
    BY <1>2, DuesType, StakerSumNat
  <2> HIDE DEF r, d
  <2>4. RAY * (r + amount) = RAY * r + RAY * amount
    BY <1>3, <2>1, UsdcConstants
  <2>5. RAY * r \in Nat /\ RAY * amount \in Nat /\ delta * totalStaked \in Nat
    BY <1>3, <1>4, <2>1, TimesNat, UsdcConstants
  <2> QED BY <1>3, <1>10, <2>1, <2>2, <2>3, <2>4, <2>5 DEF d
<1> QED BY <1>5, <1>6, <1>7, <1>8, <1>11 DEF UsdcInv, Dues

LEMMA UsdcStep ==
  ASSUME PrincipalInv, PrincipalInv', UsdcInv, [Next]_vars
  PROVE  UsdcInv'
<1>1. PrincipalType /\ PrincipalType'
  BY DEF PrincipalInv
<1>2. CASE UNCHANGED vars
  <2>1. UNCHANGED usdcVars
    BY <1>2 DEF vars, usdcVars, stakeVars, settings
  <2> QED BY <1>1, <2>1, OtherUsdc
<1>3. CASE Next
  BY <1>1, <1>3, UsdcSteps, CreditUsdc, ClaimUsdcStep, DistributeUsdc, OtherUsdc
<1> QED BY <1>2, <1>3

LEMMA UsdcInit == Init => UsdcInv
<1> SUFFICES ASSUME Init PROVE UsdcInv
  OBVIOUS
<1> DEFINE none == [u \in Stakers |-> 0]
           noRevenue == [n \in Epochs |-> 0]
           firsts == [n \in 1..MaxEpoch |-> 0]
<1>1. /\ staked = none /\ usdcRewardPerTokenStored = 0 /\ totalUsdcReservedForStakers = 0
      /\ totalUsdcDistributedEver = 0 /\ usdcBalance = 0 /\ usdcPaid = none /\ received = 0
      /\ revenue = noRevenue /\ userUsdcRewardPerTokenPaid = none /\ usdcRewards = none
      /\ epoch = firstRewardEpoch /\ operatorFeeBps = DEFAULT_OPERATOR_FEE_BPS
  BY DEF Init
<1>2. UsdcType
  BY <1>1, UsdcConstants, DiemAssumption DEF UsdcType
<1>3. Sum(none, NumStakers) = 0
  BY SumZero, DiemConstants
<1>4. \A u \in Stakers : Due(u) = 0
  <2>1. RAY * (0 + 0) + 0 * (0 - 0) = 0
    BY UsdcConstants
  <2> QED BY <1>1, <2>1 DEF Due
<1>5. [u \in Stakers |-> Due(u)] = none
  BY <1>4
<1>6. Sum(revenue, MaxEpoch) = 0
  <2>1. \A n \in 1..MaxEpoch : noRevenue[n] = firsts[n]
    BY UsdcConstants DEF Epochs
  <2> HIDE DEF noRevenue
  <2>2. Sum(firsts, MaxEpoch) = 0
    BY SumZero, UsdcConstants
  <2> HIDE DEF firsts
  <2>3. Sum(noRevenue, MaxEpoch) = Sum(firsts, MaxEpoch)
    BY <2>1, SumSame, UsdcConstants
  <2> QED BY <1>1, <2>2, <2>3
<1>7. \A u \in Stakers : userUsdcRewardPerTokenPaid[u] <= usdcRewardPerTokenStored
  BY <1>1
<1> HIDE DEF none, noRevenue
<1>8. RAY * 0 = 0
  BY UsdcConstants
<1>9. Sum([u \in Stakers |-> Due(u)], NumStakers) <= RAY * Sum(revenue, MaxEpoch)
  BY <1>3, <1>5, <1>6, <1>8
<1>10. /\ totalUsdcReservedForStakers <= usdcBalance
       /\ totalUsdcReservedForStakers + Sum(usdcPaid, NumStakers) = totalUsdcDistributedEver
  BY <1>1, <1>3
<1> QED BY <1>2, <1>7, <1>9, <1>10 DEF UsdcInv

LEMMA UsdcCorrect == Spec => []UsdcInv
BY PrincipalCorrect, UsdcInit, UsdcStep, PTL DEF Spec

(* Stakers are never owed more than the channels brought in, for any       *)
(* number of stakers and any sequence of payouts, stakes and claims.       *)
THEOREM ClaimsWithinInflowCorrect == Spec => []ClaimsWithinInflow
<1>1. ASSUME PrincipalInv, UsdcInv PROVE ClaimsWithinInflow
  <2> DEFINE earned == [u \in Stakers |-> Earned(u)]
             owed == [u \in Stakers |-> usdcPaid[u] + 1 * earned[u]]
             none == [u \in Stakers |-> 0]
             scaled == [u \in Stakers |-> none[u] + RAY * owed[u]]
             one == 1
  <2>1. PrincipalType /\ usdcPaid \in [Stakers -> Nat] /\ revenue \in [Epochs -> Nat]
    BY <1>1 DEF PrincipalInv, UsdcInv, UsdcType
  <2>2. \A u \in Stakers : /\ Earned(u) \in Nat /\ usdcPaid[u] \in Nat /\ Due(u) \in Nat
                            /\ RAY * (Earned(u) + usdcPaid[u]) <= Due(u)
    BY <1>1, <2>1, EarnedBound
  <2>3. earned \in [Stakers -> Nat] /\ none \in [Stakers -> Nat] /\ one \in Nat
    BY <2>2
  <2>4. owed \in [Stakers -> Nat]
    BY <2>2
  <2>5. \A u \in Stakers : owed[u] = usdcPaid[u] + one * earned[u]
    OBVIOUS
  <2>6. ASSUME NEW u \in Stakers PROVE scaled[u] \in Nat /\ scaled[u] <= Due(u)
    <3>1. owed[u] = Earned(u) + usdcPaid[u] /\ owed[u] \in Nat
      BY <2>2
    <3>2. RAY * owed[u] \in Nat
      BY <3>1, TimesNat, UsdcConstants
    <3>3. scaled[u] = RAY * owed[u]
      BY <3>2
    <3> QED BY <2>2, <3>1, <3>2, <3>3
  <2>7. scaled \in [Stakers -> Nat] /\ Dues \in [Stakers -> Nat] /\ \A u \in Stakers : scaled[u] <= Dues[u]
    BY <1>1, <2>1, <2>6, DuesType DEF Dues
  <2>8. \A u \in Stakers : scaled[u] = none[u] + RAY * owed[u]
    OBVIOUS
  <2>9. Sum(none, NumStakers) = 0
    BY SumZero, DiemConstants
  <2> DEFINE p == Sum(usdcPaid, NumStakers)
             e == Sum(earned, NumStakers)
             o == Sum(owed, NumStakers)
             r == Sum(revenue, MaxEpoch)
  <2> HIDE DEF owed, scaled, none, one, earned
  <2>10. o = p + one * e /\ o \in Nat /\ p \in Nat /\ e \in Nat
    BY <2>1, <2>3, <2>4, <2>5, StakerSumLinear, StakerSumNat
  <2>11. Sum(scaled, NumStakers) = Sum(none, NumStakers) + RAY * o
    <3>1. RAY \in Nat
      BY UsdcConstants
    <3> QED BY <2>3, <2>4, <2>7, <2>8, <3>1, StakerSumLinear
  <2>12. Sum(scaled, NumStakers) <= Sum(Dues, NumStakers)
    BY <2>7, StakerSumMonotone
  <2>13. Sum(Dues, NumStakers) <= RAY * r
    BY <1>1 DEF UsdcInv, Dues
  <2>14. r \in Nat
    BY <2>1, RevenueSum, UsdcConstants
  <2>15. Sum(Dues, NumStakers) \in Nat
    BY <2>7, StakerSumNat
  <2> HIDE DEF p, e, o, r
  <2>16. RAY * o \in Nat /\ RAY * r \in Nat
    BY <2>10, <2>14, TimesNat, UsdcConstants
  <2>17. RAY * o <= RAY * r
    BY <2>9, <2>11, <2>12, <2>13, <2>15, <2>16
  <2>18. o <= r
    BY <2>10, <2>14, <2>17, TimesCancels, UsdcConstants
  <2>19. p + e <= r
    BY <2>10, <2>18 DEF one
  <2> QED BY <1>1, <2>19 DEF UsdcInv, ClaimsWithinInflow, p, e, r, earned
<1> QED BY <1>1, PrincipalCorrect, UsdcCorrect, PTL

(* No step reduces what a staker has earned and been paid, for all amounts *)
(* and any number of stakers: a credit keeps it, a claim moves it from the *)
(* account to the wallet, and a payout can only add to it.                 *)
THEOREM EarnedNeverLostCorrect == Spec => EarnedNeverLost
<1>1. ASSUME PrincipalInv, PrincipalInv', UsdcInv, [Next]_vars
      PROVE  [\A u \in Stakers : Earned(u) + usdcPaid[u] <= Earned(u)' + usdcPaid'[u]]_vars
  <2> SUFFICES ASSUME Next, NEW v \in Stakers
               PROVE  Earned(v) + usdcPaid[v] <= Earned(v)' + usdcPaid'[v]
    BY <1>1
  <2> DEFINE share == staked[v] * (usdcRewardPerTokenStored - userUsdcRewardPerTokenPaid[v])
  <2>1. /\ share \in Nat /\ share \div RAY \in Nat /\ Earned(v) = usdcRewards[v] + share \div RAY
        /\ Earned(v) \in Nat /\ usdcRewards[v] \in Nat /\ usdcPaid[v] \in Nat
    BY <1>1, EarnedBound DEF PrincipalInv
  <2>2. /\ staked \in [Stakers -> Nat] /\ staked' \in [Stakers -> Nat]
        /\ UsdcType /\ PrincipalType
    BY <1>1 DEF PrincipalInv, PrincipalType, UsdcInv
  <2>3. /\ usdcRewardPerTokenStored \in Nat /\ usdcRewards \in [Stakers -> Nat]
        /\ userUsdcRewardPerTokenPaid \in [Stakers -> Nat] /\ usdcPaid \in [Stakers -> Nat]
        /\ staked[v] \in Nat /\ staked'[v] \in Nat
        /\ usdcRewardPerTokenStored - userUsdcRewardPerTokenPaid[v] \in Nat
    BY <1>1, <2>2 DEF UsdcType, UsdcInv
  <2>4. ASSUME NEW s \in Nat PROVE (s * (usdcRewardPerTokenStored - usdcRewardPerTokenStored)) \div RAY = 0
    <3>1. s * (usdcRewardPerTokenStored - usdcRewardPerTokenStored) = 0
      BY <2>3, <2>4
    <3>2. 0 \div RAY = 0
      BY UsdcConstants
    <3> QED BY <3>1, <3>2
  <2>5. ASSUME NEW u \in Stakers, Credit(u) PROVE Earned(v)' = Earned(v) /\ usdcPaid' = usdcPaid
    <3>1. /\ userUsdcRewardPerTokenPaid' =
               [userUsdcRewardPerTokenPaid EXCEPT ![u] = usdcRewardPerTokenStored]
          /\ usdcRewards' = [usdcRewards EXCEPT ![u] = Earned(u)]
          /\ \A w \in Stakers : w # u => staked'[w] = staked[w]
          /\ UNCHANGED <<usdcRewardPerTokenStored, usdcPaid>>
      BY <2>5 DEF Credit, credited, poolVars
    <3>2. CASE v = u
      <4>1. /\ userUsdcRewardPerTokenPaid'[v] = usdcRewardPerTokenStored
            /\ usdcRewards'[v] = Earned(v) /\ usdcRewardPerTokenStored' = usdcRewardPerTokenStored
        BY <2>3, <3>1, <3>2
      <4>2. Earned(v)' = Earned(v) + 0
        <5>1. Earned(v)' = usdcRewards'[v]
                + (staked'[v] * (usdcRewardPerTokenStored' - userUsdcRewardPerTokenPaid'[v])) \div RAY
          BY DEF Earned
        <5>2. (staked'[v] * (usdcRewardPerTokenStored - usdcRewardPerTokenStored)) \div RAY = 0
          BY <2>3, <2>4
        <5> QED BY <4>1, <5>1, <5>2
      <4> QED BY <2>1, <3>1, <4>2
    <3>3. CASE v # u
      <4>1. /\ userUsdcRewardPerTokenPaid'[v] = userUsdcRewardPerTokenPaid[v]
            /\ usdcRewards'[v] = usdcRewards[v] /\ staked'[v] = staked[v]
            /\ usdcRewardPerTokenStored' = usdcRewardPerTokenStored
        BY <2>3, <3>1, <3>3
      <4> QED BY <3>1, <4>1 DEF Earned
    <3> QED BY <3>2, <3>3
  <2>6. ASSUME NEW u \in Stakers, claimUsdc(u)
        PROVE  Earned(v)' + usdcPaid'[v] = Earned(v) + usdcPaid[v]
    <3>1. /\ userUsdcRewardPerTokenPaid' =
               [userUsdcRewardPerTokenPaid EXCEPT ![u] = usdcRewardPerTokenStored]
          /\ usdcRewards' = [usdcRewards EXCEPT ![u] = 0]
          /\ usdcPaid' = [usdcPaid EXCEPT ![u] = usdcPaid[u] + Earned(u)]
          /\ UNCHANGED <<staked, usdcRewardPerTokenStored>>
      BY <2>6 DEF claimUsdc, UpdateRewards, stakeVars
    <3>2. CASE v = u
      <4>1. /\ userUsdcRewardPerTokenPaid'[v] = usdcRewardPerTokenStored /\ usdcRewards'[v] = 0
            /\ usdcPaid'[v] = usdcPaid[v] + Earned(v)
            /\ usdcRewardPerTokenStored' = usdcRewardPerTokenStored /\ staked' = staked
        BY <2>3, <3>1, <3>2
      <4>2. Earned(v)' = 0
        <5>1. Earned(v)' = usdcRewards'[v]
                + (staked'[v] * (usdcRewardPerTokenStored' - userUsdcRewardPerTokenPaid'[v])) \div RAY
          BY DEF Earned
        <5>2. (staked[v] * (usdcRewardPerTokenStored - usdcRewardPerTokenStored)) \div RAY = 0
          BY <2>3, <2>4
        <5> QED BY <4>1, <5>1, <5>2
      <4> QED BY <2>1, <4>1, <4>2
    <3>3. CASE v # u
      <4>1. /\ userUsdcRewardPerTokenPaid'[v] = userUsdcRewardPerTokenPaid[v]
            /\ usdcRewards'[v] = usdcRewards[v] /\ usdcPaid'[v] = usdcPaid[v]
            /\ usdcRewardPerTokenStored' = usdcRewardPerTokenStored /\ staked' = staked
        BY <2>3, <3>1, <3>3
      <4> QED BY <4>1 DEF Earned
    <3> QED BY <3>2, <3>3
  <2>7. ASSUME NEW gross \in Payouts, PayoutDistributed(gross)
        PROVE  Earned(v)' \in Nat /\ Earned(v) <= Earned(v)' /\ usdcPaid' = usdcPaid
    <3> DEFINE delta == Delta(gross)
               old == usdcRewardPerTokenStored - userUsdcRewardPerTokenPaid[v]
               s == staked[v]
    <3>1. /\ totalStaked > 0 /\ usdcRewardPerTokenStored' = usdcRewardPerTokenStored + delta
          /\ UNCHANGED <<staked, usdcPaid, userUsdcRewardPerTokenPaid, usdcRewards>>
      BY <2>7 DEF PayoutDistributed, Delta, netPayout, stakeVars, usdcUserVars
    <3>2. delta \in Nat /\ old \in Nat /\ s \in Nat
      BY <2>2, <2>3, <3>1, Distribution DEF UsdcType
    <3>3. usdcRewardPerTokenStored' - userUsdcRewardPerTokenPaid'[v] = old + delta
      BY <2>3, <3>1, <3>2
    <3>4. Earned(v)' = usdcRewards[v] + (s * (old + delta)) \div RAY
      BY <3>1, <3>3 DEF Earned
    <3>5. share = s * old
      OBVIOUS
    <3> HIDE DEF delta, old, s, share
    <3>6. share <= s * (old + delta) /\ s * (old + delta) \in Nat
      BY <3>2, <3>5, TimesMonotone, TimesNat
    <3> DEFINE more == s * (old + delta)
    <3> HIDE DEF more
    <3>7. more \in Nat /\ share <= more
      BY <3>6 DEF more
    <3>8. share \div RAY <= more \div RAY /\ more \div RAY \in Nat
      BY <2>1, <3>7, DivisionMonotone, DivisionDown, UsdcConstants
    <3>9. Earned(v)' = usdcRewards[v] + more \div RAY
      BY <3>4 DEF more
    <3> QED BY <2>1, <3>1, <3>8, <3>9
  <2>8. ASSUME \/ \E gross \in Payouts : PayoutKept(gross)
               \/ sweepOrphanUsdc
               \/ \E bps \in OperatorFees : setOperatorFee(bps)
               \/ NextEpoch
               \/ UNCHANGED usdcVars
        PROVE  Earned(v)' = Earned(v) /\ usdcPaid' = usdcPaid
    <3>1. UNCHANGED <<staked, usdcRewardPerTokenStored, userUsdcRewardPerTokenPaid, usdcRewards,
                      usdcPaid>>
      BY <2>8 DEF PayoutKept, sweepOrphanUsdc, setOperatorFee, NextEpoch, OwnerUnchanged,
                  usdcVars, poolVars, stakeVars, usdcUserVars
    <3> QED BY <3>1 DEF Earned
  <2> HIDE DEF share
  <2>9. Earned(v) + usdcPaid[v] \in Nat
    BY <2>1
  <2>10. ASSUME NEW u \in Stakers, Credit(u)
         PROVE  Earned(v) + usdcPaid[v] <= Earned(v)' + usdcPaid'[v]
    BY <2>5, <2>9, <2>10
  <2>11. ASSUME NEW u \in Stakers, claimUsdc(u)
         PROVE  Earned(v) + usdcPaid[v] <= Earned(v)' + usdcPaid'[v]
    BY <2>6, <2>9, <2>11
  <2>12. ASSUME NEW gross \in Payouts, PayoutDistributed(gross)
         PROVE  Earned(v) + usdcPaid[v] <= Earned(v)' + usdcPaid'[v]
    <3>1. Earned(v)' \in Nat /\ Earned(v) <= Earned(v)' /\ usdcPaid' = usdcPaid
      BY <2>7, <2>12
    <3> QED BY <2>1, <3>1
  <2> QED BY <2>2, <2>8, <2>9, <2>10, <2>11, <2>12, UsdcSteps
<1>2. Spec => [][\A u \in Stakers : Earned(u) + usdcPaid[u] <= Earned(u)' + usdcPaid'[u]]_vars
  BY <1>1, PrincipalCorrect, UsdcCorrect, PTL DEF Spec
<1> QED BY <1>2 DEF EarnedNeverLost

(***************************************************************************)
(* Points: the share of an epoch's revenue that a staker's ANTS follow.    *)
(***************************************************************************)

PointsType ==
  /\ syncedRewardEpoch \in firstRewardEpoch..epoch
  /\ currentEpochRevenuePoints \in Nat
  /\ rewardEpochs \in [Epochs -> RewardEpoch]
  /\ userPoints \in [Stakers -> [Epochs -> Nat]]
  /\ userRevenuePerTokenSnap \in [Stakers -> Nat] /\ userCurrentEpoch \in [Stakers -> Epochs]
  /\ userEpochClaimed \in [Stakers -> [Epochs -> BOOLEAN]]
  /\ userLastClaimedEpoch \in [Stakers -> Epochs]

(* The revenue per token at the ends of the epochs. *)
Ends(re) == [n \in Epochs |-> re[n].revenuePerTokenAtEnd]

(* What of epoch n's revenue per token a staker has not captured that is   *)
(* at epoch cur, from where it has the snapshot snap.                      *)
SegmentOf(n, ends, synced, stored, cur, snap) ==
  LET start == IF n = cur THEN snap ELSE ends[n - 1]
      end == IF n < synced THEN ends[n] ELSE stored
  IN  IF cur <= n /\ n <= synced /\ end > start THEN end - start ELSE 0

Segment(u, n) ==
  SegmentOf(n, Ends(rewardEpochs), syncedRewardEpoch, usdcRewardPerTokenStored,
            userCurrentEpoch[u], userRevenuePerTokenSnap[u])

(* The points of u in epoch n, in units of 1 / RAY: those it has and those *)
(* it can capture.  A capture rounds down and so never adds to them.       *)
PointsDue(u, n) == RAY * userPoints[u][n] + staked[u] * Segment(u, n)
PointsDues(n) == [u \in Stakers |-> PointsDue(u, n)]

(* A staker is never ahead of the closed epochs, and no snapshot is ahead  *)
(* of the accumulator.                                                     *)
CursorsBehind ==
  /\ \A u \in Stakers : /\ userCurrentEpoch[u] <= syncedRewardEpoch
                        /\ userRevenuePerTokenSnap[u] <= usdcRewardPerTokenStored
  /\ \A n \in Epochs : Ends(rewardEpochs)[n] <= usdcRewardPerTokenStored

PointsWithin == \A n \in 1..MaxEpoch : Sum(PointsDues(n), NumStakers) <= RAY * revenue[n]

PointsInv == PointsType /\ CursorsBehind /\ PointsWithin /\ ClaimedEpochsFinal

(* The facts about types that the steps below use. *)
Typed == PrincipalType /\ UsdcType /\ PointsType /\ CursorsBehind

LEMMA TypedParts ==
  ASSUME Typed
  PROVE  /\ MaxEpoch \in Nat /\ Epochs = 0..MaxEpoch
         /\ epoch \in Epochs /\ epoch <= MaxEpoch
         /\ syncedRewardEpoch \in Epochs /\ syncedRewardEpoch \in Nat
         /\ firstRewardEpoch \in Nat /\ 1 <= firstRewardEpoch
         /\ firstRewardEpoch <= syncedRewardEpoch /\ syncedRewardEpoch <= epoch
         /\ usdcRewardPerTokenStored \in Nat
         /\ rewardEpochs \in [Epochs -> RewardEpoch]
         /\ Ends(rewardEpochs) \in [Epochs -> Nat]
         /\ \A u \in Stakers : /\ staked[u] \in Nat
                                /\ userCurrentEpoch[u] \in Epochs
                                /\ userCurrentEpoch[u] <= syncedRewardEpoch
                                /\ userRevenuePerTokenSnap[u] \in Nat
                                /\ userPoints[u] \in [Epochs -> Nat]
<1>1. /\ MaxEpoch \in Nat /\ Epochs = 0..MaxEpoch /\ firstRewardEpoch \in 1..MaxEpoch
      /\ epoch \in firstRewardEpoch..MaxEpoch /\ syncedRewardEpoch \in firstRewardEpoch..epoch
  BY UsdcConstants DEF Typed, UsdcType, PointsType, Epochs
<1>2. rewardEpochs \in [Epochs -> RewardEpoch]
  BY DEF Typed, PointsType
<1>3. Ends(rewardEpochs) \in [Epochs -> Nat]
  BY <1>2 DEF Ends, RewardEpoch
<1>4. \A u \in Stakers : /\ staked[u] \in Nat
                          /\ userCurrentEpoch[u] \in Epochs
                          /\ userCurrentEpoch[u] <= syncedRewardEpoch
                          /\ userRevenuePerTokenSnap[u] \in Nat
                          /\ userPoints[u] \in [Epochs -> Nat]
  BY DEF Typed, PrincipalType, PointsType, CursorsBehind
<1>5. usdcRewardPerTokenStored \in Nat
  BY DEF Typed, UsdcType
<1> QED BY <1>1, <1>2, <1>3, <1>4, <1>5

(* Closing the epochs before t. *)
LEMMA Closing ==
  ASSUME Typed, NEW t \in syncedRewardEpoch..epoch
  PROVE  /\ ClosedEpochs(t) \in [Epochs -> RewardEpoch] /\ OpenPoints(t) \in Nat
         /\ Ends(ClosedEpochs(t)) \in [Epochs -> Nat]
         /\ \A n \in Epochs : Ends(ClosedEpochs(t))[n] =
              IF syncedRewardEpoch <= n /\ n < t THEN usdcRewardPerTokenStored
                                                 ELSE Ends(rewardEpochs)[n]
         /\ \A n \in Epochs : Ends(ClosedEpochs(t))[n] <= usdcRewardPerTokenStored
<1>1. /\ rewardEpochs \in [Epochs -> RewardEpoch] /\ usdcRewardPerTokenStored \in Nat
      /\ currentEpochRevenuePoints \in Nat
  BY DEF Typed, PointsType, UsdcType
<1> DEFINE points(n) == IF n = syncedRewardEpoch THEN currentEpochRevenuePoints ELSE 0
           closed(n) == [rewardEpochs[n] EXCEPT !.revenuePerTokenAtEnd = usdcRewardPerTokenStored,
                                                !.totalPoints = points(n)]
<1>2. ASSUME NEW n \in Epochs
      PROVE  /\ closed(n) \in RewardEpoch
             /\ closed(n).revenuePerTokenAtEnd = usdcRewardPerTokenStored
  <2>1. points(n) \in Nat
    BY <1>1
  <2> HIDE DEF points
  <2> QED BY <1>1, <2>1 DEF RewardEpoch
<1>3. ClosedEpochs(t) = [n \in Epochs |-> IF syncedRewardEpoch <= n /\ n < t
                                          THEN closed(n) ELSE rewardEpochs[n]]
  BY DEF ClosedEpochs
<1> HIDE DEF closed
<1>4. ClosedEpochs(t) \in [Epochs -> RewardEpoch]
  BY <1>1, <1>2, <1>3
<1>5. OpenPoints(t) \in Nat
  BY <1>1 DEF OpenPoints
<1>6. ASSUME NEW n \in Epochs
      PROVE  Ends(ClosedEpochs(t))[n] = IF syncedRewardEpoch <= n /\ n < t
               THEN usdcRewardPerTokenStored ELSE Ends(rewardEpochs)[n]
  BY <1>2, <1>3 DEF Ends
<1>7. Ends(ClosedEpochs(t)) \in [Epochs -> Nat]
  BY <1>4 DEF Ends, RewardEpoch
<1>8. \A n \in Epochs : Ends(ClosedEpochs(t))[n] <= usdcRewardPerTokenStored
  BY <1>1, <1>6 DEF Typed, CursorsBehind
<1> QED BY <1>4, <1>5, <1>6, <1>7, <1>8

(* It changes nobody's segment: the first epoch closed ends where the      *)
(* accumulator is, and the ones after it are empty.                        *)
LEMMA ClosingKeeps ==
  ASSUME Typed, NEW t \in syncedRewardEpoch..epoch, NEW u \in Stakers, NEW n \in Epochs
  PROVE  /\ Segment(u, n) \in Nat
         /\ SegmentOf(n, Ends(ClosedEpochs(t)), t, usdcRewardPerTokenStored,
                      userCurrentEpoch[u], userRevenuePerTokenSnap[u]) = Segment(u, n)
<1> DEFINE old == Ends(rewardEpochs)
           new == Ends(ClosedEpochs(t))
           cur == userCurrentEpoch[u]
           snap == userRevenuePerTokenSnap[u]
           S == syncedRewardEpoch
           stored == usdcRewardPerTokenStored
<1>1. /\ old \in [Epochs -> Nat] /\ new \in [Epochs -> Nat]
      /\ \A k \in Epochs : new[k] = IF S <= k /\ k < t THEN stored ELSE old[k]
  BY Closing, TypedParts
<1>2. /\ MaxEpoch \in Nat /\ Epochs = 0..MaxEpoch /\ S \in Nat /\ stored \in Nat
      /\ S <= epoch /\ epoch \in Epochs /\ cur \in Epochs /\ cur <= S /\ snap \in Nat
  BY TypedParts
<1>3. n \in Nat /\ n <= MaxEpoch /\ t \in Nat /\ S <= t /\ t <= MaxEpoch /\ cur \in Nat
  BY <1>2
<1> HIDE DEF old, new, cur, snap, S, stored
<1>4. CASE n = cur
  <2>1. n <= S
    BY <1>2, <1>4
  <2>2. (IF n < t THEN new[n] ELSE stored) = (IF n < S THEN old[n] ELSE stored)
    BY <1>1, <1>2, <1>3, <2>1
  <2>3. SegmentOf(n, new, t, stored, cur, snap) = SegmentOf(n, old, S, stored, cur, snap)
    BY <1>2, <1>3, <1>4, <2>1, <2>2 DEF SegmentOf
  <2>4. SegmentOf(n, old, S, stored, cur, snap) \in Nat
    BY <1>1, <1>2, <1>3, <1>4 DEF SegmentOf
  <2> QED BY <2>3, <2>4 DEF Segment, old, new, cur, snap, S, stored
<1>5. CASE n # cur /\ cur <= n
  <2>1. n - 1 \in Epochs /\ n - 1 \in Nat
    BY <1>2, <1>3, <1>5
  <2>2. CASE n <= S
    <3>1. new[n - 1] = old[n - 1] /\ (IF n < t THEN new[n] ELSE stored) = (IF n < S THEN old[n] ELSE stored)
      BY <1>1, <1>2, <1>3, <2>1, <2>2
    <3>2. SegmentOf(n, new, t, stored, cur, snap) = SegmentOf(n, old, S, stored, cur, snap)
      BY <1>2, <1>3, <1>5, <2>2, <3>1 DEF SegmentOf
    <3>3. SegmentOf(n, old, S, stored, cur, snap) \in Nat
      BY <1>1, <1>2, <1>3, <1>5, <2>1 DEF SegmentOf
    <3> QED BY <3>2, <3>3 DEF Segment, old, new, cur, snap, S, stored
  <2>3. CASE n > S
    <3>1. SegmentOf(n, old, S, stored, cur, snap) = 0
      BY <1>2, <1>3, <2>3 DEF SegmentOf
    <3>2. n <= t => new[n - 1] = stored /\ (IF n < t THEN new[n] ELSE stored) = stored
      BY <1>1, <1>2, <1>3, <2>1, <2>3
    <3>3. SegmentOf(n, new, t, stored, cur, snap) = 0
      BY <1>2, <1>3, <1>5, <3>2 DEF SegmentOf
    <3> QED BY <3>1, <3>3 DEF Segment, old, new, cur, snap, S, stored
  <2> QED BY <1>2, <1>3, <2>2, <2>3
<1>6. CASE ~(cur <= n)
  <2>1. SegmentOf(n, old, S, stored, cur, snap) = 0 /\ SegmentOf(n, new, t, stored, cur, snap) = 0
    BY <1>6 DEF SegmentOf
  <2> QED BY <2>1 DEF Segment, old, new, cur, snap, S, stored
<1> QED BY <1>4, <1>5, <1>6

(* The points a capture adds up to and including epoch last. *)
Fraction(u, n) == (staked[u] * Segment(u, n)) \div RAY

LEMMA FractionBound ==
  ASSUME Typed, NEW u \in Stakers, NEW n \in Epochs
  PROVE  /\ Segment(u, n) \in Nat /\ Fraction(u, n) \in Nat /\ staked[u] * Segment(u, n) \in Nat
         /\ RAY * Fraction(u, n) <= staked[u] * Segment(u, n)
<1> DEFINE s == staked[u]
           seg == Segment(u, n)
           share == s * seg
<1>1. s \in Nat /\ seg \in Nat
  <2>1. syncedRewardEpoch \in syncedRewardEpoch..epoch
    BY TypedParts
  <2> QED BY <2>1, TypedParts, ClosingKeeps
<1> HIDE DEF s, seg
<1>2. share \in Nat
  BY <1>1, TimesNat
<1> HIDE DEF share
<1>3. share \div RAY \in Nat /\ RAY * (share \div RAY) <= share
  BY <1>2, DivisionDown, UsdcConstants
<1> QED BY <1>1, <1>2, <1>3 DEF Fraction, s, seg, share

LEMMA Captured ==
  ASSUME Typed, NEW t \in syncedRewardEpoch..epoch, NEW u \in Stakers, NEW last \in Int, last <= t
  PROVE  /\ CapturedPoints(u, ClosedEpochs(t), t, last) \in [Epochs -> Nat]
         /\ \A n \in Epochs : CapturedPoints(u, ClosedEpochs(t), t, last)[n] =
              userPoints[u][n] + IF userCurrentEpoch[u] <= n /\ n <= last THEN Fraction(u, n) ELSE 0
<1> DEFINE re == ClosedEpochs(t)
           cur == userCurrentEpoch[u]
           snap == userRevenuePerTokenSnap[u]
           stored == usdcRewardPerTokenStored
<1>1. ASSUME NEW n \in Epochs, cur <= n, n <= last
      PROVE  SegmentPoints(u, n, re, t) = Fraction(u, n)
  <2> DEFINE start == IF n = cur THEN snap ELSE Ends(re)[n - 1]
             end == IF n < t THEN Ends(re)[n] ELSE stored
  <2>1. /\ MaxEpoch \in Nat /\ Epochs = 0..MaxEpoch /\ cur \in Epochs /\ t \in Int
        /\ staked[u] \in Nat /\ n \in Nat /\ cur \in Nat
    BY TypedParts
  <2>2. n <= t
    BY <1>1, <2>1
  <2>3. n # cur => n - 1 \in Epochs
    BY <1>1, <2>1
  <2>4. Segment(u, n) = IF end > start THEN end - start ELSE 0
    <3>1. Segment(u, n) = SegmentOf(n, Ends(re), t, stored, cur, snap)
      BY ClosingKeeps
    <3> QED BY <1>1, <2>2, <3>1 DEF SegmentOf
  <2>5. /\ start = IF n = cur THEN snap ELSE re[n - 1].revenuePerTokenAtEnd
        /\ end = IF n < t THEN re[n].revenuePerTokenAtEnd ELSE stored
    BY <2>3 DEF Ends
  <2>6. SegmentPoints(u, n, re, t) = IF end > start THEN (staked[u] * (end - start)) \div RAY ELSE 0
    BY <2>5 DEF SegmentPoints
  <2>7. (staked[u] * 0) \div RAY = 0
    BY <2>1, UsdcConstants
  <2> HIDE DEF start, end
  <2> QED BY <2>4, <2>6, <2>7 DEF Fraction
<1>2. \A n \in Epochs : CapturedPoints(u, re, t, last)[n] =
        userPoints[u][n] + IF cur <= n /\ n <= last THEN Fraction(u, n) ELSE 0
  BY <1>1 DEF CapturedPoints
<1>3. \A n \in Epochs : userPoints[u][n] \in Nat /\ Fraction(u, n) \in Nat
  BY TypedParts, FractionBound
<1>4. \A n \in Epochs : CapturedPoints(u, re, t, last)[n] \in Nat
  BY <1>2, <1>3
<1>5. CapturedPoints(u, re, t, last) = [n \in Epochs |-> CapturedPoints(u, re, t, last)[n]]
  BY DEF CapturedPoints
<1> HIDE DEF re, cur
<1>6. CapturedPoints(u, re, t, last) \in [Epochs -> Nat]
  BY <1>4, <1>5
<1> QED BY <1>2, <1>6 DEF re, cur

LEMMA PointsDueNat ==
  ASSUME Typed, NEW u \in Stakers, NEW n \in Epochs
  PROVE  PointsDue(u, n) \in Nat
<1> DEFINE x == userPoints[u][n]
           share == staked[u] * Segment(u, n)
<1>1. x \in Nat /\ share \in Nat
  BY TypedParts, FractionBound
<1> HIDE DEF x, share
<1>2. RAY * x \in Nat
  BY <1>1, TimesNat, UsdcConstants
<1>3. RAY * x + share \in Nat
  BY <1>1, <1>2
<1> QED BY <1>3 DEF PointsDue, x, share

(* Dues that do not grow stay within the revenue. *)
LEMMA DuesShrink ==
  ASSUME Typed, PointsWithin, revenue' = revenue,
         \A v \in Stakers, n \in 1..MaxEpoch : PointsDue(v, n)' \in Nat /\ PointsDue(v, n)' <= PointsDue(v, n)
  PROVE  PointsWithin'
<1> SUFFICES ASSUME NEW n \in 1..MaxEpoch
             PROVE  Sum(PointsDues(n)', NumStakers) <= RAY * revenue'[n]
  BY DEF PointsWithin
<1>1. n \in Epochs /\ revenue[n] \in Nat
  BY TypedParts DEF Typed, UsdcType
<1>2. PointsDues(n) \in [Stakers -> Nat] /\ PointsDues(n)' \in [Stakers -> Nat]
  BY <1>1, PointsDueNat DEF PointsDues
<1>3. \A v \in Stakers : PointsDues(n)'[v] <= PointsDues(n)[v]
  BY DEF PointsDues
<1>4. /\ Sum(PointsDues(n)', NumStakers) <= Sum(PointsDues(n), NumStakers)
      /\ Sum(PointsDues(n)', NumStakers) \in Nat /\ Sum(PointsDues(n), NumStakers) \in Nat
  BY <1>2, <1>3, StakerSumMonotone, StakerSumNat
<1>5. RAY * revenue[n] \in Nat
  BY <1>1, TimesNat, UsdcConstants
<1>6. Sum(PointsDues(n), NumStakers) <= RAY * revenue[n]
  BY DEF PointsWithin
<1> QED BY <1>4, <1>5, <1>6

(* The steps that close epochs up to t, and those that also capture what   *)
(* staker u has not captured: everything, while its stake may change, or   *)
(* the epochs before k.                                                    *)
Closes(t) ==
  /\ rewardEpochs' \in [Epochs -> RewardEpoch] /\ Ends(rewardEpochs') = Ends(ClosedEpochs(t))
  /\ syncedRewardEpoch' = t /\ currentEpochRevenuePoints' \in Nat
  /\ UNCHANGED <<revenue, epoch>>

Captures(u, t, k, w, pts) ==
  /\ Closes(t)
  /\ \A v \in Stakers : v # u => staked'[v] = staked[v]
  /\ userPoints' = [userPoints EXCEPT ![u] = pts]
  /\ userCurrentEpoch' = [userCurrentEpoch EXCEPT ![u] = k]
  /\ userRevenuePerTokenSnap' = [userRevenuePerTokenSnap EXCEPT ![u] = w]
  /\ UNCHANGED usdcRewardPerTokenStored
  /\ \/ /\ k = t /\ w = usdcRewardPerTokenStored
        /\ \A n \in Epochs : pts[n] <=
             userPoints[u][n] + IF userCurrentEpoch[u] <= n /\ n <= t THEN Fraction(u, n) ELSE 0
     \/ /\ userCurrentEpoch[u] < k /\ w = Ends(ClosedEpochs(t))[k - 1] /\ staked'[u] = staked[u]
        /\ \A n \in Epochs : pts[n] <=
             userPoints[u][n] + IF userCurrentEpoch[u] <= n /\ n <= k - 1 THEN Fraction(u, n) ELSE 0

LEMMA OtherSegments ==
  ASSUME Typed, NEW t \in syncedRewardEpoch..epoch, Closes(t), NEW v \in Stakers, NEW n \in Epochs,
         usdcRewardPerTokenStored' = usdcRewardPerTokenStored,
         userCurrentEpoch'[v] = userCurrentEpoch[v],
         userRevenuePerTokenSnap'[v] = userRevenuePerTokenSnap[v]
  PROVE  Segment(v, n)' = Segment(v, n)
BY ClosingKeeps DEF Closes, Segment

(* A capture empties the segments it captures and keeps the others. *)
LEMMA CapturedSegments ==
  ASSUME Typed, NEW u \in Stakers, NEW t \in syncedRewardEpoch..epoch,
         NEW k \in userCurrentEpoch[u]..t, NEW w, NEW pts, Captures(u, t, k, w, pts), NEW n \in Epochs
  PROVE  \/ Segment(u, n)' = 0 /\ pts[n] <= userPoints[u][n] + Fraction(u, n)
         \/ /\ Segment(u, n)' = Segment(u, n) /\ staked'[u] = staked[u]
            /\ pts[n] <= userPoints[u][n]
<1> DEFINE new == Ends(ClosedEpochs(t))
           cur == userCurrentEpoch[u]
           snap == userRevenuePerTokenSnap[u]
           stored == usdcRewardPerTokenStored
           p == userPoints[u][n]
           f == Fraction(u, n)
<1>1. /\ MaxEpoch \in Nat /\ Epochs = 0..MaxEpoch /\ stored \in Nat /\ t \in Nat /\ k \in Nat
      /\ cur \in Nat /\ cur <= k /\ k <= t /\ t <= MaxEpoch /\ n \in Nat /\ n <= MaxEpoch
      /\ userCurrentEpoch \in [Stakers -> Epochs] /\ userRevenuePerTokenSnap \in [Stakers -> Nat]
  <2>1. /\ MaxEpoch \in Nat /\ Epochs = 0..MaxEpoch /\ stored \in Nat /\ cur \in Epochs
        /\ syncedRewardEpoch \in Nat /\ epoch \in Epochs
    BY TypedParts
  <2>2. /\ userCurrentEpoch \in [Stakers -> Epochs] /\ userRevenuePerTokenSnap \in [Stakers -> Nat]
    BY DEF Typed, PointsType
  <2> HIDE DEF cur, stored
  <2>3. k \in cur..t
    BY DEF cur
  <2> QED BY <2>1, <2>2, <2>3
<1>2. p \in Nat /\ f \in Nat
  BY TypedParts, FractionBound
<1>3. Segment(u, n)' = SegmentOf(n, new, t, stored, k, w)
  <2>1. userCurrentEpoch'[u] = k /\ userRevenuePerTokenSnap'[u] = w
    BY <1>1 DEF Captures
  <2> QED BY <2>1 DEF Captures, Closes, Segment
<1>4. Segment(u, n) = SegmentOf(n, new, t, stored, cur, snap)
  BY ClosingKeeps
<1>5. new \in [Epochs -> Nat]
  BY Closing
<1> HIDE DEF new, p, f, cur, snap, stored
<1>6. CASE /\ k = t /\ w = stored
           /\ pts[n] <= p + IF cur <= n /\ n <= t THEN f ELSE 0
  <2>1. SegmentOf(n, new, t, stored, k, w) = 0
    BY <1>1, <1>6 DEF SegmentOf
  <2>2. pts[n] <= p + f
    <3>1. CASE cur <= n /\ n <= t
      BY <1>6, <3>1
    <3>2. CASE ~(cur <= n /\ n <= t)
      <4>1. Fraction(u, n) = 0
        <5>1. Segment(u, n) = 0
          BY <1>4, <3>2 DEF SegmentOf
        <5>2. (staked[u] * 0) \div RAY = 0
          BY TypedParts, UsdcConstants
        <5> QED BY <5>1, <5>2 DEF Fraction
      <4> QED BY <1>2, <1>6, <3>2, <4>1 DEF f
    <3> QED BY <3>1, <3>2
  <2> QED BY <1>3, <2>1, <2>2 DEF p, f
<1>7. CASE /\ cur < k /\ w = new[k - 1] /\ staked'[u] = staked[u]
           /\ pts[n] <= p + IF cur <= n /\ n <= k - 1 THEN f ELSE 0
  <2>1. CASE n < k /\ cur <= n
    <3>1. SegmentOf(n, new, t, stored, k, w) = 0
      BY <1>1, <2>1 DEF SegmentOf
    <3>2. n <= k - 1
      BY <1>1, <2>1
    <3> QED BY <1>3, <1>7, <2>1, <3>1, <3>2 DEF p, f
  <2>2. CASE n < k /\ ~(cur <= n)
    <3>1. SegmentOf(n, new, t, stored, k, w) = 0 /\ SegmentOf(n, new, t, stored, cur, snap) = 0
      BY <1>1, <2>2 DEF SegmentOf
    <3>2. pts[n] <= p
      BY <1>2, <1>7, <2>2
    <3> QED BY <1>3, <1>4, <1>7, <3>1, <3>2 DEF p
  <2>3. CASE ~(n < k)
    <3>1. n # cur /\ cur <= n /\ k <= n /\ ~(n <= k - 1)
      BY <1>1, <1>7, <2>3
    <3>2. (IF n = k THEN w ELSE new[n - 1]) = new[n - 1]
      BY <1>7
    <3>3. SegmentOf(n, new, t, stored, k, w) = SegmentOf(n, new, t, stored, cur, snap)
      BY <3>1, <3>2 DEF SegmentOf
    <3>4. pts[n] <= p
      BY <1>2, <1>7, <3>1
    <3> QED BY <1>3, <1>4, <1>7, <3>3, <3>4 DEF p
  <2> QED BY <1>1, <2>1, <2>2, <2>3
<1> QED BY <1>6, <1>7 DEF Captures, p, f, cur, new, stored

(* So that nobody's due grows. *)
LEMMA CapturePoints ==
  ASSUME Typed, PointsWithin, PrincipalType', NEW u \in Stakers,
         NEW t \in syncedRewardEpoch..epoch, NEW k \in userCurrentEpoch[u]..t, NEW w \in Nat,
         w <= usdcRewardPerTokenStored,
         NEW pts \in [Epochs -> Nat], Captures(u, t, k, w, pts),
         userEpochClaimed' \in [Stakers -> [Epochs -> BOOLEAN]],
         userLastClaimedEpoch' \in [Stakers -> Epochs]
  PROVE  PointsType' /\ CursorsBehind' /\ PointsWithin'
<1>1. /\ userPoints' = [userPoints EXCEPT ![u] = pts]
      /\ userCurrentEpoch' = [userCurrentEpoch EXCEPT ![u] = k]
      /\ userRevenuePerTokenSnap' = [userRevenuePerTokenSnap EXCEPT ![u] = w]
      /\ usdcRewardPerTokenStored' = usdcRewardPerTokenStored
      /\ rewardEpochs' \in [Epochs -> RewardEpoch] /\ Ends(rewardEpochs') = Ends(ClosedEpochs(t))
      /\ syncedRewardEpoch' = t /\ currentEpochRevenuePoints' \in Nat
      /\ UNCHANGED <<revenue, epoch>> /\ Closes(t)
      /\ \A v \in Stakers : v # u => staked'[v] = staked[v]
  BY DEF Captures, Closes
<1>2. /\ userPoints \in [Stakers -> [Epochs -> Nat]] /\ userCurrentEpoch \in [Stakers -> Epochs]
      /\ userRevenuePerTokenSnap \in [Stakers -> Nat] /\ CursorsBehind
  BY DEF Typed, PointsType
<1>3. /\ MaxEpoch \in Nat /\ Epochs = 0..MaxEpoch /\ firstRewardEpoch \in Nat
      /\ firstRewardEpoch <= syncedRewardEpoch /\ syncedRewardEpoch \in Nat /\ epoch \in Epochs
      /\ \A v \in Stakers : userCurrentEpoch[v] \in Epochs /\ userCurrentEpoch[v] <= syncedRewardEpoch
  BY TypedParts
<1>4. k \in Epochs /\ t \in firstRewardEpoch..epoch /\ k <= t
  BY <1>3
<1>5. PointsType'
  BY <1>1, <1>2, <1>4 DEF PointsType
<1>6. CursorsBehind'
  <2>1. ASSUME NEW v \in Stakers
        PROVE  userCurrentEpoch'[v] <= t /\ userRevenuePerTokenSnap'[v] <= usdcRewardPerTokenStored
    <3>1. /\ userCurrentEpoch[v] \in Epochs /\ userCurrentEpoch[v] <= syncedRewardEpoch
          /\ userRevenuePerTokenSnap[v] <= usdcRewardPerTokenStored
      BY <1>2, <1>3 DEF CursorsBehind
    <3>2. userCurrentEpoch[v] <= t
      BY <1>3, <3>1
    <3> QED BY <1>1, <1>2, <1>4, <3>1, <3>2
  <2>2. \A n \in Epochs : Ends(rewardEpochs')[n] <= usdcRewardPerTokenStored
    BY <1>1, Closing
  <2> QED BY <1>1, <2>1, <2>2 DEF CursorsBehind
<1>7. ASSUME NEW v \in Stakers, NEW n \in 1..MaxEpoch
      PROVE  PointsDue(v, n)' \in Nat /\ PointsDue(v, n)' <= PointsDue(v, n)
  <2>1. n \in Epochs
    BY <1>3
  <2>2. PointsDue(v, n) \in Nat
    BY <2>1, PointsDueNat
  <2>3. CASE v # u
    <3>1. /\ userCurrentEpoch'[v] = userCurrentEpoch[v] /\ userPoints'[v] = userPoints[v]
          /\ userRevenuePerTokenSnap'[v] = userRevenuePerTokenSnap[v] /\ staked'[v] = staked[v]
      BY <1>1, <1>2, <2>3
    <3>2. Segment(v, n)' = Segment(v, n)
      BY <1>1, <2>1, <3>1, OtherSegments
    <3>3. PointsDue(v, n)' = PointsDue(v, n)
      BY <3>1, <3>2 DEF PointsDue
    <3> QED BY <2>2, <3>3
  <2>4. CASE v = u
    <3> DEFINE x == pts[n]
               p == userPoints[u][n]
               f == Fraction(u, n)
               share == staked[u] * Segment(u, n)
               s2 == staked'[u]
    <3>1. userPoints'[v][n] = x
      BY <1>1, <1>2, <2>1, <2>4
    <3>2. x \in Nat /\ p \in Nat /\ f \in Nat /\ share \in Nat /\ RAY * f <= share /\ s2 \in Nat
      BY <1>2, <2>1, FractionBound DEF PrincipalType
    <3>3. PointsDue(u, n) = RAY * p + share
      BY DEF PointsDue
    <3>4. \/ Segment(u, n)' = 0 /\ x <= p + f
          \/ Segment(u, n)' = Segment(u, n) /\ staked'[u] = staked[u] /\ x <= p
      BY <2>1, CapturedSegments
    <3>5. PointsDue(v, n)' = RAY * x + s2 * Segment(u, n)'
      BY <2>4, <3>1 DEF PointsDue
    <3>6. CASE Segment(u, n)' = 0 /\ x <= p + f
      <4> HIDE DEF x, p, f, share, s2
      <4>1. s2 * Segment(u, n)' = 0
        BY <3>2, <3>6
      <4>2. RAY * x <= RAY * (p + f) /\ RAY * x \in Nat
        <5>1. p + f \in Nat
          BY <3>2
        <5> QED BY <3>2, <3>6, <5>1, TimesMonotone, TimesNat, UsdcConstants
      <4>3. RAY * (p + f) = RAY * p + RAY * f /\ RAY * p \in Nat /\ RAY * f \in Nat
        BY <3>2, TimesNat, UsdcConstants
      <4>4. RAY * x <= RAY * p + share
        BY <3>2, <4>2, <4>3
      <4> QED BY <2>4, <3>3, <3>5, <4>1, <4>2, <4>4
    <3>7. CASE Segment(u, n)' = Segment(u, n) /\ staked'[u] = staked[u] /\ x <= p
      <4>1. PointsDue(v, n)' = RAY * x + share
        BY <3>5, <3>7
      <4> HIDE DEF x, p, f, share, s2
      <4>2. RAY * x <= RAY * p /\ RAY * x \in Nat /\ RAY * p \in Nat
        BY <3>2, <3>7, TimesMonotone, TimesNat, UsdcConstants
      <4> QED BY <2>4, <3>2, <3>3, <4>1, <4>2
    <3> QED BY <3>4, <3>6, <3>7
  <2> QED BY <2>3, <2>4
<1>8. PointsWithin'
  BY <1>1, <1>7, DuesShrink
<1> QED BY <1>5, <1>6, <1>8

(* Without a claim, the claimed epochs stay over: a capture starts at the  *)
(* staker's own epoch, which is past them.                                 *)
LEMMA CaptureClaims ==
  ASSUME Typed, ClaimedEpochsFinal, NEW u \in Stakers,
         NEW t \in syncedRewardEpoch..epoch, NEW k \in userCurrentEpoch[u]..t, NEW w,
         NEW pts \in [Epochs -> Nat], Captures(u, t, k, w, pts),
         UNCHANGED <<userEpochClaimed, userLastClaimedEpoch>>
  PROVE  ClaimedEpochsFinal'
<1> SUFFICES ASSUME NEW v \in Stakers, NEW n \in firstRewardEpoch..MaxEpoch
             PROVE  /\ userEpochClaimed'[v][n] => userPoints'[v][n] = 0 /\ n < userCurrentEpoch'[v]
                    /\ n < userLastClaimedEpoch'[v] => userEpochClaimed'[v][n]
  BY DEF ClaimedEpochsFinal
<1>1. /\ userEpochClaimed[v][n] => userPoints[v][n] = 0 /\ n < userCurrentEpoch[v]
      /\ n < userLastClaimedEpoch[v] => userEpochClaimed[v][n]
  BY DEF ClaimedEpochsFinal
<1>2. /\ userPoints \in [Stakers -> [Epochs -> Nat]] /\ userCurrentEpoch \in [Stakers -> Epochs]
      /\ Epochs = 0..MaxEpoch /\ MaxEpoch \in Nat /\ firstRewardEpoch \in Nat /\ n \in Epochs
      /\ userCurrentEpoch[u] \in Nat /\ t \in Int
  <2>1. /\ MaxEpoch \in Nat /\ Epochs = 0..MaxEpoch /\ firstRewardEpoch \in Nat
        /\ userCurrentEpoch[u] \in Epochs /\ syncedRewardEpoch \in Nat /\ epoch \in Epochs
    BY TypedParts
  <2>2. userPoints \in [Stakers -> [Epochs -> Nat]] /\ userCurrentEpoch \in [Stakers -> Epochs]
    BY DEF Typed, PointsType
  <2>3. n \in Epochs /\ t \in Int
    BY <2>1
  <2>4. userCurrentEpoch[u] \in Nat
    BY <2>1
  <2> QED BY <2>1, <2>2, <2>3, <2>4
<1>3. /\ userPoints' = [userPoints EXCEPT ![u] = pts]
      /\ userCurrentEpoch' = [userCurrentEpoch EXCEPT ![u] = k]
  BY DEF Captures
<1>4. CASE v = u /\ userEpochClaimed[v][n]
  <2>1. userPoints[u][n] = 0 /\ n < userCurrentEpoch[u]
    BY <1>1, <1>4
  <2>2. ~(userCurrentEpoch[u] <= n)
    BY <1>2, <2>1
  <2>3. pts[n] <= 0 + 0
    BY <1>2, <2>1, <2>2 DEF Captures
  <2>4. pts[n] = 0 /\ n < k
    BY <1>2, <2>1, <2>3
  <2> QED BY <1>1, <1>2, <1>3, <1>4, <2>4
<1>5. CASE v = u /\ ~userEpochClaimed[v][n]
  BY <1>1, <1>5
<1>6. CASE v # u
  BY <1>1, <1>2, <1>3, <1>6
<1> QED BY <1>4, <1>5, <1>6

(* The updateRewards modifier captures everything up to the current epoch. *)
LEMMA UpdatePoints ==
  ASSUME Typed, PointsWithin, ClaimedEpochsFinal, PrincipalType', NEW u \in Stakers,
         UpdateRewards(u), \A v \in Stakers : v # u => staked'[v] = staked[v],
         UNCHANGED <<usdcRewardPerTokenStored, revenue, epoch, userEpochClaimed, userLastClaimedEpoch>>
  PROVE  PointsInv'
<1> DEFINE pts == CapturedPoints(u, ClosedEpochs(epoch), epoch, epoch)
           stored == usdcRewardPerTokenStored
<1>1. /\ epoch \in syncedRewardEpoch..epoch /\ epoch \in userCurrentEpoch[u]..epoch
      /\ epoch \in Int /\ epoch <= epoch
  <2> DEFINE cur == userCurrentEpoch[u]
  <2>1. /\ MaxEpoch \in Nat /\ Epochs = 0..MaxEpoch /\ epoch \in Epochs /\ syncedRewardEpoch \in Nat
        /\ syncedRewardEpoch <= epoch /\ cur \in Epochs /\ cur <= syncedRewardEpoch
    BY TypedParts
  <2> HIDE DEF cur
  <2>2. epoch \in syncedRewardEpoch..epoch /\ epoch \in cur..epoch /\ epoch \in Int /\ epoch <= epoch
    BY <2>1
  <2> QED BY <2>2 DEF cur
<1>2. /\ pts \in [Epochs -> Nat]
      /\ \A n \in Epochs : pts[n] = userPoints[u][n] +
           IF userCurrentEpoch[u] <= n /\ n <= epoch THEN Fraction(u, n) ELSE 0
  BY <1>1, Captured
<1>3. /\ rewardEpochs' = ClosedEpochs(epoch) /\ currentEpochRevenuePoints' = OpenPoints(epoch)
      /\ syncedRewardEpoch' = epoch /\ userPoints' = [userPoints EXCEPT ![u] = pts]
      /\ userRevenuePerTokenSnap' = [userRevenuePerTokenSnap EXCEPT ![u] = stored]
      /\ userCurrentEpoch' = [userCurrentEpoch EXCEPT ![u] = epoch]
  BY DEF UpdateRewards
<1>4. ClosedEpochs(epoch) \in [Epochs -> RewardEpoch] /\ OpenPoints(epoch) \in Nat
  BY <1>1, Closing
<1>5. stored \in Nat /\ stored <= stored
  BY TypedParts
<1>6. \A n \in Epochs : pts[n] <=
        userPoints[u][n] + IF userCurrentEpoch[u] <= n /\ n <= epoch THEN Fraction(u, n) ELSE 0
  BY <1>2
<1> HIDE DEF pts
<1>7. Captures(u, epoch, epoch, stored, pts)
  BY <1>3, <1>4, <1>6 DEF Captures, Closes
<1>8. /\ userEpochClaimed' \in [Stakers -> [Epochs -> BOOLEAN]]
      /\ userLastClaimedEpoch' \in [Stakers -> Epochs]
  BY DEF Typed, PointsType
<1> HIDE DEF stored
<1>9. PointsType' /\ CursorsBehind' /\ PointsWithin'
  BY <1>1, <1>2, <1>5, <1>7, <1>8, CapturePoints DEF stored
<1>10. ClaimedEpochsFinal'
  BY <1>1, <1>2, <1>7, CaptureClaims
<1> QED BY <1>9, <1>10 DEF PointsInv

LEMMA CatchUpStep ==
  ASSUME Typed, PointsWithin, ClaimedEpochsFinal, PrincipalType', NEW u \in Stakers,
         NEW m \in 1..MaxEpoch, catchUpPoints(u, m)
  PROVE  PointsInv'
<1> DEFINE t == Smaller(syncedRewardEpoch + m, epoch)
           cur == userCurrentEpoch[u]
           k == Smaller(cur + m, t)
           w == Ends(ClosedEpochs(t))[k - 1]
           pts == CapturedPoints(u, ClosedEpochs(t), t, k - 1)
<1>1. /\ t \in syncedRewardEpoch..epoch /\ cur < k /\ k \in cur..t /\ k - 1 \in Epochs
      /\ k - 1 \in Int /\ k - 1 <= t
  <2>1. /\ MaxEpoch \in Nat /\ Epochs = 0..MaxEpoch /\ epoch \in Epochs /\ syncedRewardEpoch \in Nat
        /\ syncedRewardEpoch <= epoch /\ cur \in Epochs /\ cur <= syncedRewardEpoch
    BY TypedParts
  <2>2. k # cur
    BY DEF catchUpPoints
  <2> HIDE DEF cur
  <2>3. t \in syncedRewardEpoch..epoch /\ t \in Int /\ cur <= t
    BY <2>1 DEF Smaller
  <2> HIDE DEF t
  <2>4. k \in Int /\ k <= t /\ k > cur
    BY <2>1, <2>2, <2>3 DEF Smaller
  <2> HIDE DEF k
  <2>5. k - 1 \in Epochs /\ k \in cur..t /\ k - 1 <= t /\ k - 1 \in Int
    BY <2>1, <2>3, <2>4
  <2> QED BY <2>3, <2>4, <2>5
<1>2. /\ rewardEpochs' = ClosedEpochs(t) /\ currentEpochRevenuePoints' = OpenPoints(t)
      /\ syncedRewardEpoch' = t /\ userPoints' = [userPoints EXCEPT ![u] = pts]
      /\ userRevenuePerTokenSnap' =
           [userRevenuePerTokenSnap EXCEPT ![u] = ClosedEpochs(t)[k - 1].revenuePerTokenAtEnd]
      /\ userCurrentEpoch' = [userCurrentEpoch EXCEPT ![u] = k]
      /\ UNCHANGED <<staked, usdcRewardPerTokenStored, revenue, epoch, userEpochClaimed,
                     userLastClaimedEpoch>>
  BY DEF catchUpPoints, stakeVars, poolVars, antsVars
<1> HIDE DEF t, k
<1>3. w = ClosedEpochs(t)[k - 1].revenuePerTokenAtEnd
  BY <1>1 DEF Ends
<1>4. /\ ClosedEpochs(t) \in [Epochs -> RewardEpoch] /\ OpenPoints(t) \in Nat
      /\ w \in Nat /\ w <= usdcRewardPerTokenStored
  BY <1>1, Closing
<1>5. /\ pts \in [Epochs -> Nat]
      /\ \A n \in Epochs : pts[n] =
           userPoints[u][n] + IF cur <= n /\ n <= k - 1 THEN Fraction(u, n) ELSE 0
  BY <1>1, Captured
<1>6. \A n \in Epochs : pts[n] <=
        userPoints[u][n] + IF cur <= n /\ n <= k - 1 THEN Fraction(u, n) ELSE 0
  BY <1>5
<1> HIDE DEF pts
<1>7. Captures(u, t, k, w, pts)
  BY <1>1, <1>2, <1>3, <1>4, <1>6 DEF Captures, Closes
<1>8. /\ userEpochClaimed' \in [Stakers -> [Epochs -> BOOLEAN]]
      /\ userLastClaimedEpoch' \in [Stakers -> Epochs]
  BY <1>2 DEF Typed, PointsType
<1> HIDE DEF w
<1>9. PointsType' /\ CursorsBehind' /\ PointsWithin'
  BY <1>1, <1>4, <1>5, <1>7, <1>8, CapturePoints
<1>10. ClaimedEpochsFinal'
  BY <1>1, <1>2, <1>5, <1>7, CaptureClaims
<1> QED BY <1>9, <1>10 DEF PointsInv

(* Closing epochs, and nothing else. *)
LEMMA SyncStep ==
  ASSUME Typed, PointsWithin, ClaimedEpochsFinal, NEW m \in 1..MaxEpoch, syncRewardEpochs(m)
  PROVE  PointsInv'
<1> DEFINE t == Smaller(syncedRewardEpoch + m, epoch)
<1>1. t \in syncedRewardEpoch..epoch /\ t \in firstRewardEpoch..epoch /\ syncedRewardEpoch <= t
  BY TypedParts DEF Smaller
<1>2. /\ rewardEpochs' = ClosedEpochs(t) /\ currentEpochRevenuePoints' = OpenPoints(t)
      /\ syncedRewardEpoch' = t
      /\ UNCHANGED <<staked, usdcRewardPerTokenStored, revenue, epoch, userPoints,
                     userRevenuePerTokenSnap, userCurrentEpoch, userEpochClaimed,
                     userLastClaimedEpoch>>
  BY DEF syncRewardEpochs, stakeVars, poolVars, antsVars, pointVars
<1>3. ClosedEpochs(t) \in [Epochs -> RewardEpoch] /\ OpenPoints(t) \in Nat
  BY <1>1, Closing
<1> HIDE DEF t
<1>4. Closes(t)
  BY <1>2, <1>3 DEF Closes
<1>5. PointsType'
  BY <1>1, <1>2, <1>3 DEF Typed, PointsType
<1>6. CursorsBehind'
  <2>1. \A v \in Stakers : userCurrentEpoch[v] <= t
    <3>1. \A v \in Stakers : userCurrentEpoch[v] \in Nat /\ userCurrentEpoch[v] <= syncedRewardEpoch
      BY TypedParts
    <3> QED BY <1>1, <3>1, TypedParts
  <2>2. \A n \in Epochs : Ends(rewardEpochs')[n] <= usdcRewardPerTokenStored
    BY <1>1, <1>2, Closing
  <2> QED BY <1>2, <2>1, <2>2 DEF Typed, CursorsBehind
<1>7. ASSUME NEW v \in Stakers, NEW n \in 1..MaxEpoch
      PROVE  PointsDue(v, n)' \in Nat /\ PointsDue(v, n)' <= PointsDue(v, n)
  <2>1. n \in Epochs
    BY TypedParts
  <2>2. Segment(v, n)' = Segment(v, n)
    BY <1>1, <1>2, <1>4, <2>1, OtherSegments
  <2>3. PointsDue(v, n)' = PointsDue(v, n)
    BY <1>2, <2>2 DEF PointsDue
  <2> QED BY <2>1, <2>3, PointsDueNat
<1>8. PointsWithin'
  BY <1>2, <1>7, DuesShrink
<1>9. ClaimedEpochsFinal'
  BY <1>2 DEF ClaimedEpochsFinal
<1> QED BY <1>5, <1>6, <1>8, <1>9 DEF PointsInv

(* The greatest of the epochs asked for. *)
LEMMA GreatestNumber ==
  ASSUME NEW bound \in Nat, NEW T, T \subseteq 0..(bound - 1), T # {}
  PROVE  LET g == CHOOSE n \in T : \A m \in T : m <= n
         IN  g \in T /\ \A m \in T : m <= g
<1> DEFINE R == {j \in Nat : \E m \in T : j = bound - m}
<1>1. R \subseteq Nat /\ R # {}
  <2>1. PICK m \in T : TRUE
    OBVIOUS
  <2>2. bound - m \in Nat
    OBVIOUS
  <2> QED BY <2>2
<1>2. PICK j \in R : \A i \in R : j <= i
  <2> HIDE DEF R
  <2> QED BY <1>1, LeastNumber
<1>3. PICK g \in T : j = bound - g
  BY <1>2
<1>4. ASSUME NEW m \in T PROVE m <= g
  <2>1. bound - m \in R
    OBVIOUS
  <2>2. j <= bound - m
    BY <1>2, <2>1
  <2> QED BY <1>3, <2>2
<1>5. \E n \in T : \A m \in T : m <= n
  BY <1>4
<1> QED BY <1>5

(* The claim cursor passes only claimed epochs. *)
LEMMA Cursor ==
  ASSUME NEW u \in Stakers, userLastClaimedEpoch[u] \in Epochs,
         NEW claimed \in [Epochs -> BOOLEAN], NEW synced \in Epochs
  PROVE  /\ AdvancedCursor(u, claimed, synced) \in Epochs
         /\ \A n \in firstRewardEpoch..MaxEpoch :
              n < AdvancedCursor(u, claimed, synced) /\ ~(n < userLastClaimedEpoch[u]) => claimed[n]
<1> DEFINE last == userLastClaimedEpoch[u]
           from == Larger(last, firstRewardEpoch)
           limit == Larger(from, synced)
           stops == {n \in from..limit :
                       n >= synced \/ n = from + MAX_EPOCHS_PER_CAPTURE \/ ~claimed[n]}
           cursor == CHOOSE n \in stops : \A m \in stops : n <= m
<1>1. AdvancedCursor(u, claimed, synced) = cursor
  BY DEF AdvancedCursor
<1>2. MaxEpoch \in Nat /\ Epochs = 0..MaxEpoch /\ firstRewardEpoch \in 1..MaxEpoch
  BY UsdcConstants DEF Epochs
<1>3. last \in Epochs
  OBVIOUS
<1> HIDE DEF last
<1>4. /\ from \in Epochs /\ last <= from /\ firstRewardEpoch <= from
      /\ from \in Nat /\ (from = last \/ from = firstRewardEpoch)
  BY <1>2, <1>3 DEF Larger
<1> HIDE DEF from
<1>5. limit \in Epochs /\ limit \in Nat /\ from <= limit /\ synced <= limit
  BY <1>2, <1>4 DEF Larger
<1> HIDE DEF limit
<1>6. limit \in stops
  BY <1>2, <1>4, <1>5
<1>7. stops \subseteq Nat
  BY <1>4, <1>5
<1>8. cursor \in stops /\ \A m \in stops : cursor <= m
  <2> HIDE DEF stops
  <2>1. \E n \in stops : \A m \in stops : n <= m
    BY <1>6, <1>7, LeastNumber
  <2> QED BY <2>1
<1> HIDE DEF cursor
<1>9. cursor \in Epochs /\ cursor <= limit /\ cursor \in Nat
  BY <1>2, <1>4, <1>5, <1>8
<1>10. ASSUME NEW n \in firstRewardEpoch..MaxEpoch, n < cursor, ~(n < last) PROVE claimed[n]
  <2>1. n \in from..limit
    BY <1>2, <1>3, <1>4, <1>5, <1>9, <1>10
  <2>2. n \notin stops
    <3>1. n \in Nat
      BY <1>2
    <3> HIDE DEF stops
    <3> QED BY <1>8, <1>9, <1>10, <3>1
  <2> QED BY <2>1, <2>2
<1> QED BY <1>1, <1>9, <1>10 DEF last

(* A claim captures everything up to the epochs it closes, takes the       *)
(* points of the epochs claimed, and marks them.                           *)
LEMMA ClaimAntsStep ==
  ASSUME Typed, PointsWithin, ClaimedEpochsFinal, PrincipalType', operatorFeeBps \in OperatorFees,
         NEW u \in Stakers, NEW ids \in (SUBSET (0..epoch - 1)) \ {{}}, NEW pots \in [ids -> Pots],
         claimAnts(u, ids, pots)
  PROVE  PointsInv'
<1> DEFINE greatest == CHOOSE n \in ids : \A m \in ids : m <= n
           target == 1 + greatest
           t == Larger(target, syncedRewardEpoch)
           re == ClosedEpochs(target)
           all == CapturedPoints(u, re, t, t)
           fresh == {n \in ids : ~userEpochClaimed[u][n]}
           paying == {n \in fresh : all[n] > 0 /\ re[n].totalPoints > 0}
           funding == {n \in paying : ~re[n].funded}
           potOf(n) == IF n \in funding THEN NetOfFee(pots[n]) ELSE re[n].antsPot
           claimed == [n \in Epochs |-> userEpochClaimed[u][n] \/ n \in ids]
           pts == [n \in Epochs |-> IF n \in fresh THEN 0 ELSE all[n]]
           funded(n) == [re[n] EXCEPT !.antsPot = potOf(n), !.funded = TRUE]
           stored == usdcRewardPerTokenStored
           cur == userCurrentEpoch[u]
<1>1. /\ rewardEpochs' = [n \in Epochs |-> IF n \in funding THEN funded(n) ELSE re[n]]
      /\ currentEpochRevenuePoints' = OpenPoints(target)
      /\ syncedRewardEpoch' = t /\ userPoints' = [userPoints EXCEPT ![u] = pts]
      /\ userRevenuePerTokenSnap' = [userRevenuePerTokenSnap EXCEPT ![u] = stored]
      /\ userCurrentEpoch' = [userCurrentEpoch EXCEPT ![u] = t]
      /\ userEpochClaimed' = [userEpochClaimed EXCEPT ![u] = claimed]
      /\ userLastClaimedEpoch' = [userLastClaimedEpoch EXCEPT ![u] = AdvancedCursor(u, claimed, t)]
      /\ UNCHANGED <<staked, usdcRewardPerTokenStored, revenue, epoch>>
  BY DEF claimAnts, stakeVars, poolVars
<1>2. /\ MaxEpoch \in Nat /\ Epochs = 0..MaxEpoch /\ epoch \in Epochs /\ syncedRewardEpoch \in Nat
      /\ syncedRewardEpoch <= epoch /\ cur \in Epochs /\ cur <= syncedRewardEpoch /\ stored \in Nat
      /\ epoch \in Nat
  BY TypedParts
<1>3. /\ ids \subseteq Epochs /\ ids \subseteq 0..(epoch - 1) /\ ids # {}
  BY <1>2
<1>4. greatest \in ids /\ \A m \in ids : m <= greatest
  BY <1>2, <1>3, GreatestNumber
<1> HIDE DEF greatest, cur
<1>5. /\ t \in syncedRewardEpoch..epoch /\ t \in cur..t /\ t \in Int /\ t \in Epochs /\ t <= t
      /\ (\A m \in ids : m < t) /\ cur <= t
  <2>1. greatest \in Nat /\ greatest <= epoch - 1 /\ \A m \in ids : m \in Nat
    BY <1>2, <1>3, <1>4
  <2>2. target \in Nat /\ target <= epoch /\ \A m \in ids : m < target
    BY <1>2, <1>4, <2>1
  <2> HIDE DEF target
  <2>3. t \in Nat /\ t <= epoch /\ syncedRewardEpoch <= t /\ target <= t
    BY <1>2, <2>2 DEF Larger
  <2> HIDE DEF t
  <2>4. \A m \in ids : m < t
    BY <2>1, <2>2, <2>3
  <2> QED BY <1>2, <2>3, <2>4
<1>6. re = ClosedEpochs(t) /\ OpenPoints(target) = OpenPoints(t)
  <2>1. target \in Int
    BY <1>2, <1>3, <1>4
  <2> HIDE DEF target
  <2>2. CASE target > syncedRewardEpoch
    BY <1>2, <2>1, <2>2 DEF Larger
  <2>3. CASE ~(target > syncedRewardEpoch)
    <3>1. t = syncedRewardEpoch
      BY <2>3 DEF Larger
    <3>2. \A n \in Epochs : ~(syncedRewardEpoch <= n /\ n < target) /\ ~(syncedRewardEpoch <= n /\ n < t)
      BY <1>2, <2>1, <2>3, <3>1
    <3>3. ClosedEpochs(target) = ClosedEpochs(t)
      BY <3>2 DEF ClosedEpochs
    <3>4. ~(t > syncedRewardEpoch)
      BY <1>2, <3>1
    <3> QED BY <2>3, <3>3, <3>4 DEF OpenPoints
  <2> QED BY <2>2, <2>3
<1> HIDE DEF target, t
<1>7. /\ re \in [Epochs -> RewardEpoch] /\ OpenPoints(t) \in Nat
  BY <1>5, <1>6, Closing
<1>8. /\ all \in [Epochs -> Nat]
      /\ \A n \in Epochs : all[n] = userPoints[u][n] + IF cur <= n /\ n <= t THEN Fraction(u, n) ELSE 0
  BY <1>5, <1>6, Captured DEF cur
<1> HIDE DEF all
<1>9. /\ pts \in [Epochs -> Nat]
      /\ \A n \in Epochs : pts[n] <= userPoints[u][n] + IF cur <= n /\ n <= t THEN Fraction(u, n) ELSE 0
  <2>1. pts \in [Epochs -> Nat]
    BY <1>8
  <2>2. ASSUME NEW n \in Epochs PROVE pts[n] <= all[n]
    <3>1. all[n] \in Nat
      BY <1>8
    <3>2. pts[n] = 0 \/ pts[n] = all[n]
      OBVIOUS
    <3> HIDE DEF pts
    <3> QED BY <3>1, <3>2
  <2> HIDE DEF pts
  <2> QED BY <1>8, <2>1, <2>2
<1>10. /\ rewardEpochs' \in [Epochs -> RewardEpoch] /\ Ends(rewardEpochs') = Ends(ClosedEpochs(t))
  <2>1. ASSUME NEW n \in Epochs, n \in funding
        PROVE  funded(n) \in RewardEpoch /\ funded(n).revenuePerTokenAtEnd = re[n].revenuePerTokenAtEnd
    <3>1. n \in ids
      BY <2>1
    <3>2. pots[n] \in Nat
      BY <3>1, DiemAssumption
    <3>3. potOf(n) \in Nat
      BY <2>1, <3>2, NetOfFeeNat
    <3>4. re[n] \in RewardEpoch
      BY <1>7
    <3> HIDE DEF re, potOf
    <3> QED BY <3>3, <3>4 DEF RewardEpoch
  <2> HIDE DEF funding, funded
  <2>2. \A n \in Epochs : /\ rewardEpochs'[n] \in RewardEpoch
                           /\ rewardEpochs'[n].revenuePerTokenAtEnd = re[n].revenuePerTokenAtEnd
    BY <1>1, <1>7, <2>1
  <2>3. rewardEpochs' = [n \in Epochs |-> rewardEpochs'[n]]
    BY <1>1
  <2>4. Ends(rewardEpochs') = Ends(re)
    BY <2>2 DEF Ends
  <2> QED BY <1>6, <2>2, <2>3, <2>4
<1>11. Captures(u, t, t, stored, pts)
  <2> HIDE DEF pts, re, claimed, funding, funded
  <2> QED BY <1>1, <1>6, <1>7, <1>9, <1>10 DEF Captures, Closes, cur
<1>12. /\ userEpochClaimed \in [Stakers -> [Epochs -> BOOLEAN]]
       /\ userLastClaimedEpoch \in [Stakers -> Epochs]
       /\ userPoints \in [Stakers -> [Epochs -> Nat]] /\ userCurrentEpoch \in [Stakers -> Epochs]
  BY DEF Typed, PointsType
<1>13. claimed \in [Epochs -> BOOLEAN]
  BY <1>12
<1>14. /\ AdvancedCursor(u, claimed, t) \in Epochs
       /\ \A n \in firstRewardEpoch..MaxEpoch :
            n < AdvancedCursor(u, claimed, t) /\ ~(n < userLastClaimedEpoch[u]) => claimed[n]
  <2> HIDE DEF claimed
  <2> QED BY <1>5, <1>12, <1>13, Cursor
<1>15. PointsType' /\ CursorsBehind' /\ PointsWithin'
  <2> HIDE DEF claimed, pts, re, funding, funded
  <2>1. userEpochClaimed' \in [Stakers -> [Epochs -> BOOLEAN]]
    BY <1>1, <1>12, <1>13
  <2>2. userLastClaimedEpoch' \in [Stakers -> Epochs]
    BY <1>1, <1>12, <1>14
  <2>3. stored <= stored
    BY <1>2
  <2> QED BY <1>2, <1>5, <1>9, <1>11, <2>1, <2>2, <2>3, CapturePoints DEF cur
<1>16. ClaimedEpochsFinal'
  <2> SUFFICES ASSUME NEW v \in Stakers, NEW n \in firstRewardEpoch..MaxEpoch
               PROVE  /\ userEpochClaimed'[v][n] => userPoints'[v][n] = 0 /\ n < userCurrentEpoch'[v]
                      /\ n < userLastClaimedEpoch'[v] => userEpochClaimed'[v][n]
    BY DEF ClaimedEpochsFinal
  <2>1. /\ userEpochClaimed[v][n] => userPoints[v][n] = 0 /\ n < userCurrentEpoch[v]
        /\ n < userLastClaimedEpoch[v] => userEpochClaimed[v][n]
    BY DEF ClaimedEpochsFinal
  <2>2. n \in Epochs /\ n \in Nat /\ cur \in Nat
    BY <1>2, UsdcConstants
  <2>3. CASE v # u
    <3> HIDE DEF claimed, pts, re, funding, funded
    <3> QED BY <1>1, <1>12, <2>1, <2>3
  <2>4. CASE v = u
    <3>1. /\ userEpochClaimed'[v] = claimed /\ userPoints'[v] = pts /\ userCurrentEpoch'[v] = t
          /\ userLastClaimedEpoch'[v] = AdvancedCursor(u, claimed, t)
      <4> HIDE DEF claimed, pts, re, funding, funded
      <4> QED BY <1>1, <1>12, <2>4
    <3>2. claimed[n] <=> userEpochClaimed[u][n] \/ n \in ids
      BY <2>2
    <3>3. ASSUME userEpochClaimed[u][n] PROVE pts[n] = 0 /\ n < t
      <4>1. userPoints[u][n] = 0 /\ n < cur
        BY <2>1, <2>4, <3>3 DEF cur
      <4>2. ~(cur <= n)
        BY <2>2, <4>1
      <4>3. all[n] = 0
        BY <1>8, <2>2, <4>1, <4>2
      <4>4. pts[n] = 0
        BY <2>2, <4>3
      <4> QED BY <1>5, <2>2, <4>1, <4>4
    <3>4. ASSUME n \in ids, ~userEpochClaimed[u][n] PROVE pts[n] = 0 /\ n < t
      <4>1. n \in fresh
        BY <3>4
      <4> QED BY <1>5, <2>2, <3>4, <4>1
    <3>5. n < AdvancedCursor(u, claimed, t) => claimed[n]
      <4>1. CASE n < userLastClaimedEpoch[u]
        BY <2>1, <2>4, <3>2, <4>1
      <4>2. CASE ~(n < userLastClaimedEpoch[u])
        BY <1>14, <4>2
      <4> QED BY <4>1, <4>2
    <3> HIDE DEF claimed, pts, fresh
    <3> QED BY <3>1, <3>2, <3>3, <3>4, <3>5
  <2> QED BY <2>3, <2>4
<1> QED BY <1>15, <1>16 DEF PointsInv

(* A payout closes the epochs first, so that it lengthens the segments of  *)
(* the current epoch only, and everybody's by the same.                    *)
LEMMA DistributePoints ==
  ASSUME Typed, PointsWithin, ClaimedEpochsFinal, totalStaked = Sum(staked, NumStakers),
         NEW gross \in Payouts, PayoutDistributed(gross)
  PROVE  PointsInv'
<1> DEFINE amount == netPayout(gross)
           delta == Delta(gross)
           part == Distributable(gross)
           stored == usdcRewardPerTokenStored
           new == Ends(ClosedEpochs(epoch))
<1>1. /\ totalStaked > 0 /\ usdcRewardPerTokenStored' = stored + delta
      /\ rewardEpochs' = ClosedEpochs(epoch) /\ syncedRewardEpoch' = epoch
      /\ currentEpochRevenuePoints' = OpenPoints(epoch) + part
      /\ revenue' = [revenue EXCEPT ![epoch] = revenue[epoch] + amount]
      /\ UNCHANGED <<staked, epoch, userPoints, userRevenuePerTokenSnap, userCurrentEpoch,
                     userEpochClaimed, userLastClaimedEpoch>>
  BY DEF PayoutDistributed, Delta, Distributable, netPayout, stakeVars, pointVars, antsVars
<1>2. /\ amount \in Nat /\ delta \in Nat /\ part \in Nat /\ delta * totalStaked <= RAY * amount
  BY <1>1, Distribution DEF Typed, UsdcType
<1>3. /\ MaxEpoch \in Nat /\ Epochs = 0..MaxEpoch /\ epoch \in Epochs /\ stored \in Nat
      /\ syncedRewardEpoch \in Nat /\ syncedRewardEpoch <= epoch /\ firstRewardEpoch \in Nat
      /\ firstRewardEpoch <= syncedRewardEpoch /\ 1 <= firstRewardEpoch /\ epoch \in Nat
  BY TypedParts
<1>4. epoch \in syncedRewardEpoch..epoch /\ epoch \in firstRewardEpoch..epoch /\ epoch - 1 \in Epochs
  BY <1>3
<1>5. /\ ClosedEpochs(epoch) \in [Epochs -> RewardEpoch] /\ OpenPoints(epoch) \in Nat
      /\ new \in [Epochs -> Nat] /\ \A n \in Epochs : new[n] <= stored
  BY <1>4, Closing
<1> HIDE DEF amount, delta, part, stored, new
<1>6. PointsType'
  BY <1>1, <1>2, <1>4, <1>5 DEF Typed, PointsType
<1>7. CursorsBehind'
  <2>1. ASSUME NEW v \in Stakers
        PROVE  userCurrentEpoch'[v] <= epoch /\ userRevenuePerTokenSnap'[v] <= stored + delta
    <3>1. /\ userCurrentEpoch[v] \in Nat /\ userCurrentEpoch[v] <= syncedRewardEpoch
          /\ userRevenuePerTokenSnap[v] \in Nat /\ userRevenuePerTokenSnap[v] <= stored
      BY TypedParts DEF Typed, CursorsBehind, stored
    <3> QED BY <1>1, <1>2, <1>3, <3>1
  <2>2. ASSUME NEW n \in Epochs PROVE Ends(rewardEpochs')[n] <= stored + delta
    <3>1. Ends(rewardEpochs')[n] = new[n] /\ new[n] \in Nat /\ new[n] <= stored
      BY <1>1, <1>5 DEF new
    <3> QED BY <1>2, <1>3, <3>1
  <2> QED BY <1>1, <2>1, <2>2 DEF CursorsBehind
<1>8. ASSUME NEW v \in Stakers, NEW n \in Epochs
      PROVE  Segment(v, n)' = IF n = epoch THEN Segment(v, n) + delta ELSE Segment(v, n)
  <2> DEFINE cur == userCurrentEpoch[v]
             snap == userRevenuePerTokenSnap[v]
  <2>1. Segment(v, n) = SegmentOf(n, new, epoch, stored, cur, snap)
    BY <1>4, ClosingKeeps DEF new, stored
  <2>2. Segment(v, n)' = SegmentOf(n, new, epoch, stored + delta, cur, snap)
    BY <1>1 DEF Segment, new
  <2>3. cur \in Nat /\ cur <= syncedRewardEpoch /\ snap \in Nat /\ snap <= stored
    BY TypedParts DEF Typed, CursorsBehind, stored
  <2> HIDE DEF cur, snap
  <2>4. CASE n = epoch
    <3> DEFINE start == IF n = cur THEN snap ELSE new[n - 1]
    <3>1. start \in Nat /\ start <= stored
      BY <1>4, <1>5, <2>3, <2>4
    <3>2. cur <= n /\ n <= epoch /\ ~(n < epoch)
      BY <1>3, <2>3, <2>4
    <3>3. /\ SegmentOf(n, new, epoch, stored, cur, snap) = IF stored > start THEN stored - start ELSE 0
          /\ SegmentOf(n, new, epoch, stored + delta, cur, snap) =
               IF stored + delta > start THEN (stored + delta) - start ELSE 0
      BY <3>2 DEF SegmentOf
    <3> HIDE DEF start
    <3> QED BY <1>2, <1>3, <2>1, <2>2, <2>4, <3>1, <3>3
  <2>5. CASE n # epoch
    <3>1. n < epoch \/ ~(n <= epoch)
      BY <1>3, <2>5
    <3>2. SegmentOf(n, new, epoch, stored, cur, snap) = SegmentOf(n, new, epoch, stored + delta, cur, snap)
      BY <3>1 DEF SegmentOf
    <3> QED BY <2>1, <2>2, <2>5, <3>2
  <2> QED BY <2>4, <2>5
<1>9. ASSUME NEW v \in Stakers, NEW n \in Epochs
      PROVE  /\ PointsDue(v, n) \in Nat /\ PointsDue(v, n)' \in Nat
             /\ PointsDue(v, n)' = IF n = epoch THEN PointsDue(v, n) + delta * staked[v] ELSE PointsDue(v, n)
  <2> DEFINE s == staked[v]
             seg == Segment(v, n)
             base == RAY * userPoints[v][n]
  <2>1. PointsDue(v, n) = base + s * seg /\ PointsDue(v, n)' = base + s * Segment(v, n)'
    BY <1>1 DEF PointsDue
  <2>2. PointsDue(v, n) \in Nat /\ s \in Nat /\ seg \in Nat /\ userPoints[v][n] \in Nat
    BY PointsDueNat, TypedParts, FractionBound
  <2>3. base \in Nat
    BY <2>2, TimesNat, UsdcConstants
  <2> HIDE DEF s, seg, base
  <2>4. CASE n = epoch
    <3>1. Segment(v, n)' = seg + delta
      BY <1>8, <2>4 DEF seg
    <3>2. s * (seg + delta) = s * seg + delta * s /\ s * seg \in Nat /\ delta * s \in Nat
      BY <1>2, <2>2, TimesNat
    <3>3. PointsDue(v, n)' = PointsDue(v, n) + delta * s
      BY <2>1, <2>3, <3>1, <3>2
    <3> QED BY <2>2, <2>4, <3>2, <3>3 DEF s
  <2>5. CASE n # epoch
    BY <1>8, <2>1, <2>2, <2>5 DEF seg
  <2> QED BY <2>4, <2>5
<1>10. PointsWithin'
  <2> SUFFICES ASSUME NEW n \in 1..MaxEpoch
               PROVE  Sum(PointsDues(n)', NumStakers) <= RAY * revenue'[n]
    BY DEF PointsWithin
  <2>1. n \in Epochs /\ revenue \in [Epochs -> Nat] /\ revenue[n] \in Nat
    BY <1>3 DEF Typed, UsdcType
  <2>2. PointsDues(n) \in [Stakers -> Nat] /\ PointsDues(n)' \in [Stakers -> Nat]
    BY <1>9, <2>1 DEF PointsDues
  <2>3. Sum(PointsDues(n), NumStakers) <= RAY * revenue[n]
    BY DEF PointsWithin
  <2>4. CASE n # epoch
    <3>1. PointsDues(n)' = PointsDues(n)
      BY <1>9, <2>1, <2>4 DEF PointsDues
    <3>2. revenue'[n] = revenue[n]
      BY <1>1, <2>1, <2>4
    <3> QED BY <2>3, <3>1, <3>2
  <2>5. CASE n = epoch
    <3> DEFINE d == Sum(PointsDues(n), NumStakers)
               r == revenue[n]
    <3>1. \A v \in Stakers : PointsDues(n)'[v] = PointsDues(n)[v] + delta * staked[v]
      BY <1>9, <2>1, <2>5 DEF PointsDues
    <3>2. staked \in [Stakers -> Nat] /\ totalStaked \in Nat
      BY DEF Typed, PrincipalType
    <3>3. Sum(PointsDues(n)', NumStakers) = d + delta * totalStaked
      BY <1>2, <2>2, <3>1, <3>2, StakerSumLinear
    <3>4. d \in Nat
      BY <2>2, StakerSumNat
    <3>5. revenue'[n] = r + amount
      BY <1>1, <2>1, <2>5
    <3>6. d <= RAY * r /\ r \in Nat
      BY <2>1, <2>3
    <3> HIDE DEF d, r
    <3>7. RAY * (r + amount) = RAY * r + RAY * amount
      BY <1>2, <3>6, UsdcConstants
    <3>8. RAY * r \in Nat /\ RAY * amount \in Nat /\ delta * totalStaked \in Nat
      BY <1>2, <3>2, <3>6, TimesNat, UsdcConstants
    <3> QED BY <1>2, <3>3, <3>4, <3>5, <3>6, <3>7, <3>8
  <2> QED BY <2>4, <2>5
<1>11. ClaimedEpochsFinal'
  BY <1>1 DEF ClaimedEpochsFinal
<1> QED BY <1>6, <1>7, <1>10, <1>11 DEF PointsInv

(* The steps that touch neither points nor revenue; an epoch may pass. *)
pointsVars == <<staked, usdcRewardPerTokenStored, revenue, epochVars, pointVars,
                userEpochClaimed, userLastClaimedEpoch>>

LEMMA OtherPoints ==
  ASSUME PointsInv, Typed, UNCHANGED pointsVars, epoch' \in Nat, epoch <= epoch'
  PROVE  PointsInv'
<1>1. UNCHANGED <<staked, usdcRewardPerTokenStored, revenue, rewardEpochs, syncedRewardEpoch,
                  currentEpochRevenuePoints, userPoints, userRevenuePerTokenSnap,
                  userCurrentEpoch, userEpochClaimed, userLastClaimedEpoch>>
  BY DEF pointsVars, epochVars, pointVars
<1>2. syncedRewardEpoch \in firstRewardEpoch..epoch'
  BY TypedParts
<1>3. PointsType'
  BY <1>1, <1>2 DEF PointsInv, PointsType
<1>4. CursorsBehind' /\ ClaimedEpochsFinal'
  BY <1>1 DEF PointsInv, CursorsBehind, ClaimedEpochsFinal
<1>5. PointsWithin'
  BY <1>1 DEF PointsInv, PointsWithin, PointsDues, PointsDue, Segment
<1> QED BY <1>3, <1>4, <1>5 DEF PointsInv

LEMMA PointsStep ==
  ASSUME PrincipalInv, PrincipalInv', UsdcInv, PointsInv, [Next]_vars
  PROVE  PointsInv'
<1>1. /\ Typed /\ PointsWithin /\ ClaimedEpochsFinal /\ PrincipalType' /\ PrincipalType
      /\ operatorFeeBps \in OperatorFees /\ totalStaked = Sum(staked, NumStakers)
  BY PrincipalParts DEF PrincipalInv, UsdcInv, UsdcType, PointsInv, Typed
<1>2. epoch \in Nat /\ epoch <= epoch
  BY <1>1, TypedParts
<1>3. ASSUME UNCHANGED pointsVars, UNCHANGED epoch PROVE PointsInv'
  BY <1>1, <1>2, <1>3, OtherPoints
<1>4. CASE UNCHANGED vars
  BY <1>3, <1>4 DEF vars, pointsVars, stakeVars, poolVars, antsVars
<1>5. ASSUME NEW u \in Stakers, NEW amount \in StakeAmounts, stake(u, amount) PROVE PointsInv'
  <2>1. staked' = [staked EXCEPT ![u] = staked[u] + amount] /\ staked \in [Stakers -> Nat]
    BY <1>1, <1>5 DEF stake, PrincipalType
  <2>2. \A v \in Stakers : v # u => staked'[v] = staked[v]
    BY <2>1
  <2> QED BY <1>1, <1>5, <2>2, UpdatePoints DEF stake, poolVars, antsVars
<1>6. ASSUME NEW u \in Stakers, NEW amount \in StakeAmounts, initiateUnstake(u, amount)
      PROVE  PointsInv'
  <2>1. staked' = [staked EXCEPT ![u] = staked[u] - amount] /\ staked \in [Stakers -> Nat]
    BY <1>1, <1>6 DEF initiateUnstake, PrincipalType
  <2>2. \A v \in Stakers : v # u => staked'[v] = staked[v]
    BY <2>1
  <2>3. /\ UpdateRewards(u)
        /\ UNCHANGED <<usdcRewardPerTokenStored, revenue, epoch, userEpochClaimed, userLastClaimedEpoch>>
    BY <1>6 DEF initiateUnstake, poolVars, antsVars
  <2> QED BY <1>1, <2>2, <2>3, UpdatePoints
<1>7. ASSUME NEW u \in Stakers, claimUsdc(u) PROVE PointsInv'
  <2>1. /\ UpdateRewards(u) /\ staked' = staked
        /\ UNCHANGED <<usdcRewardPerTokenStored, revenue, epoch, userEpochClaimed, userLastClaimedEpoch>>
    BY <1>7 DEF claimUsdc, stakeVars, antsVars
  <2> QED BY <1>1, <2>1, UpdatePoints
<1>8. ASSUME NEW u \in Stakers, NEW ids \in (SUBSET (0..epoch - 1)) \ {{}}, NEW pots \in [ids -> Pots],
             claimAnts(u, ids, pots)
      PROVE  PointsInv'
  BY <1>1, <1>8, ClaimAntsStep
<1>9. ASSUME NEW n \in 1..MaxEpoch, syncRewardEpochs(n) PROVE PointsInv'
  BY <1>1, <1>9, SyncStep
<1>10. ASSUME NEW n \in 1..MaxEpoch, NEW u \in Stakers, catchUpPoints(u, n) PROVE PointsInv'
  BY <1>1, <1>10, CatchUpStep
<1>11. ASSUME NEW gross \in Payouts, PayoutDistributed(gross) PROVE PointsInv'
  BY <1>1, <1>11, DistributePoints
<1>12. CASE NextEpoch
  <2>1. UNCHANGED pointsVars /\ epoch' = epoch + 1
    BY <1>12 DEF NextEpoch, pointsVars, stakeVars, poolVars, antsVars
  <2>2. epoch' \in Nat /\ epoch <= epoch'
    BY <1>2, <2>1
  <2> QED BY <1>1, <2>1, <2>2, OtherPoints
<1>13. ASSUME NEW coolDown \in CoolDowns, flush(coolDown) PROVE PointsInv'
  BY <1>3, <1>13 DEF flush, pointsVars, stakeVars, poolVars, antsVars
<1>14. ASSUME NEW b \in Batches, claimUnstakeBatch(b) PROVE PointsInv'
  BY <1>3, <1>14 DEF claimUnstakeBatch, pointsVars, stakeVars, poolVars, antsVars
<1>15. ASSUME NEW gross \in Payouts, PayoutKept(gross) PROVE PointsInv'
  BY <1>3, <1>15 DEF PayoutKept, pointsVars, stakeVars, antsVars
<1>16. CASE Tick
  BY <1>3, <1>16 DEF Tick, pointsVars, stakeVars, poolVars, antsVars
<1>17. ASSUME OwnerUnchanged PROVE PointsInv'
  BY <1>3, <1>17 DEF OwnerUnchanged, pointsVars, stakeVars, antsVars
<1>18. CASE Next
  BY <1>5, <1>6, <1>7, <1>8, <1>9, <1>10, <1>11, <1>12, <1>13, <1>14, <1>15, <1>16, <1>17, <1>18
  DEF Next, sweepOrphanUsdc, pause, setMaxTotalStake, setMinUnstakeBatchOpenSecs, setOperatorFee
<1> QED BY <1>4, <1>18

LEMMA PointsInit == Init => PointsInv
<1> SUFFICES ASSUME Init PROVE PointsInv
  OBVIOUS
<1> DEFINE none == [u \in Stakers |-> 0]
           start == [revenuePerTokenAtEnd |-> 0, totalPoints |-> 0, antsPot |-> 0, funded |-> FALSE]
<1>1. /\ epoch = firstRewardEpoch /\ syncedRewardEpoch = firstRewardEpoch
      /\ currentEpochRevenuePoints = 0 /\ rewardEpochs = [n \in Epochs |-> start]
      /\ userPoints = [u \in Stakers |-> [n \in Epochs |-> 0]]
      /\ userRevenuePerTokenSnap = none /\ userCurrentEpoch = none
      /\ userEpochClaimed = [u \in Stakers |-> [n \in Epochs |-> FALSE]]
      /\ userLastClaimedEpoch = none /\ staked = none /\ usdcRewardPerTokenStored = 0
      /\ revenue = [n \in Epochs |-> 0]
  BY DEF Init
<1>2. MaxEpoch \in Nat /\ Epochs = 0..MaxEpoch /\ firstRewardEpoch \in 1..MaxEpoch /\ 0 \in Epochs
  BY UsdcConstants DEF Epochs
<1>3. start \in RewardEpoch /\ start.revenuePerTokenAtEnd = 0
  BY DEF RewardEpoch
<1> HIDE DEF start
<1>4. PointsType
  BY <1>1, <1>2, <1>3 DEF PointsType
<1>5. \A n \in Epochs : Ends(rewardEpochs)[n] = 0
  BY <1>1, <1>3 DEF Ends
<1>6. CursorsBehind
  BY <1>1, <1>2, <1>5 DEF CursorsBehind
<1>7. ClaimedEpochsFinal
  BY <1>1, <1>2 DEF ClaimedEpochsFinal
<1>8. ASSUME NEW n \in 1..MaxEpoch PROVE Sum(PointsDues(n), NumStakers) <= RAY * revenue[n]
  <2>1. n \in Epochs /\ n \in Nat /\ n >= 1
    BY <1>2
  <2>2. ASSUME NEW u \in Stakers PROVE PointsDue(u, n) = 0
    <3>1. n - 1 \in Epochs
      BY <1>2, <2>1
    <3>2. /\ Ends(rewardEpochs)[n] = 0 /\ Ends(rewardEpochs)[n - 1] = 0
          /\ userCurrentEpoch[u] = 0 /\ userRevenuePerTokenSnap[u] = 0
      BY <1>1, <1>5, <2>1, <3>1
    <3>3. Segment(u, n) = 0
      BY <1>1, <2>1, <3>2 DEF Segment, SegmentOf
    <3>4. userPoints[u][n] = 0 /\ staked[u] = 0
      BY <1>1, <2>1
    <3>5. RAY * 0 + 0 * 0 = 0
      BY UsdcConstants
    <3> QED BY <3>3, <3>4, <3>5 DEF PointsDue
  <2>3. PointsDues(n) = none
    BY <2>2 DEF PointsDues
  <2>4. Sum(none, NumStakers) = 0
    BY SumZero, DiemConstants
  <2>5. revenue[n] = 0 /\ RAY * 0 = 0
    BY <1>1, <2>1, UsdcConstants
  <2> HIDE DEF none
  <2> QED BY <2>3, <2>4, <2>5
<1> QED BY <1>4, <1>6, <1>7, <1>8 DEF PointsInv, PointsWithin

LEMMA PointsCorrect == Spec => []PointsInv
BY PrincipalCorrect, UsdcCorrect, PointsInit, PointsStep, PTL DEF Spec

(* An epoch that a staker has claimed is over for it, for any number of    *)
(* stakers and epochs, however far captures and claims lag behind.         *)
THEOREM ClaimedEpochsFinalCorrect == Spec => []ClaimedEpochsFinal
<1>1. PointsInv => ClaimedEpochsFinal
  BY DEF PointsInv
<1> QED BY <1>1, PointsCorrect, PTL

(* The points of an epoch, captured or still to be captured, are within    *)
(* its revenue, for any number of stakers and epochs: no revenue counts in *)
(* two epochs or for stake that came later.                                *)
THEOREM EpochPointsCorrect == Spec => []EpochPointsWithinRevenue
<1>1. ASSUME PrincipalInv, UsdcInv, PointsInv PROVE EpochPointsWithinRevenue
  <2>1. Typed
    BY <1>1 DEF PrincipalInv, UsdcInv, PointsInv, Typed
  <2> SUFFICES ASSUME NEW n \in 1..MaxEpoch
               PROVE  Sum([u \in Stakers |-> userPoints[u][n]
                         + IF userCurrentEpoch[u] <= n /\ n <= syncedRewardEpoch
                           THEN SegmentPoints(u, n, rewardEpochs, syncedRewardEpoch) ELSE 0], NumStakers)
                        <= revenue[n]
    BY DEF EpochPointsWithinRevenue
  <2> DEFINE synced == syncedRewardEpoch
             points == [u \in Stakers |-> userPoints[u][n]
                          + IF userCurrentEpoch[u] <= n /\ n <= synced
                            THEN SegmentPoints(u, n, rewardEpochs, synced) ELSE 0]
             none == [u \in Stakers |-> 0]
             scaled == [u \in Stakers |-> none[u] + RAY * points[u]]
             r == revenue[n]
             o == Sum(points, NumStakers)
  <2>2. /\ MaxEpoch \in Nat /\ Epochs = 0..MaxEpoch /\ synced \in Nat /\ synced \in synced..epoch
        /\ synced \in Int /\ synced <= synced
    BY <2>1, TypedParts
  <2>3. n \in Epochs /\ r \in Nat
    BY <2>1, <2>2 DEF Typed, UsdcType
  <2>4. ClosedEpochs(synced) = rewardEpochs
    <3>1. rewardEpochs = [m \in Epochs |-> rewardEpochs[m]]
      BY <2>1 DEF Typed, PointsType
    <3>2. \A m \in Epochs : ~(synced <= m /\ m < synced)
      BY <2>2
    <3> QED BY <3>1, <3>2 DEF ClosedEpochs
  <2>5. ASSUME NEW u \in Stakers
        PROVE  points[u] \in Nat /\ RAY * points[u] <= PointsDue(u, n) /\ PointsDue(u, n) \in Nat
    <3> DEFINE all == CapturedPoints(u, rewardEpochs, synced, synced)
               p == userPoints[u][n]
               f == Fraction(u, n)
               share == staked[u] * Segment(u, n)
    <3>1. points[u] = all[n]
      BY <2>3 DEF CapturedPoints
    <3>2. /\ all \in [Epochs -> Nat]
          /\ all[n] = p + IF userCurrentEpoch[u] <= n /\ n <= synced THEN f ELSE 0
      BY <2>1, <2>2, <2>3, <2>4, Captured
    <3>3. p \in Nat /\ f \in Nat /\ share \in Nat /\ RAY * f <= share
      BY <2>1, <2>3, TypedParts, FractionBound
    <3>4. PointsDue(u, n) = RAY * p + share
      BY DEF PointsDue
    <3>5. all[n] \in Nat /\ all[n] <= p + f
      BY <2>3, <3>2, <3>3
    <3> DEFINE x == points[u]
    <3>6. x \in Nat /\ x <= p + f
      BY <3>1, <3>5
    <3> HIDE DEF all, p, f, share, x
    <3>7. RAY * x <= RAY * (p + f) /\ RAY * x \in Nat
      <4>1. p + f \in Nat
        BY <3>3
      <4> QED BY <3>6, <4>1, TimesMonotone, TimesNat, UsdcConstants
    <3>8. RAY * (p + f) = RAY * p + RAY * f /\ RAY * p \in Nat /\ RAY * f \in Nat
      BY <3>3, TimesNat, UsdcConstants
    <3>9. RAY * x <= RAY * p + share /\ RAY * p + share \in Nat
      BY <3>3, <3>7, <3>8
    <3> QED BY <3>4, <3>6, <3>9 DEF x
  <2>6. ASSUME NEW u \in Stakers PROVE scaled[u] \in Nat /\ scaled[u] <= PointsDue(u, n)
    <3>1. RAY * points[u] \in Nat
      BY <2>5, TimesNat, UsdcConstants
    <3>2. scaled[u] = RAY * points[u]
      <4> HIDE DEF points
      <4> QED BY <3>1
    <3> QED BY <2>5, <3>1, <3>2
  <2>7. /\ points \in [Stakers -> Nat] /\ none \in [Stakers -> Nat]
        /\ \A u \in Stakers : scaled[u] = none[u] + RAY * points[u]
    BY <2>5
  <2>8. scaled \in [Stakers -> Nat]
    BY <2>6
  <2>9. PointsDues(n) \in [Stakers -> Nat] /\ \A u \in Stakers : scaled[u] <= PointsDues(n)[u]
    BY <2>5, <2>6 DEF PointsDues
  <2>10. Sum(none, NumStakers) = 0
    BY SumZero, DiemConstants
  <2> HIDE DEF scaled, none, points
  <2>11. Sum(scaled, NumStakers) = Sum(none, NumStakers) + RAY * Sum(points, NumStakers)
    <3>1. RAY \in Nat
      BY UsdcConstants
    <3> QED BY <2>7, <2>8, <3>1, StakerSumLinear
  <2>12. Sum(scaled, NumStakers) <= Sum(PointsDues(n), NumStakers)
    BY <2>8, <2>9, StakerSumMonotone
  <2>13. Sum(PointsDues(n), NumStakers) <= RAY * r
    BY <1>1 DEF PointsInv, PointsWithin
  <2>14. Sum(PointsDues(n), NumStakers) \in Nat /\ o \in Nat
    BY <2>7, <2>9, StakerSumNat
  <2>15. RAY * o \in Nat /\ RAY * r \in Nat
    BY <2>3, <2>14, TimesNat, UsdcConstants
  <2>16. RAY * o <= RAY * r
    BY <2>10, <2>11, <2>12, <2>13, <2>14, <2>15
  <2>17. o <= r
    BY <2>3, <2>14, <2>16, TimesCancels, UsdcConstants
  <2> QED BY <2>17 DEF points
<1> QED BY <1>1, PrincipalCorrect, UsdcCorrect, PointsCorrect, PTL
=============================================================================
