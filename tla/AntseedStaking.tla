--------------------------- MODULE AntseedStaking ----------------------------
(***************************************************************************)
(* staking/AntseedStaking.sol with the slash rule of                       *)
(* staking/AntseedSlashing.sol: seller stake in USDC, bound to an ERC-8004 *)
(* agent.  The identity registry is external: its tokens have one owner    *)
(* and the owner may transfer them at any time, also while they are bound  *)
(* to a stake.  stakedAt is left out (no code reads it).                   *)
(***************************************************************************)
EXTENDS AntseedRegistry

CONSTANTS
  StakeAmounts, \* amounts used in stake calls
  MaxStake      \* bound on one seller's stake

ASSUME StakingAssumption ==
  /\ StakeAmounts \subseteq Nat
  /\ MaxStake \in Nat

VARIABLES
  stake,         \* SellerAccount.stake
  sellerAgentId, \* agent bound to a seller's stake
  agentSeller,   \* seller an agent is bound to
  agentOwner,    \* ownerOf in the identity registry (external)
  stakeHeld      \* USDC the staking contract owns

stakeVars == <<stake, sellerAgentId, agentSeller, agentOwner, stakeHeld>>

StakeTypeOK ==
  /\ stake \in [Sellers -> Nat]
  /\ sellerAgentId \in [Sellers -> Agents \cup {NoAddress}]
  /\ agentSeller \in [Agents -> Sellers \cup {NoAddress}]
  /\ agentOwner \in [Agents -> Sellers]
  /\ stakeHeld \in Nat

StakeInit ==
  /\ stake = [s \in Sellers |-> 0]
  /\ sellerAgentId = [s \in Sellers |-> NoAddress]
  /\ agentSeller = [a \in Agents |-> NoAddress]
  /\ agentOwner \in [Agents -> Sellers]
  /\ stakeHeld = 0

isStakedAboveMin(s) == stake[s] >= config.MIN_SELLER_STAKE

getAgentId(s) == sellerAgentId[s]

(* Mutant: an agent the seller owns is taken to be unbound. *)
bindable_Owned(s, a) == sellerAgentId[s] \in {NoAddress, a}

bindable(s, a) ==
  /\ sellerAgentId[s] \in {NoAddress, a}
  /\ agentSeller[a] \in {NoAddress, s}

(* stake and stakeFor: the caller pays, the agent must belong to the seller. *)
stakeFor(s, a, amount) ==
  /\ amount > 0
  /\ stake[s] + amount <= MaxStake
  /\ agentOwner[a] = s
  /\ bindable(s, a)
  /\ stake' = [stake EXCEPT ![s] = @ + amount]
  /\ sellerAgentId' = [sellerAgentId EXCEPT ![s] = a]
  /\ agentSeller' = [agentSeller EXCEPT ![a] = s]
  /\ stakeHeld' = stakeHeld + amount
  /\ UNCHANGED agentOwner

(* AntseedSlashing.calculateSlash on the channel and ghost counts. *)
calculateSlash(channels, ghosts, amount) ==
  IF ghosts >= config.SLASH_GHOST_THRESHOLD /\ channels = 0 THEN amount
  ELSE IF /\ channels > 0
          /\ ghosts > 0
          /\ (ghosts * 100) \div (channels + ghosts) >= config.SLASH_RATIO_THRESHOLD
       THEN amount \div 2
       ELSE 0

(***************************************************************************)
(* unstake: refused while the Channels contract in the address book counts *)
(* an active channel for the seller.  activeCount, channels and ghosts are *)
(* what that contract answers.  The stake leaves the contract whole: the   *)
(* slashed part to the protocol reserve, which must then be set, the rest  *)
(* to the seller.                                                          *)
(***************************************************************************)
unstake(s, activeCount, channels, ghosts) ==
  LET a == sellerAgentId[s]
      slash == IF registry.slashing /\ a # NoAddress
               THEN calculateSlash(channels, ghosts, stake[s])
               ELSE 0
  IN
  /\ stake[s] > 0
  /\ activeCount = 0
  /\ slash > 0 => registry.protocolReserve
  /\ stake' = [stake EXCEPT ![s] = 0]
  /\ sellerAgentId' = [sellerAgentId EXCEPT ![s] = NoAddress]
  /\ agentSeller' = [agentSeller EXCEPT ![a] = NoAddress]
  /\ stakeHeld' = stakeHeld - stake[s]
  /\ UNCHANGED agentOwner

(* The identity registry's token transfer (external). *)
transferAgent(a, s) ==
  /\ s # agentOwner[a]
  /\ agentOwner' = [agentOwner EXCEPT ![a] = s]
  /\ UNCHANGED <<stake, sellerAgentId, agentSeller, stakeHeld>>
=============================================================================
