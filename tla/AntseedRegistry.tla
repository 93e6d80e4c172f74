--------------------------- MODULE AntseedRegistry ---------------------------
(***************************************************************************)
(* The state every payment contract reads from its surroundings: the       *)
(* address book of core/AntseedRegistry.sol, the parameters the owner may  *)
(* set on AntseedDeposits, AntseedChannels, AntseedStaking and             *)
(* AntseedSlashing, the pause flag of AntseedChannels, and block.timestamp.*)
(*                                                                         *)
(* An address in the book is abstracted to what its readers tell apart:    *)
(* whether registry.channels() is the Channels contract under study or     *)
(* another one, whether registry.protocolReserve() is set, whether the     *)
(* staking contract has a slashing contract, and whether a call of         *)
(* registry.stats().recordMetadata would be accepted (the address is set   *)
(* and the Channels contract is one of its writers).                       *)
(*                                                                         *)
(* The module also fixes who takes part: buyers, sellers and channel ids   *)
(* are numbered, so that sums over them can be written and proved about.   *)
(***************************************************************************)
EXTENDS Integers

CONSTANTS
  NumBuyers,   \* buyers are the addresses 1..NumBuyers
  NumSellers,  \* sellers are the addresses 1..NumSellers
  NumChannels, \* the (buyer, seller, salt) triples are the ids 1..NumChannels
  NumAgents,   \* ERC-8004 agent ids other than 0 are 1..NumAgents
  NoAddress,   \* address(0), and agent id 0
  Configs,     \* the settings of the owner-set parameters considered
  OwnerCalls,  \* the owner's calls that are considered, by name
  MaxTime      \* bound on block.timestamp

Buyers == 1..NumBuyers
Sellers == 1..NumSellers
Agents == 1..NumAgents
Channels == 1..NumChannels

(***************************************************************************)
(* One setting of the owner-set parameters.  BPS is the denominator of     *)
(* every basis-point computation in the contracts.                         *)
(***************************************************************************)
BPS == 10000

Config ==
  [MIN_BUYER_DEPOSIT: Nat, BASE_CREDIT_LIMIT: Nat, PEER_INTERACTION_BONUS: Nat,
   TIME_BONUS: Nat, MAX_CREDIT_LIMIT: Nat,
   FIRST_SIGN_CAP: Nat, PLATFORM_FEE_BPS: 0..BPS,
   TOP_UP_SETTLED_THRESHOLD_BPS: 0..BPS,
   MIN_SELLER_STAKE: Nat,
   SLASH_RATIO_THRESHOLD: Nat, SLASH_GHOST_THRESHOLD: Nat]

ASSUME RegistryAssumption ==
  /\ NumBuyers \in Nat /\ NumSellers \in Nat /\ NumAgents \in Nat
  /\ NumChannels \in Nat
  /\ NoAddress \notin Agents \cup Sellers
  /\ Configs \subseteq Config
  /\ MaxTime \in Nat

VARIABLES
  registry,  \* the address book
  config,    \* the owner-set parameters in force
  paused,    \* AntseedChannels is paused
  now        \* block.timestamp

regVars == <<registry, config, paused, now>>

Registry ==
  [channels: BOOLEAN, protocolReserve: BOOLEAN, slashing: BOOLEAN, stats: BOOLEAN]

RegTypeOK ==
  /\ registry \in Registry
  /\ config \in Configs
  /\ paused \in BOOLEAN
  /\ now \in Nat

RegInit ==
  /\ registry = [channels |-> TRUE, protocolReserve |-> FALSE,
                 slashing |-> FALSE, stats |-> FALSE]
  /\ config \in Configs
  /\ paused = FALSE
  /\ now = 1

(***************************************************************************)
(* The owner's setters.  channels may be pointed at another Channels       *)
(* contract and back, setSlashing may set or clear, setWriter may allow or *)
(* forbid the Channels contract; protocolReserve can be set but never      *)
(* cleared, because its setter refuses address(0).                         *)
(***************************************************************************)
setChannels ==
  /\ "setChannels" \in OwnerCalls
  /\ registry' = [registry EXCEPT !.channels = ~@]
  /\ UNCHANGED <<config, paused, now>>

setProtocolReserve ==
  /\ "setProtocolReserve" \in OwnerCalls
  /\ ~registry.protocolReserve
  /\ registry' = [registry EXCEPT !.protocolReserve = TRUE]
  /\ UNCHANGED <<config, paused, now>>

setSlashing ==
  /\ "setSlashing" \in OwnerCalls
  /\ registry' = [registry EXCEPT !.slashing = ~@]
  /\ UNCHANGED <<config, paused, now>>

setStatsWriter ==
  /\ "setStatsWriter" \in OwnerCalls
  /\ registry' = [registry EXCEPT !.stats = ~@]
  /\ UNCHANGED <<config, paused, now>>

(* Any of the onlyOwner parameter setters. *)
setParameter ==
  /\ "setParameter" \in OwnerCalls
  /\ config' \in Configs \ {config}
  /\ UNCHANGED <<registry, paused, now>>

pause ==
  /\ "pause" \in OwnerCalls
  /\ ~paused
  /\ paused' = TRUE
  /\ UNCHANGED <<registry, config, now>>

unpause ==
  /\ paused
  /\ paused' = FALSE
  /\ UNCHANGED <<registry, config, now>>

(* Blocks are produced: time passes, up to the bound. *)
Tick ==
  /\ now < MaxTime
  /\ now' = now + 1
  /\ UNCHANGED <<registry, config, paused>>
=============================================================================
