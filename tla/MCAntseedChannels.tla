-------------------------- MODULE MCAntseedChannels --------------------------
(***************************************************************************)
(* Small instances of AntseedChannels for TLC.                             *)
(***************************************************************************)
EXTENDS AntseedChannels

(* The owner-set parameters.  Fees of 25% and a top-up threshold of 85%    *)
(* make rounding visible on small amounts.                                 *)
BaseConfig ==
  [MIN_BUYER_DEPOSIT |-> 1, BASE_CREDIT_LIMIT |-> 4, PEER_INTERACTION_BONUS |-> 1,
   TIME_BONUS |-> 1, MAX_CREDIT_LIMIT |-> 5,
   FIRST_SIGN_CAP |-> 2, PLATFORM_FEE_BPS |-> 2500,
   TOP_UP_SETTLED_THRESHOLD_BPS |-> 8500,
   MIN_SELLER_STAKE |-> 1, SLASH_RATIO_THRESHOLD |-> 30, SLASH_GHOST_THRESHOLD |-> 1]

OneConfig == {BaseConfig}
TwoConfigs == {BaseConfig, [BaseConfig EXCEPT !.PLATFORM_FEE_BPS = 5000]}

(* All channels have buyer 1 and seller 1 ... *)
OneBuyer == [c \in Channels |-> 1]
OneSeller == [c \in Channels |-> 1]
(* ... or channel c has seller c. *)
SellerPerChannel == [c \in Channels |-> c]

OneMetadata == {[tokens |-> 1, requests |-> 1]}
MixedMetadata == {[tokens |-> 2, requests |-> 1], [tokens |-> 1, requests |-> 2],
                  [tokens |-> 2, requests |-> 2]}
=============================================================================
