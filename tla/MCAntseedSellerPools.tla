------------------------ MODULE MCAntseedSellerPools ------------------------
EXTENDS AntseedSellerPools, TLC

(* Stakers and agents are interchangeable. *)
Symmetry == Permutations(Stakers) \cup Permutations(Agents)

(* A longer activation delay, the largest bonus, and a penalty on moves.   *)
Stricter == {[DefaultConfig EXCEPT !.stakeActivationDelay = 2, !.minEarlyExitSlashBps = 1000,
                                   !.restakedRewardWeightBonusBps = 2000, !.moveWeightPenaltyBps = 2500]}
=============================================================================
