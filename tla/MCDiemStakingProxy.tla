------------------------- MODULE MCDiemStakingProxy -------------------------
(***************************************************************************)
(* Small instances of DiemStakingProxy for TLC.                            *)
(***************************************************************************)
EXTENDS DiemStakingProxy

(* Together three units, which a payout of four or five does not divide.   *)
TwoAndOne == [u \in Stakers |-> IF u = 1 THEN 2 ELSE 1]

(* Batch after batch under every setting.                                  *)
Unstaking == [batches |-> 3, received |-> 0, epochs |-> 1,
  calls |-> {"pause", "setMaxTotalStake", "setMinUnstakeBatchOpenSecs"}]
(* Stakers leave within an epoch of several payouts, and across epochs.    *)
Leaving == [batches |-> 1, received |-> 8, epochs |-> 1, calls |-> {"sweepOrphanUsdc"}]
LeavingLate == [batches |-> 1, received |-> 4, epochs |-> 2, calls |-> {"sweepOrphanUsdc"}]
(* Stakers join between payouts while the owner changes the fee and sweeps.*)
Revenue == [batches |-> 0, received |-> 10, epochs |-> 2,
  calls |-> {"setOperatorFee", "sweepOrphanUsdc"}]
(* The epochs run ahead of what one call may catch up with.                *)
Backlog == [batches |-> 0, received |-> 4, epochs |-> 3, calls |-> {}]

AllScenarios == {Unstaking, Leaving, LeavingLate, Revenue, Backlog}
OnlyRevenue == {Revenue}
=============================================================================
