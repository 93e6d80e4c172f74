---------------------- MODULE MCBuyerPaymentManager -----------------------
(* Instances of BuyerPaymentManager for TLC. *)
EXTENDS BuyerPaymentManager

CONSTANTS r1, r2

(* An opening reserve of 2 covers both requests, one of 1 needs a top-up. *)
UnitPrices == {[r \in Requests |-> 1]}

(* The second request may cost all of the opening reserve. *)
TwoPrices == {[r \in Requests |-> 1], [r \in Requests |-> IF r = r1 THEN 1 ELSE 2]}
=============================================================================
