------------------------------- MODULE MCRefunds -------------------------------
(* Two registrations bought together, one of which was upgraded and paid   *)
(* for that by a charge of its own.                                        *)
EXTENDS Refunds, TLC

CONSTANTS c1, c2, p1, p2, x1, x2, x3, w1

CartCharges == (x1 :> c1) @@ (x2 :> c1) @@ (x3 :> c2)
CartReceipts == (x1 :> p1) @@ (x2 :> p2) @@ (x3 :> p1)
CartAmounts == (x1 :> 2) @@ (x2 :> 2) @@ (x3 :> 1)
NoFees == (c1 :> 0) @@ (c2 :> 0)

(* Stripe keeps two of the four paid for both registrations, and its fee   *)
(* for the upgrade is too small to count.                                  *)
CartFees == (c1 :> 2) @@ (c2 :> 0)
================================================================================
