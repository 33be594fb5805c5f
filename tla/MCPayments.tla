------------------------------ MODULE MCPayments ------------------------------
(* Small instances of Payments: one customer or a cart of two.             *)
EXTENDS Payments, TLC

CONSTANTS a1, a2, r1, r2, r3, x1, x2, x3, w1, w2

(* A cart of two registrations, one receipt each.                          *)
CartOwner == (r1 :> a1) @@ (r2 :> a2)
CartReceiptOf == (x1 :> r1) @@ (x2 :> r2)
CartPrice == (x1 :> 1) @@ (x2 :> 1)

(* One registration whose receipt may be replaced by a dearer one, and     *)
(* upgraded before that.                                                   *)
SoloOwner == (r1 :> a1) @@ (r3 :> a1)
SoloReceiptOf == (x1 :> r1) @@ (x2 :> r3) @@ (x3 :> r1)
SoloPrice == (x1 :> 1) @@ (x2 :> 2) @@ (x3 :> 1)

WorkerSymmetry == Permutations(Workers)
===============================================================================
