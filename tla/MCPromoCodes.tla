----------------------------- MODULE MCPromoCodes -----------------------------
(* Two carts, with a registration each and one code, or with two each and  *)
(* two codes that they lock in opposite orders.                            *)
EXTENDS PromoCodes, TLC

CONSTANTS c1, c2, r1, r2, r3, r4, r5, k1, k2

SmallCarts == (c1 :> <<r1>>) @@ (c2 :> <<r2>>)
TwoCarts == (c1 :> <<r1, r2>>) @@ (c2 :> <<r3, r4>>)
OneUseEach == [k \in Codes |-> 1]
===============================================================================
