SPECIFICATION PromoSpec
INVARIANT NoDoubleUse
CHECK_DEADLOCK FALSE
CONSTANTS
  c1 = c1  c2 = c2  r1 = r1  r2 = r2  r3 = r3  r4 = r4  r5 = r5  k1 = k1  k2 = k2
  Carts = {c1, c2}
  CartOf <- SmallCarts
  Mixes = {{}}
  Universal = {}
  Claimants = {}
  Codes = {k1}
  NoCode = NoCode
  UsesAllowed <- OneUseEach
  MaxGone = 0
