SPECIFICATION PromoSpec
INVARIANTS LockedUsesFit CartUsesFit
PROPERTY CheckoutEnds
CHECK_DEADLOCK FALSE
CONSTANTS
  c1 = c1  c2 = c2  r1 = r1  r2 = r2  r3 = r3  r4 = r4  r5 = r5  k1 = k1  k2 = k2
  Carts = {c1, c2}
  CartOf <- TwoCarts
  Mixes = {{c1, c2}, {c1}}
  Universal = {r2, r4}
  Claimants = {r5}
  Codes = {k1, k2}
  NoCode = NoCode
  UsesAllowed <- OneUseEach
  MaxGone = 1
