SPECIFICATION Spec
INVARIANT CompletedNotCancelled
CONSTANTS
  a1 = a1  a2 = a2  r1 = r1  r2 = r2  r3 = r3  x1 = x1  x2 = x2  x3 = x3  w1 = w1  w2 = w2
  Attendees = {a1}
  Receipts = {r1, r3}
  Owner <- SoloOwner
  Items = {x1, x2, x3}
  ReceiptOf <- SoloReceiptOf
  Price <- SoloPrice
  LateItems = {x3}
  MaxCharge = 4
  MaxIntents = 2
  Workers = {w1}
  Carts = {{a1}}
  Requests = {"webhook", "poll", "pay", "prereg", "confirm", "cancel", "admin", "upgrade", "invalidate"}
  MaxCrashes = 1
