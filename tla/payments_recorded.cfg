SPECIFICATION FairSpec
PROPERTIES SucceededIsRecorded PaidIsAdmittedUnlessKilled
CONSTANTS
  a1 = a1  a2 = a2  r1 = r1  r2 = r2  r3 = r3  x1 = x1  x2 = x2  x3 = x3  w1 = w1  w2 = w2
  Attendees = {a1, a2}
  Receipts = {r1, r2}
  Owner <- CartOwner
  Items = {x1, x2}
  ReceiptOf <- CartReceiptOf
  Price <- CartPrice
  LateItems = {}
  MaxCharge = 3
  MaxIntents = 1
  Workers = {w1, w2}
  Carts = {{a1, a2}}
  Requests = {"webhook", "prereg", "cancel"}
  MaxCrashes = 1
