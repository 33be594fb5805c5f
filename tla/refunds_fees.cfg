SPECIFICATION Spec
INVARIANT TrackedIsReal
CONSTANTS
  c1 = c1  c2 = c2  p1 = p1  p2 = p2  x1 = x1  x2 = x2  x3 = x3  w1 = w1
  Charges = {c1, c2}
  Receipts = {p1, p2}
  Rows = {x1, x2, x3}
  ChargeOf <- CartCharges
  ReceiptOf <- CartReceipts
  Amount <- CartAmounts
  Fee <- CartFees
  Batches = {{p1, p2}}
  Credits = {1}
  Workers = {w1}
  Requests = {"full", "batch"}
  MaxCrashes = 0
  MaxOutside = 0
CHECK_DEADLOCK FALSE
