SPECIFICATION Spec
INVARIANTS BookedIsTracked TrackedIsReal  ClosedIsSettled
CONSTANTS
  c1 = c1  c2 = c2  p1 = p1  p2 = p2  x1 = x1  x2 = x2  x3 = x3  w1 = w1
  Charges = {c1, c2}
  Receipts = {p1, p2}
  Rows = {x1, x2, x3}
  ChargeOf <- CartCharges
  ReceiptOf <- CartReceipts
  Amount <- CartAmounts
  Fee <- NoFees
  Batches = {{p1, p2}}
  Credits = {1}
  Workers = {w1}
  Requests = {"full", "batch", "comp", "undo", "credit", "settle", "refresh"}
  MaxCrashes = 1
  MaxOutside = 1
CHECK_DEADLOCK FALSE
