SPECIFICATION OfficesSpec
INVARIANTS OfficesTypeOK BadgeForMoney HandedOutOncePaid FeeMatchesJob ShiftsFit
           RecordedIsCaptured ChargedOnce SentOnce 
PROPERTY ApprovedIsSent
CHECK_DEADLOCK FALSE
CONSTANTS
  v1 = v1  v2 = v2  j1 = j1  j2 = j2  j3 = j3  b1 = b1  b2 = b2
  p1 = p1  p2 = p2  n1 = n1  n2 = n2  n3 = n3  q1 = q1
  Purchases = {1}
  MaxHolders = 3
  Transferable = {1}
  Desks = {"d1", "d2"}
  MaxDeskKills = 1
  Printed = {a1}
  MaxJobs = 2
  RegDesks = {"d1"}
  Printers = {"p1", "p2"}
  Clients = {"k"}
  MaxQueueKills = 1
  Volunteers = {v1, v2}
  Jobs = {j1, j2, j3}
  FirstDetails <- BackToBack
  OtherDetails <- Rescheduled
  MaxShifts = 3
  ShiftDesks = {"d1"}
  SaleIds = {s1, s2}
  NoSale = NoSale
  Buyers = {b1, b2}
  Costs <- OneAndTwo
  MaxSaleKills = 1
  EmailIds = {e1}
  Recipients = {u1}
  Processes = {p1, p2}
  Connections = {n1, n2, n3}
  NoConnection = NoConnection
  PoolOf <- Pools
  MaxEmailKills = 1
  Pieces = {q1}
  Hung = {q1}
  QuickPrice <- QuickOne
  Bids = {2}
  Shoppers = {"u1", "u2"}
  ArtDesks = {"d1"}
  MaxInvoices = 2
  MaxPayments = 1
  MaxReopened = 1
