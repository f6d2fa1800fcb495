SPECIFICATION FairSpec
CONSTANTS
  t1 = t1
  t2 = t2
  t3 = t3
  t4 = t4
  o1 = o1
  o2 = o2
  o3 = o3
  p1 = p1
  p2 = p2
  Tx = {t1, t2, t3}
  Order = {o1, o2}
  Batch <- MCBatch
  Product = {p1, p2}
  ProductOf <- MCProductOf
  Received <- MCReceived
  InitialLines <- MCLines
  InitialExpiry <- MCExpiry
  Today = 4
  NoDate = NoDate
  Header = {"h1"}
  Keep = Keep
  NoTx = NoTx
  NoRow = NoRow
  Request <- LiveRequests
  MaxOpen = 3
  Fragile = {}
PROPERTIES
  EveryRequestAnswered
