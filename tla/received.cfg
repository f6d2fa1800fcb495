SPECIFICATION Spec
CONSTANTS
  t1 = t1
  t2 = t2
  t3 = t3
  o1 = o1
  o2 = o2
  p1 = p1
  Tx = {t1, t2, t3}
  Order = {o1, o2}
  Product = {p1}
  Code = {"c1", "c2"}
  Header = {"h1", "h2"}
  Keep = Keep
  NoTx = NoTx
  NoLine = NoLine
  NoRequest = NoRequest
  InitialLines <- MCLines
  Request <- ChangeRequests
  MaxEntries = 2
  Fragile = {}
PROPERTY
  ReceivedFrozen
