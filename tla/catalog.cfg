SPECIFICATION FairSpec
CONSTANTS
  Tx = {1, 2, 3}
  Sku = {"a", "b", "c", "x"}
  Malformed = Malformed
  NoTx = NoTx
  NoRow = NoRow
  InitialSkus = {"x"}
  Request <- MCRequests
  Fragile = {1}
INVARIANTS
  TypeOK
  ReferencesValid
  NoSkuLost
PROPERTIES
  ReportIsTrue
  ImplementsPromise
  EveryRequestAnswered
