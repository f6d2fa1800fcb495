SPECIFICATION Spec
CONSTANTS
  Id = {1, 2, 3, 4}
  Stamp = {1, 2, 3}
  List = {"sales_orders", "movements", "purchase_orders", "products", "batches", "recall_report"}
  PageSize = {1, 2}
  InitialRows <- MCRows
  MaxWrites = 2
  NoCursor = NoCursor
  Product = {1, 2, 3}
  Revenue <- MCRevenue
  NotSold = NotSold
  From = 1
  To = 3
  MaxPages = 4
INVARIANT
  MarginListsProductOnce
