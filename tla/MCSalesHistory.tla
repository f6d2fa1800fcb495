--------------------------- MODULE MCSalesHistory ----------------------------
(***************************************************************************)
(* Constants for the run of SalesHistory, besides those of MCSalesLedger.  *)
(***************************************************************************)
EXTENDS MCSalesLedger, SalesHistory

(* Three batches of one product: two expire on one day, one has no date.   *)
StaleProductOf == <<p1, p1, p1>>
StaleExpiry == <<6, 6, NoDate>>
StaleLines == {L(o1, 1, p1, 1), L(o1, 2, p1, 1), L(o2, 1, p1, 2)}

(* The sales are late ones, or what they read is changed beside them.      *)
StaleRequests ==
  {Commit(o1), Commit(o2), Explicit1, Void(o1),
   Update(o1, "h2", <<>>),
   Quantity("write_off", 1, -1),
   Quantity("adjustment", 2, -1),
   OnBatch("recall", 2), OnBatch("un_recall", 2),
   Redate(1, 7), Redate(2, 3), Rename(2)}

===============================================================================
