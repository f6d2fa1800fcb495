---------------------------- MODULE MCSalesLedger ----------------------------
(***************************************************************************)
(* Constants for the runs of SalesLedger.                                  *)
(***************************************************************************)
EXTENDS SalesRefinement, TLC

CONSTANTS t1, t2, t3, t4, o1, o2, o3, p1, p2

(* Two batches of one product and one of another; batch 2 expires first.   *)
MCBatch == 1..3
MCProductOf == <<p1, p1, p2>>
MCReceived == <<1, 2, 1>>
MCExpiry == <<6, 5, NoDate>>

L(o, n, p, q) == [order |-> o, by |-> NoTx, n |-> n, product |-> p, qty |-> q]

(* o1 has two lines of one product, o2 a line of each. *)
MCLines == {L(o1, 1, p1, 1), L(o1, 2, p1, 1), L(o2, 1, p1, 2), L(o2, 2, p2, 1)}

Commit(o) == [op |-> "commit_fefo", order |-> o]
Explicit(o, s) == [op |-> "commit_explicit", order |-> o, allocs |-> s]
Alloc(l, b, q) == [line |-> l, batch |-> b, qty |-> q]
Void(o) == [op |-> "void", order |-> o]
Preview(o) == [op |-> "preview", order |-> o]
Delete(o) == [op |-> "delete", order |-> o]
Update(o, h, s) == [op |-> "update", order |-> o, header |-> h, lines |-> s]
OnBatch(op, b) == [op |-> op, batch |-> b]
Quantity(op, b, q) == [op |-> op, batch |-> b, qty |-> q]
Redate(b, e) == [op |-> "metadata", batch |-> b, expiry |-> e, names |-> FALSE]
Rename(b) == [op |-> "metadata", batch |-> b, expiry |-> Keep, names |-> TRUE]

(* Both lines of o1 from batch 2. *)
Explicit1 == Explicit(o1, <<Alloc(L(o1, 1, p1, 1), 2, 1), Alloc(L(o1, 2, p1, 1), 2, 1)>>)

(* A batch of another product than the line's; a line without allocations. *)
OtherProduct == Explicit(o2, <<Alloc(L(o2, 1, p1, 2), 3, 1)>>)
OneLine == Explicit(o2, <<Alloc(L(o2, 2, p2, 1), 3, 1)>>)

StockRequests ==
  {Commit(o1), Commit(o2), Explicit1, Void(o1),
   Quantity("write_off", 2, -2), Quantity("write_off", 1, 1), Quantity("adjustment", 1, -1),
   OnBatch("recall", 2), OnBatch("un_recall", 2), Redate(2, 7), Redate(2, 3),
   Rename(2)}

OrderRequests ==
  {Commit(o1), Commit(o2), Void(o1), Delete(o1), Preview(o2),
   Update(o1, "h2", <<>>), Update(o1, Keep, <<[product |-> p1, qty |-> 3]>>)}

(* o2 needs batches of both products: locks are taken in either order.    *)
LiveRequests == {Commit(o2), Preview(o2), Delete(o2), OtherProduct, OneLine}

OversellRequests ==
  {Commit(o1), Commit(o2), Quantity("write_off", 2, -1)}

(* o3 does not exist at first. *)
Create == [op |-> "create", header |-> "h1", lines |-> <<[product |-> p2, qty |-> 1]>>]

DraftRequests ==
  OrderRequests \cup {Create, Commit(o3), Quantity("adjustment", 2, -1)}

Symmetric == Permutations(Tx)

===============================================================================
