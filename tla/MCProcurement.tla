---------------------------- MODULE MCProcurement ----------------------------
(***************************************************************************)
(* Constants for the runs of Procurement.                                  *)
(***************************************************************************)
EXTENDS PurchaseRefinement, TLC

CONSTANTS t1, t2, t3, o1, o2, p1

L(o, n, q) == [order |-> o, by |-> NoTx, n |-> n, product |-> p1, qty |-> q]

(* One draft of two lines of one product; o2 does not exist at first.      *)
MCLines == {L(o1, 1, 1), L(o1, 2, 2)}

NewOne == <<[product |-> p1, qty |-> 3]>>

Receipt(o) == [op |-> "receive", order |-> o]
Delete(o) == [op |-> "delete", order |-> o]
Update(o, h, s) == [op |-> "update", order |-> o, header |-> h, lines |-> s]
Batch(c) == [op |-> "batch", product |-> p1, code |-> c, qty |-> 1]
Renaming(c) == [op |-> "rename", code |-> c]

MCRequests ==
  {[op |-> "create", header |-> "h1", lines |-> NewOne],
   Receipt(o1), Receipt(o2), Delete(o1), Batch("c1"),
   Renaming("c1"), Renaming("c2"),
   Update(o1, "h2", <<>>), Update(o1, "h2", NewOne), Update(o1, Keep, NewOne)}

ChangeRequests == {Receipt(o1), Delete(o1), Update(o1, Keep, NewOne)}

Symmetric == Permutations(Tx)

===============================================================================
