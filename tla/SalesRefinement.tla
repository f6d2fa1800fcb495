--------------------------- MODULE SalesRefinement ---------------------------
(***************************************************************************)
(* The transactions of SalesLedger implement the life cycle of orders.     *)
(***************************************************************************)
EXTENDS SalesLedger

(* voided_at sets a committed order apart. *)
StateOf(o) == IF order[o].voided THEN "voided" ELSE order[o].status

SoldBy(o) == [b \in Batch |-> TotalQty({a \in AllocationsOf(o) : a.batch = b})]

Lifecycle == INSTANCE OrderLifecycle WITH
  state <- [o \in Order |-> StateOf(o)],
  sold <- [o \in Order |-> SoldBy(o)],
  onHand <- onHand

(* Interleaved transactions, deadlock victims and crashes look like single *)
(* steps of the life cycle: nothing is sold twice, half or for an order    *)
(* that is not committed, a void returns what its own commit took, and an  *)
(* order that was committed is never deleted (services of apps/sales).     *)
ImplementsLifecycle == Lifecycle!Spec

===============================================================================
