-------------------------- MODULE PurchaseRefinement --------------------------
(***************************************************************************)
(* The transactions of Procurement implement PurchaseLifecycle.            *)
(***************************************************************************)
EXTENDS Procurement

Lifecycle == INSTANCE PurchaseLifecycle WITH
  Order <- Order, Line <- Line, NoLine <- NoLine,
  status <- [o \in Order |-> order[o].status], lines <- lines, batches <- batches

(* Receipts, edits, deletions, manual entries and new codes beside each    *)
(* other, deadlock victims and crashes look like single steps: an order is *)
(* received or deleted once, and only as a draft, what arrives is what its *)
(* lines then say, and no code is given twice, though each INSERT or UPDATE*)
(* looks for it alone (services of apps/procurement, create_manual_batch,  *)
(* update_batch_metadata).                                                 *)
ImplementsPurchases == Lifecycle!Spec

===============================================================================
