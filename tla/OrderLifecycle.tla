---------------------------- MODULE OrderLifecycle ----------------------------
(***************************************************************************)
(* What the sales services promise, without transactions, locks, lines or  *)
(* allocations: an order goes from draft to committed to voided in single  *)
(* steps, its commit takes stock, and its void returns exactly that stock. *)
(***************************************************************************)
EXTENDS Integers

CONSTANTS Order, Batch

VARIABLES
  state,    \* of each order
  sold,     \* what each order has taken from each batch
  onHand    \* what each batch has left

lifecycleVars == <<state, sold, onHand>>

Nothing == [b \in Batch |-> 0]

Moves(o, from, to) == state[o] = from /\ state' = [state EXCEPT ![o] = to]

Init ==
  /\ state \in [Order -> {"absent", "draft"}]
  /\ sold = [o \in Order |-> Nothing]
  /\ onHand \in [Batch -> Nat]

Create(o) == Moves(o, "absent", "draft") /\ UNCHANGED <<sold, onHand>>

Delete(o) == Moves(o, "draft", "deleted") /\ UNCHANGED <<sold, onHand>>

(* The order takes something, and that is what the batches lose. *)
Commit(o) ==
  /\ Moves(o, "draft", "committed")
  /\ sold'[o] \in [Batch -> Nat] /\ sold'[o] # Nothing
  /\ sold' = [sold EXCEPT ![o] = sold'[o]]
  /\ onHand' = [b \in Batch |-> onHand[b] - sold'[o][b]]

Void(o) ==
  /\ Moves(o, "committed", "voided")
  /\ onHand' = [b \in Batch |-> onHand[b] + sold[o][b]]
  /\ UNCHANGED sold

(* Write-offs and adjustments concern one batch and no order. *)
Adjust(b) ==
  /\ \A c \in Batch \ {b} : onHand'[c] = onHand[c]
  /\ onHand' \in [Batch -> Int]
  /\ UNCHANGED <<state, sold>>

Next ==
  \/ \E o \in Order : Create(o) \/ Delete(o) \/ Commit(o) \/ Void(o)
  \/ \E b \in Batch : Adjust(b)

Spec == Init /\ [][Next]_lifecycleVars

===============================================================================
