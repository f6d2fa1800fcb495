-------------------------- MODULE PurchaseLifecycle --------------------------
(***************************************************************************)
(* What the purchase-order services promise, without transactions, locks   *)
(* or request bodies: an order goes from draft to received or deleted in   *)
(* single steps, its receipt brings a batch for each line it then has, of  *)
(* what the line says, and no two batches of a product have one code.      *)
(***************************************************************************)

CONSTANTS Order, Line, NoLine

VARIABLES
  status,   \* of each order
  lines,    \* what the orders ask for
  batches   \* what has arrived, each for a line or entered by hand

purchaseVars == <<status, lines, batches>>

LinesOf(o) == {l \in lines : l.order = o}

Moves(o, from, to) == status[o] = from /\ status' = [status EXCEPT ![o] = to]

OnlyLinesOf(o) == \A l \in lines \cup lines' : l.order # o => l \in lines \cap lines'

CodesDistinct(B) ==
  \A b, c \in B : b.product = c.product /\ b.code = c.code => b = c

Arriving == batches' \ batches

Init ==
  /\ status \in [Order -> {"absent", "draft"}]
  /\ lines \in SUBSET Line
  /\ \A o \in Order : LinesOf(o) # {} <=> status[o] = "draft"
  /\ batches = {}

Create(o) ==
  /\ Moves(o, "absent", "draft")
  /\ OnlyLinesOf(o) /\ LinesOf(o)' # {}
  /\ UNCHANGED batches

(* Lines are replaced, even of a received order, but none that has arrived.*)
Edit(o) ==
  /\ status[o] \in {"draft", "received"}
  /\ OnlyLinesOf(o) /\ LinesOf(o)' # {}
  /\ \A b \in batches : b.line \in lines => b.line \in lines'
  /\ UNCHANGED <<status, batches>>

Delete(o) ==
  /\ Moves(o, "draft", "deleted")
  /\ OnlyLinesOf(o) /\ LinesOf(o)' = {}
  /\ UNCHANGED batches

Receive(o) ==
  /\ Moves(o, "draft", "received")
  /\ batches \subseteq batches' /\ CodesDistinct(batches')
  /\ {b.line : b \in Arriving} = LinesOf(o)
  /\ \A b \in Arriving : b.product = b.line.product /\ b.qty = b.line.qty
  /\ UNCHANGED lines

(* A batch is entered by hand. *)
Enter(b) ==
  /\ b.line = NoLine
  /\ batches' = batches \cup {b} /\ CodesDistinct(batches')
  /\ UNCHANGED <<status, lines>>

(* A batch gets another code: b becomes c. *)
Recode(b, c) ==
  /\ c = [b EXCEPT !.code = c.code]
  /\ batches' = (batches \ {b}) \cup {c} /\ CodesDistinct(batches')
  /\ UNCHANGED <<status, lines>>

Next ==
  \/ \E o \in Order : Create(o) \/ Edit(o) \/ Delete(o) \/ Receive(o)
  \/ \E c \in Arriving : Enter(c) \/ \E b \in batches : Recode(b, c)

Spec == Init /\ [][Next]_purchaseVars

===============================================================================
