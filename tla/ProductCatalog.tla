--------------------------- MODULE ProductCatalog ---------------------------
(***************************************************************************)
(* What the catalog services promise, without transactions, locks or files:*)
(* products appear and disappear in single steps, no two have one SKU,     *)
(* batches and lines refer to products that are there, only a product with *)
(* batches is archived, and it stays archived.                             *)
(***************************************************************************)

CONSTANTS Product, Reference

VARIABLES
  products,    \* the products there are
  archived,    \* those no longer on offer
  references   \* the batches and lines that refer to products

catalogVars == <<products, archived, references>>

SkusDistinct(P) == \A p, q \in P : p.sku = q.sku => p = q

HasBatches(p) == \E r \in references : r.kind = "batch" /\ r.product = p

Init ==
  /\ products \in SUBSET Product /\ SkusDistinct(products)
  /\ archived = {} /\ references = {}

(* One product appears, or all that an import keeps. *)
Create ==
  /\ products \subseteq products'
  /\ products' \in SUBSET Product /\ SkusDistinct(products')
  /\ UNCHANGED <<archived, references>>

Archive(p) ==
  /\ p \in products /\ HasBatches(p)
  /\ archived' = archived \cup {p}
  /\ UNCHANGED <<products, references>>

(* Nothing refers to the product, so it is not an archived one. *)
Delete(p) ==
  /\ p \in products \ archived
  /\ \A r \in references : r.product # p
  /\ products' = products \ {p}
  /\ UNCHANGED <<archived, references>>

Refer(r) ==
  /\ r.product \in products
  /\ references' = references \cup {r}
  /\ UNCHANGED <<products, archived>>

(* Lines go; batches never do. *)
Drop(r) ==
  /\ r \in references /\ r.kind = "line"
  /\ references' = references \ {r}
  /\ UNCHANGED <<products, archived>>

Next ==
  \/ Create
  \/ \E p \in Product : Archive(p) \/ Delete(p)
  \/ \E r \in Reference : Refer(r) \/ Drop(r)

Spec == Init /\ [][Next]_catalogVars

===============================================================================
