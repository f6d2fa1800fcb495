------------------------------- MODULE Catalog -------------------------------
(***************************************************************************)
(* The products of apps/catalog: created one by one or imported from a CSV *)
(* file, archived and deleted, while other transactions insert batches and *)
(* order lines that refer to them.                                         *)
(*                                                                         *)
(* Statements are steps and writes are published by the commit, as in      *)
(* SalesLedger.  An import inserts its rows one by one under savepoints;   *)
(* every other transaction writes one row, and its last statement and its  *)
(* COMMIT are one step.                                                    *)
(***************************************************************************)
EXTENDS Naturals, Sequences, FiniteSets

CONSTANTS
  Tx,           \* one transaction for each request of a behaviour
  Sku,
  Malformed,    \* a CSV row that _validate_csv_row rejects
  NoTx, NoRow,
  InitialSkus,  \* the SKUs of the products there are at first
  Request,      \* the requests clients send
  Fragile       \* transactions whose worker or connection may die

VARIABLES
  products,    \* table products: the rows, told apart by who created them
  archived,    \* those whose archived_at is set
  references,  \* rows of other tables with a foreign key to products
  report,      \* the ImportReport an import was answered with
  locks,       \* row locks granted by PostgreSQL
  pc,          \* the statement each transaction is at, or its outcome
  req,         \* the request each transaction serves
  mem          \* what each transaction works on and has not committed

tables == <<products, archived, references>>
vars == <<tables, report, locks, pc, req, mem>>

-------------------------------------------------------------------------------

Product == [sku : Sku, by : Tx \cup {NoTx}]

(* A batch stays for ever; a line of a draft may be replaced or deleted.   *)
Reference == [kind : {"batch", "line"}, product : Product, by : Tx]

Report == [imported : Nat, failed : SUBSET Nat]
NoReport == [imported |-> 0, failed |-> {}]

ProductRow(p) == <<"products", p>>

(* An entry of products_owner_sku_unique: inserting a SKU waits for        *)
(* whoever has inserted or deleted it and not finished.                    *)
SkuRow(s) == <<"products_owner_sku_unique", s>>

Row == ({"products"} \X Product) \cup ({"products_owner_sku_unique"} \X Sku)

INSTANCE RowLocks

ProductOp == {"update", "archive", "delete", "batch", "line"}

(* "error" is an exception the service does not catch: a 500. *)
Outcome == {"ok", "refused", "error", "aborted"}

Statement == {"insert_product", "import_row", "update_product", "read_product",
              "count_batches", "set_archived", "delete_product",
              "insert_reference", "commit_reference"}

Open(t) == pc[t] \notin Outcome \cup {"idle"}
Answered(t) == pc[t] \in Outcome

ASSUME CatalogConstants ==
  /\ InitialSkus \subseteq Sku
  /\ Malformed \notin Sku
  /\ NoTx \notin Tx
  /\ NoRow \notin Product \cup Request
  /\ Fragile \subseteq Tx

ASSUME RequestFields ==
  \A r \in Request :
    /\ r.op \in ProductOp \cup {"create", "import", "drop_line"}
    /\ r.op = "create" => r.sku \in Sku
    /\ r.op = "import" => r.file \in Seq(Sku \cup {Malformed})

-------------------------------------------------------------------------------
(* Transactions *)

Mem == [product : Product \cup {NoRow},  \* the product the request names
        row : Nat,                       \* CSV rows dealt with
        mine : SUBSET Sku,               \* SKUs inserted
        report : Report]                 \* imported and failed, so far

Blank == [product |-> NoRow, row |-> 0, mine |-> {}, report |-> NoReport]

Goto(t, label) == pc' = [pc EXCEPT ![t] = label]

Finish(t, outcome) ==
  /\ Goto(t, outcome)
  /\ ReleaseAll(t)
  /\ mem' = [mem EXCEPT ![t] = Blank]

(* Faulty variant: the connection is not closed. *)
LeakConnection(t, outcome) ==
  /\ Goto(t, outcome)
  /\ mem' = [mem EXCEPT ![t] = Blank]
  /\ UNCHANGED <<tables, report, locks, req>>

Rollback(t, outcome) == Finish(t, outcome) /\ UNCHANGED <<tables, report, req>>

FirstStatement(op) ==
  CASE op = "create" -> "insert_product"
    [] op = "import" -> "import_row"
    [] op = "update" -> "update_product"
    [] op \in {"archive", "delete"} -> "read_product"
    [] op \in {"batch", "line"} -> "insert_reference"

(* A request names a product the client has seen. *)
Start(t) ==
  /\ pc[t] = "idle"
  /\ \E r \in Request :
       /\ r.op # "drop_line"
       /\ req' = [req EXCEPT ![t] = r]
       /\ Goto(t, FirstStatement(r.op))
       /\ IF r.op \in ProductOp
          THEN \E p \in products : mem' = [mem EXCEPT ![t].product = p]
          ELSE UNCHANGED mem
  /\ UNCHANGED <<tables, report, locks>>

(* A line of a draft is deleted: nothing of the catalog is locked. *)
DropLine(t) ==
  /\ pc[t] = "idle"
  /\ \E r \in Request, l \in references :
       /\ r.op = "drop_line" /\ l.kind = "line"
       /\ req' = [req EXCEPT ![t] = r]
       /\ references' = references \ {l}
  /\ Goto(t, "ok")
  /\ UNCHANGED <<products, archived, report, locks, mem>>

New(t, s) == [sku |-> s, by |-> t]

SkuTaken(t, s) == s \in mem[t].mine \/ \E p \in products : p.sku = s

-------------------------------------------------------------------------------
(* create_product *)

CreateProduct(t) ==
  /\ pc[t] = "insert_product"
  /\ CanLock(t, SkuRow(req[t].sku), "FOR UPDATE")
  /\ ~SkuTaken(t, req[t].sku)
  /\ products' = products \cup {New(t, req[t].sku)}
  /\ Finish(t, "ok")
  /\ UNCHANGED <<archived, references, report, req>>

DuplicateSKU(t) ==
  /\ pc[t] = "insert_product"
  /\ CanLock(t, SkuRow(req[t].sku), "FOR UPDATE")
  /\ SkuTaken(t, req[t].sku)
  /\ Rollback(t, "refused")

-------------------------------------------------------------------------------
(* import_products_csv *)

File(t) == req[t].file
RowLeft(t) == pc[t] = "import_row" /\ mem[t].row < Len(File(t))
NextSku(t) == File(t)[mem[t].row + 1]

RowImported(t) ==
  mem' = [mem EXCEPT ![t].row = @ + 1, ![t].mine = @ \cup {NextSku(t)},
                     ![t].report.imported = @ + 1]

(* Faulty variant: the report names the SKU, not the row. *)
SkuFailed(t) ==
  mem' = [mem EXCEPT ![t].row = @ + 1,
                     ![t].report.failed = @ \cup {NextSku(t)}]

RowFailed(t) ==
  mem' = [mem EXCEPT ![t].row = @ + 1,
                     ![t].report.failed = @ \cup {mem[t].row + 1}]

(* Faulty variant: the row is inserted although another transaction holds  *)
(* its SKU.                                                                *)
ImportWithoutWaiting(t) ==
  /\ RowLeft(t) /\ NextSku(t) # Malformed
  /\ ~SkuTaken(t, NextSku(t))
  /\ RowImported(t)
  /\ UNCHANGED <<tables, report, locks, pc, req>>

ImportRow(t) ==
  /\ RowLeft(t) /\ NextSku(t) # Malformed
  /\ ~SkuTaken(t, NextSku(t))
  /\ Acquire(t, SkuRow(NextSku(t)), "FOR UPDATE")
  /\ RowImported(t)
  /\ UNCHANGED <<tables, report, pc, req>>

(* ROLLBACK TO SAVEPOINT: the SKU was there, in the table or in the file.  *)
DuplicateRow(t) ==
  /\ RowLeft(t) /\ NextSku(t) # Malformed
  /\ CanLock(t, SkuRow(NextSku(t)), "FOR UPDATE")
  /\ SkuTaken(t, NextSku(t))
  /\ RowFailed(t)
  /\ UNCHANGED <<tables, report, locks, pc, req>>

MalformedRow(t) ==
  /\ RowLeft(t) /\ NextSku(t) = Malformed
  /\ RowFailed(t)
  /\ UNCHANGED <<tables, report, locks, pc, req>>

(* The transactions that keep an import from inserting its next row.  No   *)
(* other transaction waits while it holds a lock.                          *)
WaitsFor ==
  [t \in Tx |-> IF RowLeft(t) /\ NextSku(t) # Malformed
                THEN Blockers(t, SkuRow(NextSku(t)), "FOR UPDATE") ELSE {}]

(* Faulty variant: ROLLBACK, where the code has ROLLBACK TO SAVEPOINT. *)
VictimStartsOver(t) ==
  /\ RowLeft(t)
  /\ InWaitCycle(t, WaitsFor)
  /\ mem' = [mem EXCEPT ![t].row = @ + 1, ![t].mine = {},
                        ![t].report.failed = @ \cup {mem[t].row + 1}]
  /\ ReleaseAll(t)
  /\ UNCHANGED <<tables, report, pc, req>>

(* A deadlock victim: for the import the error is one more failed row.  It *)
(* keeps what it inserted before and goes on with the next.                *)
RowVictim(t) ==
  /\ RowLeft(t)
  /\ InWaitCycle(t, WaitsFor)
  /\ RowFailed(t)
  /\ UNCHANGED <<tables, report, locks, pc, req>>

CommitImport(t) ==
  /\ pc[t] = "import_row" /\ mem[t].row = Len(File(t))
  /\ products' = products \cup {New(t, s) : s \in mem[t].mine}
  /\ report' = [report EXCEPT ![t] = mem[t].report]
  /\ Finish(t, "ok")
  /\ UNCHANGED <<archived, references, req>>

-------------------------------------------------------------------------------
(* update_product, archive_product, delete_product *)

Target(t) == mem[t].product
HasBatch(p) == \E r \in references : r.kind = "batch" /\ r.product = p

(* update_product_fields: the name and description are left out. *)
UpdateProduct(t) ==
  /\ pc[t] = "update_product"
  /\ CanLock(t, ProductRow(Target(t)), "NO KEY UPDATE")
  /\ Rollback(t, IF Target(t) \in products THEN "ok" ELSE "refused")

ReadProduct(t) ==
  /\ pc[t] = "read_product"
  /\ Target(t) \in products
  /\ Goto(t, "count_batches")
  /\ UNCHANGED <<tables, report, locks, req, mem>>

ProductNotFound(t) ==
  /\ pc[t] = "read_product"
  /\ Target(t) \notin products
  /\ Rollback(t, "refused")

(* Archive what has batches, delete what has none. *)
Fits(t) == IF req[t].op = "archive" THEN HasBatch(Target(t)) ELSE ~HasBatch(Target(t))

CountBatches(t) ==
  /\ pc[t] = "count_batches"
  /\ Fits(t)
  /\ Goto(t, IF req[t].op = "archive" THEN "set_archived" ELSE "delete_product")
  /\ UNCHANGED <<tables, report, locks, req, mem>>

(* ProductHasNoBatches, ProductHasBatches *)
CountRefused(t) ==
  /\ pc[t] = "count_batches"
  /\ ~Fits(t)
  /\ Rollback(t, "refused")

(* set_archived_at; nothing to do for a product already archived. *)
SetArchived(t) ==
  /\ pc[t] = "set_archived"
  /\ CanLock(t, ProductRow(Target(t)), "NO KEY UPDATE")
  /\ archived' = archived \cup ({Target(t)} \cap products)
  /\ Finish(t, "ok")
  /\ UNCHANGED <<products, references, report, req>>

(* The foreign keys to products, none of which cascades. *)
Referenced(p) == \E r \in references : r.product = p

(* DELETE waits for those who hold the product, uses the foreign keys, and *)
(* deletes nothing if the product is gone, which nobody looks at.          *)
DeleteProduct(t) ==
  /\ pc[t] = "delete_product"
  /\ CanLock(t, ProductRow(Target(t)), "FOR UPDATE")
  /\ ~Referenced(Target(t))
  /\ products' = products \ {Target(t)}
  /\ archived' = archived \ {Target(t)}
  /\ Finish(t, "ok")
  /\ UNCHANGED <<references, report, req>>

(* A ForeignKeyViolation, which delete_product does not catch. *)
StillReferenced(t) ==
  /\ pc[t] = "delete_product"
  /\ CanLock(t, ProductRow(Target(t)), "FOR UPDATE")
  /\ Referenced(Target(t))
  /\ Rollback(t, "error")

-------------------------------------------------------------------------------
(* Other services: a batch, or a line of an order, for a product *)

(* Faulty variant: the foreign-key check locks nothing. *)
InsertUnlocked(t) ==
  /\ pc[t] = "insert_reference"
  /\ Target(t) \in products
  /\ Goto(t, "commit_reference")
  /\ UNCHANGED <<tables, report, locks, req, mem>>

InsertReference(t) ==
  /\ pc[t] = "insert_reference"
  /\ Acquire(t, ProductRow(Target(t)), "KEY SHARE")
  /\ Target(t) \in products
  /\ Goto(t, "commit_reference")
  /\ UNCHANGED <<tables, report, req, mem>>

(* A foreign-key violation, answered with ProductNotFound. *)
ReferenceRefused(t) ==
  /\ pc[t] = "insert_reference"
  /\ CanLock(t, ProductRow(Target(t)), "KEY SHARE")
  /\ Target(t) \notin products
  /\ Rollback(t, "refused")

CommitReference(t) ==
  /\ pc[t] = "commit_reference"
  /\ references' = references \cup
       {[kind |-> req[t].op, product |-> Target(t), by |-> t]}
  /\ Finish(t, "ok")
  /\ UNCHANGED <<products, archived, report, req>>

(* The worker is killed, or its connection is lost. *)
Crash(t) ==
  /\ t \in Fragile /\ Open(t)
  /\ Rollback(t, "aborted")

-------------------------------------------------------------------------------
(* Specification *)

Init ==
  /\ products = {[sku |-> s, by |-> NoTx] : s \in InitialSkus}
  /\ archived = {} /\ references = {}
  /\ report = [t \in Tx |-> NoReport]
  /\ locks = {}
  /\ pc = [t \in Tx |-> "idle"]
  /\ req = [t \in Tx |-> NoRow]
  /\ mem = [t \in Tx |-> Blank]

Import(t) ==
  \/ ImportRow(t) \/ DuplicateRow(t) \/ MalformedRow(t) \/ RowVictim(t) \/ CommitImport(t)

Step(t) ==
  \/ CreateProduct(t) \/ DuplicateSKU(t) \/ Import(t)
  \/ UpdateProduct(t) \/ ReadProduct(t) \/ ProductNotFound(t)
  \/ CountBatches(t) \/ CountRefused(t) \/ SetArchived(t)
  \/ DeleteProduct(t) \/ StillReferenced(t)
  \/ InsertReference(t) \/ ReferenceRefused(t) \/ CommitReference(t)

(* Every request has been answered. *)
Quiescent == (\A t \in Tx : Answered(t)) /\ UNCHANGED vars

Next ==
  \/ \E t \in Tx : Start(t) \/ DropLine(t) \/ Step(t) \/ Crash(t)
  \/ Quiescent

Spec == Init /\ [][Next]_vars

(* Workers run, and deadlock_timeout elapses (RowVictim). *)
FairSpec == Spec /\ \A t \in Tx : WF_vars(Step(t))

-------------------------------------------------------------------------------
(* Properties *)

TypeOK ==
  /\ products \subseteq Product
  /\ archived \subseteq Product
  /\ references \subseteq Reference
  /\ report \in [Tx -> Report]
  /\ locks \subseteq Lock
  /\ pc \in [Tx -> Statement \cup Outcome \cup {"idle"}]
  /\ req \in [Tx -> Request \cup {NoRow}]
  /\ mem \in [Tx -> Mem]

(* A batch or line never refers to a product that is gone, although        *)
(* delete_product counts batches without a lock, and lines not at all.     *)
ReferencesValid == \A r \in references : r.product \in products

(* An import is answered with what it did: the rows not reported failed,   *)
(* and they alone, are the products it created, each counted once, even    *)
(* if some of its rows were lost to a deadlock.                            *)
ReportIsTrue ==
  [][\A t \in Tx :
       Open(t) /\ pc'[t] = "ok" /\ req[t].op = "import" =>
         LET kept == DOMAIN File(t) \ report'[t].failed IN
         /\ {File(t)[i] : i \in kept} = {p.sku : p \in {q \in products' : q.by = t}}
         /\ Cardinality(kept) = report'[t].imported]_vars

(* Every well-formed row of an imported file is in the catalog afterwards, *)
(* from this import or another one, unless a transaction died or a product *)
(* was deleted: a row rejected as a duplicate, or lost to a deadlock, is   *)
(* not missing.                                                            *)
NoSkuLost ==
  \A t \in Tx :
    /\ pc[t] = "ok" /\ req[t].op = "import"
    /\ \A u \in Tx : Answered(u) /\ pc[u] # "aborted"
    /\ \A u \in Tx : req[u].op # "delete"
    => \A i \in DOMAIN File(t) :
         File(t)[i] # Malformed => \E p \in products : p.sku = File(t)[i]

(* Every request is answered, imports of the same SKUs in opposite orders  *)
(* included.                                                               *)
EveryRequestAnswered == \A t \in Tx : Open(t) ~> Answered(t)

===============================================================================
