----------------------------- MODULE SalesLedger -----------------------------
(***************************************************************************)
(* Sales orders, their allocations, batches and the stock ledger, as the   *)
(* services of apps/sales and apps/inventory change them in concurrent     *)
(* PostgreSQL transactions.                                                *)
(*                                                                         *)
(* A request is served by one gunicorn worker in one READ COMMITTED        *)
(* transaction.  Each statement that reads or locks rows is one step: it   *)
(* sees the rows committed when the step is taken, and a row lock makes it *)
(* wait.  What a transaction writes stays in its own memory, mem[t], and   *)
(* reaches the tables in the step that commits; a rollback drops it.       *)
(***************************************************************************)
EXTENDS Integers, Sequences, FiniteSets, FiniteSetsExt, Quantities

CONSTANTS
  Tx,             \* one transaction for each request of a behaviour
  Order, Batch, Product,
  ProductOf,      \* the product of each batch (batches.product_id)
  Received,       \* the receipt movement each batch was created with
  InitialLines,   \* the lines the draft orders are created with
  InitialExpiry,  \* expiration_date of each batch when it is created
  Today,          \* CURRENT_DATE and date.today()
  NoDate,         \* expiration_date IS NULL
  Header,         \* what a draft's header may say (customer_name, contact)
  Keep,           \* a field left out of a PATCH
  NoTx, NoRow,
  Request,        \* the requests clients send
  MaxOpen,        \* transactions open at once: GUNICORN_WORKERS
  Fragile         \* transactions whose worker or connection may die

VARIABLES
  batch,        \* table batches: is_recalled and expiration_date
  onHand,       \* view v_stock_by_batch: SUM(signed_quantity) of each batch
  movements,    \* table stock_movements, the rows after the receipts
  order,        \* table sales_orders
  lines,        \* table sales_order_lines
  allocations,  \* table sale_allocations
  locks,        \* row locks granted by PostgreSQL
  pc,           \* the statement each transaction is at, or its outcome
  req,          \* the request each transaction serves
  mem           \* what each transaction has read and not yet committed

tables == <<batch, onHand, movements, order, lines, allocations>>
vars == <<tables, locks, pc, req, mem>>

-------------------------------------------------------------------------------
(* Rows *)

Expiry == Nat \cup {NoDate}

Line == [order : Order, by : Tx \cup {NoTx}, n : Nat,
         product : Product, qty : Nat \ {0}]

Allocation == [tx : Tx, n : Nat, line : Line, batch : Batch, qty : Nat \ {0}]

SaleKind == {"sale", "sale_void"}
BatchKind == {"adjustment", "write_off", "recall_block", "recall_unblock",
              "metadata_correction"}

Movement == [tx : Tx, kind : SaleKind \cup BatchKind, batch : Batch,
             qty : Int, ref : Allocation \cup {NoRow}]

BatchRow(b) == <<"batches", b>>
OrderRow(o) == <<"sales_orders", o>>
LineRow(l) == <<"sales_order_lines", l>>

Row == ({"batches"} \X Batch) \cup ({"sales_orders"} \X Order)
         \cup ({"sales_order_lines"} \X Line)

INSTANCE RowLocks

(* Requests: the operation, and what it names. *)
SaleOp == {"commit_fefo", "commit_explicit", "void"}
DraftOp == {"preview", "update", "delete"}
CreateOp == {"create"}
BatchOp == {"recall", "un_recall", "metadata", "write_off", "adjustment"}

CommitOp == {"commit_fefo", "commit_explicit"}

Outcome == {"ok", "refused", "aborted"}

(* The statements a transaction can be at. *)
Statement == {"lock_order", "read_lines", "fefo", "fefo_lock", "validate",
              "insert_sales", "read_allocations", "insert_reversals",
              "read_order", "update_header", "select_lines", "delete_lines",
              "delete_header", "commit_draft",
              "lock_batch", "read_on_hand", "write_batch"}

Open(t) == pc[t] \notin Outcome \cup {"idle"}
Answered(t) == pc[t] \in Outcome

ASSUME SalesConstants ==
  /\ IsFiniteSet(Batch)
  /\ ProductOf \in [Batch -> Product]
  /\ Received \in [Batch -> Nat \ {0}]
  /\ Batch \subseteq Nat          \* batches are numbered in created_at order
  /\ InitialLines \subseteq [order : Order, by : {NoTx}, n : Nat,
                             product : Product, qty : Nat \ {0}]
  /\ InitialExpiry \in [Batch -> Expiry]
  /\ Today \in Nat
  /\ NoDate \notin Nat
  /\ NoTx \notin Tx
  /\ Fragile \subseteq Tx

ASSUME RequestFields ==
  \A r \in Request :
    /\ r.op \in SaleOp \cup DraftOp \cup CreateOp \cup BatchOp
    /\ r.op \in SaleOp \cup DraftOp => r.order \in Order
    /\ r.op = "commit_explicit" =>
         r.allocs \in Seq([line : Line, batch : Batch, qty : Nat \ {0}])
    /\ r.op = "update" => r.header \in Header \cup {Keep}
    /\ r.op = "create" => r.header \in Header /\ r.lines # <<>>
    /\ r.op \in {"update", "create"} =>
         r.lines \in Seq([product : Product, qty : Nat \ {0}])
    /\ r.op \in BatchOp => r.batch \in Batch
    /\ r.op = "metadata" => r.expiry \in Expiry \cup {Keep} /\ r.names \in BOOLEAN
    /\ r.op \in {"write_off", "adjustment"} => r.qty \in Int

-------------------------------------------------------------------------------
(* Reading the tables *)

LinesOf(o) == {l \in lines : l.order = o}
AllocationsOf(o) == {a \in allocations : a.line.order = o}

(* Neither recalled nor expired: what FEFO filters on and explicit         *)
(* allocations are checked for.                                            *)
Sellable(b) ==
  /\ ~batch[b].recalled
  /\ batch[b].expiry # NoDate => batch[b].expiry >= Today

(* ORDER BY expiration_date ASC NULLS LAST, created_at ASC *)
Before(a, b) ==
  LET ea == batch[a].expiry  eb == batch[b].expiry IN
  \/ ea # NoDate /\ eb = NoDate
  \/ ea # NoDate /\ eb # NoDate /\ ea < eb
  \/ ea = eb /\ a < b

(* The rows list_eligible_for_fefo selects, in the order it selects them. *)
Eligible(p) == {b \in Batch : ProductOf[b] = p /\ Sellable(b) /\ onHand[b] > 0}

(* Faulty variant: ORDER BY created_at. *)
OldestFirst(S) ==
  {s \in [1..Cardinality(S) -> S] :
     \A i, j \in 1..Cardinality(S) : i < j => s[i] < s[j]}

FefoOrders(S) ==
  {s \in [1..Cardinality(S) -> S] :
     \A i, j \in 1..Cardinality(S) : i < j => Before(s[i], s[j])}

-------------------------------------------------------------------------------
(* Transactions *)

NoStock == [b \in Batch |-> 0]

Mem == [want : SUBSET Line,          \* lines still to allocate, or to delete
        line : Line \cup {NoRow},    \* the line being allocated
        cand : Seq(Batch),           \* its eligible batches, still to lock
        seen : [Batch -> Int],       \* their on_hand when they were selected
        need : Int,                  \* remaining
        usage : [Batch -> Int],      \* batch_usage
        plan : Seq(Allocation),      \* planned
        ins : Nat,                   \* how many of them are inserted
        pend : [Batch -> Int],       \* sum of the movements inserted so far
        lost : SUBSET Line,          \* lines deleted
        owed : SUBSET Allocation,    \* allocations still to reverse
        paid : SUBSET Allocation]    \* allocations reversed

Blank == [want |-> {}, line |-> NoRow, cand |-> <<>>, seen |-> NoStock,
          need |-> 0, usage |-> NoStock, plan |-> <<>>, ins |-> 0,
          pend |-> NoStock, lost |-> {}, owed |-> {}, paid |-> {}]

Goto(t, label) == pc' = [pc EXCEPT ![t] = label]

(* COMMIT or ROLLBACK, and the answer to the client. *)
Finish(t, outcome) ==
  /\ Goto(t, outcome)
  /\ ReleaseAll(t)
  /\ mem' = [mem EXCEPT ![t] = Blank]

(* Faulty variant: the connection is leaked, its transaction left open. *)
LeakConnection(t, outcome) ==
  /\ Goto(t, outcome)
  /\ mem' = [mem EXCEPT ![t] = Blank]
  /\ UNCHANGED <<tables, locks, req>>

(* An early return or an error before anything is committed. *)
Rollback(t, outcome) == Finish(t, outcome) /\ UNCHANGED <<tables, req>>

FirstStatement(op) ==
  IF op \in SaleOp THEN "lock_order"
  ELSE IF op \in DraftOp THEN "read_order" ELSE "lock_batch"

WorkerFree == Cardinality({u \in Tx : Open(u)}) < MaxOpen

(* A free worker takes a request. *)
Start(t) ==
  /\ pc[t] = "idle" /\ WorkerFree
  /\ \E r \in Request :
       /\ r.op \notin CreateOp
       /\ req' = [req EXCEPT ![t] = r]
       /\ Goto(t, FirstStatement(r.op))
  /\ UNCHANGED <<tables, locks, mem>>

(* The rows inserted for the lines of a create or update request. *)
NewLines(t, o, s) ==
  {[order |-> o, by |-> t, n |-> i, product |-> s[i].product, qty |-> s[i].qty] :
     i \in DOMAIN s}

(* create_sales_order_draft: INSERTs only, under an id nobody else knows,  *)
(* so the transaction is one step.                                         *)
CreateOrder(t) ==
  /\ pc[t] = "idle" /\ WorkerFree
  /\ \E r \in Request, o \in Order :
       /\ r.op \in CreateOp /\ order[o].status = "absent"
       /\ req' = [req EXCEPT ![t] = r]
       /\ order' = [order EXCEPT ![o].status = "draft", ![o].header = r.header]
       /\ lines' = lines \cup NewLines(t, o, r.lines)
  /\ Goto(t, "ok")
  /\ UNCHANGED <<batch, onHand, movements, allocations, locks, mem>>

-------------------------------------------------------------------------------
(* commit_sales_order and void_sales_order: the header *)

(* select_sales_order_for_update finds no row, or one in the wrong state. *)
OrderRefused(t) ==
  LET o == req[t].order IN
  /\ pc[t] = "lock_order"
  /\ CanLock(t, OrderRow(o), "FOR UPDATE")
  /\ order[o].status # (IF req[t].op = "void" THEN "committed" ELSE "draft")
  /\ Rollback(t, "refused")

VoidedAlready(t) ==
  LET o == req[t].order IN
  /\ pc[t] = "lock_order"
  /\ CanLock(t, OrderRow(o), "FOR UPDATE")
  /\ req[t].op = "void" /\ order[o].voided
  /\ Rollback(t, "ok")

(* Faulty variant: the header is read without FOR UPDATE. *)
LockOrderWithoutLock(t) ==
  LET o == req[t].order IN
  /\ pc[t] = "lock_order"
  /\ \/ req[t].op \in CommitOp /\ order[o].status = "draft"
     \/ req[t].op = "void" /\ order[o].status = "committed" /\ ~order[o].voided
  /\ Goto(t, IF req[t].op = "void" THEN "read_allocations" ELSE "read_lines")
  /\ UNCHANGED <<tables, locks, req, mem>>

LockOrder(t) ==
  LET o == req[t].order IN
  /\ pc[t] = "lock_order"
  /\ \/ req[t].op \in CommitOp /\ order[o].status = "draft"
     \/ req[t].op = "void" /\ order[o].status = "committed" /\ ~order[o].voided
  /\ Acquire(t, OrderRow(o), "FOR UPDATE")
  /\ Goto(t, IF req[t].op = "void" THEN "read_allocations" ELSE "read_lines")
  /\ UNCHANGED <<tables, req, mem>>

(* select_lines_for_sales_order.  The lines of an order are written by one *)
(* transaction and so share created_at, the sort key: any order is one the *)
(* query may return.                                                       *)
ReadLines(t) ==
  /\ pc[t] = "read_lines"
  /\ mem' = [mem EXCEPT ![t].want = LinesOf(req[t].order)]
  /\ Goto(t, IF req[t].op = "commit_explicit" THEN "validate" ELSE "fefo")
  /\ UNCHANGED <<tables, locks, req>>

-------------------------------------------------------------------------------
(* _fefo_walk *)

(* fefo_eligible_batches for the next line: the statement's snapshot fixes *)
(* the batches, their order and their on_hand before any row is locked.    *)
FefoSelect(t) ==
  /\ pc[t] = "fefo"
  /\ \E l \in mem[t].want : \E s \in FefoOrders(Eligible(l.product)) :
       mem' = [mem EXCEPT ![t].want = @ \ {l}, ![t].line = l,
                          ![t].need = l.qty, ![t].cand = s,
                          ![t].seen = onHand]
  /\ Goto(t, "fefo_lock")
  /\ UNCHANGED <<tables, locks, req>>

(* Faulty variant: batch_usage of earlier lines is not subtracted. *)
TakeIgnoringUsage(t) ==
  LET b == Head(mem[t].cand) IN
  IF Sellable(b) THEN Min({mem[t].seen[b], mem[t].need}) ELSE 0

(* What the walk takes from the next batch of the list.  PostgreSQL checks *)
(* the WHERE clause again on the row it has locked, with on_hand as        *)
(* selected: a batch recalled or expired meanwhile is dropped.             *)
Take(t) ==
  LET b == Head(mem[t].cand)
      available == mem[t].seen[b] - mem[t].usage[b]
  IN IF Sellable(b) THEN Min({available, mem[t].need}) ELSE 0

(* Faulty variant: the batches are selected without FOR UPDATE. *)
FefoTakeWithoutLock(t) ==
  LET m == mem[t]  b == Head(m.cand) IN
  /\ pc[t] = "fefo_lock" /\ m.cand # <<>>
  /\ Take(t) > 0
  /\ mem' = [mem EXCEPT
               ![t].cand = Tail(@),
               ![t].need = @ - Take(t),
               ![t].usage[b] = @ + Take(t),
               ![t].plan = Append(@, [tx |-> t, n |-> Len(m.plan) + 1,
                                      line |-> m.line, batch |-> b,
                                      qty |-> Take(t)])]
  /\ UNCHANGED <<tables, locks, pc, req>>

(* FOR UPDATE OF b on the next row, and the walk's greedy take from it. *)
FefoTake(t) ==
  LET m == mem[t]  b == Head(m.cand) IN
  /\ pc[t] = "fefo_lock" /\ m.cand # <<>>
  /\ Take(t) > 0
  /\ Acquire(t, BatchRow(b), "FOR UPDATE")
  /\ mem' = [mem EXCEPT
               ![t].cand = Tail(@),
               ![t].need = @ - Take(t),
               ![t].usage[b] = @ + Take(t),
               ![t].plan = Append(@, [tx |-> t, n |-> Len(m.plan) + 1,
                                      line |-> m.line, batch |-> b,
                                      qty |-> Take(t)])]
  /\ UNCHANGED <<tables, pc, req>>

(* The row is locked, but there is nothing (left) to take from it. *)
FefoPass(t) ==
  /\ pc[t] = "fefo_lock" /\ mem[t].cand # <<>>
  /\ Take(t) <= 0
  /\ Acquire(t, BatchRow(Head(mem[t].cand)), "FOR UPDATE")
  /\ mem' = [mem EXCEPT ![t].cand = Tail(@)]
  /\ UNCHANGED <<tables, pc, req>>

FefoLineDone(t) ==
  /\ pc[t] = "fefo_lock" /\ mem[t].cand = <<>>
  /\ mem[t].need = 0
  /\ Goto(t, "fefo")
  /\ UNCHANGED <<tables, locks, req, mem>>

InsufficientStock(t) ==
  /\ pc[t] = "fefo_lock" /\ mem[t].cand = <<>>
  /\ mem[t].need > 0
  /\ Rollback(t, "refused")

FefoDone(t) ==
  /\ pc[t] = "fefo" /\ mem[t].want = {}
  /\ req[t].op = "commit_fefo"
  /\ Goto(t, "insert_sales")
  /\ UNCHANGED <<tables, locks, req, mem>>

(* preview_so_allocations: the same walk, then the savepoint and the       *)
(* transaction are rolled back.                                            *)
PreviewDone(t) ==
  /\ pc[t] = "fefo" /\ mem[t].want = {}
  /\ req[t].op = "preview"
  /\ Rollback(t, "ok")

-------------------------------------------------------------------------------
(* _validate_explicit_allocations: each batch is read without a lock *)

NextExplicit(t) == req[t].allocs[Len(mem[t].plan) + 1]

ExplicitLeft(t) == Len(mem[t].plan) < Len(req[t].allocs)

(* Faulty variant: recall and expiry are not looked at. *)
ExplicitOkForAnyBatch(t, a) ==
  /\ a.line \in mem[t].want
  /\ ProductOf[a.batch] = a.line.product
  /\ mem[t].usage[a.batch] + a.qty <= onHand[a.batch]

(* _resolve_line, _check_batch_eligible_for_line, _track_per_batch_usage *)
ExplicitOk(t, a) ==
  /\ a.line \in mem[t].want
  /\ ProductOf[a.batch] = a.line.product
  /\ Sellable(a.batch)
  /\ mem[t].usage[a.batch] + a.qty <= onHand[a.batch]

Planned(t) == {mem[t].plan[i] : i \in DOMAIN mem[t].plan}

PlannedFor(t, l) == TotalQty({a \in Planned(t) : a.line = l})

(* _check_per_line_sums *)
LineSumsOk(t) == \A l \in mem[t].want : PlannedFor(t, l) = l.qty

ValidateExplicit(t) ==
  LET a == NextExplicit(t) IN
  /\ pc[t] = "validate" /\ ExplicitLeft(t)
  /\ ExplicitOk(t, a)
  /\ mem' = [mem EXCEPT
               ![t].usage[a.batch] = @ + a.qty,
               ![t].plan = Append(@, [tx |-> t, n |-> Len(mem[t].plan) + 1,
                                      line |-> a.line, batch |-> a.batch,
                                      qty |-> a.qty])]
  /\ UNCHANGED <<tables, locks, pc, req>>

InvalidAllocation(t) ==
  /\ pc[t] = "validate"
  /\ IF ExplicitLeft(t) THEN ~ExplicitOk(t, NextExplicit(t)) ELSE ~LineSumsOk(t)
  /\ Rollback(t, "refused")

ExplicitDone(t) ==
  /\ pc[t] = "validate" /\ ~ExplicitLeft(t)
  /\ LineSumsOk(t)
  /\ Goto(t, "insert_sales")
  /\ UNCHANGED <<tables, locks, req, mem>>

-------------------------------------------------------------------------------
(* _persist_allocations_and_sale_movements, the reversals of a void *)

(* One sale_allocations row and its 'sale' movement.  The foreign keys     *)
(* lock the line and the batch FOR KEY SHARE.                              *)
InsertSale(t) ==
  LET a == mem[t].plan[mem[t].ins + 1] IN
  /\ pc[t] = "insert_sales" /\ mem[t].ins < Len(mem[t].plan)
  /\ AcquireAll(t, {LineRow(a.line), BatchRow(a.batch)}, "KEY SHARE")
  /\ mem' = [mem EXCEPT ![t].ins = @ + 1, ![t].pend[a.batch] = @ - a.qty]
  /\ UNCHANGED <<tables, pc, req>>

SaleMovement(t, a) ==
  [tx |-> t, kind |-> "sale", batch |-> a.batch, qty |-> -a.qty, ref |-> a]

(* The sums v_stock_by_batch shows once t's movements are committed. *)
PostPending(t) == onHand' = [b \in Batch |-> onHand[b] + mem[t].pend[b]]

(* mark_sales_order_committed and COMMIT *)
CommitSale(t) ==
  /\ pc[t] = "insert_sales" /\ mem[t].ins = Len(mem[t].plan)
  /\ order' = [order EXCEPT ![req[t].order].status = "committed"]
  /\ allocations' = allocations \cup Planned(t)
  /\ movements' = movements \cup {SaleMovement(t, a) : a \in Planned(t)}
  /\ PostPending(t)
  /\ Finish(t, "ok")
  /\ UNCHANGED <<batch, lines, req>>

(* void_sales_order: select_allocations_for_sales_order *)
ReadAllocations(t) ==
  /\ pc[t] = "read_allocations"
  /\ mem' = [mem EXCEPT ![t].owed = AllocationsOf(req[t].order)]
  /\ Goto(t, "insert_reversals")
  /\ UNCHANGED <<tables, locks, req>>

(* Faulty variant: the reversal repeats the sign of the sale. *)
InsertReversalAsDebit(t) ==
  /\ pc[t] = "insert_reversals"
  /\ \E a \in mem[t].owed :
       /\ Acquire(t, BatchRow(a.batch), "KEY SHARE")
       /\ mem' = [mem EXCEPT ![t].owed = @ \ {a}, ![t].paid = @ \cup {a},
                             ![t].pend[a.batch] = @ - a.qty]
  /\ UNCHANGED <<tables, pc, req>>

InsertReversal(t) ==
  /\ pc[t] = "insert_reversals"
  /\ \E a \in mem[t].owed :
       /\ Acquire(t, BatchRow(a.batch), "KEY SHARE")
       /\ mem' = [mem EXCEPT ![t].owed = @ \ {a}, ![t].paid = @ \cup {a},
                             ![t].pend[a.batch] = @ + a.qty]
  /\ UNCHANGED <<tables, pc, req>>

VoidMovement(t, a) ==
  [tx |-> t, kind |-> "sale_void", batch |-> a.batch, qty |-> a.qty, ref |-> a]

(* set_sales_order_voided and COMMIT *)
CommitVoid(t) ==
  /\ pc[t] = "insert_reversals" /\ mem[t].owed = {}
  /\ order' = [order EXCEPT ![req[t].order].voided = TRUE]
  /\ movements' = movements \cup {VoidMovement(t, a) : a \in mem[t].paid}
  /\ PostPending(t)
  /\ Finish(t, "ok")
  /\ UNCHANGED <<batch, lines, allocations, req>>

-------------------------------------------------------------------------------
(* update_sales_order_draft, delete_sales_order_draft, preview: the status *)
(* is checked on a header read without a lock                              *)

(* Faulty variant: the status is not looked at. *)
ReadAnyOrder(t) ==
  /\ pc[t] = "read_order"
  /\ Goto(t, CASE req[t].op = "preview" -> "read_lines"
               [] req[t].op = "update" -> "update_header"
               [] req[t].op = "delete" -> "select_lines")
  /\ UNCHANGED <<tables, locks, req, mem>>

ReadOrder(t) ==
  /\ pc[t] = "read_order"
  /\ order[req[t].order].status = "draft"
  /\ Goto(t, CASE req[t].op = "preview" -> "read_lines"
               [] req[t].op = "update" -> "update_header"
               [] req[t].op = "delete" -> "select_lines")
  /\ UNCHANGED <<tables, locks, req, mem>>

NotDraft(t) ==
  /\ pc[t] = "read_order"
  /\ order[req[t].order].status # "draft"
  /\ Rollback(t, "refused")

(* Faulty variant: an update that leaves the header as it is locks nothing.*)
UpdateHeaderWithoutLock(t) ==
  /\ pc[t] = "update_header"
  /\ order[req[t].order].status # "deleted"
  /\ Goto(t, IF req[t].lines = <<>> THEN "commit_draft" ELSE "select_lines")
  /\ UNCHANGED <<tables, locks, req, mem>>

(* update_sales_order_header: UPDATE ... WHERE id and owner_id, whatever   *)
(* the status is by now.                                                   *)
UpdateHeader(t) ==
  /\ pc[t] = "update_header"
  /\ order[req[t].order].status # "deleted"
  /\ Acquire(t, OrderRow(req[t].order), "NO KEY UPDATE")
  /\ Goto(t, IF req[t].lines = <<>> THEN "commit_draft" ELSE "select_lines")
  /\ UNCHANGED <<tables, req, mem>>

(* UPDATE ... RETURNING gives no row.  The empty header cannot be answered *)
(* with, nor new lines be inserted for it.                                 *)
HeaderGone(t) ==
  /\ pc[t] = "update_header"
  /\ CanLock(t, OrderRow(req[t].order), "NO KEY UPDATE")
  /\ order[req[t].order].status = "deleted"
  /\ Rollback(t, "refused")

(* delete_lines_for_sales_order: the rows of its snapshot, locked one by   *)
(* one; a row another transaction has deleted meanwhile is skipped.        *)
SelectLines(t) ==
  /\ pc[t] = "select_lines"
  /\ mem' = [mem EXCEPT ![t].want = LinesOf(req[t].order)]
  /\ Goto(t, "delete_lines")
  /\ UNCHANGED <<tables, locks, req>>

DeleteLine(t) ==
  /\ pc[t] = "delete_lines"
  /\ \E l \in mem[t].want \cap lines :
       /\ Acquire(t, LineRow(l), "FOR UPDATE")
       /\ mem' = [mem EXCEPT ![t].want = @ \ {l}, ![t].lost = @ \cup {l}]
  /\ UNCHANGED <<tables, pc, req>>

SkipLine(t) ==
  /\ pc[t] = "delete_lines"
  /\ \E l \in mem[t].want \ lines :
       mem' = [mem EXCEPT ![t].want = @ \ {l}]
  /\ UNCHANGED <<tables, locks, pc, req>>

(* Faulty variant, of both foreign-key checks: the constraint is missing. *)
Unchecked(t) == t \notin Tx

(* The foreign-key check at the end of the DELETE: sa_sol_owner_fkey. *)
Referenced(t) == \E a \in allocations : a.line \in mem[t].lost

LinesDeleted(t) ==
  /\ pc[t] = "delete_lines" /\ mem[t].want = {}
  /\ ~Referenced(t)
  /\ Goto(t, IF req[t].op = "update" THEN "commit_draft" ELSE "delete_header")
  /\ UNCHANGED <<tables, locks, req, mem>>

LinesReferenced(t) ==
  /\ pc[t] = "delete_lines" /\ mem[t].want = {}
  /\ Referenced(t)
  /\ Rollback(t, "refused")

(* _delete_sales_order, and the foreign-key check sol_so_owner_fkey *)
LinesRemain(t) == LinesOf(req[t].order) \ mem[t].lost # {}

DeleteHeader(t) ==
  /\ pc[t] = "delete_header"
  /\ ~LinesRemain(t)
  /\ Acquire(t, OrderRow(req[t].order), "FOR UPDATE")
  /\ Goto(t, "commit_draft")
  /\ UNCHANGED <<tables, req, mem>>

HeaderReferenced(t) ==
  /\ pc[t] = "delete_header"
  /\ CanLock(t, OrderRow(req[t].order), "FOR UPDATE")
  /\ LinesRemain(t)
  /\ Rollback(t, "refused")

CommitUpdate(t) ==
  LET o == req[t].order IN
  /\ pc[t] = "commit_draft" /\ req[t].op = "update"
  /\ order' = [order EXCEPT ![o].header =
                 IF req[t].header = Keep THEN @ ELSE req[t].header]
  /\ lines' = (lines \ mem[t].lost) \cup NewLines(t, o, req[t].lines)
  /\ Finish(t, "ok")
  /\ UNCHANGED <<batch, onHand, movements, allocations, req>>

CommitDelete(t) ==
  /\ pc[t] = "commit_draft" /\ req[t].op = "delete"
  /\ order' = [order EXCEPT ![req[t].order].status = "deleted"]
  /\ lines' = lines \ mem[t].lost
  /\ Finish(t, "ok")
  /\ UNCHANGED <<batch, onHand, movements, allocations, req>>

-------------------------------------------------------------------------------
(* recall_batch, un_recall_batch, update_batch_metadata, record_movement:  *)
(* select_batch_for_update first                                           *)

(* _resolve_metadata_diff, for the date. *)
SameExpiry(t) == req[t].expiry \in {Keep, batch[req[t].batch].expiry}

(* A PATCH that names a batch_code may name the one the batch has.         *)
MayChangeNothing(t) ==
  LET b == req[t].batch IN
  \/ req[t].op = "recall" /\ batch[b].recalled
  \/ req[t].op = "un_recall" /\ ~batch[b].recalled
  \/ req[t].op = "metadata" /\ SameExpiry(t)

MayChange(t) == MayChangeNothing(t) => req[t].op = "metadata" /\ req[t].names

BatchUnchanged(t) ==
  /\ pc[t] = "lock_batch"
  /\ CanLock(t, BatchRow(req[t].batch), "FOR UPDATE")
  /\ MayChangeNothing(t)
  /\ Rollback(t, "ok")

(* Faulty variant: the batch is read without FOR UPDATE. *)
LockBatchWithoutLock(t) ==
  /\ pc[t] = "lock_batch"
  /\ MayChange(t)
  /\ Goto(t, IF req[t].op = "write_off" THEN "read_on_hand" ELSE "write_batch")
  /\ UNCHANGED <<tables, locks, req, mem>>

LockBatch(t) ==
  /\ pc[t] = "lock_batch"
  /\ MayChange(t)
  /\ Acquire(t, BatchRow(req[t].batch), "FOR UPDATE")
  /\ Goto(t, IF req[t].op = "write_off" THEN "read_on_hand" ELSE "write_batch")
  /\ UNCHANGED <<tables, req, mem>>

(* on_hand_for_batch: a statement of its own, with a snapshot of its own *)
WriteOffFits(t) == onHand[req[t].batch] + req[t].qty >= 0

CheckOnHand(t) ==
  /\ pc[t] = "read_on_hand"
  /\ WriteOffFits(t)
  /\ Goto(t, "write_batch")
  /\ UNCHANGED <<tables, locks, req, mem>>

WriteOffExceedsOnHand(t) ==
  /\ pc[t] = "read_on_hand"
  /\ ~WriteOffFits(t)
  /\ Rollback(t, "refused")

(* CHECK sm_sign_chk on the inserted movement *)
SignOk(r) == /\ r.op = "write_off" => r.qty < 0
             /\ r.op = "adjustment" => r.qty # 0

SignRefused(t) ==
  /\ pc[t] = "write_batch"
  /\ ~SignOk(req[t])
  /\ Rollback(t, "refused")

(* The new batch_code is another batch's: a UniqueViolation, which         *)
(* update_batch_metadata does not catch.                                   *)
CodeTaken(t) ==
  /\ pc[t] = "write_batch"
  /\ req[t].op = "metadata" /\ req[t].names
  /\ Rollback(t, "refused")

(* Faulty variant: the operation's name is written as the movement's kind. *)
KindAsRequested(op) == op

KindOf(op) ==
  CASE op = "recall" -> "recall_block"
    [] op = "un_recall" -> "recall_unblock"
    [] op = "metadata" -> "metadata_correction"
    [] OTHER -> op

QuantityOf(r) == IF r.op \in {"write_off", "adjustment"} THEN r.qty ELSE 0

(* The batch row, its movement and COMMIT. *)
WriteBatch(t) ==
  LET r == req[t]  b == req[t].batch IN
  /\ pc[t] = "write_batch"
  /\ SignOk(r)
  /\ batch' = [batch EXCEPT
       ![b].recalled = IF r.op \in {"recall", "un_recall"}
                       THEN r.op = "recall" ELSE @,
       ![b].expiry = IF r.op = "metadata" /\ r.expiry # Keep THEN r.expiry ELSE @]
  /\ movements' = movements \cup
       {[tx |-> t, kind |-> KindOf(r.op), batch |-> b,
         qty |-> QuantityOf(r), ref |-> NoRow]}
  /\ onHand' = [onHand EXCEPT ![b] = @ + QuantityOf(r)]
  /\ Finish(t, "ok")
  /\ UNCHANGED <<order, lines, allocations, req>>

-------------------------------------------------------------------------------
(* Failures *)

(* The locks the statement t is at may be granted: it waits when every     *)
(* one of these sets holds a lock that is not free.                        *)
Wanted(t) ==
  LET FU(r) == {<<r, "FOR UPDATE">>}
      KS(r) == {<<r, "KEY SHARE">>}
      a == mem[t].plan[mem[t].ins + 1]
  IN CASE pc[t] = "lock_order" -> {FU(OrderRow(req[t].order))}
       [] pc[t] = "delete_header" -> {FU(OrderRow(req[t].order))}
       [] pc[t] = "update_header" ->
            {{<<OrderRow(req[t].order), "NO KEY UPDATE">>}}
       [] pc[t] = "lock_batch" -> {FU(BatchRow(req[t].batch))}
       [] pc[t] = "fefo_lock" /\ mem[t].cand # <<>> ->
            {FU(BatchRow(Head(mem[t].cand)))}
       [] pc[t] = "delete_lines" -> {FU(LineRow(l)) : l \in mem[t].want}
       [] pc[t] = "insert_sales" /\ mem[t].ins < Len(mem[t].plan) ->
            {KS(LineRow(a.line)) \cup KS(BatchRow(a.batch))}
       [] pc[t] = "insert_reversals" ->
            {KS(BatchRow(x.batch)) : x \in mem[t].owed}
       [] OTHER -> {}

WaitsFor ==
  [t \in Tx |->
     LET blocked(W) == UNION {Blockers(t, w[1], w[2]) : w \in W}
     IN IF \E W \in Wanted(t) : blocked(W) = {} THEN {}
        ELSE UNION {blocked(W) : W \in Wanted(t)}]

(* PostgreSQL's deadlock detector aborts a transaction of the cycle. *)
DeadlockVictim(t) ==
  /\ Open(t)
  /\ InWaitCycle(t, WaitsFor)
  /\ Rollback(t, "aborted")

(* The worker is killed, or its connection is lost. *)
Crash(t) ==
  /\ t \in Fragile /\ Open(t)
  /\ Rollback(t, "aborted")

-------------------------------------------------------------------------------
(* Specification *)

Init ==
  /\ batch = [b \in Batch |-> [recalled |-> FALSE, expiry |-> InitialExpiry[b]]]
  /\ onHand = Received
  /\ movements = {}
  /\ \E h \in Header :
       order = [o \in Order |->
                  [status |-> IF \E l \in InitialLines : l.order = o
                              THEN "draft" ELSE "absent",
                   voided |-> FALSE, header |-> h]]
  /\ lines = InitialLines
  /\ allocations = {}
  /\ locks = {}
  /\ pc = [t \in Tx |-> "idle"]
  /\ req = [t \in Tx |-> NoRow]
  /\ mem = [t \in Tx |-> Blank]

Fefo(t) ==
  \/ FefoSelect(t) \/ FefoTake(t) \/ FefoPass(t) \/ FefoLineDone(t)
  \/ InsufficientStock(t) \/ FefoDone(t) \/ PreviewDone(t)

Sale(t) ==
  \/ OrderRefused(t) \/ VoidedAlready(t) \/ LockOrder(t) \/ ReadLines(t)
  \/ ValidateExplicit(t) \/ InvalidAllocation(t) \/ ExplicitDone(t)
  \/ InsertSale(t) \/ CommitSale(t)
  \/ ReadAllocations(t) \/ InsertReversal(t) \/ CommitVoid(t)

Draft(t) ==
  \/ ReadOrder(t) \/ NotDraft(t) \/ UpdateHeader(t) \/ HeaderGone(t)
  \/ SelectLines(t) \/ DeleteLine(t) \/ SkipLine(t)
  \/ LinesDeleted(t) \/ LinesReferenced(t)
  \/ DeleteHeader(t) \/ HeaderReferenced(t) \/ CommitUpdate(t) \/ CommitDelete(t)

Stock(t) ==
  \/ BatchUnchanged(t) \/ LockBatch(t) \/ CheckOnHand(t)
  \/ WriteOffExceedsOnHand(t) \/ SignRefused(t) \/ CodeTaken(t) \/ WriteBatch(t)

Step(t) == Fefo(t) \/ Sale(t) \/ Draft(t) \/ Stock(t)

(* Every request has been answered. *)
Quiescent == (\A t \in Tx : Answered(t)) /\ UNCHANGED vars

Next ==
  \/ \E t \in Tx : Start(t) \/ CreateOrder(t) \/ Step(t) \/ DeadlockVictim(t) \/ Crash(t)
  \/ Quiescent

Spec == Init /\ [][Next]_vars

(* A worker runs its statements, and PostgreSQL's deadlock_timeout elapses;*)
(* neither a request nor a crash has to happen.                            *)
FairSpec ==
  /\ Spec
  /\ \A t \in Tx : WF_vars(Step(t)) /\ WF_vars(DeadlockVictim(t))

-------------------------------------------------------------------------------
(* Properties *)

TypeOK ==
  /\ batch \in [Batch -> [recalled : BOOLEAN, expiry : Expiry]]
  /\ onHand \in [Batch -> Int]
  /\ movements \subseteq Movement
  /\ order \in [Order -> [status : {"absent", "draft", "committed", "deleted"},
                          voided : BOOLEAN, header : Header]]
  /\ lines \subseteq Line
  /\ allocations \subseteq Allocation
  /\ locks \subseteq Lock
  /\ pc \in [Tx -> Statement \cup Outcome \cup {"idle"}]
  /\ req \in [Tx -> Request \cup {NoRow}]
  /\ mem \in [Tx -> Mem]

(* The operations whose transactions pass through a statement. *)
OpsAt(s) ==
  CASE s = "lock_order" -> SaleOp
    [] s = "read_lines" -> CommitOp \cup {"preview"}
    [] s \in {"fefo", "fefo_lock"} -> {"commit_fefo", "preview"}
    [] s = "validate" -> {"commit_explicit"}
    [] s = "insert_sales" -> CommitOp
    [] s \in {"read_allocations", "insert_reversals"} -> {"void"}
    [] s = "read_order" -> DraftOp
    [] s = "update_header" -> {"update"}
    [] s \in {"select_lines", "delete_lines", "commit_draft"} -> {"update", "delete"}
    [] s = "delete_header" -> {"delete"}
    [] s = "read_on_hand" -> {"write_off"}
    [] OTHER -> BatchOp

AtOwnStatement(t) ==
  /\ pc[t] # "idle" => req[t] \in Request
  /\ Open(t) => req[t].op \in OpsAt(pc[t])
  /\ pc[t] = "idle" => mem[t] = Blank
  /\ pc[t] = "fefo_lock" => mem[t].line \in Line

(* What a FEFO walk has planned so far is locked, and still sellable. *)
PlanHeld(t) ==
  \A i \in DOMAIN mem[t].plan :
    LET a == mem[t].plan[i] IN
    /\ a.tx = t
    /\ req[t].op # "commit_explicit" =>
         Holds(t, BatchRow(a.batch), "FOR UPDATE") /\ Sellable(a.batch)

PendingHeld(t) ==
  \A b \in Batch : mem[t].pend[b] # 0 => Holds(t, BatchRow(b), "KEY SHARE")

BatchHeld(t) ==
  pc[t] \in {"read_on_hand", "write_batch"} =>
    Holds(t, BatchRow(req[t].batch), "FOR UPDATE")

(* A write-off about to be written still fits what is on hand. *)
WriteOffCovered(t) ==
  pc[t] = "write_batch" /\ req[t].op = "write_off" => WriteOffFits(t)

(* No statement works on a batch its transaction does not hold: FEFO plans *)
(* and rewrites hold it FOR UPDATE, inserted movements hold it FOR KEY     *)
(* SHARE, and no two transactions hold it in conflicting modes.            *)
BatchesHeld ==
  /\ LocksCompatible
  /\ \A t \in Tx : /\ PlanHeld(t) /\ PendingHeld(t)
                   /\ BatchHeld(t) /\ WriteOffCovered(t)

(* A committed order is allocated in full, line by line, once: for each of *)
(* its lines the allocations add up to the quantity of the line, and no    *)
(* other order has allocations.  Two commits of one order, or a commit and *)
(* an edit of its draft, must not break this (commit_sales_order).         *)
LinesFullyAllocated ==
  /\ \A l \in lines : order[l.order].status = "committed" =>
       TotalQty({a \in allocations : a.line = l}) = l.qty
  /\ \A a \in allocations :
       order[a.line.order].status = "committed" /\ a.line \in lines

(* Every order that exists has lines, and no line outlives its order:      *)
(* concurrent edits and deletions of a draft leave neither an empty order  *)
(* nor orphaned lines (update_sales_order_draft, delete_sales_order_draft).*)
LinesFollowOrder ==
  \A o \in Order : LinesOf(o) # {} <=> order[o].status \in {"draft", "committed"}

(* The lines of an order are those of one request: edits that replace the  *)
(* lines beside each other do not end up merged (update_sales_order_draft).*)
LinesOfOneRequest ==
  \A k, l \in lines : k.order = l.order => k.by = l.by

(* The ledger has one sale row for each allocation, and one sale_void row  *)
(* exactly when its order is voided, with the allocation's batch and the   *)
(* opposite quantity: no void, repeated or concurrent, returns stock twice.*)
EachAllocationReversedOnce ==
  \A a \in allocations :
    LET ref(kind) == {m \in movements : m.kind = kind /\ m.ref = a} IN
    /\ \E m \in ref("sale") : ref("sale") = {m} /\ m.qty = -a.qty
    /\ IF order[a.line.order].voided
       THEN \E m \in ref("sale_void") : /\ ref("sale_void") = {m}
                                        /\ m.batch = a.batch /\ m.qty = a.qty
       ELSE ref("sale_void") = {}

(* on_hand is what was received and adjusted less the allocations of the   *)
(* orders that are committed and not voided: the view over the ledger and  *)
(* the sales documents tell one story.                                     *)
StockReconciles ==
  \A b \in Batch :
    onHand[b] =
      Received[b]
      + TotalQty({m \in movements : m.batch = b /\ m.kind \in BatchKind})
      - TotalQty({a \in allocations : a.batch = b /\ ~order[a.line.order].voided})

(* is_recalled is what the ledger says: recall_block and recall_unblock    *)
(* rows alternate, so the flag is set when one more block than unblock was *)
(* written (recall_batch and un_recall_batch, repeated or concurrent).     *)
RecallFlagMatchesLedger ==
  \A b \in Batch :
    LET rows(kind) == Cardinality({m \in movements : m.batch = b /\ m.kind = kind})
    IN rows("recall_block") =
         rows("recall_unblock") + (IF batch[b].recalled THEN 1 ELSE 0)

(* A write-off never takes a batch below zero, whatever sales, voids and   *)
(* write-offs run beside it (record_movement).                             *)
WriteOffNeverOverdraws ==
  [][\A m \in movements' \ movements :
       m.kind = "write_off" => onHand'[m.batch] >= 0]_vars

(* Stock sold through FEFO is neither recalled nor expired at the moment   *)
(* the sale commits, even if the recall comes while the walk waits for a   *)
(* lock (list_eligible_for_fefo).                                          *)
FefoSellsOnlySellable ==
  [][\A a \in allocations' \ allocations :
       req[a.tx].op = "commit_fefo" => Sellable(a.batch)]_vars

(* What was committed stays: the lines and allocations of a committed      *)
(* order never change, it is not reopened or deleted, and a void is final  *)
(* (D6, D8).                                                               *)
CommittedFrozen ==
  [][\A o \in Order : order[o].status = "committed" =>
       /\ order'[o].status = "committed"
       /\ order[o].voided => order'[o].voided
       /\ LinesOf(o)' = LinesOf(o)
       /\ AllocationsOf(o)' = AllocationsOf(o)]_vars

(* Sales and write-offs draw on stock that is there, as the docstring of    *)
(* list_eligible_for_fefo claims for FEFO.  Does not hold: a walk's on_hand *)
(* is as selected, before it waits for the row (SalesHistory says who may  *)
(* overdraw a batch, and beside what).                                     *)
DebitsStayWithinStock ==
  [][\A m \in movements' \ movements :
       m.kind \in {"sale", "write_off"} => onHand'[m.batch] >= 0]_vars

(* "A recall blocks future sales of the batch" (D9).  Does not hold: an    *)
(* explicit allocation is checked on a batch row read without a lock, and  *)
(* inserted later (_check_batch_eligible_for_line).                        *)
RecalledNotSold ==
  [][\A a \in allocations' \ allocations : ~batch[a.batch].recalled]_vars

(* "409 post-commit" for the edit of an order (D6).  Does not hold of its  *)
(* header: the draft check is made on an unlocked read, and the UPDATE has *)
(* no condition on the status (update_sales_order_draft).                  *)
CommittedHeaderFrozen ==
  [][\A o \in Order : order[o].status = "committed" =>
       order'[o].header = order[o].header]_vars

(* Every request is answered: lock waits that form a cycle are broken by   *)
(* the deadlock detector, and nothing else makes a transaction wait        *)
(* forever.                                                                *)
EveryRequestAnswered == \A t \in Tx : Open(t) ~> Answered(t)

===============================================================================
