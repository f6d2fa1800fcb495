----------------------------- MODULE Procurement -----------------------------
(***************************************************************************)
(* Purchase orders, from draft to receipt, the batches that receipts and   *)
(* manual entries create, and the renaming of a batch (apps/procurement,   *)
(* and what of apps/inventory gives batches their codes), as concurrent    *)
(* PostgreSQL transactions.                                                *)
(*                                                                         *)
(* As in SalesLedger, each statement that reads or locks rows is one step, *)
(* and what a transaction writes reaches the tables in the step that       *)
(* commits.  A batch and its receipt movement are always inserted          *)
(* together; batches holds both, qty being the movement's quantity.        *)
(***************************************************************************)
EXTENDS Naturals, Sequences, FiniteSets

CONSTANTS
  Tx,            \* one transaction for each request of a behaviour
  Order, Product,
  Code,          \* what a batch_code may be
  Header,        \* what a header may say (supplier_name, supplier_contact)
  Keep,          \* a header left out of a PATCH
  NoTx, NoLine, NoRequest,
  InitialLines,  \* the lines of the drafts there are at first
  Request,       \* the requests clients send
  MaxEntries,    \* bound: entries in the body of one receive request
  Fragile        \* transactions whose worker or connection may die

VARIABLES
  order,    \* table purchase_orders
  lines,    \* table purchase_order_lines
  batches,  \* tables batches and stock_movements: what was received
  locks,    \* row locks granted by PostgreSQL
  pc,       \* the statement each transaction is at, or its outcome
  req,      \* the request each transaction serves
  mem       \* what each transaction has read and not yet committed

tables == <<order, lines, batches>>
vars == <<tables, locks, pc, req, mem>>

-------------------------------------------------------------------------------
(* Rows, requests and statements *)

Line == [order : Order, by : Tx \cup {NoTx}, n : Nat,
         product : Product, qty : Nat \ {0}]

(* line is NoLine for a batch entered by hand (D2). *)
ReceivedBatch == [tx : Tx, n : Nat, line : Line \cup {NoLine},
                  product : Product, code : Code, qty : Nat \ {0}]

(* One line of the body of a receive request. *)
Entry == [line : Line, code : Code]

OrderRow(o) == <<"purchase_orders", o>>
LineRow(l) == <<"purchase_order_lines", l>>
BatchRow(b) == <<"batches", b.tx, b.n>>

(* An entry of batches_owner_product_code_unique.  Whoever inserts a value *)
(* that an unfinished transaction has inserted waits for its end, as if    *)
(* the entry were a row locked FOR UPDATE.  So does whoever wants a value  *)
(* that an unfinished UPDATE gives up.                                     *)
CodeRow(p, c) == <<"batches_owner_product_code_unique", p, c>>

Row == ({"purchase_orders"} \X Order) \cup ({"purchase_order_lines"} \X Line)
         \cup ({"batches"} \X Tx \X Nat)
         \cup ({"batches_owner_product_code_unique"} \X Product \X Code)

INSTANCE RowLocks

DraftOp == {"update", "delete"}

(* "error" is an exception the service does not catch: the client is       *)
(* answered 500, after a rollback.                                         *)
Outcome == {"ok", "refused", "error", "aborted"}

Statement == {"lock_order", "select_lines", "lock_lines", "insert_batches",
              "insert_manual", "read_order", "update_header", "delete_lines",
              "insert_lines", "commit_update", "delete_order", "cascade",
              "lock_batch", "update_batch", "insert_code"}

Open(t) == pc[t] \notin Outcome \cup {"idle"}
Answered(t) == pc[t] \in Outcome

ASSUME ProcurementConstants ==
  /\ InitialLines \subseteq [order : Order, by : {NoTx}, n : Nat,
                             product : Product, qty : Nat \ {0}]
  /\ NoTx \notin Tx
  /\ NoLine \notin Line
  /\ NoRequest \notin Request
  /\ Keep \notin Header
  /\ MaxEntries \in Nat \ {0}
  /\ Fragile \subseteq Tx

ASSUME RequestFields ==
  \A r \in Request :
    /\ r.op \in DraftOp \cup {"create", "receive", "batch", "rename"}
    /\ r.op \in DraftOp \cup {"receive"} => r.order \in Order
    /\ r.op = "update" => r.header \in Header \cup {Keep}
    /\ r.op = "update" => r.header # Keep \/ r.lines # <<>>  \* else nothing is done
    /\ r.op = "create" => r.header \in Header /\ r.lines # <<>>
    /\ r.op \in {"update", "create"} =>
         r.lines \in Seq([product : Product, qty : Nat \ {0}])
    /\ r.op = "batch" => r.product \in Product /\ r.code \in Code /\ r.qty \in Nat \ {0}
    /\ r.op = "rename" => r.code \in Code

LinesOf(o) == {l \in lines : l.order = o}

(* What a client that has read the order may send to receive it. *)
Bodies(o) ==
  UNION {[1..n -> [line : LinesOf(o), code : Code]] : n \in 1..MaxEntries}

-------------------------------------------------------------------------------
(* Transactions *)

Mem == [body : Seq(Entry),           \* line_metadata
        want : SUBSET Line,          \* lines still to lock, or to delete
        got : SUBSET Line,           \* lines locked, or deleted
        new : SUBSET ReceivedBatch,  \* batches inserted
        old : SUBSET ReceivedBatch]  \* the batch to rename, as last read

Blank == [body |-> <<>>, want |-> {}, got |-> {}, new |-> {}, old |-> {}]

Goto(t, label) == pc' = [pc EXCEPT ![t] = label]

Finish(t, outcome) ==
  /\ Goto(t, outcome)
  /\ ReleaseAll(t)
  /\ mem' = [mem EXCEPT ![t] = Blank]

(* An early return or an error before anything is committed. *)
Rollback(t, outcome) == Finish(t, outcome) /\ UNCHANGED <<tables, req>>

FirstStatement(op) ==
  CASE op = "receive" -> "lock_order"
    [] op = "batch" -> "insert_manual"
    [] op = "rename" -> "lock_batch"
    [] op \in DraftOp -> "read_order"

Start(t) ==
  /\ pc[t] = "idle"
  /\ \E r \in Request :
       /\ r.op # "create"
       /\ req' = [req EXCEPT ![t] = r]
       /\ Goto(t, FirstStatement(r.op))
       /\ CASE r.op = "receive" ->
                 \E s \in Bodies(r.order) : mem' = [mem EXCEPT ![t].body = s]
            [] r.op = "rename" ->
                 \E b \in batches : mem' = [mem EXCEPT ![t].old = {b}]
            [] OTHER -> UNCHANGED mem
  /\ UNCHANGED <<tables, locks>>

(* The rows inserted for the lines of a create or update request. *)
NewLines(t, o, s) ==
  {[order |-> o, by |-> t, n |-> i, product |-> s[i].product, qty |-> s[i].qty] :
     i \in DOMAIN s}

(* create_purchase_order_draft: INSERTs only, under an id nobody else      *)
(* knows, so the transaction is one step.                                  *)
CreateOrder(t) ==
  /\ pc[t] = "idle"
  /\ \E r \in Request, o \in Order :
       /\ r.op = "create" /\ order[o].status = "absent"
       /\ req' = [req EXCEPT ![t] = r]
       /\ order' = [order EXCEPT ![o] = [status |-> "draft", header |-> r.header]]
       /\ lines' = lines \cup NewLines(t, o, r.lines)
  /\ Goto(t, "ok")
  /\ UNCHANGED <<batches, locks, mem>>

-------------------------------------------------------------------------------
(* receive_purchase_order *)

(* Faulty variant: only an order that is not there is refused. *)
LockReceivedOrder(t) ==
  /\ pc[t] = "lock_order"
  /\ Acquire(t, OrderRow(req[t].order), "FOR UPDATE")
  /\ order[req[t].order].status \in {"draft", "received"}
  /\ Goto(t, "select_lines")
  /\ UNCHANGED <<tables, req, mem>>

(* select_purchase_order_for_update *)
LockOrder(t) ==
  /\ pc[t] = "lock_order"
  /\ Acquire(t, OrderRow(req[t].order), "FOR UPDATE")
  /\ order[req[t].order].status = "draft"
  /\ Goto(t, "select_lines")
  /\ UNCHANGED <<tables, req, mem>>

(* PurchaseOrderNotFound, PurchaseOrderAlreadyReceived *)
OrderRefused(t) ==
  /\ pc[t] = "lock_order"
  /\ CanLock(t, OrderRow(req[t].order), "FOR UPDATE")
  /\ order[req[t].order].status # "draft"
  /\ Rollback(t, "refused")

(* The lines a statement on the lines of the order selects: they are then  *)
(* locked one by one, and a line that was deleted meanwhile drops out.  The*)
(* code locks them in ORDER BY or scan order; here any order is possible.  *)
SelectLines(t) ==
  /\ pc[t] = "select_lines"
  /\ mem' = [mem EXCEPT ![t].want = LinesOf(req[t].order)]
  /\ Goto(t, IF req[t].op = "receive" THEN "lock_lines" ELSE "delete_lines")
  /\ UNCHANGED <<tables, locks, req>>

(* select_lines_for_update, and the DELETE of delete_lines_for_purchase_   *)
(* order and of the cascade.                                               *)
TakeLine(t) ==
  /\ pc[t] \in {"lock_lines", "delete_lines", "cascade"}
  /\ \E l \in mem[t].want \cap lines :
       /\ Acquire(t, LineRow(l), "FOR UPDATE")
       /\ mem' = [mem EXCEPT ![t].want = @ \ {l}, ![t].got = @ \cup {l}]
  /\ UNCHANGED <<tables, pc, req>>

SkipLine(t) ==
  /\ pc[t] \in {"lock_lines", "delete_lines", "cascade"}
  /\ \E l \in mem[t].want \ lines :
       /\ CanLock(t, LineRow(l), "FOR UPDATE")
       /\ mem' = [mem EXCEPT ![t].want = @ \ {l}]
  /\ UNCHANGED <<tables, locks, pc, req>>

Named(t) == {mem[t].body[i].line : i \in DOMAIN mem[t].body}

(* _assert_line_metadata_matches compares sets of ids. *)
LinesMatch(t) == Named(t) = mem[t].got

LinesMatched(t) ==
  /\ pc[t] = "lock_lines" /\ mem[t].want = {}
  /\ LinesMatch(t)
  /\ Goto(t, "insert_batches")
  /\ UNCHANGED <<tables, locks, req, mem>>

ReceiveLinesMismatch(t) ==
  /\ pc[t] = "lock_lines" /\ mem[t].want = {}
  /\ ~LinesMatch(t)
  /\ Rollback(t, "refused")

CodeTaken(t, p, c) ==
  \E b \in batches \cup mem[t].new : b.product = p /\ b.code = c

Inserted(t) == Cardinality(mem[t].new)
NextEntry(t) == mem[t].body[Inserted(t) + 1]

(* Faulty variant: the quantity is taken from the request, which has none. *)
NoQuantity(l) == 0

(* _build_receipt_lines: the quantity of the purchase order line. *)
ReceiptQuantity(l) == l.qty

(* Faulty variant: the code is looked up, but not kept from the others. *)
InsertWithoutWaiting(t) ==
  /\ pc[t] = "insert_batches" /\ Inserted(t) < Len(mem[t].body)
  /\ LET l == NextEntry(t).line  c == NextEntry(t).code IN
       /\ ~CodeTaken(t, l.product, c)
       /\ mem' = [mem EXCEPT ![t].new = @ \cup
            {[tx |-> t, n |-> Inserted(t) + 1, line |-> l,
              product |-> l.product, code |-> c, qty |-> ReceiptQuantity(l)]}]
  /\ UNCHANGED <<tables, locks, pc, req>>

(* attach_receipt_batches: one batch and receipt for each entry in turn. *)
InsertBatch(t) ==
  /\ pc[t] = "insert_batches" /\ Inserted(t) < Len(mem[t].body)
  /\ LET l == NextEntry(t).line  c == NextEntry(t).code IN
       /\ ~CodeTaken(t, l.product, c)
       /\ Acquire(t, CodeRow(l.product, c), "FOR UPDATE")
       /\ mem' = [mem EXCEPT ![t].new = @ \cup
            {[tx |-> t, n |-> Inserted(t) + 1, line |-> l,
              product |-> l.product, code |-> c, qty |-> ReceiptQuantity(l)]}]
  /\ UNCHANGED <<tables, pc, req>>

(* A UniqueViolation, which receive_purchase_order does not catch. *)
DuplicateCode(t) ==
  /\ pc[t] = "insert_batches" /\ Inserted(t) < Len(mem[t].body)
  /\ LET l == NextEntry(t).line  c == NextEntry(t).code IN
       /\ CanLock(t, CodeRow(l.product, c), "FOR UPDATE")
       /\ CodeTaken(t, l.product, c)
  /\ Rollback(t, "error")

(* mark_purchase_order_received takes effect with the COMMIT. *)
CommitReceive(t) ==
  /\ pc[t] = "insert_batches" /\ Inserted(t) = Len(mem[t].body)
  /\ order' = [order EXCEPT ![req[t].order].status = "received"]
  /\ batches' = batches \cup mem[t].new
  /\ Finish(t, "ok")
  /\ UNCHANGED <<lines, req>>

(* create_manual_batch: one INSERT that may have to wait, and COMMIT. *)
ManualBatch(t) ==
  /\ pc[t] = "insert_manual"
  /\ CanLock(t, CodeRow(req[t].product, req[t].code), "FOR UPDATE")
  /\ ~CodeTaken(t, req[t].product, req[t].code)
  /\ batches' = batches \cup
       {[tx |-> t, n |-> 1, line |-> NoLine, product |-> req[t].product,
         code |-> req[t].code, qty |-> req[t].qty]}
  /\ Finish(t, "ok")
  /\ UNCHANGED <<order, lines, req>>

BatchExists(t) ==
  /\ pc[t] = "insert_manual"
  /\ CanLock(t, CodeRow(req[t].product, req[t].code), "FOR UPDATE")
  /\ CodeTaken(t, req[t].product, req[t].code)
  /\ Rollback(t, "refused")

-------------------------------------------------------------------------------
(* update_batch_metadata, when it gives a batch another code *)

(* The row of the batch that the request names, as it is by now. *)
Current(t) ==
  {b \in batches : \E c \in mem[t].old : BatchRow(b) = BatchRow(c)}

(* select_batch_for_update *)
LockBatch(t) ==
  /\ pc[t] = "lock_batch"
  /\ \E b \in Current(t) :
       /\ b.code # req[t].code
       /\ Acquire(t, BatchRow(b), "FOR UPDATE")
       /\ mem' = [mem EXCEPT ![t].old = {b}]
  /\ Goto(t, "update_batch")
  /\ UNCHANGED <<tables, req>>

CodeKept(t) ==
  /\ pc[t] = "lock_batch"
  /\ \E b \in Current(t) :
       b.code = req[t].code /\ CanLock(t, BatchRow(b), "FOR UPDATE")
  /\ Rollback(t, "ok")

(* The UPDATE gives up the old code and then enters the new one, for which *)
(* it may have to wait; COMMIT.                                            *)
UpdateBatch(t) ==
  /\ pc[t] = "update_batch"
  /\ \E b \in mem[t].old : Acquire(t, CodeRow(b.product, b.code), "FOR UPDATE")
  /\ Goto(t, "insert_code")
  /\ UNCHANGED <<tables, req, mem>>

RenameBatch(t) ==
  /\ pc[t] = "insert_code"
  /\ \E b \in mem[t].old :
       /\ CanLock(t, CodeRow(b.product, req[t].code), "FOR UPDATE")
       /\ ~CodeTaken(t, b.product, req[t].code)
       /\ batches' = (batches \ {b}) \cup {[b EXCEPT !.code = req[t].code]}
  /\ Finish(t, "ok")
  /\ UNCHANGED <<order, lines, req>>

(* A UniqueViolation, which update_batch_metadata does not catch. *)
CodeInUse(t) ==
  /\ pc[t] = "insert_code"
  /\ \E b \in mem[t].old :
       /\ CanLock(t, CodeRow(b.product, req[t].code), "FOR UPDATE")
       /\ CodeTaken(t, b.product, req[t].code)
  /\ Rollback(t, "error")

-------------------------------------------------------------------------------
(* update_purchase_order_draft *)

AfterHeader(t) == IF req[t].lines = <<>> THEN "commit_update" ELSE "select_lines"

(* _load_existing_po_draft_or_raise and the check of delete_purchase_order *)
(* _draft: a plain SELECT.  So is update_purchase_order_header when the    *)
(* PATCH names no header field: nothing is locked.                         *)
ReadOrder(t) ==
  /\ pc[t] = "read_order"
  /\ order[req[t].order].status = "draft"
  /\ Goto(t, IF req[t].op = "delete" THEN "delete_order"
             ELSE IF req[t].header = Keep THEN AfterHeader(t) ELSE "update_header")
  /\ UNCHANGED <<tables, locks, req, mem>>

NotDraft(t) ==
  /\ pc[t] = "read_order"
  /\ order[req[t].order].status # "draft"
  /\ Rollback(t, "refused")

(* UPDATE ... WHERE id and owner_id, whatever the status is by now. *)
UpdateHeader(t) ==
  /\ pc[t] = "update_header"
  /\ Acquire(t, OrderRow(req[t].order), "NO KEY UPDATE")
  /\ order[req[t].order].status # "deleted"
  /\ Goto(t, AfterHeader(t))
  /\ UNCHANGED <<tables, req, mem>>

(* The UPDATE gives no row: the answer cannot be built from it, and new    *)
(* lines would have no order.                                              *)
HeaderGone(t) ==
  /\ pc[t] = "update_header"
  /\ CanLock(t, OrderRow(req[t].order), "NO KEY UPDATE")
  /\ order[req[t].order].status = "deleted"
  /\ Rollback(t, "error")

(* Faulty variant: batches do not reference lines. *)
Unreferenced(t) == FALSE

(* batches_pol_owner_fkey: a line with a batch cannot be deleted. *)
Referenced(t) == \E b \in batches : b.line \in mem[t].got

LinesDeleted(t) ==
  /\ pc[t] = "delete_lines" /\ mem[t].want = {}
  /\ ~Referenced(t)
  /\ Goto(t, "insert_lines")
  /\ UNCHANGED <<tables, locks, req, mem>>

LinesReferenced(t) ==
  /\ pc[t] = "delete_lines" /\ mem[t].want = {}
  /\ Referenced(t)
  /\ Rollback(t, "error")

(* insert_purchase_order_line, for each line: the foreign-key check        *)
(* pol_po_owner_fkey locks the order.                                      *)
InsertLines(t) ==
  /\ pc[t] = "insert_lines"
  /\ Acquire(t, OrderRow(req[t].order), "KEY SHARE")
  /\ order[req[t].order].status # "deleted"
  /\ Goto(t, "commit_update")
  /\ UNCHANGED <<tables, req, mem>>

OrderGone(t) ==
  /\ pc[t] = "insert_lines"
  /\ CanLock(t, OrderRow(req[t].order), "KEY SHARE")
  /\ order[req[t].order].status = "deleted"
  /\ Rollback(t, "error")

CommitUpdate(t) ==
  /\ pc[t] = "commit_update"
  /\ order' = IF req[t].header = Keep THEN order
              ELSE [order EXCEPT ![req[t].order].header = req[t].header]
  /\ lines' = (lines \ mem[t].got) \cup NewLines(t, req[t].order, req[t].lines)
  /\ Finish(t, "ok")
  /\ UNCHANGED <<batches, req>>

-------------------------------------------------------------------------------
(* delete_purchase_order_draft *)

(* DELETE ... WHERE status = 'draft', then the cascade to the lines. *)
DeleteOrder(t) ==
  /\ pc[t] = "delete_order"
  /\ Acquire(t, OrderRow(req[t].order), "FOR UPDATE")
  /\ order[req[t].order].status = "draft"
  /\ mem' = [mem EXCEPT ![t].want = LinesOf(req[t].order)]
  /\ Goto(t, "cascade")
  /\ UNCHANGED <<tables, req>>

(* The DELETE finds the order received or gone by now and deletes nothing; *)
(* its row count is not looked at.                                         *)
DeletedNothing(t) ==
  /\ pc[t] = "delete_order"
  /\ CanLock(t, OrderRow(req[t].order), "FOR UPDATE")
  /\ order[req[t].order].status # "draft"
  /\ Rollback(t, "ok")

CommitDelete(t) ==
  /\ pc[t] = "cascade" /\ mem[t].want = {}
  /\ order' = [order EXCEPT ![req[t].order].status = "deleted"]
  /\ lines' = lines \ mem[t].got
  /\ Finish(t, "ok")
  /\ UNCHANGED <<batches, req>>

-------------------------------------------------------------------------------
(* Deadlocks and crashes *)

(* What the statement a transaction is at asks for. *)
Wanted(t) ==
  CASE pc[t] \in {"lock_order", "delete_order"} -> {<<OrderRow(req[t].order), "FOR UPDATE">>}
    [] pc[t] = "update_header" -> {<<OrderRow(req[t].order), "NO KEY UPDATE">>}
    [] pc[t] = "insert_lines" -> {<<OrderRow(req[t].order), "KEY SHARE">>}
    [] pc[t] \in {"lock_lines", "delete_lines", "cascade"} ->
         {<<LineRow(l), "FOR UPDATE">> : l \in mem[t].want}
    [] pc[t] = "insert_batches" /\ Inserted(t) < Len(mem[t].body) ->
         {<<CodeRow(NextEntry(t).line.product, NextEntry(t).code), "FOR UPDATE">>}
    [] pc[t] = "insert_manual" ->
         {<<CodeRow(req[t].product, req[t].code), "FOR UPDATE">>}
    [] pc[t] = "lock_batch" -> {<<BatchRow(b), "FOR UPDATE">> : b \in Current(t)}
    [] pc[t] = "insert_code" ->
         {<<CodeRow(b.product, req[t].code), "FOR UPDATE">> : b \in mem[t].old}
    [] OTHER -> {}

WaitsFor ==
  [t \in Tx |-> IF \A w \in Wanted(t) : ~CanLock(t, w[1], w[2])
                THEN UNION {Blockers(t, w[1], w[2]) : w \in Wanted(t)} ELSE {}]

(* The deadlock detector aborts one transaction of a cycle. *)
DeadlockVictim(t) ==
  /\ Open(t)
  /\ InWaitCycle(t, WaitsFor)
  /\ Rollback(t, "aborted")

(* The worker is killed, or its connection is lost. *)
Crash(t) ==
  /\ t \in Fragile /\ Open(t)
  /\ Rollback(t, "aborted")

-------------------------------------------------------------------------------
(* Specification *)

Init ==
  /\ \E h \in Header :
       order = [o \in Order |-> [status |-> IF \E l \in InitialLines : l.order = o
                                            THEN "draft" ELSE "absent",
                                 header |-> h]]
  /\ lines = InitialLines
  /\ batches = {}
  /\ locks = {}
  /\ pc = [t \in Tx |-> "idle"]
  /\ req = [t \in Tx |-> NoRequest]
  /\ mem = [t \in Tx |-> Blank]

Receive(t) ==
  \/ LockOrder(t) \/ OrderRefused(t) \/ SelectLines(t) \/ TakeLine(t) \/ SkipLine(t)
  \/ LinesMatched(t) \/ ReceiveLinesMismatch(t)
  \/ InsertBatch(t) \/ DuplicateCode(t) \/ CommitReceive(t)

Manual(t) == ManualBatch(t) \/ BatchExists(t)

Rename(t) ==
  LockBatch(t) \/ CodeKept(t) \/ UpdateBatch(t) \/ RenameBatch(t) \/ CodeInUse(t)

Draft(t) ==
  \/ ReadOrder(t) \/ NotDraft(t) \/ UpdateHeader(t) \/ HeaderGone(t)
  \/ LinesDeleted(t) \/ LinesReferenced(t) \/ InsertLines(t) \/ OrderGone(t)
  \/ CommitUpdate(t) \/ DeleteOrder(t) \/ DeletedNothing(t) \/ CommitDelete(t)

Step(t) == Receive(t) \/ Manual(t) \/ Rename(t) \/ Draft(t)

(* Every request has been answered. *)
Quiescent == (\A t \in Tx : Answered(t)) /\ UNCHANGED vars

Next ==
  \/ \E t \in Tx : Start(t) \/ CreateOrder(t) \/ Step(t) \/ DeadlockVictim(t) \/ Crash(t)
  \/ Quiescent

Spec == Init /\ [][Next]_vars

-------------------------------------------------------------------------------
(* Properties *)

TypeOK ==
  /\ order \in [Order -> [status : {"absent", "draft", "received", "deleted"},
                          header : Header]]
  /\ lines \subseteq Line
  /\ batches \subseteq ReceivedBatch
  /\ locks \subseteq Lock
  /\ pc \in [Tx -> Statement \cup Outcome \cup {"idle"}]
  /\ req \in [Tx -> Request \cup {NoRequest}]
  /\ mem \in [Tx -> Mem]

BatchesOf(l) == {b \in batches : b.line = l}

(* A batch created by a receipt stays traceable: its line still exists and *)
(* belongs to a received order, whatever edits and deletions of the draft  *)
(* were under way when it was received (F3).                               *)
BatchesKeepTheirLine ==
  \A b \in batches : b.line # NoLine =>
    b.line \in lines /\ order[b.line.order].status = "received"

(* No line is received twice, by a retry or by two receipts of one order   *)
(* beside each other: what arrived for a line arrived with one request.    *)
ReceivedByOneRequest ==
  \A r, s \in batches : r.line = s.line /\ r.line # NoLine => r.tx = s.tx

(* Does not hold: a request may name a line twice, under two batch codes.  *)
LineReceivedOnce == \A l \in lines : Cardinality(BatchesOf(l)) <= 1

(* Every order that exists has lines, and no line outlives its order:      *)
(* edits and deletions beside each other leave neither an empty order nor  *)
(* orphaned lines.                                                         *)
LinesFollowOrder ==
  \A o \in Order : LinesOf(o) # {} <=> order[o].status \in {"draft", "received"}

(* The step that receives an order receives all of it: each line the order *)
(* has at that moment gets a batch, even if the draft was edited since the *)
(* client read it.                                                         *)
ReceivedInFull ==
  [][\A o \in Order :
       order[o].status # "received" /\ order'[o].status = "received" =>
         \A l \in LinesOf(o)' : BatchesOf(l)' # {}]_vars

(* A received order keeps its lines (D6).  Does not hold: an edit checks   *)
(* the status without a lock, and of two edits beside each other the later *)
(* one finds nothing left to delete and nothing to stop it.                *)
ReceivedFrozen ==
  [][\A o \in Order : order[o].status = "received" =>
       order'[o].status = "received" /\ LinesOf(o)' = LinesOf(o)]_vars

===============================================================================
