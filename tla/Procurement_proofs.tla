--------------------------- MODULE Procurement_proofs ---------------------------
(***************************************************************************)
(* Proofs about purchase orders: for any number of transactions, orders    *)
(* and lines, what was received stays traceable to lines of a received     *)
(* order, each line arrives with one request, an order has lines as long   *)
(* as it exists, a receipt covers the order as it then is, no two batches  *)
(* of a product have one code, renamed or not, and all of it implements    *)
(* PurchaseLifecycle.                                                      *)
(***************************************************************************)
EXTENDS PurchaseRefinement, FiniteSetTheorems, TLAPS

(* Each operation stays at its own statements. *)
StatementOf(op) ==
  CASE op = "receive" -> {"lock_order", "select_lines", "lock_lines", "insert_batches"}
    [] op = "batch" -> {"insert_manual"}
    [] op = "rename" -> {"lock_batch", "update_batch", "insert_code"}
    [] op = "update" -> {"read_order", "update_header", "select_lines", "delete_lines",
                         "insert_lines", "commit_update"}
    [] op = "delete" -> {"read_order", "delete_order", "cascade"}
    [] OTHER -> {}

AtOwnStatement(t) == Open(t) => req[t] \in Request /\ pc[t] \in StatementOf(req[t].op)

(* Lines are collected by the statements on lines only, and batches by the *)
(* INSERTs of a receipt.                                                   *)
NothingYet(t) ==
  /\ pc[t] \in {"idle", "lock_order", "select_lines", "read_order", "update_header",
                "delete_order", "insert_manual",
                "lock_batch", "update_batch", "insert_code"} =>
       mem[t].want = {} /\ mem[t].got = {}
  /\ pc[t] # "insert_batches" => mem[t].new = {}

(* The lines a transaction deals with are lines of its order; those it has *)
(* locked are still there.                                                 *)
LinesHeld(t) ==
  /\ \A l \in mem[t].want \cup mem[t].got : l.order = req[t].order
  /\ \A l \in mem[t].got : l \in lines /\ Holds(t, LineRow(l), "FOR UPDATE")

(* Who locks the header FOR UPDATE as a draft, to receive or to delete the *)
(* order, has all its lines to deal with.                                  *)
OwnsDraft(t) ==
  \/ pc[t] \in {"lock_lines", "insert_batches", "cascade"}
  \/ pc[t] = "select_lines" /\ req[t].op = "receive"

DraftOwned(t) ==
  OwnsDraft(t) =>
    /\ Holds(t, OrderRow(req[t].order), "FOR UPDATE")
    /\ order[req[t].order].status = "draft"
    /\ pc[t] # "select_lines" => mem[t].want \cup mem[t].got = LinesOf(req[t].order)

(* What a receipt has inserted: a batch for each of the first entries. *)
ReceiptOK(t) ==
  pc[t] = "insert_batches" =>
    /\ mem[t].want = {} /\ LinesMatch(t)
    /\ IsFiniteSet(mem[t].new)
    /\ Inserted(t) <= Len(mem[t].body)
    /\ \A b \in mem[t].new : b.tx = t /\ b.n <= Inserted(t) /\ b.line \in Named(t)
    /\ \A i \in 1..Inserted(t) : \E b \in mem[t].new : b.line = mem[t].body[i].line

(* An edit replaces lines only by lines, and holds its order while it      *)
(* inserts them; what it deletes has no batch.                             *)
EditOK(t) ==
  /\ Open(t) /\ req[t].op \in DraftOp /\ pc[t] # "read_order" =>
       order[req[t].order].status # "absent"
  /\ pc[t] \in {"select_lines", "delete_lines", "insert_lines"} /\ req[t].op = "update" =>
       req[t].lines # <<>>
  /\ pc[t] \in {"insert_lines", "commit_update"} => ~Referenced(t)
  /\ pc[t] = "commit_update" =>
       IF req[t].lines = <<>> THEN mem[t].got = {}
       ELSE /\ Holds(t, OrderRow(req[t].order), "KEY SHARE")
            /\ order[req[t].order].status # "deleted"

(* The batch that is given another code is locked and as it was read. *)
RenameOK(t) ==
  pc[t] \in {"update_batch", "insert_code"} =>
    \A b \in mem[t].old : b \in batches /\ Holds(t, BatchRow(b), "FOR UPDATE")

TxInv(t) ==
  /\ AtOwnStatement(t) /\ NothingYet(t) /\ LinesHeld(t) /\ DraftOwned(t)
  /\ ReceiptOK(t) /\ EditOK(t) /\ RenameOK(t)

IInv ==
  /\ TypeOK /\ LocksCompatible
  /\ BatchesKeepTheirLine /\ ReceivedByOneRequest /\ LinesFollowOrder
  /\ \A t \in Tx : TxInv(t)

-------------------------------------------------------------------------------
(* Row locks *)

LEMMA ConflictsSymmetric == \A m, n : Conflicts(m, n) <=> Conflicts(n, m)
  BY DEF Conflicts

LEMMA RowTypes ==
  /\ \A o \in Order : OrderRow(o) \in Row
  /\ \A l \in Line : LineRow(l) \in Row
  /\ \A p \in Product, c \in Code : CodeRow(p, c) \in Row
  /\ \A b \in ReceivedBatch : BatchRow(b) \in Row
  /\ {"FOR UPDATE", "NO KEY UPDATE", "KEY SHARE"} \subseteq Mode
  BY DEF OrderRow, LineRow, CodeRow, BatchRow, ReceivedBatch, Row, Mode

(* A granted lock conflicts with none, and takes none away. *)
LEMMA AcquireLemma ==
  ASSUME TypeOK, LocksCompatible,
         NEW t \in Tx, NEW r \in Row, NEW m \in Mode, Acquire(t, r, m)
  PROVE  /\ locks' \subseteq Lock /\ LocksCompatible'
         /\ Holds(t, r, m)'
         /\ \A u, q, n : Holds(u, q, n) => Holds(u, q, n)'
<1> DEFINE new == [tx |-> t, row |-> r, mode |-> m]
<1>1. locks' = locks \cup {new}
  BY DEF Acquire, AcquireAll
<1>2. new \in Lock
  BY DEF Lock
<1>3. \A k \in locks : k.row = r /\ k.tx # t => ~Conflicts(k.mode, m)
  BY DEF Acquire, AcquireAll, CanLock, Blockers
<1>4. LocksCompatible'
  <2>1. SUFFICES ASSUME NEW k \in locks', NEW l \in locks', k.row = l.row, k.tx # l.tx
                 PROVE  ~Conflicts(k.mode, l.mode)
    BY DEF LocksCompatible
  <2>2. CASE k \in locks /\ l \in locks
    BY <2>1, <2>2 DEF LocksCompatible
  <2>3. CASE k = new
    BY <1>1, <1>3, <2>1, <2>3, ConflictsSymmetric
  <2>4. CASE l = new
    BY <1>1, <1>3, <2>1, <2>4
  <2> QED
    BY <1>1, <2>2, <2>3, <2>4
<1> QED
  BY <1>1, <1>2, <1>4 DEF TypeOK, Holds

(* A row locked FOR UPDATE is locked by nobody else. *)
LEMMA ForUpdateExcludes ==
  ASSUME LocksCompatible, NEW t, NEW u, t # u, NEW r, NEW m,
         Holds(t, r, "FOR UPDATE"), Holds(u, r, m)
  PROVE  FALSE
  BY DEF LocksCompatible, Holds, Conflicts

-------------------------------------------------------------------------------
(* Steps and the transactions that do not take them *)

(* What u relies on while another transaction writes the tables. *)
Undisturbed(u) ==
  /\ OwnsDraft(u) =>
       /\ order'[req[u].order].status = "draft"
       /\ {l \in lines' : l.order = req[u].order} = LinesOf(req[u].order)
  /\ pc[u] = "commit_update" /\ req[u].lines # <<>> =>
       order'[req[u].order].status # "deleted"
  /\ \A l \in mem[u].got :
       /\ l \in lines'
       /\ \A b \in batches' : b.line = l => \E c \in batches : c.line = l
  /\ pc[u] \in {"update_batch", "insert_code"} => mem[u].old \subseteq batches'

LEMMA FrameLemma ==
  ASSUME IInv, NEW t \in Tx, TxInv(t)', TypeOK', LocksCompatible',
         BatchesKeepTheirLine', ReceivedByOneRequest', LinesFollowOrder',
         \A u \in Tx \ {t} :
           /\ pc'[u] = pc[u] /\ req'[u] = req[u] /\ mem'[u] = mem[u]
           /\ \A r, m : Holds(u, r, m) => Holds(u, r, m)'
           /\ Undisturbed(u),
         \A o \in Order : order[o].status # "absent" => order'[o].status # "absent"
  PROVE  IInv'
<1>1. ASSUME NEW u \in Tx \ {t} PROVE TxInv(u)'
  <2>1. /\ pc'[u] = pc[u] /\ req'[u] = req[u] /\ mem'[u] = mem[u]
        /\ \A r, m : Holds(u, r, m) => Holds(u, r, m)'
        /\ Undisturbed(u) /\ TxInv(u)
    BY DEF IInv
  <2>2. AtOwnStatement(u)' /\ NothingYet(u)'
    BY <2>1 DEF TxInv, AtOwnStatement, NothingYet, Open
  <2>3. LinesHeld(u)'
    BY <2>1 DEF TxInv, LinesHeld, Undisturbed
  <2>4. DraftOwned(u)'
    <3>1. SUFFICES ASSUME OwnsDraft(u)
                   PROVE  /\ Holds(u, OrderRow(req[u].order), "FOR UPDATE")'
                          /\ order'[req[u].order].status = "draft"
                          /\ pc[u] # "select_lines" =>
                               mem[u].want \cup mem[u].got = LinesOf(req[u].order)'
      BY <2>1 DEF DraftOwned, OwnsDraft
    <3>2. Holds(u, OrderRow(req[u].order), "FOR UPDATE")'
      BY <2>1, <3>1 DEF TxInv, DraftOwned
    <3> QED
      BY <2>1, <3>1, <3>2 DEF TxInv, DraftOwned, Undisturbed, LinesOf
  <2>5. ReceiptOK(u)'
    <3>1. Inserted(u)' = Inserted(u) /\ Named(u)' = Named(u) /\ LinesMatch(u)' = LinesMatch(u)
      BY <2>1 DEF Inserted, Named, LinesMatch
    <3> QED
      BY <2>1, <3>1 DEF TxInv, ReceiptOK
  <2>6. EditOK(u)'
    <3>1. Open(u) /\ req[u].op \in DraftOp => req[u].order \in Order
      BY <2>1, RequestFields DEF TxInv, AtOwnStatement
    <3>2. pc[u] \in {"insert_lines", "commit_update"} => ~Referenced(u)'
      BY <2>1 DEF TxInv, EditOK, Referenced, Undisturbed
    <3>3. Open(u)' = Open(u)
      BY <2>1 DEF Open
    <3>4. Open(u) /\ req[u].op \in DraftOp /\ pc[u] # "read_order" =>
            order'[req[u].order].status # "absent"
      BY <2>1, <3>1 DEF TxInv, EditOK
    <3>5. pc[u] = "commit_update" =>
            IF req[u].lines = <<>> THEN mem[u].got = {}
            ELSE /\ Holds(u, OrderRow(req[u].order), "KEY SHARE")'
                 /\ order'[req[u].order].status # "deleted"
      BY <2>1 DEF TxInv, EditOK, Undisturbed
    <3> QED
      BY <2>1, <3>2, <3>3, <3>4, <3>5 DEF TxInv, EditOK
  <2>7. RenameOK(u)'
    BY <2>1 DEF TxInv, RenameOK, Undisturbed, BatchRow
  <2> QED
    BY <2>2, <2>3, <2>4, <2>5, <2>6, <2>7 DEF TxInv
<1> QED
  BY <1>1 DEF IInv

(* Nothing disturbs the others as long as no table is written. *)
LEMMA PrivateLemma ==
  ASSUME IInv, NEW t \in Tx, UNCHANGED tables, TxInv(t)', TypeOK', LocksCompatible',
         \A u \in Tx \ {t} :
           /\ pc'[u] = pc[u] /\ req'[u] = req[u] /\ mem'[u] = mem[u]
           /\ \A r, m : Holds(u, r, m) => Holds(u, r, m)'
  PROVE  IInv'
<1>1. BatchesKeepTheirLine' /\ ReceivedByOneRequest' /\ LinesFollowOrder'
  BY DEF IInv, tables, BatchesKeepTheirLine, ReceivedByOneRequest, LinesFollowOrder, LinesOf
<1>2. ASSUME NEW u \in Tx PROVE Undisturbed(u)
  BY DEF Undisturbed, IInv, TxInv, DraftOwned, EditOK, LinesHeld, LinesOf, RenameOK, tables
<1> QED
  BY <1>1, <1>2, FrameLemma DEF tables

(* What a transaction leaves behind when it ends. *)
LEMMA FinishLemma ==
  ASSUME IInv, NEW t \in Tx, NEW s \in Outcome, Finish(t, s), req' = req
  PROVE  /\ locks' \subseteq Lock /\ LocksCompatible'
         /\ pc' \in [Tx -> Statement \cup Outcome \cup {"idle"}]
         /\ mem' \in [Tx -> Mem]
         /\ TxInv(t)'
         /\ \A u \in Tx \ {t} :
              /\ pc'[u] = pc[u] /\ req'[u] = req[u] /\ mem'[u] = mem[u]
              /\ \A r, m : Holds(u, r, m) => Holds(u, r, m)'
<1>1. locks' \subseteq Lock /\ LocksCompatible'
  BY DEF Finish, ReleaseAll, IInv, TypeOK, LocksCompatible
<1>2. /\ pc'[t] = s /\ mem'[t] = Blank
      /\ pc' \in [Tx -> Statement \cup Outcome \cup {"idle"}] /\ mem' \in [Tx -> Mem]
      /\ \A u \in Tx \ {t} : pc'[u] = pc[u] /\ mem'[u] = mem[u]
  <2>1. Blank \in Mem
    BY DEF Blank, Mem
  <2> QED
    BY <2>1 DEF Finish, Goto, IInv, TypeOK
<1>3. \A u \in Tx \ {t} : \A r, m : Holds(u, r, m) => Holds(u, r, m)'
  BY DEF Finish, ReleaseAll, Holds
<1>4. TxInv(t)'
  <2>1. mem'[t].want = {} /\ mem'[t].got = {} /\ mem'[t].new = {}
    BY <1>2 DEF Blank
  <2>2. ~Open(t)' /\ pc'[t] \in {"ok", "refused", "error", "aborted"}
    BY <1>2 DEF Open, Outcome
  <2>3. AtOwnStatement(t)' /\ NothingYet(t)' /\ LinesHeld(t)' /\ DraftOwned(t)'
    BY <2>1, <2>2 DEF AtOwnStatement, NothingYet, LinesHeld, DraftOwned, OwnsDraft
  <2>4. ReceiptOK(t)' /\ EditOK(t)' /\ RenameOK(t)'
    BY <2>2 DEF ReceiptOK, EditOK, RenameOK
  <2> QED
    BY <2>3, <2>4 DEF TxInv
<1> QED
  BY <1>1, <1>2, <1>3, <1>4

LEMMA RollbackLemma ==
  ASSUME IInv, NEW t \in Tx, NEW s \in Outcome, Rollback(t, s)
  PROVE  IInv'
<1>1. Finish(t, s) /\ UNCHANGED tables /\ req' = req
  BY DEF Rollback
<1>2. TypeOK'
  BY <1>1, FinishLemma DEF IInv, TypeOK, tables
<1> QED
  BY <1>1, <1>2, FinishLemma, PrivateLemma

(* The operation of a transaction, from the statement it is at. *)
LEMMA AtLemma ==
  ASSUME IInv, NEW t \in Tx, Open(t)
  PROVE  /\ req[t] \in Request
         /\ pc[t] \notin {"insert_manual", "lock_batch", "update_batch", "insert_code"} =>
              req[t].order \in Order
         /\ pc[t] \in {"lock_batch", "update_batch", "insert_code"} =>
              req[t].op = "rename" /\ req[t].code \in Code
         /\ pc[t] \in {"lock_order", "lock_lines", "insert_batches"} => req[t].op = "receive"
         /\ pc[t] = "insert_manual" =>
              /\ req[t].op = "batch" /\ req[t].product \in Product
              /\ req[t].code \in Code /\ req[t].qty \in Nat \ {0}
         /\ pc[t] = "select_lines" => req[t].op \in {"receive", "update"}
         /\ pc[t] \in {"update_header", "delete_lines", "insert_lines", "commit_update"} =>
              req[t].op = "update"
         /\ pc[t] = "read_order" => req[t].op \in DraftOp
         /\ pc[t] \in {"delete_order", "cascade"} => req[t].op = "delete"
<1>1. req[t] \in Request /\ pc[t] \in StatementOf(req[t].op)
  BY DEF IInv, TxInv, AtOwnStatement
<1>2. req[t].op \in {"receive", "batch", "rename", "update", "delete", "create"}
  BY <1>1, RequestFields DEF DraftOp
<1>3. \/ req[t].op = "receive"
         /\ pc[t] \in {"lock_order", "select_lines", "lock_lines", "insert_batches"}
      \/ req[t].op = "batch" /\ pc[t] = "insert_manual"
      \/ req[t].op = "rename" /\ pc[t] \in {"lock_batch", "update_batch", "insert_code"}
      \/ req[t].op = "update"
         /\ pc[t] \in {"read_order", "update_header", "select_lines", "delete_lines",
                       "insert_lines", "commit_update"}
      \/ req[t].op = "delete" /\ pc[t] \in {"read_order", "delete_order", "cascade"}
  BY <1>1, <1>2 DEF StatementOf
<1>4. /\ req[t].op \in {"receive", "update", "delete"} => req[t].order \in Order
      /\ req[t].op = "batch" => /\ req[t].product \in Product
                                /\ req[t].code \in Code /\ req[t].qty \in Nat \ {0}
      /\ req[t].op = "rename" => req[t].code \in Code
  BY <1>1, RequestFields DEF DraftOp
<1> QED
  BY <1>1, <1>3, <1>4 DEF DraftOp

-------------------------------------------------------------------------------
(* Steps that write no table *)

(* To the next statement, perhaps with a lock more. *)
LEMMA MoveLemma ==
  ASSUME IInv, NEW t \in Tx, NEW s \in Statement,
         UNCHANGED tables, req' \in [Tx -> Request \cup {NoRequest}],
         \A u \in Tx \ {t} : req'[u] = req[u] /\ mem'[u] = mem[u],
         mem' \in [Tx -> Mem], Goto(t, s), TxInv(t)',
         \/ locks' = locks
         \/ \E r \in Row, m \in Mode : Acquire(t, r, m)
  PROVE  IInv'
<1>1. /\ locks' \subseteq Lock /\ LocksCompatible'
      /\ \A u, r, m : Holds(u, r, m) => Holds(u, r, m)'
  <2>1. CASE locks' = locks
    BY <2>1 DEF IInv, TypeOK, LocksCompatible, Holds
  <2>2. CASE \E r \in Row, m \in Mode : Acquire(t, r, m)
    BY <2>2, AcquireLemma DEF IInv
  <2> QED
    BY <2>1, <2>2
<1>2. /\ pc' \in [Tx -> Statement \cup Outcome \cup {"idle"}]
      /\ \A u \in Tx \ {t} : pc'[u] = pc[u]
  BY DEF Goto, IInv, TypeOK
<1>3. TypeOK'
  BY <1>1, <1>2 DEF IInv, TypeOK, tables
<1> QED
  BY <1>1, <1>2, <1>3, PrivateLemma

LEMMA StartStep ==
  ASSUME IInv, NEW t \in Tx, Start(t)
  PROVE  IInv'
<1>1. PICK r \in Request :
        /\ r.op # "create" /\ req' = [req EXCEPT ![t] = r] /\ Goto(t, FirstStatement(r.op))
        /\ CASE r.op = "receive" ->
                  \E s \in Bodies(r.order) : mem' = [mem EXCEPT ![t].body = s]
             [] r.op = "rename" ->
                  \E b \in batches : mem' = [mem EXCEPT ![t].old = {b}]
             [] OTHER -> UNCHANGED mem
  BY DEF Start
<1>2. pc[t] = "idle" /\ UNCHANGED tables /\ locks' = locks
  BY DEF Start
<1>3. /\ FirstStatement(r.op) \in StatementOf(r.op)
      /\ FirstStatement(r.op) \in {"lock_order", "insert_manual", "lock_batch", "read_order"}
      /\ r.op \in DraftOp => FirstStatement(r.op) = "read_order"
  BY <1>1, RequestFields DEF FirstStatement, StatementOf, DraftOp
<1>4. /\ mem' \in [Tx -> Mem] /\ \A u \in Tx \ {t} : mem'[u] = mem[u]
      /\ mem'[t].want = {} /\ mem'[t].got = {} /\ mem'[t].new = {}
  <2>1. /\ mem \in [Tx -> Mem] /\ mem[t] \in Mem
        /\ mem[t].want = {} /\ mem[t].got = {} /\ mem[t].new = {}
    BY <1>2 DEF IInv, TypeOK, TxInv, NothingYet
  <2>2. CASE r.op = "receive"
    <3>1. PICK s \in Bodies(r.order) : mem' = [mem EXCEPT ![t].body = s]
      BY <1>1, <2>2
    <3>2. s \in Seq(Entry)
      <4>1. PICK n \in 1..MaxEntries : s \in [1..n -> [line : LinesOf(r.order), code : Code]]
        BY DEF Bodies
      <4>2. LinesOf(r.order) \subseteq Line
        BY DEF LinesOf, IInv, TypeOK
      <4>3. s \in [1..n -> Entry] /\ n \in Nat
        BY <4>1, <4>2, ProcurementConstants DEF Entry
      <4> QED
        BY <4>3
    <3>3. [mem[t] EXCEPT !.body = s] \in Mem
      BY <2>1, <3>2 DEF Mem
    <3>4. mem' = [mem EXCEPT ![t] = [mem[t] EXCEPT !.body = s]]
      BY <3>1
    <3> QED
      BY <2>1, <3>3, <3>4 DEF Mem
  <2>3. CASE r.op = "rename"
    <3>1. PICK b \in batches : mem' = [mem EXCEPT ![t].old = {b}]
      BY <1>1, <2>3
    <3>2. {b} \in SUBSET ReceivedBatch
      BY DEF IInv, TypeOK
    <3>3. [mem[t] EXCEPT !.old = {b}] \in Mem
      BY <2>1, <3>2 DEF Mem
    <3>4. mem' = [mem EXCEPT ![t] = [mem[t] EXCEPT !.old = {b}]]
      BY <3>1
    <3> QED
      BY <2>1, <3>3, <3>4 DEF Mem
  <2>4. CASE r.op \notin {"receive", "rename"}
    BY <1>1, <2>1, <2>4
  <2> QED
    BY <2>2, <2>3, <2>4
<1>5. /\ pc'[t] = FirstStatement(r.op) /\ req'[t] = r /\ \A u \in Tx \ {t} : req'[u] = req[u]
      /\ req' \in [Tx -> Request \cup {NoRequest}]
  BY <1>1 DEF Goto, IInv, TypeOK
<1>6. TxInv(t)'
  <2>1. AtOwnStatement(t)' /\ NothingYet(t)' /\ LinesHeld(t)'
    BY <1>3, <1>4, <1>5 DEF AtOwnStatement, NothingYet, LinesHeld
  <2>2. DraftOwned(t)' /\ ReceiptOK(t)' /\ EditOK(t)' /\ RenameOK(t)'
    BY <1>3, <1>5 DEF DraftOwned, OwnsDraft, ReceiptOK, EditOK, RenameOK
  <2> QED
    BY <2>1, <2>2 DEF TxInv
<1>7. FirstStatement(r.op) \in Statement
  BY <1>3 DEF Statement
<1> QED
  BY <1>1, <1>2, <1>4, <1>5, <1>6, <1>7, MoveLemma

LEMMA LockOrderStep ==
  ASSUME IInv, NEW t \in Tx, LockOrder(t)
  PROVE  IInv'
<1>1. /\ pc[t] = "lock_order" /\ order[req[t].order].status = "draft"
      /\ Acquire(t, OrderRow(req[t].order), "FOR UPDATE")
      /\ Goto(t, "select_lines") /\ UNCHANGED tables /\ req' = req /\ mem' = mem
  BY DEF LockOrder
<1>2. req[t].order \in Order /\ req[t].op = "receive" /\ req[t] \in Request
  BY <1>1, AtLemma DEF Open, Outcome
<1>3. OrderRow(req[t].order) \in Row /\ "FOR UPDATE" \in Mode
  BY <1>2, RowTypes
<1>4. Holds(t, OrderRow(req[t].order), "FOR UPDATE")'
  BY <1>1, <1>3, AcquireLemma DEF IInv
<1>5. pc'[t] = "select_lines" /\ order' = order
  BY <1>1 DEF Goto, IInv, TypeOK, tables
<1>6. mem[t].want = {} /\ mem[t].got = {} /\ mem[t].new = {}
  BY <1>1 DEF IInv, TxInv, NothingYet
<1>7. TxInv(t)'
  <2>1. DraftOwned(t)'
    BY <1>1, <1>4, <1>5 DEF DraftOwned
  <2> QED
    BY <1>1, <1>2, <1>5, <1>6, <2>1 DEF TxInv, AtOwnStatement, NothingYet, LinesHeld,
       ReceiptOK, EditOK, RenameOK, StatementOf, DraftOp
<1> QED
  BY <1>1, <1>3, <1>7, MoveLemma DEF Statement, IInv, TypeOK

LEMMA SelectLinesStep ==
  ASSUME IInv, NEW t \in Tx, SelectLines(t)
  PROVE  IInv'
<1> DEFINE s == IF req[t].op = "receive" THEN "lock_lines" ELSE "delete_lines"
           L == LinesOf(req[t].order)
<1>1. /\ pc[t] = "select_lines" /\ mem' = [mem EXCEPT ![t].want = L]
      /\ Goto(t, s) /\ UNCHANGED tables /\ locks' = locks /\ req' = req
  BY DEF SelectLines
<1>2. req[t].op \in {"receive", "update"} /\ req[t] \in Request /\ TxInv(t)
  BY <1>1, AtLemma DEF Open, Outcome, IInv
<1>3. L \subseteq Line /\ \A l \in L : l.order = req[t].order
  BY DEF LinesOf, IInv, TypeOK
<1>4. /\ mem' \in [Tx -> Mem] /\ \A u \in Tx \ {t} : mem'[u] = mem[u]
      /\ mem'[t].want = L /\ mem'[t].got = {} /\ mem'[t].new = {}
  <2>1. /\ mem \in [Tx -> Mem] /\ mem[t] \in Mem /\ mem[t].got = {} /\ mem[t].new = {}
    BY <1>1 DEF IInv, TypeOK, TxInv, NothingYet
  <2>2. [mem[t] EXCEPT !.want = L] \in Mem
    BY <1>3, <2>1 DEF Mem
  <2>3. mem' = [mem EXCEPT ![t] = [mem[t] EXCEPT !.want = L]]
    BY <1>1
  <2> QED
    BY <2>1, <2>2, <2>3 DEF Mem
<1>5. pc'[t] = s /\ order' = order /\ lines' = lines
  BY <1>1 DEF Goto, IInv, TypeOK, tables
<1>6. DraftOwned(t)'
  <2>1. SUFFICES ASSUME req[t].op = "receive"
                 PROVE  /\ Holds(t, OrderRow(req[t].order), "FOR UPDATE")'
                        /\ order[req[t].order].status = "draft"
                        /\ mem'[t].want \cup mem'[t].got = LinesOf(req[t].order)'
    BY <1>1, <1>2, <1>5 DEF DraftOwned, OwnsDraft
  <2>2. LinesOf(req[t].order)' = L
    BY <1>1, <1>5 DEF LinesOf
  <2> QED
    BY <1>1, <1>2, <1>4, <2>1, <2>2 DEF TxInv, DraftOwned, OwnsDraft, Holds
<1>7. AtOwnStatement(t)' /\ NothingYet(t)' /\ LinesHeld(t)' /\ ReceiptOK(t)' /\ RenameOK(t)'
  BY <1>1, <1>2, <1>3, <1>4, <1>5
  DEF AtOwnStatement, NothingYet, LinesHeld, ReceiptOK, RenameOK, StatementOf
<1>8. EditOK(t)'
  BY <1>1, <1>2, <1>5 DEF TxInv, EditOK, Open, Outcome, DraftOp
<1> QED
  BY <1>1, <1>4, <1>6, <1>7, <1>8, MoveLemma DEF Statement, IInv, TypeOK, TxInv

(* A line taken or skipped leaves the statement where it is. *)
LEMMA CollectingMem ==
  ASSUME mem \in [Tx -> Mem], NEW t \in Tx, NEW W \in SUBSET Line, NEW G \in SUBSET Line,
         mem' = [mem EXCEPT ![t].want = W, ![t].got = G]
  PROVE  /\ mem' \in [Tx -> Mem] /\ \A u \in Tx \ {t} : mem'[u] = mem[u]
         /\ mem'[t].want = W /\ mem'[t].got = G
         /\ mem'[t].new = mem[t].new /\ mem'[t].body = mem[t].body
<1> SUFFICES ASSUME NEW m \in Mem, NEW x, m = mem[t], x = mem'[t]
             PROVE  /\ x \in Mem /\ x.want = W /\ x.got = G /\ x.new = m.new
                    /\ x.body = m.body
  OBVIOUS
<1>1. x = [m EXCEPT !.want = W, !.got = G]
  OBVIOUS
<1> QED
  BY <1>1 DEF Mem

LEMMA TakeLineStep ==
  ASSUME IInv, NEW t \in Tx, TakeLine(t)
  PROVE  IInv'
<1>1. PICK l \in mem[t].want \cap lines :
        /\ Acquire(t, LineRow(l), "FOR UPDATE")
        /\ mem' = [mem EXCEPT ![t].want = @ \ {l}, ![t].got = @ \cup {l}]
  BY DEF TakeLine
<1>2. /\ pc[t] \in {"lock_lines", "delete_lines", "cascade"}
      /\ UNCHANGED tables /\ pc' = pc /\ req' = req
  BY DEF TakeLine
<1>3. /\ l \in Line /\ LineRow(l) \in Row /\ "FOR UPDATE" \in Mode
      /\ mem[t].want \in SUBSET Line /\ mem[t].got \in SUBSET Line
  BY RowTypes DEF IInv, TypeOK, Mem
<1>4. /\ Holds(t, LineRow(l), "FOR UPDATE")' /\ \A u, q, n : Holds(u, q, n) => Holds(u, q, n)'
      /\ locks' \subseteq Lock /\ LocksCompatible'
  BY <1>1, <1>3, AcquireLemma DEF IInv
<1>5. /\ mem' \in [Tx -> Mem] /\ \A u \in Tx \ {t} : mem'[u] = mem[u]
      /\ mem'[t].want = mem[t].want \ {l} /\ mem'[t].got = mem[t].got \cup {l}
      /\ mem'[t].new = mem[t].new /\ mem'[t].body = mem[t].body
  <2> DEFINE W == mem[t].want \ {l}
             G == mem[t].got \cup {l}
  <2>1. W \in SUBSET Line /\ G \in SUBSET Line
    BY <1>3
  <2>2. mem' = [mem EXCEPT ![t].want = W, ![t].got = G]
    BY <1>1
  <2>3. mem \in [Tx -> Mem]
    BY DEF IInv, TypeOK
  <2> HIDE DEF W, G
  <2>4. /\ mem' \in [Tx -> Mem] /\ \A u \in Tx \ {t} : mem'[u] = mem[u]
        /\ mem'[t].want = W /\ mem'[t].got = G
        /\ mem'[t].new = mem[t].new /\ mem'[t].body = mem[t].body
    BY <2>1, <2>2, <2>3, CollectingMem
  <2> QED
    BY <2>4 DEF W, G
<1>6. TypeOK'
  BY <1>2, <1>4, <1>5 DEF IInv, TypeOK, tables
<1>7. TxInv(t)'
  <2>1. TxInv(t) /\ order' = order /\ lines' = lines /\ batches' = batches
    BY <1>2 DEF IInv, tables
  <2>2. AtOwnStatement(t)' /\ NothingYet(t)' /\ ReceiptOK(t)'
    BY <1>2, <1>5, <2>1 DEF TxInv, AtOwnStatement, NothingYet, ReceiptOK, Open
  <2>3. mem'[t].want \cup mem'[t].got = mem[t].want \cup mem[t].got
    BY <1>5
  <2>4. LinesHeld(t)'
    BY <1>2, <1>4, <1>5, <2>1, <2>3 DEF TxInv, LinesHeld
  <2>5. DraftOwned(t)'
    BY <1>2, <1>4, <2>1, <2>3 DEF TxInv, DraftOwned, OwnsDraft, LinesOf
  <2>6. EditOK(t)' /\ RenameOK(t)'
    BY <1>2, <2>1 DEF TxInv, EditOK, RenameOK, Open
  <2> QED
    BY <2>2, <2>4, <2>5, <2>6 DEF TxInv
<1> QED
  BY <1>2, <1>4, <1>5, <1>6, <1>7, PrivateLemma

(* A line is skipped only when it is gone: never by who owns the draft. *)
LEMMA SkipLineStep ==
  ASSUME IInv, NEW t \in Tx, SkipLine(t)
  PROVE  IInv'
<1>1. PICK l \in mem[t].want \ lines : mem' = [mem EXCEPT ![t].want = @ \ {l}]
  BY DEF SkipLine
<1>2. /\ pc[t] \in {"lock_lines", "delete_lines", "cascade"}
      /\ UNCHANGED tables /\ pc' = pc /\ req' = req /\ locks' = locks
  BY DEF SkipLine
<1>3. /\ mem' \in [Tx -> Mem] /\ \A u \in Tx \ {t} : mem'[u] = mem[u]
      /\ mem'[t].want = mem[t].want \ {l} /\ mem'[t].got = mem[t].got
      /\ mem'[t].new = mem[t].new /\ mem'[t].body = mem[t].body
  <2> DEFINE W == mem[t].want \ {l}
  <2>1. mem \in [Tx -> Mem] /\ mem[t] \in Mem
    BY DEF IInv, TypeOK
  <2>2. W \in SUBSET Line
    BY <2>1 DEF Mem
  <2>3. mem' = [mem EXCEPT ![t] = [mem[t] EXCEPT !.want = W]]
    BY <1>1
  <2> HIDE DEF W
  <2>4. [mem[t] EXCEPT !.want = W] \in Mem
    BY <2>1, <2>2 DEF Mem
  <2>5. /\ mem' \in [Tx -> Mem] /\ \A u \in Tx \ {t} : mem'[u] = mem[u]
        /\ mem'[t].want = W /\ mem'[t].got = mem[t].got
        /\ mem'[t].new = mem[t].new /\ mem'[t].body = mem[t].body
    BY <2>1, <2>3, <2>4 DEF Mem
  <2> QED
    BY <2>5 DEF W
<1>4. TypeOK' /\ LocksCompatible'
  BY <1>2, <1>3 DEF IInv, TypeOK, LocksCompatible, tables
<1>5. TxInv(t)'
  <2>1. TxInv(t) /\ order' = order /\ lines' = lines /\ batches' = batches
    BY <1>2 DEF IInv, tables
  <2>2. AtOwnStatement(t)' /\ NothingYet(t)' /\ ReceiptOK(t)'
    BY <1>2, <1>3, <2>1 DEF TxInv, AtOwnStatement, NothingYet, ReceiptOK, Open
  <2>3. LinesHeld(t)' /\ EditOK(t)' /\ RenameOK(t)'
    BY <1>2, <1>3, <2>1 DEF TxInv, LinesHeld, EditOK, RenameOK, Open, Holds
  <2>4. ~OwnsDraft(t)
    BY <1>1, <1>2, <2>1 DEF TxInv, DraftOwned, OwnsDraft, LinesOf
  <2>5. DraftOwned(t)'
    BY <1>2, <2>4 DEF DraftOwned, OwnsDraft
  <2> QED
    BY <2>2, <2>3, <2>5 DEF TxInv
<1> QED
  BY <1>2, <1>3, <1>4, <1>5, PrivateLemma DEF Holds

LEMMA LinesMatchedStep ==
  ASSUME IInv, NEW t \in Tx, LinesMatched(t)
  PROVE  IInv'
<1>1. /\ pc[t] = "lock_lines" /\ mem[t].want = {} /\ LinesMatch(t)
      /\ Goto(t, "insert_batches") /\ UNCHANGED tables
      /\ locks' = locks /\ req' = req /\ mem' = mem
  BY DEF LinesMatched
<1>2. req[t].op = "receive" /\ req[t] \in Request /\ TxInv(t)
  BY <1>1, AtLemma DEF Open, Outcome, IInv
<1>3. /\ pc'[t] = "insert_batches"
      /\ order' = order /\ lines' = lines /\ batches' = batches
  BY <1>1 DEF Goto, IInv, TypeOK, tables
<1>4. ReceiptOK(t)'
  <2>1. mem[t].new = {} /\ IsFiniteSet({}) /\ Cardinality({}) = 0
    BY <1>1, <1>2, FS_EmptySet DEF TxInv, NothingYet
  <2>2. Len(mem[t].body) \in Nat
    BY DEF IInv, TypeOK, Mem
  <2> QED
    BY <1>1, <2>1, <2>2 DEF ReceiptOK, Inserted, LinesMatch, Named
<1>5. AtOwnStatement(t)' /\ NothingYet(t)' /\ EditOK(t)' /\ RenameOK(t)'
  BY <1>1, <1>2, <1>3 DEF AtOwnStatement, NothingYet, EditOK, RenameOK, StatementOf, DraftOp
<1>6. LinesHeld(t)' /\ DraftOwned(t)'
  BY <1>1, <1>2, <1>3 DEF TxInv, LinesHeld, DraftOwned, OwnsDraft, LinesOf, Holds
<1> QED
  BY <1>1, <1>4, <1>5, <1>6, MoveLemma DEF Statement, IInv, TypeOK, TxInv

(* The entry a receipt deals with next. *)
LEMMA NextEntryLemma ==
  ASSUME IInv, NEW t \in Tx, pc[t] = "insert_batches", Inserted(t) < Len(mem[t].body)
  PROVE  /\ Inserted(t) \in Nat /\ Inserted(t) + 1 \in DOMAIN mem[t].body
         /\ NextEntry(t) \in Entry
         /\ NextEntry(t).line \in Line /\ NextEntry(t).code \in Code
         /\ NextEntry(t).line \in Named(t)
<1>1. mem[t].body \in Seq(Entry) /\ IsFiniteSet(mem[t].new)
  BY DEF IInv, TypeOK, Mem, TxInv, ReceiptOK
<1>2. Inserted(t) \in Nat
  BY <1>1, FS_CardinalityType DEF Inserted
<1>3. Inserted(t) + 1 \in DOMAIN mem[t].body
  BY <1>1, <1>2
<1>4. NextEntry(t) \in Entry
  BY <1>1, <1>3 DEF NextEntry
<1> QED
  BY <1>2, <1>3, <1>4 DEF Entry, Named, NextEntry

LEMMA InsertBatchStep ==
  ASSUME IInv, NEW t \in Tx, InsertBatch(t)
  PROVE  IInv'
<1> DEFINE l == NextEntry(t).line
           c == NextEntry(t).code
           n == Inserted(t)
           b == [tx |-> t, n |-> n + 1, line |-> l, product |-> l.product, code |-> c,
                 qty |-> l.qty]
           B == mem[t].new \cup {b}
<1>1. /\ pc[t] = "insert_batches" /\ n < Len(mem[t].body)
      /\ Acquire(t, CodeRow(l.product, c), "FOR UPDATE")
      /\ mem' = [mem EXCEPT ![t].new = B]
      /\ UNCHANGED tables /\ pc' = pc /\ req' = req
  BY DEF InsertBatch, ReceiptQuantity
<1>2. /\ n \in Nat /\ n + 1 \in DOMAIN mem[t].body /\ l \in Line /\ c \in Code
      /\ l \in Named(t) /\ mem[t].body[n + 1].line = l
  BY <1>1, NextEntryLemma DEF NextEntry
<1>3. b \in ReceivedBatch /\ CodeRow(l.product, c) \in Row /\ "FOR UPDATE" \in Mode
  <2>1. l.product \in Product /\ l.qty \in Nat \ {0} /\ n + 1 \in Nat
    BY <1>2 DEF Line
  <2>2. CodeRow(l.product, c) \in Row /\ "FOR UPDATE" \in Mode
    BY <1>2, <2>1, RowTypes
  <2> HIDE DEF l, c, n
  <2> QED
    BY <1>2, <2>1, <2>2 DEF ReceivedBatch
<1>4. /\ \A u, q, m : Holds(u, q, m) => Holds(u, q, m)'
      /\ locks' \subseteq Lock /\ LocksCompatible'
  BY <1>1, <1>3, AcquireLemma DEF IInv
<1>5. /\ mem' \in [Tx -> Mem] /\ \A u \in Tx \ {t} : mem'[u] = mem[u]
      /\ mem'[t].want = mem[t].want /\ mem'[t].got = mem[t].got
      /\ mem'[t].new = B /\ mem'[t].body = mem[t].body
  <2>1. mem \in [Tx -> Mem] /\ mem[t] \in Mem
    BY DEF IInv, TypeOK
  <2>2. B \in SUBSET ReceivedBatch
    BY <1>3, <2>1 DEF Mem
  <2>3. mem' = [mem EXCEPT ![t] = [mem[t] EXCEPT !.new = B]]
    BY <1>1
  <2> HIDE DEF B
  <2>4. [mem[t] EXCEPT !.new = B] \in Mem
    BY <2>1, <2>2 DEF Mem
  <2> QED
    BY <2>1, <2>3, <2>4 DEF Mem
<1>6. TypeOK'
  BY <1>1, <1>4, <1>5 DEF IInv, TypeOK, tables
<1>7. TxInv(t) /\ order' = order /\ lines' = lines /\ batches' = batches
  BY <1>1 DEF IInv, tables
<1>8. ReceiptOK(t)'
  <2>1. /\ mem[t].want = {} /\ LinesMatch(t) /\ IsFiniteSet(mem[t].new)
        /\ \A x \in mem[t].new : x.tx = t /\ x.n <= n /\ x.line \in Named(t)
        /\ \A i \in 1..n : \E x \in mem[t].new : x.line = mem[t].body[i].line
    BY <1>1, <1>7 DEF TxInv, ReceiptOK
  <2>2. b \notin mem[t].new
    BY <1>2, <2>1
  <2>3. IsFiniteSet(B) /\ Cardinality(B) = n + 1
    <3>1. n = Cardinality(mem[t].new)
      BY DEF Inserted
    <3> HIDE DEF b
    <3> QED
      BY <2>1, <2>2, <3>1, FS_AddElement
  <2>4. Named(t)' = Named(t) /\ LinesMatch(t)' /\ Inserted(t)' = n + 1
    BY <1>5, <2>1, <2>3 DEF Named, LinesMatch, Inserted
  <2>5. \A x \in B : x.tx = t /\ x.n <= n + 1 /\ x.line \in Named(t)
    <3>1. \A x \in mem[t].new : x.n \in Nat
      BY DEF IInv, TypeOK, Mem, ReceivedBatch
    <3> QED
      BY <1>2, <2>1, <3>1
  <2>6. \A i \in 1..(n + 1) : \E x \in B : x.line = mem[t].body[i].line
    <3>1. \A i \in 1..(n + 1) : i \in 1..n \/ i = n + 1
      BY <1>2
    <3>2. b \in B /\ b.line = mem[t].body[n + 1].line
      BY <1>2
    <3> QED
      BY <2>1, <3>1, <3>2
  <2>7. n + 1 <= Len(mem[t].body)
    <3>1. mem[t].body \in Seq(Entry)
      BY DEF IInv, TypeOK, Mem
    <3> HIDE DEF n
    <3> QED
      BY <1>2, <3>1
  <2> HIDE DEF B, n, b
  <2>8. mem'[t].want = {} /\ IsFiniteSet(mem'[t].new) /\ Inserted(t)' <= Len(mem'[t].body)
    BY <1>5, <2>1, <2>3, <2>4, <2>7
  <2>9. \A x \in mem'[t].new : x.tx = t /\ x.n <= Inserted(t)' /\ x.line \in Named(t)'
    BY <1>5, <2>4, <2>5
  <2>10. \A i \in 1..Inserted(t)' : \E x \in mem'[t].new : x.line = mem'[t].body[i].line
    BY <1>5, <2>4, <2>6
  <2> QED
    BY <2>4, <2>8, <2>9, <2>10 DEF ReceiptOK
<1>9. TxInv(t)'
  <2>1. AtOwnStatement(t)' /\ NothingYet(t)' /\ EditOK(t)' /\ RenameOK(t)'
    BY <1>1, <1>5, <1>7 DEF TxInv, AtOwnStatement, NothingYet, EditOK, RenameOK, Open
  <2>2. LinesHeld(t)'
    BY <1>1, <1>4, <1>5, <1>7 DEF TxInv, LinesHeld
  <2>3. DraftOwned(t)'
    BY <1>1, <1>4, <1>5, <1>7 DEF TxInv, DraftOwned, OwnsDraft, LinesOf
  <2> QED
    BY <1>8, <2>1, <2>2, <2>3 DEF TxInv
<1> QED
  BY <1>1, <1>4, <1>5, <1>6, <1>9, PrivateLemma

(* To a statement of an edit or a deletion that collects no lines yet, or  *)
(* to the commit of one that keeps them.                                   *)
LEMMA ToWrite ==
  ASSUME IInv, NEW t \in Tx, Open(t), req[t].op \in DraftOp,
         NEW s \in StatementOf(req[t].op),
         \/ s \in {"delete_order", "update_header"}
         \/ s = "commit_update" /\ req[t].lines = <<>>
         \/ s = "select_lines" /\ req[t].lines # <<>>,
         pc[t] \in {"read_order", "update_header"},
         order[req[t].order].status # "absent",
         pc'[t] = s, req' = req, mem' = mem, UNCHANGED tables
  PROVE  TxInv(t)' /\ s \in Statement
<1>1. /\ mem[t].want = {} /\ mem[t].got = {} /\ mem[t].new = {}
      /\ order' = order /\ batches' = batches
  BY DEF IInv, TxInv, NothingYet, tables
<1>2. req[t] \in Request /\ req[t].op # "receive"
  BY AtLemma DEF DraftOp
<1>3. AtOwnStatement(t)' /\ NothingYet(t)' /\ LinesHeld(t)'
  BY <1>1, <1>2 DEF AtOwnStatement, NothingYet, LinesHeld
<1>4. DraftOwned(t)' /\ ReceiptOK(t)' /\ RenameOK(t)'
  BY <1>2 DEF DraftOwned, OwnsDraft, ReceiptOK, RenameOK
<1>5. EditOK(t)'
  BY <1>1 DEF EditOK, Referenced
<1> QED
  BY <1>3, <1>4, <1>5 DEF TxInv, Statement

LEMMA AfterHeaderLemma ==
  ASSUME NEW t \in Tx, req[t].op = "update"
  PROVE  /\ AfterHeader(t) \in StatementOf(req[t].op)
         /\ \/ AfterHeader(t) = "commit_update" /\ req[t].lines = <<>>
            \/ AfterHeader(t) = "select_lines" /\ req[t].lines # <<>>
  BY DEF AfterHeader, StatementOf

LEMMA ReadOrderStep ==
  ASSUME IInv, NEW t \in Tx, ReadOrder(t)
  PROVE  IInv'
<1> DEFINE s == IF req[t].op = "delete" THEN "delete_order"
                ELSE IF req[t].header = Keep THEN AfterHeader(t) ELSE "update_header"
<1>1. /\ pc[t] = "read_order" /\ order[req[t].order].status = "draft"
      /\ Goto(t, s) /\ UNCHANGED tables /\ locks' = locks /\ req' = req /\ mem' = mem
  BY DEF ReadOrder
<1>2. Open(t) /\ req[t].op \in {"update", "delete"}
  BY <1>1, AtLemma DEF Open, Outcome, DraftOp
<1>3. /\ s \in StatementOf(req[t].op)
      /\ \/ s \in {"delete_order", "update_header"}
         \/ s = "commit_update" /\ req[t].lines = <<>>
         \/ s = "select_lines" /\ req[t].lines # <<>>
  <2>1. CASE req[t].op = "delete"
    BY <2>1 DEF StatementOf
  <2>2. CASE req[t].op = "update"
    BY <2>2, AfterHeaderLemma DEF StatementOf
  <2> QED
    BY <1>2, <2>1, <2>2
<1>4. pc'[t] = s
  BY <1>1 DEF Goto, IInv, TypeOK
<1> HIDE DEF s
<1>5. TxInv(t)' /\ s \in Statement
  BY <1>1, <1>2, <1>3, <1>4, ToWrite DEF DraftOp
<1> QED
  BY <1>1, <1>5, MoveLemma DEF IInv, TypeOK

LEMMA UpdateHeaderStep ==
  ASSUME IInv, NEW t \in Tx, UpdateHeader(t)
  PROVE  IInv'
<1>1. /\ pc[t] = "update_header" /\ Acquire(t, OrderRow(req[t].order), "NO KEY UPDATE")
      /\ Goto(t, AfterHeader(t)) /\ UNCHANGED tables /\ req' = req /\ mem' = mem
  BY DEF UpdateHeader
<1>2. Open(t) /\ req[t].op = "update" /\ req[t].order \in Order
  BY <1>1, AtLemma DEF Open, Outcome
<1>3. OrderRow(req[t].order) \in Row /\ "NO KEY UPDATE" \in Mode
  BY <1>2, RowTypes
<1>4. pc'[t] = AfterHeader(t) /\ order[req[t].order].status # "absent"
  BY <1>1, <1>2 DEF Goto, IInv, TypeOK, TxInv, EditOK, DraftOp
<1>5. TxInv(t)' /\ AfterHeader(t) \in Statement
  BY <1>1, <1>2, <1>4, AfterHeaderLemma, ToWrite DEF DraftOp
<1> QED
  BY <1>1, <1>3, <1>5, MoveLemma DEF IInv, TypeOK

LEMMA LinesDeletedStep ==
  ASSUME IInv, NEW t \in Tx, LinesDeleted(t)
  PROVE  IInv'
<1>1. /\ pc[t] = "delete_lines" /\ ~Referenced(t)
      /\ Goto(t, "insert_lines") /\ UNCHANGED tables
      /\ locks' = locks /\ req' = req /\ mem' = mem
  BY DEF LinesDeleted
<1>2. Open(t) /\ req[t].op = "update" /\ req[t] \in Request /\ TxInv(t)
  BY <1>1, AtLemma DEF Open, Outcome, IInv
<1>3. /\ pc'[t] = "insert_lines"
      /\ order' = order /\ lines' = lines /\ batches' = batches
  BY <1>1 DEF Goto, IInv, TypeOK, tables
<1>4. AtOwnStatement(t)' /\ NothingYet(t)' /\ LinesHeld(t)'
  BY <1>1, <1>2, <1>3 DEF TxInv, AtOwnStatement, NothingYet, LinesHeld, StatementOf, Holds
<1>5. DraftOwned(t)' /\ ReceiptOK(t)' /\ RenameOK(t)'
  BY <1>3 DEF DraftOwned, OwnsDraft, ReceiptOK, RenameOK
<1>6. EditOK(t)'
  BY <1>1, <1>2, <1>3 DEF TxInv, EditOK, Referenced, DraftOp
<1> QED
  BY <1>1, <1>4, <1>5, <1>6, MoveLemma DEF Statement, IInv, TypeOK, TxInv

LEMMA InsertLinesStep ==
  ASSUME IInv, NEW t \in Tx, InsertLines(t)
  PROVE  IInv'
<1>1. /\ pc[t] = "insert_lines" /\ Acquire(t, OrderRow(req[t].order), "KEY SHARE")
      /\ order[req[t].order].status # "deleted"
      /\ Goto(t, "commit_update") /\ UNCHANGED tables /\ req' = req /\ mem' = mem
  BY DEF InsertLines
<1>2. /\ Open(t) /\ req[t].op = "update" /\ req[t] \in Request /\ TxInv(t)
      /\ req[t].order \in Order
  BY <1>1, AtLemma DEF Open, Outcome, IInv
<1>3. OrderRow(req[t].order) \in Row /\ "KEY SHARE" \in Mode
  BY <1>2, RowTypes
<1>4. /\ Holds(t, OrderRow(req[t].order), "KEY SHARE")'
      /\ \A u, r, m : Holds(u, r, m) => Holds(u, r, m)'
  BY <1>1, <1>3, AcquireLemma DEF IInv
<1>5. /\ pc'[t] = "commit_update"
      /\ order' = order /\ lines' = lines /\ batches' = batches
  BY <1>1 DEF Goto, IInv, TypeOK, tables
<1>6. AtOwnStatement(t)' /\ NothingYet(t)' /\ LinesHeld(t)'
  BY <1>1, <1>2, <1>4, <1>5 DEF TxInv, AtOwnStatement, NothingYet, LinesHeld, StatementOf
<1>7. DraftOwned(t)' /\ ReceiptOK(t)' /\ RenameOK(t)'
  BY <1>5 DEF DraftOwned, OwnsDraft, ReceiptOK, RenameOK
<1>8. EditOK(t)'
  BY <1>1, <1>2, <1>4, <1>5 DEF TxInv, EditOK, Referenced, DraftOp
<1> QED
  BY <1>1, <1>3, <1>6, <1>7, <1>8, MoveLemma DEF Statement, IInv, TypeOK, TxInv

LEMMA DeleteOrderStep ==
  ASSUME IInv, NEW t \in Tx, DeleteOrder(t)
  PROVE  IInv'
<1> DEFINE L == LinesOf(req[t].order)
<1>1. /\ pc[t] = "delete_order" /\ Acquire(t, OrderRow(req[t].order), "FOR UPDATE")
      /\ order[req[t].order].status = "draft"
      /\ mem' = [mem EXCEPT ![t].want = L]
      /\ Goto(t, "cascade") /\ UNCHANGED tables /\ req' = req
  BY DEF DeleteOrder
<1>2. Open(t) /\ req[t].op = "delete" /\ req[t] \in Request /\ req[t].order \in Order
  BY <1>1, AtLemma DEF Open, Outcome
<1>3. OrderRow(req[t].order) \in Row /\ "FOR UPDATE" \in Mode
  BY <1>2, RowTypes
<1>4. Holds(t, OrderRow(req[t].order), "FOR UPDATE")'
  BY <1>1, <1>3, AcquireLemma DEF IInv
<1>5. L \subseteq Line /\ \A l \in L : l.order = req[t].order
  BY DEF LinesOf, IInv, TypeOK
<1>6. /\ mem' \in [Tx -> Mem] /\ \A u \in Tx \ {t} : mem'[u] = mem[u]
      /\ mem'[t].want = L /\ mem'[t].got = {} /\ mem'[t].new = {}
  <2>1. /\ mem \in [Tx -> Mem] /\ mem[t] \in Mem /\ mem[t].got = {} /\ mem[t].new = {}
    BY <1>1 DEF IInv, TypeOK, TxInv, NothingYet
  <2>2. [mem[t] EXCEPT !.want = L] \in Mem
    BY <1>5, <2>1 DEF Mem
  <2>3. mem' = [mem EXCEPT ![t] = [mem[t] EXCEPT !.want = L]]
    BY <1>1
  <2> QED
    BY <2>1, <2>2, <2>3 DEF Mem
<1>7. pc'[t] = "cascade" /\ order' = order /\ LinesOf(req[t].order)' = L
  BY <1>1 DEF Goto, IInv, TypeOK, tables, LinesOf
<1>8. AtOwnStatement(t)' /\ NothingYet(t)' /\ LinesHeld(t)'
  BY <1>1, <1>2, <1>5, <1>6, <1>7 DEF AtOwnStatement, NothingYet, LinesHeld, StatementOf
<1>9. DraftOwned(t)'
  BY <1>1, <1>4, <1>6, <1>7 DEF DraftOwned
<1>10. ReceiptOK(t)' /\ EditOK(t)' /\ RenameOK(t)'
  BY <1>1, <1>7 DEF ReceiptOK, EditOK, RenameOK
<1> QED
  BY <1>1, <1>3, <1>6, <1>8, <1>9, <1>10, MoveLemma DEF Statement, IInv, TypeOK, TxInv

-------------------------------------------------------------------------------
(* Commits *)

LEMMA NewLinesLemma ==
  ASSUME NEW t \in Tx, NEW o \in Order,
         NEW s \in Seq([product : Product, qty : Nat \ {0}])
  PROVE  /\ NewLines(t, o, s) \subseteq Line
         /\ \A l \in NewLines(t, o, s) : l.order = o
         /\ NewLines(t, o, s) # {} <=> s # <<>>
<1>1. ASSUME NEW i \in DOMAIN s
      PROVE  /\ i \in Nat /\ s[i].product \in Product /\ s[i].qty \in Nat \ {0}
  <2> DEFINE F == [product : Product, qty : Nat \ {0}]
  <2> HIDE DEF F
  <2>1. s \in Seq(F)
    BY DEF F
  <2>2. i \in Nat /\ s[i] \in F
    BY <2>1
  <2> QED
    BY <2>2 DEF F
<1>2. DOMAIN s = {} <=> s = <<>>
  OBVIOUS
<1>3. NewLines(t, o, s) \subseteq Line
  BY <1>1 DEF NewLines, Line
<1>4. NewLines(t, o, s) # {} <=> DOMAIN s # {}
  BY DEF NewLines
<1>5. \A l \in NewLines(t, o, s) : l.order = o
  BY DEF NewLines
<1> QED
  BY <1>2, <1>3, <1>4, <1>5

LEMMA CreateOrderStep ==
  ASSUME IInv, NEW t \in Tx, CreateOrder(t)
  PROVE  IInv'
<1>1. PICK r \in Request, o \in Order :
        /\ r.op = "create" /\ order[o].status = "absent"
        /\ req' = [req EXCEPT ![t] = r]
        /\ order' = [order EXCEPT ![o] = [status |-> "draft", header |-> r.header]]
        /\ lines' = lines \cup NewLines(t, o, r.lines)
  BY DEF CreateOrder
<1> DEFINE N == NewLines(t, o, r.lines)
<1>2. pc[t] = "idle" /\ Goto(t, "ok") /\ batches' = batches /\ locks' = locks /\ mem' = mem
  BY DEF CreateOrder
<1>3. r.header \in Header /\ N \subseteq Line /\ (\A l \in N : l.order = o) /\ N # {}
  BY <1>1, RequestFields, NewLinesLemma
<1> HIDE DEF N
<1>4. /\ order'[o].status = "draft" /\ \A p \in Order \ {o} : order'[p] = order[p]
      /\ pc'[t] = "ok"
      /\ \A u \in Tx \ {t} : pc'[u] = pc[u] /\ req'[u] = req[u]
  BY <1>1, <1>2 DEF IInv, TypeOK, Goto
<1>5. lines' = lines \cup N
  BY <1>1 DEF N
<1>6. TypeOK' /\ LocksCompatible'
  BY <1>1, <1>2, <1>3, <1>5 DEF IInv, TypeOK, LocksCompatible, Goto, Outcome
<1>7. TxInv(t)'
  <2>1. mem[t].want = {} /\ mem[t].got = {} /\ mem[t].new = {}
    BY <1>2 DEF IInv, TxInv, NothingYet
  <2>2. AtOwnStatement(t)' /\ NothingYet(t)' /\ LinesHeld(t)'
    BY <1>2, <1>4, <2>1 DEF AtOwnStatement, NothingYet, LinesHeld, Open, Outcome
  <2>3. DraftOwned(t)' /\ ReceiptOK(t)' /\ EditOK(t)' /\ RenameOK(t)'
    BY <1>4 DEF DraftOwned, OwnsDraft, ReceiptOK, EditOK, RenameOK, Open, Outcome
  <2> QED
    BY <2>2, <2>3 DEF TxInv
<1>8. \A p \in Order \ {o} : LinesOf(p)' = LinesOf(p)
  BY <1>3, <1>5 DEF LinesOf
<1>9. BatchesKeepTheirLine'
  <2>1. \A b \in batches : b.line # NoLine => b.line.order \in Order
    BY DEF IInv, TypeOK, ReceivedBatch, Line
  <2> QED
    BY <1>1, <1>2, <1>4, <1>5, <2>1 DEF IInv, BatchesKeepTheirLine
<1>10. ReceivedByOneRequest'
  BY <1>2 DEF IInv, ReceivedByOneRequest
<1>11. LinesFollowOrder'
  <2>1. LinesOf(o)' # {}
    BY <1>3, <1>5 DEF LinesOf
  <2> QED
    BY <1>4, <1>8, <2>1 DEF IInv, LinesFollowOrder
<1>12. ASSUME NEW u \in Tx \ {t} PROVE Undisturbed(u)
  <2>1. TxInv(u)
    BY DEF IInv
  <2>2. CASE OwnsDraft(u)
    <3>1. req[u].order \in Order \ {o} /\ order[req[u].order].status = "draft"
          /\ pc[u] # "commit_update"
      BY <1>1, <2>1, <2>2, AtLemma DEF TxInv, DraftOwned, OwnsDraft, Open, Outcome
    <3> QED
      BY <1>2, <1>4, <1>5, <1>8, <2>1, <3>1
      DEF Undisturbed, TxInv, LinesHeld, LinesOf, RenameOK
  <2>3. CASE ~OwnsDraft(u)
    <3>1. pc[u] = "commit_update" => req[u].order \in Order
      BY AtLemma DEF Open, Outcome
    <3> QED
      BY <1>2, <1>4, <1>5, <2>1, <2>3, <3>1
      DEF Undisturbed, TxInv, LinesHeld, EditOK, RenameOK
  <2> QED
    BY <2>2, <2>3
<1>13. \A p \in Order : order[p].status # "absent" => order'[p].status # "absent"
  BY <1>4
<1> QED
  BY <1>2, <1>4, <1>6, <1>7, <1>9, <1>10, <1>11, <1>12, <1>13, FrameLemma DEF Holds

(* At its COMMIT a receipt holds the order, a draft, and all its lines, and *)
(* has a batch for each.                                                    *)
LEMMA AtCommitReceive ==
  ASSUME IInv, NEW t \in Tx, pc[t] = "insert_batches", Inserted(t) = Len(mem[t].body)
  PROVE  /\ req[t].order \in Order /\ order[req[t].order].status = "draft"
         /\ Holds(t, OrderRow(req[t].order), "FOR UPDATE")
         /\ mem[t].got = LinesOf(req[t].order)
         /\ \A l \in mem[t].got : Holds(t, LineRow(l), "FOR UPDATE")
         /\ mem[t].new \subseteq ReceivedBatch
         /\ \A b \in mem[t].new : b.tx = t /\ b.line \in mem[t].got
         /\ \A l \in mem[t].got : \E b \in mem[t].new : b.line = l
<1>1. req[t].order \in Order
  BY AtLemma DEF Open, Outcome
<1>2. TxInv(t) /\ mem[t] \in Mem
  BY DEF IInv, TypeOK
<1>3. /\ order[req[t].order].status = "draft"
      /\ Holds(t, OrderRow(req[t].order), "FOR UPDATE")
      /\ mem[t].want \cup mem[t].got = LinesOf(req[t].order)
  BY <1>2 DEF TxInv, DraftOwned, OwnsDraft
<1>4. /\ mem[t].want = {} /\ Named(t) = mem[t].got
      /\ \A b \in mem[t].new : b.tx = t /\ b.line \in Named(t)
      /\ \A i \in 1..Inserted(t) : \E b \in mem[t].new : b.line = mem[t].body[i].line
  BY <1>2 DEF TxInv, ReceiptOK, LinesMatch
<1>5. DOMAIN mem[t].body = 1..Inserted(t) /\ mem[t].new \subseteq ReceivedBatch
  BY <1>2 DEF Mem
<1>6. \A l \in mem[t].got : \E b \in mem[t].new : b.line = l
  BY <1>4, <1>5 DEF Named
<1> QED
  BY <1>1, <1>2, <1>3, <1>4, <1>5, <1>6 DEF TxInv, LinesHeld

LEMMA CommitReceiveStep ==
  ASSUME IInv, NEW t \in Tx, CommitReceive(t)
  PROVE  IInv'
<1> DEFINE o == req[t].order
<1>1. /\ pc[t] = "insert_batches" /\ Inserted(t) = Len(mem[t].body)
      /\ order' = [order EXCEPT ![o].status = "received"]
      /\ batches' = batches \cup mem[t].new
      /\ Finish(t, "ok") /\ lines' = lines /\ req' = req /\ "ok" \in Outcome
  BY DEF CommitReceive, Outcome
<1>2. /\ o \in Order /\ order[o].status = "draft" /\ Holds(t, OrderRow(o), "FOR UPDATE")
      /\ mem[t].got = LinesOf(o)
      /\ \A l \in mem[t].got : Holds(t, LineRow(l), "FOR UPDATE")
      /\ mem[t].new \subseteq ReceivedBatch
      /\ \A b \in mem[t].new : b.tx = t /\ b.line \in mem[t].got
  BY <1>1, AtCommitReceive
<1>3. /\ order'[o].status = "received" /\ \A p \in Order \ {o} : order'[p] = order[p]
      /\ order' \in [Order -> [status : {"absent", "draft", "received", "deleted"},
                                header : Header]]
  BY <1>1, <1>2 DEF IInv, TypeOK
<1> HIDE DEF o
<1>4. TypeOK' /\ LocksCompatible'
  BY <1>1, <1>2, <1>3, FinishLemma DEF IInv, TypeOK
<1>5. BatchesKeepTheirLine'
  <2>1. \A b \in mem[t].new : b.line \in lines /\ b.line.order = o
    BY <1>2 DEF LinesOf
  <2>2. \A b \in batches : b.line # NoLine => b.line.order \in Order
    BY DEF IInv, TypeOK, ReceivedBatch, Line
  <2> QED
    BY <1>1, <1>3, <2>1, <2>2 DEF IInv, BatchesKeepTheirLine
<1>6. ReceivedByOneRequest'
  <2>1. ASSUME NEW r \in batches, NEW s \in mem[t].new, r.line = s.line, r.line # NoLine
        PROVE  FALSE
    BY <1>2, <2>1 DEF IInv, BatchesKeepTheirLine, LinesOf
  <2> QED
    BY <1>1, <1>2, <2>1 DEF IInv, ReceivedByOneRequest
<1>7. LinesFollowOrder'
  BY <1>1, <1>2, <1>3 DEF IInv, LinesFollowOrder, LinesOf
<1>8. ASSUME NEW u \in Tx \ {t} PROVE Undisturbed(u)
  <2>1. TxInv(u) /\ LocksCompatible
    BY DEF IInv
  <2>2. OwnsDraft(u) => req[u].order \in Order \ {o}
    BY <1>2, <2>1, AtLemma, ForUpdateExcludes DEF TxInv, DraftOwned, OwnsDraft, Open, Outcome
  <2>3. OwnsDraft(u) =>
          /\ order'[req[u].order].status = "draft"
          /\ {l \in lines' : l.order = req[u].order} = LinesOf(req[u].order)
    BY <1>1, <1>3, <2>1, <2>2 DEF TxInv, DraftOwned, LinesOf
  <2>4. pc[u] = "commit_update" /\ req[u].lines # <<>> => order'[req[u].order].status # "deleted"
    <3>1. pc[u] = "commit_update" => req[u].order \in Order
      BY AtLemma DEF Open, Outcome
    <3> QED
      BY <1>3, <2>1, <3>1 DEF TxInv, EditOK
  <2>5. \A l \in mem[u].got :
          /\ l \in lines'
          /\ \A b \in batches' : b.line = l => \E c \in batches : c.line = l
    <3>1. \A l \in mem[u].got : l \in lines /\ Holds(u, LineRow(l), "FOR UPDATE")
      BY <2>1 DEF TxInv, LinesHeld
    <3>2. \A l \in mem[u].got : l \notin mem[t].got
      BY <1>2, <2>1, <3>1, ForUpdateExcludes
    <3> QED
      BY <1>1, <1>2, <3>1, <3>2
  <2>6. pc[u] \in {"update_batch", "insert_code"} => mem[u].old \subseteq batches'
    BY <1>1, <2>1 DEF TxInv, RenameOK
  <2> QED
    BY <2>3, <2>4, <2>5, <2>6 DEF Undisturbed
<1>9. \A p \in Order : order[p].status # "absent" => order'[p].status # "absent"
  BY <1>3
<1>10. /\ TxInv(t)'
       /\ \A u \in Tx \ {t} :
            /\ pc'[u] = pc[u] /\ req'[u] = req[u] /\ mem'[u] = mem[u]
            /\ \A r, m : Holds(u, r, m) => Holds(u, r, m)'
  BY <1>1, FinishLemma
<1> QED
  BY <1>4, <1>5, <1>6, <1>7, <1>8, <1>9, <1>10, FrameLemma

LEMMA ManualBatchStep ==
  ASSUME IInv, NEW t \in Tx, ManualBatch(t)
  PROVE  IInv'
<1> DEFINE b == [tx |-> t, n |-> 1, line |-> NoLine, product |-> req[t].product,
                 code |-> req[t].code, qty |-> req[t].qty]
<1>1. /\ pc[t] = "insert_manual" /\ batches' = batches \cup {b}
      /\ Finish(t, "ok") /\ order' = order /\ lines' = lines /\ req' = req /\ "ok" \in Outcome
  BY DEF ManualBatch, Outcome
<1>2. b \in ReceivedBatch /\ b.line = NoLine
  BY <1>1, AtLemma DEF ReceivedBatch, Open, Outcome
<1> HIDE DEF b
<1>3. TypeOK' /\ LocksCompatible'
  BY <1>1, <1>2, FinishLemma DEF IInv, TypeOK
<1>4. BatchesKeepTheirLine' /\ ReceivedByOneRequest' /\ LinesFollowOrder'
  BY <1>1, <1>2 DEF IInv, BatchesKeepTheirLine, ReceivedByOneRequest, LinesFollowOrder, LinesOf
<1>5. ASSUME NEW u \in Tx \ {t} PROVE Undisturbed(u)
  <2>1. TxInv(u) /\ mem[u].got \subseteq Line
    BY DEF IInv, TypeOK, Mem
  <2>2. \A l \in mem[u].got :
          /\ l \in lines'
          /\ \A x \in batches' : x.line = l => \E y \in batches : y.line = l
    BY <1>1, <1>2, <2>1, ProcurementConstants DEF TxInv, LinesHeld
  <2> QED
    BY <1>1, <2>1, <2>2 DEF Undisturbed, TxInv, DraftOwned, EditOK, RenameOK, LinesOf
<1>6. /\ TxInv(t)'
      /\ \A u \in Tx \ {t} :
           /\ pc'[u] = pc[u] /\ req'[u] = req[u] /\ mem'[u] = mem[u]
           /\ \A r, m : Holds(u, r, m) => Holds(u, r, m)'
  BY <1>1, FinishLemma
<1> QED
  BY <1>1, <1>3, <1>4, <1>5, <1>6, FrameLemma

(* The batch to rename is read again, and locked, before its code changes. *)
LEMMA LockBatchStep ==
  ASSUME IInv, NEW t \in Tx, LockBatch(t)
  PROVE  IInv'
<1>1. PICK b \in Current(t) :
        /\ Acquire(t, BatchRow(b), "FOR UPDATE")
        /\ mem' = [mem EXCEPT ![t].old = {b}]
  BY DEF LockBatch
<1>2. /\ pc[t] = "lock_batch" /\ Goto(t, "update_batch")
      /\ UNCHANGED tables /\ req' = req
  BY DEF LockBatch
<1>3. b \in batches /\ b \in ReceivedBatch /\ BatchRow(b) \in Row /\ "FOR UPDATE" \in Mode
  BY <1>1, RowTypes DEF Current, IInv, TypeOK
<1>4. Holds(t, BatchRow(b), "FOR UPDATE")'
  BY <1>1, <1>3, AcquireLemma DEF IInv
<1>5. /\ mem' \in [Tx -> Mem] /\ \A u \in Tx \ {t} : mem'[u] = mem[u]
      /\ mem'[t].want = {} /\ mem'[t].got = {} /\ mem'[t].new = {} /\ mem'[t].old = {b}
  <2>1. /\ mem \in [Tx -> Mem] /\ mem[t] \in Mem
        /\ mem[t].want = {} /\ mem[t].got = {} /\ mem[t].new = {}
    BY <1>2 DEF IInv, TypeOK, TxInv, NothingYet
  <2>2. [mem[t] EXCEPT !.old = {b}] \in Mem
    BY <1>3, <2>1 DEF Mem
  <2>3. mem' = [mem EXCEPT ![t] = [mem[t] EXCEPT !.old = {b}]]
    BY <1>1
  <2> QED
    BY <2>1, <2>2, <2>3 DEF Mem
<1>6. pc'[t] = "update_batch" /\ batches' = batches
  BY <1>2 DEF Goto, IInv, TypeOK, tables
<1>7. req[t] \in Request /\ req[t].op = "rename"
  BY <1>2, AtLemma DEF Open, Outcome
<1>8. AtOwnStatement(t)' /\ NothingYet(t)' /\ LinesHeld(t)'
  BY <1>2, <1>5, <1>6, <1>7 DEF AtOwnStatement, NothingYet, LinesHeld, StatementOf
<1>9. DraftOwned(t)' /\ ReceiptOK(t)' /\ EditOK(t)'
  BY <1>2, <1>6, <1>7 DEF DraftOwned, OwnsDraft, ReceiptOK, EditOK, DraftOp
<1>10. RenameOK(t)'
  BY <1>3, <1>4, <1>5, <1>6 DEF RenameOK, BatchRow
<1> QED
  BY <1>1, <1>2, <1>3, <1>5, <1>8, <1>9, <1>10, MoveLemma DEF Statement, IInv, TypeOK, TxInv

LEMMA UpdateBatchStep ==
  ASSUME IInv, NEW t \in Tx, UpdateBatch(t)
  PROVE  IInv'
<1>1. PICK b \in mem[t].old : Acquire(t, CodeRow(b.product, b.code), "FOR UPDATE")
  BY DEF UpdateBatch
<1>2. /\ pc[t] = "update_batch" /\ Goto(t, "insert_code")
      /\ UNCHANGED tables /\ req' = req /\ mem' = mem
  BY DEF UpdateBatch
<1>3. CodeRow(b.product, b.code) \in Row /\ "FOR UPDATE" \in Mode
  <2>1. mem[t] \in Mem
    BY DEF IInv, TypeOK
  <2>2. b \in ReceivedBatch
    BY <1>1, <2>1 DEF Mem
  <2>3. b.product \in Product /\ b.code \in Code
    BY <2>2 DEF ReceivedBatch
  <2> QED
    BY <2>3, RowTypes
<1>4. \A u, r, m : Holds(u, r, m) => Holds(u, r, m)'
  BY <1>1, <1>3, AcquireLemma DEF IInv
<1>5. pc'[t] = "insert_code" /\ batches' = batches /\ TxInv(t)
  BY <1>2 DEF Goto, IInv, TypeOK, tables
<1>6. req[t] \in Request /\ req[t].op = "rename"
  BY <1>2, AtLemma DEF Open, Outcome
<1>7. AtOwnStatement(t)' /\ NothingYet(t)' /\ LinesHeld(t)'
  BY <1>2, <1>5, <1>6 DEF TxInv, AtOwnStatement, NothingYet, LinesHeld, StatementOf
<1>8. DraftOwned(t)' /\ ReceiptOK(t)' /\ EditOK(t)'
  BY <1>2, <1>5, <1>6 DEF DraftOwned, OwnsDraft, ReceiptOK, EditOK, DraftOp
<1>9. RenameOK(t)'
  BY <1>2, <1>4, <1>5 DEF TxInv, RenameOK, BatchRow
<1> QED
  BY <1>1, <1>2, <1>3, <1>7, <1>8, <1>9, MoveLemma DEF Statement, IInv, TypeOK, TxInv

(* What is published by renaming: the batch as it was, under a code that is*)
(* free and that nobody has locked.                                        *)
LEMMA RenamedBatch ==
  ASSUME IInv, NEW t \in Tx, RenameBatch(t)
  PROVE  \E b \in mem[t].old, c \in ReceivedBatch :
           /\ b \in batches /\ Holds(t, BatchRow(b), "FOR UPDATE")
           /\ batches' = (batches \ {b}) \cup {c}
           /\ c = [b EXCEPT !.code = c.code]
           /\ c.line = b.line /\ c.tx = b.tx /\ c.product = b.product
           /\ ~CodeTaken(t, c.product, c.code)
           /\ CanLock(t, CodeRow(c.product, c.code), "FOR UPDATE")
<1>1. PICK b \in mem[t].old :
        /\ CanLock(t, CodeRow(b.product, req[t].code), "FOR UPDATE")
        /\ ~CodeTaken(t, b.product, req[t].code)
        /\ batches' = (batches \ {b}) \cup {[b EXCEPT !.code = req[t].code]}
  BY DEF RenameBatch
<1>2. pc[t] = "insert_code" /\ TxInv(t)
  BY DEF RenameBatch, IInv
<1>3. /\ req[t].code \in Code /\ b \in batches /\ b \in ReceivedBatch
      /\ Holds(t, BatchRow(b), "FOR UPDATE")
  BY <1>1, <1>2, AtLemma DEF Open, Outcome, TxInv, RenameOK, IInv, TypeOK
<1>4. PICK c : c = [b EXCEPT !.code = req[t].code]
  OBVIOUS
<1>5. /\ c \in ReceivedBatch /\ c.code = req[t].code /\ c.line = b.line /\ c.tx = b.tx
      /\ c.product = b.product
  BY <1>3, <1>4 DEF ReceivedBatch
<1> QED
  BY <1>1, <1>3, <1>4, <1>5

LEMMA RenameBatchStep ==
  ASSUME IInv, NEW t \in Tx, RenameBatch(t)
  PROVE  IInv'
<1>1. PICK b \in mem[t].old, c \in ReceivedBatch :
        /\ b \in batches /\ Holds(t, BatchRow(b), "FOR UPDATE")
        /\ batches' = (batches \ {b}) \cup {c}
        /\ c.line = b.line /\ c.tx = b.tx
  BY RenamedBatch
<1>2. Finish(t, "ok") /\ order' = order /\ lines' = lines /\ req' = req /\ "ok" \in Outcome
  BY DEF RenameBatch, Outcome
<1>3. TypeOK' /\ LocksCompatible'
  BY <1>1, <1>2, FinishLemma DEF IInv, TypeOK
<1>4. BatchesKeepTheirLine'
  BY <1>1, <1>2 DEF IInv, BatchesKeepTheirLine
<1>5. ReceivedByOneRequest'
  BY <1>1 DEF IInv, ReceivedByOneRequest
<1>6. LinesFollowOrder'
  BY <1>2 DEF IInv, LinesFollowOrder, LinesOf
<1>7. ASSUME NEW u \in Tx \ {t} PROVE Undisturbed(u)
  <2>1. TxInv(u) /\ LocksCompatible
    BY DEF IInv
  <2>2. \A l \in mem[u].got :
          /\ l \in lines'
          /\ \A x \in batches' : x.line = l => \E y \in batches : y.line = l
    BY <1>1, <1>2, <2>1 DEF TxInv, LinesHeld
  <2>3. pc[u] \in {"update_batch", "insert_code"} => mem[u].old \subseteq batches'
    <3> SUFFICES ASSUME pc[u] \in {"update_batch", "insert_code"}, NEW d \in mem[u].old
                 PROVE  d \in batches'
      OBVIOUS
    <3>1. d \in batches /\ Holds(u, BatchRow(d), "FOR UPDATE")
      BY <2>1 DEF TxInv, RenameOK
    <3>2. d # b
      BY <1>1, <2>1, <3>1, ForUpdateExcludes
    <3> QED
      BY <1>1, <3>1, <3>2
  <2> QED
    BY <1>2, <2>1, <2>2, <2>3 DEF Undisturbed, TxInv, DraftOwned, EditOK, LinesOf
<1>8. /\ TxInv(t)'
      /\ \A u \in Tx \ {t} :
           /\ pc'[u] = pc[u] /\ req'[u] = req[u] /\ mem'[u] = mem[u]
           /\ \A r, m : Holds(u, r, m) => Holds(u, r, m)'
  BY <1>2, FinishLemma
<1> QED
  BY <1>2, <1>3, <1>4, <1>5, <1>6, <1>7, <1>8, FrameLemma

LEMMA CommitUpdateStep ==
  ASSUME IInv, NEW t \in Tx, CommitUpdate(t)
  PROVE  IInv'
<1>0. PICK o : o = req[t].order
  OBVIOUS
<1> DEFINE N == NewLines(t, o, req[t].lines)
<1>1. /\ pc[t] = "commit_update"
      /\ order' = IF req[t].header = Keep THEN order
                  ELSE [order EXCEPT ![o].header = req[t].header]
      /\ lines' = (lines \ mem[t].got) \cup N
      /\ Finish(t, "ok") /\ batches' = batches /\ req' = req /\ "ok" \in Outcome
  BY <1>0 DEF CommitUpdate, Outcome
<1>2. /\ o \in Order /\ req[t].op = "update" /\ req[t] \in Request /\ TxInv(t)
      /\ req[t].header \in Header \cup {Keep}
      /\ req[t].lines \in Seq([product : Product, qty : Nat \ {0}])
  BY <1>0, <1>1, AtLemma, RequestFields DEF Open, Outcome, IInv
<1>3. N \subseteq Line /\ (\A l \in N : l.order = o) /\ (N # {} <=> req[t].lines # <<>>)
  BY <1>2, NewLinesLemma
<1>4. /\ \A p \in Order : order'[p].status = order[p].status
      /\ order' \in [Order -> [status : {"absent", "draft", "received", "deleted"},
                                header : Header]]
  <2>1. CASE req[t].header = Keep
    BY <1>1, <2>1 DEF IInv, TypeOK
  <2>2. CASE req[t].header # Keep
    BY <1>1, <1>2, <2>2 DEF IInv, TypeOK
  <2> QED
    BY <2>1, <2>2
<1>5. /\ ~Referenced(t) /\ order[o].status # "absent"
      /\ req[t].lines = <<>> => mem[t].got = {}
      /\ req[t].lines # <<>> => /\ Holds(t, OrderRow(o), "KEY SHARE")
                               /\ order[o].status # "deleted"
  BY <1>0, <1>1, <1>2 DEF TxInv, EditOK, Open, Outcome, DraftOp
<1>6. \A l \in mem[t].got : l.order = o /\ Holds(t, LineRow(l), "FOR UPDATE")
  BY <1>0, <1>2 DEF TxInv, LinesHeld
<1> HIDE DEF N
<1>7. TypeOK' /\ LocksCompatible'
  BY <1>1, <1>3, <1>4, FinishLemma DEF IInv, TypeOK
<1>8. \A p \in Order : p # o \/ req[t].lines = <<>> => LinesOf(p)' = LinesOf(p)
  BY <1>1, <1>3, <1>5, <1>6 DEF LinesOf
<1>9. BatchesKeepTheirLine' /\ ReceivedByOneRequest'
  <2>1. \A b \in batches : b.line # NoLine => b.line.order \in Order
    BY DEF IInv, TypeOK, ReceivedBatch, Line
  <2> QED
    BY <1>1, <1>4, <1>5, <2>1
    DEF IInv, BatchesKeepTheirLine, ReceivedByOneRequest, Referenced
<1>10. LinesFollowOrder'
  <2>1. req[t].lines # <<>> => LinesOf(o)' # {} /\ order[o].status \in {"draft", "received"}
    <3>1. order[o].status \in {"absent", "draft", "received", "deleted"}
      BY <1>2 DEF IInv, TypeOK
    <3> QED
      BY <1>1, <1>3, <1>5, <3>1 DEF LinesOf
  <2> QED
    BY <1>4, <1>8, <2>1 DEF IInv, LinesFollowOrder
<1>11. ASSUME NEW u \in Tx \ {t} PROVE Undisturbed(u)
  <2>1. TxInv(u) /\ LocksCompatible
    BY DEF IInv
  <2>2. OwnsDraft(u) => /\ req[u].order \in Order /\ order[req[u].order].status = "draft"
                        /\ req[u].order # o \/ req[t].lines = <<>>
    BY <1>5, <2>1, AtLemma, ForUpdateExcludes DEF TxInv, DraftOwned, OwnsDraft, Open, Outcome
  <2>3. OwnsDraft(u) =>
          /\ order'[req[u].order].status = "draft"
          /\ {l \in lines' : l.order = req[u].order} = LinesOf(req[u].order)
    BY <1>1, <1>4, <1>8, <2>2 DEF LinesOf
  <2>4. pc[u] = "commit_update" /\ req[u].lines # <<>> => order'[req[u].order].status # "deleted"
    <3>1. pc[u] = "commit_update" => req[u].order \in Order
      BY AtLemma DEF Open, Outcome
    <3> QED
      BY <1>4, <2>1, <3>1 DEF TxInv, EditOK
  <2>5. \A l \in mem[u].got : l \in lines'
    BY <1>1, <1>6, <2>1, ForUpdateExcludes DEF TxInv, LinesHeld
  <2>6. pc[u] \in {"update_batch", "insert_code"} => mem[u].old \subseteq batches'
    BY <1>1, <2>1 DEF TxInv, RenameOK
  <2> QED
    BY <1>1, <2>3, <2>4, <2>5, <2>6 DEF Undisturbed
<1>12. /\ TxInv(t)'
       /\ \A u \in Tx \ {t} :
            /\ pc'[u] = pc[u] /\ req'[u] = req[u] /\ mem'[u] = mem[u]
            /\ \A r, m : Holds(u, r, m) => Holds(u, r, m)'
  BY <1>1, FinishLemma
<1> QED
  BY <1>4, <1>7, <1>9, <1>10, <1>11, <1>12, FrameLemma

LEMMA CommitDeleteStep ==
  ASSUME IInv, NEW t \in Tx, CommitDelete(t)
  PROVE  IInv'
<1>0. PICK o : o = req[t].order
  OBVIOUS
<1>1. /\ pc[t] = "cascade" /\ mem[t].want = {}
      /\ order' = [order EXCEPT ![o].status = "deleted"]
      /\ lines' = lines \ mem[t].got
      /\ Finish(t, "ok") /\ batches' = batches /\ req' = req /\ "ok" \in Outcome
  BY <1>0 DEF CommitDelete, Outcome
<1>2. o \in Order /\ TxInv(t)
  BY <1>0, <1>1, AtLemma DEF Open, Outcome, IInv
<1>3. /\ Holds(t, OrderRow(o), "FOR UPDATE") /\ order[o].status = "draft"
      /\ mem[t].got = LinesOf(o)
  BY <1>0, <1>1, <1>2 DEF TxInv, DraftOwned, OwnsDraft
<1>4. \A l \in mem[t].got : Holds(t, LineRow(l), "FOR UPDATE")
  BY <1>2 DEF TxInv, LinesHeld
<1>5. /\ order'[o].status = "deleted" /\ \A p \in Order \ {o} : order'[p] = order[p]
      /\ order' \in [Order -> [status : {"absent", "draft", "received", "deleted"},
                                header : Header]]
  BY <1>1, <1>2 DEF IInv, TypeOK
<1>6. TypeOK' /\ LocksCompatible'
  BY <1>1, <1>5, FinishLemma DEF IInv, TypeOK
<1>7. LinesOf(o)' = {} /\ \A p \in Order \ {o} : LinesOf(p)' = LinesOf(p)
  BY <1>1, <1>3 DEF LinesOf
<1>8. BatchesKeepTheirLine' /\ ReceivedByOneRequest'
  <2>1. \A b \in batches : b.line # NoLine =>
          b.line.order \in Order \ {o} /\ b.line \notin mem[t].got
    BY <1>3 DEF IInv, TypeOK, ReceivedBatch, Line, BatchesKeepTheirLine, LinesOf
  <2> QED
    BY <1>1, <1>5, <2>1 DEF IInv, BatchesKeepTheirLine, ReceivedByOneRequest
<1>9. LinesFollowOrder'
  BY <1>5, <1>7 DEF IInv, LinesFollowOrder
<1>10. ASSUME NEW u \in Tx \ {t} PROVE Undisturbed(u)
  <2>1. TxInv(u) /\ LocksCompatible
    BY DEF IInv
  <2>2. OwnsDraft(u) => req[u].order \in Order \ {o}
    BY <1>3, <2>1, AtLemma, ForUpdateExcludes DEF TxInv, DraftOwned, OwnsDraft, Open, Outcome
  <2>3. OwnsDraft(u) =>
          /\ order'[req[u].order].status = "draft"
          /\ {l \in lines' : l.order = req[u].order} = LinesOf(req[u].order)
    BY <1>5, <1>7, <2>1, <2>2 DEF TxInv, DraftOwned, LinesOf
  <2>4. pc[u] = "commit_update" /\ req[u].lines # <<>> => order'[req[u].order].status # "deleted"
    <3>1. pc[u] = "commit_update" => req[u].order \in Order
      BY AtLemma DEF Open, Outcome
    <3>2. pc[u] = "commit_update" /\ req[u].lines # <<>> =>
            /\ Holds(u, OrderRow(req[u].order), "KEY SHARE")
            /\ order[req[u].order].status # "deleted"
      BY <2>1 DEF TxInv, EditOK
    <3>3. pc[u] = "commit_update" /\ req[u].lines # <<>> => req[u].order # o
      BY <1>3, <2>1, <3>2, ForUpdateExcludes
    <3> QED
      BY <1>5, <3>1, <3>2, <3>3
  <2>5. \A l \in mem[u].got : l \in lines'
    BY <1>1, <1>4, <2>1, ForUpdateExcludes DEF TxInv, LinesHeld
  <2>6. pc[u] \in {"update_batch", "insert_code"} => mem[u].old \subseteq batches'
    BY <1>1, <2>1 DEF TxInv, RenameOK
  <2> QED
    BY <1>1, <2>3, <2>4, <2>5, <2>6 DEF Undisturbed
<1>11. \A p \in Order : order[p].status # "absent" => order'[p].status # "absent"
  BY <1>5
<1>12. /\ TxInv(t)'
       /\ \A u \in Tx \ {t} :
            /\ pc'[u] = pc[u] /\ req'[u] = req[u] /\ mem'[u] = mem[u]
            /\ \A r, m : Holds(u, r, m) => Holds(u, r, m)'
  BY <1>1, FinishLemma
<1> QED
  BY <1>6, <1>8, <1>9, <1>10, <1>11, <1>12, FrameLemma

-------------------------------------------------------------------------------
(* The invariant *)

LEMMA InitLemma == Init => IInv
<1> SUFFICES ASSUME Init PROVE IInv
  OBVIOUS
<1>1. TypeOK
  <2>1. Blank \in Mem
    BY DEF Blank, Mem
  <2>2. lines \subseteq Line
    BY ProcurementConstants DEF Init, Line
  <2> QED
    BY <2>1, <2>2 DEF Init, TypeOK
<1>2. LocksCompatible /\ BatchesKeepTheirLine /\ ReceivedByOneRequest
  BY DEF Init, LocksCompatible, BatchesKeepTheirLine, ReceivedByOneRequest
<1>3. LinesFollowOrder
  BY DEF Init, LinesFollowOrder, LinesOf
<1>4. ASSUME NEW t \in Tx PROVE TxInv(t)
  BY DEF Init, Blank, TxInv, AtOwnStatement, NothingYet, LinesHeld, DraftOwned, OwnsDraft,
     ReceiptOK, EditOK, RenameOK, Open
<1> QED
  BY <1>1, <1>2, <1>3, <1>4 DEF IInv

LEMMA RollbackStep ==
  ASSUME IInv, NEW t \in Tx,
         \/ OrderRefused(t) \/ ReceiveLinesMismatch(t) \/ DuplicateCode(t) \/ BatchExists(t)
         \/ NotDraft(t) \/ HeaderGone(t) \/ LinesReferenced(t) \/ OrderGone(t)
         \/ DeletedNothing(t) \/ CodeKept(t) \/ CodeInUse(t)
         \/ DeadlockVictim(t) \/ Crash(t)
  PROVE  IInv'
<1>1. PICK s \in Outcome : Rollback(t, s)
  BY DEF OrderRefused, ReceiveLinesMismatch, DuplicateCode, BatchExists, NotDraft, HeaderGone,
     LinesReferenced, OrderGone, DeletedNothing, CodeKept, CodeInUse, DeadlockVictim,
     Crash, Outcome
<1> QED
  BY <1>1, RollbackLemma

LEMMA StutterStep ==
  ASSUME IInv, UNCHANGED vars
  PROVE  IInv'
<1>1. TypeOK' /\ LocksCompatible'
  BY DEF IInv, TypeOK, LocksCompatible, vars, tables
<1>2. BatchesKeepTheirLine' /\ ReceivedByOneRequest' /\ LinesFollowOrder'
  BY DEF IInv, BatchesKeepTheirLine, ReceivedByOneRequest, LinesFollowOrder, LinesOf, vars, tables
<1>3. ASSUME NEW t \in Tx PROVE TxInv(t)'
  <2>1. TxInv(t) /\ UNCHANGED <<order, lines, batches, locks, pc, req, mem>>
    BY DEF IInv, vars, tables
  <2>2. AtOwnStatement(t)' /\ NothingYet(t)' /\ LinesHeld(t)'
    BY <2>1 DEF TxInv, AtOwnStatement, NothingYet, LinesHeld, Open, Holds
  <2>3. DraftOwned(t)' /\ EditOK(t)'
    BY <2>1 DEF TxInv, DraftOwned, OwnsDraft, EditOK, Open, Holds, LinesOf, Referenced
  <2>4. ReceiptOK(t)' /\ RenameOK(t)'
    BY <2>1 DEF TxInv, ReceiptOK, RenameOK, LinesMatch, Named, Inserted, Holds, BatchRow
  <2> QED
    BY <2>2, <2>3, <2>4 DEF TxInv
<1> QED
  BY <1>1, <1>2, <1>3 DEF IInv

LEMMA NextLemma == IInv /\ [Next]_vars => IInv'
<1> SUFFICES ASSUME IInv, [Next]_vars PROVE IInv'
  OBVIOUS
<1>1. ASSUME NEW t \in Tx, Receive(t) PROVE IInv'
  BY <1>1, LockOrderStep, SelectLinesStep, TakeLineStep, SkipLineStep, LinesMatchedStep,
     InsertBatchStep, CommitReceiveStep, RollbackStep DEF Receive
<1>2. ASSUME NEW t \in Tx, Manual(t) PROVE IInv'
  BY <1>2, ManualBatchStep, RollbackStep DEF Manual
<1>3. ASSUME NEW t \in Tx, Draft(t) PROVE IInv'
  BY <1>3, ReadOrderStep, UpdateHeaderStep, LinesDeletedStep, InsertLinesStep,
     CommitUpdateStep, DeleteOrderStep, CommitDeleteStep, RollbackStep DEF Draft
<1>4. ASSUME NEW t \in Tx, Start(t) \/ CreateOrder(t) \/ DeadlockVictim(t) \/ Crash(t)
      PROVE  IInv'
  BY <1>4, StartStep, CreateOrderStep, RollbackStep
<1>5. Quiescent => UNCHANGED vars
  BY DEF Quiescent
<1>6. ASSUME NEW t \in Tx, Rename(t) PROVE IInv'
  BY <1>6, LockBatchStep, UpdateBatchStep, RenameBatchStep, RollbackStep DEF Rename
<1> QED
  BY <1>1, <1>2, <1>3, <1>4, <1>5, <1>6, StutterStep DEF Next, Step

(* IInv is inductive: in every state the tables agree, and each open       *)
(* transaction holds the locks its statements rely on.                     *)
THEOREM ProcurementInvariant == Spec => []IInv
  BY InitLemma, NextLemma, PTL DEF Spec

(* Every variable keeps its type. *)
THEOREM TypeCorrect == Spec => []TypeOK
<1>1. IInv => TypeOK
  BY DEF IInv
<1> QED
  BY <1>1, ProcurementInvariant, PTL

(* What a receipt created stays traceable (F3): a receipt locks the order  *)
(* and all its lines before it inserts batches, and the foreign key keeps  *)
(* an edit from deleting a line that has one.                              *)
THEOREM ReceivedTraceable == Spec => []BatchesKeepTheirLine
<1>1. IInv => BatchesKeepTheirLine
  BY DEF IInv
<1> QED
  BY <1>1, ProcurementInvariant, PTL

(* No line is received by two requests, whether one retries or both run    *)
(* beside each other: the second finds the order received.                 *)
THEOREM ReceivedOnce == Spec => []ReceivedByOneRequest
<1>1. IInv => ReceivedByOneRequest
  BY DEF IInv
<1> QED
  BY <1>1, ProcurementInvariant, PTL

(* An order has lines exactly as long as it exists: an edit that inserts   *)
(* lines holds the order by its foreign key, and a deletion takes all lines*)
(* of an order nobody is adding to.                                        *)
THEOREM OrdersHaveLines == Spec => []LinesFollowOrder
<1>1. IInv => LinesFollowOrder
  BY DEF IInv
<1> QED
  BY <1>1, ProcurementInvariant, PTL

-------------------------------------------------------------------------------
(* What a receipt covers *)

(* Only the COMMIT of a receipt makes an order received. *)
LEMMA ReceivedByCommit ==
  ASSUME IInv, [Next]_vars, NEW o \in Order,
         order[o].status # "received", order'[o].status = "received"
  PROVE  \E t \in Tx : CommitReceive(t) /\ o = req[t].order
<1>1. order' # order /\ ~Quiescent
  BY DEF Quiescent, vars, tables
<1>2. order \in [Order -> [status : {"absent", "draft", "received", "deleted"},
                           header : Header]]
  BY DEF IInv, TypeOK
<1>3. PICK t \in Tx : Start(t) \/ CreateOrder(t) \/ Step(t) \/ DeadlockVictim(t) \/ Crash(t)
  BY <1>1 DEF Next, vars, tables
<1>4. CreateOrder(t) \/ CommitReceive(t) \/ CommitUpdate(t) \/ CommitDelete(t)
  BY <1>1, <1>3 DEF Start, Step, Receive, Manual, Rename, Draft, LockOrder, OrderRefused,
     SelectLines, TakeLine, SkipLine, LinesMatched, ReceiveLinesMismatch, InsertBatch,
     DuplicateCode, ManualBatch, BatchExists, LockBatch, CodeKept, UpdateBatch, RenameBatch,
     CodeInUse, ReadOrder, NotDraft, UpdateHeader, HeaderGone, LinesDeleted,
     LinesReferenced, InsertLines, OrderGone, DeleteOrder, DeletedNothing, DeadlockVictim,
     Crash, Rollback, tables
<1>5. ~CreateOrder(t)
  BY <1>2 DEF CreateOrder
<1>6. ~CommitUpdate(t)
  BY <1>2 DEF CommitUpdate
<1>7. ~CommitDelete(t)
  BY <1>2 DEF CommitDelete
<1>8. CommitReceive(t)
  BY <1>4, <1>5, <1>6, <1>7
<1>9. o = req[t].order
  BY <1>2, <1>8 DEF CommitReceive
<1> QED
  BY <1>8, <1>9

LEMMA ReceiptCovers ==
  ASSUME IInv, NEW t \in Tx, NEW o \in Order, CommitReceive(t), o = req[t].order
  PROVE  \A l \in LinesOf(o)' : BatchesOf(l)' # {}
<1>1. LinesOf(o)' = LinesOf(o) /\ batches' = batches \cup mem[t].new
  BY DEF CommitReceive, LinesOf
<1>2. pc[t] = "insert_batches" /\ Inserted(t) = Len(mem[t].body)
  BY DEF CommitReceive
<1>3. \A l \in LinesOf(o) : \E b \in mem[t].new : b.line = l
  <2>1. /\ mem[t].got = LinesOf(req[t].order)
        /\ \A l \in mem[t].got : \E b \in mem[t].new : b.line = l
    BY <1>2, AtCommitReceive
  <2>2. LinesOf(o) = mem[t].got
    BY <2>1
  <2> QED
    BY <2>1, <2>2
<1> QED
  BY <1>1, <1>3 DEF BatchesOf

(* The step that receives an order receives all of it: the body is matched *)
(* against the lines read under the lock on the order, which nobody can add*)
(* to or delete before the COMMIT.                                         *)
THEOREM ReceiptsComplete == Spec => ReceivedInFull
<1>1. IInv /\ [Next]_vars =>
        [\A o \in Order :
           order[o].status # "received" /\ order'[o].status = "received" =>
             \A l \in LinesOf(o)' : BatchesOf(l)' # {}]_vars
  BY ReceivedByCommit, ReceiptCovers
<1> QED
  BY <1>1, ProcurementInvariant, PTL DEF Spec, ReceivedInFull

-------------------------------------------------------------------------------
(* The transactions implement PurchaseLifecycle *)

SameCode(b, c) == b.product = c.product /\ b.code = c.code

(* What a receipt has inserted is what the lines say, and nobody else has  *)
(* or may insert its codes.                                                *)
NewAlone ==
  \A t \in Tx : \A b \in mem[t].new :
    /\ Holds(t, CodeRow(b.product, b.code), "FOR UPDATE")
    /\ b.product = b.line.product /\ b.qty = b.line.qty
    /\ \A c \in batches : ~SameCode(b, c)
    /\ \A u \in Tx \ {t} : \A c \in mem[u].new : ~SameCode(b, c)
    /\ \A c \in mem[t].new : SameCode(b, c) => b = c

CodeInv == Lifecycle!CodesDistinct(batches) /\ NewAlone

-------------------------------------------------------------------------------

(* What a step of one transaction leaves of everything else. *)
LEMMA OthersKept ==
  ASSUME IInv, NEW t \in Tx,
         Start(t) \/ CreateOrder(t) \/ Step(t) \/ DeadlockVictim(t) \/ Crash(t)
  PROVE  /\ \A u \in Tx \ {t} : mem'[u] = mem[u]
         /\ \A l \in locks : l.tx # t => l \in locks'
<1>1. ASSUME NEW s, Finish(t, s)
      PROVE  /\ \A u \in Tx \ {t} : mem'[u] = mem[u]
             /\ \A l \in locks : l.tx # t => l \in locks'
  BY <1>1 DEF Finish, ReleaseAll, IInv, TypeOK
<1>2. CASE Start(t) \/ CreateOrder(t)
  BY <1>2 DEF Start, CreateOrder, IInv, TypeOK
<1>3. CASE \/ LockOrder(t) \/ SelectLines(t) \/ TakeLine(t) \/ SkipLine(t)
           \/ LinesMatched(t) \/ InsertBatch(t)
  BY <1>3 DEF LockOrder, SelectLines, TakeLine, SkipLine, LinesMatched, InsertBatch,
              Acquire, AcquireAll, IInv, TypeOK
<1>4. CASE \/ ReadOrder(t) \/ UpdateHeader(t) \/ LinesDeleted(t) \/ InsertLines(t)
           \/ DeleteOrder(t) \/ LockBatch(t) \/ UpdateBatch(t)
  BY <1>4 DEF ReadOrder, UpdateHeader, LinesDeleted, InsertLines, DeleteOrder,
              LockBatch, UpdateBatch, Acquire, AcquireAll, IInv, TypeOK
<1>5. CASE \/ OrderRefused(t) \/ ReceiveLinesMismatch(t) \/ DuplicateCode(t)
           \/ CommitReceive(t) \/ ManualBatch(t) \/ BatchExists(t) \/ NotDraft(t)
           \/ HeaderGone(t) \/ LinesReferenced(t) \/ OrderGone(t) \/ CommitUpdate(t)
           \/ DeletedNothing(t) \/ CommitDelete(t) \/ CodeKept(t) \/ RenameBatch(t)
           \/ CodeInUse(t) \/ DeadlockVictim(t) \/ Crash(t)
  <2>1. \E s : Finish(t, s)
    BY <1>5 DEF OrderRefused, ReceiveLinesMismatch, DuplicateCode, CommitReceive,
       ManualBatch, BatchExists, NotDraft, HeaderGone, LinesReferenced, OrderGone,
       CommitUpdate, DeletedNothing, CommitDelete, CodeKept, RenameBatch, CodeInUse,
       DeadlockVictim, Crash, Rollback
  <2> QED
    BY <1>1, <2>1
<1> QED
  BY <1>2, <1>3, <1>4, <1>5 DEF Step, Receive, Manual, Rename, Draft

(* Which actions write the tables. *)
LEMMA TableWriters ==
  ASSUME NEW t \in Tx,
         Start(t) \/ CreateOrder(t) \/ Step(t) \/ DeadlockVictim(t) \/ Crash(t)
  PROVE  /\ \/ CreateOrder(t) \/ CommitReceive(t) \/ ManualBatch(t)
            \/ RenameBatch(t) \/ CommitUpdate(t) \/ CommitDelete(t)
            \/ UNCHANGED tables
         /\ CommitReceive(t) \/ ManualBatch(t) \/ RenameBatch(t) \/ batches' = batches
  BY DEF Start, CreateOrder, Step, Receive, Manual, Rename, Draft, LockBatch, CodeKept,
         UpdateBatch, RenameBatch, CodeInUse, LockOrder, OrderRefused,
         SelectLines, TakeLine, SkipLine, LinesMatched, ReceiveLinesMismatch,
         InsertBatch, DuplicateCode, CommitReceive, ManualBatch, BatchExists, ReadOrder,
         NotDraft, UpdateHeader, HeaderGone, LinesDeleted, LinesReferenced, InsertLines,
         OrderGone, CommitUpdate, DeleteOrder, DeletedNothing, CommitDelete,
         DeadlockVictim, Crash, Rollback, tables

(* Who holds the lock of a code keeps others from inserting it. *)
LEMMA HeldBlocks ==
  ASSUME NEW t \in Tx, NEW u \in Tx \ {t}, NEW p, NEW c,
         Holds(u, CodeRow(p, c), "FOR UPDATE")
  PROVE  ~CanLock(t, CodeRow(p, c), "FOR UPDATE")
<1>1. PICK l \in locks : l = [tx |-> u, row |-> CodeRow(p, c), mode |-> "FOR UPDATE"]
  BY DEF Holds
<1>2. l.tx = u /\ l.row = CodeRow(p, c) /\ Conflicts(l.mode, "FOR UPDATE")
  BY <1>1 DEF Conflicts
<1>3. u \in Blockers(t, CodeRow(p, c), "FOR UPDATE")
  BY <1>2 DEF Blockers
<1> QED
  BY <1>3 DEF CanLock

(* What a receipt inserts next: what the line says, under a code that is   *)
(* free and from now on locked.                                            *)
LEMMA InsertedBatch ==
  ASSUME IInv, NEW t \in Tx, InsertBatch(t)
  PROVE  \E b \in ReceivedBatch :
           /\ mem'[t].new = mem[t].new \cup {b}
           /\ b.product = b.line.product /\ b.qty = b.line.qty
           /\ ~CodeTaken(t, b.product, b.code)
           /\ CanLock(t, CodeRow(b.product, b.code), "FOR UPDATE")
           /\ locks \subseteq locks'
           /\ [tx |-> t, row |-> CodeRow(b.product, b.code), mode |-> "FOR UPDATE"] \in locks'
<1> PICK l : l = NextEntry(t).line
  OBVIOUS
<1> PICK c : c = NextEntry(t).code
  OBVIOUS
<1> PICK n : n = Inserted(t)
  OBVIOUS
<1> PICK b : b = [tx |-> t, n |-> n + 1, line |-> l, product |-> l.product,
                  code |-> c, qty |-> l.qty]
  OBVIOUS
<1>1. /\ pc[t] = "insert_batches" /\ n < Len(mem[t].body)
      /\ ~CodeTaken(t, l.product, c)
      /\ Acquire(t, CodeRow(l.product, c), "FOR UPDATE")
      /\ mem' = [mem EXCEPT ![t].new = @ \cup {b}]
  BY DEF InsertBatch, ReceiptQuantity
<1>2. l \in Line /\ c \in Code /\ n + 1 \in Nat
  <2>1. Inserted(t) \in Nat /\ NextEntry(t).line \in Line /\ NextEntry(t).code \in Code
    BY NextEntryLemma DEF InsertBatch
  <2> QED
    BY <2>1
<1>3. /\ b.product = l.product /\ b.line = l /\ b.qty = l.qty /\ b.code = c
  OBVIOUS
<1>4. b \in ReceivedBatch
  <2>1. l.product \in Product /\ l.qty \in Nat \ {0}
    BY <1>2 DEF Line
  <2> QED
    BY <1>2, <2>1 DEF ReceivedBatch
<1>5. mem'[t].new = mem[t].new \cup {b}
  <2>1. mem \in [Tx -> Mem] /\ mem[t] \in Mem
    BY DEF IInv, TypeOK
  <2> PICK m : m = mem[t]
    OBVIOUS
  <2>2. mem' = [mem EXCEPT ![t] = [m EXCEPT !.new = m.new \cup {b}]]
    BY <1>1
  <2>3. mem'[t] = [m EXCEPT !.new = m.new \cup {b}]
    BY <2>1, <2>2
  <2> QED
    BY <2>1, <2>3 DEF Mem
<1>6. /\ CanLock(t, CodeRow(l.product, c), "FOR UPDATE") /\ locks \subseteq locks'
      /\ [tx |-> t, row |-> CodeRow(l.product, c), mode |-> "FOR UPDATE"] \in locks'
  BY <1>1 DEF Acquire, AcquireAll
<1> QED
  BY <1>1, <1>3, <1>4, <1>5, <1>6

(* The batches a transaction has inserted stay with their locks, or are    *)
(* published or given up.                                                  *)
LEMMA NewLemma ==
  ASSUME IInv, NEW t \in Tx,
         Start(t) \/ CreateOrder(t) \/ Step(t) \/ DeadlockVictim(t) \/ Crash(t),
         ~InsertBatch(t)
  PROVE  \/ mem'[t].new = {}
         \/ mem'[t].new = mem[t].new /\ locks \subseteq locks' /\ batches' = batches
<1>1. ASSUME NEW s, Finish(t, s) PROVE mem'[t].new = {}
  BY <1>1 DEF Finish, Blank, IInv, TypeOK
<1>2. CASE Start(t)
  <2>1. /\ locks' = locks /\ batches' = batches
        /\ \/ mem' = mem
           \/ \E s : mem' = [mem EXCEPT ![t].body = s]
           \/ \E B : mem' = [mem EXCEPT ![t].old = B]
    BY <1>2 DEF Start, tables
  <2> QED
    BY <2>1 DEF IInv, TypeOK, Mem
<1>3. CASE CreateOrder(t)
  BY <1>3 DEF CreateOrder
<1>4. CASE SelectLines(t) \/ TakeLine(t) \/ SkipLine(t) \/ DeleteOrder(t)
  <2>1. locks \subseteq locks' /\ batches' = batches
    BY <1>4 DEF SelectLines, TakeLine, SkipLine, DeleteOrder, Acquire, AcquireAll, tables
  <2>2. mem[t] \in Mem /\ mem \in [Tx -> Mem]
    BY DEF IInv, TypeOK
  <2>3. \E W, G : mem' = [mem EXCEPT ![t].want = W, ![t].got = G]
    <3>1. ASSUME NEW W, mem' = [mem EXCEPT ![t].want = W]
          PROVE  mem' = [mem EXCEPT ![t].want = W, ![t].got = mem[t].got]
      BY <2>2, <3>1 DEF Mem
    <3> QED
      BY <1>4, <3>1 DEF SelectLines, TakeLine, SkipLine, DeleteOrder
  <2>4. mem'[t].new = mem[t].new
    BY <2>2, <2>3 DEF Mem
  <2> QED
    BY <2>1, <2>4
<1>5. CASE \/ LockOrder(t) \/ LinesMatched(t)
           \/ ReadOrder(t) \/ UpdateHeader(t) \/ LinesDeleted(t) \/ InsertLines(t)
           \/ UpdateBatch(t)
  BY <1>5 DEF LockOrder, LinesMatched, ReadOrder, UpdateHeader, LinesDeleted, InsertLines,
              UpdateBatch, Acquire, AcquireAll, tables
<1>7. CASE LockBatch(t)
  <2>1. /\ locks \subseteq locks' /\ batches' = batches
        /\ \E B : mem' = [mem EXCEPT ![t].old = B]
    BY <1>7 DEF LockBatch, Acquire, AcquireAll, tables
  <2> QED
    BY <2>1 DEF IInv, TypeOK, Mem
<1>6. CASE \/ OrderRefused(t) \/ ReceiveLinesMismatch(t) \/ DuplicateCode(t)
           \/ CommitReceive(t) \/ ManualBatch(t) \/ BatchExists(t) \/ NotDraft(t)
           \/ HeaderGone(t) \/ LinesReferenced(t) \/ OrderGone(t) \/ CommitUpdate(t)
           \/ DeletedNothing(t) \/ CommitDelete(t) \/ CodeKept(t) \/ RenameBatch(t)
           \/ CodeInUse(t) \/ DeadlockVictim(t) \/ Crash(t)
  <2>1. \E s : Finish(t, s)
    BY <1>6 DEF OrderRefused, ReceiveLinesMismatch, DuplicateCode, CommitReceive,
       ManualBatch, BatchExists, NotDraft, HeaderGone, LinesReferenced, OrderGone,
       CommitUpdate, DeletedNothing, CommitDelete, CodeKept, RenameBatch, CodeInUse,
       DeadlockVictim, Crash, Rollback
  <2> QED
    BY <1>1, <2>1
<1> QED
  BY <1>2, <1>3, <1>4, <1>5, <1>6, <1>7 DEF Step, Receive, Manual, Rename, Draft

(* A manual entry publishes one batch, under a code that is free and that  *)
(* nobody has locked.                                                      *)
LEMMA EnteredBatch ==
  ASSUME NEW t \in Tx, ManualBatch(t)
  PROVE  \E b : /\ batches' = batches \cup {b} /\ b.line = NoLine
                /\ ~CodeTaken(t, b.product, b.code)
                /\ CanLock(t, CodeRow(b.product, b.code), "FOR UPDATE")
<1>1. PICK b : b = [tx |-> t, n |-> 1, line |-> NoLine, product |-> req[t].product,
                    code |-> req[t].code, qty |-> req[t].qty]
  OBVIOUS
<1>2. b.product = req[t].product /\ b.code = req[t].code /\ b.line = NoLine
  BY <1>1
<1>3. batches' = batches \cup {b}
  BY <1>1 DEF ManualBatch
<1>4. /\ ~CodeTaken(t, req[t].product, req[t].code)
      /\ CanLock(t, CodeRow(req[t].product, req[t].code), "FOR UPDATE")
  BY DEF ManualBatch
<1> QED
  BY <1>2, <1>3, <1>4

LEMMA NewStep ==
  ASSUME IInv, CodeInv, NEW t \in Tx,
         Start(t) \/ CreateOrder(t) \/ Step(t) \/ DeadlockVictim(t) \/ Crash(t)
  PROVE  NewAlone'
<1>1. /\ \A u \in Tx \ {t} : mem'[u] = mem[u]
      /\ \A l \in locks : l.tx # t => l \in locks'
  BY OthersKept
<1>2. ASSUME NEW u \in Tx \ {t}, NEW b \in mem[u].new
      PROVE  /\ [tx |-> u, row |-> CodeRow(b.product, b.code), mode |-> "FOR UPDATE"]
                  \in locks'
             /\ b.product = b.line.product /\ b.qty = b.line.qty
             /\ \A c \in batches' : ~SameCode(b, c)
             /\ \A v \in Tx \ {u, t} : \A c \in mem[v].new : ~SameCode(b, c)
             /\ \A c \in mem[u].new : SameCode(b, c) => b = c
  <2>1. /\ \E l \in locks :
             l = [tx |-> u, row |-> CodeRow(b.product, b.code), mode |-> "FOR UPDATE"]
        /\ \A c \in batches : ~SameCode(b, c)
        /\ \A c \in mem[t].new : ~SameCode(b, c)
        /\ b.product = b.line.product /\ b.qty = b.line.qty
        /\ \A v \in Tx \ {u, t} : \A c \in mem[v].new : ~SameCode(b, c)
        /\ \A c \in mem[u].new : SameCode(b, c) => b = c
    BY DEF CodeInv, NewAlone, Holds
  <2>2. ASSUME NEW c \in batches' \ batches PROVE ~SameCode(b, c)
    <3>1. CASE CommitReceive(t)
      BY <2>1, <3>1 DEF CommitReceive
    <3>2. CASE ManualBatch(t)
      <4>1. CanLock(t, CodeRow(c.product, c.code), "FOR UPDATE")
        BY <3>2, EnteredBatch
      <4>2. ~CanLock(t, CodeRow(b.product, b.code), "FOR UPDATE")
        BY HeldBlocks DEF CodeInv, NewAlone
      <4> QED
        BY <4>1, <4>2 DEF SameCode
    <3>3. CASE RenameBatch(t)
      <4>1. CanLock(t, CodeRow(c.product, c.code), "FOR UPDATE")
        BY <3>3, RenamedBatch
      <4>2. ~CanLock(t, CodeRow(b.product, b.code), "FOR UPDATE")
        BY HeldBlocks DEF CodeInv, NewAlone
      <4> QED
        BY <4>1, <4>2 DEF SameCode
    <3> QED
      BY <3>1, <3>2, <3>3, TableWriters
  <2> QED
    BY <1>1, <2>1, <2>2
<1>3. ASSUME NEW b \in mem'[t].new
      PROVE  /\ [tx |-> t, row |-> CodeRow(b.product, b.code), mode |-> "FOR UPDATE"]
                  \in locks'
             /\ b.product = b.line.product /\ b.qty = b.line.qty
             /\ \A c \in batches' : ~SameCode(b, c)
             /\ \A u \in Tx \ {t} : \A c \in mem[u].new : ~SameCode(b, c)
             /\ \A c \in mem'[t].new : SameCode(b, c) => b = c
  <2>1. CASE ~InsertBatch(t)
    <3>1. mem'[t].new = mem[t].new /\ locks \subseteq locks' /\ batches' = batches
      BY <1>3, <2>1, NewLemma
    <3> QED
      BY <3>1 DEF CodeInv, NewAlone, Holds
  <2>2. CASE InsertBatch(t)
    <3>1. PICK n \in ReceivedBatch :
            /\ mem'[t].new = mem[t].new \cup {n}
            /\ n.product = n.line.product /\ n.qty = n.line.qty
            /\ ~CodeTaken(t, n.product, n.code)
            /\ CanLock(t, CodeRow(n.product, n.code), "FOR UPDATE")
            /\ locks \subseteq locks'
            /\ [tx |-> t, row |-> CodeRow(n.product, n.code), mode |-> "FOR UPDATE"]
                 \in locks'
      BY <2>2, InsertedBatch
    <3>2. batches' = batches
      BY <2>2 DEF InsertBatch, tables
    <3>3. \A c \in batches \cup mem[t].new : ~SameCode(n, c) /\ ~SameCode(c, n)
      BY <3>1 DEF CodeTaken, SameCode
    <3>4. \A u \in Tx \ {t} : \A c \in mem[u].new : ~SameCode(n, c)
      <4> SUFFICES ASSUME NEW u \in Tx \ {t}, NEW c \in mem[u].new, SameCode(n, c)
                   PROVE  FALSE
        OBVIOUS
      <4>1. ~CanLock(t, CodeRow(c.product, c.code), "FOR UPDATE")
        BY HeldBlocks DEF CodeInv, NewAlone
      <4> QED
        BY <3>1, <4>1 DEF SameCode
    <3>5. CASE b = n
      BY <3>1, <3>2, <3>3, <3>4, <3>5
    <3>6. CASE b \in mem[t].new
      <4>1. Holds(t, CodeRow(b.product, b.code), "FOR UPDATE")
        BY <3>6 DEF CodeInv, NewAlone
      <4> QED
        BY <3>1, <3>2, <3>3, <3>6, <4>1 DEF CodeInv, NewAlone, Holds
    <3> QED
      BY <1>3, <3>1, <3>5, <3>6
  <2> QED
    BY <2>1, <2>2
<1>4. ASSUME NEW u \in Tx, NEW b \in mem'[u].new
      PROVE  /\ Holds(u, CodeRow(b.product, b.code), "FOR UPDATE")'
             /\ b.product = b.line.product /\ b.qty = b.line.qty
             /\ \A c \in batches' : ~SameCode(b, c)
             /\ \A v \in Tx \ {u} : \A c \in mem'[v].new : ~SameCode(b, c)
             /\ \A c \in mem'[u].new : SameCode(b, c) => b = c
  <2>1. CASE u = t
    BY <1>1, <1>3, <2>1 DEF Holds
  <2>2. CASE u # t
    <3>1. b \in mem[u].new /\ mem'[u] = mem[u]
      BY <1>1, <2>2
    <3>2. \A c \in mem'[t].new : ~SameCode(b, c)
      BY <1>3, <2>2, <3>1 DEF SameCode
    <3> QED
      BY <1>1, <1>2, <2>2, <3>1, <3>2 DEF Holds
  <2> QED
    BY <2>1, <2>2
<1> QED
  BY <1>4 DEF NewAlone, SameCode

(* Codes stay distinct when batches are published: a receipt had its codes *)
(* to itself, and a manual entry or a renaming finds its code free and     *)
(* locked by nobody.                                                       *)
LEMMA CodesStep ==
  ASSUME IInv, CodeInv, NEW t \in Tx,
         Start(t) \/ CreateOrder(t) \/ Step(t) \/ DeadlockVictim(t) \/ Crash(t)
  PROVE  Lifecycle!CodesDistinct(batches')
<1>1. \A b, c \in batches : SameCode(b, c) => b = c
  BY DEF CodeInv, Lifecycle!CodesDistinct, SameCode
<1>2. \A b, c \in batches' : SameCode(b, c) => b = c
  <2>1. CASE CommitReceive(t)
    <3>1. batches' = batches \cup mem[t].new
      BY <2>1 DEF CommitReceive
    <3>2. /\ \A b \in mem[t].new, c \in batches : ~SameCode(b, c) /\ ~SameCode(c, b)
          /\ \A b, c \in mem[t].new : SameCode(b, c) => b = c
      BY DEF CodeInv, NewAlone, SameCode
    <3> QED
      BY <1>1, <3>1, <3>2
  <2>2. CASE ManualBatch(t)
    <3>1. PICK b : /\ batches' = batches \cup {b}
                   /\ ~CodeTaken(t, b.product, b.code)
      BY <2>2, EnteredBatch
    <3>2. \A c \in batches : ~SameCode(b, c) /\ ~SameCode(c, b)
      BY <3>1 DEF CodeTaken, SameCode
    <3> QED
      BY <1>1, <3>1, <3>2
  <2>3. CASE RenameBatch(t)
    <3>1. PICK b \in batches, c \in ReceivedBatch :
            /\ batches' = (batches \ {b}) \cup {c}
            /\ ~CodeTaken(t, c.product, c.code)
      BY <2>3, RenamedBatch
    <3>2. \A x \in batches : ~SameCode(c, x) /\ ~SameCode(x, c)
      BY <3>1 DEF CodeTaken, SameCode
    <3> QED
      BY <1>1, <3>1, <3>2
  <2>4. CASE batches' = batches
    BY <1>1, <2>4
  <2> QED
    BY <2>1, <2>2, <2>3, <2>4, TableWriters
<1> QED
  BY <1>2 DEF Lifecycle!CodesDistinct, SameCode

LEMMA CodesInductive == IInv /\ CodeInv /\ [Next]_vars => CodeInv'
<1> SUFFICES ASSUME IInv, CodeInv, [Next]_vars PROVE CodeInv'
  OBVIOUS
<1>1. CASE UNCHANGED vars
  <2>1. UNCHANGED <<batches, locks, mem>>
    BY <1>1 DEF vars, tables
  <2>2. Lifecycle!CodesDistinct(batches)'
    BY <2>1 DEF CodeInv, Lifecycle!CodesDistinct
  <2>3. NewAlone'
    <3>1. ASSUME NEW t \in Tx, NEW b \in mem'[t].new
          PROVE  /\ Holds(t, CodeRow(b.product, b.code), "FOR UPDATE")'
                 /\ b.product = b.line.product /\ b.qty = b.line.qty
                 /\ \A c \in batches' : ~SameCode(b, c)
                 /\ \A u \in Tx \ {t} : \A c \in mem'[u].new : ~SameCode(b, c)
                 /\ \A c \in mem'[t].new : SameCode(b, c) => b = c
      BY <2>1 DEF CodeInv, NewAlone, Holds
    <3> QED
      BY <3>1 DEF NewAlone, SameCode
  <2> QED
    BY <2>2, <2>3 DEF CodeInv
<1>2. CASE Quiescent
  BY <1>1, <1>2 DEF Quiescent
<1>3. ASSUME NEW t \in Tx,
             Start(t) \/ CreateOrder(t) \/ Step(t) \/ DeadlockVictim(t) \/ Crash(t)
      PROVE  CodeInv'
  <2>1. Lifecycle!CodesDistinct(batches)'
    BY <1>3, CodesStep DEF Lifecycle!CodesDistinct
  <2> QED
    BY <1>3, <2>1, NewStep DEF CodeInv
<1> QED
  BY <1>1, <1>2, <1>3 DEF Next

LEMMA CodesInitial == Init => CodeInv
<1> SUFFICES ASSUME Init PROVE CodeInv
  OBVIOUS
<1>1. batches = {} /\ \A t \in Tx : mem[t].new = {}
  BY DEF Init, Blank
<1> QED
  BY <1>1 DEF CodeInv, Lifecycle!CodesDistinct, NewAlone

(* No two batches of a product have one code, entered by hand, received or *)
(* renamed: whoever inserts a code has it locked until the batch is        *)
(* published.                                                              *)
THEOREM CodesUnique == Spec => []CodeInv
<1>1. IInv /\ CodeInv /\ [Next]_vars => CodeInv'
  BY CodesInductive
<1> QED
  BY <1>1, CodesInitial, ProcurementInvariant, PTL DEF Spec

-------------------------------------------------------------------------------
(* The refinement, one lemma for each step of PurchaseLifecycle *)

(* An order moves on when its status is all that changes of the orders. *)
LEMMA MoveMaps ==
  ASSUME NEW o \in Order, NEW from, NEW to,
         order[o].status = from, order'[o].status = to,
         \A p \in Order \ {o} : order'[p].status = order[p].status
  PROVE  Lifecycle!Moves(o, from, to)
<1>1. [p \in Order |-> order[p].status]' = [[p \in Order |-> order[p].status] EXCEPT ![o] = to]
  OBVIOUS
<1> QED
  BY <1>1 DEF Lifecycle!Moves

LEMMA StatusKept ==
  ASSUME \A p \in Order : order'[p].status = order[p].status
  PROVE  [p \in Order |-> order[p].status]' = [p \in Order |-> order[p].status]
  OBVIOUS

LEMMA CreateMaps ==
  ASSUME IInv, NEW t \in Tx, CreateOrder(t)
  PROVE  Lifecycle!Next
<1>1. PICK r \in Request, o \in Order :
        /\ r.op = "create" /\ order[o].status = "absent"
        /\ order' = [order EXCEPT ![o] = [status |-> "draft", header |-> r.header]]
        /\ lines' = lines \cup NewLines(t, o, r.lines)
  BY DEF CreateOrder
<1>2. PICK N : N = NewLines(t, o, r.lines)
  OBVIOUS
<1>3. (\A l \in N : l.order = o) /\ N # {}
  BY <1>1, <1>2, RequestFields, NewLinesLemma
<1>4. lines' = lines \cup N /\ batches' = batches
  BY <1>1, <1>2 DEF CreateOrder
<1>5. Lifecycle!Moves(o, "absent", "draft")
  <2>1. order'[o].status = "draft" /\ \A p \in Order \ {o} : order'[p].status = order[p].status
    BY <1>1 DEF IInv, TypeOK
  <2> QED
    BY <1>1, <2>1, MoveMaps
<1>6. Lifecycle!OnlyLinesOf(o) /\ Lifecycle!LinesOf(o)' # {}
  BY <1>3, <1>4 DEF Lifecycle!OnlyLinesOf, Lifecycle!LinesOf
<1>7. Lifecycle!Create(o)
  BY <1>4, <1>5, <1>6 DEF Lifecycle!Create
<1> QED
  BY <1>7 DEF Lifecycle!Next

LEMMA ReceiveMaps ==
  ASSUME IInv, CodeInv, NEW t \in Tx, CommitReceive(t)
  PROVE  Lifecycle!Next
<1>0. PICK o : o = req[t].order
  OBVIOUS
<1>1. /\ pc[t] = "insert_batches" /\ Inserted(t) = Len(mem[t].body)
      /\ order' = [order EXCEPT ![o].status = "received"]
      /\ batches' = batches \cup mem[t].new /\ lines' = lines
  BY <1>0 DEF CommitReceive
<1>2. /\ o \in Order /\ order[o].status = "draft"
      /\ mem[t].got = LinesOf(o)
      /\ \A b \in mem[t].new : b.line \in mem[t].got
      /\ \A l \in mem[t].got : \E b \in mem[t].new : b.line = l
  BY <1>0, <1>1, AtCommitReceive
<1>3. Lifecycle!Moves(o, "draft", "received")
  <2>1. order'[o].status = "received"
        /\ \A p \in Order \ {o} : order'[p].status = order[p].status
    BY <1>1, <1>2 DEF IInv, TypeOK
  <2> QED
    BY <1>2, <2>1, MoveMaps
<1>4. \A b \in mem[t].new : b \notin batches
  BY DEF CodeInv, NewAlone, SameCode
<1>5. Lifecycle!Arriving = mem[t].new
  BY <1>1, <1>4 DEF Lifecycle!Arriving
<1>6. {b.line : b \in mem[t].new} = Lifecycle!LinesOf(o)
  BY <1>2 DEF LinesOf, Lifecycle!LinesOf
<1>7. \A b \in mem[t].new : b.product = b.line.product /\ b.qty = b.line.qty
  BY DEF CodeInv, NewAlone
<1>8. Lifecycle!CodesDistinct(batches')
  BY CodesStep DEF Step, Receive
<1>9. Lifecycle!Receive(o)
  BY <1>1, <1>3, <1>5, <1>6, <1>7, <1>8 DEF Lifecycle!Receive
<1> QED
  BY <1>2, <1>9 DEF Lifecycle!Next

LEMMA EnterMaps ==
  ASSUME IInv, CodeInv, NEW t \in Tx, ManualBatch(t)
  PROVE  Lifecycle!Next
<1>1. PICK b : /\ batches' = batches \cup {b} /\ b.line = NoLine
               /\ ~CodeTaken(t, b.product, b.code)
  BY EnteredBatch
<1>2. b \in Lifecycle!Arriving
  BY <1>1 DEF Lifecycle!Arriving, CodeTaken
<1>3. Lifecycle!CodesDistinct(batches')
  BY CodesStep DEF Step, Manual
<1>4. order' = order /\ lines' = lines
  BY DEF ManualBatch
<1>5. Lifecycle!Enter(b)
  BY <1>1, <1>3, <1>4, StatusKept DEF Lifecycle!Enter
<1> QED
  BY <1>2, <1>5 DEF Lifecycle!Next

LEMMA RecodeMaps ==
  ASSUME IInv, CodeInv, NEW t \in Tx, RenameBatch(t)
  PROVE  Lifecycle!Next
<1>1. PICK b \in batches, c \in ReceivedBatch :
        /\ batches' = (batches \ {b}) \cup {c}
        /\ c = [b EXCEPT !.code = c.code]
        /\ ~CodeTaken(t, c.product, c.code)
  BY RenamedBatch
<1>2. c \in Lifecycle!Arriving
  BY <1>1 DEF Lifecycle!Arriving, CodeTaken
<1>3. Lifecycle!CodesDistinct(batches')
  BY CodesStep DEF Step, Rename
<1>4. order' = order /\ lines' = lines
  BY DEF RenameBatch
<1>5. Lifecycle!Recode(b, c)
  BY <1>1, <1>3, <1>4, StatusKept DEF Lifecycle!Recode
<1> QED
  BY <1>1, <1>2, <1>5 DEF Lifecycle!Next

(* An edit of the header alone is not seen; one of the lines keeps those   *)
(* that have arrived, since it could not delete them.                      *)
LEMMA EditMaps ==
  ASSUME IInv, NEW t \in Tx, CommitUpdate(t)
  PROVE  [Lifecycle!Next]_(Lifecycle!purchaseVars)
<1>0. PICK o : o = req[t].order
  OBVIOUS
<1> PICK N : N = NewLines(t, o, req[t].lines)
  OBVIOUS
<1>1. /\ pc[t] = "commit_update"
      /\ order' = IF req[t].header = Keep THEN order
                  ELSE [order EXCEPT ![o].header = req[t].header]
      /\ lines' = (lines \ mem[t].got) \cup N
      /\ batches' = batches
  BY <1>0 DEF CommitUpdate
<1>2. /\ o \in Order /\ req[t].op = "update" /\ req[t] \in Request /\ TxInv(t)
      /\ req[t].lines \in Seq([product : Product, qty : Nat \ {0}])
  BY <1>0, <1>1, AtLemma, RequestFields DEF Open, Outcome, IInv
<1>3. (\A l \in N : l.order = o) /\ (N # {} <=> req[t].lines # <<>>)
  BY <1>2, NewLinesLemma
<1>4. \A p \in Order : order'[p].status = order[p].status
  <2>1. CASE req[t].header = Keep
    BY <1>1, <2>1
  <2>2. CASE req[t].header # Keep
    BY <1>1, <1>2, <2>2 DEF IInv, TypeOK
  <2> QED
    BY <2>1, <2>2
<1>5. /\ ~Referenced(t) /\ order[o].status # "absent"
      /\ req[t].lines = <<>> => mem[t].got = {}
      /\ req[t].lines # <<>> => order[o].status # "deleted"
  BY <1>0, <1>1, <1>2 DEF TxInv, EditOK, Open, Outcome, DraftOp
<1>6. \A l \in mem[t].got : l.order = o
  BY <1>0, <1>2 DEF TxInv, LinesHeld
<1>7. CASE req[t].lines = <<>>
  <2>1. lines' = lines
    BY <1>1, <1>3, <1>5, <1>7
  <2> QED
    BY <1>1, <1>4, <2>1, StatusKept DEF Lifecycle!purchaseVars
<1>8. CASE req[t].lines # <<>>
  <2>1. order[o].status \in {"draft", "received"}
    BY <1>2, <1>5, <1>8 DEF IInv, TypeOK
  <2>2. Lifecycle!OnlyLinesOf(o) /\ Lifecycle!LinesOf(o)' # {}
    <3>1. Lifecycle!OnlyLinesOf(o)
      BY <1>1, <1>3, <1>6 DEF Lifecycle!OnlyLinesOf
    <3>2. PICK l \in N : l.order = o
      BY <1>3, <1>8
    <3> QED
      BY <1>1, <3>1, <3>2 DEF Lifecycle!LinesOf
  <2>3. \A b \in batches : b.line \in lines => b.line \in lines'
    BY <1>1, <1>5 DEF Referenced
  <2>4. Lifecycle!Edit(o)
    BY <1>1, <1>2, <1>4, <2>1, <2>2, <2>3, StatusKept DEF Lifecycle!Edit
  <2> QED
    BY <1>2, <2>4 DEF Lifecycle!Next
<1> QED
  BY <1>7, <1>8

LEMMA DeleteMaps ==
  ASSUME IInv, NEW t \in Tx, CommitDelete(t)
  PROVE  Lifecycle!Next
<1>0. PICK o : o = req[t].order
  OBVIOUS
<1>1. /\ pc[t] = "cascade" /\ mem[t].want = {}
      /\ order' = [order EXCEPT ![o].status = "deleted"]
      /\ lines' = lines \ mem[t].got /\ batches' = batches
  BY <1>0 DEF CommitDelete
<1>2. o \in Order /\ TxInv(t)
  BY <1>0, <1>1, AtLemma DEF Open, Outcome, IInv
<1>3. order[o].status = "draft" /\ mem[t].got = LinesOf(o)
  BY <1>0, <1>1, <1>2 DEF TxInv, DraftOwned, OwnsDraft
<1>4. Lifecycle!Moves(o, "draft", "deleted")
  <2>1. order'[o].status = "deleted"
        /\ \A p \in Order \ {o} : order'[p].status = order[p].status
    BY <1>1, <1>2 DEF IInv, TypeOK
  <2> QED
    BY <1>2, <1>3, <2>1, MoveMaps
<1>5. Lifecycle!OnlyLinesOf(o) /\ Lifecycle!LinesOf(o)' = {}
  BY <1>1, <1>3 DEF LinesOf, Lifecycle!OnlyLinesOf, Lifecycle!LinesOf
<1>6. Lifecycle!Delete(o)
  BY <1>1, <1>4, <1>5 DEF Lifecycle!Delete
<1> QED
  BY <1>2, <1>6 DEF Lifecycle!Next

LEMMA StepMaps ==
  ASSUME IInv, CodeInv, [Next]_vars
  PROVE  [Lifecycle!Next]_(Lifecycle!purchaseVars)
<1>1. ASSUME UNCHANGED tables PROVE UNCHANGED Lifecycle!purchaseVars
  BY <1>1 DEF tables, Lifecycle!purchaseVars
<1>2. CASE UNCHANGED vars
  BY <1>1, <1>2 DEF vars
<1>3. ASSUME NEW t \in Tx,
             Start(t) \/ CreateOrder(t) \/ Step(t) \/ DeadlockVictim(t) \/ Crash(t)
      PROVE  [Lifecycle!Next]_(Lifecycle!purchaseVars)
  BY <1>1, <1>3, TableWriters, CreateMaps, ReceiveMaps, EnterMaps, RecodeMaps, EditMaps,
     DeleteMaps
<1> QED
  BY <1>2, <1>3 DEF Next, Quiescent

LEMMA InitMaps == Init => Lifecycle!Init
<1> SUFFICES ASSUME Init PROVE Lifecycle!Init
  OBVIOUS
<1>1. \A o \in Order :
        /\ order[o].status \in {"absent", "draft"}
        /\ order[o].status = "draft" <=> \E l \in lines : l.order = o
  BY DEF Init
<1>2. lines \in SUBSET Line /\ batches = {}
  BY InitLemma DEF Init, IInv, TypeOK
<1>3. \A o \in Order : Lifecycle!LinesOf(o) # {} <=> order[o].status = "draft"
  BY <1>1 DEF Lifecycle!LinesOf
<1> QED
  BY <1>1, <1>2, <1>3 DEF Lifecycle!Init

(* Receipts, edits, deletions, manual entries and new codes beside each    *)
(* other, deadlock victims and crashes look like single steps of           *)
(* PurchaseLifecycle (services of apps/procurement, create_manual_batch,   *)
(* update_batch_metadata).                                                 *)
THEOREM TransactionsImplementPurchases == Spec => ImplementsPurchases
<1>1. IInv /\ CodeInv /\ [Next]_vars => [Lifecycle!Next]_(Lifecycle!purchaseVars)
  BY StepMaps
<1> QED
  BY <1>1, InitMaps, ProcurementInvariant, CodesUnique, PTL
  DEF Spec, ImplementsPurchases, Lifecycle!Spec

===============================================================================
