-------------------------- MODULE SalesOrders_proofs --------------------------
(***************************************************************************)
(* Proofs about sales orders: what a committed order sold is complete, is  *)
(* in the ledger once, is returned once, and the stock adds up; and the    *)
(* transactions implement the life cycle of OrderLifecycle.  OInv is       *)
(* inductive beside IInv of SalesLedger_proofs.  At the end, the claims of *)
(* SalesHistory about decisions made on stale reads, from PastInv.         *)
(***************************************************************************)
EXTENDS SalesLedger_proofs, SalesHistory, Quantities_proofs

(* A commit from its lock on the header on. *)
Committing(t) ==
  /\ pc[t] \in {"read_lines", "fefo", "fefo_lock", "validate", "insert_sales"}
  /\ req[t].op \in CommitOp

Voiding(t) == pc[t] \in {"read_allocations", "insert_reversals"}

(* An update from its UPDATE of the header on. *)
Editing(t) ==
  /\ pc[t] \in {"select_lines", "delete_lines", "commit_draft"}
  /\ req[t].op = "update"

Deleting(t) == pc[t] = "commit_draft" /\ req[t].op = "delete"

(* These hold the header, so that nobody else changes the order. *)
OwnsOrder(t) == Committing(t) \/ Voiding(t) \/ Editing(t) \/ Deleting(t)

OrderOwned(t) ==
  LET o == req[t].order IN
  /\ Committing(t) => Holds(t, OrderRow(o), "FOR UPDATE") /\ order[o].status = "draft"
  /\ Voiding(t) => /\ Holds(t, OrderRow(o), "FOR UPDATE")
                   /\ order[o].status = "committed" /\ ~order[o].voided
  /\ Editing(t) => Holds(t, OrderRow(o), "NO KEY UPDATE") /\ order[o].status # "deleted"
  /\ Deleting(t) => Holds(t, OrderRow(o), "FOR UPDATE") /\ LinesOf(o) \subseteq mem[t].lost

(* What a transaction has not come to yet. *)
NothingYet(t) ==
  /\ pc[t] \notin {"fefo", "fefo_lock", "validate", "insert_sales"} => mem[t].plan = <<>>
  /\ pc[t] # "insert_sales" => mem[t].ins = 0
  /\ pc[t] # "insert_reversals" => mem[t].owed = {} /\ mem[t].paid = {}
  /\ pc[t] \notin {"delete_lines", "delete_header", "commit_draft"} => mem[t].lost = {}

(* The walk and the validation leave no line short. *)
LineCovered(t, l) ==
  IF pc[t] = "fefo_lock" /\ l = mem[t].line
  THEN mem[t].need >= 0 /\ PlannedFor(t, l) + mem[t].need = l.qty
  ELSE IF l \in mem[t].want THEN \A a \in Planned(t) : a.line # l
  ELSE PlannedFor(t, l) = l.qty

PlanCovers(t) ==
  LET ordered == LinesOf(req[t].order) IN
  Committing(t) =>
    /\ pc[t] \in {"fefo", "fefo_lock"} =>
         /\ mem[t].want \subseteq ordered
         /\ \A l \in ordered : LineCovered(t, l)
    /\ pc[t] = "fefo_lock" => mem[t].line \in ordered \ mem[t].want
    /\ pc[t] = "validate" => mem[t].want = ordered
    /\ pc[t] = "insert_sales" => \A l \in ordered : PlannedFor(t, l) = l.qty
    /\ \A a \in Planned(t) : a.line \in ordered

(* The rows inserted so far, and the movements beside them. *)
Inserted(t) == {mem[t].plan[i] : i \in 1..mem[t].ins}

PlanNumbered(t) ==
  /\ \A i \in DOMAIN mem[t].plan : mem[t].plan[i].n = i /\ mem[t].plan[i].tx = t
  /\ mem[t].ins <= Len(mem[t].plan)
  /\ \A a \in Inserted(t) : Holds(t, LineRow(a.line), "KEY SHARE")

OfBatch(S, b) == {a \in S : a.batch = b}

PendingAddsUp(t) ==
  \A b \in Batch :
    mem[t].pend[b] = TotalQty(OfBatch(mem[t].paid, b)) - TotalQty(OfBatch(Inserted(t), b))

OwedOrPaid(t) ==
  pc[t] = "insert_reversals" =>
    /\ mem[t].owed \cup mem[t].paid = AllocationsOf(req[t].order)
    /\ mem[t].owed \cap mem[t].paid = {}

(* An edit or a deletion past its look at the status. *)
Drafting(t) ==
  pc[t] \in {"update_header", "select_lines", "delete_lines", "delete_header", "commit_draft"}

(* Lines to delete are held, and replaced only by lines. *)
LinesLost(t) ==
  LET o == req[t].order IN
  /\ Drafting(t) => order[o].status # "absent"
  /\ \A l \in mem[t].lost : l.order = o /\ Holds(t, LineRow(l), "FOR UPDATE")
  /\ pc[t] = "delete_lines" => \A l \in mem[t].want : l.order = o
  /\ Editing(t) =>
       /\ pc[t] # "commit_draft" => req[t].lines # <<>>
       /\ pc[t] = "delete_lines" => mem[t].want \cup mem[t].lost = LinesOf(o)
       /\ pc[t] = "commit_draft" =>
            mem[t].lost = IF req[t].lines = <<>> THEN {} ELSE LinesOf(o)
  /\ pc[t] \in {"delete_header", "commit_draft"} => ~Referenced(t)

(* A recall about to be written still changes the flag. *)
RecallPending(t) ==
  pc[t] = "write_batch" =>
    /\ req[t].op = "recall" => ~batch[req[t].batch].recalled
    /\ req[t].op = "un_recall" => batch[req[t].batch].recalled

TxOrder(t) ==
  /\ OrderOwned(t) /\ NothingYet(t) /\ PlanCovers(t) /\ PlanNumbered(t)
  /\ PendingAddsUp(t) /\ OwedOrPaid(t) /\ LinesLost(t) /\ RecallPending(t)

(* The tables: rows come from transactions that have committed. *)
RowsCommitted ==
  /\ IsFiniteSet(allocations) /\ IsFiniteSet(movements)
  /\ \A a \in allocations : Answered(a.tx)
  /\ \A m \in movements : /\ Answered(m.tx)
                          /\ m.kind \in SaleKind => m.ref \in allocations
  /\ \A o \in Order : order[o].voided => order[o].status = "committed"

TablesOK ==
  /\ RowsCommitted
  /\ LinesFullyAllocated /\ LinesFollowOrder /\ LinesOfOneRequest
  /\ EachAllocationReversedOnce /\ StockReconciles /\ RecallFlagMatchesLedger

OInv == TablesOK /\ \A t \in Tx : TxOrder(t)

-------------------------------------------------------------------------------
(* Steps and the transactions that do not take them *)

(* What u relies on while another transaction writes the tables. *)
Undisturbed(u) ==
  LET o == req[u].order IN
  /\ OwnsOrder(u) =>
       /\ order'[o].status = order[o].status /\ order'[o].voided = order[o].voided
       /\ {l \in lines' : l.order = o} = LinesOf(o)
       /\ {a \in allocations' : a.line.order = o} = AllocationsOf(o)
  /\ Drafting(u) /\ order[o].status # "absent" => order'[o].status # "absent"
  /\ \A a \in allocations' \ allocations : a.line \notin mem[u].lost
  /\ pc[u] = "write_batch" => batch'[req[u].batch] = batch[req[u].batch]

(* A step of another transaction. *)
Passive(u) ==
  /\ pc'[u] = pc[u] /\ req'[u] = req[u] /\ mem'[u] = mem[u]
  /\ \A r, m : Holds(u, r, m) => Holds(u, r, m)'

LEMMA PassiveLemma ==
  ASSUME NEW u \in Tx, TxOrder(u), Passive(u), Undisturbed(u)
  PROVE  TxOrder(u)'
<1> PICK o : o = req[u].order
  OBVIOUS
<1>1. o = req'[u].order /\ pc'[u] = pc[u] /\ req'[u] = req[u] /\ mem'[u] = mem[u]
  BY DEF Passive
<1>2. /\ Committing(u)' = Committing(u) /\ Voiding(u)' = Voiding(u)
      /\ Editing(u)' = Editing(u) /\ Deleting(u)' = Deleting(u)
  BY <1>1 DEF Committing, Voiding, Editing, Deleting
<1>3. OwnsOrder(u) =>
       /\ order'[o].status = order[o].status /\ order'[o].voided = order[o].voided
       /\ LinesOf(o)' = LinesOf(o) /\ AllocationsOf(o)' = AllocationsOf(o)
  BY DEF Undisturbed, LinesOf, AllocationsOf
<1>4. OrderOwned(u)'
  BY <1>1, <1>2, <1>3 DEF TxOrder, OrderOwned, OwnsOrder, Passive
<1>5. NothingYet(u)'
  BY <1>1 DEF TxOrder, NothingYet
<1>6. Planned(u)' = Planned(u) /\ Inserted(u)' = Inserted(u)
  BY <1>1 DEF Planned, Inserted
<1>7. PlanCovers(u)'
  <2>1. \A l : PlannedFor(u, l)' = PlannedFor(u, l)
    BY <1>6 DEF PlannedFor
  <2>2. ASSUME NEW l, LineCovered(u, l) PROVE LineCovered(u, l)'
    BY <1>1, <1>6, <2>1, <2>2 DEF LineCovered
  <2> QED
    BY <1>1, <1>2, <1>3, <1>6, <2>1, <2>2 DEF TxOrder, PlanCovers, OwnsOrder
<1>8. PlanNumbered(u)'
  BY <1>1, <1>6 DEF TxOrder, PlanNumbered, Passive
<1>9. PendingAddsUp(u)'
  BY <1>1, <1>6 DEF TxOrder, PendingAddsUp
<1>10. OwedOrPaid(u)'
  BY <1>1, <1>3 DEF TxOrder, OwedOrPaid, OwnsOrder, Voiding
<1>11. LinesLost(u)'
  <2>1. Referenced(u)' => Referenced(u)
    BY <1>1 DEF Referenced, Undisturbed
  <2>2. Drafting(u)' => Drafting(u) /\ (order[o].status # "absent" => order'[o].status # "absent")
    BY <1>1 DEF Undisturbed, Drafting
  <2>3. \A l \in mem[u].lost : l.order = o /\ Holds(u, LineRow(l), "FOR UPDATE")'
    BY DEF TxOrder, LinesLost, Passive
  <2> QED
    BY <1>1, <1>2, <1>3, <2>1, <2>2, <2>3 DEF TxOrder, LinesLost, OwnsOrder
<1>12. RecallPending(u)'
  BY <1>1 DEF TxOrder, RecallPending, Undisturbed
<1> QED
  BY <1>4, <1>5, <1>7, <1>8, <1>9, <1>10, <1>11, <1>12 DEF TxOrder

(* A transaction that is over. *)
LEMMA FinishedTx ==
  ASSUME NEW t \in Tx, pc'[t] \in Outcome, mem'[t] = Blank
  PROVE  TxOrder(t)'
<1>1. PICK m : m = mem'[t]
  OBVIOUS
<1>2. /\ m.plan = <<>> /\ m.ins = 0 /\ m.lost = {}
      /\ m.owed = {} /\ m.paid = {} /\ m.pend = NoStock
  BY <1>1 DEF Blank
<1>3. OrderOwned(t)' /\ PlanCovers(t)' /\ OwedOrPaid(t)' /\ RecallPending(t)'
  BY DEF OrderOwned, PlanCovers, OwedOrPaid, RecallPending, Committing, Voiding, Editing,
         Deleting, Outcome
<1>4. NothingYet(t)'
  BY <1>1, <1>2 DEF NothingYet, Outcome
<1>5. Inserted(t)' = {}
  BY <1>1, <1>2 DEF Inserted
<1>6. PlanNumbered(t)'
  BY <1>1, <1>2, <1>5 DEF PlanNumbered
<1>7. PendingAddsUp(t)'
  <2>1. SUFFICES ASSUME NEW b \in Batch
                 PROVE  m.pend[b] = TotalQty(OfBatch(m.paid, b))
                                      - TotalQty(OfBatch(Inserted(t)', b))
    BY <1>1 DEF PendingAddsUp
  <2>2. OfBatch(m.paid, b) = {} /\ OfBatch(Inserted(t)', b) = {}
    BY <1>2, <1>5 DEF OfBatch
  <2>3. m.pend[b] = 0
    BY <1>2 DEF NoStock
  <2> QED
    BY <2>2, <2>3, TotalEmpty
<1>8. LinesLost(t)'
  BY <1>1, <1>2 DEF LinesLost, Drafting, Editing, Outcome
<1> QED
  BY <1>3, <1>4, <1>6, <1>7, <1>8 DEF TxOrder

(* The tables stay as they are, and so does what they owe to transactions  *)
(* that have committed.                                                    *)
LEMMA SameTables ==
  ASSUME IInv, TablesOK, NEW t \in Tx, ~Answered(t), UNCHANGED tables,
         \A u \in Tx \ {t} : pc'[u] = pc[u]
  PROVE  TablesOK'
<1>1. \A u \in Tx : Answered(u) => Answered(u)'
  BY DEF Answered
<1>2. RowsCommitted'
  <2>1. \A a \in allocations : a.tx \in Tx
    BY DEF IInv, TypeOK, Allocation
  <2>2. \A m \in movements : m.tx \in Tx
    BY DEF IInv, TypeOK, Movement
  <2> QED
    BY <1>1, <2>1, <2>2 DEF TablesOK, RowsCommitted, tables
<1>3. LinesFullyAllocated' /\ LinesFollowOrder' /\ LinesOfOneRequest'
  BY DEF TablesOK, tables, LinesFullyAllocated, LinesFollowOrder, LinesOfOneRequest, LinesOf
<1>4. EachAllocationReversedOnce' /\ StockReconciles' /\ RecallFlagMatchesLedger'
  BY DEF TablesOK, tables, EachAllocationReversedOnce, StockReconciles,
         RecallFlagMatchesLedger
<1> QED
  BY <1>2, <1>3, <1>4 DEF TablesOK

LEMMA QuietStep ==
  ASSUME IInv, OInv, NEW t \in Tx, ~Answered(t), UNCHANGED tables,
         \A u \in Tx \ {t} : Passive(u), TxOrder(t)'
  PROVE  OInv'
<1>1. TablesOK'
  BY SameTables DEF OInv, Passive
<1>2. ASSUME NEW u \in Tx \ {t} PROVE TxOrder(u)'
  <2>1. Undisturbed(u)
    BY DEF Undisturbed, tables, LinesOf, AllocationsOf
  <2> QED
    BY <2>1, PassiveLemma DEF OInv
<1> QED
  BY <1>1, <1>2 DEF OInv

(* COMMIT and ROLLBACK, as far as transactions are concerned. *)
LEMMA Finished ==
  ASSUME IInv, OInv, NEW t \in Tx, NEW oc \in Outcome, Finish(t, oc), UNCHANGED req,
         pc[t] # "idle"
  PROVE  TxOrder(t)' /\ \A u \in Tx \ {t} : Passive(u)
<1>1. pc'[t] \in Outcome /\ mem'[t] = Blank
  BY DEF Finish, Goto, IInv, TypeOK
<1>2. TxOrder(t)'
  BY <1>1, FinishedTx
<1> QED
  BY <1>2, FinishLemma DEF Passive

LEMMA OrderRollback ==
  ASSUME IInv, OInv, NEW t \in Tx, Rollbacks(t)
  PROVE  OInv'
<1>1. Open(t)
  BY OpenNow DEF Rollbacks, InsufficientStock, PreviewDone, OrderRefused, VoidedAlready,
         InvalidAllocation, NotDraft, HeaderGone, LinesReferenced, HeaderReferenced,
         BatchUnchanged, WriteOffExceedsOnHand, SignRefused, CodeTaken, DeadlockVictim, Crash, Open,
         Outcome
<1>2. PICK oc \in Outcome : Rollback(t, oc)
  BY DEF Rollbacks, InsufficientStock, PreviewDone, OrderRefused, VoidedAlready,
         InvalidAllocation, NotDraft, HeaderGone, LinesReferenced, HeaderReferenced,
         BatchUnchanged, WriteOffExceedsOnHand, SignRefused, CodeTaken, DeadlockVictim, Crash, Outcome
<1>3. Finish(t, oc) /\ UNCHANGED <<tables, req>>
  BY <1>2 DEF Rollback
<1>4. ~Answered(t) /\ pc[t] # "idle"
  BY <1>1 DEF Open, Answered
<1> QED
  BY <1>3, <1>4, Finished, QuietStep

-------------------------------------------------------------------------------
(* Steps that leave the tables as they are *)

LEMMA PrivateStep ==
  ASSUME IInv, OInv, NEW t \in Tx, pc[t] \in Statement \cup {"idle"}, UNCHANGED tables,
         \A u \in Tx \ {t} : pc'[u] = pc[u] /\ req'[u] = req[u] /\ mem'[u] = mem[u],
         locks \subseteq locks', TxOrder(t)'
  PROVE  OInv'
<1>1. ~Answered(t)
  BY DEF Answered, Statement, Outcome
<1>2. \A u \in Tx \ {t} : Passive(u)
  BY DEF Passive, Holds
<1> QED
  BY <1>1, <1>2, QuietStep

(* Nothing is planned or inserted. *)
LEMMA PlanStays ==
  ASSUME OInv, NEW t \in Tx, locks \subseteq locks',
         mem'[t].plan = mem[t].plan, mem'[t].ins = mem[t].ins,
         mem'[t].paid = mem[t].paid, mem'[t].pend = mem[t].pend
  PROVE  /\ PlanNumbered(t)' /\ PendingAddsUp(t)'
         /\ Planned(t)' = Planned(t) /\ \A l : PlannedFor(t, l)' = PlannedFor(t, l)
<1>1. Planned(t)' = Planned(t) /\ Inserted(t)' = Inserted(t)
  BY DEF Planned, Inserted
<1>2. PlanNumbered(t) /\ PendingAddsUp(t)
  BY DEF OInv, TxOrder
<1>3. PlanNumbered(t)'
  BY <1>1, <1>2 DEF PlanNumbered, Holds
<1>4. PendingAddsUp(t)'
  BY <1>1, <1>2 DEF PendingAddsUp
<1>5. \A l : PlannedFor(t, l)' = PlannedFor(t, l)
  BY <1>1 DEF PlannedFor
<1> QED
  BY <1>1, <1>3, <1>4, <1>5

LEMMA NothingPlanned ==
  ASSUME NEW t \in Tx, mem[t].plan = <<>>
  PROVE  Planned(t) = {}
  BY DEF Planned

(* Steps of t that only take it on to statement s; the lock it may take    *)
(* and the rows it reads are told by TxOrder'.                             *)
LEMMA StartOrder ==
  ASSUME IInv, OInv, NEW t \in Tx, Start(t) PROVE OInv'
<1>1. PICK r \in Request : /\ pc[t] = "idle" /\ r.op \notin CreateOp
                          /\ req' = [req EXCEPT ![t] = r]
                          /\ Goto(t, FirstStatement(r.op))
                          /\ UNCHANGED <<tables, locks, mem>>
  BY DEF Start
<1>2. pc'[t] \in {"lock_order", "read_order", "lock_batch"} /\ mem'[t] = mem[t]
  BY <1>1 DEF FirstStatement, Goto, IInv, TypeOK
<1>3. TxOrder(t)
  BY DEF OInv
<1>4. NothingYet(t)'
  BY <1>1, <1>2, <1>3 DEF TxOrder, NothingYet
<1>5. PlanNumbered(t)' /\ PendingAddsUp(t)'
  BY <1>1, <1>2, PlanStays
<1>6. OrderOwned(t)' /\ OwedOrPaid(t)' /\ RecallPending(t)' /\ PlanCovers(t)'
  BY <1>2 DEF OrderOwned, OwedOrPaid, RecallPending, PlanCovers,
              Committing, Voiding, Editing, Deleting
<1>7. LinesLost(t)'
  BY <1>2, <1>4 DEF LinesLost, Drafting, Editing, NothingYet
<1>8. TxOrder(t)'
  BY <1>4, <1>5, <1>6, <1>7 DEF TxOrder
<1>9. \A u \in Tx \ {t} : pc'[u] = pc[u] /\ req'[u] = req[u] /\ mem'[u] = mem[u]
  BY <1>1 DEF Goto, IInv, TypeOK
<1> QED
  BY <1>1, <1>8, <1>9, PrivateStep

(* What the steps below have in common: s is the statement t goes to. *)
StepTo(t, s) ==
  /\ pc[t] \in Statement /\ s \in Statement
  /\ pc'[t] = s
  /\ UNCHANGED <<tables, req>> /\ locks \subseteq locks'
  /\ \A u \in Tx \ {t} : pc'[u] = pc[u] /\ mem'[u] = mem[u]

LEMMA StepLemma ==
  ASSUME IInv, OInv, NEW t \in Tx, NEW s, StepTo(t, s), TxOrder(t)'
  PROVE  OInv'
  BY PrivateStep DEF StepTo

(* Batch operations hold no order. *)
LEMMA BatchStep ==
  ASSUME IInv, OInv, NEW t \in Tx, NEW s \in {"read_on_hand", "write_batch"},
         pc[t] \in {"lock_batch", "read_on_hand"},
         StepTo(t, s), mem'[t] = mem[t],
         s = "write_batch" => RecallPending(t)'
  PROVE  OInv'
<1>1. TxOrder(t)
  BY DEF OInv
<1>2. pc'[t] = s /\ req' = req
  BY DEF StepTo
<1>3. NothingYet(t)'
  BY <1>1, <1>2 DEF TxOrder, NothingYet
<1>4. PlanNumbered(t)' /\ PendingAddsUp(t)'
  BY PlanStays DEF StepTo
<1>5. OrderOwned(t)' /\ OwedOrPaid(t)' /\ PlanCovers(t)' /\ RecallPending(t)'
  BY <1>2 DEF OrderOwned, OwedOrPaid, RecallPending, PlanCovers,
              Committing, Voiding, Editing, Deleting
<1>6. LinesLost(t)'
  BY <1>2, <1>3 DEF LinesLost, Drafting, Editing, NothingYet
<1> QED
  BY <1>3, <1>4, <1>5, <1>6, StepLemma DEF TxOrder

LEMMA LockBatchOrder ==
  ASSUME IInv, OInv, NEW t \in Tx, LockBatch(t) PROVE OInv'
<1>1. PICK s \in {"read_on_hand", "write_batch"} :
        pc'[t] = s /\ (s = "read_on_hand" <=> req[t].op = "write_off")
  BY DEF LockBatch, Goto, IInv, TypeOK
<1>2. StepTo(t, s) /\ mem'[t] = mem[t] /\ pc[t] = "lock_batch"
  BY <1>1 DEF LockBatch, Goto, IInv, TypeOK, StepTo, Statement, Acquire, AcquireAll
<1>3. RecallPending(t)'
  BY <1>1 DEF LockBatch, MayChange, MayChangeNothing, RecallPending, tables
<1> QED
  BY <1>2, <1>3, BatchStep

LEMMA CheckOnHandOrder ==
  ASSUME IInv, OInv, NEW t \in Tx, CheckOnHand(t) PROVE OInv'
<1>1. /\ StepTo(t, "write_batch") /\ mem'[t] = mem[t] /\ pc[t] = "read_on_hand"
  BY DEF CheckOnHand, Goto, IInv, TypeOK, StepTo, Statement
<1>2. req[t].op = "write_off" /\ req' = req
  BY OpenNow DEF CheckOnHand, Statement, OpsAt
<1>3. RecallPending(t)'
  BY <1>2 DEF RecallPending
<1> QED
  BY <1>1, <1>3, BatchStep

LEMMA LockOrderOrder ==
  ASSUME IInv, OInv, NEW t \in Tx, LockOrder(t) PROVE OInv'
<1> PICK o : o = req[t].order
  OBVIOUS
<1>1. /\ pc[t] = "lock_order" /\ req[t].op \in SaleOp /\ req[t] \in Request
      /\ o \in Order
  BY OpenNow, RequestFields DEF LockOrder, Statement, OpsAt
<1>2. PICK s \in {"read_allocations", "read_lines"} :
        pc'[t] = s /\ (s = "read_allocations" <=> req[t].op = "void")
  BY DEF LockOrder, Goto, IInv, TypeOK
<1>3. StepTo(t, s) /\ mem'[t] = mem[t]
  BY <1>2 DEF LockOrder, Goto, IInv, TypeOK, StepTo, Statement, Acquire, AcquireAll
<1>4. Holds(t, OrderRow(o), "FOR UPDATE")'
  BY <1>1, AcquireLemma, RowTypes DEF LockOrder, IInv, TypeOK
<1>5. req' = req /\ order' = order
  BY DEF LockOrder, tables
<1>6. NothingYet(t)' /\ mem[t].plan = <<>>
  BY <1>1, <1>2, <1>3 DEF OInv, TxOrder, NothingYet
<1>7. PlanNumbered(t)' /\ PendingAddsUp(t)' /\ Planned(t)' = {}
  BY <1>3, <1>6, PlanStays, NothingPlanned DEF StepTo
<1>8. OrderOwned(t)'
  BY <1>1, <1>2, <1>4, <1>5 DEF LockOrder, OrderOwned, Committing, Voiding, Editing,
     Deleting, SaleOp, CommitOp
<1>9. PlanCovers(t)'
  BY <1>2, <1>7 DEF PlanCovers
<1>10. OwedOrPaid(t)' /\ RecallPending(t)'
  BY <1>2 DEF OwedOrPaid, RecallPending
<1>11. LinesLost(t)'
  BY <1>2, <1>6 DEF LinesLost, Drafting, Editing, NothingYet
<1> QED
  BY <1>3, <1>6, <1>7, <1>8, <1>9, <1>10, <1>11, StepLemma DEF TxOrder

-------------------------------------------------------------------------------
(* The walk and the validation *)

LEMMA PlanFinite ==
  ASSUME IInv, NEW t \in Tx
  PROVE  /\ Planned(t) \subseteq Allocation /\ IsFiniteSet(Planned(t))
         /\ mem[t].plan \in Seq(Allocation)
<1>1. mem[t].plan \in Seq(Allocation)
  BY DEF IInv, TypeOK, Mem
<1>2. IsFiniteSet(Planned(t))
  BY <1>1, FiniteRange DEF Planned
<1> QED
  BY <1>1, <1>2, ElementOfSeq DEF Planned

(* Allocations, and any rows chosen among them, have quantities to add up. *)
LEMMA AllocationsAddUp ==
  ASSUME NEW S \in SUBSET Allocation
  PROVE  Quantified(S) /\ \A x \in S : x.qty \in Nat \ {0}
  BY DEF Quantified, Allocation

(* A plan grows by an allocation to one line. *)
LEMMA PlanGrows ==
  ASSUME IInv, OInv, NEW t \in Tx, NEW a \in Allocation,
         a.n = Len(mem[t].plan) + 1, a.tx = t,
         mem'[t].plan = Append(mem[t].plan, a), mem'[t].ins = mem[t].ins,
         mem[t].ins = 0
  PROVE  /\ Planned(t)' = Planned(t) \cup {a}
         /\ PlannedFor(t, a.line)' = PlannedFor(t, a.line) + a.qty
         /\ \A l : l # a.line => PlannedFor(t, l)' = PlannedFor(t, l)
         /\ PlanNumbered(t)'
<1> PICK p \in Seq(Allocation) : p = mem[t].plan
  BY PlanFinite
<1>1. PlanNumbered(t)
  BY DEF OInv, TxOrder
<1>2. /\ DOMAIN p = 1..Len(p) /\ Len(p) \in Nat
      /\ DOMAIN Append(p, a) = 1..(Len(p) + 1) /\ Len(Append(p, a)) = Len(p) + 1
      /\ \A i \in DOMAIN p : Append(p, a)[i] = p[i]
      /\ Append(p, a)[Len(p) + 1] = a
  OBVIOUS
<1>3. Planned(t) = {p[i] : i \in DOMAIN p}
      /\ Planned(t)' = {Append(p, a)[i] : i \in DOMAIN Append(p, a)}
  BY DEF Planned
<1>4. Planned(t)' = Planned(t) \cup {a}
  <2>1. ASSUME NEW i \in DOMAIN Append(p, a)
        PROVE  Append(p, a)[i] \in Planned(t) \cup {a}
    BY <1>2, <1>3
  <2>2. ASSUME NEW i \in DOMAIN p PROVE p[i] \in Planned(t)'
    BY <1>2, <1>3
  <2>3. a \in Planned(t)'
    BY <1>2, <1>3
  <2>4. Planned(t)' \subseteq Planned(t) \cup {a}
    BY <1>3, <2>1
  <2>5. Planned(t) \subseteq Planned(t)'
    BY <1>3, <2>2
  <2> QED
    BY <2>3, <2>4, <2>5
<1>5. a \notin Planned(t)
  <2>1. ASSUME NEW i \in DOMAIN p PROVE p[i].n # a.n
    <3>1. p[i].n = i
      BY <1>1 DEF PlanNumbered
    <3> QED
      BY <1>2, <3>1
  <2> QED
    BY <1>3, <2>1
<1>6. PlannedFor(t, a.line)' = PlannedFor(t, a.line) + a.qty
  <2>1. PICK F : F = {x \in Planned(t) : x.line = a.line}
    OBVIOUS
  <2>2. {x \in Planned(t)' : x.line = a.line} = F \cup {a}
    BY <1>4, <2>1
  <2>3. IsFiniteSet(F) /\ Quantified(F \cup {a}) /\ a \notin F
    <3>1. IsFiniteSet(F) /\ F \cup {a} \subseteq Allocation /\ a \notin F
      BY <1>5, <2>1, PlanFinite, FS_Subset
    <3> QED
      BY <3>1, AllocationsAddUp
  <2>4. TotalQty(F \cup {a}) = TotalQty(F) + a.qty
    BY <2>3, TotalAdd
  <2> QED
    BY <2>1, <2>2, <2>4 DEF PlannedFor
<1>7. ASSUME NEW l, l # a.line PROVE PlannedFor(t, l)' = PlannedFor(t, l)
  <2>1. {x \in Planned(t)' : x.line = l} = {x \in Planned(t) : x.line = l}
    BY <1>4, <1>7
  <2> QED
    BY <2>1 DEF PlannedFor
<1>8. PlanNumbered(t)'
  <2>1. ASSUME NEW i \in DOMAIN Append(p, a)
        PROVE  Append(p, a)[i].n = i /\ Append(p, a)[i].tx = t
    <3>1. CASE i \in DOMAIN p
      <4>1. Append(p, a)[i] = p[i]
        BY <1>2, <3>1
      <4>2. p[i].n = i /\ p[i].tx = t
        BY <1>1, <3>1 DEF PlanNumbered
      <4> QED
        BY <4>1, <4>2
    <3>2. CASE i = Len(p) + 1
      BY <1>2, <3>2
    <3> QED
      BY <1>2, <3>1, <3>2
  <2>2. Inserted(t)' = {}
    BY DEF Inserted
  <2> QED
    BY <1>2, <2>1, <2>2 DEF PlanNumbered
<1> QED
  BY <1>4, <1>6, <1>7, <1>8

(* A step of a walk or a validation. *)
LEMMA WalkStep ==
  ASSUME IInv, OInv, NEW t \in Tx, NEW s \in {"fefo", "fefo_lock", "validate", "insert_sales"},
         pc[t] \in {"read_lines", "fefo", "fefo_lock", "validate"},
         StepTo(t, s), NEW m, m = mem[t], NEW x, x = mem'[t],
         x.lost = m.lost, x.owed = m.owed, x.paid = m.paid, x.ins = m.ins, x.pend = m.pend,
         Committing(t) => PlanCovers(t)', PlanNumbered(t)'
  PROVE  OInv'
<1>1. /\ m.lost = {} /\ m.owed = {} /\ m.paid = {} /\ m.ins = 0
  BY DEF OInv, TxOrder, NothingYet
<1>2. pc'[t] = s /\ req' = req /\ order' = order
  BY DEF StepTo, tables
<1>3. NothingYet(t)'
  BY <1>1, <1>2 DEF NothingYet
<1>4. PendingAddsUp(t)'
  <2>1. Inserted(t) = {} /\ Inserted(t)' = {}
    BY <1>1 DEF Inserted
  <2>2. PendingAddsUp(t)
    BY DEF OInv, TxOrder
  <2> QED
    BY <2>1, <2>2 DEF PendingAddsUp
<1>5. Committing(t)' => Committing(t)
  BY <1>2 DEF Committing
<1>6. OrderOwned(t)'
  <2>1. OrderOwned(t)
    BY DEF OInv, TxOrder
  <2> QED
    BY <1>2, <1>5, <2>1 DEF OrderOwned, Voiding, Editing, Deleting, StepTo, Holds
<1>7. PlanCovers(t)'
  BY <1>5 DEF PlanCovers
<1>8. OwedOrPaid(t)' /\ RecallPending(t)'
  BY <1>2 DEF OwedOrPaid, RecallPending
<1>9. LinesLost(t)'
  BY <1>1, <1>2 DEF LinesLost, Drafting, Editing
<1> QED
  BY <1>3, <1>4, <1>6, <1>7, <1>8, <1>9, StepLemma DEF TxOrder

LEMMA ReadLinesOrder ==
  ASSUME IInv, OInv, NEW t \in Tx, ReadLines(t) PROVE OInv'
<1> PICK o : o = req[t].order
  OBVIOUS
<1>1. PICK s \in {"validate", "fefo"} : pc'[t] = s
  BY DEF ReadLines, Goto, IInv, TypeOK
<1>2. StepTo(t, s) /\ pc[t] = "read_lines"
  BY <1>1 DEF ReadLines, Goto, IInv, TypeOK, StepTo, Statement
<1>3. mem'[t] = [mem[t] EXCEPT !.want = LinesOf(o)]
  BY DEF ReadLines, IInv, TypeOK
<1> PICK m \in Mem : m = mem[t]
  BY DEF IInv, TypeOK
<1> PICK x : x = mem'[t]
  OBVIOUS
<1>4. /\ x.lost = m.lost /\ x.owed = m.owed /\ x.paid = m.paid /\ x.ins = m.ins
      /\ x.pend = m.pend /\ x.plan = m.plan /\ x.want = LinesOf(o) /\ m.plan = <<>>
  BY <1>2, <1>3 DEF Mem, OInv, TxOrder, NothingYet
<1>5. PlanNumbered(t)' /\ Planned(t)' = {}
  BY <1>2, <1>4, PlanStays, NothingPlanned DEF StepTo
<1>6. PlanCovers(t)'
  <2>1. LinesOf(o)' = LinesOf(o) /\ req' = req
    BY <1>2 DEF LinesOf, StepTo, tables
  <2> QED
    BY <1>1, <1>4, <1>5, <2>1 DEF PlanCovers, LineCovered
<1> QED
  BY <1>2, <1>4, <1>5, <1>6, WalkStep

LEMMA FefoSelectOrder ==
  ASSUME IInv, OInv, NEW t \in Tx, FefoSelect(t) PROVE OInv'
<1> PICK o : o = req[t].order
  OBVIOUS
<1> PICK m \in Mem : m = mem[t]
  BY DEF IInv, TypeOK
<1> PICK x : x = mem'[t]
  OBVIOUS
<1>1. PICK l \in m.want : \E s :
        mem' = [mem EXCEPT ![t].want = @ \ {l}, ![t].line = l,
                           ![t].need = l.qty, ![t].cand = s, ![t].seen = onHand]
  BY DEF FefoSelect
<1>2. /\ x.lost = m.lost /\ x.owed = m.owed /\ x.paid = m.paid /\ x.ins = m.ins
      /\ x.pend = m.pend /\ x.plan = m.plan
      /\ x.want = m.want \ {l} /\ x.line = l /\ x.need = l.qty
  BY <1>1 DEF Mem, IInv, TypeOK
<1>3. StepTo(t, "fefo_lock") /\ pc[t] = "fefo"
      /\ \A u \in Tx \ {t} : mem'[u] = mem[u]
  <2>1. \A u \in Tx \ {t} : mem'[u] = mem[u]
    BY <1>1 DEF IInv, TypeOK
  <2> QED
    BY <2>1 DEF FefoSelect, Goto, IInv, TypeOK, StepTo, Statement
<1>4. /\ PlanNumbered(t)' /\ Planned(t)' = Planned(t)
      /\ \A k : PlannedFor(t, k)' = PlannedFor(t, k)
  BY <1>2, <1>3, PlanStays DEF StepTo
<1>5. ASSUME Committing(t) PROVE PlanCovers(t)'
  <2>1. LinesOf(o)' = LinesOf(o) /\ req' = req /\ pc'[t] = "fefo_lock"
    BY <1>3 DEF LinesOf, StepTo, tables
  <2>2. /\ m.want \subseteq LinesOf(o) /\ \A k \in LinesOf(o) : LineCovered(t, k)
        /\ \A a \in Planned(t) : a.line \in LinesOf(o)
    BY <1>3, <1>5 DEF OInv, TxOrder, PlanCovers
  <2>3. l.qty \in Nat
    BY DEF Mem, Line
  <2>4. PlannedFor(t, l) = 0
    <3>1. \A a \in Planned(t) : a.line # l
      BY <1>3, <2>2 DEF LineCovered
    <3>2. {a \in Planned(t) : a.line = l} = {}
      BY <3>1
    <3> QED
      BY <3>2, TotalEmpty DEF PlannedFor
  <2>5. ASSUME NEW k \in LinesOf(o) PROVE LineCovered(t, k)'
    <3>1. CASE k = l
      BY <1>2, <1>4, <2>1, <2>3, <2>4, <3>1 DEF LineCovered
    <3>2. CASE k # l
      BY <1>2, <1>3, <1>4, <2>1, <2>2, <3>2 DEF LineCovered
    <3> QED
      BY <3>1, <3>2
  <2> QED
    BY <1>2, <1>4, <2>1, <2>2, <2>5 DEF PlanCovers
<1> QED
  BY <1>2, <1>3, <1>4, <1>5, WalkStep

LEMMA MinAtMost ==
  ASSUME NEW i \in Int, NEW j \in Int
  PROVE  Min({i, j}) <= j
<1>1. \E x \in {i, j} : \A y \in {i, j} : x <= y
  <2>1. CASE i <= j
    BY <2>1
  <2>2. CASE ~(i <= j)
    BY <2>2
  <2> QED
    BY <2>1, <2>2
<1> QED
  BY <1>1 DEF Min

(* The walk never takes more than the line still needs. *)
LEMMA TakeAtMostNeed ==
  ASSUME IInv, NEW t \in Tx, mem[t].cand # <<>>, Take(t) > 0
  PROVE  Take(t) <= mem[t].need
<1> PICK b : b = Head(mem[t].cand)
  OBVIOUS
<1>1. b \in Batch /\ Sellable(b)
  BY TakeType DEF IInv, TypeOK
<1>2. mem[t].seen[b] - mem[t].usage[b] \in Int /\ mem[t].need \in Int
  BY <1>1 DEF IInv, TypeOK, Mem
<1>3. Take(t) = Min({mem[t].seen[b] - mem[t].usage[b], mem[t].need})
  BY <1>1 DEF Take
<1> QED
  BY <1>2, <1>3, MinAtMost

LEMMA FefoTakeOrder ==
  ASSUME IInv, OInv, NEW t \in Tx, FefoTake(t) PROVE OInv'
<1> PICK o : o = req[t].order
  OBVIOUS
<1> PICK m \in Mem : m = mem[t]
  BY DEF IInv, TypeOK
<1> PICK x : x = mem'[t]
  OBVIOUS
<1>1. /\ pc[t] = "fefo_lock" /\ m.cand # <<>> /\ Take(t) > 0 /\ m.line \in Line
  BY DEF FefoTake, IInv, TxInv, AtOwnStatement
<1>2. PICK b \in Batch, q \in Nat \ {0} : b = Head(m.cand) /\ q = Take(t) /\ q <= m.need
  BY <1>1, TakeType, TakeAtMostNeed
<1>3. PICK a \in Allocation :
        a = [tx |-> t, n |-> Len(m.plan) + 1, line |-> m.line, batch |-> b, qty |-> q]
  <2>1. Len(m.plan) + 1 \in Nat
    BY LenProperties DEF Mem
  <2> QED
    BY <1>1, <2>1 DEF Allocation
<1>4. mem' = [mem EXCEPT ![t].cand = Tail(@), ![t].need = @ - q,
                         ![t].usage[b] = @ + q, ![t].plan = Append(@, a)]
  BY <1>2, <1>3 DEF FefoTake
<1>5. /\ x.lost = m.lost /\ x.owed = m.owed /\ x.paid = m.paid /\ x.ins = m.ins
      /\ x.pend = m.pend /\ x.plan = Append(m.plan, a)
      /\ x.want = m.want /\ x.line = m.line /\ x.need = m.need - q
  BY <1>4 DEF Mem, IInv, TypeOK
<1>6. \A u \in Tx \ {t} : mem'[u] = mem[u]
  BY <1>4 DEF IInv, TypeOK
<1>7. StepTo(t, "fefo_lock")
  BY <1>1, <1>6 DEF FefoTake, StepTo, Statement, Acquire, AcquireAll
<1>8. m.ins = 0 /\ a.n = Len(m.plan) + 1 /\ a.tx = t /\ a.line = m.line /\ a.qty = q
  BY <1>1, <1>3 DEF OInv, TxOrder, NothingYet
<1>9. /\ Planned(t)' = Planned(t) \cup {a}
      /\ PlannedFor(t, m.line)' = PlannedFor(t, m.line) + q
      /\ \A l : l # m.line => PlannedFor(t, l)' = PlannedFor(t, l)
      /\ PlanNumbered(t)'
  BY <1>5, <1>8, PlanGrows
<1>10. ASSUME Committing(t) PROVE PlanCovers(t)'
  <2>1. LinesOf(o)' = LinesOf(o) /\ req' = req /\ pc'[t] = "fefo_lock"
    BY <1>7 DEF LinesOf, StepTo, tables
  <2>2. /\ m.want \subseteq LinesOf(o) /\ \A k \in LinesOf(o) : LineCovered(t, k)
        /\ m.line \in LinesOf(o) \ m.want
        /\ \A y \in Planned(t) : y.line \in LinesOf(o)
    BY <1>1, <1>10 DEF OInv, TxOrder, PlanCovers
  <2>3. ASSUME NEW k \in LinesOf(o) PROVE LineCovered(t, k)'
    <3>1. CASE k = m.line
      <4>1. PlannedFor(t, k) + m.need = k.qty /\ m.need \in Int
        BY <1>1, <2>2, <3>1 DEF LineCovered, Mem
      <4>2. PlannedFor(t, k) \in Int
        <5>1. {y \in Planned(t) : y.line = k} \subseteq Allocation
              /\ IsFiniteSet({y \in Planned(t) : y.line = k})
          BY PlanFinite, FS_Subset
        <5> QED
          BY <5>1, AllocationsAddUp, TotalType DEF PlannedFor
      <4>3. PlannedFor(t, k)' + x.need = k.qty /\ x.need >= 0
        BY <1>2, <1>5, <1>9, <3>1, <4>1, <4>2
      <4> QED
        BY <1>5, <2>1, <3>1, <4>3 DEF LineCovered
    <3>2. CASE k # m.line
      <4>1. CASE k \in m.want
        <5>1. \A y \in Planned(t)' : y.line # k
          BY <1>1, <1>8, <1>9, <2>2, <3>2, <4>1 DEF LineCovered
        <5> QED
          BY <1>5, <2>1, <3>2, <4>1, <5>1 DEF LineCovered
      <4>2. CASE k \notin m.want
        <5>1. PlannedFor(t, k)' = k.qty
          BY <1>1, <1>9, <2>2, <3>2, <4>2 DEF LineCovered
        <5> QED
          BY <1>5, <2>1, <3>2, <4>2, <5>1 DEF LineCovered
      <4> QED
        BY <4>1, <4>2
    <3> QED
      BY <3>1, <3>2
  <2>4. \A y \in Planned(t)' : y.line \in LinesOf(o)
    BY <1>8, <1>9, <2>2
  <2> QED
    BY <1>5, <2>1, <2>2, <2>3, <2>4 DEF PlanCovers
<1> QED
  BY <1>1, <1>5, <1>7, <1>9, <1>10, WalkStep

PlanComplete(t) ==
  \/ pc[t] = "fefo" /\ mem[t].want = {}
  \/ pc[t] = "validate" /\ LineSumsOk(t)

(* A walk that goes on without taking anything. *)
LEMMA WalkOn ==
  ASSUME IInv, OInv, NEW t \in Tx, NEW s \in {"fefo", "fefo_lock", "insert_sales"},
         pc[t] \in {"fefo", "fefo_lock", "validate"}, StepTo(t, s),
         NEW m, m = mem[t], NEW x, x = mem'[t],
         x.lost = m.lost, x.owed = m.owed, x.paid = m.paid, x.ins = m.ins, x.pend = m.pend,
         x.plan = m.plan, x.want = m.want, x.line = m.line, x.need = m.need,
         s \in {"fefo", "fefo_lock"} => pc[t] = "fefo_lock",
         s = "fefo" => m.need = 0,
         s = "insert_sales" => PlanComplete(t)
  PROVE  OInv'
<1> PICK o : o = req[t].order
  OBVIOUS
<1>1. /\ PlanNumbered(t)' /\ Planned(t)' = Planned(t)
      /\ \A l : PlannedFor(t, l)' = PlannedFor(t, l)
  BY PlanStays DEF StepTo
<1>2. ASSUME Committing(t) PROVE PlanCovers(t)'
  <2>1. LinesOf(o)' = LinesOf(o) /\ req' = req /\ pc'[t] = s
    BY DEF LinesOf, StepTo, tables
  <2>2. PlanCovers(t)
    BY DEF OInv, TxOrder
  <2>3. CASE s = "fefo_lock"
    <3>1. ASSUME NEW k \in LinesOf(o) PROVE LineCovered(t, k)'
      <4>1. LineCovered(t, k)
        BY <1>2, <2>2, <2>3 DEF PlanCovers
      <4> QED
        BY <1>1, <2>1, <2>3, <4>1 DEF LineCovered
    <3> QED
      BY <1>1, <1>2, <2>1, <2>2, <2>3, <3>1 DEF PlanCovers
  <2>4. CASE s = "fefo"
    <3>1. ASSUME NEW k \in LinesOf(o) PROVE LineCovered(t, k)'
      <4>1. LineCovered(t, k) /\ m.line \notin m.want
        BY <1>2, <2>2, <2>4 DEF PlanCovers
      <4>2. PlannedFor(t, k) \in Int
        <5>1. {y \in Planned(t) : y.line = k} \subseteq Allocation
              /\ IsFiniteSet({y \in Planned(t) : y.line = k})
          BY PlanFinite, FS_Subset
        <5> QED
          BY <5>1, AllocationsAddUp, TotalType DEF PlannedFor
      <4> QED
        BY <1>1, <2>1, <2>4, <4>1, <4>2 DEF LineCovered
    <3> QED
      BY <1>1, <1>2, <2>1, <2>2, <2>4, <3>1 DEF PlanCovers
  <2>5. CASE s = "insert_sales"
    <3>1. ASSUME NEW k \in LinesOf(o) PROVE PlannedFor(t, k) = k.qty
      BY <1>2, <2>2, <2>5 DEF PlanCovers, LineCovered, LineSumsOk, PlanComplete
    <3> QED
      BY <1>1, <1>2, <2>1, <2>2, <2>5, <3>1 DEF PlanCovers
  <2> QED
    BY <2>3, <2>4, <2>5
<1> QED
  BY <1>1, <1>2, WalkStep

LEMMA FefoPassOrder ==
  ASSUME IInv, OInv, NEW t \in Tx, FefoPass(t) PROVE OInv'
<1> PICK m \in Mem : m = mem[t]
  BY DEF IInv, TypeOK
<1> PICK x : x = mem'[t]
  OBVIOUS
<1>1. x = [m EXCEPT !.cand = Tail(m.cand)] /\ \A u \in Tx \ {t} : mem'[u] = mem[u]
  BY DEF FefoPass, IInv, TypeOK
<1>2. StepTo(t, "fefo_lock") /\ pc[t] = "fefo_lock"
  BY <1>1 DEF FefoPass, StepTo, Statement, Acquire, AcquireAll
<1>3. /\ x.lost = m.lost /\ x.owed = m.owed /\ x.paid = m.paid /\ x.ins = m.ins
      /\ x.pend = m.pend /\ x.plan = m.plan
      /\ x.want = m.want /\ x.line = m.line /\ x.need = m.need
  BY <1>1 DEF Mem
<1> QED
  BY <1>2, <1>3, WalkOn

LEMMA FefoLineDoneOrder ==
  ASSUME IInv, OInv, NEW t \in Tx, FefoLineDone(t) PROVE OInv'
<1> PICK m, x : m = mem[t] /\ x = mem'[t]
  OBVIOUS
<1>1. StepTo(t, "fefo") /\ pc[t] = "fefo_lock" /\ x = m /\ m.need = 0
  BY DEF FefoLineDone, Goto, IInv, TypeOK, StepTo, Statement
<1> QED
  BY <1>1, WalkOn

LEMMA PlanDoneOrder ==
  ASSUME IInv, OInv, NEW t \in Tx, FefoDone(t) \/ ExplicitDone(t) PROVE OInv'
<1> PICK m, x : m = mem[t] /\ x = mem'[t]
  OBVIOUS
<1>1. StepTo(t, "insert_sales") /\ x = m
  BY DEF FefoDone, ExplicitDone, Goto, IInv, TypeOK, StepTo, Statement
<1>2. PlanComplete(t) /\ pc[t] \in {"fefo", "validate"}
  BY DEF FefoDone, ExplicitDone, PlanComplete
<1> QED
  BY <1>1, <1>2, WalkOn

LEMMA ValidateExplicitOrder ==
  ASSUME IInv, OInv, NEW t \in Tx, ValidateExplicit(t) PROVE OInv'
<1> PICK o : o = req[t].order
  OBVIOUS
<1> PICK m \in Mem : m = mem[t]
  BY DEF IInv, TypeOK
<1> PICK x : x = mem'[t]
  OBVIOUS
<1>1. /\ pc[t] = "validate" /\ req[t] \in Request /\ req[t].op = "commit_explicit"
  BY OpenNow DEF ValidateExplicit, Statement, OpsAt
<1>2. PICK e \in [line : Line, batch : Batch, qty : Nat \ {0}] : e = NextExplicit(t)
  <2>1. Len(m.plan) + 1 \in 1..Len(req[t].allocs)
        /\ req[t].allocs \in Seq([line : Line, batch : Batch, qty : Nat \ {0}])
    <3>1. /\ req[t].allocs \in Seq([line : Line, batch : Batch, qty : Nat \ {0}])
          /\ m.plan \in Seq(Allocation) /\ Len(m.plan) < Len(req[t].allocs)
      BY <1>1, RequestFields DEF ValidateExplicit, ExplicitLeft, Mem
    <3> QED
      BY <3>1, LenProperties
  <2> QED
    BY <2>1, ElementOfSeq DEF NextExplicit
<1>3. PICK a \in Allocation : a = [tx |-> t, n |-> Len(m.plan) + 1, line |-> e.line,
                                   batch |-> e.batch, qty |-> e.qty]
  <2>1. Len(m.plan) + 1 \in Nat
    BY LenProperties DEF Mem
  <2> QED
    BY <2>1 DEF Allocation
<1>4. mem' = [mem EXCEPT ![t].usage[e.batch] = @ + e.qty, ![t].plan = Append(@, a)]
  BY <1>2, <1>3 DEF ValidateExplicit
<1>5. /\ x.lost = m.lost /\ x.owed = m.owed /\ x.paid = m.paid /\ x.ins = m.ins
      /\ x.pend = m.pend /\ x.plan = Append(m.plan, a) /\ x.want = m.want
  BY <1>4 DEF Mem, IInv, TypeOK
<1>6. \A u \in Tx \ {t} : mem'[u] = mem[u]
  BY <1>4 DEF IInv, TypeOK
<1>7. StepTo(t, "validate")
  BY <1>1, <1>6 DEF ValidateExplicit, StepTo, Statement
<1>8. m.ins = 0 /\ a.n = Len(m.plan) + 1 /\ a.tx = t /\ a.line = e.line
  BY <1>1, <1>3 DEF OInv, TxOrder, NothingYet
<1>9. Planned(t)' = Planned(t) \cup {a} /\ PlanNumbered(t)'
  BY <1>5, <1>8, PlanGrows
<1>10. ASSUME Committing(t) PROVE PlanCovers(t)'
  <2>1. LinesOf(o)' = LinesOf(o) /\ req' = req /\ pc'[t] = "validate"
    BY <1>7 DEF LinesOf, StepTo, tables
  <2>2. m.want = LinesOf(o) /\ \A y \in Planned(t) : y.line \in LinesOf(o)
    BY <1>1, <1>10 DEF OInv, TxOrder, PlanCovers
  <2>3. e.line \in m.want
    BY <1>2 DEF ValidateExplicit, ExplicitOk
  <2>4. \A y \in Planned(t)' : y.line \in LinesOf(o)
    BY <1>8, <1>9, <2>2, <2>3
  <2> QED
    BY <1>5, <2>1, <2>2, <2>4 DEF PlanCovers
<1> QED
  BY <1>1, <1>5, <1>7, <1>9, <1>10, WalkStep

-------------------------------------------------------------------------------
(* Inserting sales, and reversals *)

LEMMA BatchTotalType ==
  ASSUME NEW S \in SUBSET Allocation, IsFiniteSet(S), NEW b
  PROVE  TotalQty(OfBatch(S, b)) \in Int
<1>1. OfBatch(S, b) \subseteq S
  BY DEF OfBatch
<1>2. OfBatch(S, b) \in SUBSET Allocation /\ IsFiniteSet(OfBatch(S, b))
  BY <1>1, FS_Subset
<1> QED
  BY <1>2, AllocationsAddUp, TotalType

LEMMA BatchTotalGrows ==
  ASSUME NEW S \in SUBSET Allocation, IsFiniteSet(S), NEW a \in Allocation, a \notin S,
         NEW T, T = S \cup {a}, NEW b
  PROVE  TotalQty(OfBatch(T, b))
           = TotalQty(OfBatch(S, b)) + (IF b = a.batch THEN a.qty ELSE 0)
<1> PICK F : F = OfBatch(S, b)
  OBVIOUS
<1>1. IsFiniteSet(F) /\ F \subseteq S /\ TotalQty(F) \in Int
  BY FS_Subset, BatchTotalType DEF OfBatch
<1>2. CASE b = a.batch
  <2>1. OfBatch(T, b) = F \cup {a}
    BY <1>2 DEF OfBatch
  <2>2. a \notin F /\ F \cup {a} \in SUBSET Allocation
    BY <1>1
  <2>3. TotalQty(F \cup {a}) = TotalQty(F) + a.qty
    BY <1>1, <2>2, AllocationsAddUp, TotalAdd
  <2> QED
    BY <1>2, <2>1, <2>3
<1>3. CASE b # a.batch
  <2>1. OfBatch(T, b) = F
    BY <1>3 DEF OfBatch
  <2>2. TotalQty(OfBatch(T, b)) = TotalQty(F)
    BY <2>1
  <2> QED
    BY <1>1, <1>3, <2>2
<1> QED
  BY <1>2, <1>3

LEMMA InsertSaleOrder ==
  ASSUME IInv, OInv, NEW t \in Tx, InsertSale(t) PROVE OInv'
<1> PICK o : o = req[t].order
  OBVIOUS
<1> PICK m \in Mem : m = mem[t]
  BY DEF IInv, TypeOK
<1> PICK x : x = mem'[t]
  OBVIOUS
<1>1. /\ pc[t] = "insert_sales" /\ m.ins < Len(m.plan) /\ m.plan \in Seq(Allocation)
      /\ m.ins \in Nat /\ Len(m.plan) \in Nat /\ DOMAIN m.plan = 1..Len(m.plan)
  <2>1. m.plan \in Seq(Allocation) /\ m.ins \in Nat
    BY DEF Mem
  <2>2. Len(m.plan) \in Nat /\ DOMAIN m.plan = 1..Len(m.plan)
    BY <2>1
  <2> QED
    BY <2>1, <2>2 DEF InsertSale
<1>2. PICK n \in 1..Len(m.plan) : n = m.ins + 1
  BY <1>1
<1>3. PICK a \in Allocation : a = m.plan[n]
  BY <1>1, <1>2, ElementOfSeq
<1>4. AcquireAll(t, {LineRow(a.line), BatchRow(a.batch)}, "KEY SHARE")
  BY <1>2, <1>3 DEF InsertSale
<1>5. mem' = [mem EXCEPT ![t].ins = @ + 1, ![t].pend[a.batch] = @ - a.qty]
  BY <1>2, <1>3 DEF InsertSale
<1>6. /\ x.lost = m.lost /\ x.owed = m.owed /\ x.paid = m.paid /\ x.ins = n
      /\ x.pend = [m.pend EXCEPT ![a.batch] = @ - a.qty] /\ x.plan = m.plan
      /\ x.want = m.want
  BY <1>2, <1>5 DEF Mem, IInv, TypeOK
<1>7. \A u \in Tx \ {t} : mem'[u] = mem[u]
  BY <1>5 DEF IInv, TypeOK
<1>8. StepTo(t, "insert_sales")
  BY <1>1, <1>4, <1>7 DEF InsertSale, StepTo, Statement, AcquireAll
<1>9. /\ m.lost = {} /\ m.owed = {} /\ m.paid = {}
      /\ PlanNumbered(t) /\ PlanCovers(t) /\ PendingAddsUp(t) /\ OrderOwned(t)
  BY <1>1 DEF OInv, TxOrder, NothingYet
<1>10. req' = req /\ order' = order /\ pc'[t] = "insert_sales" /\ LinesOf(o)' = LinesOf(o)
  BY <1>8 DEF StepTo, tables, LinesOf
<1>11. Inserted(t) = {m.plan[i] : i \in 1..m.ins} /\ Inserted(t)' = {m.plan[i] : i \in 1..n}
  BY <1>6 DEF Inserted
<1>12. Inserted(t)' = Inserted(t) \cup {a}
  <2>1. 1..n = (1..m.ins) \cup {n}
    BY <1>1, <1>2
  <2> QED
    BY <1>3, <1>11, <2>1
<1> PICK I, J : I = Inserted(t) /\ J = Inserted(t)'
  OBVIOUS
<1>13. a \notin Inserted(t) /\ Inserted(t) \subseteq Planned(t)
  <2>1. ASSUME NEW i \in 1..m.ins
        PROVE  m.plan[i].n # a.n /\ i \in DOMAIN m.plan
    <3>1. i \in DOMAIN m.plan /\ n \in DOMAIN m.plan /\ i # n
      BY <1>1, <1>2
    <3>2. m.plan[i].n = i /\ m.plan[n].n = n
      BY <1>9, <3>1 DEF PlanNumbered
    <3> QED
      BY <1>3, <3>1, <3>2
  <2> QED
    BY <1>11, <2>1 DEF Planned
<1>14. Inserted(t) \in SUBSET Allocation /\ IsFiniteSet(Inserted(t))
  BY <1>13, PlanFinite, FS_Subset
<1>15. PendingAddsUp(t)'
  <2>1. SUFFICES ASSUME NEW b \in Batch
                 PROVE  x.pend[b] = TotalQty(OfBatch(x.paid, b))
                                      - TotalQty(OfBatch(Inserted(t)', b))
    BY DEF PendingAddsUp
  <2>2. m.pend[b] = 0 - TotalQty(OfBatch(Inserted(t), b))
    <3>1. OfBatch(m.paid, b) = {}
      BY <1>9 DEF OfBatch
    <3> QED
      BY <1>9, <3>1, TotalEmpty DEF PendingAddsUp
  <2>3. TotalQty(OfBatch(x.paid, b)) = 0
    <3>1. OfBatch(x.paid, b) = {}
      BY <1>6, <1>9 DEF OfBatch
    <3> QED
      BY <3>1, TotalEmpty
  <2>4. TotalQty(OfBatch(J, b))
          = TotalQty(OfBatch(I, b)) + (IF b = a.batch THEN a.qty ELSE 0)
    <3>1. I \in SUBSET Allocation /\ IsFiniteSet(I) /\ a \notin I /\ J = I \cup {a}
      BY <1>12, <1>13, <1>14
    <3> QED
      BY <3>1, BatchTotalGrows
  <2>5. TotalQty(OfBatch(I, b)) \in Int /\ a.qty \in Int
    <3>1. I \in SUBSET Allocation /\ IsFiniteSet(I)
      BY <1>14
    <3>2. a.qty \in Int
      BY DEF Allocation
    <3> QED
      BY <3>1, <3>2, BatchTotalType
  <2>6. x.pend[b] = m.pend[b] - (IF b = a.batch THEN a.qty ELSE 0)
    <3>1. a.qty \in Int
      BY DEF Allocation
    <3>2. m.pend \in [Batch -> Int]
      BY DEF Mem
    <3> QED
      BY <1>6, <3>1, <3>2
  <2> QED
    BY <2>2, <2>3, <2>4, <2>5, <2>6
<1>16. PlanNumbered(t)'
  <2>1. a.line \in Line /\ a.batch \in Batch
    BY DEF Allocation
  <2>2. PICK R \in SUBSET Row : R = {LineRow(a.line), BatchRow(a.batch)}
    BY <2>1, RowTypes
  <2>4. Holds(t, LineRow(a.line), "KEY SHARE")' /\ locks \subseteq locks'
    BY <1>4, <2>2, AcquireAllLemma, RowTypes DEF IInv, TypeOK
  <2>3. \A y \in Inserted(t)' : Holds(t, LineRow(y.line), "KEY SHARE")'
    BY <1>9, <1>12, <2>4 DEF PlanNumbered, Holds
  <2>5. x.ins <= Len(x.plan)
    BY <1>2, <1>6
  <2>6. \A i \in DOMAIN x.plan : x.plan[i].n = i /\ x.plan[i].tx = t
    BY <1>6, <1>9 DEF PlanNumbered
  <2> QED
    BY <2>3, <2>5, <2>6 DEF PlanNumbered
<1>17. PlanCovers(t)'
  <2>1. Planned(t)' = Planned(t)
    BY <1>6 DEF Planned
  <2>2. \A l : PlannedFor(t, l)' = PlannedFor(t, l)
    BY <2>1 DEF PlannedFor
  <2> QED
    BY <1>1, <1>9, <1>10, <2>1, <2>2 DEF PlanCovers, Committing
<1>18. OrderOwned(t)'
  BY <1>1, <1>8, <1>9, <1>10 DEF OrderOwned, Committing, Voiding, Editing, Deleting, StepTo, Holds
<1>19. NothingYet(t)' /\ OwedOrPaid(t)' /\ RecallPending(t)'
  BY <1>6, <1>9, <1>10 DEF NothingYet, OwedOrPaid, RecallPending
<1>20. LinesLost(t)'
  BY <1>6, <1>9, <1>10 DEF LinesLost, Drafting, Editing
<1> QED
  BY <1>8, <1>15, <1>16, <1>17, <1>18, <1>19, <1>20, StepLemma DEF TxOrder

(* A step of a void. *)
LEMMA VoidStep ==
  ASSUME IInv, OInv, NEW t \in Tx, Voiding(t), StepTo(t, "insert_reversals"),
         mem'[t].plan = mem[t].plan, mem'[t].ins = mem[t].ins, mem'[t].lost = mem[t].lost,
         PendingAddsUp(t)', OwedOrPaid(t)'
  PROVE  OInv'
<1> PICK m, x : m = mem[t] /\ x = mem'[t]
  OBVIOUS
<1>1. /\ m.lost = {} /\ m.ins = 0 /\ m.plan = <<>> /\ OrderOwned(t)
  BY DEF OInv, TxOrder, NothingYet, Voiding
<1>2. req' = req /\ order' = order /\ pc'[t] = "insert_reversals"
  BY DEF StepTo, tables
<1>3. OrderOwned(t)'
  BY <1>1, <1>2 DEF OrderOwned, Committing, Voiding, Editing, Deleting, StepTo, Holds
<1>4. NothingYet(t)' /\ RecallPending(t)' /\ PlanCovers(t)'
  BY <1>1, <1>2 DEF NothingYet, RecallPending, PlanCovers, Committing
<1>5. PlanNumbered(t)'
  BY <1>1 DEF PlanNumbered, Inserted
<1>6. LinesLost(t)'
  BY <1>1, <1>2 DEF LinesLost, Drafting, Editing
<1> QED
  BY <1>3, <1>4, <1>5, <1>6, StepLemma DEF TxOrder

LEMMA ReadAllocationsOrder ==
  ASSUME IInv, OInv, NEW t \in Tx, ReadAllocations(t) PROVE OInv'
<1> PICK o : o = req[t].order
  OBVIOUS
<1> PICK m \in Mem : m = mem[t]
  BY DEF IInv, TypeOK
<1> PICK x : x = mem'[t]
  OBVIOUS
<1>1. x = [m EXCEPT !.owed = AllocationsOf(o)] /\ \A u \in Tx \ {t} : mem'[u] = mem[u]
  BY DEF ReadAllocations, IInv, TypeOK
<1>2. StepTo(t, "insert_reversals") /\ pc[t] = "read_allocations"
  BY <1>1 DEF ReadAllocations, Goto, StepTo, Statement, IInv, TypeOK
<1>3. /\ x.plan = m.plan /\ x.ins = m.ins /\ x.lost = m.lost /\ x.paid = m.paid
      /\ x.pend = m.pend /\ x.owed = AllocationsOf(o) /\ m.paid = {}
  BY <1>1, <1>2 DEF Mem, OInv, TxOrder, NothingYet
<1>4. PendingAddsUp(t)'
  BY <1>2, <1>3, PlanStays DEF StepTo
<1>5. OwedOrPaid(t)'
  <2>1. AllocationsOf(o)' = AllocationsOf(o) /\ req' = req
    BY <1>2 DEF StepTo, tables, AllocationsOf
  <2> QED
    BY <1>3, <2>1 DEF OwedOrPaid
<1> QED
  BY <1>2, <1>3, <1>4, <1>5, VoidStep DEF Voiding

LEMMA InsertReversalOrder ==
  ASSUME IInv, OInv, NEW t \in Tx, InsertReversal(t) PROVE OInv'
<1> PICK o : o = req[t].order
  OBVIOUS
<1> PICK m \in Mem : m = mem[t]
  BY DEF IInv, TypeOK
<1> PICK x : x = mem'[t]
  OBVIOUS
<1>1. PICK a \in m.owed :
        /\ Acquire(t, BatchRow(a.batch), "KEY SHARE")
        /\ mem' = [mem EXCEPT ![t].owed = @ \ {a}, ![t].paid = @ \cup {a},
                              ![t].pend[a.batch] = @ + a.qty]
  BY DEF InsertReversal
<1>2. pc[t] = "insert_reversals" /\ a \in Allocation /\ a.batch \in Batch /\ a.qty \in Int
  <2>1. a \in Allocation
    BY DEF Mem
  <2>2. a.batch \in Batch /\ a.qty \in Int
    BY <2>1 DEF Allocation
  <2> QED
    BY <2>1, <2>2 DEF InsertReversal
<1>3. /\ x.plan = m.plan /\ x.ins = m.ins /\ x.lost = m.lost
      /\ x.owed = m.owed \ {a} /\ x.paid = m.paid \cup {a}
      /\ x.pend = [m.pend EXCEPT ![a.batch] = @ + a.qty] /\ m.pend \in [Batch -> Int]
  BY <1>1 DEF Mem, IInv, TypeOK
<1>4. \A u \in Tx \ {t} : mem'[u] = mem[u]
  BY <1>1 DEF IInv, TypeOK
<1>5. StepTo(t, "insert_reversals")
  BY <1>1, <1>2, <1>4 DEF InsertReversal, StepTo, Statement, Acquire, AcquireAll
<1>6. /\ m.owed \cup m.paid = AllocationsOf(o) /\ m.owed \cap m.paid = {}
      /\ PendingAddsUp(t) /\ m.ins = 0
  BY <1>2 DEF OInv, TxOrder, OwedOrPaid, NothingYet
<1>7. m.paid \in SUBSET Allocation /\ IsFiniteSet(m.paid) /\ a \notin m.paid
  <2>1. IsFiniteSet(allocations) /\ m.paid \subseteq allocations
    BY <1>6 DEF OInv, TablesOK, RowsCommitted, AllocationsOf
  <2> QED
    BY <1>6, <2>1, FS_Subset DEF IInv, TypeOK
<1>8. PendingAddsUp(t)'
  <2>1. SUFFICES ASSUME NEW b \in Batch
                 PROVE  x.pend[b] = TotalQty(OfBatch(x.paid, b))
                                      - TotalQty(OfBatch(Inserted(t)', b))
    BY DEF PendingAddsUp
  <2>2. OfBatch(Inserted(t), b) = {} /\ OfBatch(Inserted(t)', b) = {}
    BY <1>3, <1>6 DEF Inserted, OfBatch
  <2>3. m.pend[b] = TotalQty(OfBatch(m.paid, b)) - 0
    BY <1>6, <2>2, TotalEmpty DEF PendingAddsUp
  <2>4. TotalQty(OfBatch(x.paid, b))
          = TotalQty(OfBatch(m.paid, b)) + (IF b = a.batch THEN a.qty ELSE 0)
    <3> PICK S : S = m.paid
      OBVIOUS
    <3>1. S \in SUBSET Allocation /\ IsFiniteSet(S) /\ a \notin S /\ x.paid = S \cup {a}
      BY <1>3, <1>7
    <3> QED
      BY <1>2, <3>1, BatchTotalGrows
  <2>5. TotalQty(OfBatch(m.paid, b)) \in Int
    BY <1>7, BatchTotalType
  <2>6. x.pend[b] = m.pend[b] + (IF b = a.batch THEN a.qty ELSE 0)
    BY <1>2, <1>3
  <2> QED
    <3>1. TotalQty(OfBatch(Inserted(t)', b)) = 0
      BY <2>2, TotalEmpty
    <3> QED
      BY <1>2, <2>3, <2>4, <2>5, <2>6, <3>1
<1>9. OwedOrPaid(t)'
  <2>1. AllocationsOf(o)' = AllocationsOf(o) /\ req' = req
    BY <1>5 DEF StepTo, tables, AllocationsOf
  <2> QED
    BY <1>3, <1>6, <2>1 DEF OwedOrPaid
<1> QED
  BY <1>2, <1>3, <1>5, <1>8, <1>9, VoidStep DEF Voiding

-------------------------------------------------------------------------------
(* Editing and deleting drafts *)

DraftStatement == {"read_order", "update_header", "select_lines", "delete_lines",
                   "delete_header"}

(* Such a step plans and reverses nothing. *)
LEMMA DraftStep ==
  ASSUME IInv, OInv, NEW t \in Tx, pc[t] \in DraftStatement,
         NEW s \in {"read_lines", "update_header", "select_lines", "delete_lines",
                    "delete_header", "commit_draft"},
         StepTo(t, s), NEW m, m = mem[t], NEW x, x = mem'[t],
         x.plan = m.plan, x.ins = m.ins, x.owed = m.owed, x.paid = m.paid, x.pend = m.pend,
         s \notin {"delete_lines", "delete_header", "commit_draft"} => x.lost = {},
         s = "read_lines" => req[t].op \notin CommitOp,
         OrderOwned(t)', LinesLost(t)'
  PROVE  OInv'
<1>1. m.plan = <<>> /\ m.ins = 0 /\ m.owed = {} /\ m.paid = {}
  BY DEF OInv, TxOrder, NothingYet, DraftStatement
<1>2. pc'[t] = s /\ req' = req
  BY DEF StepTo
<1>3. NothingYet(t)' /\ OwedOrPaid(t)' /\ RecallPending(t)'
  BY <1>1, <1>2 DEF NothingYet, OwedOrPaid, RecallPending
<1>4. PlanCovers(t)'
  <2>1. Planned(t)' = {}
    BY <1>1 DEF Planned
  <2> QED
    BY <1>2, <2>1 DEF PlanCovers, Committing
<1>5. PlanNumbered(t)' /\ PendingAddsUp(t)'
  BY PlanStays DEF StepTo
<1> QED
  BY <1>3, <1>4, <1>5, StepLemma DEF TxOrder

LEMMA ReadOrderOrder ==
  ASSUME IInv, OInv, NEW t \in Tx, ReadOrder(t) PROVE OInv'
<1> PICK m, x : m = mem[t] /\ x = mem'[t]
  OBVIOUS
<1>1. pc[t] = "read_order" /\ req[t].op \in DraftOp /\ order[req[t].order].status = "draft"
  BY OpenNow DEF ReadOrder, Statement, OpsAt
<1>2. PICK s \in {"read_lines", "update_header", "select_lines"} :
        /\ pc'[t] = s /\ (s = "read_lines" => req[t].op = "preview")
        /\ (s = "update_header" => req[t].op = "update")
        /\ (s = "select_lines" => req[t].op = "delete")
  BY <1>1 DEF ReadOrder, Goto, IInv, TypeOK, DraftOp
<1>3. StepTo(t, s) /\ x = m
  BY <1>2 DEF ReadOrder, Goto, IInv, TypeOK, StepTo, Statement
<1>4. req' = req /\ order' = order
  BY <1>3 DEF StepTo, tables
<1>5. m.lost = {}
  BY <1>1 DEF OInv, TxOrder, NothingYet
<1>6. OrderOwned(t)'
  BY <1>2, <1>4 DEF OrderOwned, Committing, Voiding, Editing, Deleting, CommitOp
<1>7. LinesLost(t)'
  BY <1>1, <1>2, <1>3, <1>4, <1>5 DEF LinesLost, Drafting, Editing
<1>8. pc[t] \in DraftStatement /\ (s = "read_lines" => req[t].op \notin CommitOp)
  BY <1>1, <1>2 DEF DraftStatement, CommitOp
<1> QED
  BY <1>3, <1>5, <1>6, <1>7, <1>8, DraftStep

LEMMA UpdateHeaderOrder ==
  ASSUME IInv, OInv, NEW t \in Tx, UpdateHeader(t) PROVE OInv'
<1> PICK o : o = req[t].order
  OBVIOUS
<1> PICK m, x : m = mem[t] /\ x = mem'[t]
  OBVIOUS
<1>1. /\ pc[t] = "update_header" /\ req[t].op = "update" /\ o \in Order
      /\ order[o].status # "deleted"
  BY OpenNow, RequestFields DEF UpdateHeader, Statement, OpsAt, DraftOp
<1>2. PICK s \in {"commit_draft", "select_lines"} :
        pc'[t] = s /\ (s = "commit_draft" <=> req[t].lines = <<>>)
  BY DEF UpdateHeader, Goto, IInv, TypeOK
<1>3. StepTo(t, s) /\ x = m
  BY <1>2 DEF UpdateHeader, Goto, IInv, TypeOK, StepTo, Statement, Acquire, AcquireAll
<1>4. req' = req /\ order' = order
  BY <1>3 DEF StepTo, tables
<1>5. m.lost = {} /\ order[o].status # "absent"
  BY <1>1 DEF OInv, TxOrder, NothingYet, LinesLost, Drafting
<1>6. Holds(t, OrderRow(o), "NO KEY UPDATE")'
  BY <1>1, AcquireLemma, RowTypes DEF UpdateHeader, IInv, TypeOK
<1>7. OrderOwned(t)'
  BY <1>1, <1>2, <1>4, <1>6 DEF OrderOwned, Committing, Voiding, Editing, Deleting
<1>8. LinesLost(t)'
  <2>1. ~Referenced(t)'
    BY <1>3, <1>5 DEF Referenced
  <2> QED
    BY <1>2, <1>3, <1>4, <1>5, <2>1 DEF LinesLost, Drafting, Editing
<1>9. pc[t] \in DraftStatement
  BY <1>1 DEF DraftStatement
<1> QED
  BY <1>3, <1>5, <1>7, <1>8, <1>9, DraftStep

(* Past its lock on the header, an update keeps it. *)
LEMMA StillOwned ==
  ASSUME OInv, NEW t \in Tx, NEW s, StepTo(t, s),
         pc[t] \in {"select_lines", "delete_lines"},
         s \in {"delete_lines", "delete_header", "commit_draft"},
         s = "commit_draft" => req[t].op = "update"
  PROVE  OrderOwned(t)'
<1>1. OrderOwned(t)
  BY DEF OInv, TxOrder
<1>2. pc'[t] = s /\ req' = req /\ order' = order
  BY DEF StepTo, tables
<1> QED
  BY <1>1, <1>2 DEF OrderOwned, Committing, Voiding, Editing, Deleting, StepTo, Holds

LEMMA SelectLinesOrder ==
  ASSUME IInv, OInv, NEW t \in Tx, SelectLines(t) PROVE OInv'
<1> PICK o : o = req[t].order
  OBVIOUS
<1> PICK m \in Mem : m = mem[t]
  BY DEF IInv, TypeOK
<1> PICK x : x = mem'[t]
  OBVIOUS
<1>1. x = [m EXCEPT !.want = LinesOf(o)] /\ \A u \in Tx \ {t} : mem'[u] = mem[u]
  BY DEF SelectLines, IInv, TypeOK
<1>2. StepTo(t, "delete_lines") /\ pc[t] = "select_lines"
  BY <1>1 DEF SelectLines, Goto, StepTo, Statement, IInv, TypeOK
<1>3. /\ x.plan = m.plan /\ x.ins = m.ins /\ x.owed = m.owed /\ x.paid = m.paid
      /\ x.pend = m.pend /\ x.lost = m.lost /\ x.want = LinesOf(o) /\ m.lost = {}
  BY <1>1, <1>2 DEF Mem, OInv, TxOrder, NothingYet
<1>4. req' = req /\ order' = order /\ pc'[t] = "delete_lines" /\ LinesOf(o)' = LinesOf(o)
  BY <1>2 DEF StepTo, tables, LinesOf
<1>5. LinesLost(t)'
  <2>1. LinesLost(t)
    BY DEF OInv, TxOrder
  <2>2. \A l \in LinesOf(o) : l.order = o
    BY DEF LinesOf
  <2> QED
    BY <1>2, <1>3, <1>4, <2>1, <2>2 DEF LinesLost, Drafting, Editing
<1>6. OrderOwned(t)' /\ pc[t] \in DraftStatement
  BY <1>2, StillOwned DEF DraftStatement
<1> QED
  BY <1>2, <1>3, <1>5, <1>6, DraftStep

LEMMA DeleteLineOrder ==
  ASSUME IInv, OInv, NEW t \in Tx, DeleteLine(t) PROVE OInv'
<1> PICK o : o = req[t].order
  OBVIOUS
<1> PICK m \in Mem : m = mem[t]
  BY DEF IInv, TypeOK
<1> PICK x : x = mem'[t]
  OBVIOUS
<1>1. PICK l \in m.want \cap lines :
        /\ Acquire(t, LineRow(l), "FOR UPDATE")
        /\ mem' = [mem EXCEPT ![t].want = @ \ {l}, ![t].lost = @ \cup {l}]
  BY DEF DeleteLine
<1>2. \A u \in Tx \ {t} : mem'[u] = mem[u]
  BY <1>1 DEF IInv, TypeOK
<1>3. StepTo(t, "delete_lines") /\ pc[t] = "delete_lines"
  BY <1>1, <1>2 DEF DeleteLine, StepTo, Statement, Acquire, AcquireAll
<1>4. /\ x.plan = m.plan /\ x.ins = m.ins /\ x.owed = m.owed /\ x.paid = m.paid
      /\ x.pend = m.pend /\ x.lost = m.lost \cup {l} /\ x.want = m.want \ {l}
  BY <1>1 DEF Mem, IInv, TypeOK
<1>5. req' = req /\ order' = order /\ pc'[t] = "delete_lines" /\ LinesOf(o)' = LinesOf(o)
  BY <1>3 DEF StepTo, tables, LinesOf
<1>6. Holds(t, LineRow(l), "FOR UPDATE")' /\ locks \subseteq locks'
  BY <1>1, AcquireLemma, RowTypes DEF IInv, TypeOK
<1>7. LinesLost(t)'
  <2>1. LinesLost(t) /\ l.order = o
    BY <1>3 DEF OInv, TxOrder, LinesLost, Drafting
  <2>2. \A k \in x.lost : k.order = o /\ Holds(t, LineRow(k), "FOR UPDATE")'
    BY <1>4, <1>6, <2>1 DEF LinesLost, Drafting, Holds
  <2>3. x.want \cup x.lost = m.want \cup m.lost
    BY <1>1, <1>4
  <2> QED
    BY <1>3, <1>4, <1>5, <2>1, <2>2, <2>3 DEF LinesLost, Drafting, Editing
<1>8. OrderOwned(t)' /\ pc[t] \in DraftStatement
  BY <1>3, StillOwned DEF DraftStatement
<1> QED
  BY <1>3, <1>4, <1>7, <1>8, DraftStep

LEMMA SkipLineOrder ==
  ASSUME IInv, OInv, NEW t \in Tx, SkipLine(t) PROVE OInv'
<1> PICK o : o = req[t].order
  OBVIOUS
<1> PICK m \in Mem : m = mem[t]
  BY DEF IInv, TypeOK
<1> PICK x : x = mem'[t]
  OBVIOUS
<1>1. PICK l \in m.want \ lines : mem' = [mem EXCEPT ![t].want = @ \ {l}]
  BY DEF SkipLine
<1>2. \A u \in Tx \ {t} : mem'[u] = mem[u]
  BY <1>1 DEF IInv, TypeOK
<1>3. StepTo(t, "delete_lines") /\ pc[t] = "delete_lines"
  BY <1>1, <1>2 DEF SkipLine, StepTo, Statement
<1>4. /\ x.plan = m.plan /\ x.ins = m.ins /\ x.owed = m.owed /\ x.paid = m.paid
      /\ x.pend = m.pend /\ x.lost = m.lost /\ x.want = m.want \ {l}
  BY <1>1 DEF Mem, IInv, TypeOK
<1>5. req' = req /\ order' = order /\ pc'[t] = "delete_lines" /\ LinesOf(o)' = LinesOf(o)
  BY <1>3 DEF StepTo, tables, LinesOf
<1>6. LinesLost(t)'
  <2>1. LinesLost(t)
    BY DEF OInv, TxOrder
  <2>2. ~Editing(t)
    BY <1>1, <1>3, <2>1 DEF LinesLost, LinesOf
  <2>3. ~Editing(t)'
    BY <1>3, <1>5, <2>2 DEF Editing
  <2>4. \A k \in x.lost : k.order = o /\ Holds(t, LineRow(k), "FOR UPDATE")'
    BY <1>3, <1>4, <2>1 DEF LinesLost, Drafting, Holds, StepTo
  <2> QED
    BY <1>3, <1>4, <1>5, <2>1, <2>3, <2>4 DEF LinesLost, Drafting
<1>7. OrderOwned(t)' /\ pc[t] \in DraftStatement
  BY <1>3, StillOwned DEF DraftStatement
<1> QED
  BY <1>3, <1>4, <1>6, <1>7, DraftStep

LEMMA LinesDeletedOrder ==
  ASSUME IInv, OInv, NEW t \in Tx, LinesDeleted(t) PROVE OInv'
<1> PICK o : o = req[t].order
  OBVIOUS
<1> PICK m, x : m = mem[t] /\ x = mem'[t]
  OBVIOUS
<1>1. PICK s \in {"commit_draft", "delete_header"} :
        pc'[t] = s /\ (s = "commit_draft" <=> req[t].op = "update")
  BY DEF LinesDeleted, Goto, IInv, TypeOK
<1>2. /\ StepTo(t, s) /\ x = m /\ pc[t] = "delete_lines" /\ m.want = {}
      /\ ~Referenced(t)
  BY <1>1 DEF LinesDeleted, Goto, IInv, TypeOK, StepTo, Statement
<1>3. req' = req /\ order' = order /\ LinesOf(o)' = LinesOf(o) /\ allocations' = allocations
      /\ locks \subseteq locks'
  BY <1>2 DEF StepTo, tables, LinesOf
<1>4. LinesLost(t)'
  <2>1. LinesLost(t)
    BY DEF OInv, TxOrder
  <2>2. ~Referenced(t)'
    BY <1>2, <1>3 DEF Referenced
  <2>3. \A k \in x.lost : k.order = o /\ Holds(t, LineRow(k), "FOR UPDATE")'
    BY <1>2, <1>3, <2>1 DEF LinesLost, Drafting, Holds
  <2>4. Editing(t)' => Editing(t) /\ s = "commit_draft"
    BY <1>1, <1>2, <1>3 DEF Editing
  <2>5. Editing(t)' => x.lost = IF req[t].lines = <<>> THEN {} ELSE LinesOf(o)
    BY <1>2, <2>1, <2>4 DEF LinesLost, Drafting
  <2> QED
    BY <1>1, <1>2, <1>3, <2>1, <2>2, <2>3, <2>4, <2>5 DEF LinesLost, Drafting
<1>5. OrderOwned(t)' /\ pc[t] \in DraftStatement
  BY <1>1, <1>2, StillOwned DEF DraftStatement
<1> QED
  BY <1>1, <1>2, <1>4, <1>5, DraftStep

LEMMA DeleteHeaderOrder ==
  ASSUME IInv, OInv, NEW t \in Tx, DeleteHeader(t) PROVE OInv'
<1> PICK o : o = req[t].order
  OBVIOUS
<1> PICK m, x : m = mem[t] /\ x = mem'[t]
  OBVIOUS
<1>1. pc[t] = "delete_header" /\ req[t].op = "delete" /\ o \in Order
  BY OpenNow, RequestFields DEF DeleteHeader, Statement, OpsAt, DraftOp
<1>2. /\ StepTo(t, "commit_draft") /\ x = m /\ LinesOf(o) \subseteq m.lost
  BY <1>1 DEF DeleteHeader, Goto, IInv, TypeOK, StepTo, Statement, Acquire, AcquireAll,
     LinesRemain
<1>3. /\ req' = req /\ order' = order /\ LinesOf(o)' = LinesOf(o) /\ pc'[t] = "commit_draft"
      /\ allocations' = allocations /\ locks \subseteq locks'
  BY <1>2 DEF StepTo, tables, LinesOf
<1>4. Holds(t, OrderRow(o), "FOR UPDATE")'
  BY <1>1, AcquireLemma, RowTypes DEF DeleteHeader, IInv, TypeOK
<1>5. OrderOwned(t)'
  BY <1>1, <1>2, <1>3, <1>4 DEF OrderOwned, Committing, Voiding, Editing, Deleting
<1>6. LinesLost(t)'
  <2>1. LinesLost(t)
    BY DEF OInv, TxOrder
  <2>2. ~Referenced(t)'
    BY <1>1, <1>2, <1>3, <2>1 DEF Referenced, LinesLost
  <2>3. \A k \in x.lost : k.order = o /\ Holds(t, LineRow(k), "FOR UPDATE")'
    BY <1>2, <1>3, <2>1 DEF LinesLost, Drafting, Holds
  <2> QED
    BY <1>1, <1>2, <1>3, <2>1, <2>2, <2>3 DEF LinesLost, Drafting, Editing
<1>7. pc[t] \in DraftStatement
  BY <1>1 DEF DraftStatement
<1> QED
  BY <1>2, <1>5, <1>6, <1>7, DraftStep

-------------------------------------------------------------------------------
(* Steps that write the tables *)

LEMMA WriterStep ==
  ASSUME OInv, NEW t \in Tx, TxOrder(t)', TablesOK',
         \A u \in Tx \ {t} : Passive(u) /\ Undisturbed(u)
  PROVE  OInv'
<1>1. ASSUME NEW u \in Tx \ {t} PROVE TxOrder(u)'
  BY PassiveLemma DEF OInv
<1> QED
  BY <1>1 DEF OInv

(* An order has one owner, and exists. *)
LEMMA OneOwner ==
  ASSUME IInv, OInv, NEW t \in Tx, NEW u \in Tx, t # u, OwnsOrder(t), OwnsOrder(u)
  PROVE  req[t].order # req[u].order
<1>1. ASSUME NEW x \in Tx, OwnsOrder(x)
      PROVE  \E m \in {"FOR UPDATE", "NO KEY UPDATE"} : Holds(x, OrderRow(req[x].order), m)
  BY <1>1 DEF OInv, TxOrder, OrderOwned, OwnsOrder
<1>2. PICK m, n \in {"FOR UPDATE", "NO KEY UPDATE"} :
        Holds(t, OrderRow(req[t].order), m) /\ Holds(u, OrderRow(req[u].order), n)
  BY <1>1
<1>3. Conflicts(m, n)
  BY DEF Conflicts
<1> QED
  BY <1>2, <1>3 DEF IInv, LocksCompatible, Holds

LEMMA OwnedExists ==
  ASSUME IInv, OInv, NEW t \in Tx, OwnsOrder(t) \/ Drafting(t)
  PROVE  req[t].order \in Order /\ order[req[t].order].status # "absent"
<1>1. pc[t] \in Statement /\ req[t] \in Request /\ req[t].op \in OpsAt(pc[t])
  BY OpenNow DEF OwnsOrder, Committing, Voiding, Editing, Deleting, Drafting, Statement
<1>2. req[t].op \in SaleOp \cup DraftOp
  BY <1>1 DEF OpsAt, OwnsOrder, Committing, Voiding, Editing, Deleting, Drafting,
              CommitOp, SaleOp, DraftOp
<1>3. req[t].order \in Order
  BY <1>1, <1>2, RequestFields
<1>4. order[req[t].order].status # "absent"
  BY DEF OInv, TxOrder, OrderOwned, LinesLost, OwnsOrder, Editing, Deleting, Drafting
<1> QED
  BY <1>3, <1>4

(* Each line of a committed order has an allocation. *)
LEMMA CommittedIsAllocated ==
  ASSUME IInv, OInv, NEW l \in lines, order[l.order].status = "committed"
  PROVE  \E a \in allocations : a.line = l
<1>1. TotalQty({a \in allocations : a.line = l}) = l.qty
  BY DEF OInv, TablesOK, LinesFullyAllocated
<1>2. l.qty \in Nat \ {0}
  BY DEF IInv, TypeOK, Line
<1>3. {a \in allocations : a.line = l} # {}
  BY <1>1, <1>2, TotalEmpty
<1> QED
  BY <1>3

(* The ledger is not concerned by a step that changes documents only and   *)
(* voids nothing.                                                          *)
LEMMA SameLedger ==
  ASSUME IInv, OInv, NEW t \in Tx, ~Answered(t), \A u \in Tx \ {t} : pc'[u] = pc[u],
         UNCHANGED <<batch, onHand, movements, allocations>>,
         \A o \in Order : /\ order'[o].voided = order[o].voided
                          /\ order[o].status = "committed" => order'[o].status = "committed"
  PROVE  RowsCommitted' /\ EachAllocationReversedOnce' /\ StockReconciles'
         /\ RecallFlagMatchesLedger'
<1>1. TablesOK /\ RowsCommitted
  BY DEF OInv, TablesOK
<1>2. /\ \A a \in allocations : a.tx \in Tx /\ a.line.order \in Order
      /\ \A m \in movements : m.tx \in Tx
  BY DEF IInv, TypeOK, Allocation, Line, Movement
<1>3. \A u \in Tx : Answered(u) => Answered(u)'
  BY DEF Answered
<1>4. RowsCommitted'
  BY <1>1, <1>2, <1>3 DEF RowsCommitted
<1>5. EachAllocationReversedOnce'
  BY <1>1, <1>2 DEF TablesOK, EachAllocationReversedOnce
<1>6. StockReconciles'
  <2>1. ASSUME NEW b \in Batch
        PROVE  {a \in allocations : a.batch = b /\ ~order'[a.line.order].voided}
                 = {a \in allocations : a.batch = b /\ ~order[a.line.order].voided}
    BY <1>2
  <2> QED
    BY <1>1, <2>1 DEF TablesOK, StockReconciles
<1>7. RecallFlagMatchesLedger'
  BY <1>1 DEF TablesOK, RecallFlagMatchesLedger
<1> QED
  BY <1>4, <1>5, <1>6, <1>7

LEMMA CreateOrderOrder ==
  ASSUME IInv, OInv, NEW t \in Tx, CreateOrder(t) PROVE OInv'
<1>1. PICK r \in Request, o \in Order :
        /\ pc[t] = "idle" /\ r.op \in CreateOp /\ order[o].status = "absent"
        /\ req' = [req EXCEPT ![t] = r]
        /\ order' = [order EXCEPT ![o].status = "draft", ![o].header = r.header]
        /\ lines' = lines \cup NewLines(t, o, r.lines)
        /\ Goto(t, "ok")
        /\ UNCHANGED <<batch, onHand, movements, allocations, locks, mem>>
  BY DEF CreateOrder
<1> PICK new : new = NewLines(t, o, r.lines)
  OBVIOUS
<1>2. new # {} /\ \A l \in new : l.order = o /\ l.by = t
  <2>1. r.lines \in Seq([product : Product, qty : Nat \ {0}]) /\ r.lines # <<>>
    BY <1>1, RequestFields DEF CreateOp
  <2>2. 1 \in DOMAIN r.lines
    BY <2>1
  <2>3. new # {}
    BY <2>2 DEF NewLines
  <2>4. \A l \in new : l.order = o /\ l.by = t
    BY DEF NewLines
  <2> QED
    BY <2>3, <2>4
<1>3. /\ order'[o].status = "draft" /\ \A k \in Order : order'[k].voided = order[k].voided
      /\ \A k \in Order : k # o => order'[k] = order[k]
  BY <1>1 DEF IInv, TypeOK
<1>4. LinesOf(o) = {} /\ order[o].status # "committed"
  BY <1>1 DEF OInv, TablesOK, LinesFollowOrder
<1>5. ~Answered(t) /\ \A u \in Tx \ {t} : pc'[u] = pc[u]
  BY <1>1 DEF Answered, Outcome, Goto, IInv, TypeOK
<1>6. RowsCommitted' /\ EachAllocationReversedOnce' /\ StockReconciles'
      /\ RecallFlagMatchesLedger'
  BY <1>1, <1>3, <1>4, <1>5, SameLedger
<1>7. LinesFullyAllocated'
  <2>1. LinesFullyAllocated /\ lines \subseteq Line /\ allocations \subseteq Allocation
    BY DEF OInv, TablesOK, IInv, TypeOK
  <2>2. ASSUME NEW l \in lines', order'[l.order].status = "committed"
        PROVE  TotalQty({a \in allocations : a.line = l}) = l.qty
    <3>1. l \in lines /\ l.order \in Order /\ l.order # o
      BY <1>1, <1>2, <1>3, <2>1, <2>2 DEF Line
    <3> QED
      BY <1>3, <2>1, <2>2, <3>1 DEF LinesFullyAllocated
  <2>3. ASSUME NEW a \in allocations
        PROVE  order'[a.line.order].status = "committed" /\ a.line \in lines'
    <3>1. a.line.order \in Order
      BY <2>1 DEF Allocation, Line
    <3> QED
      BY <1>1, <1>3, <1>4, <2>1, <3>1 DEF LinesFullyAllocated
  <2> QED
    BY <1>1, <2>2, <2>3 DEF LinesFullyAllocated
<1>8. \A k \in Order : LinesOf(k)' = IF k = o THEN new ELSE LinesOf(k)
  BY <1>1, <1>2, <1>4 DEF LinesOf
<1>9. LinesFollowOrder'
  BY <1>2, <1>3, <1>8 DEF OInv, TablesOK, LinesFollowOrder
<1>10. LinesOfOneRequest'
  <2>1. LinesOfOneRequest /\ \A l \in lines : l.order # o
    BY <1>4 DEF OInv, TablesOK, LinesOf
  <2> QED
    BY <1>1, <1>2, <2>1 DEF LinesOfOneRequest
<1>11. TxOrder(t)'
  <2>1. pc'[t] \in Outcome /\ mem'[t] = Blank
    BY <1>1 DEF IInv, TypeOK, TxInv, AtOwnStatement, Goto, Outcome
  <2> QED
    BY <2>1, FinishedTx
<1>12. ASSUME NEW u \in Tx \ {t} PROVE Passive(u) /\ Undisturbed(u)
  <2>1. Passive(u)
    BY <1>1 DEF Passive, Goto, IInv, TypeOK, Holds
  <2>2. OwnsOrder(u) \/ Drafting(u) => req[u].order \in Order /\ req[u].order # o
    BY <1>1, OwnedExists
  <2>3. OwnsOrder(u) => {l \in lines' : l.order = req[u].order} = LinesOf(req[u].order)
    BY <1>1, <1>2, <2>2 DEF LinesOf
  <2> QED
    BY <1>1, <1>3, <2>1, <2>2, <2>3 DEF Undisturbed, AllocationsOf
<1> QED
  BY <1>6, <1>7, <1>9, <1>10, <1>11, <1>12, WriterStep DEF TablesOK

(* The lines an edit or a deletion removes are those of a draft. *)
LEMMA LostOfDraft ==
  ASSUME IInv, OInv, NEW t \in Tx, pc[t] = "commit_draft",
         LinesOf(req[t].order) \subseteq mem[t].lost
  PROVE  order[req[t].order].status # "committed"
<1> PICK o : o = req[t].order
  OBVIOUS
<1>1. SUFFICES ASSUME order[o].status = "committed" PROVE FALSE
  OBVIOUS
<1>2. o \in Order
  BY OwnedExists DEF Drafting
<1>3. PICK l \in lines : l.order = o
  BY <1>1, <1>2 DEF OInv, TablesOK, LinesFollowOrder, LinesOf
<1>4. PICK a \in allocations : a.line = l
  BY <1>1, <1>3, CommittedIsAllocated
<1>5. l \in mem[t].lost
  BY <1>3 DEF LinesOf
<1> QED
  BY <1>4, <1>5 DEF OInv, TxOrder, LinesLost, Referenced

(* What an update writes: lines for lines, and only to a draft. *)
LEMMA UpdateWrites ==
  ASSUME IInv, OInv, NEW t \in Tx, CommitUpdate(t), NEW o, o = req[t].order,
         NEW lost, lost = mem[t].lost, NEW new, new = NewLines(t, o, req[t].lines)
  PROVE  /\ OwnsOrder(t) /\ o \in Order /\ order[o].status \in {"draft", "committed"}
         /\ \A l \in lost : l.order = o /\ \A a \in allocations : a.line \notin lost
         /\ \A l \in new : l.order = o /\ l.by = t
         /\ req[t].lines = <<>> => lost = {} /\ new = {}
         /\ req[t].lines # <<>> => lost = LinesOf(o) /\ new # {}
         /\ \A k : k # o => LinesOf(k)' = LinesOf(k)
         /\ req[t].lines = <<>> => lines' = lines
         /\ req[t].lines # <<>> => LinesOf(o)' = new /\ order[o].status = "draft"
<1>1. /\ pc[t] = "commit_draft" /\ req[t].op = "update" /\ req[t] \in Request
      /\ lines' = (lines \ lost) \cup new
  BY OpenNow DEF CommitUpdate, Statement
<1>3. /\ OwnsOrder(t) /\ o \in Order /\ order[o].status \in {"draft", "committed"}
  <2>1. Editing(t)
    BY <1>1 DEF Editing
  <2>2. OwnsOrder(t) /\ order[o].status # "deleted"
    BY <2>1 DEF OwnsOrder, OInv, TxOrder, OrderOwned
  <2>3. o \in Order /\ order[o].status # "absent"
    BY <2>2, OwnedExists
  <2> QED
    BY <2>2, <2>3 DEF IInv, TypeOK
<1>4. /\ \A l \in lost : l.order = o /\ \A a \in allocations : a.line \notin lost
      /\ \A l \in new : l.order = o /\ l.by = t
  <2>1. \A l \in lost : l.order = o
    BY DEF OInv, TxOrder, LinesLost
  <2>2. \A a \in allocations : a.line \notin lost
    BY <1>1 DEF OInv, TxOrder, LinesLost, Referenced
  <2>3. \A l \in new : l.order = o /\ l.by = t
    BY DEF NewLines
  <2> QED
    BY <2>1, <2>2, <2>3
<1>5. /\ req[t].lines = <<>> => lost = {} /\ new = {}
      /\ req[t].lines # <<>> => lost = LinesOf(o) /\ new # {}
  <2>1. lost = IF req[t].lines = <<>> THEN {} ELSE LinesOf(o)
    BY <1>1 DEF OInv, TxOrder, LinesLost, Editing
  <2>2. req[t].lines \in Seq([product : Product, qty : Nat \ {0}])
    BY <1>1, RequestFields
  <2>3. req[t].lines = <<>> => DOMAIN req[t].lines = {}
    OBVIOUS
  <2>4. req[t].lines # <<>> => 1 \in DOMAIN req[t].lines
    BY <2>2
  <2> QED
    BY <2>1, <2>3, <2>4 DEF NewLines
<1>6. \A k : k # o => LinesOf(k)' = LinesOf(k)
  BY <1>1, <1>4 DEF LinesOf
<1>7. /\ req[t].lines = <<>> => lines' = lines
      /\ req[t].lines # <<>> => LinesOf(o)' = new /\ order[o].status = "draft"
  <2>1. CASE req[t].lines = <<>>
    BY <1>1, <1>5, <2>1
  <2>2. CASE req[t].lines # <<>>
    <3>1. LinesOf(o)' = new
      BY <1>1, <1>4, <1>5, <2>2 DEF LinesOf
    <3>2. order[o].status # "committed"
      BY <1>1, <1>5, <2>2, LostOfDraft
    <3> QED
      BY <1>3, <2>2, <3>1, <3>2
  <2> QED
    BY <2>1, <2>2
<1> QED
  BY <1>3, <1>4, <1>5, <1>6, <1>7

LEMMA CommitUpdateOrder ==
  ASSUME IInv, OInv, NEW t \in Tx, CommitUpdate(t) PROVE OInv'
<1> PICK o : o = req[t].order
  OBVIOUS
<1> PICK lost : lost = mem[t].lost
  OBVIOUS
<1> PICK new : new = NewLines(t, o, req[t].lines)
  OBVIOUS
<1>1. /\ pc[t] = "commit_draft" /\ req[t].op = "update" /\ req[t] \in Request
      /\ lines' = (lines \ lost) \cup new
      /\ UNCHANGED <<batch, onHand, movements, allocations, req>> /\ Finish(t, "ok")
  BY OpenNow DEF CommitUpdate, Statement
<1>2. /\ \A k \in Order : order'[k].status = order[k].status /\ order'[k].voided = order[k].voided
  BY DEF CommitUpdate, IInv, TypeOK
<1>3. /\ OwnsOrder(t) /\ o \in Order /\ order[o].status \in {"draft", "committed"}
  BY UpdateWrites
<1>4. /\ \A l \in lost : l.order = o /\ \A a \in allocations : a.line \notin lost
      /\ \A l \in new : l.order = o /\ l.by = t
  BY UpdateWrites
<1>5. /\ req[t].lines = <<>> => lost = {} /\ new = {}
      /\ req[t].lines # <<>> => lost = LinesOf(o) /\ new # {}
  BY UpdateWrites
<1>6. \A k : k # o => LinesOf(k)' = LinesOf(k)
  BY UpdateWrites
<1>7. /\ req[t].lines = <<>> => lines' = lines
      /\ req[t].lines # <<>> => LinesOf(o)' = new /\ order[o].status = "draft"
  BY UpdateWrites
<1>8. ~Answered(t) /\ pc[t] # "idle"
  BY <1>1 DEF Answered, Outcome
<1>9. TxOrder(t)' /\ \A u \in Tx \ {t} : Passive(u)
  BY <1>1, <1>8, Finished DEF Outcome
<1>10. RowsCommitted' /\ EachAllocationReversedOnce' /\ StockReconciles'
      /\ RecallFlagMatchesLedger'
  BY <1>1, <1>2, <1>8, <1>9, SameLedger DEF Passive
<1>11. LinesFullyAllocated'
  <2>1. LinesFullyAllocated /\ lines \subseteq Line /\ allocations \subseteq Allocation
    BY DEF OInv, TablesOK, IInv, TypeOK
  <2>2. ASSUME NEW l \in lines', order'[l.order].status = "committed"
        PROVE  TotalQty({a \in allocations : a.line = l}) = l.qty
    <3>1. l \in lines /\ l.order \in Order
      <4>1. CASE l \in new
        BY <1>2, <1>3, <1>4, <1>5, <1>7, <2>2, <4>1
      <4>2. CASE l \in lines
        BY <2>1, <4>2 DEF Line
      <4> QED
        BY <1>1, <4>1, <4>2
    <3> QED
      BY <1>2, <2>1, <2>2, <3>1 DEF LinesFullyAllocated
  <2>3. ASSUME NEW a \in allocations
        PROVE  order'[a.line.order].status = "committed" /\ a.line \in lines'
    <3>1. a.line.order \in Order
      BY <2>1 DEF Allocation, Line
    <3> QED
      BY <1>1, <1>2, <1>4, <2>1, <3>1 DEF LinesFullyAllocated
  <2> QED
    BY <1>1, <2>2, <2>3 DEF LinesFullyAllocated
<1>12. LinesFollowOrder'
  <2>1. SUFFICES ASSUME NEW k \in Order
                 PROVE  LinesOf(k)' # {} <=> order[k].status \in {"draft", "committed"}
    BY <1>2 DEF LinesFollowOrder
  <2>2. LinesOf(k) # {} <=> order[k].status \in {"draft", "committed"}
    BY DEF OInv, TablesOK, LinesFollowOrder
  <2>3. CASE k # o \/ req[t].lines = <<>>
    <3>1. LinesOf(k)' = LinesOf(k)
      BY <1>6, <1>7, <2>3 DEF LinesOf
    <3> QED
      BY <2>2, <3>1
  <2>4. CASE k = o /\ req[t].lines # <<>>
    BY <1>3, <1>5, <1>7, <2>4
  <2> QED
    BY <2>3, <2>4
<1>13. LinesOfOneRequest'
  <2>1. LinesOfOneRequest
    BY DEF OInv, TablesOK
  <2>2. CASE req[t].lines = <<>>
    BY <1>7, <2>1, <2>2 DEF LinesOfOneRequest
  <2>3. CASE req[t].lines # <<>>
    <3>1. \A l \in lines' : l \in new \/ (l \in lines /\ l.order # o)
      BY <1>1, <1>5, <2>3 DEF LinesOf
    <3> QED
      BY <1>4, <2>1, <3>1 DEF LinesOfOneRequest
  <2> QED
    BY <2>2, <2>3
<1>14. ASSUME NEW u \in Tx \ {t} PROVE Undisturbed(u)
  <2>1. OwnsOrder(u) => req[u].order # o
    BY <1>3, OneOwner
  <2>2. OwnsOrder(u) \/ Drafting(u) => req[u].order \in Order
    BY OwnedExists
  <2>3. OwnsOrder(u) => {l \in lines' : l.order = req[u].order} = LinesOf(req[u].order)
    BY <1>6, <2>1 DEF LinesOf
  <2> QED
    BY <1>1, <1>2, <2>2, <2>3 DEF Undisturbed, AllocationsOf
<1> QED
  BY <1>9, <1>10, <1>11, <1>12, <1>13, <1>14, WriterStep DEF TablesOK

LEMMA CommitDeleteOrder ==
  ASSUME IInv, OInv, NEW t \in Tx, CommitDelete(t) PROVE OInv'
<1> PICK o : o = req[t].order
  OBVIOUS
<1> PICK lost : lost = mem[t].lost
  OBVIOUS
<1>1. /\ pc[t] = "commit_draft" /\ req[t].op = "delete"
      /\ lines' = lines \ lost
      /\ UNCHANGED <<batch, onHand, movements, allocations, req>> /\ Finish(t, "ok")
  BY DEF CommitDelete
<1>2. Deleting(t) /\ OwnsOrder(t) /\ o \in Order
  <2>1. Deleting(t)
    BY <1>1 DEF Deleting
  <2> QED
    BY <2>1, OwnedExists DEF OwnsOrder
<1>3. LinesOf(o) \subseteq lost /\ order[o].status # "committed"
  BY <1>1, <1>2, LostOfDraft DEF OInv, TxOrder, OrderOwned
<1>4. /\ order'[o].status = "deleted" /\ \A k \in Order : order'[k].voided = order[k].voided
      /\ \A k \in Order : k # o => order'[k] = order[k]
  BY <1>2 DEF CommitDelete, IInv, TypeOK
<1>5. \A l \in lost : l.order = o
  BY DEF OInv, TxOrder, LinesLost
<1>6. \A a \in allocations : a.line \notin lost
  BY <1>1 DEF OInv, TxOrder, LinesLost, Referenced
<1>7. \A k : LinesOf(k)' = IF k = o THEN {} ELSE LinesOf(k)
  BY <1>1, <1>3, <1>5 DEF LinesOf
<1>8. ~Answered(t) /\ pc[t] # "idle"
  BY <1>1 DEF Answered, Outcome
<1>9. TxOrder(t)' /\ \A u \in Tx \ {t} : Passive(u)
  BY <1>1, <1>8, Finished DEF Outcome
<1>10. RowsCommitted' /\ EachAllocationReversedOnce' /\ StockReconciles'
      /\ RecallFlagMatchesLedger'
  BY <1>1, <1>3, <1>4, <1>8, <1>9, SameLedger DEF Passive
<1>11. LinesFullyAllocated'
  <2>1. LinesFullyAllocated /\ lines \subseteq Line /\ allocations \subseteq Allocation
    BY DEF OInv, TablesOK, IInv, TypeOK
  <2>2. ASSUME NEW l \in lines', order'[l.order].status = "committed"
        PROVE  TotalQty({a \in allocations : a.line = l}) = l.qty
    <3>1. l \in lines /\ l.order \in Order /\ l.order # o
      BY <1>1, <1>4, <2>1, <2>2 DEF Line
    <3> QED
      BY <1>4, <2>1, <2>2, <3>1 DEF LinesFullyAllocated
  <2>3. ASSUME NEW a \in allocations
        PROVE  order'[a.line.order].status = "committed" /\ a.line \in lines'
    <3>1. a.line.order \in Order
      BY <2>1 DEF Allocation, Line
    <3> QED
      BY <1>1, <1>3, <1>4, <1>6, <2>1, <3>1 DEF LinesFullyAllocated
  <2> QED
    BY <1>1, <2>2, <2>3 DEF LinesFullyAllocated
<1>12. LinesFollowOrder'
  BY <1>4, <1>7 DEF OInv, TablesOK, LinesFollowOrder
<1>13. LinesOfOneRequest'
  BY <1>1 DEF OInv, TablesOK, LinesOfOneRequest
<1>14. ASSUME NEW u \in Tx \ {t} PROVE Undisturbed(u)
  <2>1. OwnsOrder(u) => req[u].order # o
    BY <1>2, OneOwner
  <2>2. OwnsOrder(u) \/ Drafting(u) => req[u].order \in Order
    BY OwnedExists
  <2>3. OwnsOrder(u) => {l \in lines' : l.order = req[u].order} = LinesOf(req[u].order)
    BY <1>7, <2>1 DEF LinesOf
  <2> QED
    BY <1>1, <1>4, <2>1, <2>2, <2>3 DEF Undisturbed, AllocationsOf
<1> QED
  BY <1>9, <1>10, <1>11, <1>12, <1>13, <1>14, WriterStep DEF TablesOK

(* Rows of the ledger of one kind. *)
RowsOf(S, b, kind) == {m \in S : m.batch = b /\ m.kind = kind}

RowsOfKinds(S, b, K) == {m \in S : m.batch = b /\ m.kind \in K}

LEMMA WriteBatchOrder ==
  ASSUME IInv, OInv, NEW t \in Tx, WriteBatch(t) PROVE OInv'
<1> PICK r : r = req[t]
  OBVIOUS
<1> PICK b : b = req[t].batch
  OBVIOUS
<1> PICK m : m = [tx |-> t, kind |-> KindOf(r.op), batch |-> b,
                  qty |-> QuantityOf(r), ref |-> NoRow]
  OBVIOUS
<1>1. /\ pc[t] = "write_batch" /\ r \in Request /\ r.op \in BatchOp /\ b \in Batch
      /\ movements' = movements \cup {m}
      /\ UNCHANGED <<order, lines, allocations, req>> /\ Finish(t, "ok")
  BY OpenNow, RequestFields DEF WriteBatch, Statement, OpsAt
<1>2. QuantityOf(r) \in Int
  BY <1>1, RequestFields DEF QuantityOf
<1>3. KindOf(r.op) \in BatchKind /\ KindOf(r.op) \notin SaleKind
      /\ (KindOf(r.op) = "recall_block" <=> r.op = "recall")
      /\ (KindOf(r.op) = "recall_unblock" <=> r.op = "un_recall")
  BY <1>1 DEF KindOf, BatchOp, BatchKind, SaleKind
<1>4. /\ m.tx = t /\ m.kind = KindOf(r.op) /\ m.batch = b /\ m.qty = QuantityOf(r)
      /\ m.qty \in Int
  BY <1>2
<1>5. \A x \in Batch : onHand'[x] = IF x = b THEN onHand[x] + m.qty ELSE onHand[x]
  BY <1>1, <1>4 DEF WriteBatch, IInv, TypeOK
<1>6. /\ \A x \in Batch : x # b => batch'[x] = batch[x]
      /\ batch'[b].recalled = IF r.op \in {"recall", "un_recall"} THEN r.op = "recall"
                              ELSE batch[b].recalled
  BY <1>1 DEF WriteBatch, IInv, TypeOK
<1>7. ~Answered(t) /\ pc[t] # "idle"
  BY <1>1 DEF Answered, Outcome
<1>8. TxOrder(t)' /\ Answered(t)' /\ \A u \in Tx \ {t} : Passive(u)
  BY <1>1, <1>7, Finished DEF Outcome, Answered, Finish, Goto, IInv, TypeOK
<1>9. m \notin movements
  BY <1>4, <1>7 DEF OInv, TablesOK, RowsCommitted
<1>10. /\ IsFiniteSet(movements) /\ IsFiniteSet(allocations)
       /\ \A x \in movements : x.qty \in Int
       /\ \A x \in allocations : x.qty \in Int
  BY DEF OInv, TablesOK, RowsCommitted, IInv, TypeOK, Movement, Allocation
<1>11. RowsCommitted'
  <2>1. \A u \in Tx : Answered(u) => Answered(u)'
    BY <1>8 DEF Answered, Passive
  <2>2. /\ \A a \in allocations : a.tx \in Tx
        /\ \A x \in movements : x.tx \in Tx
    BY DEF IInv, TypeOK, Allocation, Movement
  <2>3. IsFiniteSet(movements')
    BY <1>1, <1>10, FS_AddElement
  <2>4. RowsCommitted
    BY DEF OInv, TablesOK
  <2>5. \A x \in movements' : Answered(x.tx)' /\ (x.kind \in SaleKind => x.ref \in allocations)
    BY <1>1, <1>3, <1>4, <1>8, <2>1, <2>2, <2>4 DEF RowsCommitted
  <2> QED
    BY <1>1, <2>1, <2>2, <2>3, <2>4, <2>5 DEF RowsCommitted
<1>12. LinesFullyAllocated' /\ LinesFollowOrder' /\ LinesOfOneRequest'
  BY <1>1 DEF OInv, TablesOK, LinesFullyAllocated, LinesFollowOrder, LinesOfOneRequest, LinesOf
<1>13. EachAllocationReversedOnce'
  <2>1. EachAllocationReversedOnce
    BY DEF OInv, TablesOK
  <2>2. ASSUME NEW a \in allocations, NEW k \in SaleKind
        PROVE  {x \in movements' : x.kind = k /\ x.ref = a}
                 = {x \in movements : x.kind = k /\ x.ref = a}
    BY <1>1, <1>3, <1>4
  <2> QED
    BY <1>1, <2>1, <2>2 DEF EachAllocationReversedOnce, SaleKind
<1>14. StockReconciles'
  <2>1. StockReconciles
    BY DEF OInv, TablesOK
  <2>2. SUFFICES ASSUME NEW x \in Batch
                 PROVE  onHand'[x] =
                          Received[x] + TotalQty(RowsOfKinds(movements', x, BatchKind))
                          - TotalQty({a \in allocations : a.batch = x
                                                         /\ ~order[a.line.order].voided})
    BY <1>1 DEF StockReconciles, RowsOfKinds
  <2>3. onHand[x] =
          Received[x] + TotalQty(RowsOfKinds(movements, x, BatchKind))
          - TotalQty({a \in allocations : a.batch = x /\ ~order[a.line.order].voided})
    BY <2>1 DEF StockReconciles, RowsOfKinds
  <2>4. CASE x # b
    <3>1. RowsOfKinds(movements', x, BatchKind) = RowsOfKinds(movements, x, BatchKind)
      BY <1>1, <1>4, <2>4 DEF RowsOfKinds
    <3> QED
      BY <1>5, <2>3, <2>4, <3>1
  <2>5. CASE x = b
    <3> PICK S : S = RowsOfKinds(movements, x, BatchKind)
      OBVIOUS
    <3>1. RowsOfKinds(movements', x, BatchKind) = S \cup {m}
      BY <1>1, <1>3, <1>4, <2>5 DEF RowsOfKinds
    <3>2. S \subseteq movements
      BY DEF RowsOfKinds
    <3>3. IsFiniteSet(S) /\ m \notin S /\ Quantified(S \cup {m}) /\ Quantified(S)
      BY <1>4, <1>9, <1>10, <3>2, FS_Subset DEF Quantified
    <3>4. TotalQty(S \cup {m}) = TotalQty(S) + m.qty /\ TotalQty(S) \in Int
      BY <3>3, TotalAdd, TotalType
    <3> PICK A : A = {a \in allocations : a.batch = x /\ ~order[a.line.order].voided}
      OBVIOUS
    <3>5. TotalQty(A) \in Int
      <4>1. A \subseteq allocations
        OBVIOUS
      <4> QED
        BY <1>10, <4>1, FS_Subset, TotalType DEF Quantified
    <3>6. onHand[x] \in Int /\ Received[x] \in Int
      BY SalesConstants DEF IInv, TypeOK
    <3>7. onHand[x] = Received[x] + TotalQty(S) - TotalQty(A)
      BY <2>3
    <3>8. onHand'[x] = Received[x] + TotalQty(S \cup {m}) - TotalQty(A)
      BY <1>4, <1>5, <2>5, <3>4, <3>5, <3>6, <3>7
    <3> QED
      BY <3>1, <3>8
  <2> QED
    BY <2>4, <2>5
<1>15. RecallFlagMatchesLedger'
  <2>1. RecallFlagMatchesLedger
    BY DEF OInv, TablesOK
  <2>2. SUFFICES ASSUME NEW x \in Batch
                 PROVE  Cardinality(RowsOf(movements', x, "recall_block")) =
                          Cardinality(RowsOf(movements', x, "recall_unblock"))
                            + (IF batch'[x].recalled THEN 1 ELSE 0)
    BY DEF RecallFlagMatchesLedger, RowsOf
  <2>3. Cardinality(RowsOf(movements, x, "recall_block")) =
          Cardinality(RowsOf(movements, x, "recall_unblock"))
            + (IF batch[x].recalled THEN 1 ELSE 0)
    BY <2>1 DEF RecallFlagMatchesLedger, RowsOf
  <2>4. \A k : RowsOf(movements', x, k) = IF x = b /\ k = m.kind
                                        THEN RowsOf(movements, x, k) \cup {m}
                                        ELSE RowsOf(movements, x, k)
    BY <1>1, <1>4 DEF RowsOf
  <2>5. ASSUME NEW k
        PROVE  /\ Cardinality(RowsOf(movements, x, k) \cup {m})
                    = Cardinality(RowsOf(movements, x, k)) + 1
               /\ Cardinality(RowsOf(movements, x, k)) \in Nat
    <3>1. RowsOf(movements, x, k) \subseteq movements
      BY DEF RowsOf
    <3>2. IsFiniteSet(RowsOf(movements, x, k)) /\ m \notin RowsOf(movements, x, k)
      BY <1>9, <1>10, <3>1, FS_Subset
    <3> QED
      BY <3>2, FS_AddElement, FS_CardinalityType
  <2>6. CASE x # b \/ r.op \notin {"recall", "un_recall"}
    <3>1. batch'[x].recalled = batch[x].recalled
      BY <1>6, <2>6
    <3>2. /\ RowsOf(movements', x, "recall_block") = RowsOf(movements, x, "recall_block")
          /\ RowsOf(movements', x, "recall_unblock") = RowsOf(movements, x, "recall_unblock")
      BY <1>3, <1>4, <2>4, <2>6
    <3> QED
      BY <2>3, <3>1, <3>2
  <2>7. CASE x = b /\ r.op = "recall"
    <3>1. ~batch[b].recalled /\ batch'[b].recalled
      BY <1>1, <1>6, <2>7 DEF OInv, TxOrder, RecallPending
    <3>2. m.kind = "recall_block"
      BY <1>3, <1>4, <2>7
    <3>3. /\ RowsOf(movements', x, "recall_block") = RowsOf(movements, x, "recall_block") \cup {m}
          /\ RowsOf(movements', x, "recall_unblock") = RowsOf(movements, x, "recall_unblock")
      BY <2>4, <2>7, <3>2
    <3>4. Cardinality(RowsOf(movements, x, "recall_block"))
            = Cardinality(RowsOf(movements, x, "recall_unblock"))
      <4>1. (IF batch[x].recalled THEN 1 ELSE 0) = 0
        BY <2>7, <3>1
      <4>2. Cardinality(RowsOf(movements, x, "recall_unblock")) \in Nat
        BY <2>5
      <4> QED
        BY <2>3, <4>1, <4>2
    <3> QED
      BY <2>5, <2>7, <3>1, <3>3, <3>4
  <2>8. CASE x = b /\ r.op = "un_recall"
    <3>1. batch[b].recalled /\ ~batch'[b].recalled
      BY <1>1, <1>6, <2>8 DEF OInv, TxOrder, RecallPending
    <3>2. m.kind = "recall_unblock"
      BY <1>3, <1>4, <2>8
    <3>3. /\ RowsOf(movements', x, "recall_block") = RowsOf(movements, x, "recall_block")
          /\ RowsOf(movements', x, "recall_unblock") = RowsOf(movements, x, "recall_unblock") \cup {m}
      BY <2>4, <2>8, <3>2
    <3>4. Cardinality(RowsOf(movements, x, "recall_block"))
            = Cardinality(RowsOf(movements, x, "recall_unblock")) + 1
      BY <2>3, <2>5, <2>8, <3>1
    <3> QED
      BY <2>5, <2>8, <3>1, <3>3, <3>4
  <2> QED
    BY <2>6, <2>7, <2>8
<1>16. ASSUME NEW u \in Tx \ {t} PROVE Undisturbed(u)
  <2>1. ASSUME pc[u] = "write_batch" PROVE batch'[req[u].batch] = batch[req[u].batch]
    <3>1. req[u].batch \in Batch
      BY <2>1, OpenNow, RequestFields DEF Statement, OpsAt
    <3>2. BatchHeld(t) /\ BatchHeld(u)
      BY DEF IInv, TxInv
    <3>3. req[u].batch # b
      BY <1>1, <2>1, <3>2, ForUpdateExcludes DEF BatchHeld, IInv
    <3> QED
      BY <1>6, <3>1, <3>3
  <2> QED
    BY <1>1, <2>1 DEF Undisturbed, LinesOf, AllocationsOf
<1> QED
  BY <1>8, <1>11, <1>12, <1>13, <1>14, <1>15, <1>16, WriterStep DEF TablesOK

(* A sale or a void adds no row of the other kinds. *)
LEMMA SaleKeepsBatchRows ==
  ASSUME OInv, NEW M, movements' = movements \cup M, \A m \in M : m.kind \in SaleKind,
         UNCHANGED batch
  PROVE  /\ RecallFlagMatchesLedger'
         /\ \A b : RowsOfKinds(movements', b, BatchKind) = RowsOfKinds(movements, b, BatchKind)
<1>1. \A m \in M : m.kind \notin BatchKind
  BY DEF BatchKind, SaleKind
<1>2. \A b : RowsOfKinds(movements', b, BatchKind) = RowsOfKinds(movements, b, BatchKind)
  BY <1>1 DEF RowsOfKinds
<1>3. \A b, k : k \in BatchKind => RowsOf(movements', b, k) = RowsOf(movements, b, k)
  BY <1>1 DEF RowsOf
<1>4. RecallFlagMatchesLedger'
  <2>1. RecallFlagMatchesLedger
    BY DEF OInv, TablesOK
  <2>2. "recall_block" \in BatchKind /\ "recall_unblock" \in BatchKind
    BY DEF BatchKind
  <2>3. SUFFICES ASSUME NEW b \in Batch
                 PROVE  Cardinality(RowsOf(movements', b, "recall_block")) =
                          Cardinality(RowsOf(movements', b, "recall_unblock"))
                            + (IF batch[b].recalled THEN 1 ELSE 0)
    BY DEF RecallFlagMatchesLedger, RowsOf
  <2>4. Cardinality(RowsOf(movements, b, "recall_block")) =
          Cardinality(RowsOf(movements, b, "recall_unblock"))
            + (IF batch[b].recalled THEN 1 ELSE 0)
    BY <2>1 DEF RecallFlagMatchesLedger, RowsOf
  <2> QED
    BY <1>3, <2>2, <2>4
<1> QED
  BY <1>2, <1>4

(* What b owes to the orders that stand. *)
Standing(b) == {a \in allocations : a.batch = b /\ ~order[a.line.order].voided}

LEMMA StandingTotals ==
  ASSUME IInv, OInv, NEW b
  PROVE  /\ IsFiniteSet(Standing(b)) /\ Quantified(Standing(b)) /\ Standing(b) \subseteq allocations
         /\ TotalQty(Standing(b)) \in Int
         /\ IsFiniteSet(RowsOfKinds(movements, b, BatchKind))
         /\ TotalQty(RowsOfKinds(movements, b, BatchKind)) \in Int
<1>1. /\ Standing(b) \subseteq allocations /\ RowsOfKinds(movements, b, BatchKind) \subseteq movements
  BY DEF Standing, RowsOfKinds
<1>2. IsFiniteSet(Standing(b)) /\ IsFiniteSet(RowsOfKinds(movements, b, BatchKind))
  BY <1>1, FS_Subset DEF OInv, TablesOK, RowsCommitted
<1>3. Quantified(Standing(b)) /\ Quantified(RowsOfKinds(movements, b, BatchKind))
  BY <1>1 DEF Quantified, IInv, TypeOK, Allocation, Movement
<1> QED
  BY <1>1, <1>2, <1>3, TotalType

(* The stock moves with what is sold or returned. *)
LEMMA StockPosted ==
  ASSUME IInv, OInv, NEW t \in Tx, PostPending(t), mem[t] \in Mem,
         \A b \in Batch :
           /\ RowsOfKinds(movements', b, BatchKind) = RowsOfKinds(movements, b, BatchKind)
           /\ TotalQty(Standing(b)') = TotalQty(Standing(b)) - mem[t].pend[b]
  PROVE  StockReconciles'
<1>1. SUFFICES ASSUME NEW b \in Batch
               PROVE  onHand'[b] = Received[b] + TotalQty(RowsOfKinds(movements', b, BatchKind))
                                     - TotalQty(Standing(b)')
  BY DEF StockReconciles, RowsOfKinds, Standing
<1>2. onHand[b] = Received[b] + TotalQty(RowsOfKinds(movements, b, BatchKind))
                    - TotalQty(Standing(b))
  BY DEF OInv, TablesOK, StockReconciles, RowsOfKinds, Standing
<1>3. mem[t].pend[b] \in Int /\ Received[b] \in Int
  BY SalesConstants DEF Mem
<1>4. TotalQty(Standing(b)) \in Int /\ TotalQty(RowsOfKinds(movements, b, BatchKind)) \in Int
  BY StandingTotals
<1>5. onHand'[b] = onHand[b] + mem[t].pend[b]
  BY DEF PostPending
<1> QED
  BY <1>2, <1>3, <1>4, <1>5

(* One row for each of finitely many. *)
LEMMA FiniteImage ==
  ASSUME NEW S, IsFiniteSet(S), NEW f, DOMAIN f = S
  PROVE  IsFiniteSet({f[x] : x \in S})
<1> PICK T : T = {f[x] : x \in S}
  OBVIOUS
<1>1. [x \in S |-> f[x]] \in Surjection(S, T)
  BY DEF Surjection
<1> QED
  BY <1>1, FS_Surjection

(* A sale about to commit. *)
LEMMA ReadyToCommit ==
  ASSUME IInv, OInv, NEW t \in Tx, CommitSale(t)
  PROVE  /\ Committing(t) /\ OwnsOrder(t) /\ req[t].order \in Order
         /\ order[req[t].order].status = "draft" /\ ~order[req[t].order].voided
         /\ \A l \in LinesOf(req[t].order) : PlannedFor(t, l) = l.qty
         /\ \A a \in Planned(t) : /\ a \in Allocation /\ a \notin allocations /\ a.tx = t
                                  /\ a.line \in lines /\ a.line.order = req[t].order
                                  /\ Holds(t, LineRow(a.line), "KEY SHARE")
         /\ \A b \in Batch : mem[t].pend[b] = 0 - TotalQty(OfBatch(Planned(t), b))
<1> PICK o : o = req[t].order
  OBVIOUS
<1> PICK m \in Mem : m = mem[t]
  BY DEF IInv, TypeOK
<1>1. pc[t] = "insert_sales" /\ m.ins = Len(m.plan) /\ req[t].op \in CommitOp
  BY OpenNow DEF CommitSale, Statement, OpsAt
<1>2. Committing(t) /\ OwnsOrder(t)
  BY <1>1 DEF Committing, OwnsOrder
<1>3. o \in Order /\ order[o].status = "draft"
  BY <1>2, OwnedExists DEF OInv, TxOrder, OrderOwned
<1>4. ~order[o].voided
  BY <1>3 DEF OInv, TablesOK, RowsCommitted
<1>5. m.plan \in Seq(Allocation) /\ Planned(t) \subseteq Allocation
  BY PlanFinite
<1>6. Inserted(t) = Planned(t)
  BY <1>1, <1>5 DEF Inserted, Planned
<1>7. (\A l \in LinesOf(o) : PlannedFor(t, l) = l.qty)
      /\ \A a \in Planned(t) : a.line \in lines /\ a.line.order = o
  BY <1>1, <1>2 DEF OInv, TxOrder, PlanCovers, LinesOf
<1>8. \A a \in Planned(t) : a.tx = t /\ Holds(t, LineRow(a.line), "KEY SHARE")
  <2>1. PlanNumbered(t)
    BY DEF OInv, TxOrder
  <2>2. \A a \in Planned(t) : Holds(t, LineRow(a.line), "KEY SHARE")
    BY <1>6, <2>1 DEF PlanNumbered
  <2>3. \A a \in Planned(t) : a.tx = t
    BY <2>1 DEF PlanNumbered, Planned
  <2> QED
    BY <2>2, <2>3
<1>9. \A a \in Planned(t) : a \notin allocations
  BY <1>1, <1>8 DEF OInv, TablesOK, RowsCommitted, Answered, Outcome
<1>10. ASSUME NEW b \in Batch
       PROVE  m.pend[b] = 0 - TotalQty(OfBatch(Planned(t), b))
  <2>1. OfBatch(m.paid, b) = {}
    BY <1>1 DEF OInv, TxOrder, NothingYet, OfBatch
  <2>2. m.pend[b] = TotalQty(OfBatch(m.paid, b)) - TotalQty(OfBatch(Inserted(t), b))
    BY DEF OInv, TxOrder, PendingAddsUp
  <2> QED
    BY <1>6, <2>1, <2>2, TotalEmpty
<1> QED
  BY <1>2, <1>3, <1>4, <1>5, <1>7, <1>8, <1>9, <1>10

LEMMA CommitSaleOrder ==
  ASSUME IInv, OInv, NEW t \in Tx, CommitSale(t) PROVE OInv'
<1> PICK o : o = req[t].order
  OBVIOUS
<1> PICK P : P = Planned(t)
  OBVIOUS
<1> PICK M : M = {SaleMovement(t, a) : a \in P}
  OBVIOUS
<1>1. /\ pc[t] = "insert_sales" /\ mem[t] \in Mem
      /\ allocations' = allocations \cup P
      /\ movements' = movements \cup M
      /\ PostPending(t) /\ Finish(t, "ok")
      /\ UNCHANGED <<batch, lines, req>>
  BY OpenNow DEF CommitSale, Statement
<1>2. /\ OwnsOrder(t) /\ o \in Order /\ order[o].status = "draft" /\ ~order[o].voided
      /\ \A l \in LinesOf(o) : PlannedFor(t, l) = l.qty
      /\ \A b \in Batch : mem[t].pend[b] = 0 - TotalQty(OfBatch(P, b))
  BY ReadyToCommit
<1>3. \A a \in P : /\ a \in Allocation /\ a \notin allocations /\ a.tx = t
                   /\ a.line \in lines /\ a.line.order = o
                   /\ Holds(t, LineRow(a.line), "KEY SHARE")
  BY ReadyToCommit
<1>4. /\ order'[o].status = "committed" /\ \A k \in Order : order'[k].voided = order[k].voided
      /\ \A k \in Order : k # o => order'[k] = order[k]
  BY <1>2 DEF CommitSale, IInv, TypeOK
<1>5. ~Answered(t) /\ pc[t] # "idle"
  BY <1>1 DEF Answered, Outcome
<1>6. TxOrder(t)' /\ Answered(t)' /\ \A u \in Tx \ {t} : Passive(u)
  BY <1>1, <1>5, Finished DEF Outcome, Answered, Finish, Goto, IInv, TypeOK
<1>7. \A x \in M : /\ x.tx = t /\ x.kind = "sale" /\ x.kind \in SaleKind
                   /\ x.ref \in P /\ x = SaleMovement(t, x.ref)
  BY DEF SaleMovement, SaleKind
<1>8. /\ RowsCommitted /\ LinesFullyAllocated /\ LinesFollowOrder /\ LinesOfOneRequest
      /\ EachAllocationReversedOnce
  BY DEF OInv, TablesOK
<1>9. /\ lines \subseteq Line
      /\ \A l \in lines : l.order \in Order
      /\ \A a \in allocations : a.line.order \in Order /\ a.tx \in Tx
      /\ \A m \in movements : m.tx \in Tx
  BY DEF IInv, TypeOK, Line, Allocation, Movement
<1>10. \A a \in allocations : a.line.order # o
  BY <1>2, <1>8 DEF LinesFullyAllocated
<1>11. IsFiniteSet(P) /\ IsFiniteSet(M)
  <2>1. IsFiniteSet(P)
    BY PlanFinite
  <2> PICK f : f = [a \in P |-> SaleMovement(t, a)]
    OBVIOUS
  <2>2. M = {f[a] : a \in P} /\ DOMAIN f = P
    OBVIOUS
  <2> QED
    BY <2>1, <2>2, FiniteImage
<1>12. RowsCommitted'
  <2>1. \A u \in Tx : Answered(u) => Answered(u)'
    BY <1>6 DEF Answered, Passive
  <2>2. IsFiniteSet(movements') /\ IsFiniteSet(allocations')
    BY <1>1, <1>8, <1>11, FS_Union DEF RowsCommitted
  <2>3. \A a \in allocations' : Answered(a.tx)'
    BY <1>1, <1>3, <1>6, <1>8, <1>9, <2>1 DEF RowsCommitted
  <2>4. \A x \in movements' : Answered(x.tx)' /\ (x.kind \in SaleKind => x.ref \in allocations')
    BY <1>1, <1>6, <1>7, <1>8, <1>9, <2>1 DEF RowsCommitted
  <2>5. \A k \in Order : order'[k].voided => order'[k].status = "committed"
    BY <1>2, <1>4, <1>8 DEF RowsCommitted
  <2> QED
    BY <2>2, <2>3, <2>4, <2>5 DEF RowsCommitted
<1>13. LinesFullyAllocated'
  <2>1. ASSUME NEW l \in lines, order'[l.order].status = "committed"
        PROVE  TotalQty({a \in allocations' : a.line = l}) = l.qty
    <3>1. CASE l.order = o
      <4>1. {a \in allocations' : a.line = l} = {a \in Planned(t) : a.line = l}
        BY <1>1, <1>10, <3>1
      <4>2. PlannedFor(t, l) = l.qty
        BY <1>2, <3>1 DEF LinesOf
      <4> QED
        BY <4>1, <4>2 DEF PlannedFor
    <3>2. CASE l.order # o
      <4>1. {a \in allocations' : a.line = l} = {a \in allocations : a.line = l}
        BY <1>1, <1>3, <3>2
      <4>2. order[l.order].status = "committed"
        BY <1>4, <1>9, <2>1, <3>2
      <4> QED
        BY <1>8, <4>1, <4>2 DEF LinesFullyAllocated
    <3> QED
      BY <3>1, <3>2
  <2>2. ASSUME NEW a \in allocations'
        PROVE  order'[a.line.order].status = "committed" /\ a.line \in lines
    <3>1. CASE a \in P
      BY <1>3, <1>4, <3>1
    <3>2. CASE a \in allocations
      BY <1>4, <1>8, <1>9, <1>10, <3>2 DEF LinesFullyAllocated
    <3> QED
      BY <1>1, <3>1, <3>2
  <2> QED
    BY <1>1, <2>1, <2>2 DEF LinesFullyAllocated
<1>14. LinesFollowOrder' /\ LinesOfOneRequest'
  <2>1. \A k : LinesOf(k)' = LinesOf(k)
    BY <1>1 DEF LinesOf
  <2>2. LinesFollowOrder'
    BY <1>2, <1>4, <1>8, <2>1 DEF LinesFollowOrder
  <2> QED
    BY <1>1, <1>8, <2>2 DEF LinesOfOneRequest
<1>15. EachAllocationReversedOnce'
  <2>1. SUFFICES ASSUME NEW a \in allocations'
        PROVE  LET ref(kind) == {x \in movements' : x.kind = kind /\ x.ref = a} IN
               /\ \E x \in ref("sale") : ref("sale") = {x} /\ x.qty = -a.qty
               /\ IF order'[a.line.order].voided
                  THEN \E x \in ref("sale_void") : /\ ref("sale_void") = {x}
                                                   /\ x.batch = a.batch /\ x.qty = a.qty
                  ELSE ref("sale_void") = {}
    BY DEF EachAllocationReversedOnce
  <2>2. CASE a \in allocations
    <3>1. \A k : {x \in movements' : x.kind = k /\ x.ref = a}
                  = {x \in movements : x.kind = k /\ x.ref = a}
      BY <1>1, <1>3, <1>7, <2>2
    <3>2. order'[a.line.order].voided = order[a.line.order].voided
      BY <1>4, <1>9, <2>2
    <3>3. PICK R, V : /\ R = {x \in movements : x.kind = "sale" /\ x.ref = a}
                      /\ V = {x \in movements : x.kind = "sale_void" /\ x.ref = a}
      OBVIOUS
    <3>4. /\ \E x \in R : R = {x} /\ x.qty = -a.qty
          /\ IF order[a.line.order].voided
             THEN \E x \in V : V = {x} /\ x.batch = a.batch /\ x.qty = a.qty
             ELSE V = {}
      BY <1>8, <2>2, <3>3 DEF EachAllocationReversedOnce
    <3> QED
      BY <3>1, <3>2, <3>3, <3>4
  <2>3. CASE a \in P
    <3>1. \A x \in movements : x.kind \in SaleKind => x.ref # a
      BY <1>3, <1>8, <2>3 DEF RowsCommitted
    <3> PICK s : s = SaleMovement(t, a)
      OBVIOUS
    <3>2. /\ s \in M /\ s.kind = "sale" /\ s.ref = a /\ s.qty = -a.qty
          /\ \A x \in M : x.ref = a => x = s
      BY <1>7, <2>3 DEF SaleMovement
    <3>3. {x \in movements' : x.kind = "sale" /\ x.ref = a} = {s}
      BY <1>1, <3>1, <3>2 DEF SaleKind
    <3>4. {x \in movements' : x.kind = "sale_void" /\ x.ref = a} = {}
      BY <1>1, <1>7, <3>1 DEF SaleKind
    <3>5. ~order'[a.line.order].voided
      BY <1>2, <1>3, <1>4, <2>3
    <3> QED
      BY <3>2, <3>3, <3>4, <3>5
  <2> QED
    BY <1>1, <2>2, <2>3
<1>16. /\ RecallFlagMatchesLedger'
       /\ \A b : RowsOfKinds(movements', b, BatchKind) = RowsOfKinds(movements, b, BatchKind)
  BY <1>1, <1>7, SaleKeepsBatchRows
<1>17. ASSUME NEW b \in Batch
       PROVE  TotalQty(Standing(b)') = TotalQty(Standing(b)) - mem[t].pend[b]
  <2>1. Standing(b)' = Standing(b) \cup OfBatch(P, b)
    BY <1>1, <1>2, <1>3, <1>4, <1>9 DEF Standing, OfBatch
  <2>2. /\ IsFiniteSet(Standing(b)) /\ Quantified(Standing(b)) /\ TotalQty(Standing(b)) \in Int
        /\ Standing(b) \subseteq allocations
    BY StandingTotals
  <2>3. OfBatch(P, b) \subseteq P /\ P \subseteq Allocation
    BY <1>3 DEF OfBatch
  <2>4. IsFiniteSet(OfBatch(P, b)) /\ Quantified(OfBatch(P, b))
    BY <1>11, <2>3, FS_Subset, AllocationsAddUp
  <2>5. Standing(b) \cap OfBatch(P, b) = {}
    BY <1>3, <2>2, <2>3
  <2>6. Quantified(Standing(b) \cup OfBatch(P, b))
    BY <2>2, <2>4 DEF Quantified
  <2>7. TotalQty(Standing(b)') = TotalQty(Standing(b)) + TotalQty(OfBatch(P, b))
    BY <2>1, <2>2, <2>4, <2>5, <2>6, TotalUnion
  <2>8. TotalQty(OfBatch(P, b)) \in Int
    BY <2>4, TotalType
  <2> QED
    BY <1>2, <2>2, <2>7, <2>8
<1>18. StockReconciles'
  BY <1>1, <1>16, <1>17, StockPosted
<1>19. ASSUME NEW u \in Tx \ {t} PROVE Undisturbed(u)
  <2>1. OwnsOrder(u) => req[u].order # o
    BY <1>2, OneOwner
  <2>2. OwnsOrder(u) \/ Drafting(u) => req[u].order \in Order
    BY OwnedExists
  <2>3. OwnsOrder(u) => {a \in allocations' : a.line.order = req[u].order}
                          = AllocationsOf(req[u].order)
    BY <1>1, <1>3, <2>1 DEF AllocationsOf
  <2>4. ASSUME NEW a \in P PROVE a.line \notin mem[u].lost
    <3>1. a.line \in mem[u].lost => Holds(u, LineRow(a.line), "FOR UPDATE")
      BY DEF OInv, TxOrder, LinesLost
    <3> QED
      BY <1>3, <3>1, ForUpdateExcludes DEF IInv
  <2>5. OwnsOrder(u) => {l \in lines' : l.order = req[u].order} = LinesOf(req[u].order)
    BY <1>1 DEF LinesOf
  <2> QED
    BY <1>1, <1>4, <2>1, <2>2, <2>3, <2>4, <2>5 DEF Undisturbed
<1> QED
  BY <1>6, <1>12, <1>13, <1>14, <1>15, <1>16, <1>18, <1>19, WriterStep DEF TablesOK

(* A void about to commit. *)
LEMMA ReadyToVoid ==
  ASSUME IInv, OInv, NEW t \in Tx, CommitVoid(t)
  PROVE  /\ OwnsOrder(t) /\ req[t].order \in Order
         /\ order[req[t].order].status = "committed" /\ ~order[req[t].order].voided
         /\ mem[t].paid = AllocationsOf(req[t].order)
         /\ \A b \in Batch : mem[t].pend[b] = TotalQty(OfBatch(mem[t].paid, b))
<1> PICK m \in Mem : m = mem[t]
  BY DEF IInv, TypeOK
<1>1. pc[t] = "insert_reversals" /\ m.owed = {}
  BY DEF CommitVoid
<1>2. Voiding(t) /\ OwnsOrder(t)
  BY <1>1 DEF Voiding, OwnsOrder
<1>3. /\ req[t].order \in Order /\ order[req[t].order].status = "committed"
      /\ ~order[req[t].order].voided
  BY <1>2, OwnedExists DEF OInv, TxOrder, OrderOwned
<1>4. m.paid = AllocationsOf(req[t].order)
  BY <1>1 DEF OInv, TxOrder, OwedOrPaid
<1>5. ASSUME NEW b \in Batch PROVE m.pend[b] = TotalQty(OfBatch(m.paid, b))
  <2>1. Inserted(t) = {}
    BY <1>1 DEF OInv, TxOrder, NothingYet, Inserted
  <2>2. OfBatch(Inserted(t), b) = {}
    BY <2>1 DEF OfBatch
  <2>3. m.pend[b] = TotalQty(OfBatch(m.paid, b)) - TotalQty(OfBatch(Inserted(t), b))
    BY DEF OInv, TxOrder, PendingAddsUp
  <2>4. TotalQty(OfBatch(m.paid, b)) \in Int
    <3>1. m.paid \subseteq allocations
      BY <1>4 DEF AllocationsOf
    <3>2. m.paid \in SUBSET Allocation /\ IsFiniteSet(m.paid)
      BY <3>1, FS_Subset DEF OInv, TablesOK, RowsCommitted, IInv, TypeOK
    <3> QED
      BY <3>2, BatchTotalType
  <2> QED
    BY <2>2, <2>3, <2>4, TotalEmpty
<1> QED
  BY <1>2, <1>3, <1>4, <1>5

LEMMA CommitVoidOrder ==
  ASSUME IInv, OInv, NEW t \in Tx, CommitVoid(t) PROVE OInv'
<1> PICK o : o = req[t].order
  OBVIOUS
<1> PICK P : P = mem[t].paid
  OBVIOUS
<1> PICK M : M = {VoidMovement(t, a) : a \in P}
  OBVIOUS
<1>1. /\ pc[t] = "insert_reversals" /\ mem[t] \in Mem
      /\ movements' = movements \cup M
      /\ PostPending(t) /\ Finish(t, "ok")
      /\ UNCHANGED <<batch, lines, allocations, req>>
  BY OpenNow DEF CommitVoid, Statement
<1>2. /\ OwnsOrder(t) /\ o \in Order /\ order[o].status = "committed" /\ ~order[o].voided
      /\ P = AllocationsOf(o)
      /\ \A b \in Batch : mem[t].pend[b] = TotalQty(OfBatch(P, b))
  BY ReadyToVoid
<1>3. \A a : a \in P <=> a \in allocations /\ a.line.order = o
  BY <1>2 DEF AllocationsOf
<1>4. /\ order'[o].voided /\ \A k \in Order : order'[k].status = order[k].status
      /\ \A k \in Order : k # o => order'[k] = order[k]
  BY <1>2 DEF CommitVoid, IInv, TypeOK
<1>5. ~Answered(t) /\ pc[t] # "idle"
  BY <1>1 DEF Answered, Outcome
<1>6. TxOrder(t)' /\ Answered(t)' /\ \A u \in Tx \ {t} : Passive(u)
  BY <1>1, <1>5, Finished DEF Outcome, Answered, Finish, Goto, IInv, TypeOK
<1>7. \A x \in M : /\ x.tx = t /\ x.kind = "sale_void" /\ x.kind \in SaleKind
                   /\ x.ref \in P /\ x = VoidMovement(t, x.ref)
  BY DEF VoidMovement, SaleKind
<1>8. /\ RowsCommitted /\ LinesFullyAllocated /\ LinesFollowOrder /\ LinesOfOneRequest
      /\ EachAllocationReversedOnce
  BY DEF OInv, TablesOK
<1>9. /\ \A l \in lines : l.order \in Order
      /\ \A a \in allocations : a.line.order \in Order /\ a.tx \in Tx
      /\ \A m \in movements : m.tx \in Tx
      /\ allocations \subseteq Allocation
  BY DEF IInv, TypeOK, Line, Allocation, Movement
<1>10. IsFiniteSet(P) /\ IsFiniteSet(M)
  <2>1. IsFiniteSet(P)
    BY <1>3, <1>8, FS_Subset DEF RowsCommitted
  <2> PICK f : f = [a \in P |-> VoidMovement(t, a)]
    OBVIOUS
  <2>2. M = {f[a] : a \in P} /\ DOMAIN f = P
    OBVIOUS
  <2> QED
    BY <2>1, <2>2, FiniteImage
<1>11. RowsCommitted'
  <2>1. \A u \in Tx : Answered(u) => Answered(u)'
    BY <1>6 DEF Answered, Passive
  <2>2. IsFiniteSet(movements') /\ IsFiniteSet(allocations')
    BY <1>1, <1>8, <1>10, FS_Union DEF RowsCommitted
  <2>3. \A a \in allocations' : Answered(a.tx)'
    BY <1>1, <1>8, <1>9, <2>1 DEF RowsCommitted
  <2>4. \A x \in movements' : Answered(x.tx)' /\ (x.kind \in SaleKind => x.ref \in allocations')
    BY <1>1, <1>3, <1>6, <1>7, <1>8, <1>9, <2>1 DEF RowsCommitted
  <2>5. \A k \in Order : order'[k].voided => order'[k].status = "committed"
    BY <1>2, <1>4, <1>8 DEF RowsCommitted
  <2> QED
    BY <2>2, <2>3, <2>4, <2>5 DEF RowsCommitted
<1>12. LinesFullyAllocated'
  BY <1>1, <1>4, <1>8, <1>9 DEF LinesFullyAllocated
<1>13. LinesFollowOrder' /\ LinesOfOneRequest'
  <2>1. \A k : LinesOf(k)' = LinesOf(k)
    BY <1>1 DEF LinesOf
  <2>2. LinesFollowOrder'
    BY <1>4, <1>8, <2>1 DEF LinesFollowOrder
  <2> QED
    BY <1>1, <1>8, <2>2 DEF LinesOfOneRequest
<1>14. EachAllocationReversedOnce'
  <2>1. SUFFICES ASSUME NEW a \in allocations
        PROVE  LET ref(kind) == {x \in movements' : x.kind = kind /\ x.ref = a} IN
               /\ \E x \in ref("sale") : ref("sale") = {x} /\ x.qty = -a.qty
               /\ IF order'[a.line.order].voided
                  THEN \E x \in ref("sale_void") : /\ ref("sale_void") = {x}
                                                   /\ x.batch = a.batch /\ x.qty = a.qty
                  ELSE ref("sale_void") = {}
    BY <1>1 DEF EachAllocationReversedOnce
  <2>2. PICK R, V : /\ R = {x \in movements : x.kind = "sale" /\ x.ref = a}
                    /\ V = {x \in movements : x.kind = "sale_void" /\ x.ref = a}
    OBVIOUS
  <2>3. /\ \E x \in R : R = {x} /\ x.qty = -a.qty
        /\ IF order[a.line.order].voided
           THEN \E x \in V : V = {x} /\ x.batch = a.batch /\ x.qty = a.qty
           ELSE V = {}
    BY <1>8, <2>2 DEF EachAllocationReversedOnce
  <2>4. {x \in movements' : x.kind = "sale" /\ x.ref = a} = R
    BY <1>1, <1>7, <2>2
  <2>5. CASE a \notin P
    <3>1. {x \in movements' : x.kind = "sale_void" /\ x.ref = a} = V
      BY <1>1, <1>7, <2>2, <2>5
    <3>2. order'[a.line.order].voided = order[a.line.order].voided
      BY <1>3, <1>4, <1>9, <2>5
    <3> QED
      BY <2>3, <2>4, <3>1, <3>2
  <2>6. CASE a \in P
    <3> PICK s : s = VoidMovement(t, a)
      OBVIOUS
    <3>1. /\ s \in M /\ s.kind = "sale_void" /\ s.ref = a /\ s.batch = a.batch /\ s.qty = a.qty
          /\ \A x \in M : x.ref = a => x = s
      BY <1>7, <2>6 DEF VoidMovement
    <3>2. V = {} /\ order'[a.line.order].voided
      BY <1>2, <1>3, <1>4, <2>3, <2>6
    <3>3. {x \in movements' : x.kind = "sale_void" /\ x.ref = a} = {s}
      BY <1>1, <2>2, <3>1, <3>2
    <3> QED
      BY <2>3, <2>4, <3>1, <3>2, <3>3
  <2> QED
    BY <2>5, <2>6
<1>15. /\ RecallFlagMatchesLedger'
       /\ \A b : RowsOfKinds(movements', b, BatchKind) = RowsOfKinds(movements, b, BatchKind)
  BY <1>1, <1>7, SaleKeepsBatchRows
<1>16. ASSUME NEW b \in Batch
       PROVE  TotalQty(Standing(b)') = TotalQty(Standing(b)) - mem[t].pend[b]
  <2> PICK S, A : S = Standing(b)' /\ A = OfBatch(P, b)
    OBVIOUS
  <2>1. S = {a \in allocations : a.batch = b /\ ~order'[a.line.order].voided}
    BY <1>1 DEF Standing
  <2>2. A = {a \in allocations : a.batch = b /\ a.line.order = o}
    BY <1>3 DEF OfBatch
  <2>3. Standing(b) = S \cup A /\ S \cap A = {}
    BY <1>2, <1>4, <1>9, <2>1, <2>2 DEF Standing
  <2>4. S \in SUBSET Allocation /\ A \in SUBSET Allocation
        /\ S \subseteq allocations /\ A \subseteq allocations
    BY <1>9, <2>1, <2>2
  <2>5. IsFiniteSet(S) /\ IsFiniteSet(A)
    BY <1>8, <2>4, FS_Subset DEF RowsCommitted
  <2>6. Quantified(S) /\ Quantified(A) /\ Quantified(S \cup A)
    BY <2>4, AllocationsAddUp DEF Quantified
  <2>7. TotalQty(S \cup A) = TotalQty(S) + TotalQty(A)
    BY <2>3, <2>5, <2>6, TotalUnion
  <2>8. TotalQty(S) \in Int /\ TotalQty(A) \in Int
    BY <2>5, <2>6, TotalType
  <2>9. TotalQty(Standing(b)) = TotalQty(S) + TotalQty(A)
    BY <2>3, <2>7
  <2>10. mem[t].pend[b] = TotalQty(A)
    BY <1>2
  <2>11. TotalQty(S) = TotalQty(Standing(b)) - mem[t].pend[b]
    BY <2>8, <2>9, <2>10
  <2> QED
    BY <2>11
<1>17. StockReconciles'
  BY <1>1, <1>15, <1>16, StockPosted
<1>18. ASSUME NEW u \in Tx \ {t} PROVE Undisturbed(u)
  <2>1. OwnsOrder(u) => req[u].order # o
    BY <1>2, OneOwner
  <2>2. OwnsOrder(u) \/ Drafting(u) => req[u].order \in Order
    BY OwnedExists
  <2> QED
    BY <1>1, <1>4, <2>1, <2>2 DEF Undisturbed, LinesOf, AllocationsOf
<1> QED
  BY <1>6, <1>11, <1>12, <1>13, <1>14, <1>15, <1>17, <1>18, WriterStep DEF TablesOK

-------------------------------------------------------------------------------
(* The invariant *)

LEMMA InitOInv == Init => OInv
<1> SUFFICES ASSUME Init PROVE OInv
  OBVIOUS
<1>1. /\ movements = {} /\ allocations = {} /\ lines = InitialLines /\ onHand = Received
      /\ batch = [b \in Batch |-> [recalled |-> FALSE, expiry |-> InitialExpiry[b]]]
  BY DEF Init
<1>2. \A o \in Order :
        /\ order[o].status = IF \E l \in InitialLines : l.order = o THEN "draft" ELSE "absent"
        /\ ~order[o].voided
  BY DEF Init
<1>3. \A l \in lines : l.order \in Order /\ l.by = NoTx
  BY <1>1, SalesConstants
<1>4. RowsCommitted
  BY <1>1, <1>2, FS_EmptySet DEF RowsCommitted
<1>5. LinesFullyAllocated
  BY <1>1, <1>2, <1>3 DEF LinesFullyAllocated
<1>6. LinesFollowOrder /\ LinesOfOneRequest
  <2>1. \A o \in Order : LinesOf(o) # {} <=> order[o].status = "draft"
    BY <1>1, <1>2 DEF LinesOf
  <2>2. \A o \in Order : order[o].status # "committed"
    BY <1>2
  <2>3. LinesFollowOrder
    BY <2>1, <2>2 DEF LinesFollowOrder
  <2> QED
    BY <1>3, <2>3 DEF LinesOfOneRequest
<1>7. EachAllocationReversedOnce
  BY <1>1 DEF EachAllocationReversedOnce
<1>8. StockReconciles
  <2>1. SUFFICES ASSUME NEW b \in Batch
                 PROVE  onHand[b] = Received[b] + TotalQty(RowsOfKinds(movements, b, BatchKind))
                                      - TotalQty(Standing(b))
    BY DEF StockReconciles, RowsOfKinds, Standing
  <2>2. RowsOfKinds(movements, b, BatchKind) = {} /\ Standing(b) = {}
    BY <1>1 DEF RowsOfKinds, Standing
  <2>3. Received[b] \in Int
    BY SalesConstants
  <2>4. /\ TotalQty(RowsOfKinds(movements, b, BatchKind)) = 0
        /\ TotalQty(Standing(b)) = 0
    BY <2>2, TotalEmpty
  <2> QED
    BY <1>1, <2>3, <2>4
<1>9. RecallFlagMatchesLedger
  <2>1. SUFFICES ASSUME NEW b \in Batch
                 PROVE  Cardinality(RowsOf(movements, b, "recall_block")) =
                          Cardinality(RowsOf(movements, b, "recall_unblock"))
                            + (IF batch[b].recalled THEN 1 ELSE 0)
    BY DEF RecallFlagMatchesLedger, RowsOf
  <2>2. \A k : RowsOf(movements, b, k) = {}
    BY <1>1 DEF RowsOf
  <2>3. ~batch[b].recalled
    BY <1>1
  <2> QED
    BY <2>2, <2>3, FS_EmptySet
<1>10. ASSUME NEW t \in Tx PROVE TxOrder(t)
  <2>1. pc[t] = "idle" /\ mem[t] = Blank
    BY DEF Init
  <2> PICK m : m = mem[t]
    OBVIOUS
  <2>2. /\ m.plan = <<>> /\ m.ins = 0 /\ m.lost = {} /\ m.owed = {} /\ m.paid = {}
        /\ m.pend = NoStock
    BY <2>1 DEF Blank
  <2>3. OrderOwned(t) /\ PlanCovers(t) /\ OwedOrPaid(t) /\ RecallPending(t)
    BY <2>1 DEF OrderOwned, PlanCovers, OwedOrPaid, RecallPending, Committing, Voiding,
                Editing, Deleting
  <2>4. NothingYet(t)
    BY <2>1, <2>2 DEF NothingYet
  <2>5. Inserted(t) = {}
    BY <2>2 DEF Inserted
  <2>6. PlanNumbered(t)
    BY <2>2, <2>5 DEF PlanNumbered
  <2>7. PendingAddsUp(t)
    <3>1. SUFFICES ASSUME NEW b \in Batch
                   PROVE  m.pend[b] = TotalQty(OfBatch(m.paid, b))
                                        - TotalQty(OfBatch(Inserted(t), b))
      BY DEF PendingAddsUp
    <3>2. OfBatch(m.paid, b) = {} /\ OfBatch(Inserted(t), b) = {} /\ m.pend[b] = 0
      BY <2>2, <2>5 DEF OfBatch, NoStock
    <3> QED
      BY <3>2, TotalEmpty
  <2>8. LinesLost(t)
    BY <2>1, <2>2 DEF LinesLost, Drafting, Editing
  <2> QED
    BY <2>3, <2>4, <2>6, <2>7, <2>8 DEF TxOrder
<1> QED
  BY <1>4, <1>5, <1>6, <1>7, <1>8, <1>9, <1>10 DEF OInv, TablesOK

LEMMA StutterOrder ==
  ASSUME OInv, UNCHANGED vars PROVE OInv'
<1>1. TablesOK'
  BY DEF OInv, TablesOK, vars, tables, RowsCommitted, LinesFullyAllocated, LinesFollowOrder,
         LinesOfOneRequest, LinesOf, EachAllocationReversedOnce, StockReconciles,
         RecallFlagMatchesLedger, Answered
<1>2. ASSUME NEW u \in Tx PROVE TxOrder(u)'
  BY PassiveLemma DEF OInv, vars, tables, Passive, Undisturbed, LinesOf, AllocationsOf, Holds
<1> QED
  BY <1>1, <1>2 DEF OInv

LEMMA NextOInv == IInv /\ OInv /\ [Next]_vars => OInv'
<1> SUFFICES ASSUME IInv, OInv, [Next]_vars PROVE OInv'
  OBVIOUS
<1>1. CASE Quiescent \/ UNCHANGED vars
  BY <1>1, StutterOrder DEF Quiescent
<1>2. ASSUME NEW t \in Tx,
             Start(t) \/ CreateOrder(t) \/ Step(t) \/ DeadlockVictim(t) \/ Crash(t)
      PROVE  OInv'
  <2>1. CASE Start(t)
    BY <2>1, StartOrder
  <2>2. CASE CreateOrder(t)
    BY <2>2, CreateOrderOrder
  <2>3. CASE Rollbacks(t)
    BY <2>3, OrderRollback
  <2>4. CASE Fefo(t)
    BY <2>3, <2>4, FefoSelectOrder, FefoTakeOrder, FefoPassOrder, FefoLineDoneOrder,
       PlanDoneOrder DEF Fefo, Rollbacks
  <2>5. CASE Sale(t)
    BY <2>3, <2>5, LockOrderOrder, ReadLinesOrder, ValidateExplicitOrder, PlanDoneOrder,
       InsertSaleOrder, CommitSaleOrder, ReadAllocationsOrder, InsertReversalOrder,
       CommitVoidOrder DEF Sale, Rollbacks
  <2>6. CASE Draft(t)
    BY <2>3, <2>6, ReadOrderOrder, UpdateHeaderOrder, SelectLinesOrder, DeleteLineOrder,
       SkipLineOrder, LinesDeletedOrder, DeleteHeaderOrder, CommitUpdateOrder,
       CommitDeleteOrder DEF Draft, Rollbacks
  <2>7. CASE Stock(t)
    BY <2>3, <2>7, LockBatchOrder, CheckOnHandOrder, WriteBatchOrder DEF Stock, Rollbacks
  <2> QED
    BY <1>2, <2>1, <2>2, <2>3, <2>4, <2>5, <2>6, <2>7 DEF Step, Rollbacks
<1> QED
  BY <1>1, <1>2 DEF Next

THEOREM OrdersInvariant == Spec => []OInv
<1>1. Init => IInv /\ OInv
  BY InitIInv, InitOInv
<1>2. (IInv /\ OInv) /\ [Next]_vars => (IInv /\ OInv)'
  BY NextIInv, NextOInv
<1> QED
  BY <1>1, <1>2, PTL DEF Spec

(* A committed order is allocated in full, whatever commits of it or edits *)
(* of its draft run beside it (commit_sales_order).                        *)
THEOREM FullyAllocated == Spec => []LinesFullyAllocated
<1>1. OInv => LinesFullyAllocated
  BY DEF OInv, TablesOK
<1> QED
  BY <1>1, OrdersInvariant, PTL

(* Concurrent edits and deletions leave neither an empty order nor         *)
(* orphaned lines (update_sales_order_draft, delete_sales_order_draft).    *)
THEOREM OrdersKeepLines == Spec => []LinesFollowOrder
<1>1. OInv => LinesFollowOrder
  BY DEF OInv, TablesOK
<1> QED
  BY <1>1, OrdersInvariant, PTL

(* Edits that replace the lines beside each other do not end up merged.    *)
THEOREM EditsNotMerged == Spec => []LinesOfOneRequest
<1>1. OInv => LinesOfOneRequest
  BY DEF OInv, TablesOK
<1> QED
  BY <1>1, OrdersInvariant, PTL

(* No void, repeated or concurrent, returns stock twice or by halves       *)
(* (void_sales_order).                                                     *)
THEOREM ReversedOnce == Spec => []EachAllocationReversedOnce
<1>1. OInv => EachAllocationReversedOnce
  BY DEF OInv, TablesOK
<1> QED
  BY <1>1, OrdersInvariant, PTL

(* The view over the ledger and the sales documents tell one story.        *)
THEOREM StockAddsUp == Spec => []StockReconciles
<1>1. OInv => StockReconciles
  BY DEF OInv, TablesOK
<1> QED
  BY <1>1, OrdersInvariant, PTL

(* The recall flag and the ledger agree (recall_batch, un_recall_batch).   *)
THEOREM RecallFlagKept == Spec => []RecallFlagMatchesLedger
<1>1. OInv => RecallFlagMatchesLedger
  BY DEF OInv, TablesOK
<1> QED
  BY <1>1, OrdersInvariant, PTL

(* Six actions write what orders and stock are made of. *)
LEMMA DocumentWriters ==
  ASSUME [Next]_vars
  PROVE  \/ UNCHANGED <<order, lines, allocations, onHand>>
         \/ \E t \in Tx : \/ CreateOrder(t) \/ CommitUpdate(t) \/ CommitDelete(t)
                          \/ CommitSale(t) \/ CommitVoid(t) \/ WriteBatch(t)
<1>1. CASE Quiescent \/ UNCHANGED vars
  BY <1>1 DEF Quiescent, vars, tables
<1>2. ASSUME NEW t \in Tx,
             Start(t) \/ CreateOrder(t) \/ Step(t) \/ DeadlockVictim(t) \/ Crash(t)
      PROVE  \/ UNCHANGED <<order, lines, allocations, onHand>>
             \/ CreateOrder(t) \/ CommitUpdate(t) \/ CommitDelete(t)
             \/ CommitSale(t) \/ CommitVoid(t) \/ WriteBatch(t)
  <2>1. CASE Start(t) \/ CreateOrder(t)
    BY <2>1 DEF Start, tables
  <2>2. CASE Rollbacks(t)
    BY <2>2 DEF Rollbacks, Rollback, tables, InsufficientStock, PreviewDone,
       OrderRefused, VoidedAlready, InvalidAllocation, NotDraft, HeaderGone,
       LinesReferenced, HeaderReferenced, BatchUnchanged, WriteOffExceedsOnHand,
       SignRefused, CodeTaken, DeadlockVictim, Crash
  <2>3. CASE Fefo(t)
    BY <2>2, <2>3 DEF Fefo, Rollbacks, FefoSelect, FefoTake, FefoPass, FefoLineDone,
       FefoDone, tables
  <2>4. CASE Sale(t)
    BY <2>2, <2>4 DEF Sale, Rollbacks, LockOrder, ReadLines, ValidateExplicit,
       ExplicitDone, InsertSale, ReadAllocations, InsertReversal, tables
  <2>5. CASE Draft(t)
    BY <2>2, <2>5 DEF Draft, Rollbacks, ReadOrder, UpdateHeader, SelectLines, DeleteLine,
       SkipLine, LinesDeleted, DeleteHeader, tables
  <2>6. CASE Stock(t)
    BY <2>2, <2>6 DEF Stock, Rollbacks, LockBatch, CheckOnHand, tables
  <2> QED
    BY <1>2, <2>1, <2>2, <2>3, <2>4, <2>5, <2>6 DEF Step, Rollbacks
<1> QED
  BY <1>1, <1>2 DEF Next

(* What was committed stays (D6, D8): no edit, deletion, second commit or  *)
(* void takes a line or an allocation from a committed order, or reopens   *)
(* it, and a void is final.                                                *)
THEOREM CommittedStays == Spec => CommittedFrozen
<1> DEFINE Frozen(o) == /\ order'[o].status = "committed"
                        /\ order[o].voided => order'[o].voided
                        /\ LinesOf(o)' = LinesOf(o)
                        /\ AllocationsOf(o)' = AllocationsOf(o)
<1>1. ASSUME IInv, OInv, [Next]_vars, NEW o \in Order, order[o].status = "committed"
      PROVE  Frozen(o)
  <2>1. CASE UNCHANGED <<order, lines, allocations>>
    BY <1>1, <2>1 DEF LinesOf, AllocationsOf
  <2>2. ASSUME NEW t \in Tx, CreateOrder(t) PROVE Frozen(o)
    <3>1. PICK r \in Request, k \in Order :
            /\ order[k].status = "absent"
            /\ order' = [order EXCEPT ![k].status = "draft", ![k].header = r.header]
            /\ lines' = lines \cup NewLines(t, k, r.lines)
            /\ UNCHANGED allocations
      BY <2>2 DEF CreateOrder
    <3>2. o # k /\ \A l \in NewLines(t, k, r.lines) : l.order = k
      BY <1>1, <3>1 DEF NewLines
    <3> QED
      BY <1>1, <3>1, <3>2 DEF LinesOf, AllocationsOf, IInv, TypeOK
  <2>3. ASSUME NEW t \in Tx, CommitUpdate(t) PROVE Frozen(o)
    <3>1. LinesOf(o)' = LinesOf(o)
      <4>1. CASE req[t].order = o
        <5>1. lines' = lines
          BY <1>1, <2>3, <4>1, UpdateWrites
        <5> QED
          BY <5>1 DEF LinesOf
      <4>2. CASE req[t].order # o
        BY <1>1, <2>3, <4>2, UpdateWrites
      <4> QED
        BY <4>1, <4>2
    <3> QED
      BY <1>1, <2>3, <3>1 DEF CommitUpdate, AllocationsOf, IInv, TypeOK
  <2>4. ASSUME NEW t \in Tx, CommitDelete(t) PROVE Frozen(o)
    <3>1. /\ pc[t] = "commit_draft" /\ req[t].op = "delete" /\ UNCHANGED allocations
          /\ order' = [order EXCEPT ![req[t].order].status = "deleted"]
          /\ lines' = lines \ mem[t].lost
      BY <2>4 DEF CommitDelete
    <3>2. OrderOwned(t) /\ LinesLost(t)
      BY <1>1 DEF OInv, TxOrder
    <3>3. o # req[t].order
      BY <1>1, <3>1, <3>2, LostOfDraft DEF OrderOwned, Deleting
    <3>4. \A l \in mem[t].lost : l.order = req[t].order
      BY <3>2 DEF LinesLost
    <3> QED
      BY <1>1, <3>1, <3>3, <3>4 DEF LinesOf, AllocationsOf, IInv, TypeOK
  <2>5. ASSUME NEW t \in Tx, CommitSale(t) PROVE Frozen(o)
    <3>1. /\ order' = [order EXCEPT ![req[t].order].status = "committed"]
          /\ allocations' = allocations \cup Planned(t) /\ UNCHANGED lines
      BY <2>5 DEF CommitSale
    <3>2. o # req[t].order /\ \A a \in Planned(t) : a.line.order = req[t].order
      BY <1>1, <2>5, ReadyToCommit
    <3> QED
      BY <1>1, <3>1, <3>2 DEF LinesOf, AllocationsOf, IInv, TypeOK
  <2>6. ASSUME NEW t \in Tx, CommitVoid(t) PROVE Frozen(o)
    BY <1>1, <2>6 DEF CommitVoid, LinesOf, AllocationsOf, IInv, TypeOK
  <2>7. ASSUME NEW t \in Tx, WriteBatch(t) PROVE Frozen(o)
    BY <2>1, <2>7 DEF WriteBatch
  <2> QED
    BY <1>1, <2>1, <2>2, <2>3, <2>4, <2>5, <2>6, <2>7, DocumentWriters
<1>2. IInv /\ OInv /\ [Next]_vars =>
        [\A o \in Order : order[o].status = "committed" => Frozen(o)]_vars
  BY <1>1
<1> QED
  BY <1>2, Inductive, OrdersInvariant, PTL DEF Spec, CommittedFrozen

-------------------------------------------------------------------------------
(* The life cycle: each step that writes the documents or the stock is a   *)
(* step of OrderLifecycle, every other step is none                        *)

(* What the life cycle sees of a step that allocates nothing. *)
LEMMA SoldKept ==
  ASSUME UNCHANGED allocations
  PROVE  \A o : SoldBy(o)' = SoldBy(o)
  BY DEF SoldBy, AllocationsOf

(* The step moves order o on, and no other order. *)
MovesOn(o, to) == \A k \in Order : StateOf(k)' = IF k = o THEN to ELSE StateOf(k)

LEMMA MoveMaps ==
  ASSUME NEW o \in Order, NEW from, NEW to, StateOf(o) = from, MovesOn(o, to)
  PROVE  Lifecycle!Moves(o, from, to)
<1>1. [k \in Order |-> StateOf(k)]' = [[k \in Order |-> StateOf(k)] EXCEPT ![o] = to]
  BY DEF MovesOn
<1> QED
  BY <1>1 DEF Lifecycle!Moves

(* A step the life cycle does not see. *)
LEMMA StutterMaps ==
  ASSUME \A k \in Order : StateOf(k)' = StateOf(k) /\ SoldBy(k)' = SoldBy(k),
         UNCHANGED onHand
  PROVE  UNCHANGED Lifecycle!lifecycleVars
  BY DEF Lifecycle!lifecycleVars

LEMMA InitMaps == Init => Lifecycle!Init
<1> SUFFICES ASSUME Init PROVE Lifecycle!Init
  OBVIOUS
<1>1. \A o \in Order : StateOf(o) \in {"absent", "draft"}
  BY DEF Init, StateOf
<1>2. ASSUME NEW o \in Order PROVE SoldBy(o) = [b \in Batch |-> 0]
  <2>1. \A b \in Batch : {a \in AllocationsOf(o) : a.batch = b} = {}
    BY DEF Init, AllocationsOf
  <2> QED
    BY <2>1, TotalEmpty DEF SoldBy
<1>3. onHand \in [Batch -> Nat]
  BY SalesConstants DEF Init
<1> QED
  BY <1>1, <1>2, <1>3 DEF Lifecycle!Init, Lifecycle!Nothing

LEMMA CreateMaps ==
  ASSUME IInv, OInv, NEW t \in Tx, CreateOrder(t)
  PROVE  Lifecycle!Next
<1>1. PICK r \in Request, o \in Order :
        /\ order[o].status = "absent"
        /\ order' = [order EXCEPT ![o].status = "draft", ![o].header = r.header]
        /\ UNCHANGED <<onHand, allocations>>
  BY DEF CreateOrder
<1>2. ~order[o].voided
  BY <1>1 DEF OInv, TablesOK, RowsCommitted
<1>3. StateOf(o) = "absent" /\ MovesOn(o, "draft")
  BY <1>1, <1>2 DEF MovesOn, StateOf, IInv, TypeOK
<1>4. Lifecycle!Create(o)
  BY <1>1, <1>3, MoveMaps, SoldKept DEF Lifecycle!Create
<1> QED
  BY <1>4 DEF Lifecycle!Next

LEMMA UpdateMaps ==
  ASSUME IInv, OInv, NEW t \in Tx, CommitUpdate(t)
  PROVE  UNCHANGED Lifecycle!lifecycleVars
<1>1. \A k \in Order : StateOf(k)' = StateOf(k)
  BY DEF CommitUpdate, StateOf, IInv, TypeOK
<1>2. UNCHANGED <<onHand, allocations>>
  BY DEF CommitUpdate
<1> QED
  BY <1>1, <1>2, SoldKept, StutterMaps

(* The second of two deletions changes nothing. *)
LEMMA DeleteMaps ==
  ASSUME IInv, OInv, NEW t \in Tx, CommitDelete(t)
  PROVE  [Lifecycle!Next]_(Lifecycle!lifecycleVars)
<1> PICK o : o = req[t].order
  OBVIOUS
<1>1. /\ pc[t] = "commit_draft" /\ Deleting(t)
      /\ order' = [order EXCEPT ![o].status = "deleted"]
      /\ UNCHANGED <<onHand, allocations>>
  BY DEF CommitDelete, Deleting
<1>2. o \in Order /\ order[o].status # "absent"
  BY <1>1, OwnedExists DEF OwnsOrder
<1>3. order[o].status # "committed"
  BY <1>1, LostOfDraft DEF OInv, TxOrder, OrderOwned
<1>4. ~order[o].voided
  BY <1>2, <1>3 DEF OInv, TablesOK, RowsCommitted
<1>5. order[o].status \in {"draft", "deleted"}
  BY <1>2, <1>3 DEF IInv, TypeOK
<1>6. StateOf(o) = order[o].status /\ MovesOn(o, "deleted")
  BY <1>1, <1>2, <1>4 DEF MovesOn, StateOf, IInv, TypeOK
<1>7. CASE order[o].status = "draft"
  <2>1. Lifecycle!Delete(o)
    BY <1>1, <1>2, <1>6, <1>7, MoveMaps, SoldKept DEF Lifecycle!Delete
  <2> QED
    BY <1>2, <2>1 DEF Lifecycle!Next
<1>8. CASE order[o].status = "deleted"
  BY <1>1, <1>6, <1>8, SoldKept, StutterMaps DEF MovesOn
<1> QED
  BY <1>5, <1>7, <1>8

(* A commit takes something: its order has a line, of a positive quantity. *)
LEMMA CommitMaps ==
  ASSUME IInv, OInv, NEW t \in Tx, CommitSale(t)
  PROVE  Lifecycle!Next
<1> PICK o : o = req[t].order
  OBVIOUS
<1> PICK P : P = Planned(t)
  OBVIOUS
<1>1. /\ order' = [order EXCEPT ![o].status = "committed"]
      /\ allocations' = allocations \cup P
      /\ onHand' = [b \in Batch |-> onHand[b] + mem[t].pend[b]]
  BY DEF CommitSale, PostPending
<1>2. /\ o \in Order /\ order[o].status = "draft" /\ ~order[o].voided
      /\ \A l \in LinesOf(o) : PlannedFor(t, l) = l.qty
      /\ \A a \in P : a \in Allocation /\ a.line.order = o
      /\ \A b \in Batch : mem[t].pend[b] = 0 - TotalQty(OfBatch(P, b))
  BY ReadyToCommit
<1>3. StateOf(o) = "draft" /\ MovesOn(o, "committed")
  BY <1>1, <1>2 DEF MovesOn, StateOf, IInv, TypeOK
<1>4. \A k \in Order : k # o => SoldBy(k)' = SoldBy(k)
  <2>1. \A k : k # o => AllocationsOf(k)' = AllocationsOf(k)
    BY <1>1, <1>2 DEF AllocationsOf
  <2> QED
    BY <2>1 DEF SoldBy
<1>5. SoldBy(o)' = [b \in Batch |-> TotalQty(OfBatch(P, b))]
  <2>1. AllocationsOf(o) = {}
    BY <1>2 DEF AllocationsOf, OInv, TablesOK, LinesFullyAllocated
  <2>2. AllocationsOf(o)' = P
    BY <1>1, <1>2, <2>1 DEF AllocationsOf
  <2> QED
    BY <2>2 DEF SoldBy, OfBatch
<1>6. ASSUME NEW b \in Batch
      PROVE  /\ TotalQty(OfBatch(P, b)) \in Nat
             /\ OfBatch(P, b) # {} => TotalQty(OfBatch(P, b)) # 0
  <2>1. OfBatch(P, b) \subseteq P /\ P \subseteq Allocation
    BY <1>2 DEF OfBatch
  <2>2. IsFiniteSet(OfBatch(P, b))
    BY <2>1, PlanFinite, FS_Subset
  <2>3. \A x \in OfBatch(P, b) : x.qty \in Nat \ {0}
    BY <2>1, AllocationsAddUp
  <2> QED
    BY <2>2, <2>3, TotalPositive
<1>7. PICK l \in lines : l.order = o
  BY <1>2 DEF OInv, TablesOK, LinesFollowOrder, LinesOf
<1>8. PICK a \in P : a.line = l
  <2>1. PlannedFor(t, l) = l.qty /\ l.qty # 0
    BY <1>2, <1>7 DEF LinesOf, IInv, TypeOK, Line
  <2>2. {a \in P : a.line = l} # {}
    BY <2>1, TotalEmpty DEF PlannedFor
  <2> QED
    BY <2>2
<1>9. a.batch \in Batch /\ OfBatch(P, a.batch) # {}
  BY <1>2, <1>8 DEF OfBatch, Allocation
<1>10. SoldBy(o)' \in [Batch -> Nat] /\ SoldBy(o)' # [b \in Batch |-> 0]
  BY <1>5, <1>6, <1>9
<1>11. onHand' = [b \in Batch |-> onHand[b] - SoldBy(o)'[b]]
  <2>1. \A b \in Batch : onHand[b] \in Int
    BY DEF IInv, TypeOK
  <2>2. \A b \in Batch : onHand[b] + mem[t].pend[b] = onHand[b] - SoldBy(o)'[b]
    BY <1>2, <1>5, <1>6, <2>1
  <2> QED
    BY <1>1, <2>2
<1>12. Lifecycle!Commit(o)
  BY <1>2, <1>3, <1>4, <1>10, <1>11, MoveMaps DEF Lifecycle!Commit, Lifecycle!Nothing
<1> QED
  BY <1>2, <1>12 DEF Lifecycle!Next

(* A void returns exactly what the order has taken. *)
LEMMA VoidMaps ==
  ASSUME IInv, OInv, NEW t \in Tx, CommitVoid(t)
  PROVE  Lifecycle!Next
<1> PICK o : o = req[t].order
  OBVIOUS
<1>1. /\ order' = [order EXCEPT ![o].voided = TRUE]
      /\ onHand' = [b \in Batch |-> onHand[b] + mem[t].pend[b]]
      /\ UNCHANGED allocations
  BY DEF CommitVoid, PostPending
<1>2. /\ o \in Order /\ order[o].status = "committed" /\ ~order[o].voided
      /\ \A b \in Batch : mem[t].pend[b] = TotalQty(OfBatch(AllocationsOf(o), b))
  BY ReadyToVoid
<1>3. StateOf(o) = "committed" /\ MovesOn(o, "voided")
  BY <1>1, <1>2 DEF MovesOn, StateOf, IInv, TypeOK
<1>4. \A b \in Batch : SoldBy(o)[b] = mem[t].pend[b]
  BY <1>2 DEF SoldBy, OfBatch
<1>5. onHand' = [b \in Batch |-> onHand[b] + SoldBy(o)[b]]
  BY <1>1, <1>4
<1>6. Lifecycle!Void(o)
  BY <1>1, <1>2, <1>3, <1>5, MoveMaps, SoldKept DEF Lifecycle!Void
<1> QED
  BY <1>2, <1>6 DEF Lifecycle!Next

LEMMA AdjustMaps ==
  ASSUME IInv, OInv, NEW t \in Tx, WriteBatch(t)
  PROVE  Lifecycle!Next
<1> PICK b : b = req[t].batch
  OBVIOUS
<1>1. /\ onHand' = [onHand EXCEPT ![b] = @ + QuantityOf(req[t])]
      /\ UNCHANGED <<order, allocations>>
  BY DEF WriteBatch
<1>2. req[t] \in Request /\ b \in Batch /\ QuantityOf(req[t]) \in Int
  BY OpenNow, RequestFields DEF WriteBatch, Statement, OpsAt, QuantityOf
<1>3. \A k : StateOf(k)' = StateOf(k) /\ SoldBy(k)' = SoldBy(k)
  BY <1>1, SoldKept DEF StateOf
<1>4. (\A c \in Batch \ {b} : onHand'[c] = onHand[c]) /\ onHand' \in [Batch -> Int]
  BY <1>1, <1>2 DEF IInv, TypeOK
<1>5. Lifecycle!Adjust(b)
  BY <1>3, <1>4 DEF Lifecycle!Adjust
<1> QED
  BY <1>2, <1>5 DEF Lifecycle!Next

LEMMA StepMaps ==
  ASSUME IInv, OInv, [Next]_vars
  PROVE  [Lifecycle!Next]_(Lifecycle!lifecycleVars)
<1>1. CASE UNCHANGED <<order, lines, allocations, onHand>>
  <2>1. \A k : StateOf(k)' = StateOf(k) /\ SoldBy(k)' = SoldBy(k)
    BY <1>1, SoldKept DEF StateOf
  <2> QED
    BY <1>1, <2>1, StutterMaps
<1>2. ASSUME NEW t \in Tx,
             \/ CreateOrder(t) \/ CommitUpdate(t) \/ CommitDelete(t)
             \/ CommitSale(t) \/ CommitVoid(t) \/ WriteBatch(t)
      PROVE  [Lifecycle!Next]_(Lifecycle!lifecycleVars)
  BY <1>2, CreateMaps, UpdateMaps, DeleteMaps, CommitMaps, VoidMaps, AdjustMaps
<1> QED
  BY <1>1, <1>2, DocumentWriters

(* Interleaved transactions, deadlock victims and crashes look like single *)
(* steps of the life cycle of orders (services of apps/sales).             *)
THEOREM TransactionsImplementLifecycle == Spec => ImplementsLifecycle
<1>1. Init => Lifecycle!Init
  BY InitMaps
<1>2. IInv /\ OInv /\ [Next]_vars => [Lifecycle!Next]_(Lifecycle!lifecycleVars)
  BY StepMaps
<1> QED
  BY <1>1, <1>2, Inductive, OrdersInvariant, PTL DEF Spec, ImplementsLifecycle, Lifecycle!Spec

-------------------------------------------------------------------------------
(***************************************************************************)
(* What a transaction has read may be out of date before it commits, but   *)
(* only through transactions that committed meanwhile.  PastInv says so of *)
(* every transaction, for any number open at once; it is inductive beside  *)
(* IInv and OInv under HistoryNext, since then telling who committed.      *)
(***************************************************************************)

(* batch_usage is what the plan takes, from each batch. *)
UsageAddsUp(t) ==
  \A b \in Batch : mem[t].usage[b] = TotalQty(OfBatch(Planned(t), b))

Left(t, b) == onHand[b] - mem[t].usage[b]

(* The plan can still be carried out, unless others took from the batch or *)
(* withdrew it.                                                            *)
PlanStands(t) ==
  /\ \A b \in Batch : mem[t].usage[b] > 0 => Left(t, b) >= 0 \/ Drawn(t, b)
  /\ \A i \in DOMAIN mem[t].plan :
       Sellable(mem[t].plan[i].batch) \/ Withdrawn(t, mem[t].plan[i].batch)

(* The walk's on_hand is that of the batches, and its list has all there   *)
(* are, soonest first, but for those it has emptied for this line.         *)
WalkStands(t) ==
  LET cand == mem[t].cand IN
  pc[t] = "fefo_lock" =>
    /\ \A b \in Batch : /\ mem[t].seen[b] <= onHand[b] \/ Drawn(t, b)
                        /\ onHand[b] <= mem[t].seen[b] \/ Replenished(t, b)
    /\ \A i \in DOMAIN cand : ProductOf[cand[i]] = mem[t].line.product
    /\ \A i, j \in DOMAIN cand :
         i < j => \/ Before(cand[i], cand[j])
                  \/ Corrected(t, cand[i]) \/ Corrected(t, cand[j])
    /\ mem[t].need > 0 =>
         \A b \in Eligible(mem[t].line.product) :
           \/ Left(t, b) <= 0 \/ Replenished(t, b)
           \/ \E i \in DOMAIN cand : cand[i] = b

(* What expires sooner than a batch the walk has taken from is used up. *)
UsedUpBefore(t, c) ==
  \A b \in Batch :
    ProductOf[b] = ProductOf[c] /\ Sellable(b) /\ Before(b, c) =>
      Left(t, b) <= 0 \/ Replenished(t, b) \/ Corrected(t, c)

SoonestFirst(t) ==
  req[t].op # "commit_explicit" =>
    \A i \in DOMAIN mem[t].plan : UsedUpBefore(t, mem[t].plan[i].batch)

(* An update or deletion that works on a committed order looked at it      *)
(* before the commit.                                                      *)
DraftStands(t) ==
  Drafting(t) /\ order[req[t].order].status = "committed" =>
    CommittedMeanwhile(t, req[t].order)

Stands(t) == PlanStands(t) /\ WalkStands(t) /\ SoonestFirst(t) /\ DraftStands(t)

PastInv ==
  /\ \A t \in Tx : \A u \in since[t] : u \in Tx /\ pc[u] = "ok"
  /\ \A t \in Tx : UsageAddsUp(t) /\ (Open(t) => Stands(t))

-------------------------------------------------------------------------------
(* Steps of others *)

(* What was done to a batch meanwhile stays done. *)
Kept(t) ==
  \A b : /\ Withdrawn(t, b) => Withdrawn(t, b)'
         /\ Replenished(t, b) => Replenished(t, b)'
         /\ Corrected(t, b) => Corrected(t, b)'
         /\ Drawn(t, b) => Drawn(t, b)'

LEMMA KeptLemma ==
  ASSUME NEW t \in Tx, since[t] \subseteq since'[t], movements \subseteq movements'
  PROVE  Kept(t)
<1>1. ASSUME NEW b PROVE Meanwhile(t, b) \subseteq Meanwhile(t, b)'
  BY DEF Meanwhile
<1> QED
  BY <1>1 DEF Kept, Withdrawn, Replenished, Corrected, Drawn

LEMMA MovementsGrow == ASSUME [Next]_vars PROVE movements \subseteq movements'
  BY LedgerWriters DEF CommitSale, CommitVoid, WriteBatch

(* One transaction moves, and the answers of the others stay. *)
LEMMA OneMoves ==
  ASSUME IInv, NEW t \in Tx,
         Start(t) \/ CreateOrder(t) \/ Step(t) \/ DeadlockVictim(t) \/ Crash(t)
  PROVE  /\ pc[t] \notin Outcome
         /\ \A u \in Tx \ {t} : pc'[u] = pc[u] /\ req'[u] = req[u] /\ mem'[u] = mem[u]
<1> PICK f : f = pc /\ f \in [Tx -> Statement \cup Outcome \cup {"idle"}]
  BY DEF IInv, TypeOK
<1> PICK m : m = mem /\ m \in [Tx -> Mem]
  BY DEF IInv, TypeOK
<1> PICK r : r = req /\ r \in [Tx -> Request \cup {NoRow}]
  BY DEF IInv, TypeOK
<1>1. CASE Start(t) \/ CreateOrder(t)
  BY <1>1 DEF Start, CreateOrder, Goto, Outcome
<1>2. ASSUME NEW oc, Finish(t, oc), UNCHANGED req, pc[t] \notin Outcome
      PROVE  /\ pc[t] \notin Outcome
             /\ \A u \in Tx \ {t} : pc'[u] = pc[u] /\ req'[u] = req[u] /\ mem'[u] = mem[u]
  BY <1>2 DEF Finish, Goto
<1>3. CASE Rollbacks(t)
  <2>1. Open(t)
    BY <1>3, OpenNow DEF Rollbacks, InsufficientStock, PreviewDone, OrderRefused, VoidedAlready,
         InvalidAllocation, NotDraft, HeaderGone, LinesReferenced, HeaderReferenced,
         BatchUnchanged, WriteOffExceedsOnHand, SignRefused, CodeTaken, DeadlockVictim, Crash, Open,
         Outcome
  <2>2. PICK oc \in Outcome : Rollback(t, oc)
    BY <1>3 DEF Rollbacks, InsufficientStock, PreviewDone, OrderRefused, VoidedAlready,
         InvalidAllocation, NotDraft, HeaderGone, LinesReferenced, HeaderReferenced,
         BatchUnchanged, WriteOffExceedsOnHand, SignRefused, CodeTaken, DeadlockVictim, Crash, Outcome
  <2> QED
    BY <1>2, <2>1, <2>2 DEF Rollback, Open
<1>4. CASE \/ CommitSale(t) \/ CommitVoid(t) \/ CommitUpdate(t) \/ CommitDelete(t) \/ WriteBatch(t)
  <2>1. Finish(t, "ok") /\ UNCHANGED req /\ pc[t] \notin Outcome
    BY <1>4 DEF CommitSale, CommitVoid, CommitUpdate, CommitDelete, WriteBatch, Outcome
  <2> QED
    BY <1>2, <2>1
<1>5. ASSUME NEW x, mem' = [mem EXCEPT ![t] = x]
      PROVE  \A u \in Tx \ {t} : mem'[u] = mem[u]
  BY <1>5
<1>6. ASSUME UNCHANGED req, pc[t] \in Statement, NEW s, pc' = pc \/ pc' = [pc EXCEPT ![t] = s],
             \A u \in Tx \ {t} : mem'[u] = mem[u]
      PROVE  /\ pc[t] \notin Outcome
             /\ \A u \in Tx \ {t} : pc'[u] = pc[u] /\ req'[u] = req[u] /\ mem'[u] = mem[u]
  BY <1>6 DEF Statement, Outcome
<1>7. CASE \/ FefoSelect(t) \/ FefoTake(t) \/ FefoPass(t) \/ FefoLineDone(t) \/ FefoDone(t)
  <2>1. UNCHANGED req /\ pc[t] \in Statement /\ \E s : pc' = pc \/ pc' = [pc EXCEPT ![t] = s]
    BY <1>7 DEF FefoSelect, FefoTake, FefoPass, FefoLineDone, FefoDone, Goto, Statement
  <2>2. \A u \in Tx \ {t} : mem'[u] = mem[u]
    BY <1>7 DEF FefoSelect, FefoTake, FefoPass, FefoLineDone, FefoDone
  <2> QED
    BY <1>6, <2>1, <2>2
<1>8. CASE \/ LockOrder(t) \/ ReadLines(t) \/ ValidateExplicit(t) \/ ExplicitDone(t)
           \/ InsertSale(t) \/ ReadAllocations(t) \/ InsertReversal(t)
  <2>1. UNCHANGED req /\ pc[t] \in Statement /\ \E s : pc' = pc \/ pc' = [pc EXCEPT ![t] = s]
    BY <1>8 DEF LockOrder, ReadLines, ValidateExplicit, ExplicitDone, InsertSale,
       ReadAllocations, InsertReversal, Goto, Statement
  <2>2. \A u \in Tx \ {t} : mem'[u] = mem[u]
    BY <1>8 DEF LockOrder, ReadLines, ValidateExplicit, ExplicitDone, InsertSale,
       ReadAllocations, InsertReversal
  <2> QED
    BY <1>6, <2>1, <2>2
<1>9. CASE \/ ReadOrder(t) \/ UpdateHeader(t) \/ SelectLines(t) \/ DeleteLine(t)
           \/ SkipLine(t) \/ LinesDeleted(t) \/ DeleteHeader(t)
           \/ LockBatch(t) \/ CheckOnHand(t)
  <2>1. UNCHANGED req /\ pc[t] \in Statement /\ \E s : pc' = pc \/ pc' = [pc EXCEPT ![t] = s]
    BY <1>9 DEF ReadOrder, UpdateHeader, SelectLines, DeleteLine, SkipLine, LinesDeleted,
       DeleteHeader, LockBatch, CheckOnHand, Goto, Statement
  <2>2. \A u \in Tx \ {t} : mem'[u] = mem[u]
    BY <1>9 DEF ReadOrder, UpdateHeader, SelectLines, DeleteLine, SkipLine, LinesDeleted,
       DeleteHeader, LockBatch, CheckOnHand
  <2> QED
    BY <1>6, <2>1, <2>2
<1> QED
  BY <1>1, <1>3, <1>4, <1>7, <1>8, <1>9 DEF Step, Fefo, Sale, Draft, Stock, Rollbacks

(* What u wrote for a batch, t knows of. *)
LEMMA WrittenMeanwhile ==
  ASSUME Remember, NEW t \in Tx, Open(t), NEW u \in Tx \ {t}, Commits(u)
  PROVE  /\ u \in since'[t]
         /\ \A m, b : m \in movements' /\ m.batch = b /\ m.tx = u => m \in Meanwhile(t, b)'
<1>1. u \in since'[t]
  BY DEF Remember
<1> QED
  BY <1>1 DEF Meanwhile

LEMMA SalePending ==
  ASSUME IInv, OInv, NEW t \in Tx, CommitSale(t), NEW b \in Batch
  PROVE  mem[t].pend[b] = 0 - TotalQty(OfBatch(Planned(t), b))
  BY ReadyToCommit

(* A sale takes stock, a void returns it, and neither touches the batches. *)
LEMMA PostEffects ==
  ASSUME IInv, OInv, Remember, NEW t \in Tx, Open(t), NEW u \in Tx \ {t},
         CommitSale(u) \/ CommitVoid(u), NEW b \in Batch
  PROVE  /\ UNCHANGED batch
         /\ onHand'[b] < onHand[b] => Drawn(t, b)'
         /\ onHand'[b] > onHand[b] => Replenished(t, b)'
<1>1. Commits(u)
  BY DEF CommitSale, CommitVoid, Finish, Goto, Commits, IInv, TypeOK
<1>2. onHand'[b] = onHand[b] + mem[u].pend[b] /\ UNCHANGED batch /\ onHand[b] \in Int
  BY DEF CommitSale, CommitVoid, PostPending, IInv, TypeOK
<1>3. CASE CommitSale(u)
  <2> PICK A : A = OfBatch(Planned(u), b)
    OBVIOUS
  <2>1. A \subseteq Planned(u) /\ IsFiniteSet(A) /\ A \subseteq Allocation
    BY PlanFinite, FS_Subset DEF OfBatch
  <2>2. TotalQty(A) \in Nat /\ (TotalQty(A) = 0 <=> A = {})
    BY <2>1, AllocationsAddUp, TotalPositive
  <2>3. mem[u].pend[b] = 0 - TotalQty(A)
    BY <1>3, SalePending
  <2>4. ~(onHand'[b] > onHand[b])
    BY <1>2, <2>2, <2>3
  <2>5. ASSUME onHand'[b] < onHand[b] PROVE Drawn(t, b)'
    <3>1. PICK a : a \in A
      BY <1>2, <2>2, <2>3, <2>5
    <3>2. a \in Planned(u) /\ a.batch = b /\ a.qty \in Nat \ {0}
      BY <2>1, <3>1 DEF OfBatch, Allocation
    <3>3. SaleMovement(u, a) \in movements'
      BY <1>3, <3>2 DEF CommitSale
    <3>4. PICK m : m = SaleMovement(u, a)
      OBVIOUS
    <3>5. m.tx = u /\ m.batch = b /\ m.qty < 0
      BY <3>2, <3>4 DEF SaleMovement
    <3>6. m \in Meanwhile(t, b)'
      BY <1>1, <3>3, <3>4, <3>5, WrittenMeanwhile
    <3> QED
      BY <3>5, <3>6 DEF Drawn
  <2> QED
    BY <1>2, <2>4, <2>5
<1>4. CASE CommitVoid(u)
  <2> PICK P : P = mem[u].paid
    OBVIOUS
  <2> PICK A : A = OfBatch(P, b)
    OBVIOUS
  <2>1. A \subseteq P /\ P \subseteq allocations /\ IsFiniteSet(allocations)
        /\ allocations \subseteq Allocation
    BY <1>4, ReadyToVoid DEF OfBatch, AllocationsOf, OInv, TablesOK, RowsCommitted, IInv, TypeOK
  <2>2. IsFiniteSet(A) /\ A \subseteq Allocation
    BY <2>1, FS_Subset
  <2>3. TotalQty(A) \in Nat /\ (TotalQty(A) = 0 <=> A = {})
    BY <2>2, AllocationsAddUp, TotalPositive
  <2>4. mem[u].pend[b] = TotalQty(A)
    BY <1>4, ReadyToVoid
  <2>5. ~(onHand'[b] < onHand[b])
    BY <1>2, <2>3, <2>4
  <2>6. ASSUME onHand'[b] > onHand[b] PROVE Replenished(t, b)'
    <3>1. PICK a : a \in A
      BY <1>2, <2>3, <2>4, <2>6
    <3>2. a \in P /\ a.batch = b /\ a.qty \in Nat \ {0}
      BY <2>1, <3>1 DEF OfBatch, Allocation
    <3>3. VoidMovement(u, a) \in movements'
      BY <1>4, <3>2 DEF CommitVoid
    <3>4. PICK m : m = VoidMovement(u, a)
      OBVIOUS
    <3>5. m.tx = u /\ m.batch = b /\ m.qty > 0
      BY <3>2, <3>4 DEF VoidMovement
    <3>6. m \in Meanwhile(t, b)'
      BY <1>1, <3>3, <3>4, <3>5, WrittenMeanwhile
    <3> QED
      BY <3>5, <3>6 DEF Replenished
  <2> QED
    BY <1>2, <2>5, <2>6
<1> QED
  BY <1>3, <1>4

(* A batch is recalled, released, dated or adjusted with a row that says so.*)
LEMMA WriteEffects ==
  ASSUME IInv, OInv, Remember, NEW t \in Tx, Open(t), NEW u \in Tx \ {t},
         WriteBatch(u), NEW b \in Batch
  PROVE  /\ onHand'[b] < onHand[b] => Drawn(t, b)'
         /\ onHand'[b] > onHand[b] => Replenished(t, b)'
         /\ batch'[b].expiry # batch[b].expiry =>
              Corrected(t, b)' /\ Withdrawn(t, b)' /\ Replenished(t, b)'
         /\ batch'[b].recalled /\ ~batch[b].recalled => Withdrawn(t, b)'
         /\ batch[b].recalled /\ ~batch'[b].recalled => Replenished(t, b)'
<1> PICK r : r = req[u]
  OBVIOUS
<1>1. Commits(u)
  BY DEF WriteBatch, Finish, Goto, Commits, IInv, TypeOK
<1>2. r.op \in BatchOp /\ QuantityOf(r) \in Int /\ r.batch \in Batch
  BY OpenNow, RequestFields DEF WriteBatch, Statement, OpsAt, QuantityOf
<1>3. CASE r.batch # b
  BY <1>2, <1>3 DEF WriteBatch, IInv, TypeOK
<1>4. CASE r.batch = b
  <2>1. PICK m : m = [tx |-> u, kind |-> KindOf(r.op), batch |-> b,
                      qty |-> QuantityOf(r), ref |-> NoRow]
    OBVIOUS
  <2>2. m \in movements'
    BY <1>4, <2>1 DEF WriteBatch
  <2>3. m \in Meanwhile(t, b)' /\ m.kind = KindOf(r.op) /\ m.qty = QuantityOf(r)
    BY <1>1, <2>1, <2>2, WrittenMeanwhile
  <2>4. onHand'[b] = onHand[b] + m.qty /\ onHand[b] \in Int /\ m.qty \in Int
    BY <1>2, <1>4, <2>3 DEF WriteBatch, IInv, TypeOK
  <2>5. /\ m.qty < 0 => Drawn(t, b)'
        /\ m.qty > 0 \/ m.kind \in {"recall_unblock", "metadata_correction"} => Replenished(t, b)'
        /\ m.kind \in {"recall_block", "metadata_correction"} => Withdrawn(t, b)'
        /\ m.kind = "metadata_correction" => Corrected(t, b)'
    BY <2>3 DEF Drawn, Replenished, Withdrawn, Corrected
  <2>6. /\ r.op = "recall" => m.kind = "recall_block"
        /\ r.op = "un_recall" => m.kind = "recall_unblock"
        /\ r.op = "metadata" => m.kind = "metadata_correction"
    BY <2>3 DEF KindOf
  <2>7. batch' = [batch EXCEPT
          ![b].recalled = IF r.op \in {"recall", "un_recall"} THEN r.op = "recall" ELSE @,
          ![b].expiry = IF r.op = "metadata" /\ r.expiry # Keep THEN r.expiry ELSE @]
    BY <1>4 DEF WriteBatch
  <2>8. PICK c : c = batch[b] /\ batch[b] \in [recalled : BOOLEAN, expiry : Expiry]
    BY DEF IInv, TypeOK
  <2>9. /\ batch'[b].expiry = IF r.op = "metadata" /\ r.expiry # Keep THEN r.expiry ELSE c.expiry
        /\ batch'[b].recalled = IF r.op \in {"recall", "un_recall"} THEN r.op = "recall"
                                ELSE c.recalled
    BY <2>7, <2>8 DEF IInv, TypeOK
  <2> QED
    BY <2>4, <2>5, <2>6, <2>8, <2>9
<1> QED
  BY <1>3, <1>4

(* Only these change the batches and what is on hand of them. *)
LEMMA StockWriters ==
  ASSUME [Next]_vars
  PROVE  \/ UNCHANGED <<batch, onHand>>
         \/ \E t \in Tx : CommitSale(t) \/ CommitVoid(t) \/ WriteBatch(t)
<1>1. CASE Quiescent \/ UNCHANGED vars
  BY <1>1 DEF Quiescent, vars, tables
<1>2. ASSUME NEW t \in Tx,
             Start(t) \/ CreateOrder(t) \/ Step(t) \/ DeadlockVictim(t) \/ Crash(t)
      PROVE  UNCHANGED <<batch, onHand>> \/ CommitSale(t) \/ CommitVoid(t) \/ WriteBatch(t)
  <2>1. CASE Start(t) \/ CreateOrder(t) \/ DeadlockVictim(t) \/ Crash(t)
    BY <2>1 DEF Start, CreateOrder, DeadlockVictim, Crash, Rollback, tables
  <2>2. CASE Fefo(t)
    BY <2>2 DEF Fefo, FefoSelect, FefoTake, FefoPass, FefoLineDone, InsufficientStock,
       FefoDone, PreviewDone, Rollback, tables
  <2>3. CASE Sale(t)
    BY <2>3 DEF Sale, OrderRefused, VoidedAlready, LockOrder, ReadLines, ValidateExplicit,
       InvalidAllocation, ExplicitDone, InsertSale, ReadAllocations, InsertReversal,
       Rollback, tables
  <2>4. CASE Draft(t)
    BY <2>4 DEF Draft, ReadOrder, NotDraft, UpdateHeader, HeaderGone, SelectLines, DeleteLine,
       SkipLine, LinesDeleted, LinesReferenced, DeleteHeader, HeaderReferenced, CommitUpdate,
       CommitDelete, Rollback, tables
  <2>5. CASE Stock(t)
    BY <2>5 DEF Stock, BatchUnchanged, LockBatch, CheckOnHand, WriteOffExceedsOnHand,
       SignRefused, CodeTaken, Rollback, tables
  <2> QED
    BY <1>2, <2>1, <2>2, <2>3, <2>4, <2>5 DEF Step
<1> QED
  BY <1>1, <1>2 DEF Next

(* Whoever else changes a batch leaves a row of it that t knows of. *)
LEMMA BatchEffects ==
  ASSUME IInv, OInv, [Next]_vars, Remember, NEW t \in Tx, Open(t), pc'[t] # "ok",
         NEW b \in Batch
  PROVE  /\ onHand'[b] < onHand[b] => Drawn(t, b)'
         /\ onHand'[b] > onHand[b] => Replenished(t, b)'
         /\ batch'[b].expiry # batch[b].expiry => Corrected(t, b)' /\ Replenished(t, b)'
         /\ Sellable(b) /\ ~Sellable(b)' => Withdrawn(t, b)'
         /\ ~Sellable(b) /\ Sellable(b)' => Replenished(t, b)'
<1> onHand[b] \in Int /\ onHand'[b] \in Int /\ batch[b].recalled \in BOOLEAN
    /\ batch'[b].recalled \in BOOLEAN
  <2>1. IInv'
    BY NextIInv
  <2> QED
    BY <2>1 DEF IInv, TypeOK
<1>1. CASE UNCHANGED <<batch, onHand>>
  BY <1>1 DEF Sellable
<1>2. ASSUME NEW u \in Tx, CommitSale(u) \/ CommitVoid(u)
      PROVE  /\ UNCHANGED batch
             /\ onHand'[b] < onHand[b] => Drawn(t, b)'
             /\ onHand'[b] > onHand[b] => Replenished(t, b)'
  <2>1. u # t
    BY <1>2 DEF CommitSale, CommitVoid, Finish, Goto, IInv, TypeOK
  <2> QED
    BY <1>2, <2>1, PostEffects
<1>3. ASSUME NEW u \in Tx, WriteBatch(u)
      PROVE  /\ onHand'[b] < onHand[b] => Drawn(t, b)'
             /\ onHand'[b] > onHand[b] => Replenished(t, b)'
             /\ batch'[b].expiry # batch[b].expiry =>
                  Corrected(t, b)' /\ Withdrawn(t, b)' /\ Replenished(t, b)'
             /\ batch'[b].recalled /\ ~batch[b].recalled => Withdrawn(t, b)'
             /\ batch[b].recalled /\ ~batch'[b].recalled => Replenished(t, b)'
  <2>1. u # t
    BY <1>3 DEF WriteBatch, Finish, Goto, IInv, TypeOK
  <2> QED
    BY <1>3, <2>1, WriteEffects
<1>4. \/ UNCHANGED <<batch, onHand>>
      \/ \E u \in Tx : CommitSale(u) \/ CommitVoid(u) \/ WriteBatch(u)
  BY StockWriters
<1>5. CASE \E u \in Tx : CommitSale(u) \/ CommitVoid(u)
  BY <1>2, <1>5 DEF Sellable
<1>6. CASE \E u \in Tx : WriteBatch(u)
  BY <1>3, <1>6 DEF Sellable
<1> QED
  BY <1>1, <1>4, <1>5, <1>6

(* An order that is committed was committed by a request t knows of. *)
LEMMA CommitEffects ==
  ASSUME IInv, OInv, [Next]_vars, Remember, NEW t \in Tx, Open(t), pc'[t] # "ok",
         NEW o \in Order, order[o].status # "committed", order'[o].status = "committed"
  PROVE  CommittedMeanwhile(t, o)'
<1>1. PICK u \in Tx : CommitSale(u)
  <2>1. ASSUME NEW u \in Tx, CreateOrder(u) PROVE FALSE
    <3>1. PICK r \in Request, k \in Order :
            order' = [order EXCEPT ![k].status = "draft", ![k].header = r.header]
      BY <2>1 DEF CreateOrder
    <3> QED
      BY <3>1 DEF IInv, TypeOK
  <2>2. ASSUME NEW u \in Tx, CommitUpdate(u) \/ CommitDelete(u) \/ CommitVoid(u) PROVE FALSE
    <3>1. PICK h : \/ order' = [order EXCEPT ![req[u].order].header = h]
                   \/ order' = [order EXCEPT ![req[u].order].status = "deleted"]
                   \/ order' = [order EXCEPT ![req[u].order].voided = TRUE]
      BY <2>2 DEF CommitUpdate, CommitDelete, CommitVoid
    <3> QED
      BY <3>1 DEF IInv, TypeOK
  <2>3. ~UNCHANGED order /\ \A u \in Tx : ~WriteBatch(u)
    BY DEF WriteBatch
  <2> QED
    BY <2>1, <2>2, <2>3, DocumentWriters
<1>2. u # t /\ Commits(u)
  BY <1>1 DEF CommitSale, Finish, Goto, Commits, IInv, TypeOK
<1>3. u \in since'[t]
  BY <1>2, WrittenMeanwhile
<1>4. req'[u].op \in CommitOp
  BY <1>1, ReadyToCommit DEF Committing, CommitSale
<1>5. req'[u].order = o
  BY <1>1 DEF CommitSale, IInv, TypeOK
<1> QED
  BY <1>3, <1>4, <1>5 DEF CommittedMeanwhile

(* Who has committed has: the answer and its request stay. *)
LEMMA AnswersStay ==
  ASSUME IInv, [Next]_vars, NEW u \in Tx, pc[u] = "ok"
  PROVE  pc'[u] = "ok" /\ req'[u] = req[u]
<1>1. CASE Quiescent \/ UNCHANGED vars
  BY <1>1 DEF Quiescent, vars
<1>2. ASSUME NEW t \in Tx,
             Start(t) \/ CreateOrder(t) \/ Step(t) \/ DeadlockVictim(t) \/ Crash(t)
      PROVE  pc'[u] = "ok" /\ req'[u] = req[u]
  <2>1. /\ pc[t] \notin Outcome
        /\ \A v \in Tx \ {t} : pc'[v] = pc[v] /\ req'[v] = req[v] /\ mem'[v] = mem[v]
    BY <1>2, OneMoves
  <2>2. u # t
    BY <2>1 DEF Outcome
  <2> QED
    BY <2>1, <2>2
<1> QED
  BY <1>1, <1>2 DEF Next

LEMMA PastKept ==
  ASSUME IInv, PastInv, [Next]_vars, Remember, NEW t \in Tx
  PROVE  /\ Kept(t)
         /\ \A o : CommittedMeanwhile(t, o) => CommittedMeanwhile(t, o)'
         /\ \A u \in since'[t] : u \in Tx /\ pc'[u] = "ok"
<1>1. since'[t] = since[t] \cup {u \in Tx \ {t} : Open(t) /\ Commits(u)}
  BY DEF Remember
<1>2. Kept(t)
  BY <1>1, MovementsGrow, KeptLemma
<1>3. \A u \in since[t] : u \in Tx /\ pc[u] = "ok"
  BY DEF PastInv
<1>4. \A u \in since[t] : u \in Tx /\ pc'[u] = "ok" /\ req'[u] = req[u]
  BY <1>3, AnswersStay
<1>5. \A o : CommittedMeanwhile(t, o) => CommittedMeanwhile(t, o)'
  BY <1>1, <1>4 DEF CommittedMeanwhile
<1>6. \A u \in since'[t] : u \in Tx /\ pc'[u] = "ok"
  BY <1>1, <1>4 DEF Commits
<1> QED
  BY <1>2, <1>5, <1>6

(* A walk and its plan while others commit. *)
LEMMA OthersMove ==
  ASSUME IInv, OInv, PastInv, [Next]_vars, Remember, NEW t \in Tx,
         pc'[t] = pc[t], req'[t] = req[t], mem'[t] = mem[t]
  PROVE  UsageAddsUp(t)' /\ (Open(t)' => Stands(t)')
<1>1. UsageAddsUp(t)'
  BY DEF PastInv, UsageAddsUp, Planned
<1> SUFFICES ASSUME Open(t)' PROVE Stands(t)'
  BY <1>1
<1>2. Open(t) /\ pc'[t] # "ok"
  BY DEF Open, Outcome
<1>3. PlanStands(t) /\ WalkStands(t) /\ SoonestFirst(t) /\ DraftStands(t)
  BY <1>2 DEF PastInv, Stands
<1>4. PICK m \in Mem : m = mem[t] /\ m = mem'[t]
  BY DEF IInv, TypeOK
<1>5. PICK on, new : on = onHand /\ new = onHand' /\ on \in [Batch -> Int] /\ new \in [Batch -> Int]
  <2>1. IInv'
    BY NextIInv
  <2> QED
    BY <2>1 DEF IInv, TypeOK
<1>6. /\ \A b : /\ Withdrawn(t, b) => Withdrawn(t, b)'
                /\ Replenished(t, b) => Replenished(t, b)'
                /\ Corrected(t, b) => Corrected(t, b)'
                /\ Drawn(t, b) => Drawn(t, b)'
      /\ \A o : CommittedMeanwhile(t, o) => CommittedMeanwhile(t, o)'
  BY PastKept DEF Kept
<1>7. ASSUME NEW b \in Batch
      PROVE  /\ new[b] < on[b] => Drawn(t, b)'
             /\ new[b] > on[b] => Replenished(t, b)'
             /\ batch'[b].expiry # batch[b].expiry => Corrected(t, b)' /\ Replenished(t, b)'
             /\ Sellable(b) /\ ~Sellable(b)' => Withdrawn(t, b)'
             /\ ~Sellable(b) /\ Sellable(b)' => Replenished(t, b)'
  BY <1>2, <1>5, BatchEffects
<1>8. \A b \in Batch : /\ Left(t, b) = on[b] - m.usage[b] /\ Left(t, b)' = new[b] - m.usage[b]
                       /\ m.usage[b] \in Int /\ m.seen[b] \in Int
                       /\ on[b] \in Int /\ new[b] \in Int
  BY <1>4, <1>5 DEF Left, Mem
<1>15. \A i \in DOMAIN m.plan : m.plan[i].batch \in Batch
  <2> PICK p \in Seq(Allocation) : p = m.plan
    BY DEF Mem
  <2>1. \A i \in DOMAIN p : p[i] \in Allocation
    OBVIOUS
  <2> QED
    BY <2>1 DEF Allocation
<1>9. PlanStands(t)'
  <2>1. ASSUME NEW b \in Batch, m.usage[b] > 0 PROVE Left(t, b)' >= 0 \/ Drawn(t, b)'
    <3>1. on[b] - m.usage[b] >= 0 \/ Drawn(t, b)'
      BY <1>3, <1>4, <1>6, <1>8, <2>1 DEF PlanStands
    <3> QED
      BY <1>7, <1>8, <3>1
  <2>2. ASSUME NEW i \in DOMAIN m.plan
        PROVE  Sellable(m.plan[i].batch)' \/ Withdrawn(t, m.plan[i].batch)'
    <3>1. PICK b \in Batch : b = m.plan[i].batch
      BY <1>15, <2>2
    <3>2. Sellable(b) \/ Withdrawn(t, b)
      BY <1>3, <1>4, <2>2, <3>1 DEF PlanStands
    <3>4. Sellable(b) /\ ~Sellable(b)' => Withdrawn(t, b)'
      BY <1>7, <3>1
    <3>5. Withdrawn(t, b) => Withdrawn(t, b)'
      BY <1>6
    <3>3. Sellable(b)' \/ Withdrawn(t, b)'
      BY <3>2, <3>4, <3>5
    <3> QED
      BY <3>1, <3>3 DEF Sellable, Withdrawn, Meanwhile
  <2>3. \A i \in DOMAIN m.plan :
           Sellable(mem[t].plan[i].batch)' \/ Withdrawn(t, mem[t].plan[i].batch)'
    <3> SUFFICES ASSUME NEW i \in DOMAIN m.plan
                 PROVE  Sellable(mem[t].plan[i].batch)' \/ Withdrawn(t, mem[t].plan[i].batch)'
      OBVIOUS
    <3>1. PICK b : b = m.plan[i].batch /\ b = mem'[t].plan[i].batch
      BY <1>4
    <3> QED
      BY <2>2, <3>1 DEF Sellable, Withdrawn, Meanwhile
  <2> QED
    BY <1>4, <2>1, <2>3 DEF PlanStands
<1>10. /\ \A b, c \in Batch :
            Before(b, c)' = Before(b, c) \/ (Corrected(t, b)' /\ Replenished(t, b)')
              \/ Corrected(t, c)'
  <2>1. ASSUME NEW b \in Batch, NEW c \in Batch, batch'[b].expiry = batch[b].expiry,
               batch'[c].expiry = batch[c].expiry
        PROVE  Before(b, c)' = Before(b, c)
    BY <2>1 DEF Before
  <2> QED
    BY <1>7, <2>1
<1>11. ASSUME NEW c \in Batch, UsedUpBefore(t, c) PROVE UsedUpBefore(t, c)'
  <2>1. ASSUME NEW b \in Batch, ProductOf[b] = ProductOf[c], Sellable(b)', Before(b, c)',
               ~Replenished(t, b)', ~Corrected(t, c)'
        PROVE  Left(t, b)' <= 0
    <3>3. /\ Replenished(t, b) => Replenished(t, b)'
          /\ Corrected(t, c) => Corrected(t, c)'
      BY <1>6
    <3>4. ~Sellable(b) /\ Sellable(b)' => Replenished(t, b)'
      BY <1>7
    <3>5. \/ Before(b, c)' = Before(b, c)
          \/ Corrected(t, b)' /\ Replenished(t, b)'
          \/ Corrected(t, c)'
      BY <1>10
    <3>1. Sellable(b) /\ Before(b, c) /\ ~Replenished(t, b) /\ ~Corrected(t, c)
      BY <2>1, <3>3, <3>4, <3>5
    <3>2. Left(t, b) <= 0
      BY <1>11, <2>1, <3>1 DEF UsedUpBefore
    <3>6. ~(new[b] > on[b])
      BY <1>7, <2>1
    <3> QED
      BY <1>8, <3>2, <3>6
  <2> QED
    BY <2>1 DEF UsedUpBefore
<1>12. SoonestFirst(t)'
  <2>1. ASSUME req'[t].op # "commit_explicit", NEW i \in DOMAIN mem'[t].plan
        PROVE  UsedUpBefore(t, mem[t].plan[i].batch)'
    <3>1. PICK c \in Batch : c = m.plan[i].batch
      BY <1>4, <1>15, <2>1
    <3>2. UsedUpBefore(t, c)
      BY <1>3, <1>4, <2>1, <3>1 DEF SoonestFirst
    <3>3. UsedUpBefore(t, c)'
      BY <1>11, <3>2
    <3> QED
      BY <1>4, <3>1, <3>3 DEF UsedUpBefore
  <2> QED
    BY <2>1 DEF SoonestFirst
<1>13. WalkStands(t)'
  <2> SUFFICES ASSUME pc'[t] = "fefo_lock" PROVE WalkStands(t)'
    BY DEF WalkStands
  <2> PICK cand \in Seq(Batch) : cand = m.cand
    BY DEF Mem
  <2>1. \A i \in DOMAIN cand : cand[i] \in Batch
    BY ElementOfSeq
  <2>2. /\ \A b \in Batch : /\ m.seen[b] <= on[b] \/ Drawn(t, b)
                            /\ on[b] <= m.seen[b] \/ Replenished(t, b)
        /\ \A i \in DOMAIN cand : ProductOf[cand[i]] = m.line.product
        /\ \A i, j \in DOMAIN cand :
             i < j => \/ Before(cand[i], cand[j])
                      \/ Corrected(t, cand[i]) \/ Corrected(t, cand[j])
        /\ m.need > 0 =>
             \A b \in Eligible(m.line.product) :
               \/ Left(t, b) <= 0 \/ Replenished(t, b)
               \/ \E i \in DOMAIN cand : cand[i] = b
    BY <1>3, <1>4, <1>5 DEF WalkStands
  <2>3. \A b \in Batch : /\ m.seen[b] <= new[b] \/ Drawn(t, b)'
                         /\ new[b] <= m.seen[b] \/ Replenished(t, b)'
    <3> SUFFICES ASSUME NEW b \in Batch
                 PROVE  /\ m.seen[b] <= new[b] \/ Drawn(t, b)'
                        /\ new[b] <= m.seen[b] \/ Replenished(t, b)'
      OBVIOUS
    <3>1. (Drawn(t, b) => Drawn(t, b)') /\ (Replenished(t, b) => Replenished(t, b)')
      BY <1>6
    <3>2. /\ new[b] < on[b] => Drawn(t, b)'
          /\ new[b] > on[b] => Replenished(t, b)'
      BY <1>7
    <3> QED
      BY <1>8, <2>2, <3>1, <3>2
  <2>4. ASSUME NEW i \in DOMAIN cand, NEW j \in DOMAIN cand, i < j
        PROVE  \/ Before(cand[i], cand[j])'
               \/ Corrected(t, cand[i])' \/ Corrected(t, cand[j])'
    <3>1. PICK b \in Batch, c \in Batch : b = cand[i] /\ c = cand[j]
      BY <2>1
    <3>2. Before(b, c) \/ Corrected(t, b) \/ Corrected(t, c)
      BY <2>2, <2>4, <3>1
    <3>3. (Corrected(t, b) => Corrected(t, b)') /\ (Corrected(t, c) => Corrected(t, c)')
      BY <1>6
    <3>4. Before(b, c)' \/ Corrected(t, b)' \/ Corrected(t, c)'
      BY <1>10, <3>2, <3>3
    <3> QED
      BY <3>1, <3>4
  <2>5. ASSUME m.need > 0, NEW b \in Eligible(m.line.product)', ~Replenished(t, b)'
        PROVE  Left(t, b)' <= 0 \/ \E i \in DOMAIN cand : cand[i] = b
    <3>1. b \in Batch /\ ProductOf[b] = m.line.product /\ Sellable(b)' /\ new[b] > 0
      BY <1>4, <1>5, <2>5 DEF Eligible
    <3>5. Replenished(t, b) => Replenished(t, b)'
      BY <1>6
    <3>6. /\ new[b] > on[b] => Replenished(t, b)'
          /\ ~Sellable(b) /\ Sellable(b)' => Replenished(t, b)'
      BY <1>7, <3>1
    <3>2. Sellable(b) /\ ~(new[b] > on[b]) /\ ~Replenished(t, b)
      BY <2>5, <3>1, <3>5, <3>6
    <3>3. b \in Eligible(m.line.product)
      BY <1>5, <1>8, <3>1, <3>2 DEF Eligible
    <3>4. Left(t, b) <= 0 \/ \E i \in DOMAIN cand : cand[i] = b
      BY <2>2, <2>5, <3>2, <3>3
    <3> QED
      BY <1>8, <3>1, <3>2, <3>4
  <2> QED
    BY <1>4, <1>5, <2>2, <2>3, <2>4, <2>5 DEF WalkStands
<1>14. DraftStands(t)'
  <2> SUFFICES ASSUME Drafting(t)', order'[req'[t].order].status = "committed"
               PROVE  CommittedMeanwhile(t, req[t].order)'
    BY DEF DraftStands
  <2>1. Drafting(t) /\ req[t].order = req'[t].order
    BY DEF Drafting
  <2>2. PICK o \in Order : o = req[t].order /\ o = req'[t].order
    BY <2>1, OpenNow, RequestFields DEF Drafting, Statement, OpsAt, DraftOp
  <2>3. CASE order[o].status = "committed"
    <3>1. CommittedMeanwhile(t, o)
      BY <1>3, <2>1, <2>2, <2>3 DEF DraftStands
    <3> QED
      BY <1>6, <2>2, <3>1 DEF CommittedMeanwhile
  <2>4. CASE order[o].status # "committed"
    <3>1. CommittedMeanwhile(t, o)'
      BY <1>2, <2>2, <2>4, CommitEffects
    <3> QED
      BY <2>2, <3>1 DEF CommittedMeanwhile
  <2> QED
    BY <2>3, <2>4
<1> QED
  BY <1>9, <1>12, <1>13, <1>14 DEF Stands

-------------------------------------------------------------------------------
(* Steps of its own *)

(* t goes on as it may. *)
Advances(t) == UsageAddsUp(t)' /\ (Open(t)' => Stands(t)')

LEMMA NothingUsed ==
  ASSUME NEW m, m.plan = <<>>, m.usage = NoStock
  PROVE  \A b \in Batch : m.usage[b] = TotalQty(OfBatch({m.plan[i] : i \in DOMAIN m.plan}, b))
<1>1. ASSUME NEW b \in Batch PROVE OfBatch({m.plan[i] : i \in DOMAIN m.plan}, b) = {}
  BY DEF OfBatch
<1> QED
  BY <1>1, TotalEmpty DEF NoStock

(* COMMIT and ROLLBACK: t is no longer open. *)
LEMMA FinishAdvances ==
  ASSUME IInv, NEW t \in Tx, NEW oc \in Outcome, Finish(t, oc)
  PROVE  Advances(t)
<1>1. pc'[t] = oc /\ mem'[t] = Blank
  BY DEF Finish, Goto, IInv, TypeOK
<1>2. ~Open(t)'
  BY <1>1 DEF Open
<1>3. UsageAddsUp(t)'
  BY <1>1, NothingUsed DEF UsageAddsUp, Planned, Blank
<1> QED
  BY <1>2, <1>3 DEF Advances

LEMMA RollbackAdvances ==
  ASSUME IInv, NEW t \in Tx, Rollbacks(t)
  PROVE  Advances(t)
<1>1. PICK oc \in Outcome : Rollback(t, oc)
  BY DEF Rollbacks, InsufficientStock, PreviewDone, OrderRefused, VoidedAlready,
         InvalidAllocation, NotDraft, HeaderGone, LinesReferenced, HeaderReferenced,
         BatchUnchanged, WriteOffExceedsOnHand, SignRefused, CodeTaken, DeadlockVictim, Crash,
         Outcome
<1> QED
  BY <1>1, FinishAdvances DEF Rollback

LEMMA CommitAdvances ==
  ASSUME IInv, NEW t \in Tx,
         \/ CommitSale(t) \/ CommitVoid(t) \/ CommitUpdate(t) \/ CommitDelete(t)
         \/ WriteBatch(t)
  PROVE  Advances(t)
<1>1. Finish(t, "ok") /\ "ok" \in Outcome
  BY DEF CommitSale, CommitVoid, CommitUpdate, CommitDelete, WriteBatch, Outcome
<1> QED
  BY <1>1, FinishAdvances

LEMMA StartAdvances ==
  ASSUME IInv, PastInv, NEW t \in Tx, Start(t) \/ CreateOrder(t)
  PROVE  Advances(t)
<1>1. pc[t] = "idle" /\ UNCHANGED mem
  BY DEF Start, CreateOrder
<1>2. pc'[t] \in {"lock_order", "read_order", "lock_batch", "ok"}
  BY DEF Start, CreateOrder, Goto, IInv, TypeOK, FirstStatement
<1>3. mem'[t] = Blank
  BY <1>1 DEF IInv, TxInv, AtOwnStatement
<1>4. Stands(t)'
  <2> PICK m : m = mem'[t]
    OBVIOUS
  <2>1. m.plan = <<>> /\ DOMAIN m.plan = {} /\ \A b \in Batch : m.usage[b] = 0
    BY <1>3 DEF Blank, NoStock
  <2>2. PlanStands(t)'
    BY <2>1 DEF PlanStands
  <2>3. WalkStands(t)' /\ DraftStands(t)'
    BY <1>2 DEF WalkStands, DraftStands, Drafting
  <2>4. SoonestFirst(t)'
    BY <2>1 DEF SoonestFirst
  <2> QED
    BY <2>2, <2>3, <2>4 DEF Stands
<1>5. UsageAddsUp(t)'
  BY <1>1 DEF PastInv, UsageAddsUp, Planned
<1> QED
  BY <1>4, <1>5 DEF Advances

(* While the tables stay, so does what a plan rests on. *)
LEMMA SameGrounds ==
  ASSUME NEW t \in Tx, UNCHANGED <<tables, req>>
  PROVE  /\ \A b : Sellable(b)' = Sellable(b)
         /\ \A b, c : Before(b, c)' = Before(b, c)
         /\ \A p : Eligible(p)' = Eligible(p)
         /\ mem'[t].usage = mem[t].usage => \A b : Left(t, b)' = Left(t, b)
  BY DEF Sellable, Before, Eligible, Left, tables

LEMMA PlanLeftAlone ==
  ASSUME NEW t \in Tx, PlanStands(t), SoonestFirst(t), UsageAddsUp(t), Kept(t),
         UNCHANGED <<tables, req>>,
         mem'[t].plan = mem[t].plan, mem'[t].usage = mem[t].usage
  PROVE  PlanStands(t)' /\ SoonestFirst(t)' /\ UsageAddsUp(t)'
<1>1. UsageAddsUp(t)'
  BY DEF UsageAddsUp, Planned
<1>2. PICK p : p = mem[t].plan /\ p = mem'[t].plan
  OBVIOUS
<1>3. /\ \A b : Sellable(b)' = Sellable(b) /\ Left(t, b)' = Left(t, b)
      /\ \A b, c : Before(b, c)' = Before(b, c)
  BY SameGrounds
<1>4. PlanStands(t)'
  <2>1. ASSUME NEW b \in Batch, mem[t].usage[b] > 0 PROVE Left(t, b)' >= 0 \/ Drawn(t, b)'
    <3>1. Left(t, b) >= 0 \/ Drawn(t, b)
      BY <2>1 DEF PlanStands
    <3> QED
      BY <1>3, <3>1 DEF Kept
  <2>2. ASSUME NEW i \in DOMAIN p
        PROVE  (Sellable(mem[t].plan[i].batch) \/ Withdrawn(t, mem[t].plan[i].batch))'
    <3>1. PICK b : b = p[i].batch /\ b = mem'[t].plan[i].batch
      BY <1>2
    <3>2. Sellable(b) \/ Withdrawn(t, b)
      BY <1>2, <2>2, <3>1 DEF PlanStands
    <3>3. Sellable(b)' \/ Withdrawn(t, b)'
      BY <1>3, <3>2 DEF Kept
    <3> QED
      BY <3>1, <3>3 DEF Sellable, Withdrawn, Meanwhile
  <2> QED
    BY <1>2, <2>1, <2>2 DEF PlanStands
<1>5. ASSUME NEW c, UsedUpBefore(t, c) PROVE UsedUpBefore(t, c)'
  BY <1>3, <1>5 DEF UsedUpBefore, Kept
<1>6. ASSUME req[t].op # "commit_explicit", NEW i \in DOMAIN p
      PROVE  UsedUpBefore(t, mem[t].plan[i].batch)'
  <2>1. PICK c : c = p[i].batch /\ c = mem'[t].plan[i].batch
    BY <1>2
  <2>2. UsedUpBefore(t, c)
    BY <1>2, <1>6, <2>1 DEF SoonestFirst
  <2>3. UsedUpBefore(t, c)'
    BY <1>5, <2>2
  <2> QED
    BY <2>1, <2>3 DEF UsedUpBefore
<1>7. SoonestFirst(t)'
  BY <1>2, <1>6 DEF SoonestFirst
<1> QED
  BY <1>1, <1>4, <1>7

(* A step that plans nothing and is none of a walk. *)
LEMMA QuietAdvances ==
  ASSUME PastInv, NEW t \in Tx, Kept(t), Open(t), UNCHANGED <<tables, req>>,
         mem'[t].plan = mem[t].plan, mem'[t].usage = mem[t].usage,
         pc'[t] # "fefo_lock", DraftStands(t)'
  PROVE  Advances(t)
<1>1. PlanStands(t) /\ SoonestFirst(t) /\ UsageAddsUp(t)
  BY DEF PastInv, Stands
<1>2. PlanStands(t)' /\ SoonestFirst(t)' /\ UsageAddsUp(t)'
  BY <1>1, PlanLeftAlone
<1>3. WalkStands(t)'
  BY DEF WalkStands
<1> QED
  BY <1>2, <1>3 DEF Advances, Stands

LEMMA SaleStepsAdvance ==
  ASSUME IInv, PastInv, NEW t \in Tx, Kept(t),
         \/ LockOrder(t) \/ ReadLines(t) \/ FefoLineDone(t) \/ FefoDone(t) \/ ExplicitDone(t)
         \/ InsertSale(t) \/ ReadAllocations(t) \/ InsertReversal(t)
         \/ LockBatch(t) \/ CheckOnHand(t)
  PROVE  Advances(t)
<1>1. /\ Open(t) /\ UNCHANGED <<tables, req>>
      /\ pc'[t] \in {"read_lines", "fefo", "validate", "insert_sales", "read_allocations",
                     "insert_reversals", "read_on_hand", "write_batch"}
  BY DEF LockOrder, ReadLines, FefoLineDone, FefoDone, ExplicitDone, InsertSale,
     ReadAllocations, InsertReversal, LockBatch, CheckOnHand, Goto, IInv, TypeOK, Open,
     Outcome
<1>2. mem'[t].plan = mem[t].plan /\ mem'[t].usage = mem[t].usage
  <2>1. CASE InsertSale(t)
    <3>1. PICK b, q : mem' = [mem EXCEPT ![t].ins = @ + 1, ![t].pend[b] = q]
      BY <2>1 DEF InsertSale
    <3> QED
      BY <3>1 DEF IInv, TypeOK, Mem
  <2>2. CASE InsertReversal(t)
    <3>1. PICK a, b, q : mem' = [mem EXCEPT ![t].owed = @ \ {a}, ![t].paid = @ \cup {a},
                                            ![t].pend[b] = q]
      BY <2>2 DEF InsertReversal
    <3> QED
      BY <3>1 DEF IInv, TypeOK, Mem
  <2>3. CASE ReadLines(t) \/ ReadAllocations(t)
    BY <2>3 DEF ReadLines, ReadAllocations, IInv, TypeOK, Mem
  <2>4. CASE \/ LockOrder(t) \/ FefoLineDone(t) \/ FefoDone(t) \/ ExplicitDone(t)
             \/ LockBatch(t) \/ CheckOnHand(t)
    BY <2>4 DEF LockOrder, FefoLineDone, FefoDone, ExplicitDone, LockBatch, CheckOnHand
  <2> QED
    BY <2>1, <2>2, <2>3, <2>4
<1>3. DraftStands(t)'
  BY <1>1 DEF DraftStands, Drafting
<1> QED
  BY <1>1, <1>2, <1>3, QuietAdvances

LEMMA DraftStepsAdvance ==
  ASSUME IInv, PastInv, NEW t \in Tx, Kept(t),
         \A o : CommittedMeanwhile(t, o) => CommittedMeanwhile(t, o)',
         \/ ReadOrder(t) \/ UpdateHeader(t) \/ SelectLines(t) \/ DeleteLine(t)
         \/ SkipLine(t) \/ LinesDeleted(t) \/ DeleteHeader(t)
  PROVE  Advances(t)
<1>1. Open(t) /\ UNCHANGED <<tables, req>> /\ pc'[t] # "fefo_lock"
  <2>1. CASE ReadOrder(t)
    <3>1. req[t].op \in DraftOp
      BY <2>1, OpenNow DEF ReadOrder, Statement, OpsAt
    <3> QED
      BY <2>1, <3>1 DEF ReadOrder, Goto, IInv, TypeOK, Open, Outcome, DraftOp
  <2>2. CASE ~ReadOrder(t)
    BY <2>2 DEF UpdateHeader, SelectLines, DeleteLine, SkipLine, LinesDeleted,
       DeleteHeader, Goto, IInv, TypeOK, Open, Outcome
  <2> QED
    BY <2>1, <2>2
<1>2. mem'[t].plan = mem[t].plan /\ mem'[t].usage = mem[t].usage
  <2>1. CASE SelectLines(t)
    BY <2>1 DEF SelectLines, IInv, TypeOK, Mem
  <2>2. CASE DeleteLine(t) \/ SkipLine(t)
    <3>1. PICK l : \/ mem' = [mem EXCEPT ![t].want = @ \ {l}, ![t].lost = @ \cup {l}]
                   \/ mem' = [mem EXCEPT ![t].want = @ \ {l}]
      BY <2>2 DEF DeleteLine, SkipLine
    <3> QED
      BY <3>1 DEF IInv, TypeOK, Mem
  <2>3. CASE ReadOrder(t) \/ UpdateHeader(t) \/ LinesDeleted(t) \/ DeleteHeader(t)
    BY <2>3 DEF ReadOrder, UpdateHeader, LinesDeleted, DeleteHeader
  <2> QED
    BY <2>1, <2>2, <2>3
<1>3. DraftStands(t)'
  <2> PICK o : o = req[t].order /\ o = req'[t].order
    BY <1>1
  <2>1. CASE ReadOrder(t)
    BY <1>1, <2>1 DEF ReadOrder, DraftStands, tables
  <2>2. CASE ~ReadOrder(t)
    <3>1. Drafting(t)
      BY <2>2 DEF UpdateHeader, SelectLines, DeleteLine, SkipLine, LinesDeleted,
         DeleteHeader, Drafting
    <3>2. order[o].status = "committed" => CommittedMeanwhile(t, o)
      BY <1>1, <3>1 DEF PastInv, Stands, DraftStands
    <3>3. order'[o].status = "committed" => CommittedMeanwhile(t, o)'
      BY <1>1, <3>2 DEF tables
    <3> QED
      BY <3>3 DEF DraftStands, CommittedMeanwhile
  <2> QED
    BY <2>1, <2>2
<1> QED
  BY <1>1, <1>2, <1>3, QuietAdvances

-------------------------------------------------------------------------------
(* Walks and validations *)

(* An allocation more is planned, of what is left as far as t can see. *)
LEMMA PlanAdvances ==
  ASSUME IInv, OInv, PastInv, NEW t \in Tx, Kept(t), Open(t), NEW a \in Allocation,
         pc[t] # "insert_sales",
         a.n = Len(mem[t].plan) + 1, a.tx = t,
         a.qty <= Left(t, a.batch) \/ Drawn(t, a.batch), Sellable(a.batch),
         UNCHANGED <<tables, req>>,
         mem'[t].plan = Append(mem[t].plan, a), mem'[t].ins = mem[t].ins,
         mem'[t].usage = [mem[t].usage EXCEPT ![a.batch] = @ + a.qty],
         req[t].op # "commit_explicit" => UsedUpBefore(t, a.batch)
  PROVE  /\ UsageAddsUp(t)' /\ PlanStands(t)' /\ SoonestFirst(t)'
         /\ \A b \in Batch : Left(t, b)' = Left(t, b) - (IF b = a.batch THEN a.qty ELSE 0)
<1> PICK p \in Seq(Allocation) : p = mem[t].plan
  BY PlanFinite
<1> PICK u \in [Batch -> Int] : u = mem[t].usage
  BY DEF IInv, TypeOK, Mem
<1> PICK v : v = mem'[t].usage
  OBVIOUS
<1> PICK h : h = a.batch
  OBVIOUS
<1>1. h \in Batch /\ a.qty \in Nat \ {0}
  BY DEF Allocation
<1>2. mem[t].ins = 0
  BY DEF OInv, TxOrder, NothingYet
<1>3. Planned(t)' = Planned(t) \cup {a} /\ PlanNumbered(t)
  BY <1>2, PlanGrows DEF OInv, TxOrder
<1>4. a \notin Planned(t)
  <2>1. \A i \in DOMAIN p : p[i].n # a.n
    <3>1. \A i \in DOMAIN p : p[i].n = i
      BY <1>3 DEF PlanNumbered
    <3>2. DOMAIN p = 1..Len(p) /\ Len(p) \in Nat
      OBVIOUS
    <3> QED
      BY <3>1, <3>2
  <2> QED
    BY <2>1 DEF Planned
<1>5. ASSUME NEW b \in Batch
      PROVE  /\ v[b] = u[b] + (IF b = h THEN a.qty ELSE 0)
             /\ v[b] \in Int /\ u[b] \in Int /\ onHand[b] \in Int /\ onHand'[b] = onHand[b]
  BY <1>1 DEF IInv, TypeOK, tables
<1>6. UsageAddsUp(t)'
  <2> SUFFICES ASSUME NEW b \in Batch PROVE v[b] = TotalQty(OfBatch(Planned(t)', b))
    BY DEF UsageAddsUp
  <2>1. TotalQty(OfBatch(Planned(t)', b))
          = TotalQty(OfBatch(Planned(t), b)) + (IF b = h THEN a.qty ELSE 0)
    <3> PICK S \in SUBSET Allocation : S = Planned(t) /\ IsFiniteSet(S)
      BY PlanFinite
    <3> PICK T : T = Planned(t)'
      OBVIOUS
    <3> QED
      BY <1>3, <1>4, BatchTotalGrows
  <2>2. u[b] = TotalQty(OfBatch(Planned(t), b))
    BY DEF PastInv, UsageAddsUp
  <2> QED
    BY <1>5, <2>1, <2>2
<1>7. ASSUME NEW b \in Batch
      PROVE  /\ Left(t, b)' = Left(t, b) - (IF b = h THEN a.qty ELSE 0)
             /\ Left(t, b) \in Int
  BY <1>1, <1>5 DEF Left
<1>8. Append(p, a) \in Seq(Allocation)
      /\ \A i \in DOMAIN Append(p, a) :
           (i \in DOMAIN p /\ Append(p, a)[i] = p[i]) \/ Append(p, a)[i] = a
  BY AppendedPlan
<1>9. PlanStands(t) /\ SoonestFirst(t)
  BY DEF PastInv, Stands
<1>10. /\ \A b : Sellable(b)' = Sellable(b)
       /\ \A b, c : Before(b, c)' = Before(b, c)
  BY SameGrounds
<1>11. PlanStands(t)'
  <2>1. ASSUME NEW b \in Batch, v[b] > 0 PROVE Left(t, b)' >= 0 \/ Drawn(t, b)'
    <3>1. Drawn(t, b) => Drawn(t, b)'
      BY DEF Kept
    <3>2. CASE b = h
      <4>1. a.qty <= Left(t, b) \/ Drawn(t, b)
        BY <3>2
      <4> QED
        BY <1>1, <1>7, <3>1, <3>2, <4>1
    <3>3. CASE b # h
      <4>1. Left(t, b) >= 0 \/ Drawn(t, b)
        BY <1>5, <1>9, <2>1, <3>3 DEF PlanStands
      <4> QED
        BY <1>7, <3>1, <3>3, <4>1
    <3> QED
      BY <3>2, <3>3
  <2>2. ASSUME NEW i \in DOMAIN Append(p, a)
        PROVE  (Sellable(mem[t].plan[i].batch) \/ Withdrawn(t, mem[t].plan[i].batch))'
    <3>1. PICK b : b = Append(p, a)[i].batch /\ b = mem'[t].plan[i].batch
      OBVIOUS
    <3>2. Sellable(b) \/ Withdrawn(t, b)
      BY <1>8, <1>9, <2>2, <3>1 DEF PlanStands
    <3>3. Sellable(b)' \/ Withdrawn(t, b)'
      BY <1>10, <3>2 DEF Kept
    <3> QED
      BY <3>1, <3>3 DEF Sellable, Withdrawn, Meanwhile
  <2> QED
    BY <2>1, <2>2 DEF PlanStands
<1>12. SoonestFirst(t)'
  <2>1. ASSUME NEW c, UsedUpBefore(t, c) PROVE UsedUpBefore(t, c)'
    <3>1. ASSUME NEW b \in Batch, Left(t, b) <= 0 PROVE Left(t, b)' <= 0
      <4>1. /\ Left(t, b)' = Left(t, b) - (IF b = h THEN a.qty ELSE 0)
            /\ Left(t, b) \in Int
        BY <1>7
      <4> QED
        BY <1>1, <3>1, <4>1
    <3> QED
      BY <1>10, <2>1, <3>1 DEF UsedUpBefore, Kept
  <2>2. ASSUME req[t].op # "commit_explicit", NEW i \in DOMAIN Append(p, a)
        PROVE  UsedUpBefore(t, Append(p, a)[i].batch)
    BY <1>8, <1>9, <2>2 DEF SoonestFirst
  <2>3. ASSUME req[t].op # "commit_explicit", NEW i \in DOMAIN Append(p, a)
        PROVE  UsedUpBefore(t, mem[t].plan[i].batch)'
    <3> PICK c : c = Append(p, a)[i].batch /\ c = mem'[t].plan[i].batch
      OBVIOUS
    <3>1. UsedUpBefore(t, c)
      BY <2>2, <2>3
    <3>2. UsedUpBefore(t, c)'
      BY <2>1, <3>1
    <3> QED
      BY <3>2 DEF UsedUpBefore
  <2> QED
    BY <2>3 DEF SoonestFirst
<1> QED
  BY <1>6, <1>7, <1>11, <1>12

LEMMA BeforeAsymmetric ==
  ASSUME IInv, NEW b \in Batch, NEW c \in Batch, Before(b, c)
  PROVE  ~Before(c, b)
<1> PICK eb, ec : eb = batch[b].expiry /\ ec = batch[c].expiry
  OBVIOUS
<1>1. eb \in Nat \cup {NoDate} /\ ec \in Nat \cup {NoDate} /\ NoDate \notin Nat
      /\ b \in Nat /\ c \in Nat
  BY SalesConstants DEF IInv, TypeOK, Expiry
<1>2. /\ \/ eb # NoDate /\ ec = NoDate
         \/ eb # NoDate /\ ec # NoDate /\ eb < ec
         \/ eb = ec /\ b < c
      /\ Before(c, b) => \/ ec # NoDate /\ eb = NoDate
                         \/ ec # NoDate /\ eb # NoDate /\ ec < eb
                         \/ ec = eb /\ c < b
  BY DEF Before
<1> QED
  BY <1>1, <1>2

(* What the walk takes from the next batch: nothing that is not sellable,  *)
(* and no more than it has seen there and not used.                        *)
LEMMA TakeBounds ==
  ASSUME IInv, NEW t \in Tx, pc[t] = "fefo_lock", mem[t].cand # <<>>,
         NEW h, h = Head(mem[t].cand), NEW seen, seen = mem[t].seen[h] - mem[t].usage[h]
  PROVE  /\ h \in Batch /\ seen \in Int /\ mem[t].need \in Int /\ Take(t) \in Int
         /\ Sellable(h) => /\ Take(t) \in {seen, mem[t].need}
                           /\ Take(t) <= seen /\ Take(t) <= mem[t].need
         /\ ~Sellable(h) => Take(t) = 0
<1> PICK cand \in Seq(Batch) : cand = mem[t].cand
  BY DEF IInv, TypeOK, Mem
<1>1. h = cand[1] /\ h \in Batch
  OBVIOUS
<1> PICK need : need = mem[t].need
  OBVIOUS
<1>2. seen \in Int /\ need \in Int
  BY <1>1 DEF IInv, TypeOK, Mem
<1>3. Take(t) = IF Sellable(h) THEN Min({seen, need}) ELSE 0
  BY DEF Take
<1>4. Min({seen, need}) \in {seen, need}
  BY <1>2, MinOfTwo
<1>5. Min({seen, need}) <= need
  BY <1>2, MinAtMost
<1>6. Min({seen, need}) <= seen
  <2>1. {seen, need} = {need, seen}
    OBVIOUS
  <2>2. Min({need, seen}) <= seen
    BY <1>2, MinAtMost
  <2> QED
    BY <2>1, <2>2
<1> QED
  BY <1>1, <1>2, <1>3, <1>4, <1>5, <1>6

LEMMA UsageNatural ==
  ASSUME IInv, PastInv, NEW t \in Tx, NEW b \in Batch
  PROVE  mem[t].usage[b] \in Nat
<1>1. OfBatch(Planned(t), b) \subseteq Planned(t)
  BY DEF OfBatch
<1>2. IsFiniteSet(OfBatch(Planned(t), b)) /\ OfBatch(Planned(t), b) \subseteq Allocation
  BY <1>1, PlanFinite, FS_Subset
<1> QED
  BY <1>2, AllocationsAddUp, TotalPositive DEF PastInv, UsageAddsUp

(* The next batch of the walk is the soonest of those that are left. *)
LEMMA HeadSoonest ==
  ASSUME IInv, PastInv, NEW t \in Tx, pc[t] = "fefo_lock", mem[t].cand # <<>>,
         mem[t].need > 0, NEW h, h = Head(mem[t].cand)
  PROVE  UsedUpBefore(t, h)
<1> PICK cand \in Seq(Batch) : cand = mem[t].cand
  BY DEF IInv, TypeOK, Mem
<1>1. 1 \in DOMAIN cand /\ h = cand[1] /\ h \in Batch
  OBVIOUS
<1>2. WalkStands(t)
  BY DEF PastInv, Stands, Open, Outcome
<1> SUFFICES ASSUME NEW b \in Batch, ProductOf[b] = ProductOf[h], Sellable(b), Before(b, h),
                    Left(t, b) > 0, ~Replenished(t, b), ~Corrected(t, h)
             PROVE  FALSE
  <2>1. \A b \in Batch : Left(t, b) \in Int
    BY DEF Left, IInv, TypeOK, Mem
  <2> QED
    BY <2>1 DEF UsedUpBefore
<1>3. ~Corrected(t, b)
  BY DEF Corrected, Replenished
<1>4. onHand[b] > 0
  BY UsageNatural DEF Left, IInv, TypeOK
<1>5. b \in Eligible(mem[t].line.product)
  BY <1>1, <1>2, <1>4 DEF Eligible, WalkStands
<1>6. Left(t, b) \in Int
  BY DEF Left, IInv, TypeOK, Mem
<1>7. PICK i \in DOMAIN cand : cand[i] = b
  BY <1>2, <1>5, <1>6 DEF WalkStands
<1>8. i = 1 \/ 1 < i
  OBVIOUS
<1>9. CASE i = 1
  BY <1>1, <1>7, <1>9, BeforeAsymmetric
<1>10. CASE 1 < i
  <2>1. Before(h, b)
    BY <1>1, <1>2, <1>3, <1>7, <1>10 DEF WalkStands
  <2> QED
    BY <1>1, <2>1, BeforeAsymmetric
<1> QED
  BY <1>8, <1>9, <1>10

(* The walk goes on with the rest of its batches. *)
LEMMA WalkAdvances ==
  ASSUME IInv, PastInv, NEW t \in Tx, Kept(t), pc[t] = "fefo_lock", mem[t].cand # <<>>,
         pc' = pc, UNCHANGED <<tables, req>>, mem'[t].cand = Tail(mem[t].cand),
         mem'[t].line = mem[t].line, mem'[t].seen = mem[t].seen,
         NEW h, h = Head(mem[t].cand),
         mem'[t].need > 0 =>
           mem[t].need > 0 /\ (~Sellable(h) \/ Left(t, h)' <= 0 \/ Replenished(t, h)),
         \A b \in Batch : Left(t, b) <= 0 => Left(t, b)' <= 0
  PROVE  WalkStands(t)'
<1> PICK cand \in Seq(Batch) : cand = mem[t].cand
  BY DEF IInv, TypeOK, Mem
<1> PICK rest \in Seq(Batch) : rest = Tail(cand)
  BY HeadTailProperties
<1> PICK p : p = mem[t].line.product
  OBVIOUS
<1> PICK all : all = Eligible(p)
  OBVIOUS
<1>1. /\ \A i \in DOMAIN rest : i + 1 \in DOMAIN cand /\ rest[i] = cand[i + 1]
      /\ \A i \in DOMAIN cand : i = 1 \/ (i - 1 \in DOMAIN rest /\ rest[i - 1] = cand[i])
      /\ Head(cand) = cand[1]
  OBVIOUS
<1>2. /\ \A b \in Batch : /\ mem[t].seen[b] <= onHand[b] \/ Drawn(t, b)
                          /\ onHand[b] <= mem[t].seen[b] \/ Replenished(t, b)
      /\ \A i \in DOMAIN cand : ProductOf[cand[i]] = p
      /\ \A i, j \in DOMAIN cand :
           i < j => \/ Before(cand[i], cand[j])
                    \/ Corrected(t, cand[i]) \/ Corrected(t, cand[j])
      /\ mem[t].need > 0 =>
           \A b \in all : \/ Left(t, b) <= 0 \/ Replenished(t, b)
                          \/ \E i \in DOMAIN cand : cand[i] = b
  BY DEF PastInv, Stands, WalkStands, Open, Outcome
<1>3. /\ Eligible(mem[t].line.product)' = all /\ all \subseteq Batch
      /\ \A b \in all : Sellable(b)
      /\ \A b, c : Before(b, c)' = Before(b, c)
  BY SameGrounds DEF Eligible
<1>4. \A i \in DOMAIN rest : ProductOf[rest[i]] = p
  BY <1>1, <1>2
<1>5. ASSUME NEW i \in DOMAIN rest, NEW j \in DOMAIN rest, i < j
      PROVE  \/ Before(rest[i], rest[j])'
             \/ Corrected(t, rest[i])' \/ Corrected(t, rest[j])'
  <2>1. PICK b, c : b = rest[i] /\ c = rest[j]
    OBVIOUS
  <2>2. i + 1 < j + 1 /\ b = cand[i + 1] /\ c = cand[j + 1]
        /\ i + 1 \in DOMAIN cand /\ j + 1 \in DOMAIN cand
    BY <1>1, <1>5, <2>1
  <2>3. Before(b, c) \/ Corrected(t, b) \/ Corrected(t, c)
    BY <1>2, <2>2
  <2>4. Before(b, c)' \/ Corrected(t, b)' \/ Corrected(t, c)'
    BY <1>3, <2>3 DEF Kept
  <2> QED
    BY <2>1, <2>4
<1>6. ASSUME mem'[t].need > 0, NEW b \in all
      PROVE  Left(t, b)' <= 0 \/ Replenished(t, b)' \/ \E i \in DOMAIN rest : rest[i] = b
  <2>1. Replenished(t, b) => Replenished(t, b)'
    BY DEF Kept
  <2>2. CASE Left(t, b) <= 0
    BY <1>3, <2>2
  <2>3. CASE ~(Left(t, b) <= 0) /\ ~Replenished(t, b)
    <3>1. PICK i \in DOMAIN cand : cand[i] = b
      BY <1>2, <1>6, <2>3
    <3>2. CASE i = 1
      <4>1. b = h
        BY <1>1, <3>1, <3>2
      <4> QED
        BY <1>3, <1>6, <2>1, <2>3, <4>1
    <3>3. CASE i # 1
      BY <1>1, <3>1, <3>3
    <3> QED
      BY <3>2, <3>3
  <2> QED
    BY <2>1, <2>2, <2>3
<1>7. \A b \in Batch : /\ mem'[t].seen[b] <= onHand'[b] \/ Drawn(t, b)'
                       /\ onHand'[b] <= mem'[t].seen[b] \/ Replenished(t, b)'
  BY <1>2 DEF Kept, tables
<1>8. mem'[t].cand = rest /\ mem'[t].line.product = p /\ Eligible(mem[t].line.product)' = all
  BY <1>3
<1> QED
  BY <1>4, <1>5, <1>6, <1>7, <1>8 DEF WalkStands

LEMMA SelectAdvances ==
  ASSUME IInv, PastInv, NEW t \in Tx, Kept(t), FefoSelect(t)
  PROVE  Advances(t)
<1> PICK m \in Mem : m = mem[t]
  BY DEF IInv, TypeOK
<1> PICK x : x = mem'[t]
  OBVIOUS
<1>1. PICK l \in m.want : \E s \in FefoOrders(Eligible(l.product)) :
        mem' = [mem EXCEPT ![t].want = @ \ {l}, ![t].line = l,
                           ![t].need = l.qty, ![t].cand = s, ![t].seen = onHand]
  BY DEF FefoSelect
<1>2. PICK s \in FefoOrders(Eligible(l.product)) :
        mem' = [mem EXCEPT ![t].want = @ \ {l}, ![t].line = l,
                           ![t].need = l.qty, ![t].cand = s, ![t].seen = onHand]
  BY <1>1
<1>3. /\ x.plan = m.plan /\ x.usage = m.usage
      /\ x.line = l /\ x.cand = s /\ x.seen = onHand
  BY <1>2 DEF Mem, IInv, TypeOK
<1>4. Open(t) /\ pc'[t] = "fefo_lock" /\ UNCHANGED <<tables, req>>
  BY DEF FefoSelect, Goto, IInv, TypeOK, Open, Outcome
<1>5. PlanStands(t) /\ SoonestFirst(t) /\ UsageAddsUp(t)
  BY <1>4 DEF PastInv, Stands
<1>6. PlanStands(t)' /\ SoonestFirst(t)' /\ UsageAddsUp(t)'
  BY <1>3, <1>4, <1>5, PlanLeftAlone
<1>7. DraftStands(t)'
  BY <1>4 DEF DraftStands, Drafting
<1>8. WalkStands(t)'
  <2> PICK S : S = Eligible(l.product)
    OBVIOUS
  <2>1. /\ S \subseteq Batch /\ IsFiniteSet(S) /\ Cardinality(S) \in Nat
        /\ \A b \in S : ProductOf[b] = l.product
    BY SalesConstants, FS_Subset, FS_CardinalityType DEF Eligible
  <2>2. /\ s \in [1..Cardinality(S) -> S]
        /\ \A i, j \in 1..Cardinality(S) : i < j => Before(s[i], s[j])
    BY DEF FefoOrders
  <2>3. \A b \in S : \E i \in DOMAIN s : s[i] = b
    <3>1. IsInjective(s)
      <4>1. ASSUME NEW i \in DOMAIN s, NEW j \in DOMAIN s, i < j PROVE s[i] # s[j]
        <5>1. s[i] \in Batch /\ s[j] \in Batch /\ Before(s[i], s[j])
          BY <2>1, <2>2, <4>1
        <5> QED
          BY <5>1, BeforeAsymmetric
      <4>2. \A i, j \in DOMAIN s : i # j => i < j \/ j < i
        BY <2>1, <2>2
      <4> QED
        BY <4>1, <4>2 DEF IsInjective
    <3>2. s \in Surjection(1..Cardinality(S), S)
      <4> PICK n \in Nat : n = Cardinality(S)
        BY <2>1
      <4>1. s \in Injection(1..n, S)
        BY <2>2, <3>1 DEF Injection
      <4>2. 1 \in Int /\ n \in Int
        OBVIOUS
      <4>3. Cardinality(1..n) = IF 1 > n THEN 0 ELSE n - 1 + 1
        BY <4>2, FS_Interval, Zenon
      <4>4. Cardinality(1..n) = Cardinality(S)
        BY <4>3
      <4> QED
        BY <2>1, <4>1, <4>4, FS_Injection
    <3> QED
      BY <2>2, <3>2 DEF Surjection
  <2>4. \A i \in DOMAIN s : ProductOf[s[i]] = l.product
    BY <2>1, <2>2
  <2>5. /\ onHand' = onHand /\ Eligible(mem[t].line.product)' = S
        /\ \A b, c : Before(b, c)' = Before(b, c)
    BY <1>3, <1>4, SameGrounds DEF tables
  <2>6. \A b \in Batch : x.seen[b] <= onHand'[b] /\ onHand'[b] <= x.seen[b]
    BY <1>3, <2>5 DEF IInv, TypeOK
  <2>7. \A i, j \in DOMAIN s : i < j => Before(s[i], s[j])'
    <3> SUFFICES ASSUME NEW i \in DOMAIN s, NEW j \in DOMAIN s, i < j
                 PROVE  Before(s[i], s[j])'
      OBVIOUS
    <3>1. PICK b, c : b = s[i] /\ c = s[j]
      OBVIOUS
    <3>2. Before(b, c)'
      BY <2>2, <2>5, <3>1
    <3> QED
      BY <3>1, <3>2
  <2> QED
    BY <1>3, <2>3, <2>4, <2>5, <2>6, <2>7 DEF WalkStands
<1> QED
  BY <1>6, <1>7, <1>8 DEF Advances, Stands

LEMMA TakeAdvances ==
  ASSUME IInv, OInv, PastInv, NEW t \in Tx, Kept(t), FefoTake(t)
  PROVE  Advances(t)
<1> PICK m \in Mem : m = mem[t]
  BY DEF IInv, TypeOK
<1> PICK x : x = mem'[t]
  OBVIOUS
<1>1. /\ pc[t] = "fefo_lock" /\ m.cand # <<>> /\ Take(t) > 0 /\ m.line \in Line /\ Open(t)
  BY DEF FefoTake, IInv, TxInv, AtOwnStatement, Open, Outcome
<1>2. PICK h, seen : h = Head(m.cand) /\ seen = m.seen[h] - m.usage[h]
  OBVIOUS
<1>3. /\ h \in Batch /\ seen \in Int /\ m.need \in Int /\ Take(t) \in Int
      /\ Sellable(h) => /\ Take(t) \in {seen, m.need}
                        /\ Take(t) <= seen /\ Take(t) <= m.need
      /\ ~Sellable(h) => Take(t) = 0
  BY <1>1, <1>2, TakeBounds
<1>4. PICK q \in Nat \ {0} : q = Take(t)
  BY <1>1, <1>3
<1>5. Sellable(h) /\ q \in {seen, m.need} /\ q <= seen /\ q <= m.need
  BY <1>3, <1>4
<1>6. PICK a \in Allocation :
        a = [tx |-> t, n |-> Len(m.plan) + 1, line |-> m.line, batch |-> h, qty |-> q]
  <2>1. Len(m.plan) + 1 \in Nat
    BY LenProperties DEF Mem
  <2> QED
    BY <1>1, <1>3, <2>1 DEF Allocation
<1>7. mem' = [mem EXCEPT ![t].cand = Tail(@), ![t].need = @ - q,
                         ![t].usage[h] = @ + q, ![t].plan = Append(@, a)]
  BY <1>2, <1>4, <1>6 DEF FefoTake
<1>8. /\ x.plan = Append(m.plan, a) /\ x.usage = [m.usage EXCEPT ![h] = @ + q]
      /\ x.cand = Tail(m.cand) /\ x.need = m.need - q
      /\ x.line = m.line /\ x.seen = m.seen /\ x.ins = m.ins
  BY <1>7 DEF Mem, IInv, TypeOK
<1>9. UNCHANGED <<tables, req>> /\ pc' = pc
  BY DEF FefoTake
<1>10. UsedUpBefore(t, h)
  BY <1>1, <1>2, <1>3, <1>5, HeadSoonest
<1>11. /\ \A b \in Batch : Left(t, b) \in Int
       /\ Left(t, h) = onHand[h] - m.usage[h]
       /\ onHand[h] \in Int /\ m.usage[h] \in Int /\ m.seen[h] \in Int
  BY <1>3 DEF Left, IInv, TypeOK, Mem
<1>12. /\ m.seen[h] <= onHand[h] \/ Drawn(t, h)
       /\ onHand[h] <= m.seen[h] \/ Replenished(t, h)
  BY <1>1, <1>3 DEF PastInv, Stands, WalkStands
<1>13. /\ a.n = Len(m.plan) + 1 /\ a.tx = t /\ a.batch = h /\ a.qty = q
  BY <1>6
<1>14. q <= Left(t, h) \/ Drawn(t, h)
  BY <1>2, <1>5, <1>11, <1>12
<1>15. /\ UsageAddsUp(t)' /\ PlanStands(t)' /\ SoonestFirst(t)'
       /\ \A b \in Batch : Left(t, b)' = Left(t, b) - (IF b = h THEN q ELSE 0)
  BY <1>1, <1>5, <1>8, <1>9, <1>10, <1>13, <1>14, PlanAdvances
<1>16. \A b \in Batch : Left(t, b) <= 0 => Left(t, b)' <= 0
  BY <1>11, <1>15
<1>17. ASSUME x.need > 0 PROVE m.need > 0 /\ (Left(t, h)' <= 0 \/ Replenished(t, h))
  <2>1. Left(t, h)' = Left(t, h) - q
    BY <1>3, <1>15
  <2>2. q = m.seen[h] - m.usage[h] /\ m.need > 0
    BY <1>2, <1>3, <1>4, <1>5, <1>8, <1>17
  <2>3. Left(t, h)' = onHand[h] - m.seen[h]
    BY <1>11, <2>1, <2>2
  <2> QED
    BY <1>11, <1>12, <2>2, <2>3
<1>18. WalkStands(t)'
  BY <1>1, <1>2, <1>8, <1>9, <1>16, <1>17, WalkAdvances
<1>19. DraftStands(t)'
  BY <1>1, <1>9 DEF DraftStands, Drafting
<1> QED
  BY <1>15, <1>18, <1>19 DEF Advances, Stands

LEMMA PassAdvances ==
  ASSUME IInv, PastInv, NEW t \in Tx, Kept(t), FefoPass(t)
  PROVE  Advances(t)
<1> PICK m \in Mem : m = mem[t]
  BY DEF IInv, TypeOK
<1> PICK x : x = mem'[t]
  OBVIOUS
<1>1. x = [m EXCEPT !.cand = Tail(m.cand)]
  BY DEF FefoPass, IInv, TypeOK
<1>2. /\ x.plan = m.plan /\ x.usage = m.usage /\ x.need = m.need
      /\ x.line = m.line /\ x.seen = m.seen /\ x.cand = Tail(m.cand)
  BY <1>1 DEF Mem
<1>3. /\ pc[t] = "fefo_lock" /\ m.cand # <<>> /\ Take(t) <= 0 /\ Open(t)
      /\ UNCHANGED <<tables, req>> /\ pc' = pc
  BY DEF FefoPass, Open, Outcome
<1>4. \A b : Left(t, b)' = Left(t, b)
  BY <1>2, <1>3, SameGrounds
<1>5. PICK h, seen : h = Head(m.cand) /\ seen = m.seen[h] - m.usage[h]
  OBVIOUS
<1>6. /\ h \in Batch /\ seen \in Int /\ m.need \in Int
      /\ Sellable(h) => Take(t) \in {seen, m.need}
  BY <1>3, <1>5, TakeBounds
<1>7. m.need > 0 => ~Sellable(h) \/ Left(t, h) <= 0 \/ Replenished(t, h)
  <2>1. /\ Left(t, h) = onHand[h] - m.usage[h]
        /\ onHand[h] \in Int /\ m.usage[h] \in Int /\ m.seen[h] \in Int
    BY <1>6 DEF Left, IInv, TypeOK, Mem
  <2>2. onHand[h] <= m.seen[h] \/ Replenished(t, h)
    BY <1>3, <1>6 DEF PastInv, Stands, WalkStands
  <2> QED
    BY <1>3, <1>5, <1>6, <2>1, <2>2
<1>8. WalkStands(t)'
  BY <1>2, <1>3, <1>4, <1>5, <1>7, WalkAdvances
<1>9. PlanStands(t) /\ SoonestFirst(t) /\ UsageAddsUp(t)
  BY <1>3 DEF PastInv, Stands
<1>10. PlanStands(t)' /\ SoonestFirst(t)' /\ UsageAddsUp(t)'
  BY <1>2, <1>3, <1>9, PlanLeftAlone
<1>11. DraftStands(t)'
  BY <1>3 DEF DraftStands, Drafting
<1> QED
  BY <1>8, <1>10, <1>11 DEF Advances, Stands

LEMMA ValidateAdvances ==
  ASSUME IInv, OInv, PastInv, NEW t \in Tx, Kept(t), ValidateExplicit(t)
  PROVE  Advances(t)
<1> PICK m \in Mem : m = mem[t]
  BY DEF IInv, TypeOK
<1> PICK x : x = mem'[t]
  OBVIOUS
<1>1. /\ pc[t] = "validate" /\ req[t] \in Request /\ req[t].op = "commit_explicit" /\ Open(t)
  BY OpenNow DEF ValidateExplicit, Statement, OpsAt
<1>2. PICK e \in [line : Line, batch : Batch, qty : Nat \ {0}] : e = NextExplicit(t)
  <2>1. Len(m.plan) + 1 \in 1..Len(req[t].allocs)
        /\ req[t].allocs \in Seq([line : Line, batch : Batch, qty : Nat \ {0}])
    <3>1. /\ req[t].allocs \in Seq([line : Line, batch : Batch, qty : Nat \ {0}])
          /\ m.plan \in Seq(Allocation) /\ Len(m.plan) < Len(req[t].allocs)
      BY <1>1, RequestFields DEF ValidateExplicit, ExplicitLeft, Mem
    <3> QED
      BY <3>1, LenProperties
  <2> QED
    BY <2>1, ElementOfSeq DEF NextExplicit
<1>3. PICK a \in Allocation : a = [tx |-> t, n |-> Len(m.plan) + 1, line |-> e.line,
                                   batch |-> e.batch, qty |-> e.qty]
  <2>1. Len(m.plan) + 1 \in Nat
    BY LenProperties DEF Mem
  <2> QED
    BY <2>1 DEF Allocation
<1>4. mem' = [mem EXCEPT ![t].usage[e.batch] = @ + e.qty, ![t].plan = Append(@, a)]
  BY <1>2, <1>3 DEF ValidateExplicit
<1>5. /\ x.plan = Append(m.plan, a) /\ x.ins = m.ins
      /\ x.usage = [m.usage EXCEPT ![e.batch] = @ + e.qty]
  BY <1>4 DEF Mem, IInv, TypeOK
<1>6. UNCHANGED <<tables, req>> /\ pc' = pc
  BY DEF ValidateExplicit
<1>7. Sellable(e.batch) /\ m.usage[e.batch] + e.qty <= onHand[e.batch]
  BY <1>2 DEF ValidateExplicit, ExplicitOk
<1>8. e.qty <= Left(t, e.batch)
  <2>1. e.qty \in Int /\ m.usage[e.batch] \in Int /\ onHand[e.batch] \in Int
    BY DEF Mem, IInv, TypeOK
  <2> QED
    BY <1>7, <2>1 DEF Left
<1>9. /\ a.n = Len(m.plan) + 1 /\ a.tx = t /\ a.batch = e.batch /\ a.qty = e.qty
  BY <1>3
<1>10. UsageAddsUp(t)' /\ PlanStands(t)' /\ SoonestFirst(t)'
  BY <1>1, <1>5, <1>6, <1>7, <1>8, <1>9, PlanAdvances
<1>11. WalkStands(t)' /\ DraftStands(t)'
  BY <1>1, <1>6 DEF WalkStands, DraftStands, Drafting
<1> QED
  BY <1>10, <1>11 DEF Advances, Stands

-------------------------------------------------------------------------------
(* The invariant *)

LEMMA PastInit == HistoryInit => PastInv
<1> SUFFICES ASSUME HistoryInit PROVE PastInv
  OBVIOUS
<1>1. \A t \in Tx : ~Open(t) /\ mem[t] = Blank /\ since[t] = {}
  BY DEF HistoryInit, Init, Open
<1>2. \A t \in Tx : UsageAddsUp(t)
  BY <1>1, NothingUsed DEF UsageAddsUp, Planned, Blank
<1> QED
  BY <1>1, <1>2 DEF PastInv

LEMMA PastStutter == ASSUME PastInv, UNCHANGED historyVars PROVE PastInv'
<1> USE DEF historyVars, vars, tables
<1>1. \A t \in Tx : Open(t)' = Open(t) /\ UsageAddsUp(t)' = UsageAddsUp(t)
  BY DEF Open, UsageAddsUp, Planned
<1>2. /\ \A b, c : Before(b, c)' = Before(b, c)
      /\ \A p : Eligible(p)' = Eligible(p)
      /\ \A b : Sellable(b)' = Sellable(b)
      /\ \A t, b : /\ Left(t, b)' = Left(t, b)
                   /\ Withdrawn(t, b)' = Withdrawn(t, b)
                   /\ Replenished(t, b)' = Replenished(t, b)
                   /\ Corrected(t, b)' = Corrected(t, b)
                   /\ Drawn(t, b)' = Drawn(t, b)
  BY DEF Before, Eligible, Sellable, Left, Withdrawn, Replenished, Corrected, Drawn, Meanwhile
<1>3. ASSUME NEW t \in Tx, Stands(t) PROVE Stands(t)'
  <2>1. PlanStands(t)'
    BY <1>2, <1>3 DEF Stands, PlanStands
  <2>2. DraftStands(t)'
    BY <1>3 DEF Stands, DraftStands, Drafting, CommittedMeanwhile
  <2>3. \A c : UsedUpBefore(t, c)' = UsedUpBefore(t, c)
    BY <1>2 DEF UsedUpBefore
  <2>4. SoonestFirst(t)'
    BY <1>3, <2>3 DEF Stands, SoonestFirst
  <2>5. WalkStands(t)'
    BY <1>2, <1>3 DEF Stands, WalkStands
  <2> QED
    BY <2>1, <2>2, <2>4, <2>5 DEF Stands
<1>4. \A t \in Tx : \A u \in since'[t] : u \in Tx /\ pc'[u] = "ok"
  BY DEF PastInv
<1> QED
  BY <1>1, <1>3, <1>4 DEF PastInv

LEMMA PastNext ==
  ASSUME IInv, OInv, PastInv, Next, Remember
  PROVE  PastInv'
<1>1. [Next]_vars
  OBVIOUS
<1>2. \A t \in Tx : /\ Kept(t)
                    /\ \A o : CommittedMeanwhile(t, o) => CommittedMeanwhile(t, o)'
                    /\ \A u \in since'[t] : u \in Tx /\ pc'[u] = "ok"
  BY <1>1, PastKept
<1>3. ASSUME NEW t \in Tx, pc'[t] = pc[t], req'[t] = req[t], mem'[t] = mem[t]
      PROVE  Advances(t)
  BY <1>1, <1>3, OthersMove DEF Advances
<1>4. ASSUME NEW t \in Tx,
             Start(t) \/ CreateOrder(t) \/ Step(t) \/ DeadlockVictim(t) \/ Crash(t)
      PROVE  Advances(t)
  <2>1. Kept(t) /\ \A o : CommittedMeanwhile(t, o) => CommittedMeanwhile(t, o)'
    BY <1>2
  <2>2. CASE Start(t) \/ CreateOrder(t)
    BY <2>2, StartAdvances
  <2>3. CASE Rollbacks(t)
    BY <2>3, RollbackAdvances
  <2>4. CASE Fefo(t)
    BY <2>1, <2>3, <2>4, SelectAdvances, TakeAdvances, PassAdvances, SaleStepsAdvance
       DEF Fefo, Rollbacks
  <2>5. CASE Sale(t)
    BY <2>1, <2>3, <2>5, SaleStepsAdvance, ValidateAdvances, CommitAdvances DEF Sale, Rollbacks
  <2>6. CASE Draft(t)
    BY <2>1, <2>3, <2>6, DraftStepsAdvance, CommitAdvances DEF Draft, Rollbacks
  <2>7. CASE Stock(t)
    BY <2>1, <2>3, <2>7, SaleStepsAdvance, CommitAdvances DEF Stock, Rollbacks
  <2> QED
    BY <1>4, <2>2, <2>3, <2>4, <2>5, <2>6, <2>7 DEF Step, Rollbacks
<1>5. \A t \in Tx : Advances(t)
  <2>1. CASE Quiescent
    BY <1>3, <2>1 DEF Quiescent, vars
  <2>2. ASSUME NEW t \in Tx,
               Start(t) \/ CreateOrder(t) \/ Step(t) \/ DeadlockVictim(t) \/ Crash(t)
        PROVE  \A u \in Tx : Advances(u)
    BY <1>3, <1>4, <2>2, OneMoves
  <2> QED
    BY <2>1, <2>2 DEF Next
<1> QED
  BY <1>2, <1>5 DEF Advances, PastInv

(* A behaviour with its history is one of Spec. *)
LEMMA HistoryIsSpec == HistorySpec => Spec
<1>1. HistoryInit => Init
  BY DEF HistoryInit
<1>2. [HistoryNext]_historyVars => [Next]_vars
  BY DEF HistoryNext, historyVars
<1> QED
  BY <1>1, <1>2, PTL DEF HistorySpec, Spec

(* What a transaction has read before others committed is out of date only *)
(* where they changed it: the plan of a sale can be carried out but for    *)
(* what was drawn or withdrawn meanwhile, and an edit works on a draft but *)
(* for a commit meanwhile (commit_sales_order, update_sales_order_draft).  *)
THEOREM StaleOnlyWhereDisturbed == HistorySpec => []PastInv
<1>1. HistoryInit => PastInv
  BY PastInit
<1>2. IInv /\ OInv /\ PastInv /\ [HistoryNext]_historyVars => PastInv'
  BY PastNext, PastStutter DEF HistoryNext
<1> QED
  BY <1>1, <1>2, HistoryIsSpec, Inductive, OrdersInvariant, PTL DEF HistorySpec

-------------------------------------------------------------------------------
(* What a stale decision may do *)

(* The sale that wrote an allocation. *)
LEMMA NewAllocation ==
  ASSUME IInv, OInv, PastInv, [Next]_vars, NEW a \in allocations' \ allocations
  PROVE  /\ a \in Allocation
         /\ \E t \in Tx : CommitSale(t) /\ a.tx = t /\ a \in Planned(t) /\ Stands(t)
<1>1. PICK t \in Tx : CommitSale(t)
  BY LedgerWriters
<1>2. a \in Planned(t)
  BY <1>1 DEF CommitSale
<1>3. Open(t)
  BY <1>1 DEF CommitSale, Open, Outcome
<1> QED
  BY <1>1, <1>2, <1>3, ReadyToCommit DEF PastInv

(* D9, a recall blocks later sales: stock that is recalled or expired is   *)
(* sold only by a sale that was under way when the batch was withdrawn,    *)
(* however many run beside it (commit_sales_order).                        *)
THEOREM RecallBlocksSales == HistorySpec => RecallBlocksLaterSales
<1>1. ASSUME IInv, OInv, PastInv, [HistoryNext]_historyVars
      PROVE  [\A a \in allocations' \ allocations :
                Sellable(a.batch) \/ Withdrawn(a.tx, a.batch)]_historyVars
  <2>1. ASSUME NEW a \in allocations' \ allocations
        PROVE  Sellable(a.batch) \/ Withdrawn(a.tx, a.batch)
    <3>1. [Next]_vars
      BY <1>1 DEF HistoryNext, historyVars
    <3>2. PICK t \in Tx : a.tx = t /\ a \in Planned(t) /\ Stands(t)
      BY <1>1, <3>1, NewAllocation
    <3>3. PICK i \in DOMAIN mem[t].plan : a = mem[t].plan[i]
      BY <3>2 DEF Planned
    <3> QED
      BY <3>2, <3>3 DEF Stands, PlanStands
  <2> QED
    BY <2>1
<1> QED
  BY <1>1, HistoryIsSpec, Inductive, OrdersInvariant, StaleOnlyWhereDisturbed, PTL
     DEF HistorySpec, RecallBlocksLaterSales

(* D6 for the header: an update writes the customer of a committed order   *)
(* only when it had looked at the order before the commit, which is then   *)
(* one that happened while the update was open (update_sales_order_draft). *)
THEOREM HeaderStays == HistorySpec => HeaderChangesOnlyBesideCommit
<1>1. ASSUME IInv, OInv, PastInv, [Next]_vars, NEW o \in Order,
             order[o].status = "committed", order'[o].header # order[o].header
      PROVE  \E t \in Tx : /\ Commits(t)
                           /\ req[t].op = "update" /\ req[t].order = o
                           /\ CommittedMeanwhile(t, o)
  <2>1. CASE UNCHANGED order
    BY <1>1, <2>1
  <2>2. ASSUME NEW t \in Tx, CreateOrder(t) PROVE FALSE
    <3>1. PICK r \in Request, k \in Order :
            /\ order[k].status = "absent"
            /\ order' = [order EXCEPT ![k].status = "draft", ![k].header = r.header]
      BY <2>2 DEF CreateOrder
    <3> QED
      BY <1>1, <3>1 DEF IInv, TypeOK
  <2>3. ASSUME NEW t \in Tx, CommitUpdate(t)
        PROVE  /\ Commits(t) /\ req[t].op = "update" /\ req[t].order = o
               /\ CommittedMeanwhile(t, o)
    <3>1. pc[t] = "commit_draft" /\ Open(t) /\ req[t].op = "update"
      BY <2>3 DEF CommitUpdate, Open, Outcome
    <3>2. Commits(t)
      BY <1>1, <2>3 DEF CommitUpdate, Finish, Goto, Commits, IInv, TypeOK
    <3>3. req[t].order = o
      BY <1>1, <2>3 DEF CommitUpdate, IInv, TypeOK
    <3>4. CommittedMeanwhile(t, o)
      BY <1>1, <3>1, <3>3 DEF PastInv, Stands, DraftStands, Drafting
    <3> QED
      BY <3>1, <3>2, <3>3, <3>4
  <2>4. ASSUME NEW t \in Tx, CommitDelete(t) \/ CommitSale(t) \/ CommitVoid(t)
        PROVE  FALSE
    <3>1. \/ order' = [order EXCEPT ![req[t].order].status = "deleted"]
          \/ order' = [order EXCEPT ![req[t].order].status = "committed"]
          \/ order' = [order EXCEPT ![req[t].order].voided = TRUE]
      BY <2>4 DEF CommitDelete, CommitSale, CommitVoid
    <3>2. order[o] \in [status : {"absent", "draft", "committed", "deleted"},
                        voided : BOOLEAN, header : Header]
          /\ o \in DOMAIN order
      BY <1>1 DEF IInv, TypeOK
    <3>3. order'[o].header = order[o].header
      BY <3>1, <3>2
    <3> QED
      BY <1>1, <3>3
  <2>5. ASSUME NEW t \in Tx, WriteBatch(t) PROVE FALSE
    BY <1>1, <2>5 DEF WriteBatch
  <2> QED
    BY <1>1, <2>1, <2>2, <2>3, <2>4, <2>5, DocumentWriters
<1>2. IInv /\ OInv /\ PastInv /\ [HistoryNext]_historyVars =>
        [\A o \in Order :
           order[o].status = "committed" /\ order'[o].header # order[o].header =>
             \E t \in Tx : /\ Commits(t)
                           /\ req[t].op = "update" /\ req[t].order = o
                           /\ CommittedMeanwhile(t, o)]_historyVars
  BY <1>1 DEF HistoryNext, historyVars
<1> QED
  BY <1>2, HistoryIsSpec, Inductive, OrdersInvariant, StaleOnlyWhereDisturbed, PTL
     DEF HistorySpec, HeaderChangesOnlyBesideCommit

(* A sale posts what it planned: on_hand falls by batch_usage. *)
LEMMA SalePosts ==
  ASSUME IInv, OInv, PastInv, NEW t \in Tx, CommitSale(t), NEW b \in Batch
  PROVE  onHand'[b] = Left(t, b)
<1>1. onHand'[b] = onHand[b] + mem[t].pend[b]
  BY DEF CommitSale, PostPending
<1>2. mem[t].pend[b] = 0 - mem[t].usage[b]
  <2>1. mem[t].pend[b] = 0 - TotalQty(OfBatch(Planned(t), b))
    BY SalePending
  <2>2. mem[t].usage[b] = TotalQty(OfBatch(Planned(t), b))
    BY DEF PastInv, UsageAddsUp
  <2> QED
    BY <2>1, <2>2
<1>3. onHand[b] \in Int /\ mem[t].usage[b] \in Int
  BY UsageNatural DEF IInv, TypeOK
<1> QED
  BY <1>1, <1>2, <1>3 DEF Left

(* A batch the plan takes from is one batch_usage knows. *)
LEMMA UsedBatch ==
  ASSUME IInv, PastInv, NEW t \in Tx, NEW a \in Planned(t), a \in Allocation
  PROVE  mem[t].usage[a.batch] > 0
<1> PICK A : A = OfBatch(Planned(t), a.batch)
  OBVIOUS
<1>1. Planned(t) \subseteq Allocation /\ IsFiniteSet(Planned(t))
  BY PlanFinite
<1>2. IsFiniteSet(A) /\ A \subseteq Allocation /\ a \in A
  BY <1>1, FS_Subset DEF OfBatch
<1>3. TotalQty(A) > 0
  <2>1. \A x \in A : x.qty \in Nat \ {0}
    BY <1>2 DEF Allocation
  <2>2. TotalQty(A) \in Nat /\ TotalQty(A) # 0
    BY <1>2, <2>1, TotalPositive
  <2> QED
    BY <2>2
<1> QED
  BY <1>3 DEF PastInv, UsageAddsUp, Allocation

(* Who may overdraw a batch: a sale, when another debit of the batch was   *)
(* committed while it was under way, and nobody else (commit_sales_order,  *)
(* record_movement).                                                       *)
THEOREM OverdrawnBesideADebit == HistorySpec => OverdrawnOnlyBesideADebit
<1>1. ASSUME IInv, OInv, PastInv, [Next]_vars,
             NEW m \in movements' \ movements, m.kind = "sale"
      PROVE  onHand'[m.batch] >= 0 \/ Drawn(m.tx, m.batch)
  <2>1. PICK t \in Tx : CommitSale(t) \/ CommitVoid(t) \/ WriteBatch(t)
    BY <1>1, LedgerWriters
  <2>2. ~CommitVoid(t)
    BY <1>1 DEF CommitVoid, VoidMovement
  <2>3. ~WriteBatch(t)
    <3> SUFFICES ASSUME WriteBatch(t) PROVE FALSE
      OBVIOUS
    <3>1. m.kind = KindOf(req[t].op)
      BY <1>1 DEF WriteBatch
    <3>2. req[t].op \in BatchOp
      BY <1>1, OpenNow DEF WriteBatch, Statement, OpsAt
    <3> QED
      BY <1>1, <3>1, <3>2 DEF KindOf, BatchOp
  <2>4. CommitSale(t)
    BY <2>1, <2>2, <2>3
  <2>5. PICK a \in Planned(t) : m = SaleMovement(t, a)
    BY <1>1, <2>4 DEF CommitSale
  <2>6. a \in Allocation /\ m.batch = a.batch /\ m.tx = t
    BY <1>1, <2>4, <2>5, ReadyToCommit DEF SaleMovement
  <2>7. mem[t].usage[a.batch] > 0
    BY <1>1, <2>5, <2>6, UsedBatch
  <2>8. Open(t)
    BY <2>4 DEF CommitSale, Open, Outcome
  <2>9. Left(t, a.batch) >= 0 \/ Drawn(t, a.batch)
    BY <1>1, <2>6, <2>7, <2>8 DEF PastInv, Stands, PlanStands, Allocation
  <2>10. onHand'[a.batch] = Left(t, a.batch)
    BY <1>1, <2>4, <2>6, SalePosts DEF Allocation
  <2> QED
    BY <2>6, <2>9, <2>10
<1>2. ASSUME IInv, [Next]_vars, NEW m \in movements' PROVE onHand'[m.batch] \in Int
  <2>1. IInv'
    BY <1>2, NextIInv
  <2> QED
    BY <2>1 DEF IInv, TypeOK, Movement
<1>3. ASSUME IInv, OInv, PastInv, [HistoryNext]_historyVars,
             [\A m \in movements' \ movements :
                m.kind = "write_off" => onHand'[m.batch] >= 0]_vars
      PROVE  [\A m \in movements' \ movements :
                m.kind \in {"sale", "write_off"} /\ onHand'[m.batch] < 0 =>
                  m.kind = "sale" /\ Drawn(m.tx, m.batch)]_historyVars
  <2>1. [Next]_vars
    BY <1>3 DEF HistoryNext, historyVars
  <2>2. ASSUME NEW m \in movements' \ movements, m.kind = "write_off"
        PROVE  onHand'[m.batch] >= 0
    <3>1. ~UNCHANGED vars
      BY DEF vars, tables
    <3> QED
      BY <1>3, <2>2, <3>1
  <2>3. ASSUME NEW m \in movements' \ movements, m.kind \in {"sale", "write_off"},
               onHand'[m.batch] < 0
        PROVE  m.kind = "sale" /\ Drawn(m.tx, m.batch)
    <3>1. ~(onHand'[m.batch] >= 0)
      BY <1>2, <1>3, <2>1, <2>3
    <3>2. m.kind = "sale"
      BY <2>2, <2>3, <3>1
    <3> QED
      BY <1>1, <1>3, <2>1, <3>1, <3>2
  <2> QED
    BY <2>3
<1> QED
  BY <1>3, HistoryIsSpec, Inductive, OrdersInvariant, StaleOnlyWhereDisturbed,
     WriteOffSafe, PTL
     DEF HistorySpec, OverdrawnOnlyBesideADebit, WriteOffNeverOverdraws

(* First expired, first out (D4): a FEFO sale that takes from a batch has  *)
(* used up every sellable batch of the product that expires sooner, but    *)
(* for what was returned to or changed while it was under way              *)
(* (list_eligible_for_fefo).                                               *)
THEOREM SoonestSoldFirst == HistorySpec => SoonestFirstUnlessReplenished
<1>1. ASSUME IInv, OInv, PastInv, [Next]_vars, NEW a \in allocations' \ allocations,
             req[a.tx].op = "commit_fefo", NEW b \in Batch,
             ProductOf[b] = ProductOf[a.batch], Sellable(b), Before(b, a.batch)
      PROVE  \/ onHand'[b] <= 0
             \/ Replenished(a.tx, b) \/ Corrected(a.tx, a.batch)
  <2>1. PICK t \in Tx : CommitSale(t) /\ a.tx = t /\ a \in Planned(t) /\ Stands(t)
    BY <1>1, NewAllocation
  <2>2. PICK i \in DOMAIN mem[t].plan : a = mem[t].plan[i]
    BY <2>1 DEF Planned
  <2>3. UsedUpBefore(t, a.batch)
    BY <1>1, <2>1, <2>2 DEF Stands, SoonestFirst
  <2>4. Left(t, b) <= 0 \/ Replenished(t, b) \/ Corrected(t, a.batch)
    BY <1>1, <2>3 DEF UsedUpBefore
  <2> QED
    BY <1>1, <2>1, <2>4, SalePosts
<1>2. IInv /\ OInv /\ PastInv /\ [HistoryNext]_historyVars =>
        [\A a \in allocations' \ allocations :
           req[a.tx].op = "commit_fefo" =>
             \A b \in Batch :
               /\ ProductOf[b] = ProductOf[a.batch]
               /\ Sellable(b)
               /\ Before(b, a.batch)
               => \/ onHand'[b] <= 0
                  \/ Replenished(a.tx, b) \/ Corrected(a.tx, a.batch)]_historyVars
  BY <1>1 DEF HistoryNext, historyVars
<1> QED
  BY <1>2, HistoryIsSpec, Inductive, OrdersInvariant, StaleOnlyWhereDisturbed, PTL
     DEF HistorySpec, SoonestFirstUnlessReplenished

===============================================================================
