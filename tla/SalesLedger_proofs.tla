------------------------- MODULE SalesLedger_proofs -------------------------
(***************************************************************************)
(* Proofs about SalesLedger, for every set of transactions, orders,        *)
(* batches and requests.  IInv is inductive; the properties follow from it *)
(* step by step.                                                           *)
(***************************************************************************)
EXTENDS SalesLedger, TLAPS, FiniteSetTheorems, SequenceTheorems

(* What IInv says of one transaction. *)
TxInv(t) ==
  /\ AtOwnStatement(t)
  /\ PlanHeld(t)
  /\ PendingHeld(t)
  /\ BatchHeld(t)
  /\ WriteOffCovered(t)

IInv == TypeOK /\ LocksCompatible /\ \A t \in Tx : TxInv(t)

-------------------------------------------------------------------------------
(* Row locks *)

LEMMA ConflictsSymmetric == \A m, n : Conflicts(m, n) <=> Conflicts(n, m)
  BY DEF Conflicts

LEMMA RowTypes ==
  /\ \A b \in Batch : BatchRow(b) \in Row
  /\ \A o \in Order : OrderRow(o) \in Row
  /\ \A l \in Line : LineRow(l) \in Row
  /\ {"FOR UPDATE", "NO KEY UPDATE", "KEY SHARE"} \subseteq Mode
  BY DEF BatchRow, OrderRow, LineRow, Row, Mode

(* A lock that is granted conflicts with none, and none is taken away. *)
LEMMA AcquireAllLemma ==
  ASSUME NEW t \in Tx, NEW R \in SUBSET Row, NEW m \in Mode,
         LocksCompatible, locks \subseteq Lock, AcquireAll(t, R, m)
  PROVE  /\ LocksCompatible'
         /\ locks' \subseteq Lock
         /\ locks \subseteq locks'
         /\ \A r \in R : Holds(t, r, m)'
<1>1. locks' \subseteq Lock
  BY DEF AcquireAll, Lock
<1>2. ASSUME NEW k \in locks, k.row \in R, k.tx # t
      PROVE  ~Conflicts(k.mode, m)
  BY <1>2 DEF AcquireAll, CanLock, Blockers
<1>3. LocksCompatible'
  <2>1. SUFFICES ASSUME NEW k \in locks', NEW l \in locks', k.row = l.row, k.tx # l.tx
                 PROVE  ~Conflicts(k.mode, l.mode)
    BY DEF LocksCompatible
  <2>2. \A x \in locks' : x \in locks \/ (x.tx = t /\ x.row \in R /\ x.mode = m)
    BY DEF AcquireAll
  <2>3. CASE k \in locks /\ l \in locks
    BY <2>1, <2>3 DEF LocksCompatible
  <2>4. CASE k \notin locks
    BY <2>1, <2>2, <2>4, <1>2, ConflictsSymmetric
  <2>5. CASE l \notin locks
    BY <2>1, <2>2, <2>5, <1>2
  <2>6. QED
    BY <2>3, <2>4, <2>5
<1>4. QED
  BY <1>1, <1>3 DEF AcquireAll, Holds

LEMMA AcquireLemma ==
  ASSUME NEW t \in Tx, NEW r \in Row, NEW m \in Mode,
         LocksCompatible, locks \subseteq Lock, Acquire(t, r, m)
  PROVE  /\ LocksCompatible'
         /\ locks' \subseteq Lock
         /\ locks \subseteq locks'
         /\ Holds(t, r, m)'
  BY AcquireAllLemma DEF Acquire

(* Releasing the locks of t leaves those of the others. *)
LEMMA ReleaseLemma ==
  ASSUME NEW t \in Tx, LocksCompatible, locks \subseteq Lock, ReleaseAll(t)
  PROVE  /\ LocksCompatible'
         /\ locks' \subseteq Lock
         /\ \A u \in Tx \ {t} : \A r, m : Holds(u, r, m) => Holds(u, r, m)'
  BY DEF ReleaseAll, LocksCompatible, Holds

(* FOR UPDATE excludes every lock another transaction may hold on the row. *)
LEMMA ForUpdateExcludes ==
  ASSUME LocksCompatible, NEW t \in Tx, NEW u \in Tx, t # u, NEW r, NEW m,
         Holds(t, r, "FOR UPDATE"), Holds(u, r, m)
  PROVE  FALSE
  BY DEF LocksCompatible, Holds, Conflicts

-------------------------------------------------------------------------------
(* What one transaction does in its own memory *)

LEMMA BlankInMem ==
  /\ Blank \in Mem
  /\ DOMAIN Blank.plan = {}
  /\ \A b \in Batch : Blank.pend[b] = 0
<1>1. Blank \in Mem
  BY DEF Blank, Mem, NoStock
<1>2. Blank.plan = <<>> /\ DOMAIN <<>> = {}
  BY DEF Blank
<1>3. Blank.pend = NoStock
  BY DEF Blank
<1>4. QED
  BY <1>1, <1>2, <1>3 DEF NoStock

(* A step of t that changes neither batches nor stock keeps IInv, if it    *)
(* leaves what the others hold and keeps TxInv for t itself.               *)
LEMMA FrameLemma ==
  ASSUME IInv, NEW t \in Tx, UNCHANGED <<batch, onHand>>,
         \A u \in Tx \ {t} : /\ pc'[u] = pc[u]
                             /\ req'[u] = req[u]
                             /\ mem'[u] = mem[u]
                             /\ \A r, m : Holds(u, r, m) => Holds(u, r, m)',
         TypeOK', LocksCompatible', TxInv(t)'
  PROVE  IInv'
<1>1. ASSUME NEW u \in Tx \ {t} PROVE TxInv(u)'
  <2>1. TxInv(u)
    BY DEF IInv
  <2>2. AtOwnStatement(u)'
    BY <2>1 DEF TxInv, AtOwnStatement, Open
  <2>3. PlanHeld(u)'
    BY <2>1 DEF TxInv, PlanHeld, Sellable
  <2>4. PendingHeld(u)'
    BY <2>1 DEF TxInv, PendingHeld
  <2>5. BatchHeld(u)'
    BY <2>1 DEF TxInv, BatchHeld
  <2>6. WriteOffCovered(u)'
    BY <2>1 DEF TxInv, WriteOffCovered, WriteOffFits
  <2>7. QED
    BY <2>2, <2>3, <2>4, <2>5, <2>6 DEF TxInv
<1>2. QED
  BY <1>1 DEF IInv

(* What FrameLemma needs of a step that only moves t on: its statement,    *)
(* its memory and the locks it is granted.                                 *)
LEMMA PrivateLemma ==
  ASSUME IInv, NEW t \in Tx, UNCHANGED <<tables, req>>,
         pc'[t] \in Statement, pc' = [pc EXCEPT ![t] = pc'[t]],
         mem'[t] \in Mem, mem' = [mem EXCEPT ![t] = mem'[t]],
         locks \subseteq locks', locks' \subseteq Lock, LocksCompatible',
         TxInv(t)'
  PROVE  IInv'
<1>1. pc' \in [Tx -> Statement \cup Outcome \cup {"idle"}]
  BY DEF IInv, TypeOK
<1>2. mem' \in [Tx -> Mem]
  BY DEF IInv, TypeOK
<1>3. TypeOK'
  BY <1>1, <1>2 DEF IInv, TypeOK, tables
<1>4. \A u \in Tx \ {t} : /\ pc'[u] = pc[u] /\ req'[u] = req[u] /\ mem'[u] = mem[u]
                          /\ \A r, m : Holds(u, r, m) => Holds(u, r, m)'
  BY DEF IInv, TypeOK, Holds
<1>5. QED
  BY <1>3, <1>4, FrameLemma DEF tables

LEMMA PlanKept ==
  ASSUME IInv, NEW t \in Tx, UNCHANGED <<tables, req>>,
         mem'[t].plan = mem[t].plan, locks \subseteq locks'
  PROVE  PlanHeld(t)'
<1>1. PlanHeld(t)
  BY DEF IInv, TxInv
<1>2. batch' = batch /\ req' = req
  BY DEF tables
<1>3. QED
  BY <1>1, <1>2 DEF PlanHeld, Holds, Sellable

(* A step that plans nothing, inserts nothing and touches no batch. *)
LEMMA MoveLemma ==
  ASSUME IInv, NEW t \in Tx, UNCHANGED <<tables, req>>, Open(t),
         pc'[t] \in Statement \ {"read_on_hand", "write_batch"},
         pc' = [pc EXCEPT ![t] = pc'[t]],
         mem'[t] \in Mem, mem' = [mem EXCEPT ![t] = mem'[t]],
         mem'[t].plan = mem[t].plan, mem'[t].pend = mem[t].pend,
         locks \subseteq locks', locks' \subseteq Lock, LocksCompatible',
         req[t].op \in OpsAt(pc'[t]),
         pc'[t] = "fefo_lock" => mem'[t].line \in Line
  PROVE  IInv'
<1>1. TxInv(t)
  BY DEF IInv
<1>2. AtOwnStatement(t)'
  BY <1>1 DEF TxInv, AtOwnStatement, Statement, Open
<1>3. PlanHeld(t)'
  BY PlanKept
<1>4. PendingHeld(t)'
  BY <1>1 DEF TxInv, PendingHeld, Holds
<1>5. BatchHeld(t)' /\ WriteOffCovered(t)'
  BY DEF BatchHeld, WriteOffCovered
<1>6. TxInv(t)'
  BY <1>2, <1>3, <1>4, <1>5 DEF TxInv
<1>7. QED
  BY <1>6, PrivateLemma

(* COMMIT and ROLLBACK, as far as the transaction itself is concerned. *)
LEMMA FinishLemma ==
  ASSUME IInv, NEW t \in Tx, NEW oc \in Outcome, Finish(t, oc),
         UNCHANGED req, pc[t] # "idle"
  PROVE  /\ LocksCompatible' /\ locks' \subseteq Lock
         /\ pc' \in [Tx -> Statement \cup Outcome \cup {"idle"}]
         /\ mem' \in [Tx -> Mem]
         /\ TxInv(t)'
         /\ \A u \in Tx \ {t} : /\ pc'[u] = pc[u]
                                /\ req'[u] = req[u]
                                /\ mem'[u] = mem[u]
                                /\ \A r, m : Holds(u, r, m) => Holds(u, r, m)'
<1>1. LocksCompatible' /\ locks' \subseteq Lock
      /\ \A u \in Tx \ {t} : \A r, m : Holds(u, r, m) => Holds(u, r, m)'
  BY ReleaseLemma DEF IInv, TypeOK, Finish
<1>2. pc' \in [Tx -> Statement \cup Outcome \cup {"idle"}] /\ mem' \in [Tx -> Mem]
  BY BlankInMem DEF IInv, TypeOK, Finish, Goto
<1>3. pc'[t] = oc /\ mem'[t] = Blank /\ req'[t] = req[t] /\ req[t] \in Request
  BY DEF IInv, TypeOK, Finish, Goto, TxInv, AtOwnStatement
<1>4. TxInv(t)'
  <2>1. AtOwnStatement(t)'
    BY <1>3 DEF AtOwnStatement, Open, Outcome
  <2>2. PlanHeld(t)'
    BY <1>3, BlankInMem DEF PlanHeld
  <2>3. PendingHeld(t)'
    BY <1>3, BlankInMem DEF PendingHeld
  <2>4. BatchHeld(t)' /\ WriteOffCovered(t)'
    BY <1>3 DEF BatchHeld, WriteOffCovered, Outcome, Statement
  <2>5. QED
    BY <2>1, <2>2, <2>3, <2>4 DEF TxInv
<1>5. \A u \in Tx \ {t} : pc'[u] = pc[u] /\ req'[u] = req[u] /\ mem'[u] = mem[u]
  BY DEF IInv, TypeOK, Finish, Goto
<1>6. QED
  BY <1>1, <1>2, <1>4, <1>5

LEMMA RollbackLemma ==
  ASSUME IInv, NEW t \in Tx, NEW oc \in Outcome, Rollback(t, oc), pc[t] # "idle"
  PROVE  IInv'
<1>1. Finish(t, oc) /\ UNCHANGED <<tables, req>>
  BY DEF Rollback
<1>2. TypeOK'
  BY <1>1, FinishLemma DEF IInv, TypeOK, tables
<1>3. QED
  BY <1>1, <1>2, FinishLemma, FrameLemma DEF tables

-------------------------------------------------------------------------------
(* The actions *)

LEMMA OpenNow ==
  ASSUME IInv, NEW t \in Tx, pc[t] \in Statement
  PROVE  /\ Open(t) /\ req[t] \in Request /\ req[t].op \in OpsAt(pc[t])
         /\ mem[t] \in Mem
  BY DEF IInv, TypeOK, TxInv, AtOwnStatement, Open, Statement, Outcome

LEMMA NewLinesType ==
  ASSUME NEW t \in Tx, NEW o \in Order,
         NEW s \in Seq([product : Product, qty : Nat \ {0}])
  PROVE  NewLines(t, o, s) \subseteq Line
<1>1. ASSUME NEW i \in DOMAIN s
      PROVE  i \in Nat /\ s[i].product \in Product /\ s[i].qty \in Nat \ {0}
  <2>1. i \in 1..Len(s) /\ Len(s) \in Nat
    OBVIOUS
  <2>2. s[i] \in [product : Product, qty : Nat \ {0}]
    BY <2>1, ElementOfSeq
  <2>3. QED
    BY <2>1, <2>2
<1>2. QED
  BY <1>1 DEF NewLines, Line

LEMMA StartStep ==
  ASSUME IInv, NEW t \in Tx, Start(t) PROVE IInv'
<1>1. PICK r \in Request : /\ pc[t] = "idle" /\ r.op \notin CreateOp
                          /\ req' = [req EXCEPT ![t] = r]
                          /\ Goto(t, FirstStatement(r.op))
                          /\ UNCHANGED <<tables, locks, mem>>
  BY DEF Start
<1>2. /\ FirstStatement(r.op) \in Statement \ {"read_on_hand", "write_batch", "fefo_lock"}
      /\ r.op \in OpsAt(FirstStatement(r.op))
  BY <1>1, RequestFields DEF FirstStatement, Statement, OpsAt, SaleOp, DraftOp, CreateOp, BatchOp
<1>3. pc'[t] = FirstStatement(r.op) /\ req'[t] = r /\ mem'[t] = Blank
  BY <1>1 DEF IInv, TypeOK, TxInv, AtOwnStatement, Goto
<1>4. TypeOK'
  BY <1>1, <1>2 DEF IInv, TypeOK, tables, Goto
<1>5. TxInv(t)'
  <2>1. AtOwnStatement(t)'
    BY <1>2, <1>3 DEF AtOwnStatement, Statement
  <2>2. PlanHeld(t)' /\ PendingHeld(t)'
    BY <1>3, BlankInMem DEF PlanHeld, PendingHeld
  <2>3. BatchHeld(t)' /\ WriteOffCovered(t)'
    BY <1>2, <1>3 DEF BatchHeld, WriteOffCovered
  <2>4. QED
    BY <2>1, <2>2, <2>3 DEF TxInv
<1>6. LocksCompatible'
  BY <1>1 DEF IInv, LocksCompatible
<1>7. \A u \in Tx \ {t} : /\ pc'[u] = pc[u] /\ req'[u] = req[u] /\ mem'[u] = mem[u]
                          /\ \A q, m : Holds(u, q, m) => Holds(u, q, m)'
  BY <1>1 DEF IInv, TypeOK, Goto, Holds
<1>8. QED
  BY <1>1, <1>4, <1>5, <1>6, <1>7, FrameLemma DEF tables

LEMMA CreateOrderStep ==
  ASSUME IInv, NEW t \in Tx, CreateOrder(t) PROVE IInv'
<1>1. PICK r \in Request, o \in Order :
        /\ pc[t] = "idle" /\ r.op \in CreateOp
        /\ req' = [req EXCEPT ![t] = r]
        /\ order' = [order EXCEPT ![o].status = "draft", ![o].header = r.header]
        /\ lines' = lines \cup NewLines(t, o, r.lines)
        /\ Goto(t, "ok")
        /\ UNCHANGED <<batch, onHand, movements, allocations, locks, mem>>
  BY DEF CreateOrder
<1>2. r.header \in Header /\ r.lines \in Seq([product : Product, qty : Nat \ {0}])
  BY <1>1, RequestFields DEF CreateOp
<1>3. NewLines(t, o, r.lines) \subseteq Line
  BY <1>2, NewLinesType
<1>4. TypeOK'
  BY <1>1, <1>2, <1>3 DEF IInv, TypeOK, Goto, Outcome
<1>5. pc'[t] = "ok" /\ req'[t] = r /\ mem'[t] = Blank
  BY <1>1 DEF IInv, TypeOK, TxInv, AtOwnStatement, Goto
<1>6. TxInv(t)'
  <2>1. AtOwnStatement(t)'
    BY <1>5 DEF AtOwnStatement, Open, Outcome
  <2>2. PlanHeld(t)' /\ PendingHeld(t)'
    BY <1>5, BlankInMem DEF PlanHeld, PendingHeld
  <2>3. BatchHeld(t)' /\ WriteOffCovered(t)'
    BY <1>5 DEF BatchHeld, WriteOffCovered
  <2>4. QED
    BY <2>1, <2>2, <2>3 DEF TxInv
<1>7. LocksCompatible'
  BY <1>1 DEF IInv, LocksCompatible
<1>8. \A u \in Tx \ {t} : /\ pc'[u] = pc[u] /\ req'[u] = req[u] /\ mem'[u] = mem[u]
                          /\ \A q, m : Holds(u, q, m) => Holds(u, q, m)'
  BY <1>1 DEF IInv, TypeOK, Goto, Holds
<1>9. QED
  BY <1>1, <1>4, <1>6, <1>7, <1>8, FrameLemma

(* LockOrder, UpdateHeader and DeleteHeader: the header is locked. *)
LEMMA LockOrderStep ==
  ASSUME IInv, NEW t \in Tx, LockOrder(t) PROVE IInv'
<1> DEFINE o == req[t].order
<1>1. /\ pc[t] = "lock_order" /\ Open(t) /\ req[t] \in Request /\ mem[t] \in Mem
      /\ req[t].op \in SaleOp
  BY OpenNow DEF LockOrder, Statement, OpsAt
<1>2. OrderRow(o) \in Row /\ "FOR UPDATE" \in Mode
  BY <1>1, RequestFields, RowTypes
<1>3. locks \subseteq locks' /\ locks' \subseteq Lock /\ LocksCompatible'
  BY <1>2, AcquireLemma DEF LockOrder, IInv, TypeOK
<1>4. /\ pc' = [pc EXCEPT ![t] = pc'[t]]
      /\ pc'[t] \in {"read_allocations", "read_lines"}
      /\ req[t].op \in OpsAt(pc'[t])
  BY <1>1 DEF LockOrder, Goto, IInv, TypeOK, OpsAt, SaleOp, CommitOp
<1>5. UNCHANGED <<tables, req, mem>>
  BY DEF LockOrder
<1>6. QED
  BY <1>1, <1>3, <1>4, <1>5, MoveLemma DEF Statement, IInv, TypeOK

LEMMA ReadLinesStep ==
  ASSUME IInv, NEW t \in Tx, ReadLines(t) PROVE IInv'
<1>1. /\ Open(t) /\ req[t] \in Request /\ mem[t] \in Mem
      /\ req[t].op \in CommitOp \cup {"preview"}
  BY OpenNow DEF ReadLines, Statement, OpsAt
<1>2. /\ mem'[t] = [mem[t] EXCEPT !.want = LinesOf(req[t].order)]
      /\ mem' = [mem EXCEPT ![t] = mem'[t]]
  BY DEF ReadLines, IInv, TypeOK
<1>3. LinesOf(req[t].order) \subseteq Line
  BY DEF LinesOf, IInv, TypeOK
<1>4. mem'[t] \in Mem /\ mem'[t].plan = mem[t].plan /\ mem'[t].pend = mem[t].pend
  BY <1>1, <1>2, <1>3 DEF Mem
<1>5. /\ pc' = [pc EXCEPT ![t] = pc'[t]]
      /\ pc'[t] \in {"validate", "fefo"}
      /\ req[t].op \in OpsAt(pc'[t])
  BY <1>1 DEF ReadLines, Goto, IInv, TypeOK, OpsAt, CommitOp
<1>6. UNCHANGED <<tables, locks, req>> /\ LocksCompatible' /\ locks' \subseteq Lock
  BY DEF ReadLines, IInv, TypeOK, LocksCompatible
<1>7. QED
  BY <1>1, <1>2, <1>4, <1>5, <1>6, MoveLemma DEF Statement

-------------------------------------------------------------------------------
(* _fefo_walk *)

(* The walk's candidates are batches. *)
LEMMA FefoOrdersAreSeqs ==
  ASSUME NEW S \in SUBSET Batch, NEW s \in FefoOrders(S)
  PROVE  s \in Seq(Batch)
<1>1. Cardinality(S) \in Nat
  BY SalesConstants, FS_Subset, FS_CardinalityType
<1>2. s \in [1..Cardinality(S) -> Batch]
  BY DEF FefoOrders
<1>3. QED
  BY <1>1, <1>2, IsASeq

LEMMA FefoSelectStep ==
  ASSUME IInv, NEW t \in Tx, FefoSelect(t) PROVE IInv'
<1>1. /\ Open(t) /\ req[t] \in Request /\ mem[t] \in Mem
      /\ req[t].op \in {"commit_fefo", "preview"}
  BY OpenNow DEF FefoSelect, Statement, OpsAt
<1>2. PICK l \in mem[t].want : \E s \in FefoOrders(Eligible(l.product)) :
        mem' = [mem EXCEPT ![t].want = @ \ {l}, ![t].line = l,
                           ![t].need = l.qty, ![t].cand = s, ![t].seen = onHand]
  BY DEF FefoSelect
<1>3. PICK s \in FefoOrders(Eligible(l.product)) :
        mem' = [mem EXCEPT ![t].want = @ \ {l}, ![t].line = l,
                           ![t].need = l.qty, ![t].cand = s, ![t].seen = onHand]
  BY <1>2
<1>4. s \in Seq(Batch)
  BY FefoOrdersAreSeqs DEF Eligible
<1>5. /\ l \in Line /\ l.qty \in Int /\ onHand \in [Batch -> Int]
      /\ mem[t].want \ {l} \in SUBSET Line
  BY <1>1 DEF Mem, Line, IInv, TypeOK
<1>6. /\ mem' = [mem EXCEPT ![t] = mem'[t]]
      /\ mem'[t] = [mem[t] EXCEPT !.want = @ \ {l}, !.line = l,
                                  !.need = l.qty, !.cand = s, !.seen = onHand]
  BY <1>3 DEF IInv, TypeOK
<1>7. /\ mem'[t] \in Mem /\ mem'[t].plan = mem[t].plan /\ mem'[t].pend = mem[t].pend
      /\ mem'[t].line \in Line
  BY <1>1, <1>4, <1>5, <1>6 DEF Mem
<1>8. /\ pc' = [pc EXCEPT ![t] = pc'[t]] /\ pc'[t] = "fefo_lock"
      /\ req[t].op \in OpsAt(pc'[t])
  BY <1>1 DEF FefoSelect, Goto, IInv, TypeOK, OpsAt
<1>9. UNCHANGED <<tables, locks, req>> /\ LocksCompatible' /\ locks' \subseteq Lock
  BY DEF FefoSelect, IInv, TypeOK, LocksCompatible
<1>10. QED
  BY <1>1, <1>6, <1>7, <1>8, <1>9, MoveLemma DEF Statement

LEMMA MinOfTwo ==
  ASSUME NEW i \in Int, NEW j \in Int
  PROVE  Min({i, j}) \in {i, j}
<1>1. CASE i <= j
  <2>1. \E x \in {i, j} : \A y \in {i, j} : x <= y
    BY <1>1
  <2>2. QED
    BY <2>1 DEF Min
<1>2. CASE ~(i <= j)
  <2>1. \E x \in {i, j} : \A y \in {i, j} : x <= y
    BY <1>2
  <2>2. QED
    BY <2>1 DEF Min
<1>3. QED
  BY <1>1, <1>2

(* What the walk takes is a quantity, and of a batch that may be sold. *)
LEMMA TakeType ==
  ASSUME IInv, NEW t \in Tx, mem[t] \in Mem, mem[t].cand # <<>>
  PROVE  /\ Head(mem[t].cand) \in Batch /\ Tail(mem[t].cand) \in Seq(Batch)
         /\ Take(t) \in Int
         /\ Take(t) > 0 => Sellable(Head(mem[t].cand))
<1> DEFINE b == Head(mem[t].cand)
           available == mem[t].seen[b] - mem[t].usage[b]
<1>1. mem[t].cand \in Seq(Batch)
  BY DEF Mem
<1>2. b \in Batch /\ Tail(mem[t].cand) \in Seq(Batch)
  BY <1>1, HeadTailProperties
<1>3. available \in Int /\ mem[t].need \in Int
  BY <1>2 DEF Mem
<1>4. Min({available, mem[t].need}) \in Int
  BY <1>3, MinOfTwo
<1>5. QED
  BY <1>2, <1>4 DEF Take

(* A plan grows by one allocation. *)
LEMMA AppendedPlan ==
  ASSUME NEW p \in Seq(Allocation), NEW a \in Allocation
  PROVE  /\ Append(p, a) \in Seq(Allocation)
         /\ \A i \in DOMAIN Append(p, a) :
              \/ i \in DOMAIN p /\ Append(p, a)[i] = p[i]
              \/ Append(p, a)[i] = a
  BY AppendProperties

LEMMA FefoTakeStep ==
  ASSUME IInv, NEW t \in Tx, FefoTake(t) PROVE IInv'
<1> DEFINE m == mem[t]
<1>1. /\ Open(t) /\ req[t] \in Request /\ mem[t] \in Mem
      /\ req[t].op \in {"commit_fefo", "preview"} /\ pc[t] = "fefo_lock"
  BY OpenNow DEF FefoTake, Statement, OpsAt
<1>2. PICK b \in Batch : b = Head(m.cand) /\ Sellable(b)
  BY <1>1, TakeType DEF FefoTake
<1>3. PICK q \in Nat \ {0} : q = Take(t) /\ Tail(m.cand) \in Seq(Batch)
  <2>1. Take(t) > 0 /\ m.cand # <<>>
    BY DEF FefoTake
  <2>2. Tail(m.cand) \in Seq(Batch) /\ Take(t) \in Int
    BY <1>1, <2>1, TakeType
  <2>3. QED
    BY <2>1, <2>2
<1>4. m.line \in Line /\ m.plan \in Seq(Allocation)
  BY <1>1 DEF IInv, TxInv, AtOwnStatement, Mem
<1>5. PICK a \in Allocation :
        a = [tx |-> t, n |-> Len(m.plan) + 1, line |-> m.line,
             batch |-> b, qty |-> q]
  <2>1. [tx |-> t, n |-> Len(m.plan) + 1, line |-> m.line,
         batch |-> b, qty |-> q] \in Allocation
    BY <1>3, <1>4, LenProperties DEF Allocation
  <2>2. QED
    BY <2>1
<1>6. /\ locks \subseteq locks' /\ locks' \subseteq Lock /\ LocksCompatible'
      /\ Holds(t, BatchRow(b), "FOR UPDATE")'
  <2>1. Acquire(t, BatchRow(b), "FOR UPDATE")
    BY <1>2 DEF FefoTake
  <2>2. BatchRow(b) \in Row /\ "FOR UPDATE" \in Mode
    BY RowTypes
  <2>3. QED
    BY <2>1, <2>2, AcquireLemma DEF IInv, TypeOK
<1>7. /\ mem' = [mem EXCEPT ![t] = mem'[t]]
      /\ mem'[t] = [m EXCEPT !.cand = Tail(m.cand), !.need = m.need - q,
                             !.usage = [m.usage EXCEPT ![b] = @ + q],
                             !.plan = Append(m.plan, a)]
  <2>1. mem' = [mem EXCEPT ![t].cand = Tail(@), ![t].need = @ - q,
                           ![t].usage[b] = @ + q, ![t].plan = Append(@, a)]
    BY <1>2, <1>3, <1>5 DEF FefoTake
  <2>2. mem \in [Tx -> Mem]
    BY DEF IInv, TypeOK
  <2>3. QED
    BY <2>1, <2>2 DEF Mem
<1>8. m.need - q \in Int /\ [m.usage EXCEPT ![b] = @ + q] \in [Batch -> Int]
  <2>1. m.need \in Int /\ m.usage \in [Batch -> Int]
    BY <1>1 DEF Mem
  <2>2. QED
    BY <2>1
<1>9. Append(m.plan, a) \in Seq(Allocation)
  BY <1>4, AppendedPlan
<1>10. /\ mem'[t] \in Mem /\ mem'[t].plan = Append(m.plan, a)
       /\ mem'[t].pend = m.pend /\ mem'[t].line = m.line
  BY <1>1, <1>3, <1>7, <1>8, <1>9 DEF Mem
<1>11. /\ pc' = [pc EXCEPT ![t] = pc'[t]] /\ pc'[t] = "fefo_lock"
       /\ UNCHANGED <<tables, req, pc>>
  BY <1>1 DEF FefoTake, IInv, TypeOK
<1>12. TxInv(t)'
  <2>1. AtOwnStatement(t)'
    BY <1>1, <1>4, <1>10, <1>11 DEF AtOwnStatement, Open, OpsAt
  <2>2. PlanHeld(t)'
    <3>1. ASSUME NEW i \in DOMAIN m.plan, NEW x, x = m.plan[i]
          PROVE  x.tx = t /\ Holds(t, BatchRow(x.batch), "FOR UPDATE") /\ Sellable(x.batch)
      BY <1>1, <3>1 DEF IInv, TxInv, PlanHeld
    <3>2. ASSUME NEW i \in DOMAIN mem'[t].plan, NEW x, x = mem'[t].plan[i]
          PROVE  /\ x.tx = t
                 /\ Holds(t, BatchRow(x.batch), "FOR UPDATE")'
                 /\ Sellable(x.batch)
      <4>1. CASE i \in DOMAIN m.plan /\ x = m.plan[i]
        BY <4>1, <3>1, <1>6 DEF Holds
      <4>2. CASE x = a
        BY <4>2, <1>2, <1>5, <1>6
      <4>3. QED
        BY <3>2, <4>1, <4>2, <1>4, <1>10, AppendedPlan
    <3>3. batch' = batch
      BY <1>11 DEF tables
    <3>4. QED
      BY <3>2, <3>3 DEF PlanHeld, Sellable, Holds
  <2>3. PendingHeld(t)'
    BY <1>6, <1>10 DEF IInv, TxInv, PendingHeld, Holds
  <2>4. BatchHeld(t)' /\ WriteOffCovered(t)'
    BY <1>11 DEF BatchHeld, WriteOffCovered
  <2>5. QED
    BY <2>1, <2>2, <2>3, <2>4 DEF TxInv
<1>13. QED
  BY <1>6, <1>7, <1>10, <1>11, <1>12, PrivateLemma DEF Statement

LEMMA FefoPassStep ==
  ASSUME IInv, NEW t \in Tx, FefoPass(t) PROVE IInv'
<1> DEFINE m == mem[t]
<1>1. /\ Open(t) /\ req[t] \in Request /\ mem[t] \in Mem
      /\ req[t].op \in OpsAt("fefo_lock") /\ pc[t] = "fefo_lock"
  BY OpenNow DEF FefoPass, Statement
<1>2. Head(m.cand) \in Batch /\ Tail(m.cand) \in Seq(Batch)
  BY <1>1, TakeType DEF FefoPass
<1>3. locks \subseteq locks' /\ locks' \subseteq Lock /\ LocksCompatible'
  BY <1>2, RowTypes, AcquireLemma DEF FefoPass, IInv, TypeOK
<1>4. /\ mem' = [mem EXCEPT ![t] = mem'[t]]
      /\ mem'[t] = [m EXCEPT !.cand = Tail(m.cand)]
  BY DEF FefoPass, IInv, TypeOK
<1>5. /\ mem'[t] \in Mem /\ mem'[t].plan = m.plan /\ mem'[t].pend = m.pend
      /\ mem'[t].line = m.line
  BY <1>1, <1>2, <1>4 DEF Mem
<1>6. m.line \in Line
  BY <1>1 DEF IInv, TxInv, AtOwnStatement
<1>7. pc' = [pc EXCEPT ![t] = pc'[t]] /\ pc'[t] = "fefo_lock" /\ UNCHANGED <<tables, req>>
  BY <1>1 DEF FefoPass, IInv, TypeOK
<1>8. QED
  BY <1>1, <1>3, <1>4, <1>5, <1>6, <1>7, MoveLemma DEF Statement

(* The end of a line, and of the walk. *)
LEMMA FefoDoneStep ==
  ASSUME IInv, NEW t \in Tx, FefoLineDone(t) \/ FefoDone(t) PROVE IInv'
<1>1. /\ Open(t) /\ mem[t] \in Mem
      /\ req[t].op \in {"commit_fefo", "preview"}
  BY OpenNow DEF FefoLineDone, FefoDone, Statement, OpsAt
<1>2. /\ pc' = [pc EXCEPT ![t] = pc'[t]] /\ pc'[t] \in {"fefo", "insert_sales"}
      /\ req[t].op \in OpsAt(pc'[t])
  BY <1>1 DEF FefoLineDone, FefoDone, Goto, IInv, TypeOK, OpsAt, CommitOp
<1>3. UNCHANGED <<tables, locks, req, mem>> /\ LocksCompatible' /\ locks' \subseteq Lock
  BY DEF FefoLineDone, FefoDone, IInv, TypeOK, LocksCompatible
<1>4. QED
  BY <1>1, <1>2, <1>3, MoveLemma DEF Statement, IInv, TypeOK

-------------------------------------------------------------------------------
(* _validate_explicit_allocations and the insertions *)

LEMMA ValidateExplicitStep ==
  ASSUME IInv, NEW t \in Tx, ValidateExplicit(t) PROVE IInv'
<1> DEFINE m == mem[t]
<1>1. /\ Open(t) /\ req[t] \in Request /\ mem[t] \in Mem
      /\ req[t].op = "commit_explicit" /\ pc[t] = "validate"
  BY OpenNow DEF ValidateExplicit, Statement, OpsAt
<1>2. /\ req[t].allocs \in Seq([line : Line, batch : Batch, qty : Nat \ {0}])
      /\ m.plan \in Seq(Allocation) /\ Len(m.plan) < Len(req[t].allocs)
  BY <1>1, RequestFields DEF ValidateExplicit, ExplicitLeft, Mem
<1>3. PICK x \in [line : Line, batch : Batch, qty : Nat \ {0}] : x = NextExplicit(t)
  <2>1. Len(m.plan) + 1 \in 1..Len(req[t].allocs)
    BY <1>2, LenProperties
  <2>2. QED
    BY <1>2, <2>1, ElementOfSeq DEF NextExplicit
<1>4. PICK a \in Allocation : a = [tx |-> t, n |-> Len(m.plan) + 1, line |-> x.line,
                                   batch |-> x.batch, qty |-> x.qty]
  <2>1. [tx |-> t, n |-> Len(m.plan) + 1, line |-> x.line,
         batch |-> x.batch, qty |-> x.qty] \in Allocation
    BY <1>2, LenProperties DEF Allocation
  <2>2. QED
    BY <2>1
<1>5. /\ mem' = [mem EXCEPT ![t] = mem'[t]]
      /\ mem'[t] = [m EXCEPT !.usage = [m.usage EXCEPT ![x.batch] = @ + x.qty],
                             !.plan = Append(m.plan, a)]
  <2>1. mem' = [mem EXCEPT ![t].usage[x.batch] = @ + x.qty, ![t].plan = Append(@, a)]
    BY <1>3, <1>4 DEF ValidateExplicit
  <2>2. mem \in [Tx -> Mem]
    BY DEF IInv, TypeOK
  <2>3. QED
    BY <2>1, <2>2 DEF Mem
<1>6. [m.usage EXCEPT ![x.batch] = @ + x.qty] \in [Batch -> Int]
  <2>1. m.usage \in [Batch -> Int]
    BY <1>1 DEF Mem
  <2>2. QED
    BY <2>1
<1>7. Append(m.plan, a) \in Seq(Allocation)
  BY <1>2, AppendedPlan
<1>8. mem'[t] \in Mem /\ mem'[t].plan = Append(m.plan, a) /\ mem'[t].pend = m.pend
  BY <1>1, <1>5, <1>6, <1>7 DEF Mem
<1>9. /\ pc' = [pc EXCEPT ![t] = pc'[t]] /\ pc'[t] = "validate"
      /\ UNCHANGED <<tables, locks, req, pc>>
  BY <1>1 DEF ValidateExplicit, IInv, TypeOK
<1>10. LocksCompatible' /\ locks' \subseteq Lock
  BY <1>9 DEF IInv, TypeOK, LocksCompatible
<1>11. TxInv(t)'
  <2>1. AtOwnStatement(t)'
    BY <1>1, <1>9 DEF AtOwnStatement, Open, OpsAt
  <2>2. PlanHeld(t)'
    <3>1. \A i \in DOMAIN m.plan : m.plan[i].tx = t
      BY DEF IInv, TxInv, PlanHeld
    <3>2. \A i \in DOMAIN mem'[t].plan : mem'[t].plan[i].tx = t
      BY <3>1, <1>2, <1>4, <1>8, AppendedPlan
    <3>3. QED
      BY <3>2, <1>1, <1>9 DEF PlanHeld
  <2>3. PendingHeld(t)'
    BY <1>8, <1>9 DEF IInv, TxInv, PendingHeld, Holds
  <2>4. BatchHeld(t)' /\ WriteOffCovered(t)'
    BY <1>9 DEF BatchHeld, WriteOffCovered
  <2>5. QED
    BY <2>1, <2>2, <2>3, <2>4 DEF TxInv
<1>12. QED
  BY <1>5, <1>8, <1>9, <1>10, <1>11, PrivateLemma DEF Statement

LEMMA ExplicitDoneStep ==
  ASSUME IInv, NEW t \in Tx, ExplicitDone(t) PROVE IInv'
<1>1. Open(t) /\ mem[t] \in Mem /\ req[t].op = "commit_explicit"
  BY OpenNow DEF ExplicitDone, Statement, OpsAt
<1>2. /\ pc' = [pc EXCEPT ![t] = pc'[t]] /\ pc'[t] = "insert_sales"
      /\ req[t].op \in OpsAt(pc'[t])
  BY <1>1 DEF ExplicitDone, Goto, IInv, TypeOK, OpsAt, CommitOp
<1>3. UNCHANGED <<tables, locks, req, mem>> /\ LocksCompatible' /\ locks' \subseteq Lock
  BY DEF ExplicitDone, IInv, TypeOK, LocksCompatible
<1>4. QED
  BY <1>1, <1>2, <1>3, MoveLemma DEF Statement, IInv, TypeOK

(* A movement is inserted once its batch is held FOR KEY SHARE. *)
LEMMA PendingLemma ==
  ASSUME IInv, NEW t \in Tx, mem[t] \in Mem, NEW b \in Batch, NEW q \in Int,
         mem'[t].pend = [mem[t].pend EXCEPT ![b] = q],
         locks \subseteq locks', Holds(t, BatchRow(b), "KEY SHARE")'
  PROVE  PendingHeld(t)' /\ mem'[t].pend \in [Batch -> Int]
<1>1. mem[t].pend \in [Batch -> Int]
  BY DEF Mem
<1>2. ASSUME NEW c \in Batch, mem'[t].pend[c] # 0
      PROVE  Holds(t, BatchRow(c), "KEY SHARE")'
  <2>1. CASE c = b
    BY <2>1
  <2>2. CASE c # b
    BY <1>1, <1>2, <2>2 DEF IInv, TxInv, PendingHeld, Holds
  <2>3. QED
    BY <2>1, <2>2
<1>3. QED
  BY <1>1, <1>2 DEF PendingHeld, Holds

LEMMA InsertSaleStep ==
  ASSUME IInv, NEW t \in Tx, InsertSale(t) PROVE IInv'
<1> DEFINE m == mem[t]
<1>1. /\ Open(t) /\ req[t] \in Request /\ mem[t] \in Mem
      /\ req[t].op \in OpsAt("insert_sales") /\ pc[t] = "insert_sales"
  BY OpenNow DEF InsertSale, Statement
<1>2. m.plan \in Seq(Allocation) /\ m.ins \in Nat /\ m.ins < Len(m.plan)
  BY <1>1 DEF InsertSale, Mem
<1>3. PICK a \in Allocation : a = m.plan[m.ins + 1]
  <2>1. m.ins + 1 \in 1..Len(m.plan)
    BY <1>2, LenProperties
  <2>2. QED
    BY <1>2, <2>1, ElementOfSeq
<1>4. a.line \in Line /\ a.batch \in Batch /\ a.qty \in Int
  BY DEF Allocation
<1>5. PICK R \in SUBSET Row : R = {LineRow(a.line), BatchRow(a.batch)}
  BY <1>4, RowTypes
<1>6. AcquireAll(t, R, "KEY SHARE")
  BY <1>3, <1>5 DEF InsertSale
<1>7. /\ locks \subseteq locks' /\ locks' \subseteq Lock /\ LocksCompatible'
      /\ Holds(t, BatchRow(a.batch), "KEY SHARE")'
  BY <1>5, <1>6, AcquireAllLemma, RowTypes DEF IInv, TypeOK
<1>8. /\ mem' = [mem EXCEPT ![t] = mem'[t]]
      /\ mem'[t] = [m EXCEPT !.ins = m.ins + 1,
                             !.pend = [m.pend EXCEPT ![a.batch] = m.pend[a.batch] - a.qty]]
  <2>1. mem' = [mem EXCEPT ![t].ins = @ + 1, ![t].pend[a.batch] = @ - a.qty]
    BY <1>3 DEF InsertSale
  <2>2. mem \in [Tx -> Mem]
    BY DEF IInv, TypeOK
  <2>3. QED
    BY <2>1, <2>2 DEF Mem
<1>9. m.pend[a.batch] - a.qty \in Int /\ m.pend \in [Batch -> Int]
  BY <1>1, <1>4 DEF Mem
<1>10. mem'[t].pend = [m.pend EXCEPT ![a.batch] = m.pend[a.batch] - a.qty]
       /\ mem'[t].plan = m.plan
  BY <1>1, <1>8 DEF Mem
<1>11. PendingHeld(t)' /\ mem'[t].pend \in [Batch -> Int]
  BY <1>1, <1>4, <1>7, <1>9, <1>10, PendingLemma
<1>12. mem'[t] \in Mem
  <2>1. PICK p \in [Batch -> Int] : mem'[t] = [m EXCEPT !.ins = m.ins + 1, !.pend = p]
    BY <1>8, <1>10, <1>11
  <2>2. PICK n \in Nat : n = m.ins + 1
    BY <1>2
  <2>3. mem'[t] = [m EXCEPT !.ins = n, !.pend = p]
    BY <2>1, <2>2
  <2>4. QED
    BY <1>1, <2>3 DEF Mem
<1>13. /\ pc' = [pc EXCEPT ![t] = pc'[t]] /\ pc'[t] = "insert_sales"
       /\ UNCHANGED <<tables, req, pc>>
  BY <1>1 DEF InsertSale, IInv, TypeOK
<1>14. TxInv(t)'
  <2>1. AtOwnStatement(t)'
    BY <1>1, <1>13 DEF AtOwnStatement, Open, OpsAt
  <2>2. PlanHeld(t)'
    BY <1>7, <1>10, <1>13, PlanKept
  <2>3. BatchHeld(t)' /\ WriteOffCovered(t)'
    BY <1>13 DEF BatchHeld, WriteOffCovered
  <2>4. QED
    BY <2>1, <2>2, <2>3, <1>11 DEF TxInv
<1>15. QED
  BY <1>7, <1>8, <1>12, <1>13, <1>14, PrivateLemma DEF Statement

LEMMA ReadAllocationsStep ==
  ASSUME IInv, NEW t \in Tx, ReadAllocations(t) PROVE IInv'
<1>1. Open(t) /\ mem[t] \in Mem /\ req[t].op \in OpsAt("read_allocations")
  BY OpenNow DEF ReadAllocations, Statement
<1>2. AllocationsOf(req[t].order) \in SUBSET Allocation
  BY DEF AllocationsOf, IInv, TypeOK
<1>3. /\ mem' = [mem EXCEPT ![t] = mem'[t]]
      /\ mem'[t] = [mem[t] EXCEPT !.owed = AllocationsOf(req[t].order)]
  BY DEF ReadAllocations, IInv, TypeOK
<1>4. mem'[t] \in Mem /\ mem'[t].plan = mem[t].plan /\ mem'[t].pend = mem[t].pend
  BY <1>1, <1>2, <1>3 DEF Mem
<1>5. /\ pc' = [pc EXCEPT ![t] = pc'[t]] /\ pc'[t] = "insert_reversals"
      /\ req[t].op \in OpsAt(pc'[t])
  BY <1>1 DEF ReadAllocations, Goto, IInv, TypeOK, OpsAt
<1>6. UNCHANGED <<tables, locks, req>> /\ LocksCompatible' /\ locks' \subseteq Lock
  BY DEF ReadAllocations, IInv, TypeOK, LocksCompatible
<1>7. QED
  BY <1>1, <1>3, <1>4, <1>5, <1>6, MoveLemma DEF Statement

LEMMA InsertReversalStep ==
  ASSUME IInv, NEW t \in Tx, InsertReversal(t) PROVE IInv'
<1> DEFINE m == mem[t]
<1>1. /\ Open(t) /\ req[t] \in Request /\ mem[t] \in Mem
      /\ req[t].op \in OpsAt("insert_reversals") /\ pc[t] = "insert_reversals"
  BY OpenNow DEF InsertReversal, Statement
<1>2. PICK a \in m.owed :
        /\ Acquire(t, BatchRow(a.batch), "KEY SHARE")
        /\ mem' = [mem EXCEPT ![t].owed = @ \ {a}, ![t].paid = @ \cup {a},
                              ![t].pend[a.batch] = @ + a.qty]
  BY DEF InsertReversal
<1>3. /\ a \in Allocation /\ a.batch \in Batch /\ a.qty \in Int
      /\ m.owed \ {a} \in SUBSET Allocation /\ m.paid \cup {a} \in SUBSET Allocation
  <2>1. m.owed \in SUBSET Allocation /\ m.paid \in SUBSET Allocation
    BY <1>1 DEF Mem
  <2>2. a \in Allocation
    BY <2>1
  <2>3. a.batch \in Batch /\ a.qty \in Int
    BY <2>2 DEF Allocation
  <2>4. QED
    BY <2>1, <2>2, <2>3
<1>4. /\ locks \subseteq locks' /\ locks' \subseteq Lock /\ LocksCompatible'
      /\ Holds(t, BatchRow(a.batch), "KEY SHARE")'
  BY <1>2, <1>3, RowTypes, AcquireLemma DEF IInv, TypeOK
<1>5. /\ mem' = [mem EXCEPT ![t] = mem'[t]]
      /\ mem'[t] = [m EXCEPT !.owed = m.owed \ {a}, !.paid = m.paid \cup {a},
                             !.pend = [m.pend EXCEPT ![a.batch] = m.pend[a.batch] + a.qty]]
  <2>1. mem \in [Tx -> Mem]
    BY DEF IInv, TypeOK
  <2>2. QED
    BY <1>2, <2>1 DEF Mem
<1>6. m.pend[a.batch] + a.qty \in Int /\ m.pend \in [Batch -> Int]
  BY <1>1, <1>3 DEF Mem
<1>7. mem'[t].pend = [m.pend EXCEPT ![a.batch] = m.pend[a.batch] + a.qty]
      /\ mem'[t].plan = m.plan
  BY <1>1, <1>5 DEF Mem
<1>8. PendingHeld(t)' /\ mem'[t].pend \in [Batch -> Int]
  BY <1>1, <1>3, <1>4, <1>6, <1>7, PendingLemma
<1>9. mem'[t] \in Mem
  <2>1. PICK p \in [Batch -> Int] :
          p = [m.pend EXCEPT ![a.batch] = m.pend[a.batch] + a.qty]
    BY <1>7, <1>8
  <2>2. PICK x \in SUBSET Allocation, y \in SUBSET Allocation :
          x = m.owed \ {a} /\ y = m.paid \cup {a}
    BY <1>3
  <2>3. mem'[t] = [m EXCEPT !.owed = x, !.paid = y, !.pend = p]
    BY <1>5, <2>1, <2>2
  <2>4. QED
    BY <1>1, <2>3 DEF Mem
<1>10. /\ pc' = [pc EXCEPT ![t] = pc'[t]] /\ pc'[t] = "insert_reversals"
       /\ UNCHANGED <<tables, req, pc>>
  BY <1>1 DEF InsertReversal, IInv, TypeOK
<1>11. TxInv(t)'
  <2>1. AtOwnStatement(t)'
    BY <1>1, <1>10 DEF AtOwnStatement, Open, OpsAt
  <2>2. PlanHeld(t)'
    BY <1>4, <1>7, <1>10, PlanKept
  <2>3. BatchHeld(t)' /\ WriteOffCovered(t)'
    BY <1>10 DEF BatchHeld, WriteOffCovered
  <2>4. QED
    BY <2>1, <2>2, <2>3, <1>8 DEF TxInv
<1>12. QED
  BY <1>4, <1>5, <1>9, <1>10, <1>11, PrivateLemma DEF Statement

-------------------------------------------------------------------------------
(* Drafts *)

LEMMA ReadOrderStep ==
  ASSUME IInv, NEW t \in Tx, ReadOrder(t) PROVE IInv'
<1>1. Open(t) /\ mem[t] \in Mem /\ req[t].op \in DraftOp
  BY OpenNow DEF ReadOrder, Statement, OpsAt
<1>2. /\ pc' = [pc EXCEPT ![t] = pc'[t]]
      /\ pc'[t] \in {"read_lines", "update_header", "select_lines"}
      /\ req[t].op \in OpsAt(pc'[t])
  BY <1>1 DEF ReadOrder, Goto, IInv, TypeOK, OpsAt, DraftOp
<1>3. UNCHANGED <<tables, locks, req, mem>> /\ LocksCompatible' /\ locks' \subseteq Lock
  BY DEF ReadOrder, IInv, TypeOK, LocksCompatible
<1>4. QED
  BY <1>1, <1>2, <1>3, MoveLemma DEF Statement, IInv, TypeOK

LEMMA UpdateHeaderStep ==
  ASSUME IInv, NEW t \in Tx, UpdateHeader(t) PROVE IInv'
<1>1. /\ Open(t) /\ req[t] \in Request /\ mem[t] \in Mem
      /\ req[t].op = "update"
  BY OpenNow DEF UpdateHeader, Statement, OpsAt
<1>2. OrderRow(req[t].order) \in Row /\ "NO KEY UPDATE" \in Mode
  BY <1>1, RequestFields, RowTypes DEF DraftOp
<1>3. locks \subseteq locks' /\ locks' \subseteq Lock /\ LocksCompatible'
  BY <1>2, AcquireLemma DEF UpdateHeader, IInv, TypeOK
<1>4. /\ pc' = [pc EXCEPT ![t] = pc'[t]]
      /\ pc'[t] \in {"commit_draft", "select_lines"}
      /\ req[t].op \in OpsAt(pc'[t])
  BY <1>1 DEF UpdateHeader, Goto, IInv, TypeOK, OpsAt
<1>5. UNCHANGED <<tables, req, mem>>
  BY DEF UpdateHeader
<1>6. QED
  BY <1>1, <1>3, <1>4, <1>5, MoveLemma DEF Statement, IInv, TypeOK

LEMMA SelectLinesStep ==
  ASSUME IInv, NEW t \in Tx, SelectLines(t) PROVE IInv'
<1>1. Open(t) /\ mem[t] \in Mem /\ req[t].op \in OpsAt("select_lines")
  BY OpenNow DEF SelectLines, Statement
<1>2. LinesOf(req[t].order) \in SUBSET Line
  BY DEF LinesOf, IInv, TypeOK
<1>3. /\ mem' = [mem EXCEPT ![t] = mem'[t]]
      /\ mem'[t] = [mem[t] EXCEPT !.want = LinesOf(req[t].order)]
  BY DEF SelectLines, IInv, TypeOK
<1>4. mem'[t] \in Mem /\ mem'[t].plan = mem[t].plan /\ mem'[t].pend = mem[t].pend
  BY <1>1, <1>2, <1>3 DEF Mem
<1>5. /\ pc' = [pc EXCEPT ![t] = pc'[t]] /\ pc'[t] = "delete_lines"
      /\ req[t].op \in OpsAt(pc'[t])
  BY <1>1 DEF SelectLines, Goto, IInv, TypeOK, OpsAt
<1>6. UNCHANGED <<tables, locks, req>> /\ LocksCompatible' /\ locks' \subseteq Lock
  BY DEF SelectLines, IInv, TypeOK, LocksCompatible
<1>7. QED
  BY <1>1, <1>3, <1>4, <1>5, <1>6, MoveLemma DEF Statement

LEMMA DeleteLineStep ==
  ASSUME IInv, NEW t \in Tx, DeleteLine(t) PROVE IInv'
<1>1. /\ Open(t) /\ mem[t] \in Mem /\ pc[t] = "delete_lines"
      /\ req[t].op \in OpsAt("delete_lines")
  BY OpenNow DEF DeleteLine, Statement
<1>2. PICK l \in mem[t].want :
        /\ Acquire(t, LineRow(l), "FOR UPDATE")
        /\ mem' = [mem EXCEPT ![t].want = @ \ {l}, ![t].lost = @ \cup {l}]
  BY DEF DeleteLine
<1>3. l \in Line /\ mem[t].want \ {l} \in SUBSET Line /\ mem[t].lost \cup {l} \in SUBSET Line
  BY <1>1 DEF Mem
<1>4. locks \subseteq locks' /\ locks' \subseteq Lock /\ LocksCompatible'
  BY <1>2, <1>3, RowTypes, AcquireLemma DEF IInv, TypeOK
<1>5. /\ mem' = [mem EXCEPT ![t] = mem'[t]]
      /\ mem'[t] = [mem[t] EXCEPT !.want = mem[t].want \ {l}, !.lost = mem[t].lost \cup {l}]
  BY <1>2 DEF IInv, TypeOK
<1>6. mem'[t] \in Mem /\ mem'[t].plan = mem[t].plan /\ mem'[t].pend = mem[t].pend
  BY <1>1, <1>3, <1>5 DEF Mem
<1>7. pc' = [pc EXCEPT ![t] = pc'[t]] /\ pc'[t] = "delete_lines" /\ UNCHANGED <<tables, req>>
  BY <1>1 DEF DeleteLine, IInv, TypeOK
<1>8. QED
  BY <1>1, <1>4, <1>5, <1>6, <1>7, MoveLemma DEF Statement

LEMMA SkipLineStep ==
  ASSUME IInv, NEW t \in Tx, SkipLine(t) PROVE IInv'
<1>1. /\ Open(t) /\ mem[t] \in Mem /\ pc[t] = "delete_lines"
      /\ req[t].op \in OpsAt("delete_lines")
  BY OpenNow DEF SkipLine, Statement
<1>2. PICK l \in mem[t].want : mem' = [mem EXCEPT ![t].want = @ \ {l}]
  BY DEF SkipLine
<1>3. mem[t].want \ {l} \in SUBSET Line
  BY <1>1 DEF Mem
<1>4. /\ mem' = [mem EXCEPT ![t] = mem'[t]]
      /\ mem'[t] = [mem[t] EXCEPT !.want = mem[t].want \ {l}]
  BY <1>2 DEF IInv, TypeOK
<1>5. mem'[t] \in Mem /\ mem'[t].plan = mem[t].plan /\ mem'[t].pend = mem[t].pend
  BY <1>1, <1>3, <1>4 DEF Mem
<1>6. /\ pc' = [pc EXCEPT ![t] = pc'[t]] /\ pc'[t] = "delete_lines"
      /\ UNCHANGED <<tables, locks, req>> /\ LocksCompatible' /\ locks' \subseteq Lock
  BY <1>1 DEF SkipLine, IInv, TypeOK, LocksCompatible
<1>7. QED
  BY <1>1, <1>4, <1>5, <1>6, MoveLemma DEF Statement

LEMMA LinesDeletedStep ==
  ASSUME IInv, NEW t \in Tx, LinesDeleted(t) PROVE IInv'
<1>1. Open(t) /\ mem[t] \in Mem /\ req[t].op \in {"update", "delete"}
  BY OpenNow DEF LinesDeleted, Statement, OpsAt
<1>2. /\ pc' = [pc EXCEPT ![t] = pc'[t]] /\ pc'[t] \in {"commit_draft", "delete_header"}
      /\ req[t].op \in OpsAt(pc'[t])
  BY <1>1 DEF LinesDeleted, Goto, IInv, TypeOK, OpsAt
<1>3. UNCHANGED <<tables, locks, req, mem>> /\ LocksCompatible' /\ locks' \subseteq Lock
  BY DEF LinesDeleted, IInv, TypeOK, LocksCompatible
<1>4. QED
  BY <1>1, <1>2, <1>3, MoveLemma DEF Statement, IInv, TypeOK

LEMMA DeleteHeaderStep ==
  ASSUME IInv, NEW t \in Tx, DeleteHeader(t) PROVE IInv'
<1>1. /\ Open(t) /\ req[t] \in Request /\ mem[t] \in Mem
      /\ req[t].op = "delete"
  BY OpenNow DEF DeleteHeader, Statement, OpsAt
<1>2. OrderRow(req[t].order) \in Row /\ "FOR UPDATE" \in Mode
  BY <1>1, RequestFields, RowTypes DEF DraftOp
<1>3. locks \subseteq locks' /\ locks' \subseteq Lock /\ LocksCompatible'
  BY <1>2, AcquireLemma DEF DeleteHeader, IInv, TypeOK
<1>4. /\ pc' = [pc EXCEPT ![t] = pc'[t]] /\ pc'[t] = "commit_draft"
      /\ req[t].op \in OpsAt(pc'[t])
  BY <1>1 DEF DeleteHeader, Goto, IInv, TypeOK, OpsAt
<1>5. UNCHANGED <<tables, req, mem>>
  BY DEF DeleteHeader
<1>6. QED
  BY <1>1, <1>3, <1>4, <1>5, MoveLemma DEF Statement, IInv, TypeOK

-------------------------------------------------------------------------------
(* Batches *)

LEMMA LockBatchStep ==
  ASSUME IInv, NEW t \in Tx, LockBatch(t) PROVE IInv'
<1>1. /\ Open(t) /\ req[t] \in Request /\ mem[t] \in Mem
      /\ req[t].op \in BatchOp
  BY OpenNow DEF LockBatch, Statement, OpsAt
<1>2. PICK b \in Batch : b = req[t].batch
  BY <1>1, RequestFields
<1>3. Acquire(t, BatchRow(b), "FOR UPDATE")
  BY <1>2 DEF LockBatch
<1>4. /\ locks \subseteq locks' /\ locks' \subseteq Lock /\ LocksCompatible'
      /\ Holds(t, BatchRow(b), "FOR UPDATE")'
  BY <1>3, RowTypes, AcquireLemma DEF IInv, TypeOK
<1>5. /\ pc' = [pc EXCEPT ![t] = pc'[t]]
      /\ pc'[t] = IF req[t].op = "write_off" THEN "read_on_hand" ELSE "write_batch"
  BY DEF LockBatch, Goto, IInv, TypeOK
<1>6. pc'[t] \in Statement /\ req[t].op \in OpsAt(pc'[t])
  BY <1>1, <1>5 DEF Statement, OpsAt
<1>7. UNCHANGED <<tables, req, mem>>
  BY DEF LockBatch
<1>8. TxInv(t)'
  <2>1. AtOwnStatement(t)'
    BY <1>1, <1>5, <1>6, <1>7 DEF AtOwnStatement
  <2>2. PlanHeld(t)'
    BY <1>4, <1>7, PlanKept
  <2>3. PendingHeld(t)'
    BY <1>4, <1>7 DEF IInv, TxInv, PendingHeld, Holds
  <2>4. BatchHeld(t)'
    BY <1>2, <1>4, <1>7 DEF BatchHeld, Holds
  <2>5. WriteOffCovered(t)'
    BY <1>5, <1>7 DEF WriteOffCovered
  <2>6. QED
    BY <2>1, <2>2, <2>3, <2>4, <2>5 DEF TxInv
<1>9. mem' = [mem EXCEPT ![t] = mem'[t]] /\ mem'[t] \in Mem
  BY <1>1, <1>7 DEF IInv, TypeOK
<1>10. QED
  BY <1>4, <1>5, <1>6, <1>7, <1>8, <1>9, PrivateLemma

LEMMA CheckOnHandStep ==
  ASSUME IInv, NEW t \in Tx, CheckOnHand(t) PROVE IInv'
<1>1. /\ Open(t) /\ req[t] \in Request /\ mem[t] \in Mem
      /\ req[t].op = "write_off" /\ pc[t] = "read_on_hand"
  BY OpenNow DEF CheckOnHand, Statement, OpsAt
<1>2. /\ pc' = [pc EXCEPT ![t] = pc'[t]] /\ pc'[t] = "write_batch"
      /\ req[t].op \in OpsAt(pc'[t])
  BY <1>1 DEF CheckOnHand, Goto, IInv, TypeOK, OpsAt, BatchOp
<1>3. UNCHANGED <<tables, locks, req, mem>> /\ LocksCompatible' /\ locks' \subseteq Lock
  BY DEF CheckOnHand, IInv, TypeOK, LocksCompatible
<1>4. TxInv(t)'
  <2>1. AtOwnStatement(t)'
    BY <1>1, <1>2, <1>3 DEF AtOwnStatement
  <2>2. PlanHeld(t)'
    BY <1>3, PlanKept
  <2>3. PendingHeld(t)'
    BY <1>3 DEF IInv, TxInv, PendingHeld, Holds
  <2>4. BatchHeld(t)'
    BY <1>1, <1>3 DEF IInv, TxInv, BatchHeld, Holds
  <2>5. WriteOffCovered(t)'
    BY <1>3 DEF CheckOnHand, WriteOffCovered, WriteOffFits, tables
  <2>6. QED
    BY <2>1, <2>2, <2>3, <2>4, <2>5 DEF TxInv
<1>5. mem' = [mem EXCEPT ![t] = mem'[t]] /\ mem'[t] \in Mem
  BY <1>1, <1>3 DEF IInv, TypeOK
<1>6. QED
  BY <1>2, <1>3, <1>4, <1>5, PrivateLemma DEF Statement

(* Only t, which holds b FOR UPDATE, rewrites b: no one else's plan,       *)
(* write-off or pending movement is about b.                               *)
LEMMA WriteBatchStep ==
  ASSUME IInv, NEW t \in Tx, WriteBatch(t) PROVE IInv'
<1>1. /\ Open(t) /\ req[t] \in Request /\ mem[t] \in Mem
      /\ req[t].op \in BatchOp /\ pc[t] = "write_batch"
  BY OpenNow DEF WriteBatch, Statement, OpsAt
<1>2. PICK b \in Batch : b = req[t].batch
  BY <1>1, RequestFields
<1>3. Holds(t, BatchRow(b), "FOR UPDATE")
  BY <1>1, <1>2 DEF IInv, TxInv, BatchHeld
<1>4. Finish(t, "ok") /\ UNCHANGED <<order, lines, allocations, req>>
  BY DEF WriteBatch
<1>5. QuantityOf(req[t]) \in Int
  BY <1>1, RequestFields DEF QuantityOf
<1>6. KindOf(req[t].op) \in BatchKind
  BY <1>1 DEF KindOf, BatchKind, BatchOp
<1>7. /\ batch' \in [Batch -> [recalled : BOOLEAN, expiry : Expiry]]
      /\ \A c \in Batch : c # b => batch'[c] = batch[c]
  <2>1. PICK f \in BOOLEAN, e \in Expiry :
          /\ f = IF req[t].op \in {"recall", "un_recall"}
                 THEN req[t].op = "recall" ELSE batch[b].recalled
          /\ e = IF req[t].op = "metadata" /\ req[t].expiry # Keep
                 THEN req[t].expiry ELSE batch[b].expiry
    BY <1>1, RequestFields DEF IInv, TypeOK
  <2>2. batch' = [batch EXCEPT ![b].recalled = f, ![b].expiry = e]
    BY <1>2, <2>1 DEF WriteBatch, IInv, TypeOK
  <2>3. QED
    BY <2>2 DEF IInv, TypeOK
<1>8. /\ onHand' \in [Batch -> Int]
      /\ \A c \in Batch : c # b => onHand'[c] = onHand[c]
  BY <1>2, <1>5 DEF WriteBatch, IInv, TypeOK
<1>9. movements' \subseteq Movement
  <2>1. [tx |-> t, kind |-> KindOf(req[t].op), batch |-> b,
         qty |-> QuantityOf(req[t]), ref |-> NoRow] \in Movement
    BY <1>5, <1>6 DEF Movement
  <2>2. QED
    BY <1>2, <2>1 DEF WriteBatch, IInv, TypeOK
<1>10. TypeOK'
  BY <1>1, <1>4, <1>7, <1>8, <1>9, FinishLemma DEF IInv, TypeOK, Open, Outcome
<1>11. ASSUME NEW u \in Tx \ {t} PROVE TxInv(u)'
  <2>1. /\ pc'[u] = pc[u] /\ req'[u] = req[u] /\ mem'[u] = mem[u]
        /\ \A r, m : Holds(u, r, m) => Holds(u, r, m)'
        /\ mem[u] \in Mem
    BY <1>1, <1>4, FinishLemma DEF Open, IInv, TypeOK, Outcome
  <2>2. \A m : ~Holds(u, BatchRow(b), m)
    BY <1>3, ForUpdateExcludes DEF IInv
  <2>3. AtOwnStatement(u)'
    BY <2>1 DEF IInv, TxInv, AtOwnStatement, Open
  <2>4. PlanHeld(u)'
    <3>1. ASSUME NEW i \in DOMAIN mem[u].plan, NEW x, x = mem[u].plan[i]
          PROVE  /\ x.tx = u
                 /\ req[u].op # "commit_explicit" =>
                      Holds(u, BatchRow(x.batch), "FOR UPDATE")' /\ Sellable(x.batch)'
      <4>1. x \in Allocation
        <5>1. mem[u].plan \in Seq(Allocation)
          BY <2>1 DEF Mem
        <5>2. QED
          BY <3>1, <5>1, ElementOfSeq, LenProperties
      <4>2. /\ x.tx = u
            /\ req[u].op # "commit_explicit" =>
                 Holds(u, BatchRow(x.batch), "FOR UPDATE") /\ Sellable(x.batch)
        BY <3>1 DEF IInv, TxInv, PlanHeld
      <4>3. CASE x.batch = b
        BY <2>2, <4>2, <4>3
      <4>4. CASE x.batch # b
        BY <1>7, <2>1, <4>1, <4>2, <4>4 DEF Sellable, Allocation
      <4>5. QED
        BY <4>3, <4>4
    <3>2. QED
      BY <3>1, <2>1 DEF PlanHeld, Holds, Sellable
  <2>5. PendingHeld(u)'
    BY <2>1 DEF IInv, TxInv, PendingHeld
  <2>6. BatchHeld(u)'
    BY <2>1 DEF IInv, TxInv, BatchHeld
  <2>7. WriteOffCovered(u)'
    <3>1. ASSUME pc[u] = "write_batch", req[u].op = "write_off"
          PROVE  onHand'[req[u].batch] + req[u].qty >= 0
      <4>1. req[u] \in Request
        BY <3>1 DEF IInv, TxInv, AtOwnStatement
      <4>2. req[u].batch \in Batch
        BY <3>1, <4>1, RequestFields DEF BatchOp
      <4>3. Holds(u, BatchRow(req[u].batch), "FOR UPDATE")
        BY <3>1 DEF IInv, TxInv, BatchHeld
      <4>4. onHand'[req[u].batch] = onHand[req[u].batch]
        BY <1>8, <2>2, <4>2, <4>3
      <4>5. QED
        BY <3>1, <4>4 DEF IInv, TxInv, WriteOffCovered, WriteOffFits
    <3>2. QED
      BY <2>1, <3>1 DEF WriteOffCovered, WriteOffFits
  <2>8. QED
    BY <2>3, <2>4, <2>5, <2>6, <2>7 DEF TxInv
<1>12. TxInv(t)' /\ LocksCompatible'
  BY <1>1, <1>4, FinishLemma DEF Open, Outcome
<1>13. QED
  BY <1>10, <1>11, <1>12 DEF IInv

-------------------------------------------------------------------------------
(* COMMIT of sales, voids and drafts *)

(* A sum moves only for a batch t holds FOR KEY SHARE: no one else is      *)
(* about to write that batch off.                                          *)
LEMMA PostLemma ==
  ASSUME IInv, NEW t \in Tx, Open(t), Finish(t, "ok"), PostPending(t),
         UNCHANGED <<batch, req>>, TypeOK'
  PROVE  IInv'
<1>1. pc[t] # "idle" /\ "ok" \in Outcome
  BY DEF Open, Outcome
<1>2. ASSUME NEW u \in Tx \ {t} PROVE TxInv(u)'
  <2>1. /\ pc'[u] = pc[u] /\ req'[u] = req[u] /\ mem'[u] = mem[u]
        /\ \A r, m : Holds(u, r, m) => Holds(u, r, m)'
    BY <1>1, FinishLemma
  <2>2. AtOwnStatement(u)'
    BY <2>1 DEF IInv, TxInv, AtOwnStatement, Open
  <2>3. PlanHeld(u)'
    BY <2>1 DEF IInv, TxInv, PlanHeld, Sellable
  <2>4. PendingHeld(u)' /\ BatchHeld(u)'
    BY <2>1 DEF IInv, TxInv, PendingHeld, BatchHeld
  <2>5. WriteOffCovered(u)'
    <3>1. ASSUME pc[u] = "write_batch", req[u].op = "write_off"
          PROVE  onHand'[req[u].batch] + req[u].qty >= 0
      <4>1. req[u] \in Request
        BY <3>1 DEF IInv, TxInv, AtOwnStatement
      <4>2. req[u].batch \in Batch
        BY <3>1, <4>1, RequestFields DEF BatchOp
      <4>3. Holds(u, BatchRow(req[u].batch), "FOR UPDATE")
        BY <3>1 DEF IInv, TxInv, BatchHeld
      <4>4. mem[t].pend[req[u].batch] = 0
        BY <4>2, <4>3, ForUpdateExcludes DEF IInv, TxInv, PendingHeld
      <4>5. onHand'[req[u].batch] = onHand[req[u].batch]
        BY <4>2, <4>4 DEF PostPending, IInv, TypeOK
      <4>6. QED
        BY <3>1, <4>5 DEF IInv, TxInv, WriteOffCovered, WriteOffFits
    <3>2. QED
      BY <2>1, <3>1 DEF WriteOffCovered, WriteOffFits
  <2>6. QED
    BY <2>2, <2>3, <2>4, <2>5 DEF TxInv
<1>3. TxInv(t)' /\ LocksCompatible'
  BY <1>1, FinishLemma
<1>4. QED
  BY <1>2, <1>3 DEF IInv

LEMMA PostedType ==
  ASSUME IInv, NEW t \in Tx, PostPending(t), mem[t] \in Mem
  PROVE  onHand' \in [Batch -> Int]
<1>1. mem[t].pend \in [Batch -> Int] /\ onHand \in [Batch -> Int]
  BY DEF Mem, IInv, TypeOK
<1>2. QED
  BY <1>1 DEF PostPending

LEMMA PlannedType ==
  ASSUME NEW t \in Tx, mem[t] \in Mem PROVE Planned(t) \subseteq Allocation
<1>1. mem[t].plan \in Seq(Allocation)
  BY DEF Mem
<1>2. QED
  BY <1>1, ElementOfSeq, LenProperties DEF Planned

LEMMA CommitSaleStep ==
  ASSUME IInv, NEW t \in Tx, CommitSale(t) PROVE IInv'
<1>1. /\ Open(t) /\ req[t] \in Request /\ mem[t] \in Mem
      /\ Finish(t, "ok") /\ PostPending(t)
  BY OpenNow DEF CommitSale, Statement
<1>2. order' \in [Order -> [status : {"absent", "draft", "committed", "deleted"},
                            voided : BOOLEAN, header : Header]]
  BY DEF CommitSale, IInv, TypeOK
<1>3. allocations' \subseteq Allocation
  BY <1>1, PlannedType DEF CommitSale, IInv, TypeOK
<1>4. movements' \subseteq Movement
  <2>1. ASSUME NEW a \in Allocation PROVE SaleMovement(t, a) \in Movement
    <3>1. a.batch \in Batch /\ -a.qty \in Int
      BY DEF Allocation
    <3>2. QED
      BY <3>1 DEF SaleMovement, Movement, SaleKind
  <2>2. QED
    BY <1>1, <2>1, PlannedType DEF CommitSale, IInv, TypeOK
<1>5. UNCHANGED <<batch, lines, req>>
  BY DEF CommitSale
<1>6. TypeOK'
  BY <1>1, <1>2, <1>3, <1>4, <1>5, PostedType, FinishLemma
     DEF IInv, TypeOK, Open, Outcome
<1>7. QED
  BY <1>1, <1>5, <1>6, PostLemma

LEMMA CommitVoidStep ==
  ASSUME IInv, NEW t \in Tx, CommitVoid(t) PROVE IInv'
<1>1. /\ Open(t) /\ req[t] \in Request /\ mem[t] \in Mem
      /\ Finish(t, "ok") /\ PostPending(t)
  BY OpenNow DEF CommitVoid, Statement
<1>2. order' \in [Order -> [status : {"absent", "draft", "committed", "deleted"},
                            voided : BOOLEAN, header : Header]]
  BY DEF CommitVoid, IInv, TypeOK
<1>3. movements' \subseteq Movement
  <2>1. ASSUME NEW a \in Allocation PROVE VoidMovement(t, a) \in Movement
    <3>1. a.batch \in Batch /\ a.qty \in Int
      BY DEF Allocation
    <3>2. QED
      BY <3>1 DEF VoidMovement, Movement, SaleKind
  <2>2. mem[t].paid \subseteq Allocation
    BY <1>1 DEF Mem
  <2>3. QED
    BY <2>1, <2>2 DEF CommitVoid, IInv, TypeOK
<1>4. UNCHANGED <<batch, lines, allocations, req>>
  BY DEF CommitVoid
<1>5. TypeOK'
  BY <1>1, <1>2, <1>3, <1>4, PostedType, FinishLemma
     DEF IInv, TypeOK, Open, Outcome
<1>6. QED
  BY <1>1, <1>4, <1>5, PostLemma

LEMMA CommitUpdateStep ==
  ASSUME IInv, NEW t \in Tx, CommitUpdate(t) PROVE IInv'
<1>1. /\ Open(t) /\ pc[t] # "idle" /\ req[t] \in Request /\ req[t].op = "update"
      /\ Finish(t, "ok") /\ "ok" \in Outcome
  BY OpenNow DEF CommitUpdate, Statement, Outcome
<1>2. /\ req[t].order \in Order /\ req[t].header \in Header \cup {Keep}
      /\ req[t].lines \in Seq([product : Product, qty : Nat \ {0}])
  BY <1>1, RequestFields DEF DraftOp
<1>3. order' \in [Order -> [status : {"absent", "draft", "committed", "deleted"},
                            voided : BOOLEAN, header : Header]]
  BY <1>2 DEF CommitUpdate, IInv, TypeOK
<1>4. lines' \subseteq Line
  BY <1>2, NewLinesType DEF CommitUpdate, IInv, TypeOK
<1>5. UNCHANGED <<batch, onHand, movements, allocations, req>>
  BY DEF CommitUpdate
<1>6. TypeOK'
  BY <1>1, <1>3, <1>4, <1>5, FinishLemma DEF IInv, TypeOK
<1>7. QED
  BY <1>1, <1>5, <1>6, FinishLemma, FrameLemma

LEMMA CommitDeleteStep ==
  ASSUME IInv, NEW t \in Tx, CommitDelete(t) PROVE IInv'
<1>1. Open(t) /\ pc[t] # "idle" /\ Finish(t, "ok") /\ "ok" \in Outcome
  BY OpenNow DEF CommitDelete, Statement, Outcome
<1>2. order' \in [Order -> [status : {"absent", "draft", "committed", "deleted"},
                            voided : BOOLEAN, header : Header]]
  BY DEF CommitDelete, IInv, TypeOK
<1>3. lines' \subseteq Line
  BY DEF CommitDelete, IInv, TypeOK
<1>4. UNCHANGED <<batch, onHand, movements, allocations, req>>
  BY DEF CommitDelete
<1>5. TypeOK'
  BY <1>1, <1>2, <1>3, <1>4, FinishLemma DEF IInv, TypeOK
<1>6. QED
  BY <1>1, <1>4, <1>5, FinishLemma, FrameLemma

(* Early returns, errors, deadlock victims and crashes roll back. *)
Rollbacks(t) ==
  \/ InsufficientStock(t) \/ PreviewDone(t)
  \/ OrderRefused(t) \/ VoidedAlready(t) \/ InvalidAllocation(t)
  \/ NotDraft(t) \/ HeaderGone(t) \/ LinesReferenced(t) \/ HeaderReferenced(t)
  \/ BatchUnchanged(t) \/ WriteOffExceedsOnHand(t) \/ SignRefused(t) \/ CodeTaken(t)
  \/ DeadlockVictim(t) \/ Crash(t)

LEMMA RollbackStep ==
  ASSUME IInv, NEW t \in Tx, Rollbacks(t) PROVE IInv'
<1>1. pc[t] # "idle"
  BY DEF Rollbacks, InsufficientStock, PreviewDone, OrderRefused, VoidedAlready,
         InvalidAllocation, NotDraft, HeaderGone, LinesReferenced, HeaderReferenced,
         BatchUnchanged, WriteOffExceedsOnHand, SignRefused, CodeTaken, DeadlockVictim, Crash, Open
<1>2. \E oc \in Outcome : Rollback(t, oc)
  BY DEF Rollbacks, InsufficientStock, PreviewDone, OrderRefused, VoidedAlready,
         InvalidAllocation, NotDraft, HeaderGone, LinesReferenced, HeaderReferenced,
         BatchUnchanged, WriteOffExceedsOnHand, SignRefused, CodeTaken, DeadlockVictim, Crash, Outcome
<1>3. QED
  BY <1>1, <1>2, RollbackLemma

-------------------------------------------------------------------------------
(* Theorems *)

LEMMA InitIInv == Init => IInv
<1> SUFFICES ASSUME Init PROVE IInv
  OBVIOUS
<1>1. TypeOK
  <2>1. InitialLines \subseteq Line
    BY SalesConstants DEF Line
  <2>2. /\ batch \in [Batch -> [recalled : BOOLEAN, expiry : Expiry]]
        /\ onHand \in [Batch -> Int]
    BY SalesConstants DEF Init
  <2>3. order \in [Order -> [status : {"absent", "draft", "committed", "deleted"},
                             voided : BOOLEAN, header : Header]]
    BY DEF Init
  <2>4. mem \in [Tx -> Mem]
    BY BlankInMem DEF Init
  <2>5. QED
    BY <2>1, <2>2, <2>3, <2>4 DEF Init, TypeOK
<1>2. LocksCompatible
  BY DEF Init, LocksCompatible
<1>3. ASSUME NEW t \in Tx PROVE TxInv(t)
  <2>1. pc[t] = "idle" /\ mem[t] = Blank
    BY DEF Init
  <2>2. AtOwnStatement(t)
    BY <2>1 DEF AtOwnStatement, Open
  <2>3. PlanHeld(t) /\ PendingHeld(t)
    BY <2>1, BlankInMem DEF PlanHeld, PendingHeld
  <2>4. BatchHeld(t) /\ WriteOffCovered(t)
    BY <2>1 DEF BatchHeld, WriteOffCovered
  <2>5. QED
    BY <2>2, <2>3, <2>4 DEF TxInv
<1>4. QED
  BY <1>1, <1>2, <1>3 DEF IInv

LEMMA StutterStep == ASSUME IInv, UNCHANGED vars PROVE IInv'
<1>1. TypeOK' /\ LocksCompatible'
  BY DEF IInv, TypeOK, LocksCompatible, vars, tables
<1>2. ASSUME NEW t \in Tx PROVE TxInv(t)'
  BY DEF IInv, TxInv, AtOwnStatement, Open, PlanHeld, PendingHeld, BatchHeld,
         WriteOffCovered, WriteOffFits, Holds, Sellable, vars, tables
<1>3. QED
  BY <1>1, <1>2 DEF IInv

LEMMA NextIInv == IInv /\ [Next]_vars => IInv'
<1> SUFFICES ASSUME IInv, [Next]_vars PROVE IInv'
  OBVIOUS
<1>1. CASE Quiescent \/ UNCHANGED vars
  BY <1>1, StutterStep DEF Quiescent
<1>2. ASSUME NEW t \in Tx,
             Start(t) \/ CreateOrder(t) \/ Step(t) \/ DeadlockVictim(t) \/ Crash(t)
      PROVE  IInv'
  <2>1. CASE Start(t)
    BY <2>1, StartStep
  <2>2. CASE CreateOrder(t)
    BY <2>2, CreateOrderStep
  <2>3. CASE Rollbacks(t)
    BY <2>3, RollbackStep
  <2>4. CASE Fefo(t)
    BY <2>3, <2>4, FefoSelectStep, FefoTakeStep, FefoPassStep, FefoDoneStep
       DEF Fefo, Rollbacks
  <2>5. CASE Sale(t)
    BY <2>3, <2>5, LockOrderStep, ReadLinesStep, ValidateExplicitStep, ExplicitDoneStep,
       InsertSaleStep, CommitSaleStep, ReadAllocationsStep, InsertReversalStep,
       CommitVoidStep DEF Sale, Rollbacks
  <2>6. CASE Draft(t)
    BY <2>3, <2>6, ReadOrderStep, UpdateHeaderStep, SelectLinesStep, DeleteLineStep,
       SkipLineStep, LinesDeletedStep, DeleteHeaderStep, CommitUpdateStep,
       CommitDeleteStep DEF Draft, Rollbacks
  <2>7. CASE Stock(t)
    BY <2>3, <2>7, LockBatchStep, CheckOnHandStep, WriteBatchStep DEF Stock, Rollbacks
  <2>8. QED
    BY <1>2, <2>1, <2>2, <2>3, <2>4, <2>5, <2>6, <2>7 DEF Step, Rollbacks
<1>3. QED
  BY <1>1, <1>2 DEF Next

THEOREM Inductive == Spec => []IInv
<1>1. Init => IInv
  BY InitIInv
<1>2. IInv /\ [Next]_vars => IInv'
  BY NextIInv
<1>3. QED
  BY <1>1, <1>2, PTL DEF Spec

(* Every variable keeps its type. *)
THEOREM TypeCorrect == Spec => []TypeOK
<1>1. IInv => TypeOK
  BY DEF IInv
<1>2. QED
  BY <1>1, Inductive, PTL

(* Services only ever work on batches they hold locked, and locks exclude  *)
(* each other as PostgreSQL promises.                                      *)
THEOREM BatchesAlwaysHeld == Spec => []BatchesHeld
<1>1. IInv => BatchesHeld
  BY DEF IInv, TxInv, BatchesHeld
<1>2. QED
  BY <1>1, Inductive, PTL

(* The ledger and the allocations are written by three actions only. *)
LEMMA LedgerWriters ==
  ASSUME [Next]_vars
  PROVE  \/ UNCHANGED <<movements, allocations>>
         \/ \E t \in Tx : \/ CommitSale(t)
                          \/ CommitVoid(t) /\ UNCHANGED allocations
                          \/ WriteBatch(t) /\ UNCHANGED allocations
<1>1. CASE Quiescent \/ UNCHANGED vars
  BY <1>1 DEF Quiescent, vars, tables
<1>2. ASSUME NEW t \in Tx,
             Start(t) \/ CreateOrder(t) \/ Step(t) \/ DeadlockVictim(t) \/ Crash(t)
      PROVE  \/ UNCHANGED <<movements, allocations>>
             \/ CommitSale(t)
             \/ CommitVoid(t) /\ UNCHANGED allocations
             \/ WriteBatch(t) /\ UNCHANGED allocations
  <2>1. CASE Start(t) \/ CreateOrder(t)
    BY <2>1 DEF Start, CreateOrder, tables
  <2>2. CASE Rollbacks(t)
    BY <2>2 DEF Rollbacks, Rollback, tables, InsufficientStock, PreviewDone,
       OrderRefused, VoidedAlready, InvalidAllocation, NotDraft, HeaderGone,
       LinesReferenced, HeaderReferenced, BatchUnchanged, WriteOffExceedsOnHand,
       SignRefused, CodeTaken, DeadlockVictim, Crash
  <2>3. CASE Fefo(t)
    BY <2>2, <2>3 DEF Fefo, Rollbacks, FefoSelect, FefoTake, FefoPass, FefoLineDone,
       FefoDone, tables
  <2>4. CASE Sale(t)
    BY <2>2, <2>4 DEF Sale, Rollbacks, LockOrder, ReadLines, ValidateExplicit,
       ExplicitDone, InsertSale, ReadAllocations, InsertReversal, CommitVoid, tables
  <2>5. CASE Draft(t)
    BY <2>2, <2>5 DEF Draft, Rollbacks, ReadOrder, UpdateHeader, SelectLines, DeleteLine,
       SkipLine, LinesDeleted, DeleteHeader, CommitUpdate, CommitDelete, tables
  <2>6. CASE Stock(t)
    BY <2>2, <2>6 DEF Stock, Rollbacks, LockBatch, CheckOnHand, WriteBatch, tables
  <2>7. QED
    BY <1>2, <2>1, <2>2, <2>3, <2>4, <2>5, <2>6 DEF Step, Rollbacks
<1>3. QED
  BY <1>1, <1>2 DEF Next

(* FEFO never sells a recalled or expired batch, whatever runs beside it:  *)
(* the batches planned are held FOR UPDATE from the check to the commit.   *)
THEOREM FefoSafe == Spec => FefoSellsOnlySellable
<1>1. ASSUME IInv, [Next]_vars
      PROVE  [\A a \in allocations' \ allocations :
                req[a.tx].op = "commit_fefo" => Sellable(a.batch)]_vars
  <2>1. SUFFICES ASSUME NEW a \in allocations' \ allocations,
                        req[a.tx].op = "commit_fefo"
                 PROVE  Sellable(a.batch)
    OBVIOUS
  <2>2. PICK t \in Tx : CommitSale(t)
    BY <1>1, <2>1, LedgerWriters
  <2>3. PICK i \in DOMAIN mem[t].plan : a = mem[t].plan[i]
    BY <2>1, <2>2 DEF CommitSale, Planned
  <2>4. a.tx = t /\ (req[t].op # "commit_explicit" => Sellable(a.batch))
    BY <1>1, <2>3 DEF IInv, TxInv, PlanHeld
  <2>5. QED
    BY <2>1, <2>4
<1>2. QED
  BY <1>1, Inductive, PTL DEF Spec, FefoSellsOnlySellable

(* A write-off never takes a batch below zero, whatever runs beside it:    *)
(* between its check of on_hand and its insert no other transaction can    *)
(* insert a movement for the batch.                                        *)
THEOREM WriteOffSafe == Spec => WriteOffNeverOverdraws
<1>1. ASSUME IInv, [Next]_vars
      PROVE  [\A m \in movements' \ movements :
                m.kind = "write_off" => onHand'[m.batch] >= 0]_vars
  <2>1. SUFFICES ASSUME NEW m \in movements' \ movements, m.kind = "write_off"
                 PROVE  onHand'[m.batch] >= 0
    OBVIOUS
  <2>2. PICK t \in Tx : CommitSale(t) \/ CommitVoid(t) \/ WriteBatch(t)
    BY <1>1, <2>1, LedgerWriters
  <2>3. WriteBatch(t)
    BY <2>1, <2>2 DEF CommitSale, CommitVoid, SaleMovement, VoidMovement
  <2>4. /\ pc[t] = "write_batch" /\ req[t] \in Request /\ req[t].op \in BatchOp
    BY <1>1, <2>3, OpenNow DEF WriteBatch, Statement, OpsAt
  <2>5. m.batch = req[t].batch /\ KindOf(req[t].op) = "write_off"
    BY <2>1, <2>3 DEF WriteBatch
  <2>6. req[t].op = "write_off"
    BY <2>4, <2>5 DEF KindOf
  <2>7. WriteOffFits(t)
    BY <1>1, <2>4, <2>6 DEF IInv, TxInv, WriteOffCovered
  <2>8. req[t].batch \in Batch /\ req[t].qty \in Int
    BY <2>4, <2>6, RequestFields
  <2>9. onHand'[m.batch] = onHand[m.batch] + req[t].qty
    BY <1>1, <2>3, <2>5, <2>6, <2>8 DEF WriteBatch, QuantityOf, IInv, TypeOK
  <2>10. QED
    BY <2>5, <2>7, <2>9 DEF WriteOffFits
<1>2. QED
  BY <1>1, Inductive, PTL DEF Spec, WriteOffNeverOverdraws

===============================================================================
