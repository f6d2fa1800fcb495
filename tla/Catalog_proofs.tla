---------------------------- MODULE Catalog_proofs ----------------------------
(***************************************************************************)
(* Proofs about the catalog: for any number of transactions, products and  *)
(* files, no batch or line refers to a product that is gone, an import     *)
(* reports what it did and loses no row, and the transactions implement    *)
(* the steps of ProductCatalog.                                            *)
(***************************************************************************)
EXTENDS CatalogRefinement, FiniteSetTheorems, TLAPS

(* Each operation stays at its own statements. *)
StatementOf(op) ==
  CASE op = "create" -> {"insert_product"}
    [] op = "import" -> {"import_row"}
    [] op = "update" -> {"update_product"}
    [] op \in {"archive", "delete"} ->
         {"read_product", "count_batches", "set_archived", "delete_product"}
    [] op \in {"batch", "line"} -> {"insert_reference", "commit_reference"}
    [] OTHER -> {}

AtOwnStatement(t) ==
  /\ Open(t) => req[t] \in Request /\ pc[t] \in StatementOf(req[t].op)
  /\ pc[t] = "idle" => mem[t] = Blank

(* A reference that waits for its COMMIT holds its product, which is there. *)
TargetHeld(t) ==
  pc[t] = "commit_reference" =>
    Target(t) \in products /\ Holds(t, ProductRow(Target(t)), "KEY SHARE")

(* What an import has inserted are the rows it has dealt with and not      *)
(* reported as failed.                                                     *)
Kept(t) == (1..mem[t].row) \ mem[t].report.failed

ImportOK(t) ==
  pc[t] = "import_row" =>
    /\ mem[t].row <= Len(File(t))
    /\ mem[t].mine = {File(t)[i] : i \in Kept(t)}
    /\ mem[t].report.failed \subseteq 1..mem[t].row
    /\ Cardinality(Kept(t)) = mem[t].report.imported

TxInv(t) == AtOwnStatement(t) /\ TargetHeld(t) /\ ImportOK(t)

(* Products appear with the COMMIT of their transaction. *)
CreatedByAnswered == \A p \in products : p.by \in Tx => Answered(p.by)

IInv ==
  /\ TypeOK /\ ReferencesValid /\ CreatedByAnswered
  /\ \A t \in Tx : TxInv(t)

-------------------------------------------------------------------------------

(* A step of one transaction keeps the invariant if it leaves the others   *)
(* where they are, with their locks and the products they hold, and its    *)
(* own part holds afterwards; only what it commits is new.                 *)
LEMMA FrameLemma ==
  ASSUME IInv, TypeOK', ReferencesValid', NEW t \in Tx, ~Answered(t), TxInv(t)',
         \A u \in Tx \ {t} :
           /\ pc'[u] = pc[u] /\ req'[u] = req[u] /\ mem'[u] = mem[u]
           /\ \A l \in locks : l.tx = u => l \in locks'
           /\ pc[u] = "commit_reference" => Target(u) \in products',
         \A p \in products' \ products : p.by = t /\ pc'[t] \in Outcome
  PROVE  IInv'
<1>1. CreatedByAnswered'
  BY DEF IInv, CreatedByAnswered, Answered
<1>2. ASSUME NEW u \in Tx, u # t PROVE TxInv(u)'
  <2>1. AtOwnStatement(u)'
    BY <1>2 DEF IInv, TxInv, AtOwnStatement, Open
  <2>2. TargetHeld(u)'
    BY <1>2 DEF IInv, TxInv, TargetHeld, Holds, Target
  <2>3. ImportOK(u)'
    <3>1. ImportOK(u) /\ pc'[u] = pc[u] /\ File(u)' = File(u) /\ Kept(u)' = Kept(u)
          /\ mem'[u] = mem[u]
      BY <1>2 DEF IInv, TxInv, Kept, File
    <3> QED
      BY <3>1 DEF ImportOK
  <2> QED
    BY <2>1, <2>2, <2>3 DEF TxInv
<1> QED
  BY <1>1, <1>2 DEF IInv

(* What a transaction leaves behind when it ends. *)
LEMMA FinishLemma ==
  ASSUME TypeOK, NEW t \in Tx, NEW o \in Outcome, Finish(t, o)
  PROVE  /\ locks' \subseteq Lock
         /\ pc' \in [Tx -> Statement \cup Outcome \cup {"idle"}]
         /\ mem' \in [Tx -> Mem]
         /\ TxInv(t)'
         /\ pc'[t] = o
         /\ \A u \in Tx \ {t} : /\ pc'[u] = pc[u] /\ mem'[u] = mem[u]
                                /\ \A l \in locks : l.tx = u => l \in locks'
<1>1. /\ locks' \subseteq Lock /\ pc'[t] = o
      /\ pc' \in [Tx -> Statement \cup Outcome \cup {"idle"}]
      /\ \A u \in Tx \ {t} : /\ pc'[u] = pc[u] /\ mem'[u] = mem[u]
                             /\ \A l \in locks : l.tx = u => l \in locks'
  BY DEF TypeOK, Finish, Goto, ReleaseAll
<1>2. mem' \in [Tx -> Mem]
  BY DEF TypeOK, Finish, Blank, NoReport, Mem, Report
<1>3. TxInv(t)'
  BY <1>1 DEF TxInv, AtOwnStatement, TargetHeld, ImportOK, Open, Outcome
<1> QED
  BY <1>1, <1>2, <1>3

LEMMA RollbackLemma ==
  ASSUME IInv, NEW t \in Tx, ~Answered(t), NEW o \in Outcome, Rollback(t, o)
  PROVE  IInv'
<1>1. Finish(t, o) /\ UNCHANGED <<products, archived, references, report, req>>
  BY DEF Rollback, tables
<1>2. TypeOK' /\ ReferencesValid'
  BY <1>1, FinishLemma DEF IInv, TypeOK, ReferencesValid
<1> QED
  BY <1>1, <1>2, FinishLemma, FrameLemma DEF IInv, TxInv, TargetHeld, Target

(* A step to the next statement, which writes and locks nothing. *)
LEMMA MoveLemma ==
  ASSUME IInv, NEW t \in Tx, ~Answered(t), NEW s \in Statement \ {"commit_reference", "import_row"},
         s \in StatementOf(req[t].op), Open(t),
         Goto(t, s), UNCHANGED <<products, archived, references, report, locks, req, mem>>
  PROVE  IInv'
<1>1. TypeOK' /\ ReferencesValid'
  BY DEF IInv, TypeOK, ReferencesValid, Goto
<1>2. /\ pc'[t] = s /\ \A u \in Tx \ {t} : pc'[u] = pc[u]
  BY DEF IInv, TypeOK, Goto
<1>3. TxInv(t)'
  BY <1>2 DEF IInv, TxInv, AtOwnStatement, TargetHeld, ImportOK, Open, Statement
<1> QED
  BY <1>1, <1>2, <1>3, FrameLemma DEF IInv, TxInv, TargetHeld, Target

-------------------------------------------------------------------------------
(* One lemma for each group of actions *)

LEMMA StartStep ==
  ASSUME IInv, NEW t \in Tx, Start(t)
  PROVE  IInv'
<1>1. PICK r \in Request :
        /\ r.op # "drop_line" /\ req' = [req EXCEPT ![t] = r]
        /\ Goto(t, FirstStatement(r.op))
        /\ IF r.op \in ProductOp
           THEN \E p \in products : mem' = [mem EXCEPT ![t].product = p]
           ELSE UNCHANGED mem
  BY DEF Start
<1>2. pc[t] = "idle" /\ UNCHANGED <<products, archived, references, report, locks>>
  BY DEF Start, tables
<1>3. /\ FirstStatement(r.op) \in StatementOf(r.op) \ {"commit_reference"}
      /\ FirstStatement(r.op) \in Statement
      /\ FirstStatement(r.op) = "import_row" => r.op = "import"
  BY <1>1, RequestFields DEF FirstStatement, StatementOf, Statement, ProductOp
<1>4. /\ pc'[t] = FirstStatement(r.op) /\ req'[t] = r
      /\ \A u \in Tx \ {t} : pc'[u] = pc[u] /\ req'[u] = req[u] /\ mem'[u] = mem[u]
      /\ r.op = "import" => mem'[t] = Blank
  BY <1>1, <1>2 DEF IInv, TypeOK, Goto, TxInv, AtOwnStatement, ProductOp
<1>5. mem' \in [Tx -> Mem]
  <2>1. CASE r.op \in ProductOp
    <3>1. PICK p \in products : mem' = [mem EXCEPT ![t].product = p]
      BY <1>1, <2>1
    <3>2. p \in Product /\ [mem[t] EXCEPT !.product = p] \in Mem
      BY DEF IInv, TypeOK, Mem
    <3> QED
      BY <3>1, <3>2 DEF IInv, TypeOK
  <2>2. CASE r.op \notin ProductOp
    BY <1>1, <2>2 DEF IInv, TypeOK
  <2> QED
    BY <2>1, <2>2
<1>6. TypeOK' /\ ReferencesValid'
  BY <1>1, <1>2, <1>3, <1>5 DEF IInv, TypeOK, ReferencesValid, Goto
<1>7. AtOwnStatement(t)' /\ TargetHeld(t)'
  BY <1>3, <1>4 DEF AtOwnStatement, TargetHeld, Statement
<1>8. ImportOK(t)'
  <2>1. CASE pc'[t] # "import_row"
    BY <2>1 DEF ImportOK
  <2>2. CASE r.op = "import"
    <3>1. mem'[t] = Blank /\ Kept(t)' = {} /\ File(t)' = r.file /\ Len(r.file) \in Nat
      BY <1>4, <2>2, RequestFields DEF Kept, Blank, NoReport, File
    <3> QED
      BY <3>1, FS_EmptySet DEF ImportOK, Blank, NoReport
  <2> QED
    BY <1>3, <1>4, <2>1, <2>2
<1> QED
  BY <1>2, <1>4, <1>6, <1>7, <1>8, FrameLemma
  DEF IInv, TxInv, TargetHeld, Target, Answered, Outcome

LEMMA DropLineStep ==
  ASSUME IInv, NEW t \in Tx, DropLine(t)
  PROVE  IInv'
<1>1. PICK r \in Request, l \in references :
        req' = [req EXCEPT ![t] = r] /\ references' = references \ {l}
  BY DEF DropLine
<1>2. pc[t] = "idle" /\ Goto(t, "ok") /\ UNCHANGED <<products, archived, report, locks, mem>>
  BY DEF DropLine
<1>3. TypeOK' /\ ReferencesValid'
  BY <1>1, <1>2 DEF IInv, TypeOK, ReferencesValid, Goto, Outcome
<1>4. pc'[t] = "ok" /\ \A u \in Tx \ {t} : pc'[u] = pc[u] /\ req'[u] = req[u]
  BY <1>1, <1>2 DEF IInv, TypeOK, Goto
<1>5. TxInv(t)'
  BY <1>4 DEF TxInv, AtOwnStatement, TargetHeld, ImportOK, Open, Outcome
<1> QED
  BY <1>2, <1>3, <1>4, <1>5, FrameLemma
  DEF IInv, TxInv, TargetHeld, Target, Answered, Outcome

(* The operation of a transaction, from the statement it is at. *)
LEMMA AtLemma ==
  ASSUME IInv, NEW t \in Tx, Open(t)
  PROVE  /\ req[t] \in Request /\ ~Answered(t)
         /\ pc[t] = "insert_product" => req[t].op = "create" /\ req[t].sku \in Sku
         /\ pc[t] = "import_row" => req[t].op = "import"
                                    /\ File(t) \in Seq(Sku \cup {Malformed})
         /\ pc[t] = "update_product" => req[t].op = "update"
         /\ pc[t] \in {"read_product", "count_batches", "set_archived", "delete_product"} =>
              req[t].op \in {"archive", "delete"}
         /\ pc[t] \in {"insert_reference", "commit_reference"} =>
              req[t].op \in {"batch", "line"}
<1>1. req[t] \in Request /\ pc[t] \in StatementOf(req[t].op)
  BY DEF IInv, TxInv, AtOwnStatement
<1>2. req[t].op \in ProductOp \cup {"create", "import", "drop_line"}
  BY <1>1, RequestFields
<1>5. \/ pc[t] = "insert_product" /\ req[t].op = "create"
      \/ pc[t] = "import_row" /\ req[t].op = "import"
      \/ pc[t] = "update_product" /\ req[t].op = "update"
      \/ /\ pc[t] \in {"read_product", "count_batches", "set_archived", "delete_product"}
         /\ req[t].op \in {"archive", "delete"}
      \/ /\ pc[t] \in {"insert_reference", "commit_reference"}
         /\ req[t].op \in {"batch", "line"}
  BY <1>1, <1>2 DEF StatementOf, ProductOp
<1>3. /\ req[t].op = "create" => req[t].sku \in Sku
      /\ req[t].op = "import" => File(t) \in Seq(Sku \cup {Malformed})
  BY <1>1, RequestFields DEF File
<1>4. ~Answered(t)
  BY DEF Open, Answered
<1> QED
  BY <1>1, <1>3, <1>4, <1>5

LEMMA CreateStep ==
  ASSUME IInv, NEW t \in Tx, CreateProduct(t)
  PROVE  IInv'
<1>1. Open(t) /\ ~Answered(t) /\ req[t].sku \in Sku
  BY AtLemma DEF CreateProduct, Open, Outcome
<1>2. /\ products' = products \cup {New(t, req[t].sku)} /\ Finish(t, "ok")
      /\ UNCHANGED <<archived, references, report, req>>
      /\ "ok" \in Outcome
  BY DEF CreateProduct, Outcome
<1>3. New(t, req[t].sku) \in Product /\ New(t, req[t].sku).by = t
  BY <1>1 DEF New, Product
<1>4. TypeOK' /\ ReferencesValid'
  BY <1>2, <1>3, FinishLemma DEF IInv, TypeOK, ReferencesValid
<1> QED
  BY <1>1, <1>2, <1>3, <1>4, FinishLemma, FrameLemma DEF IInv, TxInv, TargetHeld, Target

(* The rows dealt with and not reported, when one more has been dealt with.*)
LEMMA NextRowLemma ==
  ASSUME NEW r \in Nat, NEW F \in SUBSET (1..r)
  PROVE  /\ (1..(r + 1)) \ F = ((1..r) \ F) \cup {r + 1}
         /\ (1..(r + 1)) \ (F \cup {r + 1}) = (1..r) \ F
         /\ F \cup {r + 1} \subseteq 1..(r + 1)
         /\ F \subseteq 1..(r + 1)
         /\ Cardinality((1..(r + 1)) \ F) = Cardinality((1..r) \ F) + 1
<1> DEFINE K == (1..r) \ F
<1>1. 1..(r + 1) = (1..r) \cup {r + 1} /\ r + 1 \notin 1..r
  OBVIOUS
<1>2. IsFiniteSet(K)
  <2>1. IsFiniteSet(1..r)
    BY FS_Interval
  <2> QED
    BY <2>1, FS_Subset
<1>3. Cardinality(K \cup {r + 1}) = Cardinality(K) + 1
  BY <1>1, <1>2, FS_AddElement
<1>4. (1..(r + 1)) \ F = K \cup {r + 1}
  BY <1>1
<1> QED
  BY <1>1, <1>3, <1>4

(* What is known of an import at its next row. *)
LEMMA AtRowLemma ==
  ASSUME IInv, NEW t \in Tx, RowLeft(t)
  PROVE  /\ pc[t] = "import_row" /\ Open(t) /\ ~Answered(t)
         /\ File(t) \in Seq(Sku \cup {Malformed})
         /\ mem[t] \in Mem /\ mem[t].row \in Nat /\ mem[t].mine \in SUBSET Sku
         /\ mem[t].report \in Report /\ mem[t].report.imported \in Nat
         /\ mem[t].report.failed \in SUBSET (1..mem[t].row)
         /\ mem[t].row + 1 \in 1..Len(File(t)) /\ Len(File(t)) \in Nat
         /\ NextSku(t) = File(t)[mem[t].row + 1]
         /\ NextSku(t) \in Sku \cup {Malformed}
<1>1. pc[t] = "import_row" /\ Open(t) /\ mem[t].row < Len(File(t))
  BY DEF RowLeft, Open, Outcome
<1>2. File(t) \in Seq(Sku \cup {Malformed}) /\ ~Answered(t)
  BY <1>1, AtLemma
<1>3. mem[t] \in Mem /\ ImportOK(t)
  BY DEF IInv, TypeOK, TxInv
<1>4. /\ mem[t].row \in Nat /\ mem[t].mine \in SUBSET Sku /\ mem[t].report \in Report
      /\ mem[t].report.imported \in Nat
      /\ mem[t].report.failed \in SUBSET (1..mem[t].row)
  BY <1>1, <1>3 DEF Mem, Report, ImportOK
<1>5. mem[t].row + 1 \in 1..Len(File(t)) /\ Len(File(t)) \in Nat
  BY <1>1, <1>2, <1>4
<1> QED
  BY <1>1, <1>2, <1>3, <1>4, <1>5 DEF NextSku

(* What an import keeps of a row it has inserted, or reported as failed. *)
LEMMA RowImportedMem ==
  ASSUME mem \in [Tx -> Mem], NEW t \in Tx, RowImported(t), NextSku(t) \in Sku
  PROVE  /\ mem' \in [Tx -> Mem] /\ \A u \in Tx \ {t} : mem'[u] = mem[u]
         /\ mem'[t].row = mem[t].row + 1
         /\ mem'[t].mine = mem[t].mine \cup {NextSku(t)}
         /\ mem'[t].report.failed = mem[t].report.failed
         /\ mem'[t].report.imported = mem[t].report.imported + 1
<1>1. mem' = [mem EXCEPT ![t] = mem'[t]]
      /\ mem'[t] = [mem[t] EXCEPT !.row = @ + 1, !.mine = @ \cup {NextSku(t)},
                                  !.report.imported = @ + 1]
  BY DEF RowImported
<1> SUFFICES ASSUME NEW m \in Mem, NEW x, m = mem[t], x = mem'[t]
             PROVE  /\ x \in Mem /\ x.row = m.row + 1 /\ x.mine = m.mine \cup {NextSku(t)}
                    /\ x.report.failed = m.report.failed
                    /\ x.report.imported = m.report.imported + 1
  BY <1>1
<1>2. x = [m EXCEPT !.row = @ + 1, !.mine = @ \cup {NextSku(t)}, !.report.imported = @ + 1]
  BY <1>1
<1>3. m.report \in Report /\ m.row + 1 \in Nat /\ m.mine \cup {NextSku(t)} \in SUBSET Sku
  BY DEF Mem
<1>4. m.report.imported \in Nat /\ m.report.failed \in SUBSET Nat
  BY <1>3 DEF Report
<1>5. [m.report EXCEPT !.imported = @ + 1] \in Report
  BY <1>3, <1>4 DEF Report
<1>6. x = [m EXCEPT !.row = m.row + 1, !.mine = m.mine \cup {NextSku(t)},
                    !.report = [m.report EXCEPT !.imported = @ + 1]]
  BY <1>2 DEF Mem
<1>7. /\ x \in Mem /\ x.row = m.row + 1 /\ x.mine = m.mine \cup {NextSku(t)}
      /\ x.report = [m.report EXCEPT !.imported = @ + 1]
  BY <1>3, <1>5, <1>6 DEF Mem
<1> QED
  BY <1>3, <1>4, <1>7 DEF Report
LEMMA RowFailedMem ==
  ASSUME mem \in [Tx -> Mem], NEW t \in Tx, RowFailed(t)
  PROVE  /\ mem' \in [Tx -> Mem] /\ \A u \in Tx \ {t} : mem'[u] = mem[u]
         /\ mem'[t].row = mem[t].row + 1
         /\ mem'[t].mine = mem[t].mine
         /\ mem'[t].report.failed = mem[t].report.failed \cup {mem[t].row + 1}
         /\ mem'[t].report.imported = mem[t].report.imported
<1>1. mem' = [mem EXCEPT ![t] = mem'[t]]
      /\ mem'[t] = [mem[t] EXCEPT !.row = @ + 1,
                                  !.report.failed = @ \cup {mem[t].row + 1}]
  BY DEF RowFailed
<1> SUFFICES ASSUME NEW m \in Mem, NEW x, m = mem[t], x = mem'[t]
             PROVE  /\ x \in Mem /\ x.row = m.row + 1 /\ x.mine = m.mine
                    /\ x.report.failed = m.report.failed \cup {m.row + 1}
                    /\ x.report.imported = m.report.imported
  BY <1>1
<1>2. x = [m EXCEPT !.row = @ + 1, !.report.failed = @ \cup {m.row + 1}]
  BY <1>1
<1>3. m.report \in Report /\ m.row + 1 \in Nat /\ m.mine \in SUBSET Sku
  BY DEF Mem
<1>4. m.report.imported \in Nat /\ m.report.failed \cup {m.row + 1} \in SUBSET Nat
  BY <1>3 DEF Report
<1>5. [m.report EXCEPT !.failed = @ \cup {m.row + 1}] \in Report
  BY <1>3, <1>4 DEF Report
<1>6. x = [m EXCEPT !.row = m.row + 1,
                    !.report = [m.report EXCEPT !.failed = @ \cup {m.row + 1}]]
  BY <1>2 DEF Mem
<1>7. /\ x \in Mem /\ x.row = m.row + 1 /\ x.mine = m.mine
      /\ x.report = [m.report EXCEPT !.failed = @ \cup {m.row + 1}]
  BY <1>3, <1>5, <1>6 DEF Mem
<1> QED
  BY <1>3, <1>4, <1>7 DEF Report
(* The next row of a file is inserted. *)
LEMMA ImportRowStep ==
  ASSUME IInv, NEW t \in Tx, ImportRow(t)
  PROVE  IInv'
<1>1. /\ RowLeft(t) /\ NextSku(t) # Malformed /\ RowImported(t)
      /\ Acquire(t, SkuRow(NextSku(t)), "FOR UPDATE")
      /\ UNCHANGED <<products, archived, references, report, pc, req>>
  BY DEF ImportRow, tables
<1>2. /\ Open(t) /\ ~Answered(t) /\ pc[t] = "import_row"
      /\ mem[t] \in Mem /\ mem[t].row \in Nat /\ mem[t].mine \in SUBSET Sku
      /\ mem[t].report \in Report /\ mem[t].report.imported \in Nat
      /\ mem[t].report.failed \in SUBSET (1..mem[t].row)
      /\ mem[t].row + 1 \in 1..Len(File(t)) /\ Len(File(t)) \in Nat
      /\ NextSku(t) = File(t)[mem[t].row + 1]
      /\ NextSku(t) \in Sku
  BY <1>1, AtRowLemma
<1>5. /\ mem'[t].row = mem[t].row + 1
      /\ mem'[t].mine = mem[t].mine \cup {NextSku(t)}
      /\ mem'[t].report.failed = mem[t].report.failed
      /\ mem'[t].report.imported = mem[t].report.imported + 1
      /\ mem' \in [Tx -> Mem]
      /\ \A u \in Tx \ {t} : mem'[u] = mem[u]
  BY <1>1, <1>2, RowImportedMem DEF IInv, TypeOK
<1>7. locks' \subseteq Lock /\ locks \subseteq locks'
  <2>1. locks' = locks \cup {[tx |-> t, row |-> SkuRow(NextSku(t)), mode |-> "FOR UPDATE"]}
    BY <1>1 DEF Acquire, AcquireAll
  <2>2. SkuRow(NextSku(t)) \in Row
    BY <1>2 DEF SkuRow, Row
  <2>3. [tx |-> t, row |-> SkuRow(NextSku(t)), mode |-> "FOR UPDATE"] \in Lock
    BY <2>2 DEF Lock, Mode
  <2> QED
    BY <2>1, <2>3 DEF IInv, TypeOK
<1>8. TypeOK' /\ ReferencesValid'
  BY <1>1, <1>5, <1>7 DEF IInv, TypeOK, ReferencesValid
<1>9. ImportOK(t)'
  <2>1. ImportOK(t) /\ File(t)' = File(t)
    BY <1>1 DEF IInv, TxInv, File
  <2>2. /\ Kept(t)' = Kept(t) \cup {mem[t].row + 1}
        /\ Cardinality(Kept(t)') = Cardinality(Kept(t)) + 1
    <3> DEFINE r == mem[t].row
               F == mem[t].report.failed
    <3>1. r \in Nat /\ F \in SUBSET (1..r)
      BY <1>2
    <3>2. Kept(t) = (1..r) \ F
      BY DEF Kept
    <3>3. Kept(t)' = (1..(r + 1)) \ F
      BY <1>5 DEF Kept
    <3>4. mem[t].row + 1 = r + 1
      OBVIOUS
    <3> HIDE DEF r, F
    <3>5. /\ (1..(r + 1)) \ F = ((1..r) \ F) \cup {r + 1}
          /\ Cardinality((1..(r + 1)) \ F) = Cardinality((1..r) \ F) + 1
      BY <3>1, NextRowLemma
    <3> QED
      BY <3>2, <3>3, <3>4, <3>5
  <2>3. mem'[t].report.failed \subseteq 1..mem'[t].row
    BY <1>2, <1>5
  <2>4. mem'[t].mine = {File(t)[i] : i \in Kept(t)'}
    BY <1>2, <1>5, <2>1, <2>2 DEF ImportOK
  <2>5. mem'[t].row <= Len(File(t))
    BY <1>2, <1>5
  <2>6. Cardinality(Kept(t)') = mem'[t].report.imported
    BY <1>2, <1>5, <2>1, <2>2 DEF ImportOK
  <2> QED
    BY <2>1, <2>3, <2>4, <2>5, <2>6 DEF ImportOK
<1>10. TxInv(t)'
  BY <1>1, <1>2, <1>9 DEF IInv, TxInv, AtOwnStatement, TargetHeld, Open
<1> QED
  BY <1>1, <1>2, <1>5, <1>7, <1>8, <1>10, FrameLemma
  DEF IInv, TxInv, TargetHeld, Target

(* The next row of a file is reported as failed. *)
LEMMA RowFailedStep ==
  ASSUME IInv, NEW t \in Tx, RowLeft(t), RowFailed(t),
         UNCHANGED <<tables, report, locks, pc, req>>
  PROVE  IInv'
<1>1. UNCHANGED <<products, archived, references, report, locks, pc, req>>
  BY DEF tables
<1>2. /\ Open(t) /\ ~Answered(t) /\ pc[t] = "import_row"
      /\ mem[t] \in Mem /\ mem[t].row \in Nat /\ mem[t].mine \in SUBSET Sku
      /\ mem[t].report \in Report /\ mem[t].report.imported \in Nat
      /\ mem[t].report.failed \in SUBSET (1..mem[t].row)
      /\ mem[t].row + 1 \in 1..Len(File(t)) /\ Len(File(t)) \in Nat
  BY AtRowLemma
<1>5. /\ mem'[t].row = mem[t].row + 1 /\ mem'[t].mine = mem[t].mine
      /\ mem'[t].report.failed = mem[t].report.failed \cup {mem[t].row + 1}
      /\ mem'[t].report.imported = mem[t].report.imported
      /\ mem' \in [Tx -> Mem]
      /\ \A u \in Tx \ {t} : mem'[u] = mem[u]
  BY RowFailedMem DEF IInv, TypeOK
<1>6. TypeOK' /\ ReferencesValid'
  BY <1>1, <1>5 DEF IInv, TypeOK, ReferencesValid
<1>7. ImportOK(t)'
  <2>1. ImportOK(t) /\ File(t)' = File(t)
    BY <1>1 DEF IInv, TxInv, File
  <2>2. /\ Kept(t)' = Kept(t)
        /\ mem'[t].report.failed \subseteq 1..mem'[t].row
    <3> DEFINE r == mem[t].row
               F == mem[t].report.failed
    <3>1. r \in Nat /\ F \in SUBSET (1..r)
      BY <1>2
    <3>2. Kept(t) = (1..r) \ F
      BY DEF Kept
    <3>3. Kept(t)' = (1..(r + 1)) \ (F \cup {r + 1})
      BY <1>5 DEF Kept
    <3>4. mem'[t].report.failed = F \cup {r + 1} /\ mem'[t].row = r + 1
      BY <1>5
    <3> HIDE DEF r, F
    <3> QED
      BY <3>1, <3>2, <3>3, <3>4, NextRowLemma
  <2>3. mem'[t].row <= Len(File(t))
    BY <1>2, <1>5
  <2> QED
    BY <1>2, <1>5, <2>1, <2>2, <2>3 DEF ImportOK
<1>8. TxInv(t)'
  BY <1>1, <1>2, <1>7 DEF IInv, TxInv, AtOwnStatement, TargetHeld, Open
<1> QED
  BY <1>1, <1>2, <1>5, <1>6, <1>8, FrameLemma
  DEF IInv, TxInv, TargetHeld, Target

(* An import commits: the products with the SKUs it has kept are there.    *)
LEMMA CommitImportStep ==
  ASSUME IInv, NEW t \in Tx, CommitImport(t)
  PROVE  IInv'
<1>1. /\ pc[t] = "import_row" /\ "ok" \in Outcome
      /\ products' = products \cup {New(t, s) : s \in mem[t].mine}
      /\ report' = [report EXCEPT ![t] = mem[t].report] /\ Finish(t, "ok")
      /\ UNCHANGED <<archived, references, req>>
  BY DEF CommitImport, Outcome
<1>2. ~Answered(t)
  BY <1>1 DEF Answered, Outcome
<1>3. mem[t].mine \subseteq Sku /\ mem[t].report \in Report
  BY DEF IInv, TypeOK, Mem
<1>4. \A p \in {New(t, s) : s \in mem[t].mine} : p \in Product /\ p.by = t
  BY <1>3 DEF New, Product
<1>5. TypeOK' /\ ReferencesValid'
  BY <1>1, <1>3, <1>4, FinishLemma DEF IInv, TypeOK, ReferencesValid
<1> QED
  BY <1>1, <1>2, <1>4, <1>5, FinishLemma, FrameLemma
  DEF IInv, TxInv, TargetHeld, Target

LEMMA SetArchivedStep ==
  ASSUME IInv, NEW t \in Tx, SetArchived(t)
  PROVE  IInv'
<1>1. /\ pc[t] = "set_archived" /\ "ok" \in Outcome
      /\ archived' = archived \cup ({Target(t)} \cap products) /\ Finish(t, "ok")
      /\ UNCHANGED <<products, references, report, req>>
  BY DEF SetArchived, Outcome
<1>2. ~Answered(t)
  BY <1>1 DEF Answered, Outcome
<1>3. TypeOK' /\ ReferencesValid'
  BY <1>1, FinishLemma DEF IInv, TypeOK, ReferencesValid
<1> QED
  BY <1>1, <1>2, <1>3, FinishLemma, FrameLemma
  DEF IInv, TxInv, TargetHeld, Target

(* A product is deleted that nothing refers to, under a lock which those   *)
(* who are about to refer to it do not let go: it is not their product.    *)
LEMMA DeleteStep ==
  ASSUME IInv, NEW t \in Tx, DeleteProduct(t)
  PROVE  IInv'
<1>1. /\ pc[t] = "delete_product" /\ "ok" \in Outcome
      /\ CanLock(t, ProductRow(Target(t)), "FOR UPDATE")
      /\ ~Referenced(Target(t))
      /\ products' = products \ {Target(t)} /\ archived' = archived \ {Target(t)}
      /\ Finish(t, "ok")
      /\ UNCHANGED <<references, report, req>>
  BY DEF DeleteProduct, Outcome
<1>2. ~Answered(t)
  BY <1>1 DEF Answered, Outcome
<1>3. TypeOK'
  BY <1>1, FinishLemma DEF IInv, TypeOK
<1>4. ReferencesValid'
  BY <1>1 DEF IInv, ReferencesValid, Referenced
<1>5. ASSUME NEW u \in Tx \ {t}, pc[u] = "commit_reference"
      PROVE  Target(u) \in products'
  <2>1. Target(u) \in products /\ Holds(u, ProductRow(Target(u)), "KEY SHARE")
    BY <1>5 DEF IInv, TxInv, TargetHeld
  <2>2. ~Holds(u, ProductRow(Target(t)), "KEY SHARE")
    <3> DEFINE l == [tx |-> u, row |-> ProductRow(Target(t)), mode |-> "KEY SHARE"]
    <3>1. l \in locks => l.tx \in Blockers(t, ProductRow(Target(t)), "FOR UPDATE")
      BY <1>5 DEF Blockers, Conflicts
    <3> QED
      BY <1>1, <3>1 DEF CanLock, Holds
  <2> QED
    BY <1>1, <2>1, <2>2
<1>6. \A p \in products' \ products : p.by = t /\ pc'[t] \in Outcome
  BY <1>1
<1>7. /\ TxInv(t)'
      /\ \A u \in Tx \ {t} : /\ pc'[u] = pc[u] /\ req'[u] = req[u] /\ mem'[u] = mem[u]
                             /\ \A l \in locks : l.tx = u => l \in locks'
  BY <1>1, FinishLemma DEF IInv
<1> QED
  BY <1>2, <1>3, <1>4, <1>5, <1>6, <1>7, FrameLemma

(* A batch or line is inserted: its product is locked. *)
LEMMA InsertReferenceStep ==
  ASSUME IInv, NEW t \in Tx, InsertReference(t)
  PROVE  IInv'
<1> DEFINE lock == [tx |-> t, row |-> ProductRow(Target(t)), mode |-> "KEY SHARE"]
<1>1. /\ pc[t] = "insert_reference" /\ Target(t) \in products
      /\ Goto(t, "commit_reference") /\ locks' = locks \cup {lock}
      /\ UNCHANGED <<products, archived, references, report, req, mem>>
  BY DEF InsertReference, Acquire, AcquireAll, tables
<1>2. Open(t) /\ ~Answered(t) /\ req[t] \in Request /\ req[t].op \in {"batch", "line"}
  BY <1>1, AtLemma DEF Open, Outcome
<1>3. lock \in Lock
  BY <1>1 DEF IInv, TypeOK, Lock, Mode, Row, ProductRow
<1>4. TypeOK' /\ ReferencesValid'
  BY <1>1, <1>3 DEF IInv, TypeOK, ReferencesValid, Goto, Statement
<1>5. /\ pc'[t] = "commit_reference" /\ \A u \in Tx \ {t} : pc'[u] = pc[u]
      /\ Target(t)' = Target(t)
  BY <1>1 DEF IInv, TypeOK, Goto, Target
<1>6. TargetHeld(t)'
  BY <1>1, <1>5 DEF TargetHeld, Holds
<1>7. AtOwnStatement(t)' /\ ImportOK(t)'
  BY <1>1, <1>2, <1>5 DEF AtOwnStatement, ImportOK, StatementOf
<1> QED
  BY <1>1, <1>2, <1>4, <1>5, <1>6, <1>7, FrameLemma
  DEF IInv, TxInv, TargetHeld, Target

LEMMA CommitReferenceStep ==
  ASSUME IInv, NEW t \in Tx, CommitReference(t)
  PROVE  IInv'
<1> DEFINE new == [kind |-> req[t].op, product |-> Target(t), by |-> t]
<1>1. /\ pc[t] = "commit_reference" /\ "ok" \in Outcome
      /\ references' = references \cup {new} /\ Finish(t, "ok")
      /\ UNCHANGED <<products, archived, report, req>>
  BY DEF CommitReference, Outcome
<1>2. ~Answered(t) /\ req[t].op \in {"batch", "line"}
  BY <1>1, AtLemma DEF Open, Outcome
<1>3. Target(t) \in products
  BY <1>1 DEF IInv, TxInv, TargetHeld
<1>4. new \in Reference
  BY <1>2, <1>3 DEF IInv, TypeOK, Reference
<1>5. TypeOK' /\ ReferencesValid'
  BY <1>1, <1>3, <1>4, FinishLemma DEF IInv, TypeOK, ReferencesValid
<1> QED
  BY <1>1, <1>2, <1>5, FinishLemma, FrameLemma
  DEF IInv, TxInv, TargetHeld, Target

(* What rolls back, or moves to the next statement, changes no table. *)
LEMMA QuietStep ==
  ASSUME IInv, NEW t \in Tx,
         \/ DuplicateSKU(t) \/ UpdateProduct(t) \/ ProductNotFound(t)
         \/ CountRefused(t) \/ StillReferenced(t) \/ ReferenceRefused(t) \/ Crash(t)
  PROVE  IInv'
<1>1. ~Answered(t)
  BY DEF DuplicateSKU, UpdateProduct, ProductNotFound, CountRefused,
         StillReferenced, ReferenceRefused, Crash, Open, Answered, Outcome
<1>2. \E o \in Outcome : Rollback(t, o)
  BY DEF DuplicateSKU, UpdateProduct, ProductNotFound, CountRefused,
         StillReferenced, ReferenceRefused, Crash, Outcome
<1> QED
  BY <1>1, <1>2, RollbackLemma

LEMMA ReadStep ==
  ASSUME IInv, NEW t \in Tx, ReadProduct(t) \/ CountBatches(t)
  PROVE  IInv'
<1>1. pc[t] \in {"read_product", "count_batches"} /\ Open(t)
  BY DEF ReadProduct, CountBatches, Open, Outcome
<1>2. ~Answered(t) /\ req[t].op \in {"archive", "delete"}
  BY <1>1, AtLemma
<1>3. PICK s \in {"count_batches", "set_archived", "delete_product"} :
        Goto(t, s) /\ UNCHANGED <<products, archived, references, report, locks, req, mem>>
  BY DEF ReadProduct, CountBatches, tables
<1>4. s \in Statement \ {"commit_reference", "import_row"} /\ s \in StatementOf(req[t].op)
  BY <1>2 DEF Statement, StatementOf
<1> QED
  BY <1>1, <1>2, <1>3, <1>4, MoveLemma

-------------------------------------------------------------------------------

(* The invariant is inductive: one step for each action. *)
LEMMA Inductive == IInv /\ [Next]_vars => IInv'
<1> SUFFICES ASSUME IInv, [Next]_vars PROVE IInv'
  OBVIOUS
<1>1. CASE UNCHANGED vars
  BY <1>1 DEF vars, tables, IInv, TypeOK, ReferencesValid, CreatedByAnswered, Answered,
     TxInv, AtOwnStatement, TargetHeld, ImportOK, Kept, File, Open, Target, Holds
<1>2. CASE Quiescent
  BY <1>1, <1>2 DEF Quiescent
<1>3. ASSUME NEW t \in Tx, Start(t) \/ DropLine(t) \/ Step(t) \/ Crash(t)
      PROVE  IInv'
  <2>1. CASE Start(t)
    BY <2>1, StartStep
  <2>2. CASE DropLine(t)
    BY <2>2, DropLineStep
  <2>3. CASE CreateProduct(t)
    BY <2>3, CreateStep
  <2>4. CASE ImportRow(t)
    BY <2>4, ImportRowStep
  <2>5. CASE DuplicateRow(t) \/ MalformedRow(t) \/ RowVictim(t)
    BY <2>5, RowFailedStep DEF DuplicateRow, MalformedRow, RowVictim
  <2>6. CASE CommitImport(t)
    BY <2>6, CommitImportStep
  <2>7. CASE ReadProduct(t) \/ CountBatches(t)
    BY <2>7, ReadStep
  <2>8. CASE SetArchived(t)
    BY <2>8, SetArchivedStep
  <2>9. CASE DeleteProduct(t)
    BY <2>9, DeleteStep
  <2>10. CASE InsertReference(t)
    BY <2>10, InsertReferenceStep
  <2>11. CASE CommitReference(t)
    BY <2>11, CommitReferenceStep
  <2>12. CASE \/ DuplicateSKU(t) \/ UpdateProduct(t) \/ ProductNotFound(t)
              \/ CountRefused(t) \/ StillReferenced(t) \/ ReferenceRefused(t) \/ Crash(t)
    BY <2>12, QuietStep
  <2> QED
    BY <1>3, <2>1, <2>2, <2>3, <2>4, <2>5, <2>6, <2>7, <2>8, <2>9, <2>10, <2>11, <2>12
    DEF Step, Import
<1> QED
  BY <1>1, <1>2, <1>3 DEF Next

LEMMA Initial == Init => IInv
<1> SUFFICES ASSUME Init PROVE IInv
  OBVIOUS
<1>1. Blank \in Mem /\ NoReport \in Report
  BY DEF Blank, NoReport, Mem, Report
<1>2. TypeOK
  BY <1>1, CatalogConstants DEF Init, TypeOK, Product
<1>3. ReferencesValid /\ CreatedByAnswered
  BY CatalogConstants DEF Init, ReferencesValid, CreatedByAnswered
<1>4. ASSUME NEW t \in Tx PROVE TxInv(t)
  BY DEF Init, TxInv, AtOwnStatement, TargetHeld, ImportOK, Open
<1> QED
  BY <1>2, <1>3, <1>4 DEF IInv

(* The inductive invariant: locks, statements and imports in progress fit  *)
(* what the transactions will commit.                                      *)
THEOREM CatalogInvariant == Spec => []IInv
BY Initial, Inductive, PTL DEF Spec

(* Every variable of the catalog keeps its type. *)
THEOREM TypeCorrect == Spec => []TypeOK
<1>1. IInv => TypeOK
  BY DEF IInv
<1> QED
  BY <1>1, CatalogInvariant, PTL

(* No batch or line refers to a product that is gone: delete_product       *)
(* counts batches without a lock, but its DELETE waits for the foreign-key *)
(* locks of those who are inserting references, and then sees them.        *)
THEOREM NoReferenceDangles == Spec => []ReferencesValid
<1>1. IInv => ReferencesValid
  BY DEF IInv
<1> QED
  BY <1>1, CatalogInvariant, PTL

-------------------------------------------------------------------------------
(* What an import is answered with *)

(* Only its COMMIT answers an import with success. *)
LEMMA ImportAnswered ==
  ASSUME IInv, [Next]_vars, NEW t \in Tx,
         Open(t), pc'[t] = "ok", req[t].op = "import"
  PROVE  CommitImport(t)
<1>1. pc[t] = "import_row"
  BY AtLemma DEF IInv, TxInv, AtOwnStatement, StatementOf
<1>2. ~UNCHANGED vars /\ ~Quiescent
  BY <1>1 DEF vars, Quiescent
<1>3. PICK u \in Tx : Start(u) \/ DropLine(u) \/ Step(u) \/ Crash(u)
  BY <1>2 DEF Next
<1>4. pc \in [Tx -> Statement \cup Outcome \cup {"idle"}]
  BY DEF IInv, TypeOK
<1>5. u = t
  <2>1. \E label : pc' = pc \/ pc' = [pc EXCEPT ![u] = label]
    BY <1>3 DEF Start, DropLine, Step, Crash, Import, CreateProduct, DuplicateSKU,
       ImportRow, DuplicateRow, MalformedRow, RowVictim, CommitImport,
       UpdateProduct, ReadProduct, ProductNotFound, CountBatches, CountRefused,
       SetArchived, DeleteProduct, StillReferenced, InsertReference,
       ReferenceRefused, CommitReference, Rollback, Finish, Goto
  <2> QED
    BY <1>1, <1>4, <2>1
<1>6. ~ImportRow(t) /\ ~DuplicateRow(t) /\ ~MalformedRow(t) /\ ~RowVictim(t)
  BY <1>1 DEF ImportRow, DuplicateRow, MalformedRow, RowVictim
<1>7. ~Crash(t)
  BY <1>4 DEF Crash, Rollback, Finish, Goto
<1> QED
  BY <1>1, <1>3, <1>5, <1>6, <1>7 DEF Step, Import, Start, DropLine, CreateProduct,
     DuplicateSKU, UpdateProduct, ReadProduct, ProductNotFound, CountBatches,
     CountRefused, SetArchived, DeleteProduct, StillReferenced, InsertReference,
     ReferenceRefused, CommitReference

LEMMA ImportReported ==
  ASSUME IInv, NEW t \in Tx, CommitImport(t)
  PROVE  LET kept == DOMAIN File(t) \ report'[t].failed IN
         /\ {File(t)[i] : i \in kept} = {p.sku : p \in {q \in products' : q.by = t}}
         /\ Cardinality(kept) = report'[t].imported
<1>1. /\ pc[t] = "import_row" /\ mem[t].row = Len(File(t))
      /\ products' = products \cup {New(t, s) : s \in mem[t].mine}
      /\ report' = [report EXCEPT ![t] = mem[t].report]
  BY DEF CommitImport
<1>2. Open(t) /\ ~Answered(t) /\ File(t) \in Seq(Sku \cup {Malformed})
  <2>1. Open(t)
    BY <1>1 DEF Open, Outcome
  <2> QED
    BY <1>1, <2>1, AtLemma
<1>3. report'[t] = mem[t].report
  BY <1>1 DEF IInv, TypeOK
<1>4. DOMAIN File(t) \ report'[t].failed = Kept(t)
  <2>1. DOMAIN File(t) = 1..mem[t].row
    BY <1>1, <1>2
  <2> QED
    BY <1>3, <2>1 DEF Kept
<1>5. /\ mem[t].mine = {File(t)[i] : i \in Kept(t)}
      /\ Cardinality(Kept(t)) = mem[t].report.imported
  BY <1>1 DEF IInv, TxInv, ImportOK
<1>6. {p.sku : p \in {q \in products' : q.by = t}} = mem[t].mine
  <2>1. \A q \in products : q.by # t
    BY <1>2 DEF IInv, CreatedByAnswered
  <2>2. {q \in products' : q.by = t} = {New(t, s) : s \in mem[t].mine}
    BY <1>1, <2>1 DEF New
  <2>3. \A s \in mem[t].mine : New(t, s).sku = s
    BY DEF New
  <2> QED
    BY <2>2, <2>3
<1> QED
  BY <1>3, <1>4, <1>5, <1>6

(* An import is answered with what it did: the rows not reported failed,   *)
(* and they alone, are the products it created, each counted once.         *)
THEOREM ImportsReportTheTruth == Spec => ReportIsTrue
<1>1. IInv /\ [Next]_vars =>
        [\A t \in Tx :
           Open(t) /\ pc'[t] = "ok" /\ req[t].op = "import" =>
             LET kept == DOMAIN File(t) \ report'[t].failed IN
             /\ {File(t)[i] : i \in kept} = {p.sku : p \in {q \in products' : q.by = t}}
             /\ Cardinality(kept) = report'[t].imported]_vars
  BY ImportAnswered, ImportReported
<1> QED
  BY <1>1, CatalogInvariant, PTL DEF Spec, ReportIsTrue

-------------------------------------------------------------------------------
(* No row of a file is lost *)

(* A SKU somebody has inserted, and committed or not yet. *)
Safe(s) ==
  \/ \E p \in products : p.sku = s
  \/ \E u \in Tx : s \in mem[u].mine

(* The rows an import has dealt with: all of them, once it is answered. *)
Dealt(t) == IF pc[t] = "ok" THEN DOMAIN File(t) ELSE 1..mem[t].row

Importing(t) == pc[t] \in {"import_row", "ok"} /\ req[t].op = "import"

RowsSafe ==
  \A t \in Tx : Importing(t) =>
    \A i \in Dealt(t) : File(t)[i] # Malformed => Safe(File(t)[i])

(* Whoever keeps others from inserting a SKU has inserted it. *)
SkuLocksMine ==
  \A l \in locks : \A s \in Sku : l.row = SkuRow(s) => s \in mem[l.tx].mine

(* Only imports in progress have inserted what they have not committed. *)
MineImporting == \A t \in Tx : pc[t] # "import_row" => mem[t].mine = {}

(* A request is asked once, and only one for it deletes. *)
AskedOnce ==
  \A t \in Tx : /\ pc[t] = "idle" => req[t] = NoRow
                /\ pc[t] = "delete_product" => req[t].op = "delete"

(* Nobody died and nobody asked to delete a product. *)
Undisturbed ==
  \A t \in Tx : /\ pc[t] # "aborted"
                /\ req[t] \in Request => req[t].op # "delete"

SkuInv ==
  /\ SkuLocksMine /\ MineImporting /\ AskedOnce
  /\ Undisturbed => RowsSafe

-------------------------------------------------------------------------------

(* A step of one transaction loses no SKU if what the others are at stays, *)
(* if it holds the locks of what it has inserted and of nothing else, and  *)
(* if it publishes what it inserted before it forgets it.                  *)
LEMMA SkuFrame ==
  ASSUME IInv, SkuInv, NEW t \in Tx, ~Answered(t),
         \A u \in Tx \ {t} : pc'[u] = pc[u] /\ req'[u] = req[u] /\ mem'[u] = mem[u],
         locks' \subseteq Lock,
         \A l \in locks' : l.tx # t => l \in locks,
         \A l \in locks', s \in Sku :
           l.tx = t /\ l.row = SkuRow(s) => s \in mem'[t].mine,
         pc'[t] # "import_row" => mem'[t].mine = {},
         pc'[t] # "idle",
         pc'[t] = "delete_product" => req'[t].op = "delete",
         req'[t] # req[t] => pc[t] = "idle",
         Undisturbed' => products \subseteq products',
         Undisturbed' => \A s \in mem[t].mine :
           s \in mem'[t].mine \/ \E p \in products' : p.sku = s,
         Undisturbed /\ RowsSafe /\ Importing(t)' =>
           \A i \in Dealt(t)' : File(t)'[i] # Malformed =>
             Safe(File(t)'[i]) \/ File(t)'[i] \in mem'[t].mine
  PROVE  SkuInv'
<1>1. SkuLocksMine'
  <2> SUFFICES ASSUME NEW l \in locks', NEW s \in Sku, l.row = SkuRow(s)
               PROVE  s \in mem'[l.tx].mine
    BY DEF SkuLocksMine, SkuRow
  <2>1. l.tx \in Tx
    BY DEF Lock
  <2>2. CASE l.tx = t
    BY <2>2
  <2>3. CASE l.tx # t
    BY <2>1, <2>3 DEF SkuInv, SkuLocksMine
  <2> QED
    BY <2>2, <2>3
<1>2. MineImporting'
  BY DEF SkuInv, MineImporting
<1>3. AskedOnce'
  BY DEF SkuInv, AskedOnce
<1>4. ASSUME Undisturbed' PROVE Undisturbed
  <2>1. req[t] \in Request => req[t].op # "delete"
    <3>1. CASE pc[t] = "idle"
      BY <3>1, CatalogConstants DEF SkuInv, AskedOnce
    <3>2. CASE pc[t] # "idle"
      BY <1>4, <3>2 DEF Undisturbed
    <3> QED
      BY <3>1, <3>2
  <2> QED
    BY <1>4, <2>1 DEF Undisturbed, Answered, Outcome
<1>5. ASSUME Undisturbed' PROVE RowsSafe'
  <2>1. ASSUME NEW s, Safe(s) PROVE Safe(s)'
    BY <1>5, <2>1 DEF Safe
  <2>2. ASSUME NEW u \in Tx \ {t}, Importing(u)', NEW i \in Dealt(u)', File(u)'[i] # Malformed
        PROVE  Safe(File(u)[i])'
    <3>1. File(u)' = File(u) /\ Dealt(u)' = Dealt(u) /\ Importing(u)
      BY <2>2 DEF File, Dealt, Importing
    <3>2. Safe(File(u)[i])
      BY <1>4, <1>5, <2>2, <3>1 DEF SkuInv, RowsSafe
    <3>3. PICK s : s = File(u)[i] /\ s = File(u)'[i]
      BY <3>1
    <3>4. Safe(s)'
      BY <2>1, <3>2, <3>3
    <3> QED
      BY <3>3, <3>4 DEF Safe
  <2>3. ASSUME Importing(t)', NEW i \in Dealt(t)', File(t)'[i] # Malformed
        PROVE  Safe(File(t)[i])'
    <3>1. PICK s : s = File(t)'[i]
      OBVIOUS
    <3>2. Safe(s) \/ s \in mem'[t].mine
      BY <1>4, <1>5, <2>3, <3>1 DEF SkuInv
    <3>3. Safe(s)'
      BY <2>1, <3>2 DEF Safe
    <3> QED
      BY <3>1, <3>3 DEF Safe
  <2> QED
    BY <2>2, <2>3 DEF RowsSafe
<1> QED
  BY <1>1, <1>2, <1>3, <1>5 DEF SkuInv

(* A transaction other than an import ends: it has inserted nothing that   *)
(* it does not publish with its last statement.                            *)
LEMMA SkuFinish ==
  ASSUME IInv, SkuInv, NEW t \in Tx, ~Answered(t), NEW o \in Outcome, Finish(t, o),
         req' = req,
         Undisturbed' => products \subseteq products',
         Undisturbed' => \A s \in mem[t].mine : \E p \in products' : p.sku = s,
         Undisturbed /\ RowsSafe /\ o = "ok" /\ Importing(t)' =>
           \A i \in DOMAIN File(t) : File(t)[i] # Malformed => Safe(File(t)[i])
  PROVE  SkuInv'
<1>1. /\ locks' \subseteq Lock /\ pc'[t] = o
      /\ \A u \in Tx \ {t} : pc'[u] = pc[u] /\ mem'[u] = mem[u]
  BY FinishLemma DEF IInv
<1>2. /\ \A l \in locks' : l.tx # t /\ l \in locks
      /\ mem'[t].mine = {}
  BY DEF Finish, ReleaseAll, Blank, IInv, TypeOK
<1>3. o \notin {"import_row", "idle", "delete_product"}
  BY DEF Outcome
<1>4. ASSUME Undisturbed, RowsSafe, Importing(t)', NEW i \in Dealt(t)',
             File(t)'[i] # Malformed
      PROVE  Safe(File(t)'[i])
  <2>1. o = "ok" /\ Dealt(t)' = DOMAIN File(t) /\ File(t)' = File(t)
    BY <1>1, <1>3, <1>4 DEF Importing, Dealt, File
  <2> QED
    BY <1>4, <2>1
<1> QED
  BY <1>1, <1>2, <1>3, <1>4, SkuFrame

(* A step of a transaction that inserts no SKU and goes on. *)
LEMMA SkuMove ==
  ASSUME IInv, IInv', SkuInv, NEW t \in Tx, ~Answered(t),
         \A u \in Tx \ {t} : pc'[u] = pc[u] /\ req'[u] = req[u] /\ mem'[u] = mem[u],
         \A l \in locks' : l \in locks \/ (l.tx = t /\ l.row[1] = "products"),
         mem'[t].mine = mem[t].mine, pc[t] # "import_row",
         pc'[t] # "idle",
         pc'[t] = "delete_product" => req'[t].op = "delete",
         req'[t] # req[t] => pc[t] = "idle",
         Importing(t)' => pc'[t] = "import_row" /\ mem'[t].row = 0,
         products' = products
  PROVE  SkuInv'
<1>1. mem[t].mine = {} /\ locks' \subseteq Lock
  BY DEF SkuInv, MineImporting, IInv, TypeOK
<1>2. \A l \in locks' : l.tx # t => l \in locks
  OBVIOUS
<1>3. \A l \in locks', s \in Sku : ~(l.tx = t /\ l.row = SkuRow(s))
  BY <1>1 DEF SkuInv, SkuLocksMine, SkuRow
<1>4. ASSUME Importing(t)', NEW i \in Dealt(t)' PROVE FALSE
  <2>1. pc'[t] = "import_row" /\ Dealt(t)' = 1..0
    BY <1>4 DEF Dealt
  <2>2. 1..0 = {}
    OBVIOUS
  <2> QED
    BY <1>4, <2>1, <2>2
<1> QED
  BY <1>1, <1>2, <1>3, <1>4, SkuFrame

LEMMA SkuStart ==
  ASSUME IInv, IInv', SkuInv, NEW t \in Tx, Start(t) \/ DropLine(t)
  PROVE  SkuInv'
<1>1. PICK r \in Request :
        /\ req' = [req EXCEPT ![t] = r]
        /\ \/ r.op # "drop_line" /\ Goto(t, FirstStatement(r.op))
           \/ r.op = "drop_line" /\ Goto(t, "ok")
        /\ \/ UNCHANGED mem
           \/ r.op \in ProductOp /\ \E p \in products : mem' = [mem EXCEPT ![t].product = p]
  BY DEF Start, DropLine
<1>2. pc[t] = "idle" /\ UNCHANGED <<products, locks>>
  BY DEF Start, DropLine, tables
<1>3. /\ req'[t] = r /\ mem[t] = Blank
      /\ \A u \in Tx \ {t} : pc'[u] = pc[u] /\ req'[u] = req[u] /\ mem'[u] = mem[u]
      /\ mem'[t].mine = mem[t].mine /\ mem'[t].row = mem[t].row
  BY <1>1, <1>2 DEF IInv, TypeOK, Goto, TxInv, AtOwnStatement, Blank
<1>4. \/ r.op # "drop_line" /\ pc'[t] = FirstStatement(r.op)
      \/ r.op = "drop_line" /\ pc'[t] = "ok"
  BY <1>1 DEF IInv, TypeOK, Goto
<1>5. /\ pc'[t] \notin {"idle", "delete_product"}
      /\ r.op = "import" => pc'[t] = "import_row"
  BY <1>4, RequestFields DEF FirstStatement, ProductOp
<1>6. mem'[t].row = 0
  BY <1>3 DEF Blank
<1> QED
  BY <1>2, <1>3, <1>5, <1>6, SkuMove DEF Importing, Answered, Outcome

LEMMA SkuOtherMoves ==
  ASSUME IInv, IInv', SkuInv, NEW t \in Tx,
         ReadProduct(t) \/ CountBatches(t) \/ InsertReference(t)
  PROVE  SkuInv'
<1>1. pc[t] \in {"read_product", "count_batches", "insert_reference"} /\ Open(t)
  BY DEF ReadProduct, CountBatches, InsertReference, Open, Outcome
<1>2. ~Answered(t) /\ req[t].op \in {"archive", "delete", "batch", "line"}
  BY <1>1, AtLemma
<1>3. /\ UNCHANGED <<products, req, mem>>
      /\ \A l \in locks' : l \in locks \/ (l.tx = t /\ l.row[1] = "products")
  <2>1. CASE ReadProduct(t) \/ CountBatches(t)
    BY <2>1 DEF ReadProduct, CountBatches, tables
  <2>2. CASE InsertReference(t)
    <3>1. PICK new : new = [tx |-> t, row |-> ProductRow(Target(t)), mode |-> "KEY SHARE"]
      OBVIOUS
    <3>2. UNCHANGED <<products, req, mem>> /\ locks' = locks \cup {new}
      BY <2>2, <3>1 DEF InsertReference, Acquire, AcquireAll, tables
    <3>3. new.tx = t /\ new.row[1] = "products"
      BY <3>1 DEF ProductRow
    <3> QED
      BY <3>2, <3>3
  <2> QED
    BY <2>1, <2>2
<1>4. /\ \A u \in Tx \ {t} : pc'[u] = pc[u]
      /\ \/ pc'[t] \in {"count_batches", "set_archived", "commit_reference"}
         \/ pc'[t] = "delete_product" /\ req[t].op # "archive" /\ pc[t] = "count_batches"
  BY DEF ReadProduct, CountBatches, InsertReference, Goto, IInv, TypeOK
<1>5. pc'[t] = "delete_product" => req[t].op = "delete"
  BY <1>1, <1>4, AtLemma
<1>6. ~Importing(t)'
  BY <1>2, <1>3 DEF Importing
<1> QED
  BY <1>1, <1>2, <1>3, <1>4, <1>5, <1>6, SkuMove

(* Another transaction than an import has inserted nothing when it ends. *)
LEMMA SkuEnds ==
  ASSUME IInv, SkuInv, NEW t \in Tx,
         \/ CreateProduct(t) \/ DuplicateSKU(t) \/ UpdateProduct(t) \/ ProductNotFound(t)
         \/ CountRefused(t) \/ SetArchived(t) \/ DeleteProduct(t) \/ StillReferenced(t)
         \/ ReferenceRefused(t) \/ CommitReference(t)
  PROVE  SkuInv'
<1>1. /\ pc[t] \in Statement \ {"import_row"} /\ ~Answered(t)
      /\ req' = req /\ \E o \in Outcome : Finish(t, o)
  BY DEF CreateProduct, DuplicateSKU, UpdateProduct, ProductNotFound, CountRefused,
     SetArchived, DeleteProduct, StillReferenced, ReferenceRefused, CommitReference,
     Rollback, Answered, Outcome, Statement
<1>2. PICK o \in Outcome : Finish(t, o)
  BY <1>1
<1>3. mem[t].mine = {}
  BY <1>1 DEF SkuInv, MineImporting
<1>4. Open(t) /\ req[t].op # "import" /\ req[t] \in Request
  <2>1. Open(t)
    BY <1>1 DEF Open, Answered, Statement
  <2> QED
    BY <1>1, <2>1, AtLemma DEF Statement
<1>5. ASSUME Undisturbed' PROVE products \subseteq products'
  <2>1. ~DeleteProduct(t)
    BY <1>1, <1>4, <1>5 DEF DeleteProduct, SkuInv, AskedOnce, Undisturbed
  <2> QED
    BY <2>1 DEF CreateProduct, DuplicateSKU, UpdateProduct, ProductNotFound, CountRefused,
     SetArchived, StillReferenced, ReferenceRefused, CommitReference, Rollback, tables
<1>6. ~Importing(t)'
  BY <1>1, <1>4 DEF Importing
<1> QED
  BY <1>1, <1>2, <1>3, <1>5, <1>6, SkuFinish

LEMMA SkuCrash ==
  ASSUME IInv, SkuInv, NEW t \in Tx, Crash(t)
  PROVE  SkuInv'
<1>1. Finish(t, "aborted") /\ UNCHANGED <<products, req>> /\ ~Answered(t) /\ "aborted" \in Outcome
  BY DEF Crash, Rollback, tables, Open, Answered, Outcome
<1>2. ~Undisturbed'
  BY <1>1, FinishLemma DEF Undisturbed, IInv
<1> QED
  BY <1>1, <1>2, SkuFinish

(* What an import has inserted is there when it is answered. *)
LEMMA SkuCommit ==
  ASSUME IInv, SkuInv, NEW t \in Tx, CommitImport(t)
  PROVE  SkuInv'
<1>1. /\ pc[t] = "import_row" /\ mem[t].row = Len(File(t)) /\ Finish(t, "ok")
      /\ products' = products \cup {New(t, s) : s \in mem[t].mine}
      /\ req' = req /\ "ok" \in Outcome
  BY DEF CommitImport, Outcome
<1>2. Open(t) /\ ~Answered(t) /\ req[t] \in Request /\ req[t].op = "import"
      /\ File(t) \in Seq(Sku \cup {Malformed})
  <2>1. Open(t)
    BY <1>1 DEF Open, Outcome
  <2> QED
    BY <1>1, <2>1, AtLemma
<1>3. \A s \in mem[t].mine : New(t, s) \in products' /\ New(t, s).sku = s
  BY <1>1 DEF New
<1>4. Dealt(t) = DOMAIN File(t) /\ Importing(t)
  BY <1>1, <1>2 DEF Dealt, Importing
<1>5. ASSUME RowsSafe, NEW i \in DOMAIN File(t), File(t)[i] # Malformed
      PROVE  Safe(File(t)[i])
  BY <1>4, <1>5 DEF RowsSafe
<1> QED
  BY <1>1, <1>2, <1>3, <1>5, SkuFinish

(* The next row is inserted, or it is rejected: its SKU is somebody's, for *)
(* a deadlock victim that of the import it waits for.                      *)
LEMMA SkuRowDone ==
  ASSUME IInv, SkuInv, NEW t \in Tx, RowLeft(t),
         mem' \in [Tx -> Mem], \A u \in Tx \ {t} : mem'[u] = mem[u],
         mem'[t].row = mem[t].row + 1, mem[t].mine \subseteq mem'[t].mine,
         UNCHANGED <<products, pc, req>>, locks' \subseteq Lock,
         \A l \in locks' : \/ l \in locks
                           \/ l.tx = t /\ \A s \in Sku : l.row = SkuRow(s) => s \in mem'[t].mine,
         NextSku(t) # Malformed => Safe(NextSku(t)) \/ NextSku(t) \in mem'[t].mine
  PROVE  SkuInv'
<1>1. /\ pc[t] = "import_row" /\ Open(t) /\ ~Answered(t) /\ mem[t].row \in Nat
      /\ NextSku(t) = File(t)[mem[t].row + 1]
      /\ req[t] \in Request /\ req[t].op = "import"
  BY AtRowLemma, AtLemma
<1>2. ASSUME RowsSafe, NEW i \in Dealt(t)', File(t)'[i] # Malformed
      PROVE  Safe(File(t)'[i]) \/ File(t)'[i] \in mem'[t].mine
  <2>1. File(t)' = File(t) /\ Importing(t) /\ Dealt(t)' = 1..(mem[t].row + 1)
        /\ Dealt(t) = 1..mem[t].row
    BY <1>1 DEF File, Importing, Dealt
  <2>2. i \in 1..mem[t].row \/ i = mem[t].row + 1
    BY <1>1, <1>2, <2>1
  <2>3. CASE i \in 1..mem[t].row
    BY <1>2, <2>1, <2>3 DEF RowsSafe
  <2>4. CASE i = mem[t].row + 1
    BY <1>1, <1>2, <2>1, <2>4
  <2> QED
    BY <2>2, <2>3, <2>4
<1>3. \A l \in locks' : l.tx # t => l \in locks
  OBVIOUS
<1>4. \A l \in locks', s \in Sku : l.tx = t /\ l.row = SkuRow(s) => s \in mem'[t].mine
  BY DEF SkuInv, SkuLocksMine
<1> QED
  BY <1>1, <1>2, <1>3, <1>4, SkuFrame

LEMMA SkuNextRow ==
  ASSUME IInv, IInv', SkuInv, NEW t \in Tx,
         ImportRow(t) \/ DuplicateRow(t) \/ MalformedRow(t) \/ RowVictim(t)
  PROVE  SkuInv'
<1>1. RowLeft(t) /\ UNCHANGED <<products, pc, req>>
      /\ mem \in [Tx -> Mem] /\ mem' \in [Tx -> Mem] /\ locks' \subseteq Lock
  BY DEF ImportRow, DuplicateRow, MalformedRow, RowVictim, tables, IInv, TypeOK
<1>2. NextSku(t) \in Sku \cup {Malformed}
  BY <1>1, AtRowLemma
<1>3. CASE ImportRow(t)
  <2>1. /\ NextSku(t) \in Sku /\ RowImported(t)
        /\ locks' = locks \cup {[tx |-> t, row |-> SkuRow(NextSku(t)), mode |-> "FOR UPDATE"]}
    BY <1>2, <1>3 DEF ImportRow, Acquire, AcquireAll
  <2>2. /\ \A u \in Tx \ {t} : mem'[u] = mem[u]
        /\ mem'[t].row = mem[t].row + 1
        /\ mem'[t].mine = mem[t].mine \cup {NextSku(t)}
    BY <1>1, <2>1, RowImportedMem
  <2>3. \A s \in Sku : SkuRow(NextSku(t)) = SkuRow(s) => s = NextSku(t)
    BY DEF SkuRow
  <2>4. \A l \in locks' : \/ l \in locks
                          \/ l.tx = t /\ \A s \in Sku : l.row = SkuRow(s) => s \in mem'[t].mine
    <3>1. PICK new : new = [tx |-> t, row |-> SkuRow(NextSku(t)), mode |-> "FOR UPDATE"]
      OBVIOUS
    <3>2. locks' = locks \cup {new} /\ new.tx = t /\ new.row = SkuRow(NextSku(t))
      BY <2>1, <3>1
    <3> QED
      BY <2>2, <2>3, <3>2
  <2> QED
    BY <1>1, <2>2, <2>4, SkuRowDone
<1>4. CASE DuplicateRow(t) \/ MalformedRow(t) \/ RowVictim(t)
  <2>1. RowFailed(t) /\ locks' = locks
    BY <1>4 DEF DuplicateRow, MalformedRow, RowVictim
  <2>2. /\ \A u \in Tx \ {t} : mem'[u] = mem[u]
        /\ mem'[t].row = mem[t].row + 1 /\ mem'[t].mine = mem[t].mine
    BY <1>1, <2>1, RowFailedMem
  <2>3. ASSUME NextSku(t) # Malformed PROVE Safe(NextSku(t))
    <3>1. CASE DuplicateRow(t)
      BY <3>1 DEF DuplicateRow, SkuTaken, Safe
    <3>2. CASE RowVictim(t)
      <4>1. WaitsFor[t] # {}
        <5>1. WaitsFor[t] \subseteq {} => t \in {}
          BY <3>2 DEF RowVictim, InWaitCycle
        <5> QED
          BY <5>1
      <4>2. PICK u : u \in Blockers(t, SkuRow(NextSku(t)), "FOR UPDATE")
        BY <1>1, <2>3, <4>1 DEF WaitsFor
      <4>3. PICK l \in locks : l.row = SkuRow(NextSku(t))
        BY <4>2 DEF Blockers
      <4>4. NextSku(t) \in mem[l.tx].mine /\ l.tx \in Tx
        BY <1>2, <2>3, <4>3 DEF SkuInv, SkuLocksMine, IInv, TypeOK, Lock
      <4> QED
        BY <4>4 DEF Safe
    <3> QED
      BY <1>4, <2>3, <3>1, <3>2 DEF MalformedRow
  <2> QED
    BY <1>1, <2>1, <2>2, <2>3, SkuRowDone
<1> QED
  BY <1>3, <1>4

LEMMA SkuInductive == IInv /\ IInv' /\ SkuInv /\ [Next]_vars => SkuInv'
<1> SUFFICES ASSUME IInv, IInv', SkuInv, [Next]_vars PROVE SkuInv'
  OBVIOUS
<1>1. CASE UNCHANGED vars
  BY <1>1 DEF vars, tables, SkuInv, SkuLocksMine, MineImporting, AskedOnce, Undisturbed,
     RowsSafe, Safe, Dealt, Importing, File
<1>2. CASE Quiescent
  BY <1>1, <1>2 DEF Quiescent
<1>3. ASSUME NEW t \in Tx, Start(t) \/ DropLine(t) \/ Step(t) \/ Crash(t)
      PROVE  SkuInv'
  BY <1>3, SkuStart, SkuOtherMoves, SkuEnds, SkuCrash, SkuCommit, SkuNextRow
  DEF Step, Import
<1> QED
  BY <1>1, <1>2, <1>3 DEF Next

LEMMA SkuInitial == Init => SkuInv
<1> SUFFICES ASSUME Init PROVE SkuInv
  OBVIOUS
<1> QED
  BY DEF Init, SkuInv, SkuLocksMine, MineImporting, AskedOnce, RowsSafe, Importing,
     Blank

(* SKUs are safe with whoever has inserted them, committed or not.        *)
THEOREM SkusKept == Spec => []SkuInv
<1>1. IInv /\ SkuInv /\ [Next]_vars => SkuInv'
  BY Inductive, SkuInductive
<1> QED
  BY <1>1, SkuInitial, CatalogInvariant, PTL DEF Spec

(* Every well-formed row of an imported file is in the catalog when all    *)
(* requests are answered, unless a transaction died or a product was       *)
(* deleted: a row reported as failed was somebody else's insert, and an    *)
(* import that waits in a deadlock waits for one who keeps what it has.    *)
THEOREM ImportsLoseNothing == Spec => []NoSkuLost
<1>1. IInv /\ SkuInv => NoSkuLost
  <2> SUFFICES ASSUME IInv, SkuInv, NEW t \in Tx, pc[t] = "ok", req[t].op = "import",
                      \A u \in Tx : Answered(u) /\ pc[u] # "aborted",
                      \A u \in Tx : req[u].op # "delete",
                      NEW i \in DOMAIN File(t), File(t)[i] # Malformed
               PROVE  \E p \in products : p.sku = File(t)[i]
    BY DEF NoSkuLost
  <2>1. \A u \in Tx : mem[u].mine = {}
    BY DEF SkuInv, MineImporting, Answered, Outcome
  <2>2. RowsSafe
    BY DEF SkuInv, Undisturbed
  <2>3. Importing(t) /\ Dealt(t) = DOMAIN File(t)
    BY DEF Importing, Dealt
  <2>4. Safe(File(t)[i])
    BY <2>2, <2>3 DEF RowsSafe
  <2> QED
    BY <2>1, <2>4 DEF Safe
<1> QED
  BY <1>1, CatalogInvariant, SkusKept, PTL

-------------------------------------------------------------------------------
(* The transactions implement ProductCatalog *)

(* What an import has inserted is locked by it, not in the catalog and not *)
(* inserted by another one.                                                *)
MineAlone ==
  \A t \in Tx : \A s \in mem[t].mine :
    /\ Holds(t, SkuRow(s), "FOR UPDATE")
    /\ \A p \in products : p.sku # s
    /\ \A u \in Tx \ {t} : s \notin mem[u].mine

(* What is archived has batches, and so has what is about to be. *)
ArchivedHaveBatches ==
  /\ \A p \in archived : HasBatch(p)
  /\ \A t \in Tx : pc[t] = "set_archived" => HasBatch(Target(t))

CatalogInv ==
  /\ Promise!SkusDistinct(products) /\ MineAlone /\ ArchivedHaveBatches

-------------------------------------------------------------------------------

(* What a step of one transaction leaves of everything else. *)
LEMMA OthersKept ==
  ASSUME IInv, NEW t \in Tx, Start(t) \/ DropLine(t) \/ Step(t) \/ Crash(t)
  PROVE  /\ \A u \in Tx \ {t} : pc'[u] = pc[u] /\ mem'[u] = mem[u]
         /\ \A l \in locks : l.tx # t => l \in locks'
<1>1. ASSUME NEW o, Finish(t, o)
      PROVE  /\ \A u \in Tx \ {t} : pc'[u] = pc[u] /\ mem'[u] = mem[u]
             /\ \A l \in locks : l.tx # t => l \in locks'
  BY <1>1 DEF Finish, Goto, ReleaseAll, IInv, TypeOK
<1>2. CASE Start(t) \/ DropLine(t)
  BY <1>2 DEF Start, DropLine, Goto, IInv, TypeOK
<1>3. CASE ReadProduct(t) \/ CountBatches(t) \/ InsertReference(t)
  BY <1>3 DEF ReadProduct, CountBatches, InsertReference, Acquire, AcquireAll, Goto,
              IInv, TypeOK
<1>4. CASE ImportRow(t) \/ DuplicateRow(t) \/ MalformedRow(t) \/ RowVictim(t)
  BY <1>4 DEF ImportRow, DuplicateRow, MalformedRow, RowVictim, RowImported, RowFailed,
              Acquire, AcquireAll, IInv, TypeOK
<1>5. ASSUME ~(Start(t) \/ DropLine(t)),
             ~(ReadProduct(t) \/ CountBatches(t) \/ InsertReference(t)),
             ~(ImportRow(t) \/ DuplicateRow(t) \/ MalformedRow(t) \/ RowVictim(t))
      PROVE  \E o : Finish(t, o)
  BY <1>5 DEF Step, Import, Crash, Rollback, CreateProduct, DuplicateSKU, CommitImport,
              UpdateProduct, ProductNotFound, CountRefused, SetArchived, DeleteProduct,
              StillReferenced, ReferenceRefused, CommitReference
<1> QED
  BY <1>1, <1>2, <1>3, <1>4, <1>5

(* Which actions write which table. *)
LEMMA TableWriters ==
  ASSUME NEW t \in Tx, Start(t) \/ DropLine(t) \/ Step(t) \/ Crash(t)
  PROVE  /\ \/ CreateProduct(t) \/ CommitImport(t)
            \/ SetArchived(t) \/ DeleteProduct(t)
            \/ DropLine(t) \/ CommitReference(t)
            \/ UNCHANGED tables
         /\ CreateProduct(t) \/ CommitImport(t) \/ DeleteProduct(t) \/ products' = products
         /\ SetArchived(t) \/ DeleteProduct(t) \/ archived' = archived
         /\ DropLine(t) \/ CommitReference(t) \/ references' = references
  BY DEF Start, DropLine, Step, Import, Crash, Rollback, tables, CreateProduct,
         DuplicateSKU, ImportRow, DuplicateRow, MalformedRow, RowVictim, CommitImport,
         UpdateProduct, ReadProduct, ProductNotFound, CountBatches, CountRefused,
         SetArchived, DeleteProduct, StillReferenced, InsertReference,
         ReferenceRefused, CommitReference

(* Batches stay. *)
LEMMA BatchesStay ==
  ASSUME NEW t \in Tx, Start(t) \/ DropLine(t) \/ Step(t) \/ Crash(t),
         NEW p, HasBatch(p)
  PROVE  HasBatch(p)'
<1>1. \A r \in references : r.kind = "batch" => r \in references'
  BY TableWriters DEF DropLine, CommitReference
<1> QED
  BY <1>1 DEF HasBatch

(* Only a count of batches leads to the UPDATE that archives a product,    *)
(* which then is the one it counted them for.                              *)
LEMMA ArchivingLemma ==
  ASSUME IInv, NEW t \in Tx, Start(t) \/ DropLine(t) \/ Step(t) \/ Crash(t),
         pc'[t] = "set_archived"
  PROVE  HasBatch(Target(t)) /\ mem' = mem
<1>1. ASSUME NEW l, Goto(t, l) PROVE l = "set_archived"
  BY <1>1 DEF Goto, IInv, TypeOK
<1>2. ASSUME NEW o \in Outcome PROVE ~Finish(t, o)
  BY <1>1 DEF Finish, Outcome
<1>3. ~Start(t) /\ ~DropLine(t)
  BY <1>1, RequestFields DEF Start, DropLine, FirstStatement, ProductOp
<1>4. ~Import(t)
  <2>1. ~CommitImport(t)
    BY <1>2 DEF CommitImport, Outcome
  <2>2. ASSUME RowLeft(t), pc' = pc PROVE FALSE
    BY <2>2 DEF RowLeft
  <2> QED
    BY <2>1, <2>2 DEF Import, ImportRow, DuplicateRow, MalformedRow, RowVictim
<1>5. CountBatches(t)
  <2>1. ~ReadProduct(t) /\ ~InsertReference(t)
    BY <1>1 DEF ReadProduct, InsertReference
  <2>2. /\ ~CreateProduct(t) /\ ~DuplicateSKU(t) /\ ~UpdateProduct(t)
        /\ ~ProductNotFound(t) /\ ~CountRefused(t) /\ ~SetArchived(t)
        /\ ~DeleteProduct(t) /\ ~StillReferenced(t) /\ ~ReferenceRefused(t)
        /\ ~CommitReference(t) /\ ~Crash(t)
    BY <1>2 DEF CreateProduct, DuplicateSKU, UpdateProduct, ProductNotFound,
       CountRefused, SetArchived, DeleteProduct, StillReferenced, ReferenceRefused,
       CommitReference, Crash, Rollback, Outcome
  <2> QED
    BY <1>3, <1>4, <2>1, <2>2 DEF Step
<1>6. req[t].op = "archive" /\ Fits(t)
  BY <1>1, <1>5 DEF CountBatches
<1> QED
  BY <1>5, <1>6 DEF Fits, CountBatches

LEMMA ArchivedStep ==
  ASSUME IInv, ArchivedHaveBatches, NEW t \in Tx,
         Start(t) \/ DropLine(t) \/ Step(t) \/ Crash(t)
  PROVE  ArchivedHaveBatches'
<1>1. ASSUME NEW p \in archived' PROVE HasBatch(p)
  <2>1. p \in archived \/ (SetArchived(t) /\ p = Target(t))
    <3>1. SetArchived(t) => archived' \subseteq archived \cup {Target(t)}
      BY DEF SetArchived
    <3>2. DeleteProduct(t) => archived' \subseteq archived
      BY DEF DeleteProduct
    <3> QED
      BY <3>1, <3>2, TableWriters
  <2> QED
    BY <2>1 DEF ArchivedHaveBatches, SetArchived
<1>2. ASSUME NEW u \in Tx, pc'[u] = "set_archived" PROVE HasBatch(Target(u))
  <2>1. CASE u = t
    BY <1>2, <2>1, ArchivingLemma
  <2>2. CASE u # t
    BY <1>2, <2>2, OthersKept DEF ArchivedHaveBatches
  <2> QED
    BY <2>1, <2>2
<1>3. ASSUME NEW u \in Tx, pc'[u] = "set_archived" PROVE Target(u)' = Target(u)
  <2>1. CASE u = t
    BY <1>3, <2>1, ArchivingLemma DEF Target
  <2>2. CASE u # t
    BY <2>2, OthersKept DEF Target
  <2> QED
    BY <2>1, <2>2
<1>4. \A p \in archived' : HasBatch(p)'
  BY <1>1, BatchesStay
<1>5. ASSUME NEW u \in Tx, pc'[u] = "set_archived" PROVE HasBatch(Target(u))'
  <2>1. PICK p : p = Target(u)
    OBVIOUS
  <2>2. HasBatch(p)' /\ p = Target(u)'
    BY <1>2, <1>3, <1>5, <2>1, BatchesStay
  <2> QED
    BY <2>2 DEF HasBatch
<1> QED
  BY <1>4, <1>5 DEF ArchivedHaveBatches

(* Who holds the lock of a SKU keeps others from inserting it. *)
LEMMA HeldBlocks ==
  ASSUME NEW t \in Tx, NEW u \in Tx \ {t}, NEW s, Holds(u, SkuRow(s), "FOR UPDATE")
  PROVE  ~CanLock(t, SkuRow(s), "FOR UPDATE")
<1>1. PICK l \in locks : l = [tx |-> u, row |-> SkuRow(s), mode |-> "FOR UPDATE"]
  BY DEF Holds
<1>2. l.tx = u /\ l.row = SkuRow(s) /\ Conflicts(l.mode, "FOR UPDATE")
  BY <1>1 DEF Conflicts
<1>3. u \in Blockers(t, SkuRow(s), "FOR UPDATE")
  BY <1>2 DEF Blockers
<1> QED
  BY <1>3 DEF CanLock

(* What is new in the catalog was inserted while nobody else had its SKU.  *)
LEMMA CreatedLemma ==
  ASSUME IInv, CatalogInv, NEW t \in Tx, CreateProduct(t) \/ CommitImport(t),
         NEW p \in products' \ products
  PROVE  /\ p \in Product /\ p.by = t
         /\ \A q \in products : p.sku # q.sku
         /\ \A u \in Tx \ {t} : p.sku \notin mem[u].mine
<1>1. CASE CreateProduct(t)
  <2>1. PICK s : s = req[t].sku
    OBVIOUS
  <2>2. /\ products' = products \cup {New(t, s)} /\ ~SkuTaken(t, s)
        /\ CanLock(t, SkuRow(s), "FOR UPDATE")
    BY <1>1, <2>1 DEF CreateProduct
  <2>3. s \in Sku
    BY <1>1, <2>1, AtLemma DEF CreateProduct, Open, Outcome
  <2>4. p = [sku |-> s, by |-> t]
    BY <2>2 DEF New
  <2>5. \A u \in Tx \ {t} : s \notin mem[u].mine
    BY <2>2, HeldBlocks DEF CatalogInv, MineAlone
  <2> QED
    BY <2>2, <2>3, <2>4, <2>5 DEF SkuTaken, Product
<1>2. CASE CommitImport(t)
  <2>1. products' = products \cup {New(t, s) : s \in mem[t].mine}
    BY <1>2 DEF CommitImport
  <2>2. PICK s \in mem[t].mine : p = [sku |-> s, by |-> t]
    BY <2>1 DEF New
  <2>3. s \in Sku
    BY DEF IInv, TypeOK, Mem
  <2> QED
    BY <2>2, <2>3 DEF CatalogInv, MineAlone, Product
<1> QED
  BY <1>1, <1>2

(* Two products with one SKU would both be there already, or both new: a   *)
(* transaction has created no more than one for each SKU.                  *)
LEMMA DistinctStep ==
  ASSUME IInv, CatalogInv, NEW t \in Tx,
         Start(t) \/ DropLine(t) \/ Step(t) \/ Crash(t)
  PROVE  Promise!SkusDistinct(products')
<1>1. Promise!SkusDistinct(products)
  BY DEF CatalogInv
<1>2. CASE CreateProduct(t) \/ CommitImport(t)
  <2>1. \A p \in products' \ products, q \in products : p.sku # q.sku
    BY <1>2, CreatedLemma
  <2>2. ASSUME NEW p \in products' \ products, NEW q \in products' \ products,
               p.sku = q.sku
        PROVE  p = q
    <3>1. p \in Product /\ q \in Product /\ p.by = t /\ q.by = t
      BY <1>2, CreatedLemma
    <3> QED
      BY <2>2, <3>1 DEF Product
  <2>3. products \subseteq products'
    BY <1>2 DEF CreateProduct, CommitImport
  <2> QED
    BY <1>1, <2>1, <2>2, <2>3 DEF Promise!SkusDistinct
<1>3. CASE ~(CreateProduct(t) \/ CommitImport(t))
  <2>1. products' \subseteq products
    BY <1>3, TableWriters DEF DeleteProduct
  <2> QED
    BY <1>1, <2>1 DEF Promise!SkusDistinct
<1> QED
  BY <1>2, <1>3

(* What a transaction has inserted grows by one row, stays with its locks, *)
(* or is given up.                                                         *)
LEMMA MineLemma ==
  ASSUME IInv, NEW t \in Tx, Start(t) \/ DropLine(t) \/ Step(t) \/ Crash(t)
  PROVE  \/ mem'[t].mine = {}
         \/ mem'[t].mine = mem[t].mine /\ locks \subseteq locks' /\ products' = products
         \/ /\ mem'[t].mine = mem[t].mine \cup {NextSku(t)} /\ NextSku(t) \in Sku
            /\ products' = products /\ locks \subseteq locks'
            /\ CanLock(t, SkuRow(NextSku(t)), "FOR UPDATE") /\ ~SkuTaken(t, NextSku(t))
            /\ [tx |-> t, row |-> SkuRow(NextSku(t)), mode |-> "FOR UPDATE"] \in locks'
<1>1. ASSUME NEW o, Finish(t, o) PROVE mem'[t].mine = {}
  BY <1>1 DEF Finish, Blank, IInv, TypeOK
<1>2. CASE Start(t) \/ DropLine(t)
  <2>1. /\ products' = products /\ locks' = locks
        /\ \/ mem' = mem
           \/ \E p \in products : mem' = [mem EXCEPT ![t].product = p]
    BY <1>2 DEF Start, DropLine, tables
  <2> QED
    BY <2>1 DEF IInv, TypeOK, Mem
<1>3. CASE ReadProduct(t) \/ CountBatches(t) \/ InsertReference(t)
  BY <1>3 DEF ReadProduct, CountBatches, InsertReference, Acquire, AcquireAll, tables
<1>4. CASE ImportRow(t)
  <2>1. RowLeft(t) /\ NextSku(t) # Malformed /\ ~SkuTaken(t, NextSku(t)) /\ RowImported(t)
        /\ products' = products
    BY <1>4 DEF ImportRow, tables
  <2>2. NextSku(t) \in Sku
    BY <2>1, AtRowLemma
  <2>3. mem'[t].mine = mem[t].mine \cup {NextSku(t)}
    BY <2>1, <2>2, RowImportedMem DEF IInv, TypeOK
  <2>4. PICK s : s = NextSku(t)
    OBVIOUS
  <2>5. Acquire(t, SkuRow(s), "FOR UPDATE")
    BY <1>4, <2>4 DEF ImportRow
  <2>6. /\ CanLock(t, SkuRow(s), "FOR UPDATE") /\ locks \subseteq locks'
        /\ [tx |-> t, row |-> SkuRow(s), mode |-> "FOR UPDATE"] \in locks'
    BY <2>5 DEF Acquire, AcquireAll
  <2> QED
    BY <2>1, <2>2, <2>3, <2>4, <2>6
<1>5. CASE DuplicateRow(t) \/ MalformedRow(t) \/ RowVictim(t)
  <2>1. RowFailed(t) /\ UNCHANGED <<products, locks>>
    BY <1>5 DEF DuplicateRow, MalformedRow, RowVictim, tables
  <2> QED
    BY <2>1, RowFailedMem DEF IInv, TypeOK
<1>6. ASSUME ~(Start(t) \/ DropLine(t)),
             ~(ReadProduct(t) \/ CountBatches(t) \/ InsertReference(t)),
             ~ImportRow(t), ~(DuplicateRow(t) \/ MalformedRow(t) \/ RowVictim(t))
      PROVE  \E o : Finish(t, o)
  BY <1>6 DEF Step, Import, Crash, Rollback, CreateProduct, DuplicateSKU, CommitImport,
              UpdateProduct, ProductNotFound, CountRefused, SetArchived, DeleteProduct,
              StillReferenced, ReferenceRefused, CommitReference
<1> QED
  BY <1>1, <1>2, <1>3, <1>4, <1>5, <1>6

LEMMA MineStep ==
  ASSUME IInv, CatalogInv, NEW t \in Tx,
         Start(t) \/ DropLine(t) \/ Step(t) \/ Crash(t)
  PROVE  MineAlone'
<1> PICK new : new = NextSku(t)
  OBVIOUS
<1>1. /\ \A u \in Tx \ {t} : mem'[u] = mem[u]
      /\ \A l \in locks : l.tx # t => l \in locks'
  BY OthersKept
<1>2. ASSUME NEW u \in Tx \ {t}, NEW s \in mem[u].mine
      PROVE  /\ [tx |-> u, row |-> SkuRow(s), mode |-> "FOR UPDATE"] \in locks'
             /\ \A p \in products' : p.sku # s
             /\ \A v \in Tx \ {u, t} : s \notin mem[v].mine
  <2>1. \E l \in locks : l = [tx |-> u, row |-> SkuRow(s), mode |-> "FOR UPDATE"]
    BY DEF CatalogInv, MineAlone, Holds
  <2>2. \A p \in products : p.sku # s
    BY DEF CatalogInv, MineAlone
  <2>3. \A p \in products' \ products : p.sku # s
    <3>1. CASE CreateProduct(t) \/ CommitImport(t)
      BY <3>1, CreatedLemma
    <3>2. CASE ~(CreateProduct(t) \/ CommitImport(t))
      BY <3>2, TableWriters DEF DeleteProduct
    <3> QED
      BY <3>1, <3>2
  <2> QED
    BY <1>1, <2>1, <2>2, <2>3 DEF CatalogInv, MineAlone
<1>3. ASSUME NEW s \in mem'[t].mine
      PROVE  /\ [tx |-> t, row |-> SkuRow(s), mode |-> "FOR UPDATE"] \in locks'
             /\ \A p \in products' : p.sku # s
             /\ \A u \in Tx \ {t} : s \notin mem[u].mine
  <2>1. products' = products /\ locks \subseteq locks'
    BY <1>3, MineLemma
  <2>2. CASE s \in mem[t].mine
    BY <2>1, <2>2 DEF CatalogInv, MineAlone, Holds
  <2>3. CASE s \notin mem[t].mine
    <3>1. /\ s = NextSku(t) /\ ~SkuTaken(t, s)
          /\ CanLock(t, SkuRow(s), "FOR UPDATE")
          /\ [tx |-> t, row |-> SkuRow(s), mode |-> "FOR UPDATE"] \in locks'
      BY <1>3, <2>3, MineLemma
    <3>2. \A u \in Tx \ {t} : s \notin mem[u].mine
      BY <3>1, HeldBlocks DEF CatalogInv, MineAlone
    <3> QED
      BY <2>1, <3>1, <3>2 DEF SkuTaken
  <2> QED
    BY <2>2, <2>3
<1>4. ASSUME NEW u \in Tx, NEW s \in mem'[u].mine
      PROVE  /\ Holds(u, SkuRow(s), "FOR UPDATE")'
             /\ \A p \in products' : p.sku # s
             /\ \A v \in Tx \ {u} : s \notin mem'[v].mine
  <2>1. CASE u = t
    BY <1>1, <1>3, <2>1 DEF Holds
  <2>2. CASE u # t
    <3>1. s \in mem[u].mine
      BY <1>1, <2>2
    <3>2. s \notin mem'[t].mine
      BY <1>3, <2>2, <3>1
    <3> QED
      BY <1>1, <1>2, <2>2, <3>1, <3>2 DEF Holds
  <2> QED
    BY <2>1, <2>2
<1> QED
  BY <1>4 DEF MineAlone

LEMMA CatalogInductive == IInv /\ CatalogInv /\ [Next]_vars => CatalogInv'
<1> SUFFICES ASSUME IInv, CatalogInv, [Next]_vars PROVE CatalogInv'
  OBVIOUS
<1>1. CASE UNCHANGED vars
  <2>1. UNCHANGED <<products, archived, references, locks, pc, mem>>
    BY <1>1 DEF vars, tables
  <2> QED
    BY <2>1 DEF CatalogInv, Promise!SkusDistinct, MineAlone, ArchivedHaveBatches,
                HasBatch, Target, Holds
<1>2. CASE Quiescent
  BY <1>1, <1>2 DEF Quiescent
<1>3. ASSUME NEW t \in Tx, Start(t) \/ DropLine(t) \/ Step(t) \/ Crash(t)
      PROVE  CatalogInv'
  <2>1. Promise!SkusDistinct(products')
    BY <1>3, DistinctStep
  <2>2. Promise!SkusDistinct(products)'
    BY <2>1 DEF Promise!SkusDistinct
  <2> QED
    BY <1>3, <2>2, MineStep, ArchivedStep DEF CatalogInv
<1> QED
  BY <1>1, <1>2, <1>3 DEF Next

LEMMA CatalogInitial == Init => CatalogInv
<1> SUFFICES ASSUME Init PROVE CatalogInv
  OBVIOUS
<1>1. \A p, q \in products : p.sku = q.sku => p = q
  BY DEF Init
<1>2. \A t \in Tx : mem[t].mine = {} /\ pc[t] # "set_archived"
  BY DEF Init, Blank
<1> QED
  BY <1>1, <1>2 DEF Init, CatalogInv, Promise!SkusDistinct, MineAlone, ArchivedHaveBatches

(* No two products have one SKU, an import has its SKUs to itself until it *)
(* ends, and what is archived has batches.                                 *)
THEOREM CatalogKept == Spec => []CatalogInv
<1>1. IInv /\ CatalogInv /\ [Next]_vars => CatalogInv'
  BY CatalogInductive
<1> QED
  BY <1>1, CatalogInitial, CatalogInvariant, PTL DEF Spec

-------------------------------------------------------------------------------
(* The refinement, one lemma for each step of ProductCatalog *)

LEMMA CreateMaps ==
  ASSUME IInv, CatalogInv, NEW t \in Tx, CreateProduct(t) \/ CommitImport(t)
  PROVE  Promise!Create
<1>1. /\ products \subseteq products'
      /\ UNCHANGED <<archived, references>>
  BY DEF CreateProduct, CommitImport
<1>2. products' \in SUBSET Product
  BY CreatedLemma DEF IInv, TypeOK
<1>3. Promise!SkusDistinct(products')
  BY DistinctStep DEF Step, Import
<1> QED
  BY <1>1, <1>2, <1>3 DEF Promise!Create

LEMMA ArchiveMaps ==
  ASSUME IInv, CatalogInv, NEW t \in Tx, SetArchived(t)
  PROVE  Promise!Next
<1> PICK p : p = Target(t)
  OBVIOUS
<1>1. /\ pc[t] = "set_archived" /\ archived' = archived \cup ({p} \cap products)
      /\ UNCHANGED <<products, references>>
  BY DEF SetArchived
<1>2. PICK r \in references : r.kind = "batch" /\ r.product = p
  BY <1>1 DEF CatalogInv, ArchivedHaveBatches, HasBatch
<1>3. p \in products /\ p \in Product
  BY <1>2 DEF IInv, TypeOK, ReferencesValid
<1>4. Promise!Archive(p)
  BY <1>1, <1>2, <1>3 DEF Promise!Archive, Promise!HasBatches
<1> QED
  BY <1>3, <1>4 DEF Promise!Next

(* The second of two deletions deletes nothing. *)
LEMMA DeleteMaps ==
  ASSUME IInv, CatalogInv, NEW t \in Tx, DeleteProduct(t)
  PROVE  [Promise!Next]_(Promise!catalogVars)
<1> PICK p : p = Target(t)
  OBVIOUS
<1>1. /\ \A r \in references : r.product # p
      /\ products' = products \ {p} /\ archived' = archived \ {p}
      /\ UNCHANGED references
  BY DEF DeleteProduct, Referenced
<1>2. p \notin archived
  BY <1>1 DEF CatalogInv, ArchivedHaveBatches, HasBatch
<1>3. archived' = archived
  BY <1>1, <1>2
<1>4. CASE p \in products
  <2>1. Promise!Delete(p) /\ p \in Product
    BY <1>1, <1>2, <1>3, <1>4 DEF Promise!Delete, IInv, TypeOK
  <2> QED
    BY <2>1 DEF Promise!Next
<1>5. CASE p \notin products
  BY <1>1, <1>3, <1>5 DEF Promise!catalogVars
<1> QED
  BY <1>4, <1>5

LEMMA ReferMaps ==
  ASSUME IInv, NEW t \in Tx, CommitReference(t)
  PROVE  Promise!Next
<1> PICK r : r = [kind |-> req[t].op, product |-> Target(t), by |-> t]
  OBVIOUS
<1>1. /\ pc[t] = "commit_reference" /\ references' = references \cup {r}
      /\ UNCHANGED <<products, archived>>
  BY DEF CommitReference
<1>2. req[t].op \in {"batch", "line"}
  BY <1>1, AtLemma DEF Open, Outcome
<1>3. Target(t) \in products
  BY <1>1 DEF IInv, TxInv, TargetHeld
<1>4. r \in Reference /\ r.product \in products
  BY <1>2, <1>3 DEF Reference, IInv, TypeOK
<1>5. Promise!Refer(r)
  BY <1>1, <1>4 DEF Promise!Refer
<1> QED
  BY <1>4, <1>5 DEF Promise!Next

LEMMA DropMaps ==
  ASSUME IInv, NEW t \in Tx, DropLine(t)
  PROVE  Promise!Next
<1>1. PICK r \in references : r.kind = "line" /\ references' = references \ {r}
  BY DEF DropLine
<1>2. UNCHANGED <<products, archived>>
  BY DEF DropLine
<1>3. Promise!Drop(r) /\ r \in Reference
  BY <1>1, <1>2 DEF Promise!Drop, IInv, TypeOK
<1> QED
  BY <1>3 DEF Promise!Next

LEMMA StepMaps ==
  ASSUME IInv, CatalogInv, [Next]_vars
  PROVE  [Promise!Next]_(Promise!catalogVars)
<1>1. ASSUME UNCHANGED tables PROVE UNCHANGED Promise!catalogVars
  BY <1>1 DEF tables, Promise!catalogVars
<1>2. CASE UNCHANGED vars
  BY <1>1, <1>2 DEF vars
<1>3. ASSUME NEW t \in Tx, Start(t) \/ DropLine(t) \/ Step(t) \/ Crash(t)
      PROVE  [Promise!Next]_(Promise!catalogVars)
  <2>1. CASE CreateProduct(t) \/ CommitImport(t)
    BY <2>1, CreateMaps DEF Promise!Next
  <2>2. CASE SetArchived(t) \/ DeleteProduct(t) \/ DropLine(t) \/ CommitReference(t)
    BY <2>2, ArchiveMaps, DeleteMaps, DropMaps, ReferMaps
  <2>3. CASE UNCHANGED tables
    BY <1>1, <2>3
  <2> QED
    BY <1>3, <2>1, <2>2, <2>3, TableWriters
<1> QED
  BY <1>2, <1>3 DEF Next, Quiescent

(* Imports, deletions and archivings whose checks are out of date when     *)
(* they act, and transactions that die look like single steps of           *)
(* ProductCatalog (services of apps/catalog).                              *)
THEOREM TransactionsImplementCatalog == Spec => ImplementsPromise
<1>1. Init => Promise!Init
  BY CatalogInitial, Initial DEF Init, Promise!Init, IInv, TypeOK, CatalogInv
<1>2. IInv /\ CatalogInv /\ [Next]_vars => [Promise!Next]_(Promise!catalogVars)
  BY StepMaps
<1> QED
  BY <1>1, <1>2, CatalogInvariant, CatalogKept, PTL
  DEF Spec, ImplementsPromise, Promise!Spec

===============================================================================
