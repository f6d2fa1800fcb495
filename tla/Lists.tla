-------------------------------- MODULE Lists --------------------------------
(***************************************************************************)
(* The lists of the API, read page by page while requests change them.     *)
(*                                                                         *)
(* Sales orders and movements are paged by keyset: a page starts after the *)
(* (created_at, id) of the row the last one ended with.  Purchase orders,  *)
(* products, batches and the recall report are paged by offset, with a     *)
(* COUNT and a SELECT for each page.  Every statement has a snapshot of    *)
(* its own, so rows come and go between two of them.                       *)
(*                                                                         *)
(* A behaviour is one client's walk through one list.  All lists read a    *)
(* table of the same shape, so row stands for the one the walk reads.      *)
(***************************************************************************)
EXTENDS Integers, Sequences, FiniteSets, FiniteSetsExt, SequencesExt

CONSTANTS
  Id,           \* ids of rows, numbered as UUIDs are ordered
  Stamp,        \* values of NOW(): when a transaction started
  List,         \* the lists clients walk
  PageSize,     \* the limits they ask for
  InitialRows,  \* the tables a walk may start with
  MaxWrites,    \* rows written during a walk (bound)
  NoCursor

VARIABLES
  row,   \* the table: sales_orders, stock_movements, purchase_orders, ...
  walk   \* the client: what it asked for, what it was answered, where it is

listVars == <<row, walk>>

KeysetList == {"sales_orders", "movements"}
OffsetList == {"purchase_orders", "products", "batches", "recall_report"}

Cursor == Stamp \X Id

(* What a walked table's rows say of themselves: a draft is "open", an     *)
(* order committed or received is "closed"; flag is voided_at, archived_at *)
(* or is_recalled.  Rows of the other tables are always "open".            *)
Row == [status : {"absent", "open", "closed", "deleted"}, flag : BOOLEAN,
        created : Stamp, closed : Stamp]

ASSUME ListConstants ==
  /\ Id \subseteq Nat /\ IsFiniteSet(Id)
  /\ Stamp \subseteq Nat /\ Stamp # {}
  /\ List \subseteq KeysetList \cup OffsetList
  /\ PageSize \subseteq Nat \ {0} /\ PageSize # {}
  /\ InitialRows \subseteq [Id -> Row]
  /\ MaxWrites \in Nat
  /\ NoCursor \notin Cursor

-------------------------------------------------------------------------------
(* WHERE: the rows a list shows, by the filter the client asks for *)

Filter(list) ==
  CASE list = "sales_orders" -> {"all", "draft", "committed", "voided", "not_voided"}
    [] list = "purchase_orders" -> {"all", "draft", "received"}
    [] list = "products" -> {"all", "archived", "active"}
    [] list = "batches" -> {"all", "recalled", "not_recalled"}
    [] OTHER -> {"all"}

Present == {i \in Id : row[i].status \in {"open", "closed"}}

SalesOrders(f) ==
  {i \in Present : /\ f = "draft" => row[i].status = "open"
                   /\ f = "committed" => row[i].status = "closed"
                   /\ f = "voided" => row[i].flag
                   /\ f = "not_voided" => ~row[i].flag}

(* batch_id, product_id and kind of a movement never change: a filter on   *)
(* them selects a table of its own.                                        *)
Movements == Present

PurchaseOrders(f) ==
  {i \in Present : /\ f = "draft" => row[i].status = "open"
                   /\ f = "received" => row[i].status = "closed"}

Products(f) ==
  {i \in Present : /\ f = "archived" => row[i].flag
                   /\ f = "active" => ~row[i].flag}

Batches(f) ==
  {i \in Present : /\ f = "recalled" => row[i].flag
                   /\ f = "not_recalled" => ~row[i].flag}

(* Faulty variant: the view keeps voided orders. *)
RecallReportWithVoided == {i \in Present : row[i].status = "closed"}

(* v_recall_report, of a batch every order of the table took units from. *)
RecallReport == {i \in Present : row[i].status = "closed" /\ ~row[i].flag}

Shown(list, f) ==
  CASE list = "sales_orders" -> SalesOrders(f)
    [] list = "movements" -> Movements
    [] list = "purchase_orders" -> PurchaseOrders(f)
    [] list = "products" -> Products(f)
    [] list = "batches" -> Batches(f)
    [] OTHER -> RecallReport

-------------------------------------------------------------------------------
(* ORDER BY *)

Key(i) == <<row[i].created, i>>

(* (a.created_at, a.id) < (b.created_at, b.id) *)
Below(a, b) == a[1] < b[1] \/ (a[1] = b[1] /\ a[2] < b[2])

(* ORDER BY created_at DESC, id DESC *)
Newest(S) ==
  CHOOSE s \in SetToSeqs(S) :
    \A i, j \in DOMAIN s : i < j => Below(Key(s[j]), Key(s[i]))

(* ORDER BY sale_committed_at DESC, and nothing to break a tie: any of     *)
(* these is the order of one statement.                                    *)
LatestSales(S) ==
  {s \in SetToSeqs(S) :
     \A i, j \in DOMAIN s : i < j => row[s[i]].closed >= row[s[j]].closed}

Orders(list, S) == IF list = "recall_report" THEN LatestSales(S) ELSE {Newest(S)}

-------------------------------------------------------------------------------
(* The walk *)

Walk == [list : List, filter : UNION {Filter(l) : l \in List}, limit : PageSize,
         at : {"idle", "count", "page", "export", "done"},
         cursor : Cursor \cup {NoCursor}, total : Nat, offset : Nat,
         got : Seq(Id),        \* the items of all pages, in order
         steady : SUBSET Id,   \* shown by the list ever since the walk began
         left : BOOLEAN,       \* some row has left the list meanwhile
         stale : BOOLEAN,      \* the last page had more rows than its COUNT
         writes : Nat]

(* What the walk's client sees when a write commits. *)
Watch ==
  \E list \in {walk.list}, f \in {walk.filter} :
    walk' = [walk EXCEPT !.steady = @ \cap Shown(list, f)',
                         !.left = @ \/ ~(Shown(list, f) \subseteq Shown(list, f)'),
                         !.writes = @ + 1]

(* A request for the first page, or for the CSV export. *)
FirstRequest(list, f, n, at) ==
  [list |-> list, filter |-> f, limit |-> n, at |-> at, cursor |-> NoCursor,
   total |-> 0, offset |-> 0, got |-> <<>>, steady |-> Shown(list, f),
   left |-> FALSE, stale |-> FALSE, writes |-> 0]

(* Faulty variant: the cursor points past the row fetched to look ahead.   *)
NextCursorPastLookahead(rows) ==
  IF Len(rows) > walk.limit THEN Key(Last(rows)) ELSE NoCursor

(* build_next_cursor: of limit + 1 rows fetched, the last one of the page. *)
NextCursor(rows) ==
  IF Len(rows) > walk.limit THEN Key(rows[walk.limit]) ELSE NoCursor

(* Faulty variant: the row the cursor names is selected again. *)
FromCursor(S) ==
  {i \in S : walk.cursor # NoCursor =>
               Below(Key(i), walk.cursor) \/ Key(i) = walk.cursor}

AfterCursor(S) ==
  {i \in S : walk.cursor # NoCursor => Below(Key(i), walk.cursor)}

(* Faulty variant: a row is dropped that was not fetched to look ahead. *)
FetchShort(s, from, n) == SubSeq(s, from + 1, Min({from + n - 1, Len(s)}))

(* OFFSET from LIMIT n *)
Fetch(s, from, n) == SubSeq(s, from + 1, Min({from + n, Len(s)}))

(* One request for a page of a keyset list: one statement. *)
KeysetPage(S) ==
  LET rows == Fetch(Newest(AfterCursor(S)), 0, walk.limit + 1) IN
  /\ walk.at = "page"
  /\ walk' = [walk EXCEPT !.got = @ \o Fetch(rows, 0, walk.limit),
                          !.cursor = NextCursor(rows),
                          !.at = IF NextCursor(rows) = NoCursor THEN "done" ELSE "page"]
  /\ UNCHANGED row

(* One request for a page of an offset list: the COUNT *)
Count(S) ==
  /\ walk.at = "count"
  /\ walk' = [walk EXCEPT !.total = Cardinality(S), !.at = "page"]
  /\ UNCHANGED row

(* and the page, of a later snapshot.  The client asks for the next page   *)
(* until it has asked for total rows.                                      *)
OffsetPage(S) ==
  /\ walk.at = "page"
  /\ \E s \in Orders(walk.list, S) :
       walk' = [walk EXCEPT !.got = @ \o Fetch(s, walk.offset, walk.limit),
                            !.offset = @ + walk.limit,
                            !.stale = Cardinality(S) > walk.total,
                            !.at = IF walk.offset + walk.limit >= walk.total
                                   THEN "done" ELSE "count"]
  /\ UNCHANGED row

CountedPage(S) == Count(S) \/ OffsetPage(S)

(* format=csv: one statement without LIMIT. *)
Export(S) ==
  /\ walk.at = "export"
  /\ \E s \in Orders(walk.list, S) :
       walk' = [walk EXCEPT !.got = s, !.at = "done"]
  /\ UNCHANGED row

ListSalesOrders == walk.list = "sales_orders" /\ KeysetPage(SalesOrders(walk.filter))
ListMovements == walk.list = "movements" /\ KeysetPage(Movements)
StreamMovements == walk.list = "movements" /\ Export(Movements)
ListPurchaseOrders ==
  walk.list = "purchase_orders" /\ CountedPage(PurchaseOrders(walk.filter))
ListProducts == walk.list = "products" /\ CountedPage(Products(walk.filter))
ListBatches == walk.list = "batches" /\ CountedPage(Batches(walk.filter))
ListRecallReport == walk.list = "recall_report" /\ CountedPage(RecallReport)
StreamRecallReport == walk.list = "recall_report" /\ Export(RecallReport)

Read ==
  \/ ListSalesOrders \/ ListMovements \/ StreamMovements
  \/ ListPurchaseOrders \/ ListProducts \/ ListBatches
  \/ ListRecallReport \/ StreamRecallReport

-------------------------------------------------------------------------------
(* What other requests commit meanwhile, in each table *)

OrderLists == {"sales_orders", "recall_report", "purchase_orders"}

(* created_at is NOW(), the start of the transaction that commits only     *)
(* now: a row may appear anywhere in the list.                             *)
Insert(i) ==
  /\ row[i].status = "absent"
  /\ \E s \in Stamp : row' = [row EXCEPT ![i].status = "open", ![i].created = s]

(* Commit of a sales order, receipt of a purchase order. *)
Close(i) ==
  /\ walk.list \in OrderLists
  /\ row[i].status = "open"
  /\ \E s \in Stamp : row' = [row EXCEPT ![i].status = "closed", ![i].closed = s]

VoidOrder(i) ==
  /\ walk.list \in {"sales_orders", "recall_report"}
  /\ row[i].status = "closed" /\ ~row[i].flag
  /\ row' = [row EXCEPT ![i].flag = TRUE]

(* Products are archived for good, batches recalled and un-recalled. *)
SetFlag(i) ==
  /\ walk.list \in {"products", "batches"}
  /\ row[i].status = "open"
  /\ walk.list = "products" => ~row[i].flag
  /\ row' = [row EXCEPT ![i].flag = ~@]

(* Of drafts, and of products. *)
Delete(i) ==
  /\ walk.list \in OrderLists \cup {"products"}
  /\ row[i].status = "open"
  /\ row' = [row EXCEPT ![i].status = "deleted"]

Write(i) == Insert(i) \/ Close(i) \/ VoidOrder(i) \/ SetFlag(i) \/ Delete(i)

Change ==
  /\ walk.at \notin {"idle", "done"} /\ walk.writes < MaxWrites
  /\ \E i \in Id : Write(i)
  /\ Watch

-------------------------------------------------------------------------------
(* Specification *)

FirstStatement(list) ==
  (IF list \in KeysetList THEN {"page"} ELSE {"count"})
    \cup (IF list \in {"movements", "recall_report"} THEN {"export"} ELSE {})

(* Tables of this kind: only orders are closed, and what is voided was     *)
(* committed.                                                              *)
Possible(list) ==
  \A i \in Id :
    /\ row[i].status = "closed" => list \in OrderLists
    /\ row[i].flag => \/ list \in {"products", "batches"}
                      \/ /\ list \in {"sales_orders", "recall_report"}
                         /\ row[i].status = "closed"

ListInit ==
  /\ row \in InitialRows
  /\ \E list \in List, n \in PageSize :
       /\ Possible(list)
       /\ \E f \in Filter(list), at \in FirstStatement(list) :
            walk = FirstRequest(list, f, n, at)

-------------------------------------------------------------------------------
(* Properties *)

WalkOK ==
  /\ row \in [Id -> Row]
  /\ walk \in Walk
  /\ walk.writes <= MaxWrites

Walked(S) == walk.at = "done" /\ walk.list \in S
Listed == ToSet(walk.got)

(* A keyset walk lists every row the list shows throughout, and no row     *)
(* twice, whatever is inserted, committed, voided or deleted between its   *)
(* pages: "cursor pagination correct under concurrent inserts" (SPEC).     *)
KeysetListsEachOnce ==
  /\ Walked(KeysetList) => walk.steady \subseteq Listed
  /\ walk.list \in KeysetList => IsInjective(walk.got)

(* Rows of the recall report whose order is left open by its ORDER BY. *)
Tied ==
  /\ walk.list = "recall_report"
  /\ \E i, j \in RecallReport : i # j /\ row[i].closed = row[j].closed

(* An offset walk misses no row that stays.  Rows that come make it repeat *)
(* some; to make it miss one, a row has to leave the list and move the     *)
(* others up (a void, for the recall report; an archived product), or to   *)
(* come between a last page and its COUNT, so that the client stops early; *)
(* or a tie is sorted differently each time.                               *)
OffsetMissesNothing ==
  Walked(OffsetList) /\ ~walk.left /\ ~walk.stale /\ ~Tied =>
    walk.steady \subseteq Listed

(* Page by page or in one export, a list that nobody changes is the same:  *)
(* the same rows, in the same order.                                       *)
PagesMakeTheList ==
  walk.at = "done" /\ walk.writes = 0 /\ ~Tied =>
    walk.got \in Orders(walk.list, Shown(walk.list, walk.filter))

===============================================================================
