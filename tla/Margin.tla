------------------------------- MODULE Margin --------------------------------
(***************************************************************************)
(* The financial reports: margin by product, in pages or as one export,    *)
(* and the dashboard, over the orders that Lists has in its table.  The    *)
(* view v_margin_by_product has a row for each product of each order; the  *)
(* reports add them up by product.  Units and costs are added up as the    *)
(* revenue is and are left out.                                            *)
(***************************************************************************)
EXTENDS Lists

CONSTANTS
  Product,      \* numbered as their UUIDs are ordered
  Revenue,      \* what each order sold each product for, in all; 0 for a gift
  NotSold,      \* or that it did not sell it
  From, To,     \* date_from, and the day after date_to
  MaxPages      \* pages a client asks for before it gives up (bound)

VARIABLE report \* the client of a report

marginVars == <<row, walk, report>>

ASSUME MarginConstants ==
  /\ Product \subseteq Nat /\ IsFiniteSet(Product)
  /\ NotSold \notin Nat
  /\ Revenue \in [Id -> [Product -> Nat \cup {NotSold}]]
  /\ From \in Nat /\ To \in Nat
  /\ MaxPages \in Nat
  /\ "sales_orders" \in List
  /\ NoCursor \notin Nat \X Product

-------------------------------------------------------------------------------
(* v_margin_by_product and the statements that read it *)

RevenueOf(v) == Revenue[v.order][v.product]

Sale == {v \in [order : Id, product : Product] : RevenueOf(v) # NotSold}

(* Faulty variant: a voided sale counts. *)
MarginViewWithVoided == {v \in Sale : row[v.order].status = "closed"}

MarginView ==
  {v \in Sale : row[v.order].status = "closed" /\ ~row[v.order].flag}

(* Faulty variant: the day after date_to is included. *)
InRangeInclusive(S) ==
  {v \in S : row[v.order].closed >= From /\ row[v.order].closed <= To}

(* committed_at >= date_from AND committed_at < date_to_exclusive *)
InRange(S) == {v \in S : row[v.order].closed >= From /\ row[v.order].closed < To}

Total(S) == MapThenSumSet(RevenueOf, S)

MarginRow == [product : Product, revenue : Nat]

Rank(m) == <<m.revenue, m.product>>

(* GROUP BY product *)
Groups(S) ==
  {[product |-> p, revenue |-> Total({v \in S : v.product = p})] :
     p \in {v.product : v \in S}}

(* ORDER BY revenue DESC, product_id DESC *)
ByProduct(S) ==
  CHOOSE s \in SetToSeqs(Groups(S)) :
    \A i, j \in DOMAIN s : i < j => Below(Rank(s[j]), Rank(s[i]))

(* Faulty variant: the cursor is compared with the row it names as well.   *)
MarginFromCursor(S) ==
  {v \in S : report.cursor # NoCursor =>
     \/ Below(<<RevenueOf(v), v.product>>, report.cursor)
     \/ <<RevenueOf(v), v.product>> = report.cursor}

(* The cursor's condition is in WHERE: it meets the rows of the view, each *)
(* of one order, before they are grouped.                                  *)
MarginAfterCursor(S) ==
  {v \in S : report.cursor # NoCursor =>
               Below(<<RevenueOf(v), v.product>>, report.cursor)}

-------------------------------------------------------------------------------
(* Requests *)

Report == [kind : {"pages", "export", "dashboard"}, limit : PageSize,
           at : {"idle", "page", "export", "totals", "top", "done"},
           cursor : (Nat \X Product) \cup {NoCursor},
           total : Nat, got : Seq(MarginRow), pages : Nat,
           writes : Nat,     \* orders committed or voided since the request
           since : Nat]      \* and since the totals of a dashboard

(* Faulty variant: the parts of the cursor are swapped. *)
SwappedCursor(rows) ==
  IF Len(rows) > report.limit
  THEN <<rows[report.limit].product, rows[report.limit].revenue>> ELSE NoCursor

(* encode_decimal_cursor of the last row of the page. *)
MarginCursor(rows) ==
  IF Len(rows) > report.limit THEN Rank(rows[report.limit]) ELSE NoCursor

ListMargin ==
  LET rows == Fetch(ByProduct(MarginAfterCursor(InRange(MarginView))),
                    0, report.limit + 1)
  IN /\ report.at = "page"
     /\ report' = [report EXCEPT
          !.got = @ \o Fetch(rows, 0, report.limit),
          !.cursor = MarginCursor(rows),
          !.pages = @ + 1,
          !.at = IF MarginCursor(rows) = NoCursor \/ report.pages + 1 = MaxPages
                 THEN "done" ELSE "page"]
     /\ UNCHANGED listVars

StreamMargin ==
  /\ report.at = "export"
  /\ report' = [report EXCEPT !.got = ByProduct(InRange(MarginView)), !.at = "done"]
  /\ UNCHANGED listVars

(* The dashboard: its totals in one statement, *)
DashboardTotals ==
  /\ report.at = "totals"
  /\ report' = [report EXCEPT !.total = Total(InRange(MarginView)),
                              !.at = "top", !.since = 0]
  /\ UNCHANGED listVars

(* its top products in the next. *)
DashboardTop ==
  /\ report.at = "top"
  /\ report' = [report EXCEPT
       !.got = Fetch(ByProduct(InRange(MarginView)), 0, report.limit), !.at = "done"]
  /\ UNCHANGED listVars

SaleChange ==
  /\ report.at \notin {"idle", "done"} /\ report.writes < MaxWrites
  /\ \E i \in Id : Close(i) \/ VoidOrder(i)
  /\ report' = [report EXCEPT !.writes = @ + 1, !.since = @ + 1]
  /\ UNCHANGED walk

-------------------------------------------------------------------------------
(* Specification: one client, with a list or with a report *)

MarginRequest(kind, n) ==
  [kind |-> kind, limit |-> n, cursor |-> NoCursor, total |-> 0, got |-> <<>>,
   pages |-> 0, writes |-> 0, since |-> 0,
   at |-> CASE kind = "pages" -> "page" [] kind = "export" -> "export"
            [] kind = "dashboard" -> "totals"]

Init ==
  \/ /\ ListInit
     /\ report = [MarginRequest("pages", Min(PageSize)) EXCEPT !.at = "idle"]
  \/ /\ row \in InitialRows
     /\ walk = FirstRequest("sales_orders", "all", Min(PageSize), "idle")
     /\ \E kind \in {"pages", "export", "dashboard"}, n \in PageSize :
          report = MarginRequest(kind, n)

(* The client has what it asked for. *)
Answered == (walk.at = "done" \/ report.at = "done") /\ UNCHANGED marginVars

Next ==
  \/ (Read \/ Change) /\ UNCHANGED report
  \/ ListMargin \/ StreamMargin \/ DashboardTotals \/ DashboardTop
  \/ SaleChange
  \/ Answered

Spec == Init /\ [][Next]_marginVars

-------------------------------------------------------------------------------
(* Properties *)

TypeOK == WalkOK /\ report \in Report

(* The range sells no product in two orders. *)
SoldOnce ==
  \A v, w \in InRange(MarginView) : v.product = w.product => v = w

Paged == report.kind = "pages" /\ report.at = "done" /\ report.cursor = NoCursor

(* The three reports tell one story.  As long as no sale comes or goes,    *)
(* the pages make the export, for products sold in one order each; and the *)
(* dashboard's products earn no more than its totals say, exactly as much  *)
(* when all are there (list_margin_by_product, dashboard_for_owner).  An   *)
(* order voided between two statements is in one and not in the other.     *)
ReportsAgree ==
  /\ Paged /\ report.writes = 0 /\ SoldOnce =>
       report.got = ByProduct(InRange(MarginView))
  /\ report.kind = "dashboard" /\ report.at = "done" /\ report.since = 0 =>
       LET sum == FoldSeq(LAMBDA m, n : m.revenue + n, 0, report.got) IN
       /\ sum <= report.total
       /\ Len(report.got) < report.limit => sum = report.total

(* For products sold in several orders as well, the pages, "aggregated per *)
(* product", name each product once (select_margin_by_product).            *)
MarginListsProductOnce ==
  report.kind = "pages" /\ report.writes = 0 =>
    \A i, j \in DOMAIN report.got :
      report.got[i].product = report.got[j].product => i = j

===============================================================================
