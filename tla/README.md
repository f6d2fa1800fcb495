# Ilex Inventory Server: formal models

Ilex is the server of an inventory system for food and drink brands: Django REST
views over services that issue raw SQL (psycopg) to PostgreSQL. Everything that
makes it correct happens in database transactions that run beside each other:
gunicorn workers serve requests in parallel (`GUNICORN_WORKERS`, 3 by default),
every service call opens its own connection, and the transactions run at READ
COMMITTED, the default nobody changes. This project models those transactions,
checks them on small instances with TLC and proves the main results with TLAPS.

## Inventory of the system

Paths are under `src/backend/` unless they start with `src/`.

| Component | State | Operations | What makes it correct |
|---|---|---|---|
| sales orders (`apps/sales`) | `sales_orders`, `sales_order_lines`, `sale_allocations` | create, update, delete a draft; commit (FEFO or explicit allocations); void; preview | a committed order is allocated in full, once, and frozen; a void returns its stock once; no oversale, nothing recalled or expired is sold |
| inventory (`apps/inventory`) | `batches`, append-only `stock_movements`, view `v_stock_by_batch` | manual batch, receipt batches, metadata correction, write-off, adjustment, recall, un-recall | on hand is what the documents and manual movements account for; a write-off never overdraws; the recall flag and the ledger agree |
| procurement (`apps/procurement`) | `purchase_orders`, `purchase_order_lines` | create, update, delete a draft; receive | a receipt is complete, at most one for each line, and final |
| idempotency (`apps/core/idempotency.py`) | `idempotency_keys`, advisory locks | the decorator around write-offs, commits, voids, receipts, recalls and batch creation | a retried operation takes effect once and is answered alike |
| transactions (`apps/core/db.py`) | connections | connect, commit, rollback | no transaction outlives its request |
| PostgreSQL (external) | row locks, unique-index waits, advisory locks | grant, wait, release, deadlock detection | as documented by PostgreSQL |
| catalog (`apps/catalog`) | `products` | create, update, archive, delete, CSV import | a referenced product is not deleted; a bad CSV row loses only itself |
| pagination (`apps/core/pagination.py`, the lists of every app) | none; the client holds the cursor | keyset pages (sales orders, movements), offset pages with a COUNT (purchase orders, products, batches, recall report), exports | keyset pages neither skip nor repeat rows that stay; offset pages miss nothing while nothing leaves |
| financials (`apps/financials`) | view `v_margin_by_product` | dashboard, margin report by pages, export | the reports agree; a product is listed once |
| migrations (`migrate_sql`) | `_sql_migrations` | apply pending files in order | each file once, in order, also when several containers start, collide and fail |
| authentication (`apps/core/auth.py`) | `auth_user`, `django_session` | sign-up, login, logout, me | a browser is logged in only as an account that has its password |
| owner scope | `owner_id` in every query | `@scoped` | no row of another owner is read or written |
| serialization, CSV export, OpenAPI | none | formatting | outside the models |
| deployment (`src/scripts/entrypoint.sh`, `src/deploy/`) | containers | check_env, migrate, migrate_sql, gunicorn; restart | no container serves before its files are applied; every configured one comes to serve |

How they interact. A view validates the request and calls one service function.
Views that must not run twice are wrapped by the idempotency decorator, which
holds an advisory lock and its own transaction around the view; the view's
service commits in a second transaction. Sales calls inventory on its own
cursor (FEFO selection, inserted movements), and so does procurement (receipt
batches): an order and the ledger change in one transaction. Beyond that,
components meet only in the tables: sales and inventory on batch rows,
procurement and inventory on lines and batch codes, everything on foreign keys.
Lists and reports read what the others committed, in a statement per page. A
container serves requests when its entrypoint has run the migrations, and
containers meet in the database as well.

What is hard about it:

* Statements of READ COMMITTED transactions interleave. A `SELECT ... FOR
  UPDATE` re-evaluates a row that changed while it waited, but a sum over other
  tables computed before the wait stays as it was; a status read without a lock
  may be stale when the next statement writes.
* Foreign-key checks lock the referenced row FOR KEY SHARE. Several of the
  rules below hold only through these checks.
* Transactions lock rows in different orders, so deadlocks happen; a worker or
  connection may die between any two statements; a client retries while its
  first attempt is running.
* Two transactions take part in an idempotent request and can fail apart.
* A client reads a list over many requests while rows come, go and change.
* Containers of two releases start on one database, die and are restarted.

The full list, with lines, is `hazards` in `PROJECT.json`.

## Modules

| Module | Models | Composes |
|---|---|---|
| `RowLocks` | PostgreSQL's row locks: modes, conflicts, waiting, release, wait cycles (external) | |
| `SalesLedger` | sales orders, allocations, batch rows and the ledger | `RowLocks` |
| `Procurement` | purchase orders, their receipt, manual batches, batches that get another code | `RowLocks` |
| `Catalog` | products, CSV import, and the rows of others that refer to products | `RowLocks` |
| `Idempotency` | the decorator and its failures | |
| `OrderLifecycle` | abstract: what the life of an order promises, in single steps | |
| `SalesRefinement` | the mapping from `SalesLedger` to `OrderLifecycle` | both |
| `SalesHistory` | `SalesLedger` with a history variable: who committed while a transaction was open | `SalesRefinement` |
| `PurchaseLifecycle` | abstract: what the life of a purchase order promises, in single steps | |
| `PurchaseRefinement` | the mapping from `Procurement` to `PurchaseLifecycle` | both |
| `ProductCatalog` | abstract: what the catalog promises, in single steps | |
| `CatalogRefinement` | the mapping from `Catalog` to `ProductCatalog` | both |
| `Quantities` | adding up the quantities of rows | |
| `Lists` | one client's walk through one list while its table changes | |
| `Margin` | the financial reports, over the orders of `Lists` | `Lists` |
| `Migrations` | containers that boot: entrypoint and `migrate_sql` | |
| `Accounts` | sign-up, login, logout, me, with Django's users and sessions | |
| `Deployment` | visitors served by containers that boot and stop | `Migrations`, `Accounts` |
| `MCSalesLedger`, `MCSalesHistory`, `MCProcurement`, `MCCatalog`, `MCIdempotency`, `MCLists`, `MCDeployment` | constants of the runs | |
| `SalesLedger_proofs`, `SalesOrders_proofs`, `Procurement_proofs`, `Catalog_proofs`, `Idempotency_proofs`, `Deployment_proofs`, `Lists_proofs` | theorems | |
| `Quantities_proofs` | lemmas about totals | |

### How code becomes actions

In `SalesLedger`, `Procurement` and `Catalog` a transaction `t` serves one request
(`req[t]`). `pc[t]` is the statement it is at, or its outcome; each statement
that reads or locks rows is one action. A lock is part of the statement that
takes it: the action's guard is that no other transaction holds a conflicting
lock, and what the statement returns is read in the same step, that is after
the wait, except where the code's SQL reads before it waits. There the reading
is a step of its own: `FefoSelect` fixes the candidates and their `on_hand`,
`FefoTake` and `FefoPass` wait for one batch each and re-check only what
PostgreSQL re-checks, the columns of `batches`. `SelectLines` is likewise apart
from the deletion or locking of each line.

What a transaction writes stays in `mem[t]` and reaches the tables in the action
that commits (`CommitSale`, `CommitVoid`, `CommitUpdate`, `CommitDelete`,
`WriteBatch`, `CommitReceive`, `ManualBatch`, `RenameBatch`): under READ COMMITTED nobody else
sees it earlier. Every early return and every exception is an action that rolls
back (`OrderRefused`, `InsufficientStock`, `InvalidAllocation`, `NotDraft`,
`LinesReferenced`, ...). `Crash` rolls back at any statement;
`DeadlockVictim` rolls back a member of a cycle of waits. A rollback releases
every lock and forgets `mem[t]`. Creating a draft inserts rows under new ids
that nobody can name before the commit, so it is one action.

`batches.created_at` is the number of the batch; dates are small numbers.
`onHand` is the view, kept beside `movements` so that the two can be compared.
The rows a receipt inserts into `batches` and `stock_movements` are one record,
since every path inserts them together.

A value inserted into a unique index makes others who insert it wait until the
first transaction ends; `Procurement` (`CodeRow`) and `Catalog` (`SkuRow`) treat
the entry as a row locked FOR UPDATE.

An import of `Catalog` inserts one row of its file per step. `RowVictim` is the
`except Exception` around a row when the error is a detected deadlock: ROLLBACK TO
SAVEPOINT undoes that row only, so the import keeps its other rows, and the
index entries others wait for, and goes on. Inserting a batch or an order line is
two steps, the foreign-key check, which locks the product FOR KEY SHARE, and the
commit; deletion and archiving count batches in a step before they write.

`update_batch_metadata` changes a batch's date, its code, or both. `SalesLedger`
has the dates and the `metadata_correction` row of either change; of a request
that names a code (`names`) it leaves open whether that is a new one, and whether
it is taken (`CodeTaken`), since codes are in `Procurement`. There the request is
`rename`: it locks the batch (`LockBatch`), ends if the batch has the code already
(`CodeKept`), gives up its entry of the unique index (`UpdateBatch`) and enters the
other one, for which it may have to wait (`RenameBatch`, or `CodeInUse`, a unique
violation nobody catches).

`SalesHistory` adds `since[t]`, the transactions that committed while `t` was open.
With it a property can say what a stale read may be blamed for: a sale that
oversells does so beside a debit that was committed while the sale was under way.

`Idempotency` has one attempt per request. `Lock`, `Hit`/`Miss`, `RunView`,
`Insert` are the statements of `_run_with_idempotency`; `RunView` commits the
effect of the view, `Insert` the recorded answer. `ViewRaises` and `CacheDown`
lead to `Fallback`, as `except psycopg.Error` does: the view again, without
lock or record. What a view does when it runs again depends on the operation
(`Kind`): a write-off adds another movement, a commit is refused, a recall finds
nothing to do, a request that violates a CHECK raises again.

`OrderLifecycle` knows orders, what each has taken from each batch, and what the
batches have left. An order is created, committed, voided or deleted in one step;
a commit takes something, a void returns exactly that. In `SalesRefinement` an
order's state is its status and `voided_at`, what it has taken is the sum of its
allocations, and `onHand` is the view. Only the actions that commit change these,
so everything else a transaction does, its waits, its failures and its edits of
lines included, has to be a stutter.

`PurchaseLifecycle` knows the status of purchase orders, their lines and the batches
that have arrived. A draft is received in one step that brings a batch for each of
its lines, of the line's product and quantity; a batch may also be entered by
hand, and any batch given another code (`Recode`); no code is given twice to a
product. It lets an edit replace lines of a received
order, as the code does (run `received`), but none that has arrived.
`ProductCatalog` knows products, the archived ones, and what refers to them. An
import is one step in which products appear, none with a SKU that is taken; what
is deleted had no reference and was not archived, which no statement of
`delete_product` checks; what is archived has batches. In both refinements the
tables are mapped to themselves: what is abstracted is how they come to change.

`Lists` is one client. `walk` is its request and what it has been answered,
`row` the table it walks; all lists have the same shape, with what the filters,
cursors and ORDER BY refer to. A keyset page is one statement (`KeysetPage`), a
page of an offset list two (`Count`, `OffsetPage`), an export one. `Change` is the
commit of any other request between two statements: a row comes (with the
`created_at` of its transaction's start, so anywhere in the list), is closed,
voided, flagged or deleted. The recall report is sorted by a column with ties and
nothing else, so `LatestSales` is any of the orders PostgreSQL may return.
`Margin` adds the view over those orders and the three reports; the condition of
its cursor is where the SQL has it, before the rows are grouped. An order may have
sold a product for nothing, which is a row of the view with revenue 0; `NotSold` is
no row.

`Migrations` has a program counter for each container: the steps of
`entrypoint.sh` and, inside `migrate_sql`, the statements at which two runners
can meet. Before that, `manage.py migrate` reads what is applied (`DjangoPlan`) and
applies the rest, a transaction each (`DjangoApply`), the work of `post_migrate`
counted as the last; a container that finds one already committed by another fails
on the table or row that is there (`DjangoRace`), or alters a column to what it is
(`DjangoRepeat`). `AwaitTracker`, `TrackerRace` and `AppliedByAnother` are what
PostgreSQL does to the second runner: it waits for the first one's transaction,
and then its own statement violates a unique index and the command exits. `Fault`
stops a container at any step; what it had not committed is gone. `Accounts`
splits a request where Django commits: `exists()`, the INSERT of `create_user`,
the two writes of `login`. `Deployment` lets visitors send requests only to
containers that serve, and a stopped container answers none of its requests.

Definitions headed "Faulty variant" are not part of the models. Each is a bug
the code could have; put in place of the right definition it makes TLC refute
the property it belongs to (`mutants` in `PROJECT.json`), which shows that the
property depends on the code.

## Runs

All runs check for deadlock of the model; answered requests are the only way to
stop.

| Run | Instance | Shows |
|---|---|---|
| `stock` | 4 requests, 3 at once; 3 batches of 2 products, 2 orders | Among commits (both kinds), voids, write-offs, adjustments, recalls and date changes: the view agrees with the documents (`StockReconciles`), recall rows alternate (`RecallFlagMatchesLedger`), write-offs never overdraw (`WriteOffNeverOverdraws`), FEFO sells nothing recalled or expired (`FefoSellsOnlySellable`), locks cover what is being worked on (`BatchesHeld`) |
| `orders` | 3 requests, each may die; 3 orders, one created on the way | Commits, voids, edits, deletions, previews, an adjustment: `LinesFullyAllocated`, `LinesFollowOrder`, `LinesOfOneRequest`, `EachAllocationReversedOnce`, `CommittedFrozen`; and that all of it implements the abstract life cycle (`ImplementsLifecycle`) |
| `stale` | 3 requests at once on 3 batches of one product, two of which expire on one day and one never | What reads made stale can do, and no more: recalled or expired stock is sold only by a sale under way when that happened (`RecallBlocksLaterSales`), stock is overdrawn only by a sale beside another debit (`OverdrawnOnlyBesideADebit`), the batch that expires first is passed over only when it came back meanwhile (`SoonestFirstUnlessReplenished`), the customer of a committed order changes only by an edit under way at its commit (`HeaderChangesOnlyBesideCommit`) |
| `live` | 3 requests on one order of two products; two of the commits name allocations that are refused | `EveryRequestAnswered`: conflicting lock orders deadlock, are broken and end |
| `retries` | 3 attempts, one of which may fail; a key of each kind | `ExecutedOnce`, `OneAnswer` where no attempt at the key fails; `AttemptAnswered` always |
| `procure` | 3 requests, each may die; 2 orders, one created on the way; 2 batch codes, to which any batch may be renamed | `ReceivedByOneRequest`, `BatchesKeepTheirLine`; and that all of it implements the abstract life cycle of purchase orders (`ImplementsPurchases`), of which `LinesFollowOrder` and `ReceivedInFull` are part |
| `catalog` | 3 requests, one of which may die; two files that share SKUs in opposite orders, with a malformed, a repeated and an existing row | `ReferencesValid`, `ReportIsTrue`, `NoSkuLost`; that the transactions implement the abstract catalog (`ImplementsPromise`); `EveryRequestAnswered` |
| `lists` | every list and filter, pages of 1 and 2, 4 rows, 2 writes; the three financial reports over 3 products | `KeysetListsEachOnce`, `OffsetMissesNothing`, `PagesMakeTheList`, `ReportsAgree` |
| `deploy` | 3 containers of 2 releases, one without its environment, 1 failure beside the collisions; 2 visitors who want one e-mail | `MigratedOnceInOrder`, `AccountsTrue`, `ContainersServe` |
| `oversell` | 2 requests | refutes `DebitsStayWithinStock` |
| `received` | 3 requests | refutes `ReceivedFrozen` |
| `margin` | as `lists` | refutes `MarginListsProductOnce` |

`stock`, `retries`, `procure`, `catalog`, `lists` and `deploy` also check the type
invariant of their module.

### Where the code departs from its documentation

* **Overselling** (`oversell`). `list_eligible_for_fefo` locks batches with FOR
  UPDATE to prevent double allocation, but takes `on_hand` from the statement's
  snapshot. A commit that waited for another one's batch lock allocates stock the
  other has just sold: the other inserted movements and did not change the batch
  row, so nothing is re-evaluated.
* **Lines added to a received order** (`received`). Two edits that replace the
  lines select the same rows. The first commits, the order is received, and the
  second, which has nothing left to delete, inserts its lines.
* **A product listed again and again** (`margin`). The cursor of the margin
  report holds a product's summed revenue, and the next page compares it with the
  revenue of single orders. A product sold in several orders passes again, with
  its full sum, and the cursor never gets past it.

Five more were met on the way. No run is kept for them, since a passing run becomes
one with a line more:

* A recalled batch sold: "a recall blocks future sales of the batch", but an explicit
  allocation is checked on rows read without a lock; the recall commits before the
  sale does, and nothing looks at the flag again. `RecalledNotSold`, added to
  `stale.cfg`, is refuted; what holds is `RecallBlocksLaterSales`.
* The customer of a committed order edited: the draft check of an edit is made
  without a lock and its UPDATE has no status condition, so where the specification
  says 409 the edit is answered with 200. The lines are safe, because of the foreign
  key from the allocations. `CommittedHeaderFrozen`, added to `stale.cfg`, is
  refuted; what holds is `HeaderChangesOnlyBesideCommit`.
* A 500 for a duplicate sign-up: both sign-ups find the e-mail free, and nobody
  catches the IntegrityError of the second. `DuplicateIsConflict`, added to
  `deploy.cfg`, is refuted; what holds is `AccountsTrue`.
* A line received twice: receive compares sets of line ids, so a request that
  names a line twice passes. `LineReceivedOnce`, added to `procure.cfg`, is
  refuted; what holds is `ReceivedByOneRequest`.
* An operation executed twice: the effect and the recorded answer are committed
  apart, and a lost connection is taken for a failure of the cache. `NeverTwice`,
  added to `retries.cfg`, is refuted; what holds is `ExecutedOnce`.

The passing runs show how far each of these goes: stale reads do harm only beside the
transaction that made them stale (`stale`); even with overselling the
view and the documents agree, the order's life is that of `OrderLifecycle`, and
write-offs stay covered, since they lock the batch before they read `on_hand`;
recalls are never missed by FEFO; lines and allocations of a committed order stay
as they were, thanks to the foreign key from `sale_allocations`; a receipt is
complete at the moment it commits. A product's deletion counts batches without a
lock and does not look at lines; the foreign keys keep references valid, at the
price of an error the service does not catch (`StillReferenced`). An import that
loses a row to a deadlock reports it truthfully, and unless the other import dies
the SKU comes into the catalog from it. Two runners of the migrations collide
with an error, and the restart is what repairs it. An offset walk does miss rows
once a row leaves the list, once it stops at a COUNT that is out of date, or when
a tie is sorted differently each time; `OffsetMissesNothing` says that these are
all the ways.

### Bounds

* Requests. A defect of these transactions needs two or three of them: one that
  reads, one or two that change what was read. `stock` takes four so that a
  commit, a void and two operations on the batch meet.
* Data. Three batches give FEFO a choice, an order that needs two batches and a
  product without expiry date; quantities of 1 to 3 make orders fit exactly, fit
  partly, and not fit. `o1` has two lines of one product (they share a batch),
  `o2` a line of each product (locks in two orders). In `procure` lines of one
  product compete for two codes, so that codes clash within an order and
  between transactions.
* `MaxOpen` is the number of workers; `procure` has as many
  transactions as workers, and so does `catalog`. `MaxEntries` bounds the body of a receive request: two
  entries, so that after an edit to a single line a request can name it twice.
* Transactions are interchangeable and `Symmetric` permutes them in the safety
  runs. `live`, `retries`, `catalog` and `deploy` check liveness and use no symmetry.
* In `catalog` three requests suffice for a cycle of two imports with a third
  transaction that creates, deletes or refers; files of three and five rows make
  the cycle and each kind of failing row.
* In `lists` four rows, one of them still to come, make a list of up to four
  pages; two are of one transaction and differ only in their id. `MaxWrites = 2`
  lets a row leave and another one come between the same two pages. `MaxPages`
  ends the walk of a client whom the margin report gives no last page.
* In `deploy` the two releases differ by a file, so that a container can find
  its files partly applied by another release, and Django has two steps, so that
  one can find its plan partly applied. `MaxFaults = 1` is a lost connection or a
  killed process; the exits of runners that collide come on top of it. Two visitors
  are enough for a race of two sign-ups.

### Fairness

`FairSpec` of `SalesLedger` assumes weak fairness of each transaction's
statements, since gunicorn's workers are processes the system schedules, and of
`DeadlockVictim`, since PostgreSQL looks for cycles after `deadlock_timeout`;
that of `Catalog` the same (`RowVictim` is a statement of the import). In
`Idempotency` it assumes that an attempt that can go on does. In `Deployment` a
container that is set up takes its steps and is started again when it has exited: the
compose file says `restart: unless-stopped`. Nobody has to launch it, and nobody has
to send a request. No crash has to happen. Lock queues need no fairness of their own: each
request runs once, so there are finitely many holders to wait for.

## Proofs

`tlapm` checks every proof to its leaves. The theorems hold for any sets of
transactions, orders, batches, products and requests (`SalesConstants`,
`RequestFields`), of attempts and keys (`KeyConstants`), and of containers,
releases, failures, visitors and emails (`MigrationConstants`,
`AccountConstants`, `ServersAreContainers`); batches are assumed
to be a finite set of numbers, in the order of their creation, with positive
receipts.

`SalesLedger_proofs`:

* `TypeCorrect`: `Spec => []TypeOK`.
* `BatchesAlwaysHeld`: `Spec => []BatchesHeld`. No two transactions hold a row in
  conflicting modes; a FEFO plan holds its batches FOR UPDATE and they are still
  sellable; inserted movements hold theirs FOR KEY SHARE; a write-off at its
  insert holds the batch and still fits.
* `FefoSafe`: a FEFO sale never commits stock that is recalled or expired at that
  moment.
* `WriteOffSafe`: a write-off never leaves a batch below zero.

None of these is inductive alone. `BatchesHeld` says what is locked but not
which operation is at which statement, and the lock that protects a write-off is
of use only if nobody changes `onHand` without a conflicting lock. The inductive
invariant is

    IInv == TypeOK /\ LocksCompatible /\ \A t \in Tx : TxInv(t)

where `TxInv(t)` collects the parts of `BatchesHeld` for `t` and
`AtOwnStatement(t)`, which ties the statement to the operation. The argument is
local: `FrameLemma` shows that a step of one transaction that keeps the tables
and its own locks keeps `TxInv` of every other one; `MoveLemma`, `FinishLemma`
and `RollbackLemma` do so for the three shapes a step can have; then there is one
lemma for each action (`FefoTakeStep`, `InsertSaleStep`, `WriteBatchStep`, ...).
The two interesting ones are `PostLemma`, where movements reach `onHand` only
under FOR KEY SHARE locks, which exclude a write-off's FOR UPDATE, and
`WriteBatchStep`, where a recall or date change under FOR UPDATE excludes every
FEFO plan that holds the batch.

`SalesOrders_proofs`:

* `FullyAllocated` (`LinesFullyAllocated`), `OrdersKeepLines` (`LinesFollowOrder`),
  `EditsNotMerged` (`LinesOfOneRequest`), `ReversedOnce`
  (`EachAllocationReversedOnce`), `StockAddsUp` (`StockReconciles`),
  `RecallFlagKept` (`RecallFlagMatchesLedger`) and `CommittedStays`
  (`CommittedFrozen`).

What the tables hold is true only because of what transactions between two
statements know and hold, so the inductive invariant, beside `IInv`, is

    OInv == TablesOK /\ \A t \in Tx : TxOrder(t)

`TablesOK` are those properties together with `RowsCommitted` (rows of the ledger
are of transactions that have been answered, and refer to allocations that
exist). `TxOrder(t)` says of a transaction: whose header it holds, and that the
order is still what it was when it was locked (`OrderOwned`: a commit's order is a
draft, a void's is committed and not voided); that the plan of a commit covers
each line of the order, the line being walked up to what is still needed
(`PlanCovers`); that what it has inserted is held by its foreign keys
(`PlanNumbered`) and sums up to its pending movements (`PendingAddsUp`); that a
void has the allocations of its order reversed or still before it (`OwedOrPaid`);
that the lines an edit deletes are held, and past the check of the foreign keys
not referred to (`LinesLost`); and that a recall still changes the flag
(`RecallPending`). TLC checked `OInv` on the constants of `orders` and `stock`.

`PassiveLemma` says what a transaction relies on while another one writes
(`Undisturbed`); steps that write nothing leave it alone (`PrivateStep`), and
there is a lemma for each of the six actions that write. The arguments that
matter: two transactions do not own one order (`OneOwner`); the lines an edit or
a deletion removes are those of a draft, although neither looks at the status
under its lock, because each line of a committed order has an allocation and the
foreign key would have refused (`LostOfDraft`); and an allocation never refers to
a line another transaction is deleting, because KEY SHARE and FOR UPDATE exclude
each other (in `CommitSaleOrder`).

Of this comes the refinement, `TransactionsImplementLifecycle`: `Spec =>
ImplementsLifecycle`. `DocumentWriters` names the actions that change what the
mapping sees; each of them maps to one step of `OrderLifecycle` (`CommitMaps`,
`VoidMaps`, ...), or to none: an edit, and the second of two deletions. A commit
takes something because an order has a line, its quantity is positive and the
plan covers it; a void returns what `SoldBy` shows because a void's pending
movements are the sums over all allocations of its order.

The last part of the module is about `HistorySpec`, with any number of transactions
at once:

* `RecallBlocksSales` (`RecallBlocksLaterSales`), `OverdrawnBesideADebit`
  (`OverdrawnOnlyBesideADebit`), `SoonestSoldFirst` (`SoonestFirstUnlessReplenished`)
  and `HeaderStays` (`HeaderChangesOnlyBesideCommit`).

These are about the rules that the code keeps by reading first and writing later,
and that concurrent requests break (run `oversell`, and the refuted properties above). The
theorems say beside what they break: never by a sequence of requests, however long,
a crash between two of them, or anything that was answered before the sale or the
edit began. Their invariant, inductive beside `IInv` and `OInv`
(`StaleOnlyWhereDisturbed`), is `PastInv`. It says that `since` has answered
transactions only; that `batch_usage` adds up to what is planned (`UsageAddsUp`);
and, of a transaction that is open, that what it has read stands but for what was
committed meanwhile (`Stands`): its plan fits what is on hand and sellable, unless
the batch was drawn on or withdrawn (`PlanStands`); a walk's candidates are all the
eligible batches but those it has emptied, up to what was replenished or redated
(`WalkStands`), so that when it takes from one those that expire sooner are used up
(`SoonestFirst`); a draft an edit has looked at is one unless it was committed
(`DraftStands`). The rows of the ledger stay, so what was done meanwhile stays done
(`KeptLemma`), and each step of a transaction either keeps what stands for the
others or is a commit that enters their `since` (`Advances`).

`Quantities_proofs` has what these need of sums. `SumFunctionOnSet` and `TotalQty`
fold a set in the order CHOOSE takes its elements. `SumAdd` (one element more adds
its value), `SumUnion`, `SumMonotone`, `SumReindexed` (adding up along an
enumeration), and `TotalAdd` and `TotalUnion` for the quantities of rows, are
proved for every finite set by an induction in set form: a set of subsets of S that has {} and is closed under adding an element has all of
them (`SubsetInduction`, from the library's well-foundedness of strict inclusion).

`Procurement_proofs`:

* `TypeCorrect`, `ReceivedTraceable` (`BatchesKeepTheirLine`), `ReceivedOnce`
  (`ReceivedByOneRequest`), `OrdersHaveLines` (`LinesFollowOrder`) and
  `ReceiptsComplete` (`ReceivedInFull`). The strengthening says of a transaction
  that the lines it has locked are there and held (`LinesHeld`); that who holds
  the header of a draft FOR UPDATE has all its lines to deal with (`DraftOwned`);
  that a receipt has one batch or more for each entry so far (`ReceiptOK`); and
  that an edit holds the order it inserts lines for, and deletes no line that has
  a batch (`EditOK`). `ReceivedFrozen` is false (run `received`) and nothing here
  needs it.
* `CodesUnique`: `Spec => []CodeInv`. An INSERT looks for its batch code among
  committed rows only, so that no two batches of a product have one code rests on
  the waits at the unique index. Beside `IInv`, `CodeInv` says (`NewAlone`) that the
  batches a receipt has inserted and not committed hold their codes FOR UPDATE
  and are the only ones with them, in the table and in the transaction, and that
  each has the product and the quantity of its line. Whoever commits a batch
  meanwhile has held its code (`HeldBlocks`), so the two codes differ; a renamed
  batch enters its new code under the same wait. TLC checked `CodeInv` on the
  constants of `procure`.
* `TransactionsImplementPurchases` (`ImplementsPurchases`). `TableWriters` names the
  actions that change orders, lines or batches; each maps to one step of
  `PurchaseLifecycle` or, as an edit of the header alone, to none (`StepMaps`).
  A receipt maps to `Receive` because of `CodeInv` and because who holds the
  header has all its lines (`DraftOwned`).

`Idempotency_proofs`:

* `TypeCorrect`, `ExactlyOnce` (`ExecutedOnce`) and `SameAnswer` (`OneAnswer`).
  `OneAnswer` is not inductive, because it says nothing of the attempt between
  its view and its record. The strengthening says of every key that no failing
  attempt carries: it has been executed only if its answer is recorded or the
  holder of its lock is about to record it, and every answer given is the
  recorded one.

`Deployment_proofs`:

* `TypeCorrect`, `MigrationsSafe` (`MigratedOnceInOrder`) and `AccountsSafe`
  (`AccountsTrue`). Of Django's steps the strengthening (`RunnerOK`) says that a plan,
  made when others had applied fewer, misses none that is left (`StepsLeft`), so
  that a runner is through with its plan only when all are in effect. That files are recorded in order says nothing of a runner
  whose list of files was read before others recorded theirs. `RunnerOK` says that the list misses no file that is still to be applied, so
  that its first file is never beyond the one that is due; if it is before that
  one it is recorded, and the runner exits; otherwise it is the due one, and since
  two runners do not execute the same file, only one executes at all
  (`OneExecutes`). `AccountsTrue` needs that a request between its statements
  has shown the password of the account it is about to log in (`CallOK`).

`Catalog_proofs`:

* `TypeCorrect`, `NoReferenceDangles` (`ReferencesValid`),
  `ImportsReportTheTruth` (`ReportIsTrue`) and `ImportsLoseNothing`
  (`NoSkuLost`). The strengthening adds, for every
  transaction, that it is at a statement of its operation; that one about to
  commit a reference holds its product in KEY SHARE mode and the product is
  there (`TargetHeld`), which no DELETE under FOR UPDATE can change; that what
  an import has inserted are its rows so far without the ones it reports
  (`ImportOK`); and that a product's creator has ended (`CreatedByAnswered`), so
  an import finds none of its own products before its COMMIT.
  `ImportsLoseNothing` has an invariant of its own, `SkuInv`: the SKU of each row an
  import has dealt with is in the catalog, or inserted by an import that has not
  ended, because who keeps a SKU from others has inserted it (`SkuLocksMine`).
  A row lost to a deadlock is safe too: the victim waits in a cycle, and who it
  waits for keeps what it has.
* `CatalogKept`: `Spec => []CatalogInv`. No two products have one SKU, and what an
  import has inserted so far has its SKU alone and locked (`MineAlone`), through
  all savepoints and victims; what is archived has a batch (`ArchivedHaveBatches`),
  which stays, since batches are not deleted, and the statement that archives
  comes after one that saw it. TLC checked `CatalogInv` on the constants of `catalog`.
* `TransactionsImplementCatalog` (`ImplementsPromise`). Of the actions that change
  the tables (`TableWriters`), deletion is the one that needs an argument: its count
  of batches is out of date when it deletes, and nothing there looks at
  `archived_at`; the foreign keys refuse a product that has references, and an
  archived one has.

`Lists_proofs`, for every table, list, filter, page size and number of writes:

* `KeysetWalks` (`KeysetListsEachOnce`), `OffsetWalks` (`OffsetMissesNothing`) and
  `PagesAreTheList` (`PagesMakeTheList`). The inductive invariant is `ListInv`. Of
  a keyset walk it says (`KeysetOK`) that what is listed is sorted and not below the
  cursor, and what stays and is not listed is below it; rows inserted above the
  cursor change neither. Of an offset walk (`OffsetOK`): while no row leaves the
  list, a row that stays and is not listed has at least `offset` rows ahead of
  it, since what is ahead of it stays ahead (`KeptAhead`) and a row's place in
  a sorted page is the number of rows ahead of it (`Place`). Of a list nobody has
  written to (`UnchangedOK`): what is listed is a prefix of the one way to sort it
  (`SortedOnce`, and `FetchMore`: a page after a prefix makes a longer prefix).
  TLC checked `ListInv` on the constants of `lists`. That rows can be sorted at all,
  so that `Newest` is what its definition says, is `SortedExists`, again by
  `SubsetInduction`.
* `ListsTyped` (`TypeOK` of `Margin`) and `ReportsTellOneStory` (`ReportsAgree`), for
  every set of products, whatever each order sold of them, and every range of dates.
  The inductive invariant, beside `ListInv`, is `ReportInv`. The pages of a margin
  report have, in order, the products that are not below their cursor (`PagesOK`):
  where each product is sold in one order, a group earns what its sale does
  (`OneSaleGroups`), and the cursor's condition divides the groups as it divides
  the sales (`CursorDivides`), which is what the code relies on and what the run
  `margin` refutes for other products. The dashboard's top products are some of the
  rows whose revenues add up to its totals (`DashboardOK`, from `GroupsAddUp`: the
  groups of any set of sales add up to the sales). TLC checked `ReportInv` on the
  constants of `lists`. What is said of sorted sequences (`OrderSorts`,
  `OrderOnce`, `OrderJoins`, `FirstPage`) is stated once, for any strict order, and
  used for rows of a list and for rows of a report.

Only model-checked: liveness (`EveryRequestAnswered`, `AttemptAnswered`,
`ContainersServe`), since fairness and ENABLED are not within reach of the prover.
Every invariant and every action property of the passing runs is a theorem.
Induction over data is out of reach where it needs the library's induction
theorems, which take an operator; for totals the set form above replaces it.

## What is not modelled

* Owners. Every query is restricted to one `owner_id`, so each model is one
  owner's data.
* Quantities as NUMERIC(14, 4). Numbers are whole and unbounded. Percentages and
  costs of the margin report.
* The text of requests and answers: serializers, base64 of cursors, CSV, OpenAPI,
  the wording of problems. Cursors are those the server gave,
  so the errors that a malformed decimal cursor raises and nobody catches are left
  out. What a product's
  name or unit is, and the text of a CSV file: a row of an imported file is its
  SKU, or malformed.
* What a migration does to the schema: a file is its number, and so is one of
  Django's migrations.
* Lists with several filters at once: a list has one filter at a time, and its
  filters are conjuncts of one WHERE.
* Sessions, password hashing and CSRF are Django's; a session does not expire.
* Health checks and logging, which change nothing.
* Which codes batches of `SalesLedger` have, and which dates those of `Procurement`;
  a PATCH of both is two requests, one in each.
* Liveness of `Procurement`, whose run needs symmetry; one idempotency key used
  for two operations; the answer to a deletion that found nothing to delete.

## Plan

1. `SalesLedger`, `OrderLifecycle`, `SalesRefinement`: done, with proofs of all
   that holds of concurrent requests, the refinement included, and of what
   their stale reads can do (`SalesHistory`).
2. `Idempotency`, `Deployment` with `Migrations` and `Accounts`, `Catalog` with
   `ProductCatalog`: done, with proofs of all their safety properties, the
   refinement included.
3. `Procurement` with `PurchaseLifecycle`: done, with proofs of all its safety
   properties but the refuted ones, the refinement included.
4. `Lists` and `Margin`: done, with proofs of their properties.
