------------------------------- MODULE RowLocks -------------------------------
(***************************************************************************)
(* The row locks of PostgreSQL, as the services under src/backend/apps use *)
(* them: SELECT ... FOR UPDATE, the locks UPDATE and DELETE take, and the  *)
(* KEY SHARE lock a foreign-key check takes on the referenced row.  A lock *)
(* is kept until its transaction commits or rolls back.  This is external  *)
(* code, modelled from its documented behaviour as the services rely on it.*)
(***************************************************************************)
EXTENDS Naturals, FiniteSets

CONSTANTS
  Tx,     \* the database transactions, one for each request served
  Row     \* the rows that can be locked

VARIABLE locks   \* the set of granted locks

-------------------------------------------------------------------------------

(* FOR UPDATE: SELECT ... FOR UPDATE and DELETE.  NO KEY UPDATE: an UPDATE *)
(* that touches no column of a unique index.  KEY SHARE: a foreign-key     *)
(* check on the referenced row.                                            *)
Mode == {"FOR UPDATE", "NO KEY UPDATE", "KEY SHARE"}

Lock == [tx : Tx, row : Row, mode : Mode]

Conflicts(m, n) ==
  \/ "FOR UPDATE" \in {m, n}
  \/ m = "NO KEY UPDATE" /\ n = "NO KEY UPDATE"

(* The transactions whose locks keep t from locking row r in mode m. *)
Blockers(t, r, m) ==
  {l.tx : l \in {k \in locks : k.row = r /\ k.tx # t /\ Conflicts(k.mode, m)}}

CanLock(t, r, m) == Blockers(t, r, m) = {}

Holds(t, r, m) == [tx |-> t, row |-> r, mode |-> m] \in locks

(* t is granted the rows of R in mode m; it waits while another            *)
(* transaction holds a conflicting lock on one of them.                    *)
AcquireAll(t, R, m) ==
  /\ \A r \in R : CanLock(t, r, m)
  /\ locks' = locks \cup {[tx |-> t, row |-> r, mode |-> m] : r \in R}

Acquire(t, r, m) == AcquireAll(t, {r}, m)

(* COMMIT and ROLLBACK release every lock of the transaction. *)
ReleaseAll(t) == locks' = {l \in locks : l.tx # t}

(* The transactions t waits for, directly or through others: they are in   *)
(* every set that contains the direct blockers of t and is closed under    *)
(* waiting.  WaitsFor maps each transaction to its direct blockers.        *)
InWaitCycle(t, WaitsFor) ==
  \A C \in SUBSET Tx :
    (WaitsFor[t] \subseteq C /\ \A u \in C : WaitsFor[u] \subseteq C) => t \in C

(* No two transactions ever hold conflicting locks on one row. *)
LocksCompatible ==
  \A k, l \in locks :
    k.row = l.row /\ k.tx # l.tx => ~Conflicts(k.mode, l.mode)

===============================================================================
