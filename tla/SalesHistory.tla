---------------------------- MODULE SalesHistory -----------------------------
(***************************************************************************)
(* SalesLedger with a history variable: since[t] holds the transactions    *)
(* that committed while t was open.  It is what a claim about stale reads  *)
(* needs.  A sale or an edit decides on what it read before it wrote; the  *)
(* properties below say that only a transaction that committed in between  *)
(* can make the decision wrong, whatever runs beside it, and name which    *)
(* change it must have made.  What a request does that nobody disturbs is  *)
(* the special case in which since[t] is empty.                            *)
(***************************************************************************)
EXTENDS SalesRefinement

VARIABLE since

historyVars == <<vars, since>>

-------------------------------------------------------------------------------
(* History *)

Commits(u) == pc[u] # "ok" /\ pc'[u] = "ok"

Remember ==
  since' = [t \in Tx |->
              since[t] \cup {u \in Tx \ {t} : Open(t) /\ Commits(u)}]

HistoryInit == Init /\ since = [t \in Tx |-> {}]

HistoryNext == Next /\ Remember

HistorySpec == HistoryInit /\ [][HistoryNext]_historyVars

(* The rows of the ledger that were committed for a batch while t was open.*)
Meanwhile(t, b) == {m \in movements : m.batch = b /\ m.tx \in since[t]}

(* The batch was recalled, or its date (or code) corrected; *)
Withdrawn(t, b) ==
  \E m \in Meanwhile(t, b) : m.kind \in {"recall_block", "metadata_correction"}

(* the recall was lifted, the date corrected, or stock returned; *)
Replenished(t, b) ==
  \E m \in Meanwhile(t, b) :
    m.kind \in {"recall_unblock", "metadata_correction"} \/ m.qty > 0

Corrected(t, b) ==
  \E m \in Meanwhile(t, b) : m.kind = "metadata_correction"

(* stock was taken. *)
Drawn(t, b) == \E m \in Meanwhile(t, b) : m.qty < 0

CommittedMeanwhile(t, o) ==
  \E u \in since[t] : req[u].op \in CommitOp /\ req[u].order = o

-------------------------------------------------------------------------------
(* Properties *)

(* D9, a recall blocks later sales.  A batch that is sold although it is   *)
(* recalled or expired was withdrawn while the sale was under way: a sale  *)
(* that begins after the recall was answered never sells it, explicit      *)
(* allocations included, which are checked without a lock                  *)
(* (_check_batch_eligible_for_line).                                       *)
RecallBlocksLaterSales ==
  [][\A a \in allocations' \ allocations :
       Sellable(a.batch) \/ Withdrawn(a.tx, a.batch)]_historyVars

(* Who may take a batch below zero: a sale beside another debit of the     *)
(* batch that it could not see, because on_hand is as selected, before the *)
(* wait for the row.  Neither the lines of one order together nor a sale   *)
(* that begins after the debit was answered, and no write-off at all       *)
(* (_fefo_walk, _track_per_batch_usage, record_movement).                  *)
OverdrawnOnlyBesideADebit ==
  [][\A m \in movements' \ movements :
       m.kind \in {"sale", "write_off"} /\ onHand'[m.batch] < 0 =>
         m.kind = "sale" /\ Drawn(m.tx, m.batch)]_historyVars

(* First expired, first out: when a FEFO sale takes from a batch, every    *)
(* sellable batch of the product that expires sooner, or as soon and is    *)
(* older, is used up, unless it became so or was returned to, or the batch *)
(* taken from was given another date, while the sale was under way.        *)
SoonestFirstUnlessReplenished ==
  [][\A a \in allocations' \ allocations :
       req[a.tx].op = "commit_fefo" =>
         \A b \in Batch :
           /\ ProductOf[b] = ProductOf[a.batch]
           /\ Sellable(b)
           /\ Before(b, a.batch)
           => \/ onHand'[b] <= 0
              \/ Replenished(a.tx, b) \/ Corrected(a.tx, a.batch)]_historyVars

(* D6 for the header: customer_name and customer_contact of a committed    *)
(* order change only through an update that was under way when the order   *)
(* was committed, its draft check being made without a lock; an update     *)
(* that begins later is refused (update_sales_order_draft).                *)
HeaderChangesOnlyBesideCommit ==
  [][\A o \in Order :
       order[o].status = "committed" /\ order'[o].header # order[o].header =>
         \E t \in Tx : /\ Commits(t)
                       /\ req[t].op = "update" /\ req[t].order = o
                       /\ CommittedMeanwhile(t, o)]_historyVars

===============================================================================
