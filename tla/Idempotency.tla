----------------------------- MODULE Idempotency -----------------------------
(***************************************************************************)
(* The idempotent view decorator of apps/core/idempotency.py: attempts at  *)
(* one operation carry one Idempotency-Key, and run beside each other when *)
(* the client retries before it has its answer.                            *)
(*                                                                         *)
(* An attempt takes an advisory lock on its key in a transaction of its    *)
(* own, looks the key up, runs the view and records the answer.  The view  *)
(* commits its effect in another transaction, before the answer is         *)
(* recorded; the two transactions can fail apart.                          *)
(***************************************************************************)
EXTENDS Naturals, FiniteSets

CONSTANTS
  Attempt,   \* requests, retries among them
  Key,       \* the (owner_id, endpoint, Idempotency-Key) triples
  KindOf,    \* what running the view of a key again does
  Faulty,    \* attempts whose worker or database connections may fail
  NoKey, NoOne, NoAnswer

VARIABLES
  cache,    \* idempotency_keys: the recorded answer of each key
  lock,     \* the attempt holding the advisory lock of each key
  done,     \* how often the view of each key took effect
  pc,       \* where each attempt is
  key,      \* the key it carries
  answer    \* what its view, or the cache, answered

vars == <<cache, lock, done, pc, key, answer>>

-------------------------------------------------------------------------------

Answer == {"ok", "refused", "error"}

(* append: a write-off.  once: the commit of an order, the receipt of a    *)
(* purchase order or the creation of a batch, refused the second time.     *)
(* settle: a recall, un-recall or void, which finds nothing left to do.    *)
(* illegal: a request the database rejects with an error.                  *)
Kind == {"append", "once", "settle", "illegal"}

ASSUME KeyConstants ==
  /\ KindOf \in [Key -> Kind]
  /\ NoKey \notin Key
  /\ NoOne \notin Attempt
  /\ NoAnswer \notin Answer
  /\ Faulty \subseteq Attempt

(* What the view of k can do now: the executions it adds, its answer.  An  *)
(* "error" is a psycopg.Error that leaves the view.                        *)
Executes == [times |-> 1, says |-> "ok"]
Refuses == [times |-> 0, says |-> "refused"]
Raises == [times |-> 0, says |-> "error"]

(* What the view of an operation that took effect answers the next time. *)
SaysAgain == [once |-> "refused", settle |-> "ok"]

ViewResults(k) ==
  IF KindOf[k] = "illegal" THEN {Raises}
  ELSE IF KindOf[k] = "append" \/ done[k] = 0 THEN {Executes, Refuses}
  ELSE {[times |-> 0, says |-> SaysAgain[KindOf[k]]]}

Goto(a, label) == pc' = [pc EXCEPT ![a] = label]

HoldsLock(a) == lock[key[a]] = a

(* Faulty variant: a session-level lock, which outlives the transaction. *)
NotReleased(a) == lock

(* The end of the attempt's transaction releases the advisory lock. *)
Released(a) == [k \in Key |-> IF lock[k] = a THEN NoOne ELSE lock[k]]

-------------------------------------------------------------------------------
(* One attempt *)

Send(a) ==
  /\ pc[a] = "idle"
  /\ \E k \in Key : key' = [key EXCEPT ![a] = k]
  /\ Goto(a, "lock")
  /\ UNCHANGED <<cache, lock, done, answer>>

(* Faulty variant: nobody waits for the lock. *)
LockAtOnce(a) ==
  /\ pc[a] = "lock"
  /\ lock' = [lock EXCEPT ![key[a]] = a]
  /\ Goto(a, "lookup")
  /\ UNCHANGED <<cache, done, key, answer>>

(* pg_advisory_xact_lock *)
Lock(a) ==
  /\ pc[a] = "lock"
  /\ lock[key[a]] = NoOne
  /\ lock' = [lock EXCEPT ![key[a]] = a]
  /\ Goto(a, "lookup")
  /\ UNCHANGED <<cache, done, key, answer>>

(* cache_lookup, a statement after the lock: it sees what the last holder  *)
(* committed.                                                              *)
Hit(a) ==
  /\ pc[a] = "lookup" /\ HoldsLock(a)
  /\ cache[key[a]] # NoAnswer
  /\ answer' = [answer EXCEPT ![a] = cache[key[a]]]
  /\ lock' = Released(a)
  /\ Goto(a, "answered")
  /\ UNCHANGED <<cache, done, key>>

Miss(a) ==
  /\ pc[a] = "lookup" /\ HoldsLock(a)
  /\ cache[key[a]] = NoAnswer
  /\ Goto(a, "view")
  /\ UNCHANGED <<cache, lock, done, key, answer>>

(* The view answers, also with a refusal: a DomainError becomes a 4xx      *)
(* Response before the decorator sees it.                                  *)
RunView(a) ==
  /\ pc[a] = "view"
  /\ \E r \in ViewResults(key[a]) :
       /\ r.says # "error"
       /\ done' = [done EXCEPT ![key[a]] = @ + r.times]
       /\ answer' = [answer EXCEPT ![a] = r.says]
  /\ Goto(a, "insert")
  /\ UNCHANGED <<cache, lock, key>>

(* A psycopg.Error of the view itself lands in the decorator's handler,    *)
(* which takes it for a failure of the cache.                              *)
ViewRaises(a) ==
  /\ pc[a] = "view"
  /\ Raises \in ViewResults(key[a])
  /\ lock' = Released(a)
  /\ Goto(a, "fallback")
  /\ UNCHANGED <<cache, done, key, answer>>

(* Faulty variant: refusals are not recorded. *)
InsertOnlyOk(a) ==
  /\ pc[a] = "insert" /\ HoldsLock(a)
  /\ cache' = [cache EXCEPT ![key[a]] =
                 IF answer[a] = "ok" THEN answer[a] ELSE @]
  /\ lock' = Released(a)
  /\ Goto(a, "answered")
  /\ UNCHANGED <<done, key, answer>>

(* Faulty variant: the key is stored in place of the answer. *)
RecordedKey(k, said) == k

(* What INSERT ... ON CONFLICT DO NOTHING leaves in the row of k. *)
Recorded(k, said) == IF cache[k] = NoAnswer THEN said ELSE cache[k]

(* cache_insert and COMMIT *)
Insert(a) ==
  /\ pc[a] = "insert" /\ HoldsLock(a)
  /\ cache' = [cache EXCEPT ![key[a]] = Recorded(key[a], answer[a])]
  /\ lock' = Released(a)
  /\ Goto(a, "answered")
  /\ UNCHANGED <<done, key, answer>>

(* except psycopg.Error: the view again, without lock, lookup or record.   *)
(* An error of this run is the client's 500.                               *)
Fallback(a) ==
  /\ pc[a] = "fallback"
  /\ \E r \in ViewResults(key[a]) :
       /\ done' = [done EXCEPT ![key[a]] = @ + r.times]
       /\ answer' = [answer EXCEPT ![a] = r.says]
  /\ Goto(a, "answered")
  /\ UNCHANGED <<cache, lock, key>>

-------------------------------------------------------------------------------
(* Failures *)

Running(a) == pc[a] \in {"lock", "lookup", "view", "insert", "fallback"}

(* The decorator's connection breaks: PostgreSQL rolls its transaction     *)
(* back and releases the lock.  The attempt finds out at its next          *)
(* statement; until then its view runs on.                                 *)
ConnectionLost(a) ==
  /\ a \in Faulty
  /\ pc[a] \in {"lookup", "view", "insert"} /\ HoldsLock(a)
  /\ lock' = Released(a)
  /\ UNCHANGED <<cache, done, pc, key, answer>>

(* No connection to be had, or a statement on a broken one. *)
CacheDown(a) ==
  /\ \/ pc[a] = "lock" /\ a \in Faulty
     \/ pc[a] \in {"lookup", "insert"} /\ ~HoldsLock(a)
  /\ Goto(a, "fallback")
  /\ UNCHANGED <<cache, lock, done, key, answer>>

(* The answer is recorded, but the COMMIT is not acknowledged. *)
InsertUnacknowledged(a) ==
  /\ a \in Faulty
  /\ pc[a] = "insert" /\ HoldsLock(a)
  /\ cache' = [cache EXCEPT ![key[a]] = Recorded(key[a], answer[a])]
  /\ lock' = Released(a)
  /\ Goto(a, "fallback")
  /\ UNCHANGED <<done, key, answer>>

(* The view's own connection breaks, before its COMMIT or after it.        *)
ViewFails(a) ==
  /\ a \in Faulty
  /\ pc[a] \in {"view", "fallback"}
  /\ \E r \in ViewResults(key[a]) \cup {Raises} :
       done' = [done EXCEPT ![key[a]] = @ + r.times]
  /\ lock' = Released(a)
  /\ IF pc[a] = "view"
     THEN Goto(a, "fallback") /\ UNCHANGED answer
     ELSE Goto(a, "answered") /\ answer' = [answer EXCEPT ![a] = "error"]
  /\ UNCHANGED <<cache, key>>

(* The worker is killed.  A client that hears nothing retries. *)
Crash(a) ==
  /\ a \in Faulty /\ Running(a)
  /\ lock' = Released(a)
  /\ Goto(a, "dead")
  /\ UNCHANGED <<cache, done, key, answer>>

-------------------------------------------------------------------------------
(* Specification *)

Init ==
  /\ cache = [k \in Key |-> NoAnswer]
  /\ lock = [k \in Key |-> NoOne]
  /\ done = [k \in Key |-> 0]
  /\ pc = [a \in Attempt |-> "idle"]
  /\ key = [a \in Attempt |-> NoKey]
  /\ answer = [a \in Attempt |-> NoAnswer]

Step(a) ==
  \/ Lock(a) \/ Hit(a) \/ Miss(a) \/ RunView(a) \/ ViewRaises(a)
  \/ Insert(a) \/ Fallback(a) \/ CacheDown(a)

Fault(a) ==
  \/ ConnectionLost(a) \/ InsertUnacknowledged(a) \/ ViewFails(a) \/ Crash(a)

Finished == (\A a \in Attempt : pc[a] \in {"answered", "dead"}) /\ UNCHANGED vars

Next == (\E a \in Attempt : Send(a) \/ Step(a) \/ Fault(a)) \/ Finished

Spec == Init /\ [][Next]_vars

(* A worker runs on; PostgreSQL grants a free lock to an attempt that is   *)
(* waiting.  Sending and failing are up to the environment.                *)
FairSpec == Spec /\ \A a \in Attempt : WF_vars(Step(a))

-------------------------------------------------------------------------------
(* Properties *)

TypeOK ==
  /\ cache \in [Key -> Answer \cup {NoAnswer}]
  /\ lock \in [Key -> Attempt \cup {NoOne}]
  /\ done \in [Key -> Nat]
  /\ pc \in [Attempt -> {"idle", "lock", "lookup", "view", "insert",
                         "fallback", "answered", "dead"}]
  /\ key \in [Attempt -> Key \cup {NoKey}]
  /\ answer \in [Attempt -> Answer \cup {NoAnswer}]

(* No attempt that may fail has carried k. *)
Undisturbed(k) == \A a \in Faulty : key[a] # k

Answered(k) == {a \in Attempt : pc[a] = "answered" /\ key[a] = k}

(* However many retries of an operation run beside each other, and         *)
(* whatever fails elsewhere, the view takes effect once at most, as the    *)
(* decorator says, as long as none of the attempts themselves fails.       *)
ExecutedOnce == \A k \in Key : Undisturbed(k) => done[k] <= 1

(* And every retry gets the same answer. *)
OneAnswer ==
  \A k \in Key : Undisturbed(k) =>
    \A a, b \in Answered(k) : answer[a] = answer[b]

(* A write-off is executed once at most, retries and failures or not       *)
(* (SPEC 2.6: retry can't double-write-off).  Does not hold: the effect    *)
(* and the recorded answer are committed apart.                            *)
NeverTwice == \A k \in Key : done[k] <= 1

(* An attempt gets its answer unless its own worker dies, also when the    *)
(* attempt it waits for dies while it holds the lock.                      *)
AttemptAnswered ==
  \A a \in Attempt : Running(a) ~> pc[a] \in {"answered", "dead"}

===============================================================================
