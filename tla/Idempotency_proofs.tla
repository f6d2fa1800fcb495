-------------------------- MODULE Idempotency_proofs --------------------------
(***************************************************************************)
(* Proofs about the idempotent decorator: for any number of attempts and   *)
(* keys, an operation none of whose attempts fails takes effect once at    *)
(* most and is answered the same way every time.                           *)
(***************************************************************************)
EXTENDS Idempotency, TLAPS

(* An attempt works for one key from the moment it is sent, and holds no   *)
(* other key's lock.                                                       *)
KeysOK ==
  /\ \A a \in Attempt : pc[a] # "idle" => key[a] \in Key
  /\ \A a \in Attempt : pc[a] = "idle" => key[a] = NoKey
  /\ \A k \in Key, a \in Attempt : lock[k] = a => key[a] = k

(* What holds of the attempts at an undisturbed key: inside the protected  *)
(* part they hold the lock and nothing is recorded yet; outside it they    *)
(* have the recorded answer, or the error of a request that always fails.  *)
AttemptsOK(k) ==
  \A a \in Attempt : key[a] = k =>
    /\ pc[a] \in {"lookup", "view", "insert"} => lock[k] = a
    /\ pc[a] = "view" => cache[k] = NoAnswer /\ done[k] = 0
    /\ pc[a] = "insert" => /\ cache[k] = NoAnswer
                           /\ KindOf[k] # "illegal"
                           /\ answer[a] \in Answer
    /\ pc[a] = "fallback" => KindOf[k] = "illegal"
    /\ pc[a] = "answered" =>
         IF KindOf[k] = "illegal" THEN answer[a] = "error"
         ELSE cache[k] # NoAnswer /\ answer[a] = cache[k]

(* An effect is recorded, or its attempt is about to record it. *)
EffectOK(k) ==
  /\ KindOf[k] = "illegal" => done[k] = 0 /\ cache[k] = NoAnswer
  /\ done[k] <= 1
  /\ done[k] = 1 => \/ cache[k] # NoAnswer
                    \/ \E a \in Attempt : key[a] = k /\ pc[a] = "insert"

Protected == \A k \in Key : Undisturbed(k) => AttemptsOK(k) /\ EffectOK(k)

IInv == TypeOK /\ KeysOK /\ Protected

-------------------------------------------------------------------------------

(* A view takes effect once or not at all, and raises only what is illegal *)
(* as long as it has not taken effect before.                              *)
LEMMA ViewResultsType ==
  ASSUME NEW k \in Key, NEW r \in ViewResults(k)
  PROVE  /\ r.times \in {0, 1}
         /\ r.says \in Answer
         /\ KindOf[k] = "illegal" => r = Raises
         /\ KindOf[k] # "illegal" /\ done[k] = 0 => r \in {Executes, Refuses}
<1>1. CASE KindOf[k] = "illegal"
  BY <1>1 DEF ViewResults, Raises, Answer
<1>2. CASE KindOf[k] # "illegal" /\ (KindOf[k] = "append" \/ done[k] = 0)
  BY <1>2 DEF ViewResults, Executes, Refuses, Answer
<1>3. CASE KindOf[k] \in {"once", "settle"} /\ done[k] # 0
  BY <1>3 DEF ViewResults, SaysAgain, Answer
<1> QED
  BY <1>1, <1>2, <1>3, KeyConstants DEF Kind

LEMMA RaisesOnlyIllegal ==
  ASSUME NEW k \in Key, Raises \in ViewResults(k), done[k] = 0
  PROVE  KindOf[k] = "illegal"
<1>1. Raises # Executes /\ Raises # Refuses
  BY DEF Raises, Executes, Refuses
<1> QED
  BY <1>1, ViewResultsType

LEMMA InitIInv == Init => IInv
BY KeyConstants
DEF Init, IInv, TypeOK, KeysOK, Protected, Undisturbed, AttemptsOK, EffectOK, Answer

LEMMA SendStep ==
  ASSUME IInv, NEW a \in Attempt, Send(a)
  PROVE  IInv'
<1>1. PICK k0 \in Key : key' = [key EXCEPT ![a] = k0]
  BY DEF Send
<1>2. TypeOK' /\ KeysOK'
  BY <1>1, KeyConstants DEF Send, Goto, IInv, TypeOK, KeysOK
<1>3. ASSUME NEW k \in Key, Undisturbed(k)' PROVE AttemptsOK(k)' /\ EffectOK(k)'
  <2>1. AttemptsOK(k) /\ EffectOK(k)
    BY <1>1, <1>3, KeyConstants DEF Send, IInv, KeysOK, TypeOK, Protected, Undisturbed
  <2>2. AttemptsOK(k)'
    BY <1>1, <2>1 DEF Send, Goto, IInv, TypeOK, AttemptsOK
  <2>3. EffectOK(k)'
    BY <1>1, <2>1 DEF Send, Goto, IInv, TypeOK, KeysOK, EffectOK
  <2> QED
    BY <2>2, <2>3
<1> QED
  BY <1>2, <1>3 DEF IInv, Protected

(* What every other step of an attempt leaves alone: the keys, the other   *)
(* attempts, and everything about the other keys.                          *)
Local(a) ==
  /\ key' = key
  /\ \A b \in Attempt \ {a} : pc'[b] = pc[b] /\ answer'[b] = answer[b]
  /\ \A k \in Key \ {key[a]} :
       cache'[k] = cache[k] /\ done'[k] = done[k] /\ lock'[k] = lock[k]

(* So only its own key has to be looked at, and only if it is undisturbed. *)
LEMMA LocalStep ==
  ASSUME IInv, NEW a \in Attempt, NEW k0 \in Key, key[a] = k0,
         Local(a), TypeOK', KeysOK',
         Undisturbed(k0) => AttemptsOK(k0)' /\ EffectOK(k0)'
  PROVE  IInv'
<1>1. ASSUME NEW k \in Key \ {k0}, Undisturbed(k) PROVE AttemptsOK(k)' /\ EffectOK(k)'
  <2>1. AttemptsOK(k) /\ EffectOK(k)
    BY <1>1 DEF IInv, Protected
  <2>2. \A b \in Attempt : key[b] = k => b # a
    OBVIOUS
  <2>3. AttemptsOK(k)'
    BY <2>1, <2>2 DEF Local, AttemptsOK
  <2>4. EffectOK(k)'
    BY <2>1, <2>2 DEF Local, EffectOK
  <2> QED
    BY <2>3, <2>4
<1>2. \A k \in Key : Undisturbed(k)' <=> Undisturbed(k)
  BY DEF Undisturbed, Local
<1>3. ASSUME NEW k \in Key, Undisturbed(k) PROVE AttemptsOK(k)' /\ EffectOK(k)'
  BY <1>1, <1>3
<1> QED
  BY <1>2, <1>3 DEF IInv, Protected

(* An attempt that may fail disturbs its key.                              *)
LEMMA FaultStep ==
  ASSUME IInv, NEW a \in Attempt, a \in Faulty, NEW k0 \in Key, key[a] = k0,
         Local(a), TypeOK', KeysOK'
  PROVE  IInv'
<1>1. ~Undisturbed(k0)
  BY DEF Undisturbed
<1> QED
  BY <1>1, LocalStep

LEMMA ReleasedType ==
  ASSUME IInv, NEW a \in Attempt, key[a] \in Key
  PROVE  /\ Released(a) \in [Key -> Attempt \cup {NoOne}]
         /\ \A k \in Key \ {key[a]} : Released(a)[k] = lock[k]
         /\ \A k \in Key, b \in Attempt : Released(a)[k] = b => lock[k] = b
BY KeyConstants DEF Released, IInv, TypeOK, KeysOK

LEMMA LockStep ==
  ASSUME IInv, NEW a \in Attempt, Lock(a)
  PROVE  IInv'
<1>1. PICK k \in Key : key[a] = k
  BY DEF IInv, KeysOK, Lock
<1>2. TypeOK'
  BY <1>1 DEF Lock, Goto, IInv, TypeOK
<1>3. KeysOK'
  BY <1>1, KeyConstants DEF Lock, Goto, IInv, TypeOK, KeysOK
<1>4. Local(a)
  BY <1>1 DEF Lock, Goto, IInv, TypeOK, Local
<1>5. ASSUME Undisturbed(k)
       PROVE  AttemptsOK(k)' /\ EffectOK(k)'
  <2>1. AttemptsOK(k) /\ EffectOK(k)
    BY <1>1, <1>5 DEF IInv, Protected
  <2>2. AttemptsOK(k)'
    BY <1>1, <2>1, <1>5, KeyConstants
    DEF Lock, Goto, IInv, TypeOK, AttemptsOK, Answer, Undisturbed
  <2>3. EffectOK(k)'
    BY <1>1, <2>1, <1>5, KeyConstants
    DEF Lock, Goto, IInv, TypeOK, AttemptsOK, EffectOK, Answer, Undisturbed
  <2> QED
    BY <2>2, <2>3
<1> QED
  BY <1>1, <1>2, <1>3, <1>4, <1>5, LocalStep

LEMMA HitStep ==
  ASSUME IInv, NEW a \in Attempt, Hit(a)
  PROVE  IInv'
<1>1. PICK k \in Key : key[a] = k
  BY DEF IInv, KeysOK, Hit
<1>2. TypeOK'
  BY <1>1, ReleasedType DEF Hit, HoldsLock, Goto, IInv, TypeOK
<1>3. KeysOK'
  BY <1>1, ReleasedType, KeyConstants DEF Hit, HoldsLock, Goto, IInv, TypeOK, KeysOK
<1>4. Local(a)
  BY <1>1, ReleasedType DEF Hit, HoldsLock, Goto, IInv, TypeOK, Local
<1>5. ASSUME Undisturbed(k)
       PROVE  AttemptsOK(k)' /\ EffectOK(k)'
  <2>1. AttemptsOK(k) /\ EffectOK(k)
    BY <1>1, <1>5 DEF IInv, Protected
  <2>2. AttemptsOK(k)'
    BY <1>1, ReleasedType, <2>1, <1>5, KeyConstants
    DEF Hit, HoldsLock, Goto, IInv, TypeOK, AttemptsOK, EffectOK, Answer, Undisturbed
  <2>3. EffectOK(k)'
    BY <1>1, ReleasedType, <2>1, <1>5, KeyConstants
    DEF Hit, HoldsLock, Goto, IInv, TypeOK, AttemptsOK, EffectOK, Answer, Undisturbed
  <2> QED
    BY <2>2, <2>3
<1> QED
  BY <1>1, <1>2, <1>3, <1>4, <1>5, LocalStep

LEMMA MissStep ==
  ASSUME IInv, NEW a \in Attempt, Miss(a)
  PROVE  IInv'
<1>1. PICK k \in Key : key[a] = k
  BY DEF IInv, KeysOK, Miss
<1>2. TypeOK'
  BY <1>1 DEF Miss, HoldsLock, Goto, IInv, TypeOK
<1>3. KeysOK'
  BY <1>1, KeyConstants DEF Miss, HoldsLock, Goto, IInv, TypeOK, KeysOK
<1>4. Local(a)
  BY <1>1 DEF Miss, HoldsLock, Goto, IInv, TypeOK, Local
<1>5. ASSUME Undisturbed(k)
       PROVE  AttemptsOK(k)' /\ EffectOK(k)'
  <2>1. AttemptsOK(k) /\ EffectOK(k)
    BY <1>1, <1>5 DEF IInv, Protected
  <2>2. AttemptsOK(k)'
    BY <1>1, <2>1, <1>5, KeyConstants
    DEF Miss, HoldsLock, Goto, IInv, TypeOK, AttemptsOK, EffectOK, Answer, Undisturbed
  <2>3. EffectOK(k)'
    BY <1>1, <2>1, <1>5, KeyConstants
    DEF Miss, HoldsLock, Goto, IInv, TypeOK, AttemptsOK, EffectOK, Answer, Undisturbed
  <2> QED
    BY <2>2, <2>3
<1> QED
  BY <1>1, <1>2, <1>3, <1>4, <1>5, LocalStep

LEMMA RunViewStep ==
  ASSUME IInv, NEW a \in Attempt, RunView(a)
  PROVE  IInv'
<1>1. PICK k \in Key : key[a] = k
  BY DEF IInv, KeysOK, RunView
<1>2. PICK r \in ViewResults(key[a]) :
        /\ r.says # "error"
        /\ done' = [done EXCEPT ![key[a]] = @ + r.times]
        /\ answer' = [answer EXCEPT ![a] = r.says]
  BY DEF RunView
<1>3. /\ r.times \in {0, 1}
      /\ r.says \in Answer
      /\ KindOf[key[a]] # "illegal"
  BY <1>1, <1>2, ViewResultsType DEF Raises
<1>4. TypeOK'
  BY <1>1, <1>2, <1>3 DEF RunView, Goto, IInv, TypeOK
<1>5. KeysOK'
  BY <1>1, <1>2, <1>3, KeyConstants DEF RunView, Goto, IInv, TypeOK, KeysOK
<1>6. Local(a)
  BY <1>1, <1>2, <1>3 DEF RunView, Goto, IInv, TypeOK, Local
<1>7. ASSUME Undisturbed(k)
       PROVE  AttemptsOK(k)' /\ EffectOK(k)'
  <2>1. AttemptsOK(k) /\ EffectOK(k)
    BY <1>1, <1>7 DEF IInv, Protected
  <2>2. AttemptsOK(k)'
    BY <1>1, <1>2, <1>3, <2>1, <1>7, KeyConstants
    DEF RunView, Goto, IInv, TypeOK, AttemptsOK, Answer, Undisturbed
  <2>3. EffectOK(k)'
    BY <1>1, <1>2, <1>3, <2>1, <1>7, KeyConstants
    DEF RunView, Goto, IInv, TypeOK, AttemptsOK, EffectOK, Answer, Undisturbed
  <2> QED
    BY <2>2, <2>3
<1> QED
  BY <1>1, <1>4, <1>5, <1>6, <1>7, LocalStep

LEMMA ViewRaisesStep ==
  ASSUME IInv, NEW a \in Attempt, ViewRaises(a)
  PROVE  IInv'
<1>1. PICK k \in Key : key[a] = k
  BY DEF IInv, KeysOK, ViewRaises
<1>2. done[key[a]] = 0 => KindOf[key[a]] = "illegal"
  BY <1>1, RaisesOnlyIllegal DEF ViewRaises
<1>3. TypeOK'
  BY <1>1, ReleasedType, <1>2 DEF ViewRaises, Goto, IInv, TypeOK
<1>4. KeysOK'
  BY <1>1, ReleasedType, <1>2, KeyConstants DEF ViewRaises, Goto, IInv, TypeOK, KeysOK
<1>5. Local(a)
  BY <1>1, ReleasedType, <1>2 DEF ViewRaises, Goto, IInv, TypeOK, Local
<1>6. ASSUME Undisturbed(k)
       PROVE  AttemptsOK(k)' /\ EffectOK(k)'
  <2>1. AttemptsOK(k) /\ EffectOK(k)
    BY <1>1, <1>6 DEF IInv, Protected
  <2>2. AttemptsOK(k)'
    BY <1>1, ReleasedType, <1>2, <2>1, <1>6, KeyConstants
    DEF ViewRaises, Goto, IInv, TypeOK, AttemptsOK, Answer, Undisturbed
  <2>3. EffectOK(k)'
    BY <1>1, ReleasedType, <1>2, <2>1, <1>6, KeyConstants
    DEF ViewRaises, Goto, IInv, TypeOK, AttemptsOK, EffectOK, Answer, Undisturbed
  <2> QED
    BY <2>2, <2>3
<1> QED
  BY <1>1, <1>3, <1>4, <1>5, <1>6, LocalStep

LEMMA InsertStep ==
  ASSUME IInv, NEW a \in Attempt, Insert(a)
  PROVE  IInv'
<1>1. PICK k \in Key : key[a] = k
  BY DEF IInv, KeysOK, Insert
<1>2. TypeOK'
  BY <1>1, ReleasedType DEF Insert, HoldsLock, Recorded, Goto, IInv, TypeOK
<1>3. KeysOK'
  BY <1>1, ReleasedType, KeyConstants
  DEF Insert, HoldsLock, Recorded, Goto, IInv, TypeOK, KeysOK
<1>4. Local(a)
  BY <1>1, ReleasedType DEF Insert, HoldsLock, Recorded, Goto, IInv, TypeOK, Local
<1>5. ASSUME Undisturbed(k)
       PROVE  AttemptsOK(k)' /\ EffectOK(k)'
  <2>1. AttemptsOK(k) /\ EffectOK(k)
    BY <1>1, <1>5 DEF IInv, Protected
  <2>2. AttemptsOK(k)'
    BY <1>1, ReleasedType, <2>1, <1>5, KeyConstants
    DEF Insert, HoldsLock, Recorded, Goto, IInv, TypeOK, AttemptsOK, Answer, Undisturbed
  <2>3. EffectOK(k)'
    BY <1>1, ReleasedType, <2>1, <1>5, KeyConstants
    DEF Insert, HoldsLock, Recorded, Goto, IInv, TypeOK, AttemptsOK, EffectOK, Answer, Undisturbed
  <2> QED
    BY <2>2, <2>3
<1> QED
  BY <1>1, <1>2, <1>3, <1>4, <1>5, LocalStep

LEMMA FallbackStep ==
  ASSUME IInv, NEW a \in Attempt, Fallback(a)
  PROVE  IInv'
<1>1. PICK k \in Key : key[a] = k
  BY DEF IInv, KeysOK, Fallback
<1>2. PICK r \in ViewResults(key[a]) :
        /\ done' = [done EXCEPT ![key[a]] = @ + r.times]
        /\ answer' = [answer EXCEPT ![a] = r.says]
  BY DEF Fallback
<1>3. /\ r.times \in {0, 1}
      /\ r.says \in Answer
      /\ KindOf[key[a]] = "illegal" => r.times = 0 /\ r.says = "error"
  BY <1>1, <1>2, ViewResultsType DEF Raises
<1>4. TypeOK'
  BY <1>1, <1>2, <1>3 DEF Fallback, Goto, IInv, TypeOK
<1>5. KeysOK'
  BY <1>1, <1>2, <1>3, KeyConstants DEF Fallback, Goto, IInv, TypeOK, KeysOK
<1>6. Local(a)
  BY <1>1, <1>2, <1>3 DEF Fallback, Goto, IInv, TypeOK, Local
<1>7. ASSUME Undisturbed(k)
       PROVE  AttemptsOK(k)' /\ EffectOK(k)'
  <2>1. AttemptsOK(k) /\ EffectOK(k)
    BY <1>1, <1>7 DEF IInv, Protected
  <2>2. AttemptsOK(k)'
    BY <1>1, <1>2, <1>3, <2>1, <1>7, KeyConstants
    DEF Fallback, Goto, IInv, TypeOK, AttemptsOK, Answer, Undisturbed
  <2>3. EffectOK(k)'
    BY <1>1, <1>2, <1>3, <2>1, <1>7, KeyConstants
    DEF Fallback, Goto, IInv, TypeOK, AttemptsOK, EffectOK, Answer, Undisturbed
  <2> QED
    BY <2>2, <2>3
<1> QED
  BY <1>1, <1>4, <1>5, <1>6, <1>7, LocalStep

LEMMA CacheDownStep ==
  ASSUME IInv, NEW a \in Attempt, CacheDown(a)
  PROVE  IInv'
<1>1. PICK k \in Key : key[a] = k
  BY DEF IInv, KeysOK, CacheDown
<1>2. TypeOK'
  BY <1>1 DEF CacheDown, HoldsLock, Goto, IInv, TypeOK
<1>3. KeysOK'
  BY <1>1, KeyConstants DEF CacheDown, HoldsLock, Goto, IInv, TypeOK, KeysOK
<1>4. Local(a)
  BY <1>1 DEF CacheDown, HoldsLock, Goto, IInv, TypeOK, Local
<1>5. ASSUME Undisturbed(k)
       PROVE  AttemptsOK(k)' /\ EffectOK(k)'
  <2>1. AttemptsOK(k) /\ EffectOK(k)
    BY <1>1, <1>5 DEF IInv, Protected
  <2>2. AttemptsOK(k)'
    BY <1>1, <2>1, <1>5, KeyConstants
    DEF CacheDown, HoldsLock, Goto, IInv, TypeOK, AttemptsOK, Answer, Undisturbed
  <2>3. EffectOK(k)'
    BY <1>1, <2>1, <1>5, KeyConstants
    DEF CacheDown, HoldsLock, Goto, IInv, TypeOK, AttemptsOK, EffectOK, Answer, Undisturbed
  <2> QED
    BY <2>2, <2>3
<1> QED
  BY <1>1, <1>2, <1>3, <1>4, <1>5, LocalStep

LEMMA ConnectionLostStep ==
  ASSUME IInv, NEW a \in Attempt, ConnectionLost(a)
  PROVE  IInv'
<1>1. PICK k \in Key : key[a] = k
  BY DEF IInv, KeysOK, ConnectionLost
<1>2. TypeOK'
  BY <1>1, ReleasedType DEF ConnectionLost, HoldsLock, Goto, IInv, TypeOK
<1>3. KeysOK'
  BY <1>1, ReleasedType, KeyConstants
  DEF ConnectionLost, HoldsLock, Goto, IInv, TypeOK, KeysOK
<1>4. Local(a)
  BY <1>1, ReleasedType DEF ConnectionLost, HoldsLock, Goto, IInv, TypeOK, Local
<1> QED
  BY <1>1, <1>2, <1>3, <1>4, FaultStep DEF ConnectionLost

LEMMA InsertUnacknowledgedStep ==
  ASSUME IInv, NEW a \in Attempt, InsertUnacknowledged(a)
  PROVE  IInv'
<1>1. PICK k \in Key : key[a] = k
  BY DEF IInv, KeysOK, InsertUnacknowledged
<1>2. TypeOK'
  BY <1>1, ReleasedType
  DEF InsertUnacknowledged, HoldsLock, Recorded, Goto, IInv, TypeOK
<1>3. KeysOK'
  BY <1>1, ReleasedType, KeyConstants
  DEF InsertUnacknowledged, HoldsLock, Recorded, Goto, IInv, TypeOK, KeysOK
<1>4. Local(a)
  BY <1>1, ReleasedType
  DEF InsertUnacknowledged, HoldsLock, Recorded, Goto, IInv, TypeOK, Local
<1> QED
  BY <1>1, <1>2, <1>3, <1>4, FaultStep DEF InsertUnacknowledged

LEMMA ViewFailsStep ==
  ASSUME IInv, NEW a \in Attempt, ViewFails(a)
  PROVE  IInv'
<1>1. PICK k \in Key : key[a] = k
  BY DEF IInv, KeysOK, ViewFails
<1>2. PICK r \in ViewResults(key[a]) \cup {Raises} :
        done' = [done EXCEPT ![key[a]] = @ + r.times]
  BY DEF ViewFails
<1>3. r.times \in {0, 1}
  BY <1>1, <1>2, ViewResultsType DEF Raises
<1>4. pc' \in {[pc EXCEPT ![a] = "fallback"], [pc EXCEPT ![a] = "answered"]}
  BY DEF ViewFails, Goto
<1>5. answer' \in {answer, [answer EXCEPT ![a] = "error"]}
  BY DEF ViewFails
<1>6. "error" \in Answer
  BY DEF Answer
<1>7. TypeOK'
  BY <1>1, ReleasedType, <1>2, <1>3, <1>4, <1>5, <1>6 DEF ViewFails, IInv, TypeOK
<1>8. KeysOK'
  BY <1>1, ReleasedType, <1>2, <1>3, <1>4, <1>5, <1>6, KeyConstants
  DEF ViewFails, IInv, TypeOK, KeysOK
<1>9. Local(a)
  BY <1>1, ReleasedType, <1>2, <1>3, <1>4, <1>5, <1>6 DEF ViewFails, IInv, TypeOK, Local
<1> QED
  BY <1>1, <1>7, <1>8, <1>9, FaultStep DEF ViewFails

LEMMA CrashStep ==
  ASSUME IInv, NEW a \in Attempt, Crash(a)
  PROVE  IInv'
<1>1. PICK k \in Key : key[a] = k
  BY DEF IInv, KeysOK, Crash, Running
<1>2. TypeOK'
  BY <1>1, ReleasedType DEF Crash, Goto, IInv, TypeOK
<1>3. KeysOK'
  BY <1>1, ReleasedType, KeyConstants DEF Crash, Goto, IInv, TypeOK, KeysOK
<1>4. Local(a)
  BY <1>1, ReleasedType DEF Crash, Goto, IInv, TypeOK, Local
<1> QED
  BY <1>1, <1>2, <1>3, <1>4, FaultStep DEF Crash

-------------------------------------------------------------------------------

LEMMA NextIInv == IInv /\ [Next]_vars => IInv'
<1> SUFFICES ASSUME IInv, [Next]_vars PROVE IInv'
  OBVIOUS
<1>1. ASSUME NEW a \in Attempt, Send(a) \/ Step(a) PROVE IInv'
  BY <1>1, SendStep, LockStep, HitStep, MissStep, RunViewStep, ViewRaisesStep,
     InsertStep, FallbackStep, CacheDownStep
  DEF Step
<1>2. ASSUME NEW a \in Attempt, Fault(a) PROVE IInv'
  BY <1>2, ConnectionLostStep, InsertUnacknowledgedStep, ViewFailsStep, CrashStep
  DEF Fault
<1>3. ASSUME UNCHANGED vars PROVE IInv'
  BY <1>3
  DEF vars, IInv, TypeOK, KeysOK, Protected, Undisturbed, AttemptsOK, EffectOK
<1> QED
  BY <1>1, <1>2, <1>3 DEF Next, Finished

LEMMA Inductive == Spec => []IInv
<1>1. IInv /\ [Next]_vars => IInv'
  BY NextIInv
<1> QED
  BY <1>1, InitIInv, PTL DEF Spec

(* Every variable keeps its type. *)
THEOREM TypeCorrect == Spec => []TypeOK
<1>1. IInv => TypeOK
  BY DEF IInv
<1> QED
  BY <1>1, Inductive, PTL

(* The view of a key takes effect once at most as long as none of the      *)
(* attempts that carry it fails, however many there are and whatever runs  *)
(* or fails beside them.                                                   *)
THEOREM ExactlyOnce == Spec => []ExecutedOnce
<1>1. IInv => ExecutedOnce
  BY DEF IInv, Protected, EffectOK, ExecutedOnce
<1> QED
  BY <1>1, Inductive, PTL

(* All attempts at an undisturbed key are answered alike. *)
THEOREM SameAnswer == Spec => []OneAnswer
<1>1. ASSUME IInv, NEW k \in Key, Undisturbed(k),
             NEW a \in Answered(k), NEW b \in Answered(k)
      PROVE  answer[a] = answer[b]
  BY <1>1 DEF IInv, Protected, AttemptsOK, Answered
<1>2. IInv => OneAnswer
  BY <1>1 DEF OneAnswer
<1> QED
  BY <1>2, Inductive, PTL

===============================================================================
