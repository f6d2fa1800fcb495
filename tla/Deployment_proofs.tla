-------------------------- MODULE Deployment_proofs --------------------------
(***************************************************************************)
(* Proofs about containers that boot beside each other and the visitors    *)
(* they serve, for any number of containers, releases, failures, visitors  *)
(* and emails: the SQL files are applied once, in order, before anyone     *)
(* serves them, and accounts belong to whom they were created for.         *)
(***************************************************************************)
EXTENDS Deployment, WellFoundedInduction, TLAPS

(* Steps of the migrations, and of the visitors' requests. *)
ContainerStep(c) == Launch(c) \/ Boot(c) \/ Fault(c)

VisitorStep == \/ \E v \in Visitor : Serve(v) \/ \E c \in Container : Send(v, c)
               \/ \E c \in Container : LoseCalls(c)

(* What holds of one runner.  Its plan and its list of files was read once and may name *)
(* files that others have applied since, but it misses none that is still  *)
(* to be applied; so the first file on it is at most the one that is due,  *)
(* and the file it executes is exactly that one.                           *)
RunnerOK(c) ==
  /\ phase[c] \in {"apply", "commit"} =>
       /\ pending[c] # {} /\ pending[c] \subseteq 1..Files[c]
       /\ (1..Files[c]) \ recorded \subseteq pending[c]
  /\ phase[c] = "commit" =>
       executing[c] = Len(schema) + 1 /\ executing[c] \in pending[c]
  /\ phase[c] # "commit" => executing[c] = 0
  /\ phase[c] \notin {"new", "check_env", "exited"} => c \in Configured
  /\ phase[c] = "django" =>
       /\ pending[c] # {} /\ pending[c] \subseteq 1..DjangoSteps
       /\ (django + 1)..DjangoSteps \subseteq pending[c]
  /\ phase[c] \notin {"new", "check_env", "exited", "migrate", "django"} =>
       django = DjangoSteps

(* The due file is executed by one runner at a time. *)
OneExecutes ==
  \A c, d \in Container : phase[c] = "commit" /\ phase[d] = "commit" => c = d

MigrationInv ==
  /\ MigrationsOK /\ MigratedOnceInOrder /\ OneExecutes
  /\ \A c \in Container : RunnerOK(c)

(* What holds of one visitor's request between its statements: who is      *)
(* about to be logged in has the password of the account.                  *)
CallOK(v) ==
  call[v] # Nobody =>
    /\ call[v].at \in {"login", "save"} => account[call[v].email] = v
    /\ call[v].at = "session" => call[v].op \in {"logout", "me"}

AccountInv == AccountsOK /\ AccountsTrue /\ \A v \in Visitor : CallOK(v)

-------------------------------------------------------------------------------
(* Migrations *)

(* A list of files that is not empty has a first one. *)
LEMMA FirstFile ==
  ASSUME NEW S \in SUBSET Nat, S # {}
  PROVE  Min(S) \in S /\ \A f \in S : Min(S) <= f
<1>1. PICK m \in S : \A f \in S : <<f, m>> \notin OpToRel(<, Nat)
  BY NatLessThanWellFounded, WFMin
<1>2. \A f \in S : ~ (f < m)
  BY <1>1 DEF OpToRel
<1>3. \A f \in S : m <= f
  BY <1>2
<1> QED
  BY <1>3 DEF Min

(* What is left of n steps after m of them, and after k or more. *)
LEMMA StepsLeft ==
  ASSUME NEW n \in Nat, NEW m \in 0..n, NEW k \in 0..n, m <= k
  PROVE  /\ (k + 1)..n \subseteq (m + 1)..n /\ (m + 1)..n \subseteq 1..n
         /\ (m + 1)..n = {} => m = n
         /\ m = n => k = n
<1>1. m < n => n \in (m + 1)..n
  OBVIOUS
<1> QED
  BY <1>1

(* A step of one container that applies nothing and lets no other one move *)
(* keeps the invariant if it keeps the container's own part.               *)
LEMMA QuietStep ==
  ASSUME MigrationInv, MigrationsOK', NEW c \in Container,
         UNCHANGED <<recorded, schema>>, django <= django',
         \A d \in Container \ {c} : /\ phase'[d] = phase[d]
                                    /\ pending'[d] = pending[d]
                                    /\ executing'[d] = executing[d],
         RunnerOK(c)',
         phase'[c] = "serving" => phase[c] = "serving" \/ 1..Files[c] \subseteq recorded,
         phase'[c] = "commit" => \A d \in Container : phase[d] # "commit"
  PROVE  MigrationInv'
<1> USE DEF MigrationInv
<1>1. ASSUME NEW d \in Container PROVE RunnerOK(d)'
  <2>1. CASE d = c
    BY <2>1
  <2>2. CASE d # c
    <3>1. /\ RunnerOK(d) /\ phase'[d] = phase[d] /\ pending'[d] = pending[d]
          /\ executing'[d] = executing[d]
      BY <2>2
    <3>2. /\ django \in 0..DjangoSteps /\ django' \in 0..DjangoSteps
          /\ DjangoSteps \in Nat /\ django <= django'
      BY MigrationConstants DEF MigrationsOK
    <3>3. /\ (django' + 1)..DjangoSteps \subseteq (django + 1)..DjangoSteps
          /\ django = DjangoSteps => django' = DjangoSteps
      BY <3>2, StepsLeft
    <3> QED
      BY <3>1, <3>3 DEF RunnerOK
  <2> QED
    BY <2>1, <2>2
<1>2. OneExecutes'
  BY DEF OneExecutes
<1>3. MigratedOnceInOrder'
  <2>1. schema' # <<>> => django' = DjangoSteps
    BY MigrationConstants DEF MigratedOnceInOrder, MigrationsOK
  <2> QED
    BY <1>1, <2>1 DEF MigratedOnceInOrder, RunnerOK
<1> QED
  BY <1>1, <1>2, <1>3

(* What a container leaves behind when it exits. *)
LEMMA ExitStep ==
  ASSUME MigrationInv, NEW c \in Container, Exit(c),
         UNCHANGED <<recorded, schema, django>>, faults' \in 0..MaxFaults
  PROVE  MigrationInv'
<1>1. MigrationsOK'
  BY DEF MigrationInv, MigrationsOK, Exit, Phase
<1>2. RunnerOK(c)'
  BY DEF MigrationInv, MigrationsOK, Exit, RunnerOK
<1> QED
  BY <1>1, <1>2, QuietStep DEF MigrationInv, MigrationsOK, Exit

(* The file a runner executes is the due one: those before it are not on   *)
(* its list, so they are applied, and those that are applied are not it.   *)
LEMMA NextFileIsDue ==
  ASSUME MigrationInv, NEW c \in Container, phase[c] = "apply", ~AlreadyRecorded(c)
  PROVE  NextFile(c) \in pending[c] /\ NextFile(c) = Len(schema) + 1
<1> DEFINE f == NextFile(c)
           n == Len(schema)
<1>1. /\ pending[c] # {} /\ pending[c] \subseteq 1..Files[c]
      /\ (1..Files[c]) \ recorded \subseteq pending[c]
      /\ recorded = 1..n /\ n \in Nat /\ Files[c] \in Nat
  BY MigrationConstants
  DEF MigrationInv, RunnerOK, MigratedOnceInOrder, MigrationsOK
<1>2. f \in pending[c] /\ \A g \in pending[c] : f <= g
  BY <1>1, FirstFile DEF NextFile
<1>3. f \in 1..Files[c] /\ f > n
  BY <1>1, <1>2 DEF AlreadyRecorded
<1>4. n + 1 \in 1..Files[c] /\ n + 1 \notin recorded
  BY <1>1, <1>3
<1> QED
  BY <1>1, <1>2, <1>3, <1>4

LEMMA ExecuteStep ==
  ASSUME MigrationInv, NEW c \in Container, ExecuteFile(c)
  PROVE  MigrationInv'
<1>1. NextFile(c) \in pending[c] /\ NextFile(c) = Len(schema) + 1
  BY NextFileIsDue DEF ExecuteFile, At
<1>2. MigrationsOK'
  BY <1>1 DEF MigrationInv, MigrationsOK, ExecuteFile, At, Phase
<1>3. \A d \in Container : phase[d] # "commit"
  BY <1>1 DEF MigrationInv, RunnerOK, ExecuteFile, NobodyExecutes
<1>4. RunnerOK(c)'
  BY <1>1 DEF MigrationInv, MigrationsOK, RunnerOK, ExecuteFile, At
<1> QED
  BY <1>2, <1>3, <1>4, QuietStep DEF MigrationInv, MigrationsOK, ExecuteFile, At

LEMMA CommitStep ==
  ASSUME MigrationInv, NEW c \in Container, CommitFile(c)
  PROVE  MigrationInv'
<1> DEFINE n == Len(schema)
           left == pending[c] \ {n + 1}
<1>1. /\ phase[c] = "commit" /\ executing[c] = n + 1 /\ n + 1 \in pending[c]
      /\ pending[c] \subseteq 1..Files[c] /\ (1..Files[c]) \ recorded \subseteq pending[c]
      /\ recorded = 1..n /\ n \in Nat /\ c \in Configured /\ django = DjangoSteps
  <2>1. phase[c] = "commit" /\ RunnerOK(c)
    BY DEF CommitFile, At, MigrationInv
  <2>2. recorded = 1..n /\ n \in Nat
    BY DEF MigrationInv, MigratedOnceInOrder, MigrationsOK
  <2> QED
    BY <2>1, <2>2 DEF RunnerOK
<1>2. /\ phase' = [phase EXCEPT ![c] = IF left = {} THEN "serving" ELSE "apply"]
      /\ pending' = [pending EXCEPT ![c] = left]
      /\ executing' = [executing EXCEPT ![c] = 0]
      /\ recorded' = 1..(n + 1)
      /\ schema' = Append(schema, n + 1)
      /\ UNCHANGED <<tracker, django, faults>>
  BY <1>1 DEF CommitFile, At
<1>3. MigrationsOK'
  BY <1>1, <1>2 DEF MigrationInv, MigrationsOK, Phase
<1>4. Len(schema') = n + 1 /\ schema' = [i \in 1..Len(schema') |-> i]
  BY <1>1, <1>2 DEF MigrationInv, MigrationsOK, MigratedOnceInOrder
<1>5. (1..Files[c]) \ recorded' \subseteq left
  BY <1>1, <1>2
<1>6. ASSUME NEW d \in Container PROVE RunnerOK(d)'
  <2>1. CASE d = c
    BY <1>1, <1>2, <1>5, <2>1 DEF MigrationInv, MigrationsOK, RunnerOK
  <2>2. CASE d # c
    <3>1. phase[d] # "commit" /\ phase'[d] = phase[d] /\ pending'[d] = pending[d]
          /\ executing'[d] = executing[d] /\ recorded \subseteq recorded'
      BY <1>1, <1>2, <2>2 DEF MigrationInv, MigrationsOK, OneExecutes
    <3> QED
      BY <1>2, <3>1 DEF MigrationInv, RunnerOK
  <2> QED
    BY <2>1, <2>2
<1>7. OneExecutes'
  BY <1>1, <1>2 DEF MigrationInv, MigrationsOK, OneExecutes
<1>8. MigratedOnceInOrder'
  <2>1. ASSUME NEW d \in Container, phase'[d] = "serving"
        PROVE  d \in Configured /\ django' = DjangoSteps /\ 1..Files[d] \subseteq recorded'
    <3>1. CASE d = c
      BY <1>1, <1>2, <1>5, <2>1, <3>1 DEF MigrationInv, MigrationsOK
    <3>2. CASE d # c
      BY <1>1, <1>2, <2>1, <3>2
      DEF MigrationInv, MigrationsOK, MigratedOnceInOrder
    <3> QED
      BY <3>1, <3>2
  <2> QED
    BY <1>1, <1>2, <1>4, <2>1 DEF MigratedOnceInOrder
<1> QED
  BY <1>3, <1>6, <1>7, <1>8 DEF MigrationInv

(* The steps in which a container looks at the database or its environment *)
(* and goes on.                                                            *)
LEMMA BootStep ==
  ASSUME MigrationInv, NEW c \in Container,
         \/ Launch(c) \/ Restart(c) \/ CheckEnv(c)
         \/ CreateTracker(c) \/ AwaitTracker(c) \/ TakeOverTracker(c)
         \/ CommitTracker(c) \/ ReadApplied(c)
  PROVE  MigrationInv'
<1> USE DEF MigrationInv, MigrationsOK, RunnerOK, At
<1>0. django <= django
  BY MigrationConstants
<1>1. CASE Launch(c) \/ Restart(c)
  BY <1>1, <1>0, QuietStep DEF Launch, Restart, Phase
<1>2. CASE CheckEnv(c)
  BY <1>2, <1>0, QuietStep DEF CheckEnv, Phase
<1>3. CASE CreateTracker(c)
  BY <1>0, <1>3, QuietStep DEF CreateTracker, Phase
<1>4. CASE AwaitTracker(c)
  BY <1>0, <1>4, QuietStep DEF AwaitTracker, Phase
<1>5. CASE TakeOverTracker(c) \/ CommitTracker(c)
  BY <1>0, <1>5, QuietStep DEF TakeOverTracker, CommitTracker, Phase
<1>6. CASE ReadApplied(c)
  <2> DEFINE left == (1..Files[c]) \ recorded
  <2>1. /\ phase[c] = "read"
        /\ phase' = [phase EXCEPT ![c] = IF left = {} THEN "serving" ELSE "apply"]
        /\ pending' = [pending EXCEPT ![c] = left]
        /\ UNCHANGED <<executing, tracker, recorded, schema, django, faults>>
    BY <1>6 DEF ReadApplied
  <2>2. left \subseteq Nat /\ left \subseteq 1..Files[c]
    BY MigrationConstants
  <2>3. MigrationsOK'
    BY <2>1, <2>2 DEF Phase
  <2>4. phase'[c] = (IF left = {} THEN "serving" ELSE "apply") /\ pending'[c] = left
    BY <2>1
  <2>5. RunnerOK(c)'
    BY <2>1, <2>2, <2>4
  <2>6. phase'[c] = "serving" => 1..Files[c] \subseteq recorded
    BY <2>4
  <2> QED
    BY <1>0, <2>1, <2>3, <2>4, <2>5, <2>6, QuietStep
<1> QED
  BY <1>1, <1>2, <1>3, <1>4, <1>5, <1>6

(* Django's migrations.  A plan that was made when others had committed    *)
(* fewer of them misses none, so a runner is through with its plan only    *)
(* when all of them are in effect.                                         *)
LEMMA DjangoStep ==
  ASSUME MigrationInv, NEW c \in Container,
         DjangoPlan(c) \/ DjangoApply(c) \/ DjangoRepeat(c)
  PROVE  MigrationInv'
<1> USE DEF MigrationInv, MigrationsOK, At
<1>1. django \in 0..DjangoSteps /\ DjangoSteps \in Nat /\ django <= django
  BY MigrationConstants
<1>4. ASSUME NEW m \in 0..DjangoSteps
      PROVE  /\ (m + 1)..DjangoSteps \subseteq 1..DjangoSteps
             /\ (m + 1)..DjangoSteps = {} => m = DjangoSteps
  <2>1. m <= m
    OBVIOUS
  <2> QED
    BY <1>1, <2>1, StepsLeft
<1>5. 1..DjangoSteps \subseteq Nat
  BY <1>1
<1>2. CASE DjangoPlan(c)
  <2> DEFINE left == (django + 1)..DjangoSteps
  <2>1. /\ phase[c] = "migrate"
        /\ phase' = [phase EXCEPT ![c] = IF left = {} THEN "tracker" ELSE "django"]
        /\ pending' = [pending EXCEPT ![c] = left]
        /\ UNCHANGED <<executing, tracker, recorded, schema, django, faults>>
    BY <1>2 DEF DjangoPlan
  <2>2. /\ left \subseteq Nat /\ left \subseteq 1..DjangoSteps
        /\ left = {} => django = DjangoSteps
    BY <1>1, <1>4, <1>5
  <2>3. MigrationsOK'
    BY <2>1, <2>2 DEF Phase
  <2>4. phase'[c] = (IF left = {} THEN "tracker" ELSE "django") /\ pending'[c] = left
    BY <2>1
  <2>5. RunnerOK(c)'
    BY <2>1, <2>2, <2>4 DEF RunnerOK
  <2> QED
    BY <1>1, <2>1, <2>3, <2>4, <2>5, QuietStep
<1>3. CASE DjangoApply(c) \/ DjangoRepeat(c)
  <2> DEFINE f == DjangoNext(c)
             left == pending[c] \ {f}
  <2>1. /\ phase[c] = "django"
        /\ phase' = [phase EXCEPT ![c] = IF left = {} THEN "tracker" ELSE "django"]
        /\ pending' = [pending EXCEPT ![c] = left]
        /\ UNCHANGED <<executing, tracker, recorded, schema, faults>>
        /\ \/ f = django + 1 /\ django' = django + 1
           \/ f <= django /\ django' = django
    BY <1>3 DEF DjangoApply, DjangoRepeat, PlanDone
  <2>2. /\ pending[c] # {} /\ pending[c] \subseteq 1..DjangoSteps
        /\ (django + 1)..DjangoSteps \subseteq pending[c]
        /\ c \in Configured /\ executing[c] = 0
    BY <2>1 DEF RunnerOK
  <2>3. f \in pending[c]
    BY <2>2, FirstFile DEF DjangoNext
  <2>4. django' \in 0..DjangoSteps /\ django <= django'
    BY <1>1, <2>1, <2>2, <2>3
  <2>5. left \subseteq 1..DjangoSteps /\ (django' + 1)..DjangoSteps \subseteq left
    BY <1>1, <2>1, <2>2
  <2>6. left = {} => django' = DjangoSteps
    BY <1>4, <2>4, <2>5
  <2>7. MigrationsOK'
    BY <1>1, <2>1, <2>4, <2>5 DEF Phase
  <2>8. phase'[c] = (IF left = {} THEN "tracker" ELSE "django") /\ pending'[c] = left
    BY <2>1
  <2>9. RunnerOK(c)'
    BY <2>1, <2>2, <2>5, <2>6, <2>8 DEF RunnerOK
  <2> QED
    BY <2>1, <2>4, <2>7, <2>8, <2>9, QuietStep
<1> QED
  BY <1>2, <1>3

(* Every step of a container keeps the invariant. *)
LEMMA MigrationStep ==
  ASSUME MigrationInv, NEW c \in Container, ContainerStep(c)
  PROVE  MigrationInv'
<1>1. CASE \/ Launch(c) \/ Restart(c) \/ CheckEnv(c)
           \/ CreateTracker(c) \/ AwaitTracker(c) \/ TakeOverTracker(c)
           \/ CommitTracker(c) \/ ReadApplied(c)
  BY <1>1, BootStep
<1>2. CASE EnvIncomplete(c) \/ DjangoRace(c) \/ TrackerRace(c) \/ AppliedByAnother(c)
  BY <1>2, ExitStep
  DEF EnvIncomplete, DjangoRace, TrackerRace, AppliedByAnother, MigrationInv, MigrationsOK
<1>6. CASE DjangoPlan(c) \/ DjangoApply(c) \/ DjangoRepeat(c)
  BY <1>6, DjangoStep
<1>3. CASE ExecuteFile(c)
  BY <1>3, ExecuteStep
<1>4. CASE CommitFile(c)
  BY <1>4, CommitStep
<1>5. CASE Fault(c)
  <2>1. faults' \in 0..MaxFaults
    BY <1>5, MigrationConstants DEF Fault, MigrationInv, MigrationsOK
  <2> QED
    BY <1>5, <2>1, ExitStep DEF Fault
<1> QED
  BY <1>1, <1>2, <1>3, <1>4, <1>5, <1>6 DEF ContainerStep, Boot

LEMMA MigrationUnchanged ==
  ASSUME MigrationInv, UNCHANGED migrationVars
  PROVE  MigrationInv'
BY DEF MigrationInv, MigrationsOK, MigratedOnceInOrder, OneExecutes, RunnerOK,
       migrationVars

-------------------------------------------------------------------------------
(* Accounts *)

(* A step of one visitor's request that replaces no account, keeps the     *)
(* sessions and calls of the others, and its own part of the invariant.    *)
LEMMA CallStep ==
  ASSUME AccountInv, AccountsOK', NEW v \in Visitor,
         \A e \in Email : account'[e] = account[e] \/ (account[e] = Nobody /\ account'[e] = v),
         \A w \in Visitor \ {v} : session'[w] = session[w] /\ call'[w] = call[w],
         session'[v] # Nobody => account'[session'[v]] = v,
         CallOK(v)',
         call'[v] # Nobody =>
           LET e == call'[v].email IN
           /\ call'[v].at = "ok" /\ call'[v].op # "logout" =>
                account'[e] = v /\ session'[v] = e
           /\ call'[v].at = "conflict" => account'[e] # Nobody
           /\ call'[v].at = "unauthorized" /\ call'[v].op = "login" => account'[e] # v
  PROVE  AccountInv'
<1>1. ASSUME NEW w \in Visitor, call[w] # Nobody PROVE call[w] \in Call
  BY <1>1 DEF AccountInv, AccountsOK
<1>2. ASSUME NEW w \in Visitor PROVE CallOK(w)'
  BY <1>1, <1>2, AccountConstants DEF AccountInv, AccountsOK, CallOK, Call
<1>3. AccountsTrue'
  <2>1. ASSUME NEW w \in Visitor, w # v
        PROVE  session'[w] # Nobody => account'[session'[w]] = w
    BY <2>1, AccountConstants DEF AccountInv, AccountsOK, AccountsTrue
  <2>2. ASSUME NEW w \in Visitor, w # v, call'[w] # Nobody
        PROVE  LET e == call'[w].email IN
               /\ call'[w].at = "ok" /\ call'[w].op # "logout" =>
                    account'[e] = w /\ session'[w] = e
               /\ call'[w].at = "conflict" => account'[e] # Nobody
               /\ call'[w].at = "unauthorized" /\ call'[w].op = "login" => account'[e] # w
    BY <1>1, <2>2, AccountConstants DEF AccountInv, AccountsTrue, Call
  <2> QED
    BY <2>1, <2>2 DEF AccountsTrue
<1> QED
  BY <1>2, <1>3 DEF AccountInv

LEMMA SendStep ==
  ASSUME AccountInv, NEW v \in Visitor, NEW s \in Server, Send(v, s)
  PROVE  AccountInv'
<1>1. PICK op \in Operation, e \in Email :
        call' = [call EXCEPT ![v] =
                   [op |-> op, email |-> e, at |-> FirstStage(op), on |-> s]]
  BY DEF Send
<1>2. FirstStage(op) \in {"exists", "authenticate", "session"}
  BY <1>1 DEF FirstStage
<1>3. FirstStage(op) = "session" => op \in {"logout", "me"}
  BY <1>1 DEF FirstStage, Operation
<1>4. AccountsOK' /\ UNCHANGED <<account, session>>
  BY <1>1, <1>2 DEF Send, AccountInv, AccountsOK, Call, Stage
<1>5. /\ call'[v] = [op |-> op, email |-> e, at |-> FirstStage(op), on |-> s]
      /\ \A w \in Visitor \ {v} : call'[w] = call[w]
  BY <1>1 DEF AccountInv, AccountsOK
<1>6. CallOK(v)'
  BY <1>2, <1>3, <1>5 DEF CallOK
<1> QED
  BY <1>2, <1>4, <1>5, <1>6, CallStep DEF AccountInv, AccountsTrue

(* A request that is answered without a change of accounts and sessions. *)
LEMMA RefusalStep ==
  ASSUME AccountInv, NEW v \in Visitor,
         EmailTaken(v) \/ UsernameTaken(v) \/ InvalidCredentials(v) \/ NotAuthenticated(v)
  PROVE  AccountInv'
<1> USE DEF AccountInv, AccountsOK, Reached, Respond
<1>1. call[v] # Nobody /\ call[v] \in Call /\ UNCHANGED <<account, session>>
  BY DEF EmailTaken, UsernameTaken, InvalidCredentials, NotAuthenticated
<1>2. PICK answer \in {"conflict", "error", "unauthorized"} :
        /\ call' = [call EXCEPT ![v].at = answer, ![v].on = Nobody]
        /\ answer = "conflict" => account[call[v].email] # Nobody
        /\ answer = "unauthorized" /\ call[v].op = "login" => account[call[v].email] # v
  BY DEF EmailTaken, UsernameTaken, InvalidCredentials, NotAuthenticated, CallOK
<1>3. /\ call'[v] = [call[v] EXCEPT !.at = answer, !.on = Nobody]
      /\ \A w \in Visitor \ {v} : call'[w] = call[w]
  BY <1>2
<1>4. /\ call'[v].at = answer /\ call'[v].op = call[v].op
      /\ call'[v].email = call[v].email
      /\ AccountsOK'
  BY <1>1, <1>2, <1>3 DEF Call, Answer
<1>5. CallOK(v)'
  BY <1>2, <1>4 DEF CallOK
<1> QED
  BY <1>1, <1>2, <1>3, <1>4, <1>5, CallStep DEF AccountsTrue

(* Signing up and logging in, statement by statement. *)
LEMMA LoginStep ==
  ASSUME AccountInv, NEW v \in Visitor,
         \/ EmailFree(v) \/ CreateUser(v) \/ PasswordRight(v)
         \/ DropOldSession(v) \/ SaveSession(v)
  PROVE  AccountInv'
<1> USE DEF AccountInv, AccountsOK, Reached
<1> DEFINE e == call[v].email
<1>1. call[v] # Nobody /\ call[v] \in Call /\ e \in Email
  BY DEF EmailFree, CreateUser, PasswordRight, DropOldSession, SaveSession, Call
<1>2. CASE EmailFree(v) \/ PasswordRight(v)
  <2>1. PICK stage \in {"create", "login"} :
          /\ call' = [call EXCEPT ![v].at = stage]
          /\ stage = "login" => account[e] = v
          /\ UNCHANGED <<account, session>>
    BY <1>2 DEF EmailFree, PasswordRight, Goto
  <2>2. /\ call'[v].at = stage /\ call'[v].email = e
        /\ \A w \in Visitor \ {v} : call'[w] = call[w]
        /\ AccountsOK'
    BY <1>1, <2>1 DEF Call, Stage
  <2>3. CallOK(v)'
    BY <2>1, <2>2 DEF CallOK
  <2> QED
    BY <2>1, <2>2, <2>3, CallStep DEF AccountsTrue
<1>3. CASE CreateUser(v)
  <2>1. /\ call' = [call EXCEPT ![v].at = "login"]
        /\ account[e] = Nobody
        /\ account' = [account EXCEPT ![e] = v]
        /\ UNCHANGED session
    BY <1>3 DEF CreateUser, Goto
  <2>2. /\ call'[v].at = "login" /\ call'[v].email = e /\ account'[e] = v
        /\ \A w \in Visitor \ {v} : call'[w] = call[w]
        /\ AccountsOK'
    BY <1>1, <2>1 DEF Call, Stage
  <2>3. CallOK(v)'
    BY <2>2 DEF CallOK
  <2>4. session[v] # Nobody => account'[session[v]] = v
    BY <2>1 DEF AccountsTrue
  <2> QED
    BY <1>1, <2>1, <2>2, <2>3, <2>4, CallStep
<1>4. CASE DropOldSession(v)
  <2>1. /\ call' = [call EXCEPT ![v].at = "save"] /\ call[v].at = "login"
        /\ session' = [session EXCEPT ![v] = Nobody]
        /\ UNCHANGED account
    BY <1>4 DEF DropOldSession, Goto
  <2>2. /\ call'[v].at = "save" /\ call'[v].email = e /\ session'[v] = Nobody
        /\ \A w \in Visitor \ {v} : call'[w] = call[w] /\ session'[w] = session[w]
        /\ AccountsOK'
    BY <1>1, <2>1 DEF Call, Stage
  <2>3. CallOK(v)'
    BY <1>1, <2>1, <2>2 DEF CallOK
  <2> QED
    BY <2>1, <2>2, <2>3, CallStep
<1>5. CASE SaveSession(v)
  <2>1. /\ call' = [call EXCEPT ![v].at = "ok", ![v].on = Nobody] /\ call[v].at = "save"
        /\ session' = [session EXCEPT ![v] = e]
        /\ UNCHANGED account
    BY <1>5 DEF SaveSession, Respond
  <2>2. /\ call'[v].at = "ok" /\ call'[v].email = e /\ session'[v] = e
        /\ \A w \in Visitor \ {v} : call'[w] = call[w] /\ session'[w] = session[w]
        /\ AccountsOK'
    BY <1>1, <2>1 DEF Call, Answer
  <2>3. account[e] = v
    BY <1>1, <2>1 DEF CallOK
  <2>4. CallOK(v)'
    BY <2>2 DEF CallOK
  <2> QED
    BY <2>1, <2>2, <2>3, <2>4, CallStep
<1> QED
  BY <1>2, <1>3, <1>4, <1>5

(* Requests of a browser that is logged in. *)
LEMMA SessionStep ==
  ASSUME AccountInv, NEW v \in Visitor, Logout(v) \/ Me(v)
  PROVE  AccountInv'
<1> USE DEF AccountInv, AccountsOK, Reached
<1>1. call[v] # Nobody /\ call[v] \in Call /\ session[v] # Nobody /\ UNCHANGED account
  BY DEF Logout, Me
<1>2. CASE Logout(v)
  <2>1. /\ call' = [call EXCEPT ![v].at = "ok", ![v].on = Nobody]
        /\ call[v].op = "logout"
        /\ session' = [session EXCEPT ![v] = Nobody]
    BY <1>2 DEF Logout, Respond
  <2>2. /\ call'[v].at = "ok" /\ call'[v].op = "logout" /\ session'[v] = Nobody
        /\ \A w \in Visitor \ {v} : call'[w] = call[w] /\ session'[w] = session[w]
        /\ AccountsOK'
    BY <1>1, <2>1 DEF Call, Answer
  <2>3. CallOK(v)'
    BY <2>2 DEF CallOK
  <2> QED
    BY <1>1, <2>2, <2>3, CallStep
<1>3. CASE Me(v)
  <2>1. /\ call' = [call EXCEPT ![v] = [@ EXCEPT !.at = "ok", !.on = Nobody,
                                                 !.email = session[v]]]
        /\ UNCHANGED session
    BY <1>3 DEF Me
  <2>2. /\ call'[v].at = "ok" /\ call'[v].email = session[v]
        /\ \A w \in Visitor \ {v} : call'[w] = call[w]
        /\ AccountsOK'
    BY <1>1, <2>1 DEF Call, Answer
  <2>3. account[session[v]] = v
    BY <1>1 DEF AccountsTrue
  <2>4. CallOK(v)'
    BY <2>2 DEF CallOK
  <2> QED
    BY <1>1, <2>1, <2>2, <2>3, <2>4, CallStep
<1> QED
  BY <1>2, <1>3

LEMMA LoseStep ==
  ASSUME AccountInv, NEW s \in Server, LoseCalls(s)
  PROVE  AccountInv'
<1> USE DEF AccountInv, AccountsOK
<1>1. ASSUME NEW v \in Visitor
      PROVE  \/ call'[v] = call[v]
             \/ /\ call[v] # Nobody /\ call[v] \in Call
                /\ call'[v] = [call[v] EXCEPT !.at = "lost", !.on = Nobody]
  BY <1>1 DEF LoseCalls, Idle
<1>2. ASSUME NEW v \in Visitor
      PROVE  \/ call'[v] = call[v]
             \/ call'[v] \in Call /\ call'[v].at = "lost"
  BY <1>1, <1>2 DEF Call, Answer
<1>3. AccountsOK'
  BY <1>2 DEF LoseCalls
<1>4. AccountsTrue'
  <2>1. UNCHANGED <<account, session>>
    BY DEF LoseCalls
  <2>2. ASSUME NEW v \in Visitor, call'[v].at = "lost"
        PROVE  call'[v].at \notin {"ok", "conflict", "unauthorized"}
    BY <2>2
  <2> QED
    BY <1>2, <2>1, <2>2 DEF AccountsTrue
<1>5. ASSUME NEW v \in Visitor PROVE CallOK(v)'
  BY <1>2, <1>5 DEF LoseCalls, CallOK
<1> QED
  BY <1>3, <1>4, <1>5

(* Every step of a visitor's request keeps the invariant. *)
LEMMA AccountStep ==
  ASSUME AccountInv, VisitorStep
  PROVE  AccountInv'
<1>1. ASSUME NEW v \in Visitor, Serve(v) PROVE AccountInv'
  BY <1>1, RefusalStep, LoginStep, SessionStep DEF Serve
<1> QED
  BY <1>1, SendStep, LoseStep, ServersAreContainers DEF VisitorStep

LEMMA AccountUnchanged ==
  ASSUME AccountInv, UNCHANGED accountVars
  PROVE  AccountInv'
BY DEF AccountInv, AccountsOK, AccountsTrue, CallOK, accountVars

-------------------------------------------------------------------------------
(* Theorems *)

(* The invariants of both parts hold in every reachable state: a step is   *)
(* one of a container, one of a visitor, or a failure, which is both.      *)
THEOREM DeploymentInvariant == Spec => [](MigrationInv /\ AccountInv)
<1>1. Init => MigrationInv /\ AccountInv
  <2>1. ASSUME MigrationInit PROVE MigrationInv
    <3>1. schema = <<>> /\ Len(schema) = 0 /\ schema \in Seq(Nat)
      BY <2>1 DEF MigrationInit
    <3>2. MigrationsOK
      <4>1. django \in 0..DjangoSteps
        BY <2>1, MigrationConstants DEF MigrationInit
      <4>2. /\ phase \in [Container -> Phase] /\ pending \in [Container -> SUBSET Nat]
            /\ executing \in [Container -> Nat] /\ tracker \in Container \cup {NoTable, Made}
            /\ recorded \subseteq Nat
        BY <2>1 DEF MigrationInit, Phase
      <4>3. faults \in 0..MaxFaults
        BY <2>1, MigrationConstants DEF MigrationInit
      <4> QED
        BY <3>1, <4>1, <4>2, <4>3 DEF MigrationsOK
    <3>3. schema = [i \in 1..Len(schema) |-> i] /\ recorded = 1..Len(schema)
      BY <2>1, <3>1 DEF MigrationInit
    <3>4. \A c \in Container : phase[c] = "new" /\ executing[c] = 0
      BY <2>1 DEF MigrationInit
    <3> QED
      BY <3>1, <3>2, <3>3, <3>4
      DEF MigrationInv, MigratedOnceInOrder, OneExecutes, RunnerOK
  <2>2. ASSUME AccountInit PROVE AccountInv
    BY <2>2 DEF AccountInit, AccountInv, AccountsOK, AccountsTrue, CallOK
  <2> QED
    BY <2>1, <2>2 DEF Init
<1>2. ASSUME MigrationInv /\ AccountInv, [Next]_vars
      PROVE  MigrationInv' /\ AccountInv'
  <2>1. ASSUME NEW c \in Container, Launch(c) \/ Boot(c), UNCHANGED accountVars
        PROVE  MigrationInv' /\ AccountInv'
    BY <1>2, <2>1, MigrationStep, AccountUnchanged DEF ContainerStep
  <2>2. ASSUME NEW c \in Container, Stop(c)
        PROVE  MigrationInv' /\ AccountInv'
    BY <1>2, <2>2, MigrationStep, AccountStep DEF Stop, ContainerStep, VisitorStep
  <2>3. ASSUME VisitorStep, UNCHANGED migrationVars
        PROVE  MigrationInv' /\ AccountInv'
    BY <1>2, <2>3, MigrationUnchanged, AccountStep
  <2>4. CASE UNCHANGED vars
    BY <1>2, <2>4, MigrationUnchanged, AccountUnchanged DEF vars
  <2> QED
    BY <1>2, <2>1, <2>2, <2>3, <2>4 DEF Next, VisitorStep
<1> QED
  BY <1>1, <1>2, PTL DEF Spec

(* Every variable of the deployment keeps its type. *)
THEOREM TypeCorrect == Spec => []TypeOK
<1>1. MigrationInv /\ AccountInv => TypeOK
  BY DEF MigrationInv, AccountInv, TypeOK
<1> QED
  BY <1>1, DeploymentInvariant, PTL

(* However many containers of whatever releases boot beside each other,    *)
(* fail and boot again, every file is applied once and in order, and no    *)
(* container serves before the files of its release are in effect.         *)
THEOREM MigrationsSafe == Spec => []MigratedOnceInOrder
<1>1. MigrationInv => MigratedOnceInOrder
  BY DEF MigrationInv
<1> QED
  BY <1>1, DeploymentInvariant, PTL

(* Whoever signs up beside whom, and wherever a server stops: a browser is *)
(* logged in only as an account that has its password, and the answers to  *)
(* sign-ups and logins stay true.                                          *)
THEOREM AccountsSafe == Spec => []AccountsTrue
<1>1. AccountInv => AccountsTrue
  BY DEF AccountInv
<1> QED
  BY <1>1, DeploymentInvariant, PTL

===============================================================================
