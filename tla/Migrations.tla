----------------------------- MODULE Migrations ------------------------------
(***************************************************************************)
(* Containers that start: entrypoint.sh checks the environment, applies    *)
(* Django's migrations and then the SQL files (migrate_sql), and becomes   *)
(* gunicorn.  Several containers start on one database, of releases with   *)
(* more or fewer files, and any of them may fail and be started again.     *)
(***************************************************************************)
EXTENDS Integers, Sequences, FiniteSets, FiniteSetsExt

CONSTANTS
  Container,
  Files,        \* how many SQL files the image of each container has
  DjangoSteps,  \* Django's own migrations, and its post_migrate
  Configured,   \* containers whose environment is complete
  MaxFaults,    \* failures of processes or connections (bound)
  NoTable, Made \* _sql_migrations: not there, there, or being created by ...

VARIABLES
  phase,      \* the step each container is at
  pending,    \* migrations or files its runner has still to apply
  executing,  \* the file in its open transaction, 0 for none
  tracker,    \* the table _sql_migrations
  recorded,   \* its rows
  schema,     \* the files whose statements are committed, in that order
  django,     \* how many of Django's migrations are committed
  faults

migrationVars ==
  <<phase, pending, executing, tracker, recorded, schema, django, faults>>

Phase == {"new", "check_env", "migrate", "django", "tracker", "tracker_wait",
          "tracker_commit", "read", "apply", "commit", "serving", "exited"}

ASSUME MigrationConstants ==
  /\ Files \in [Container -> Nat]
  /\ DjangoSteps \in Nat
  /\ Configured \subseteq Container
  /\ MaxFaults \in Nat
  /\ NoTable \notin Container /\ Made \notin Container /\ NoTable # Made

At(c, from, to) == phase[c] = from /\ phase' = [phase EXCEPT ![c] = to]

(* Faulty variant: the transaction outlives the process. *)
ExitLeavingTransaction(c) ==
  /\ phase' = [phase EXCEPT ![c] = "exited"]
  /\ pending' = [pending EXCEPT ![c] = {}]
  /\ UNCHANGED <<executing, tracker>>

(* sys.exit(1), or an exception nobody catches: set -e ends the entrypoint,*)
(* and what was not committed is rolled back.                              *)
Exit(c) ==
  /\ phase' = [phase EXCEPT ![c] = "exited"]
  /\ pending' = [pending EXCEPT ![c] = {}]
  /\ executing' = [executing EXCEPT ![c] = 0]
  /\ tracker' = IF tracker = c THEN NoTable ELSE tracker

-------------------------------------------------------------------------------
(* entrypoint.sh *)

Launch(c) ==
  /\ At(c, "new", "check_env")
  /\ UNCHANGED <<pending, executing, tracker, recorded, schema, django, faults>>

(* restart: unless-stopped *)
Restart(c) ==
  /\ At(c, "exited", "check_env")
  /\ UNCHANGED <<pending, executing, tracker, recorded, schema, django, faults>>

CheckEnv(c) ==
  /\ c \in Configured
  /\ At(c, "check_env", "migrate")
  /\ UNCHANGED <<pending, executing, tracker, recorded, schema, django, faults>>

EnvIncomplete(c) ==
  /\ phase[c] = "check_env" /\ c \notin Configured
  /\ Exit(c)
  /\ UNCHANGED <<recorded, schema, django, faults>>

(* manage.py migrate: the tables of users and sessions among others.  It   *)
(* looks up once what is applied, and plans the rest.                      *)
DjangoPlan(c) ==
  LET left == (django + 1)..DjangoSteps IN
  /\ At(c, "migrate", IF left = {} THEN "tracker" ELSE "django")
  /\ pending' = [pending EXCEPT ![c] = left]
  /\ UNCHANGED <<executing, tracker, recorded, schema, django, faults>>

DjangoNext(c) == Min(pending[c])

PlanDone(c) ==
  LET left == pending[c] \ {DjangoNext(c)} IN
  /\ At(c, "django", IF left = {} THEN "tracker" ELSE "django")
  /\ pending' = [pending EXCEPT ![c] = left]
  /\ UNCHANGED <<executing, tracker, recorded, schema, faults>>

(* Each migration is a transaction, and is committed here. *)
DjangoApply(c) ==
  /\ PlanDone(c)
  /\ DjangoNext(c) = django + 1
  /\ django' = django + 1

(* Another container has committed it meanwhile: the table or the row that *)
(* it makes is there,                                                      *)
DjangoRace(c) ==
  /\ phase[c] = "django" /\ DjangoNext(c) <= django
  /\ Exit(c)
  /\ UNCHANGED <<recorded, schema, django, faults>>

(* unless the migration only alters a column, to what it is already.       *)
DjangoRepeat(c) ==
  /\ PlanDone(c)
  /\ DjangoNext(c) <= django
  /\ UNCHANGED django

-------------------------------------------------------------------------------
(* migrate_sql *)

(* CREATE TABLE IF NOT EXISTS _sql_migrations.  A runner that finds the    *)
(* table not there, but being created, waits for the creator's commit.     *)
CreateTracker(c) ==
  /\ tracker \in {NoTable, Made}
  /\ At(c, "tracker", IF tracker = Made THEN "read" ELSE "tracker_commit")
  /\ tracker' = IF tracker = Made THEN Made ELSE c
  /\ UNCHANGED <<pending, executing, recorded, schema, django, faults>>

AwaitTracker(c) ==
  /\ tracker \in Container
  /\ At(c, "tracker", "tracker_wait")
  /\ UNCHANGED <<pending, executing, tracker, recorded, schema, django, faults>>

(* The creator has committed: a unique violation in the system catalog,    *)
(* outside of the try.                                                     *)
TrackerRace(c) ==
  /\ phase[c] = "tracker_wait" /\ tracker = Made
  /\ Exit(c)
  /\ UNCHANGED <<recorded, schema, django, faults>>

(* The creator has rolled back. *)
TakeOverTracker(c) ==
  /\ tracker = NoTable
  /\ At(c, "tracker_wait", "tracker_commit")
  /\ tracker' = c
  /\ UNCHANGED <<pending, executing, recorded, schema, django, faults>>

CommitTracker(c) ==
  /\ At(c, "tracker_commit", "read")
  /\ tracker' = Made
  /\ UNCHANGED <<pending, executing, recorded, schema, django, faults>>

(* The applied files are read once, before the first one is executed.      *)
ReadApplied(c) ==
  LET left == (1..Files[c]) \ recorded IN
  /\ At(c, "read", IF left = {} THEN "serving" ELSE "apply")
  /\ pending' = [pending EXCEPT ![c] = left]
  /\ UNCHANGED <<executing, tracker, recorded, schema, django, faults>>

(* Faulty variant: the files are not sorted. *)
AnyFile(c) == Max(pending[c])

(* sorted(glob("*.sql")): the first file that is left. *)
NextFile(c) == Min(pending[c])

(* The other runner has committed the file: what it created is there, or   *)
(* the INSERT of its filename violates the primary key.                    *)
AlreadyRecorded(c) == NextFile(c) \in recorded

NobodyExecutes(f) == \A d \in Container : executing[d] # f

(* The statements of a file, in a transaction.  They create or alter what  *)
(* another runner of the same file is creating, and wait for it.           *)
ExecuteFile(c) ==
  /\ At(c, "apply", "commit")
  /\ NobodyExecutes(NextFile(c)) /\ ~AlreadyRecorded(c)
  /\ executing' = [executing EXCEPT ![c] = NextFile(c)]
  /\ UNCHANGED <<pending, tracker, recorded, schema, django, faults>>

AppliedByAnother(c) ==
  /\ phase[c] = "apply"
  /\ NobodyExecutes(NextFile(c)) /\ AlreadyRecorded(c)
  /\ Exit(c)
  /\ UNCHANGED <<recorded, schema, django, faults>>

(* The file's statements and its row, committed together. *)
CommitFile(c) ==
  LET left == pending[c] \ {executing[c]} IN
  /\ At(c, "commit", IF left = {} THEN "serving" ELSE "apply")
  /\ recorded' = recorded \cup {executing[c]}
  /\ schema' = Append(schema, executing[c])
  /\ pending' = [pending EXCEPT ![c] = left]
  /\ executing' = [executing EXCEPT ![c] = 0]
  /\ UNCHANGED <<tracker, django, faults>>

-------------------------------------------------------------------------------
(* A step of the container fails: an SQL error, a lost connection, a kill. *)
Fault(c) ==
  /\ phase[c] \notin {"new", "exited"} /\ faults < MaxFaults
  /\ Exit(c)
  /\ faults' = faults + 1
  /\ UNCHANGED <<recorded, schema, django>>

Boot(c) ==
  \/ Restart(c) \/ CheckEnv(c) \/ EnvIncomplete(c)
  \/ DjangoPlan(c) \/ DjangoApply(c) \/ DjangoRace(c) \/ DjangoRepeat(c)
  \/ CreateTracker(c) \/ AwaitTracker(c) \/ TrackerRace(c)
  \/ TakeOverTracker(c) \/ CommitTracker(c) \/ ReadApplied(c)
  \/ ExecuteFile(c) \/ AppliedByAnother(c) \/ CommitFile(c)

MigrationInit ==
  /\ phase = [c \in Container |-> "new"]
  /\ pending = [c \in Container |-> {}]
  /\ executing = [c \in Container |-> 0]
  /\ tracker = NoTable /\ recorded = {} /\ schema = <<>>
  /\ django = 0 /\ faults = 0

-------------------------------------------------------------------------------
(* Properties *)

MigrationsOK ==
  /\ phase \in [Container -> Phase]
  /\ pending \in [Container -> SUBSET Nat]
  /\ executing \in [Container -> Nat]
  /\ tracker \in Container \cup {NoTable, Made}
  /\ recorded \subseteq Nat
  /\ schema \in Seq(Nat)
  /\ django \in 0..DjangoSteps
  /\ faults \in 0..MaxFaults

(* However many containers start, fail and start again: every file takes   *)
(* effect once, after all files before it and after Django's tables, and   *)
(* is recorded exactly when it has; and no container serves requests       *)
(* before all files of its release are in effect ("migrations land before  *)
(* traffic shifts", README).                                               *)
MigratedOnceInOrder ==
  /\ schema = [i \in 1..Len(schema) |-> i]
  /\ recorded = 1..Len(schema)
  /\ schema # <<>> => django = DjangoSteps
  /\ \A c \in Container :
       phase[c] = "serving" =>
         c \in Configured /\ django = DjangoSteps /\ 1..Files[c] \subseteq recorded

(* A container that is set up comes to serve: runners that collide exit,   *)
(* are started again and find the files applied.                           *)
ContainersServe ==
  \A c \in Configured : phase[c] = "check_env" ~> phase[c] = "serving"

===============================================================================
