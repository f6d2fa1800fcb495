----------------------------- MODULE Deployment -----------------------------
(***************************************************************************)
(* The containers of a release and the visitors they serve: Migrations     *)
(* boots the containers, Accounts runs on those that serve.                *)
(***************************************************************************)
EXTENDS Migrations, Accounts

vars == <<migrationVars, accountVars>>

ASSUME ServersAreContainers == Server = Container

(* A process or a connection fails, and what it was serving gets no answer.*)
Stop(c) == Fault(c) /\ LoseCalls(c)

Init == MigrationInit /\ AccountInit

Next ==
  \/ \E c \in Container :
       \/ (Launch(c) \/ Boot(c)) /\ UNCHANGED accountVars
       \/ Stop(c)
       \/ \E v \in Visitor :
            /\ phase[c] = "serving"
            /\ Send(v, c)
            /\ UNCHANGED migrationVars
  \/ \E v \in Visitor : Serve(v) /\ UNCHANGED migrationVars

Spec == Init /\ [][Next]_vars

(* A container that is set up takes its steps and is started again when it *)
(* exits (restart: unless-stopped).  No visitor has to send anything.      *)
FairSpec ==
  /\ Spec
  /\ \A c \in Configured : WF_vars(Boot(c) /\ UNCHANGED accountVars)

TypeOK == MigrationsOK /\ AccountsOK

===============================================================================
