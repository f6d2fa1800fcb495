------------------------------- MODULE Accounts -------------------------------
(***************************************************************************)
(* Sign-up, login, logout and /me (apps/core/auth.py, the auth views), on  *)
(* several containers beside each other.  Django's ORM runs each statement *)
(* in a transaction of its own, so a request can stop between two of them. *)
(***************************************************************************)
EXTENDS FiniteSets

CONSTANTS
  Visitor,    \* browsers; each has its own password
  Email,
  Server,     \* what answers the requests
  Nobody

VARIABLES
  account,    \* table auth_user: the visitor whose password an email has
  session,    \* table django_session: the email each browser is logged in as
  call        \* the last request of each browser

accountVars == <<account, session, call>>

ASSUME AccountConstants == Nobody \notin Visitor /\ Nobody \notin Email

Operation == {"signup", "login", "logout", "me"}

Stage == {"exists", "create", "authenticate", "login", "save", "session"}

Answer == {"ok", "conflict", "error", "unauthorized", "lost"}

Call == [op : Operation, email : Email, at : Stage \cup Answer, on : Server \cup {Nobody}]

Idle(v) == call[v] # Nobody => call[v].at \in Answer

Reached(v, stage) == call[v] # Nobody /\ call[v].at = stage

Goto(v, stage) == call' = [call EXCEPT ![v].at = stage]

Respond(v, answer) ==
  call' = [call EXCEPT ![v].at = answer, ![v].on = Nobody]

FirstStage(op) ==
  CASE op = "signup" -> "exists" [] op = "login" -> "authenticate"
    [] OTHER -> "session"

(* A request, sent to one of the servers. *)
Send(v, s) ==
  /\ Idle(v)
  /\ \E op \in Operation, e \in Email :
       call' = [call EXCEPT ![v] =
                  [op |-> op, email |-> e, at |-> FirstStage(op), on |-> s]]
  /\ UNCHANGED <<account, session>>

(* signup_user: User.objects.filter(username=email).exists() *)
EmailFree(v) ==
  /\ Reached(v, "exists")
  /\ account[call[v].email] = Nobody
  /\ Goto(v, "create")
  /\ UNCHANGED <<account, session>>

EmailTaken(v) ==
  /\ Reached(v, "exists")
  /\ account[call[v].email] # Nobody
  /\ Respond(v, "conflict")
  /\ UNCHANGED <<account, session>>

(* Faulty variant: the account of the email is written over. *)
CreateOrReplaceUser(v) ==
  /\ Reached(v, "create")
  /\ account' = [account EXCEPT ![call[v].email] = v]
  /\ Goto(v, "login")
  /\ UNCHANGED session

(* create_user: the INSERT, committed at once; username is unique. *)
CreateUser(v) ==
  /\ Reached(v, "create")
  /\ account[call[v].email] = Nobody
  /\ account' = [account EXCEPT ![call[v].email] = v]
  /\ Goto(v, "login")
  /\ UNCHANGED session

(* IntegrityError, which is no DomainError: a 500. *)
UsernameTaken(v) ==
  /\ Reached(v, "create")
  /\ account[call[v].email] # Nobody
  /\ Respond(v, "error")
  /\ UNCHANGED <<account, session>>

(* authenticate_user *)
PasswordRight(v) ==
  /\ Reached(v, "authenticate")
  /\ account[call[v].email] = v
  /\ Goto(v, "login")
  /\ UNCHANGED <<account, session>>

InvalidCredentials(v) ==
  /\ Reached(v, "authenticate")
  /\ account[call[v].email] # v
  /\ Respond(v, "unauthorized")
  /\ UNCHANGED <<account, session>>

(* login(): the browser's old session is deleted ... *)
DropOldSession(v) ==
  /\ Reached(v, "login")
  /\ session' = [session EXCEPT ![v] = Nobody]
  /\ Goto(v, "save")
  /\ UNCHANGED account

(* Faulty variant: the session keeps the browser instead of the account.   *)
SaveSessionOfVisitor(v) ==
  /\ Reached(v, "save")
  /\ session' = [session EXCEPT ![v] = v]
  /\ Respond(v, "ok")
  /\ UNCHANGED account

(* ... and the new one saved when the view has returned. *)
SaveSession(v) ==
  /\ Reached(v, "save")
  /\ session' = [session EXCEPT ![v] = call[v].email]
  /\ Respond(v, "ok")
  /\ UNCHANGED account

(* IsAuthenticated, for logout and /me. *)
NotAuthenticated(v) ==
  /\ Reached(v, "session")
  /\ session[v] = Nobody
  /\ Respond(v, "unauthorized")
  /\ UNCHANGED <<account, session>>

Logout(v) ==
  /\ Reached(v, "session") /\ call[v].op = "logout"
  /\ session[v] # Nobody
  /\ session' = [session EXCEPT ![v] = Nobody]
  /\ Respond(v, "ok")
  /\ UNCHANGED account

(* The answer is the account's email. *)
Me(v) ==
  /\ Reached(v, "session") /\ call[v].op = "me"
  /\ session[v] # Nobody
  /\ call' = [call EXCEPT ![v] =
                 [@ EXCEPT !.at = "ok", !.on = Nobody, !.email = session[v]]]
  /\ UNCHANGED <<account, session>>

(* The server stops: its requests get no answer. *)
LoseCalls(s) ==
  /\ call' = [v \in Visitor |->
                IF ~Idle(v) /\ call[v].on = s
                THEN [call[v] EXCEPT !.at = "lost", !.on = Nobody] ELSE call[v]]
  /\ UNCHANGED <<account, session>>

Serve(v) ==
  \/ EmailFree(v) \/ EmailTaken(v) \/ CreateUser(v) \/ UsernameTaken(v)
  \/ PasswordRight(v) \/ InvalidCredentials(v)
  \/ DropOldSession(v) \/ SaveSession(v)
  \/ NotAuthenticated(v) \/ Logout(v) \/ Me(v)

AccountInit ==
  /\ account = [e \in Email |-> Nobody]
  /\ session = [v \in Visitor |-> Nobody]
  /\ call = [v \in Visitor |-> Nobody]

-------------------------------------------------------------------------------
(* Properties *)

AccountsOK ==
  /\ account \in [Email -> Visitor \cup {Nobody}]
  /\ session \in [Visitor -> Email \cup {Nobody}]
  /\ call \in [Visitor -> Call \cup {Nobody}]

(* Visitors who sign up with one email beside each other, on servers that  *)
(* stop in between: a browser is logged in only as an account that has its *)
(* own password; a sign-up or login that was answered "ok" is not undone   *)
(* by another one; "already registered" and "invalid credentials" are true *)
(* of the account; and an account that was created is never unreachable to *)
(* whom it belongs (signup_user, authenticate_user).                       *)
AccountsTrue ==
  \A v \in Visitor :
    /\ session[v] # Nobody => account[session[v]] = v
    /\ call[v] # Nobody =>
         LET e == call[v].email IN
         /\ call[v].at = "ok" /\ call[v].op # "logout" =>
              account[e] = v /\ session[v] = e
         /\ call[v].at = "conflict" => account[e] # Nobody
         /\ call[v].at = "unauthorized" /\ call[v].op = "login" => account[e] # v

(* "Conflict: if a User with the given email already exists."  Does not    *)
(* hold of who loses a race: exists() found no account, and the INSERT     *)
(* fails (signup_user).                                                    *)
DuplicateIsConflict ==
  \A v \in Visitor :
    call[v] # Nobody /\ call[v].op = "signup" => call[v].at # "error"

===============================================================================
