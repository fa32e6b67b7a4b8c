------------------------------ MODULE Accounts ------------------------------
(***************************************************************************)
(* The accounts and their administrators: the sign-up, of which the first  *)
(* makes an administrator, the changes of role and activation and the      *)
(* deletion, which ask for another administrator, the activation by        *)
(* e-mail, the hourly job that deletes accounts without activation, and    *)
(* the user of config.yaml that is created at the start.                   *)
(*                                                                         *)
(* role and isAdmin say the same: a body with isAdmin and without role,    *)
(* which no page sends, is left out. Names and addresses do not collide,   *)
(* except the address of the user of config.yaml.                          *)
(***************************************************************************)
EXTENDS Naturals, FiniteSets

CONSTANTS
  Users,      \* the identifiers drawn; each is used once
  Requests,   \* requests that run at once
  Bodies      \* what administrators ask for

\* "operador" stands for "auditor", too.
BodyType == [role : {"keep", "admin", "operador"}, active : {"keep", "on", "off"}]

ASSUME BodiesAssumption == Bodies \subseteq BodyType

VARIABLES
  users,     \* the rows
  request,   \* the handlers, between two awaits
  job,       \* deleteUnactivatedUsers: those of its query still to delete
  up,        \* the process has started
  \* history, read by no step of the program
  life,      \* of each row: "fresh" until active, then "used" until an administrator
             \* deactivates it, "stopped"; "late" if activated after the job's query
  founders,  \* administrators made by sign-ups
  met,       \* two sign-ups ran at once
  shaken     \* changes and deletions under way while another step took an administrator
             \* away, or made an active one or an administrator of their own user

histVars == <<life, founders, met, shaken>>
vars == <<users, request, job, up, histVars>>

----------------------------------------------------------------------------
New == [state |-> "new"]      \* not drawn yet
Gone == [state |-> "gone"]
RowType == [state : {"row"}, admin : BOOLEAN, active : BOOLEAN,
            token : BOOLEAN,    \* activationToken, not expired
            old : BOOLEAN,      \* created more than 24 hours ago
            yaml : BOOLEAN]     \* has the address of initUser
Rows == {u \in Users : users[u].state = "row"}
Admins == {u \in Rows : users[u].admin}
ActiveAdmins == {u \in Admins : users[u].active}

Row(admin, active, token, yaml) ==
  [state |-> "row", admin |-> admin, active |-> active, token |-> token, old |-> FALSE,
   yaml |-> yaml]
YamlRow == Row(TRUE, TRUE, FALSE, TRUE)

NoBody == [role |-> "keep", active |-> "keep"]
Idle == [pc |-> "idle"]
Pcs == {"hash", "countDemote", "countDeactivate", "write", "countDelete", "files", "verify",
        "resend"}
Running == [pc : Pcs, kind : {"signUp", "create", "update", "delete", "verify", "resend"},
            user : Users, body : BodyType,
            flag : BOOLEAN]   \* a sign-up: isFirstUser; an update: it must count twice

\* An empty table, or the user of config.yaml.
Init ==
  /\ \E first \in SUBSET Users :
       /\ Cardinality(first) <= 1
       /\ users = [u \in Users |-> IF u \in first THEN YamlRow ELSE New]
       /\ life = [u \in Users |-> IF u \in first THEN "used" ELSE "fresh"]
  /\ request = [r \in Requests |-> Idle]
  /\ job = {} /\ up = TRUE
  /\ founders = {} /\ met = FALSE /\ shaken = {}

----------------------------------------------------------------------------
Free(r) == request[r] = Idle
At(r, pc) == ~Free(r) /\ request[r].pc = pc
Goto(r, pc) == request' = [request EXCEPT ![r].pc = pc]
End(r) == request' = [request EXCEPT ![r] = Idle]
Beside(r, kinds) == \E q \in Requests \ {r} : ~Free(q) /\ request[q].kind \in kinds
Changing == {"update", "delete"}

\* A handler up to its first await that matters to it.
Start(r, kind, pc, u, body, flag) ==
  /\ up /\ Free(r)
  /\ request' = [request EXCEPT ![r] =
       [pc |-> pc, kind |-> kind, user |-> u, body |-> body, flag |-> flag]]
  /\ met' = (met \/ (kind = "signUp" /\ Beside(r, {"signUp"})))
  /\ shaken' = shaken \ {r}
  /\ UNCHANGED <<users, job, up, life, founders>>

\* What it is to the changes and deletions under way that u is admin and active from now on.
Shake(u, admin, active) ==
  LET rises == admin /\ (u \notin Admins \/ (active /\ u \notin ActiveAdmins))
      falls == u \in Admins /\ (~admin \/ (u \in ActiveAdmins /\ ~active))
  IN shaken' = shaken \cup
       {q \in Requests : /\ ~Free(q) /\ request[q].kind \in Changing
                         /\ IF request[q].user = u THEN rises ELSE falls}

\* The row u becomes row, and what the history notes of it.
Put(u, row, stops) ==
  /\ users' = [users EXCEPT ![u] = row]
  /\ Shake(u, row.admin, row.active)
  /\ life' = [life EXCEPT ![u] =
                IF row.active THEN IF u \in Rows /\ users[u].active THEN @
                                   ELSE IF u \in job THEN "late" ELSE "used"
                ELSE IF stops THEN "stopped" ELSE @]
Remove(u) ==
  /\ users' = [users EXCEPT ![u] = Gone]
  /\ life' = [life EXCEPT ![u] = "fresh"]
  /\ Shake(u, FALSE, FALSE)
Same == UNCHANGED <<users, life, shaken>>

----------------------------------------------------------------------------
(* New accounts.                                                           *)

Drawn == {u \in Users : users[u] = New /\ \A q \in Requests : Free(q) \/ request[q].user # u}
\* Mutation: the row to come is counted, too.
IsFirst_OffByOne == Cardinality(Rows) <= 1
IsFirst == Rows = {}
\* Registration is open (AuthController.signUp); it counts, and hashes the password.
SignUp(r) ==
  /\ \E u \in Drawn : Start(r, "signUp", "hash", u, NoBody, IsFirst)

\* An administrator whose session the guards let through.
Authorized == ActiveAdmins # {}
CreateUser(r) ==
  /\ Authorized
  /\ \E u \in Drawn, role \in {"admin", "operador"}, active \in {"on", "off"} :
       Start(r, "create", "hash", u, [role |-> role, active |-> active], FALSE)

\* The first account is an administrator, and active; the others need an e-mail if so
\* configured.
Register(r) ==
  /\ At(r, "hash") /\ request[r].kind = "signUp"
  /\ \E mail \in BOOLEAN :
       LET u == request[r].user
           first == request[r].flag
           needs == ~first /\ mail
       IN /\ Put(u, Row(first, ~needs, needs, FALSE), FALSE)
          /\ founders' = IF first THEN founders \cup {u} ELSE founders
  /\ End(r)
  /\ UNCHANGED <<job, up, met>>
Insert(r) ==
  /\ At(r, "hash") /\ request[r].kind = "create"
  /\ Put(request[r].user, Row(request[r].body.role = "admin", request[r].body.active = "on",
                              FALSE, FALSE), FALSE)
  /\ End(r)
  /\ UNCHANGED <<job, up, founders, met>>

----------------------------------------------------------------------------
(* Changes and deletion.                                                   *)

UpdateRead(r, u, body) ==
  /\ Authorized /\ u \in Rows
  /\ LET demotes == body.role = "operador" /\ users[u].admin
         deactivates == body.active = "off" /\ users[u].active /\ users[u].admin
     IN Start(r, "update", CASE demotes -> "countDemote"
                             [] ~demotes /\ deactivates -> "countDeactivate"
                             [] OTHER -> "write", u, body, demotes /\ deactivates)

\* Demotion and deletion count the administrators, deactivation the active ones.
Counted(r) == IF request[r].pc = "countDeactivate" THEN ActiveAdmins ELSE Admins
\* Mutation: those that are not active are counted in a deactivation, too.
Pass_CountAll(r, pc) == IF Cardinality(Admins) = 1 THEN End(r) ELSE Goto(r, pc)
\* Only a count of one refuses.
Pass(r, pc) == IF Cardinality(Counted(r)) = 1 THEN End(r) ELSE Goto(r, pc)

CountDemote(r) ==
  /\ At(r, "countDemote")
  /\ Pass(r, IF request[r].flag THEN "countDeactivate" ELSE "write")
  /\ UNCHANGED <<users, job, up, histVars>>
CountDeactivate(r) ==
  /\ At(r, "countDeactivate")
  /\ Pass(r, "write")
  /\ UNCHANGED <<users, job, up, histVars>>

\* The row may be gone, and the update fails.
UpdateWrite(r) ==
  LET u == request[r].user
      body == request[r].body
  IN /\ At(r, "write")
     /\ IF u \notin Rows THEN Same
        ELSE Put(u, [users[u] EXCEPT
                       !.admin = IF body.role = "keep" THEN @ ELSE body.role = "admin",
                       !.active = IF body.active = "keep" THEN @ ELSE body.active = "on"],
                 body.active = "off")
     /\ End(r)
     /\ UNCHANGED <<job, up, founders, met>>

\* An administrator deletes any account, a user the own one.
DeleteRead(r, u) ==
  /\ u \in Rows
  /\ Authorized \/ users[u].active
  /\ Start(r, "delete", IF users[u].admin THEN "countDelete" ELSE "files", u, NoBody, FALSE)
CountDelete(r) ==
  /\ At(r, "countDelete")
  /\ Pass(r, "files")
  /\ UNCHANGED <<users, job, up, histVars>>
\* The directories of the shares, and then the row, which may be gone.
DeleteRow(r) ==
  /\ At(r, "files")
  /\ IF request[r].user \in Rows THEN Remove(request[r].user)
     ELSE Same
  /\ End(r)
  /\ UNCHANGED <<job, up, founders, met>>

----------------------------------------------------------------------------
(* Activation by e-mail.                                                   *)

VerifyRead(r, u) ==
  /\ u \in Rows /\ users[u].token
  /\ Start(r, "verify", "verify", u, NoBody, FALSE)
VerifyWrite(r) ==
  LET u == request[r].user
  IN /\ At(r, "verify")
     /\ IF u \in Rows THEN Put(u, [users[u] EXCEPT !.active = TRUE, !.token = FALSE], FALSE)
        ELSE Same
     /\ End(r)
     /\ UNCHANGED <<job, up, founders, met>>

\* A new token, for any account that is not active.
ResendRead(r, u) ==
  /\ u \in Rows /\ ~users[u].active
  /\ Start(r, "resend", "resend", u, NoBody, FALSE)
ResendWrite(r) ==
  LET u == request[r].user
  IN /\ At(r, "resend")
     /\ IF u \in Rows THEN Put(u, [users[u] EXCEPT !.token = TRUE], FALSE)
        ELSE Same
     /\ End(r)
     /\ UNCHANGED <<job, up, founders, met>>

----------------------------------------------------------------------------
(* The job, time and starts.                                               *)

\* Mutation: the age alone decides.
Unactivated_Old(u) == users[u].old
Unactivated(u) == ~users[u].active /\ users[u].old
JobQuery ==
  /\ up /\ job = {}
  /\ job' = {u \in Rows : Unactivated(u)} /\ job' # {}
  /\ UNCHANGED <<users, request, up, histVars>>
\* The directories of its shares, then the row, whatever has happened to it.
JobDelete(u) ==
  /\ u \in job
  /\ job' = job \ {u}
  /\ IF u \in Rows THEN Remove(u) ELSE Same
  /\ UNCHANGED <<request, up, founders, met>>

\* A day goes by, and the token of that time runs out.
Age(u) ==
  /\ u \in Rows /\ (~users[u].old \/ users[u].token)
  /\ users' = [users EXCEPT ![u].old = TRUE, ![u].token = FALSE]
  /\ UNCHANGED <<request, job, up, histVars>>

\* migrateInitUser, if initUser is enabled: unless there is exactly one administrator, it creates
\* another, which fails if it has done so before; the process then does not start.
Restart(enabled) ==
  /\ request' = [r \in Requests |-> Idle]
  /\ job' = {}
  /\ LET creates == enabled /\ Cardinality(Admins) # 1
         fails == creates /\ \E u \in Rows : users[u].yaml
     IN /\ up' = ~fails
        /\ IF fails \/ ~creates THEN Same
           ELSE \E u \in Users : users[u] = New /\ Put(u, YamlRow, FALSE)
  /\ UNCHANGED <<founders, met>>

----------------------------------------------------------------------------
HandlerStep(r) ==
  \/ /\ Free(r)
     /\ \/ SignUp(r) \/ CreateUser(r)
        \/ \E u \in Rows :
             \/ \E body \in Bodies : UpdateRead(r, u, body)
             \/ DeleteRead(r, u) \/ VerifyRead(r, u) \/ ResendRead(r, u)
  \/ Register(r) \/ Insert(r)
  \/ CountDemote(r) \/ CountDeactivate(r) \/ UpdateWrite(r)
  \/ CountDelete(r) \/ DeleteRow(r) \/ VerifyWrite(r) \/ ResendWrite(r)

Next ==
  \/ \E r \in Requests : HandlerStep(r)
  \/ JobQuery \/ (\E u \in Users : JobDelete(u) \/ Age(u))
  \/ \E enabled \in BOOLEAN : Restart(enabled)

Spec == Init /\ [][Next]_vars

----------------------------------------------------------------------------
(* Properties.                                                             *)

\* Each variable holds what its place in the code can hold.
TypeOK ==
  /\ users \in [Users -> RowType \cup {New, Gone}]
  /\ request \in [Requests -> Running \cup {Idle}]
  /\ job \subseteq Users /\ up \in BOOLEAN
  /\ life \in [Users -> {"fresh", "used", "stopped", "late"}]
  /\ founders \subseteq Users /\ met \in BOOLEAN /\ shaken \subseteq Requests

\* No change or deletion takes the last administrator away, and no deactivation the last one
\* who is active, unless another was taken away, or its own user made one, between its read
\* and its write (UserService.update, delete).
AdministratorRemains ==
  [][\A r \in Requests \ shaken :
       /\ UpdateWrite(r) \/ DeleteRow(r) => Admins = {} \/ Admins' # {}
       /\ UpdateWrite(r) /\ request[r].body.active = "off"
            => ActiveAdmins = {} \/ ActiveAdmins' # {}]_vars

\* The job deletes no account that has been active, unless an administrator has deactivated it
\* or the activation came after the job's query (deleteUnactivatedUsers).
SweepsNeverActive == [][\A u \in Rows : JobDelete(u) => life[u] # "used"]_vars

\* Sign-ups make one administrator, unless two of them met on the empty table or the one they
\* made is gone (signUp counts before the row is created).
OneFounder == \A u, v \in founders : u = v \/ met \/ \E w \in {u, v} : users[w] = Gone
=============================================================================
