---------------------------- MODULE AuthSessions ----------------------------
(***************************************************************************)
(* The sessions of one account: sign-in, rotation of the refresh token,    *)
(* validation of the access token, confirmation of the password before a   *)
(* critical operation, and everything that ends sessions: sign-out, logout *)
(* everywhere, a new password, a reset, an administrator, the cleanup job. *)
(*                                                                         *)
(* A refresh token and the session created with it share a number.  A      *)
(* client may present any token it was ever given: another tab, or a retry *)
(* whose answer was lost, sends an older one.  The account is active and   *)
(* has no second factor.                                                   *)
(***************************************************************************)
EXTENDS Naturals, FiniteSets

CONSTANTS
  Requests,      \* request slots: how many requests are in flight at once
  Kinds,         \* the kinds of request sent, among AllKinds
  MaxId,         \* bound on the refresh tokens created
  MaxReset,      \* bound on the reset tokens created
  MaxPassword,   \* bound on the changes of password
  MaxClock,      \* bound on the clock
  RefreshLife,   \* general.sessionDuration, in ticks
  SessionLife,   \* general.sessionMaxDuration
  Idle,          \* general.sessionIdleTimeout
  Interval,      \* LAST_ACTIVITY_INTERVAL_MS
  Window,        \* general.reauthWindow
  ResetLife      \* life of a reset token

AllKinds == {"signIn", "refresh", "access", "critical", "reauth", "password",
             "request", "reset", "signOut", "logoutAll", "adminRevoke", "adminPassword"}
Times == 0..MaxClock
Ids == 1..MaxId

ASSUME KindsAssumption == Kinds \subseteq AllKinds
ASSUME BoundsAssumption ==
  /\ MaxId \in Nat /\ MaxReset \in Nat /\ MaxPassword \in Nat /\ MaxClock \in Nat \ {0}
ASSUME TimesAssumption ==
  /\ RefreshLife \in Nat /\ SessionLife \in Nat /\ Idle \in Nat
  /\ Interval \in Nat /\ Window \in Nat /\ ResetLife \in Nat

VARIABLES
  clock,
  password,      \* User.password, numbered as it changes
  resetToken,    \* the ResetPasswordToken of the user; nr 0: none
  refresh,       \* the RefreshToken table; reauthAt 0: null
  session,       \* the Session table
  lastId, lastReset,
  pc, req, seen, \* of each request: its step, its input, what it read
  \* history, read by no step of the program
  family,        \* the sign-in a token descends from, by its first number; 0: none
                 \* of its tokens is live any more
  origin,        \* of each family, while it is live: how it began, and its confirmations
  lastUse,       \* when a session last passed the validation, while it is live
  resets         \* passwords set with each reset token

rowVars == <<refresh, session, lastId>>
resetVars == <<resetToken, lastReset, resets>>
reqVars == <<pc, req, seen>>
histVars == <<family, origin, lastUse>>
vars == <<clock, password, rowVars, resetVars, reqVars, histVars>>

----------------------------------------------------------------------------
NoRefresh == [live |-> FALSE, expiresAt |-> 0, reauthAt |-> 0]
NoSession == [live |-> FALSE, expiresAt |-> 0, lastActivity |-> 0]
NoOrigin == [password |-> 0, late |-> FALSE, confirmed |-> {}]
NoReq == [kind |-> "access", id |-> 0]
NoSeen == [password |-> 0, activity |-> 0, mark |-> 0, reset |-> 0]

Init ==
  /\ clock = 1 /\ password = 0
  /\ resetToken = [nr |-> 0, expiresAt |-> 0]
  /\ refresh = [i \in Ids |-> NoRefresh]
  /\ session = [i \in Ids |-> NoSession]
  /\ lastId = 0 /\ lastReset = 0
  /\ pc = [r \in Requests |-> "idle"]
  /\ req = [r \in Requests |-> NoReq]
  /\ seen = [r \in Requests |-> NoSeen]
  /\ family = [i \in Ids |-> 0]
  /\ origin = [i \in Ids |-> NoOrigin]
  /\ lastUse = [i \in Ids |-> 0]
  /\ resets = [n \in 1..MaxReset |-> 0]

----------------------------------------------------------------------------
(* Requests *)

Issued == {i \in Ids : i <= lastId /\                 \* tokens a client was given
             \A r \in Requests : ~(pc[r] = "newSession" /\ req[r].id = i)}

Creates == {"signIn", "refresh", "password"}
Changes == {"password", "reset", "adminPassword"}
InFlight(kinds) == Cardinality({r \in Requests : pc[r] # "idle" /\ req[r].kind \in kinds})

Authenticated == {"access", "critical", "reauth", "password", "logoutAll"}
Presenting == Authenticated \cup {"refresh", "signOut"}   \* a token is sent
FirstStep(k) == IF k \in Authenticated THEN "validate" ELSE k

Start(r) ==
  /\ pc[r] = "idle"
  /\ \E k \in Kinds, i \in Issued \cup {0}, n \in 1..lastReset \cup {0} :
       /\ i # 0 <=> k \in Presenting
       /\ n # 0 <=> k = "reset"
       /\ k \in Creates => lastId + InFlight(Creates) < MaxId             \* bound
       /\ k \in Changes => password + InFlight(Changes) < MaxPassword     \* bound
       /\ k = "request" => lastReset + InFlight({"request"}) < MaxReset   \* bound
       /\ pc' = [pc EXCEPT ![r] = FirstStep(k)]
       /\ req' = [req EXCEPT ![r] = [kind |-> k, id |-> i]]
       /\ seen' = [seen EXCEPT ![r] = [NoSeen EXCEPT !.reset = n]]
  /\ UNCHANGED <<clock, password, rowVars, resetVars, histVars>>

\* The request is answered and its locals are gone.
Finish(r) ==
  /\ pc' = [pc EXCEPT ![r] = "idle"]
  /\ req' = [req EXCEPT ![r] = NoReq]
  /\ seen' = [seen EXCEPT ![r] = NoSeen]

Goto(r, step) == pc' = [pc EXCEPT ![r] = step] /\ UNCHANGED <<req, seen>>

----------------------------------------------------------------------------
(* Rows.  Deleting a refresh token deletes its session. *)

Delete(ids) ==
  /\ refresh' = [i \in Ids |-> IF i \in ids THEN NoRefresh ELSE refresh[i]]
  /\ session' = [i \in Ids |-> IF i \in ids THEN NoSession ELSE session[i]]
  /\ lastUse' = [i \in Ids |-> IF i \in ids THEN 0 ELSE lastUse[i]]
  /\ LET ended == {family[i] : i \in {j \in ids : refresh[j].live}} IN
       /\ family' = [i \in Ids |-> IF family[i] \in ended THEN 0 ELSE family[i]]
       /\ origin' = [f \in Ids |-> IF f \in ended THEN NoOrigin ELSE origin[f]]

Refresh(mark) == [live |-> TRUE, expiresAt |-> clock + RefreshLife, reauthAt |-> mark]
Session == [live |-> TRUE, expiresAt |-> clock + SessionLife, lastActivity |-> clock]

\* A password was changed but its sessions are not all revoked yet.
Changing == \E r \in Requests : pc[r] \in {"setPassword", "adminRevokeAll"}

\* createRefreshToken at the end of a sign-in: a family begins.
NewRefresh(r) ==
  /\ pc[r] = "newRefresh"
  /\ lastId' = lastId + 1
  /\ refresh' = [refresh EXCEPT ![lastId + 1] = Refresh(clock)]
  /\ family' = [family EXCEPT ![lastId + 1] = lastId + 1]
  /\ origin' = [origin EXCEPT ![lastId + 1] =
       [password |-> seen[r].password, confirmed |-> {clock},
        late |-> Changing \/ seen[r].password # password]]
  /\ pc' = [pc EXCEPT ![r] = "newSession"]
  /\ req' = [req EXCEPT ![r].id = lastId + 1]
  /\ UNCHANGED <<clock, password, session, resetVars, seen, lastUse>>

\* createSession; its foreign key fails when the refresh token is gone.
NewSession(r) ==
  /\ pc[r] = "newSession"
  /\ \/ /\ refresh[req[r].id].live
        /\ session' = [session EXCEPT ![req[r].id] = Session]
        /\ lastUse' = [lastUse EXCEPT ![req[r].id] = clock]
     \/ ~refresh[req[r].id].live /\ UNCHANGED <<session, lastUse>>
  /\ Finish(r)
  /\ UNCHANGED <<clock, password, refresh, lastId, resetVars, family, origin>>

----------------------------------------------------------------------------
(* Sign-in and rotation *)

\* signIn verifies the password it read; the session is created afterwards.
SignIn(r) ==
  /\ pc[r] = "signIn"
  /\ \/ Finish(r)                                         \* wrong credentials
     \/ /\ pc' = [pc EXCEPT ![r] = "newRefresh"]
        /\ seen' = [seen EXCEPT ![r].password = password]
        /\ UNCHANGED req
  /\ UNCHANGED <<clock, password, rowVars, resetVars, histVars>>

RefreshRead(r) ==
  /\ pc[r] = "refresh"
  /\ LET row == refresh[req[r].id] IN
       \/ (~row.live \/ row.expiresAt < clock) /\ Finish(r)
       \/ /\ row.live /\ ~(row.expiresAt < clock)
          /\ pc' = [pc EXCEPT ![r] = "rotate"]
          /\ seen' = [seen EXCEPT ![r].mark = row.reauthAt]
          /\ UNCHANGED req
  /\ UNCHANGED <<clock, password, rowVars, resetVars, histVars>>

Reused_Never(r) == FALSE                 \* mutation: the count is not looked at
\* The token was deleted since it was read: it is being reused.
Reused(r) == ~refresh[req[r].id].live

CarriedMark_Now(r) == clock              \* mutation: rotation renews the mark
\* The mark of the new token: the one that was read.
CarriedMark(r) == seen[r].mark

\* The transaction: delete and create, or end every session.
Rotate(r) ==
  /\ pc[r] = "rotate"
  /\ \/ /\ Reused(r)
        /\ Delete(Ids) /\ Finish(r)
        /\ UNCHANGED lastId
     \/ /\ ~Reused(r)
        /\ lastId' = lastId + 1
        /\ refresh' = [refresh EXCEPT ![req[r].id] = NoRefresh,
                                      ![lastId + 1] = Refresh(CarriedMark(r))]
        /\ session' = [session EXCEPT ![req[r].id] = NoSession, ![lastId + 1] = Session]
        /\ family' = [family EXCEPT ![lastId + 1] = family[req[r].id]]
        /\ lastUse' = [lastUse EXCEPT ![req[r].id] = 0, ![lastId + 1] = clock]
        /\ Finish(r)
        /\ UNCHANGED origin
  /\ UNCHANGED <<clock, password, resetVars>>

----------------------------------------------------------------------------
(* Requests with an access token *)

Valid(i) ==
  /\ session[i].live
  /\ session[i].expiresAt > clock
  /\ session[i].lastActivity + Idle > clock

Handler(r) ==
  IF req[r].kind \in {"critical", "password"} THEN "guard" ELSE req[r].kind

IsStale_Later(i) == clock - session[i].lastActivity > Interval    \* mutation
IsStale(i) == clock - session[i].lastActivity >= Interval

\* SessionService.validate.  "access" is any other route: its handler does
\* nothing here.
Validate(r) ==
  /\ pc[r] = "validate"
  /\ \/ ~Valid(req[r].id) /\ Finish(r) /\ UNCHANGED lastUse
     \/ /\ Valid(req[r].id)
        /\ \/ req[r].kind = "access" /\ ~IsStale(req[r].id) /\ Finish(r)
           \/ /\ req[r].kind = "access" => IsStale(req[r].id)
              /\ pc' = [pc EXCEPT ![r] = IF IsStale(req[r].id) THEN "touch" ELSE Handler(r)]
              /\ seen' = [seen EXCEPT ![r].activity = session[req[r].id].lastActivity]
              /\ UNCHANGED req
        /\ lastUse' = [lastUse EXCEPT ![req[r].id] = clock]
  /\ UNCHANGED <<clock, password, rowVars, resetVars, family, origin>>

\* UPDATE ... WHERE lastActivityAt is still what was read.
Touch(r) ==
  /\ pc[r] = "touch"
  /\ session' = IF session[req[r].id].live /\ session[req[r].id].lastActivity = seen[r].activity
                THEN [session EXCEPT ![req[r].id].lastActivity = clock] ELSE session
  /\ \/ req[r].kind = "access" /\ Finish(r)
     \/ /\ req[r].kind # "access"
        /\ pc' = [pc EXCEPT ![r] = Handler(r)]
        /\ seen' = [seen EXCEPT ![r].activity = 0]
        /\ UNCHANGED req
  /\ UNCHANGED <<clock, password, refresh, lastId, resetVars, histVars>>

----------------------------------------------------------------------------
(* Confirmation of the password before a critical operation *)

Recent(mark) == mark > 0 /\ clock - mark <= Window

\* ReauthGuard up to its test of the mark.
ReauthGuard(r) ==
  /\ pc[r] = "guard"
  /\ LET i == req[r].id IN
       \/ session[i].live /\ Recent(refresh[i].reauthAt) /\ Goto(r, "clear")
       \/ ~(session[i].live /\ Recent(refresh[i].reauthAt)) /\ Finish(r)
  /\ UNCHANGED <<clock, password, rowVars, resetVars, histVars>>

\* clearReauthenticated; the update fails when the token is gone.
ClearReauthenticated(r) ==
  /\ pc[r] = "clear"
  /\ \/ /\ refresh[req[r].id].live
        /\ refresh' = [refresh EXCEPT ![req[r].id].reauthAt = 0]
        /\ \/ req[r].kind = "critical" /\ Finish(r)
           \/ req[r].kind = "password" /\ Goto(r, "verifyOld")
     \/ ~refresh[req[r].id].live /\ Finish(r) /\ UNCHANGED refresh
  /\ UNCHANGED <<clock, password, session, lastId, resetVars, histVars>>

\* reauthenticate: the password is verified, then the session is looked up.
Reauthenticate(r) ==
  /\ pc[r] = "reauth"
  /\ \/ Finish(r)                                          \* wrong password
     \/ session[req[r].id].live /\ Goto(r, "mark")
  /\ UNCHANGED <<clock, password, rowVars, resetVars, histVars>>

MarkReauthenticated(r) ==
  /\ pc[r] = "mark"
  /\ \/ /\ refresh[req[r].id].live
        /\ refresh' = [refresh EXCEPT ![req[r].id].reauthAt = clock]
        /\ origin' = [origin EXCEPT ![family[req[r].id]].confirmed = @ \cup {clock}]
     \/ ~refresh[req[r].id].live /\ UNCHANGED <<refresh, origin>>
  /\ Finish(r)
  /\ UNCHANGED <<clock, password, session, lastId, resetVars, family, lastUse>>

----------------------------------------------------------------------------
(* A new password *)

\* updatePassword verifies the old password against the user the guard read:
\* the client knows it or does not.
VerifyOld(r) ==
  /\ pc[r] = "verifyOld"
  /\ Finish(r) \/ Goto(r, "revokeAll")
  /\ UNCHANGED <<clock, password, rowVars, resetVars, histVars>>

RevokeAll(r) ==
  /\ pc[r] = "revokeAll"
  /\ Delete(Ids)
  /\ Goto(r, "setPassword")
  /\ UNCHANGED <<clock, password, lastId, resetVars>>

SetPassword(r) ==
  /\ pc[r] = "setPassword"
  /\ password' = password + 1
  /\ seen' = [seen EXCEPT ![r].password = password + 1]
  /\ pc' = [pc EXCEPT ![r] = "newRefresh"]
  /\ UNCHANGED <<clock, rowVars, resetVars, req, histVars>>

\* Mutation: only the role and the activation of an account end its sessions.
AdminPassword_NoRevoke(r) ==
  /\ pc[r] = "adminPassword"
  /\ password' = password + 1
  /\ Finish(r)
  /\ UNCHANGED <<clock, rowVars, resetVars, histVars>>
\* UserService.update with a password.
AdminPassword(r) ==
  /\ pc[r] = "adminPassword"
  /\ password' = password + 1
  /\ Goto(r, "adminRevokeAll")
  /\ UNCHANGED <<clock, rowVars, resetVars, histVars>>

AdminRevokeAll(r) ==
  /\ pc[r] = "adminRevokeAll"
  /\ Delete(Ids)
  /\ Finish(r)
  /\ UNCHANGED <<clock, password, lastId, resetVars>>

----------------------------------------------------------------------------
(* Reset by e-mail *)

RequestRead(r) ==
  /\ pc[r] = "request"
  /\ pc' = [pc EXCEPT ![r] = "requestTx"]
  /\ seen' = [seen EXCEPT ![r].reset = resetToken.nr]
  /\ UNCHANGED req
  /\ UNCHANGED <<clock, password, rowVars, resetVars, histVars>>

\* The old token is deleted and a new one created: both fail when another
\* request came in between (the row is gone; a user has one token), and nothing
\* is kept when the e-mail cannot be sent.
RequestTx(r) ==
  /\ pc[r] = "requestTx"
  /\ \/ /\ resetToken.nr = seen[r].reset
        /\ resetToken' = [nr |-> lastReset + 1, expiresAt |-> clock + ResetLife]
        /\ lastReset' = lastReset + 1
     \/ UNCHANGED <<resetToken, lastReset>>                \* rolled back
  /\ Finish(r)
  /\ UNCHANGED <<clock, password, rowVars, resets, histVars>>

NoReset == [nr |-> 0, expiresAt |-> 0]

ResetRead(r) ==
  /\ pc[r] = "reset"
  /\ \/ resetToken.nr # seen[r].reset /\ Finish(r) /\ UNCHANGED resetToken
     \/ /\ resetToken.nr = seen[r].reset /\ clock > resetToken.expiresAt
        /\ resetToken' = NoReset /\ Finish(r)
     \/ /\ resetToken.nr = seen[r].reset /\ clock <= resetToken.expiresAt
        /\ Goto(r, "resetTx") /\ UNCHANGED resetToken
  /\ UNCHANGED <<clock, password, rowVars, lastReset, resets, histVars>>

Redeemable_AsRead(r) == TRUE           \* mutation: a token gone is no error
\* The transaction begins with the deletion of the token.
Redeemable(r) == resetToken.nr = seen[r].reset

ResetTx(r) ==
  /\ pc[r] = "resetTx"
  /\ \/ /\ Redeemable(r)
        /\ resetToken' = NoReset
        /\ resets' = [resets EXCEPT ![seen[r].reset] = @ + 1]
        /\ Delete(Ids)
        /\ password' = password + 1
     \/ ~Redeemable(r) /\ UNCHANGED <<resetToken, resets, refresh, session,
                                          password, family, origin, lastUse>>
  /\ Finish(r)
  /\ UNCHANGED <<clock, lastId, lastReset>>

----------------------------------------------------------------------------
(* Revocations *)

\* signOut, and the same by an administrator: the session is read first.
RevokeRead(r) ==
  /\ pc[r] = "signOut"
  /\ \/ session[req[r].id].live /\ Goto(r, "revokeOne")
     \/ ~session[req[r].id].live /\ Finish(r)
  /\ UNCHANGED <<clock, password, rowVars, resetVars, histVars>>

RevokeOne(r) ==
  /\ pc[r] = "revokeOne"
  /\ Delete({req[r].id})
  /\ Finish(r)
  /\ UNCHANGED <<clock, password, lastId, resetVars>>

\* logoutAllDevices, and the same by an administrator.
LogoutAll(r) ==
  /\ pc[r] \in {"logoutAll", "adminRevoke"}
  /\ Delete(Ids)
  /\ Finish(r)
  /\ UNCHANGED <<clock, password, lastId, resetVars>>

----------------------------------------------------------------------------
(* deleteExpiredTokens; time; a restart of the process *)

ExpiredIds == {i \in Ids : refresh[i].live /\ refresh[i].expiresAt < clock}
\* Two statements of one job, each of its own: another request may come in between.
Cleanup ==
  /\ \/ ExpiredIds # {} /\ Delete(ExpiredIds) /\ UNCHANGED resetToken
     \/ /\ resetToken.nr # 0 /\ resetToken.expiresAt < clock
        /\ resetToken' = NoReset
        /\ UNCHANGED <<refresh, session, histVars>>
  /\ UNCHANGED <<clock, password, lastId, lastReset, resets, reqVars>>

Tick ==
  /\ clock < MaxClock      \* bound
  /\ clock' = clock + 1
  /\ UNCHANGED <<password, rowVars, resetVars, reqVars, histVars>>

Restart ==
  /\ pc' = [r \in Requests |-> "idle"]
  /\ req' = [r \in Requests |-> NoReq]
  /\ seen' = [r \in Requests |-> NoSeen]
  /\ lastUse' = [i \in Ids |-> session[i].lastActivity]   \* not answered: no use
  /\ origin' = [f \in Ids |-> [origin[f] EXCEPT !.late = @ \/ Changing]]
  /\ UNCHANGED <<clock, password, rowVars, resetVars, family>>

RequestStep(r) ==
  \/ Start(r) \/ NewRefresh(r) \/ NewSession(r)
  \/ SignIn(r) \/ RefreshRead(r) \/ Rotate(r)
  \/ Validate(r) \/ Touch(r)
  \/ ReauthGuard(r) \/ ClearReauthenticated(r) \/ Reauthenticate(r) \/ MarkReauthenticated(r)
  \/ VerifyOld(r) \/ RevokeAll(r) \/ SetPassword(r)
  \/ AdminPassword(r) \/ AdminRevokeAll(r)
  \/ RequestRead(r) \/ RequestTx(r) \/ ResetRead(r) \/ ResetTx(r)
  \/ RevokeRead(r) \/ RevokeOne(r) \/ LogoutAll(r)

Next == (\E r \in Requests : RequestStep(r)) \/ Cleanup \/ Tick \/ Restart

Spec == Init /\ [][Next]_vars

----------------------------------------------------------------------------
(* Properties *)

Steps == AllKinds \cup
  {"idle", "newRefresh", "newSession", "rotate", "validate", "touch", "guard", "clear", "mark",
   "verifyOld", "revokeAll", "setPassword", "adminRevokeAll", "requestTx", "resetTx",
   "revokeOne"}

\* Every variable holds a value of the kind the program keeps in it.
TypeOK ==
  /\ clock \in Times /\ password \in 0..MaxPassword
  /\ lastId \in 0..MaxId /\ lastReset \in 0..MaxReset
  /\ resetToken \in [nr : 0..lastReset, expiresAt : Nat]
  /\ refresh \in [Ids -> [live : BOOLEAN, expiresAt : Nat, reauthAt : Times]]
  /\ session \in [Ids -> [live : BOOLEAN, expiresAt : Nat, lastActivity : Times]]
  /\ pc \in [Requests -> Steps]
  /\ req \in [Requests -> [kind : AllKinds, id : 0..lastId]]
  /\ seen \in [Requests -> [password : 0..MaxPassword, activity : Times, mark : Times,
                            reset : 0..lastReset]]
  /\ family \in [Ids -> 0..lastId]
  /\ lastUse \in [Ids -> Times]
  /\ \A f \in Ids : origin[f].confirmed \subseteq Times /\ origin[f].late \in BOOLEAN

Live == {i \in Ids : refresh[i].live}

\* A sign-in never splits in two: however many tabs rotate the same token at
\* once, at most one token descending from it is live; and a rotation in flight
\* never revives a sign-in that something else ended meanwhile.
OneTokenPerSignIn ==
  /\ \A i, j \in Live : family[i] = family[j] => i = j
  /\ \A i \in Live : family[i] # 0

\* No token carries the mark of a confirmation that did not take place: the
\* window of a critical operation counts from a password really given in that
\* family, through any number of rotations.
MarksAreConfirmed ==
  \A i \in Live : refresh[i].reauthAt > 0 =>
    refresh[i].reauthAt \in origin[family[i]].confirmed

\* A session that was signed in with a password since replaced is only one
\* whose sign-in overlapped the change, or one that a restart saved from being
\* revoked.
OldPasswordOnlyFromRaces ==
  (\A r \in Requests : pc[r] # "adminRevokeAll") =>
    \A i \in Live : \/ origin[family[i]].password = password
                    \/ origin[family[i]].late

\* A user who keeps working is not logged out for inactivity: the activity on
\* record lags behind the last request by less than the write interval.
ActivityOnRecord ==
  \A i \in Ids :
    session[i].live /\ (\A r \in Requests : pc[r] = "touch" => req[r].id # i)
      => lastUse[i] < session[i].lastActivity + Interval \/ lastUse[i] = session[i].lastActivity

\* A reset link submitted twice, at the same time or not, changes the password once.
ResetOnce == \A n \in 1..MaxReset : resets[n] <= 1
=============================================================================
