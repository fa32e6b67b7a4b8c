---------------------------- MODULE ShareAccess ----------------------------
(***************************************************************************)
(* One completed share, read by several clients at once while its owner    *)
(* edits it: the share guard, the two consumption counters, the in-memory  *)
(* streaming sessions, the share tokens and the PATCH that changes the     *)
(* expiration, the limits and the password.                                *)
(*                                                                         *)
(* The backend is one Node process over SQLite, so a step of this model is *)
(* the code between two awaits: a request reads the database in one step   *)
(* and acts on what it read in a later one.                                *)
(***************************************************************************)
EXTENDS Naturals, FiniteSets

CONSTANTS
  Clients,      \* who sends requests
  Privileged,   \* the clients with the creator's session, or an admin's while
                \* share.allowAdminAccessAllShares is on
  Routes,       \* the kinds of request sent, among Kinds
  Events,       \* what else happens, among AllEvents
  Requests,     \* request slots: how many requests are in flight at once
  Patches,      \* slots for PATCH /shares/:id
  Tokens,       \* rows of ShareToken
  Limits,       \* values of maxViews and maxDownloads; 0 is null, no limit
  InitLimit,    \* both limits of the share at its creation
  InitCookie,   \* the token each client starts with, or None
  Bodies,       \* bodies of PATCH /shares/:id
  Gap,          \* SESSION_GAP_MS, in ticks
  TokenLife,    \* life of a token of a share that never expires, in ticks
  MaxClock, MaxCount, MaxPassword,   \* bounds of the model
  Keep,         \* a field the body does not give (undefined)
  None          \* no token

Never == MaxClock + 1      \* no expiration: a date the clock does not reach
Times == 1..MaxClock
Kinds == {"page", "stream", "download", "zip", "cert", "certzip", "token"}
Passwords == 0..MaxPassword   \* numbered as they are set; 0: no password
\* password: 0 removes it, any other number sets a new one
BodyType == [expiration : (1..Never) \cup {Keep}, password : Passwords \cup {Keep},
             maxViews : Limits \cup {Keep}, maxDownloads : Limits \cup {Keep}]

AllEvents == {"expire", "remove", "restart"}

ASSUME ClientsAssumption ==
  /\ Privileged \subseteq Clients
  /\ InitCookie \in [Clients -> Tokens \cup {None}]
ASSUME RoutesAssumption == Routes \subseteq Kinds /\ Events \subseteq AllEvents
ASSUME LimitsAssumption == Limits \subseteq Nat /\ 0 \in Limits /\ InitLimit \in Limits
ASSUME BodiesAssumption == Bodies \subseteq BodyType /\ Keep \notin Nat
ASSUME BoundsAssumption ==
  /\ Gap \in Nat /\ TokenLife \in Nat
  /\ MaxClock \in Nat \ {0} /\ MaxCount \in Nat /\ MaxPassword \in Nat
ASSUME NoneAssumption == None \notin Tokens

VARIABLES
  clock,
  exists, stored,            \* the share row; its directory on disk
  expiration, views, downloads,
  security,                  \* the ShareSecurity row; all null when absent
  tokens,                    \* the ShareToken table
  cookie,                    \* share_<id>_token of each client
  sessions,                  \* StreamViewCounterService.sessions: lastSeen, 0 if none
  pc, req, snap, limit,      \* of each request: its step, its input, what it read
  patchPc, body, current,    \* of each PATCH: its step, its body, what it read
  lastPassword,              \* the last password number given out
  \* history, read by no step of the program
  viewLimits, downloadLimits, \* every limit that has been in force
  played, fetched,            \* streams opened and limited downloads delivered
  lastPlay,                   \* start of the last stream delivered to a token
  raced                       \* a PATCH overwrote what it had not read, or a
                              \* restart cut one off before it revoked

shareVars == <<exists, stored, expiration, security>>
countVars == <<views, downloads>>
reqVars == <<pc, req, snap, limit>>
patchVars == <<patchPc, body, current, lastPassword>>
histVars == <<viewLimits, downloadLimits, played, fetched, lastPlay, raced>>
vars == <<clock, shareVars, countVars, tokens, cookie, sessions, reqVars, patchVars,
          histVars>>

----------------------------------------------------------------------------
NoSecurity == [password |-> 0, maxViews |-> 0, maxDownloads |-> 0]
NoToken == [issued |-> FALSE, revoked |-> FALSE, expiresAt |-> 0, password |-> 0,
            stale |-> FALSE]
NoReq == [client |-> None, kind |-> "page", range |-> FALSE, tok |-> None, at |-> 0]
NoSnap == [expiration |-> 0, password |-> 0, viewsUp |-> FALSE, downloadsUp |-> FALSE]
NoBody == [expiration |-> Keep, password |-> Keep, maxViews |-> Keep,
           maxDownloads |-> Keep]
Rest == {"idle", "limited"}       \* answered; "limited": with a limit's 403

SecurityType == [password : Passwords, maxViews : Limits, maxDownloads : Limits]
TokenType == [issued : BOOLEAN, revoked : BOOLEAN, expiresAt : Nat,
              password : Passwords, stale : BOOLEAN]
ReqType == [client : Clients \cup {None}, kind : Kinds, range : BOOLEAN,
            tok : Tokens \cup {None}, at : 0..MaxClock]
SnapType == [expiration : 0..Never, password : Passwords, viewsUp : BOOLEAN,
             downloadsUp : BOOLEAN]

Init ==
  /\ clock = 1
  /\ exists = TRUE /\ stored = TRUE
  /\ expiration \in {MaxClock - 1, Never} \cap (1..Never)
  /\ views = 0 /\ downloads = 0
  /\ \E p \in {0, 1} \cap Passwords :
       /\ security = [password |-> p, maxViews |-> InitLimit, maxDownloads |-> InitLimit]
       /\ lastPassword = p
  /\ tokens = [t \in Tokens |->
       IF \E c \in Clients : InitCookie[c] = t
       THEN [NoToken EXCEPT !.issued = TRUE, !.password = lastPassword,
               !.expiresAt = IF expiration = Never THEN 1 + TokenLife ELSE expiration]
       ELSE NoToken]
  /\ cookie = InitCookie
  /\ sessions = [t \in Tokens |-> 0]
  /\ pc = [r \in Requests |-> "idle"]
  /\ req = [r \in Requests |-> NoReq]
  /\ snap = [r \in Requests |-> NoSnap]
  /\ limit = [r \in Requests |-> 0]
  /\ patchPc = [p \in Patches |-> "idle"]
  /\ body = [p \in Patches |-> NoBody]
  /\ current = [p \in Patches |-> NoSecurity]
  /\ viewLimits = {InitLimit} /\ downloadLimits = {InitLimit}
  /\ played = 0 /\ fetched = 0
  /\ lastPlay = [t \in Tokens |-> 0]
  /\ raced = FALSE

----------------------------------------------------------------------------
(* Conditions of the code *)

Expired(date) == clock > date
Exceeded(max, count) == max > 0 /\ count >= max

\* ShareTokenService.verifyShareToken
ValidToken(t) ==
  /\ t # None
  /\ tokens[t].issued /\ ~tokens[t].revoked
  /\ ~(tokens[t].expiresAt < clock)

IsPrivileged(r) == req[r].client \in Privileged
IsViewOperation(r) == req[r].kind \in {"page", "stream", "certzip"}
IsCertificateRequest(r) == req[r].kind = "cert"
HasRecentView(t) == t # None /\ sessions[t] > 0 /\ clock <= sessions[t] + Gap

\* The limit that governs the operation was used up when the guard read the row.
LimitReached(r) == IF IsViewOperation(r) THEN snap[r].viewsUp ELSE snap[r].downloadsUp
LimitExempt(r) ==
  \/ IsCertificateRequest(r)
  \/ IsPrivileged(r)
  \/ IsViewOperation(r) /\ req[r].range /\ HasRecentView(req[r].tok)

----------------------------------------------------------------------------
(* Requests.  Finish ends one with any other answer; Limited with a 403    *)
(* for a used-up limit.                                                    *)

Finish(r) ==
  /\ pc' = [pc EXCEPT ![r] = "idle"]
  /\ req' = [req EXCEPT ![r] = NoReq]
  /\ snap' = [snap EXCEPT ![r] = NoSnap]
  /\ limit' = [limit EXCEPT ![r] = 0]

Limited(r) ==
  /\ pc' = [pc EXCEPT ![r] = "limited"]
  /\ snap' = [snap EXCEPT ![r] = NoSnap]
  /\ limit' = [limit EXCEPT ![r] = 0]
  /\ UNCHANGED req

Goto(r, step) == pc' = [pc EXCEPT ![r] = step] /\ UNCHANGED req

\* Mutation: no session is kept.
Touch_Forgotten(t) == UNCHANGED sessions
Touch(t) == sessions' = [sessions EXCEPT ![t] = clock]

ReadShare(r) ==
  snap' = [snap EXCEPT ![r] =
    [expiration |-> expiration, password |-> security.password,
     viewsUp |-> Exceeded(security.maxViews, views),
     downloadsUp |-> Exceeded(security.maxDownloads, downloads)]]

Start(r) ==
  /\ pc[r] \in Rest
  /\ \E c \in Clients, k \in Routes, range \in BOOLEAN :
       /\ range => k = "stream"
       /\ k = "token" => c \notin Privileged
       /\ k = "stream" /\ ~range => views < MaxCount     \* bound
       /\ k \in {"download", "zip"} => downloads < MaxCount   \* bound
       /\ req' = [req EXCEPT ![r] =
            [client |-> c, kind |-> k, range |-> range, tok |-> cookie[c],
             at |-> IF k = "stream" THEN clock ELSE 0]]
       /\ pc' = [pc EXCEPT ![r] = IF k = "token" THEN "tokenGuard" ELSE "guard"]
  /\ UNCHANGED <<clock, shareVars, countVars, tokens, cookie, sessions, snap, limit,
                 patchVars, histVars>>

GuardRead(r) ==
  /\ pc[r] = "guard"
  /\ \/ ~exists /\ Finish(r)
     \/ exists /\ ReadShare(r) /\ Goto(r, "check") /\ UNCHANGED limit
  /\ UNCHANGED <<clock, shareVars, countVars, tokens, cookie, sessions, patchVars, histVars>>

Refused(r) ==
  \/ Expired(snap[r].expiration)
  \/ ~IsPrivileged(r) /\ ~ValidToken(req[r].tok)

Handler(r) ==
  CASE req[r].kind = "stream" /\ ~IsPrivileged(r) -> "count"
    [] req[r].kind \in {"download", "zip"} -> "reserve"
    [] OTHER -> "deliver"

GuardCheck(r) ==
  /\ pc[r] = "check"
  /\ \/ Refused(r) /\ Finish(r)
     \/ /\ ~Refused(r) /\ LimitReached(r) /\ ~LimitExempt(r)
        /\ Limited(r)
     \/ /\ ~Refused(r) /\ (LimitReached(r) => LimitExempt(r))
        /\ Goto(r, Handler(r))
        /\ snap' = [snap EXCEPT ![r] = NoSnap]
        /\ UNCHANGED limit
  /\ UNCHANGED <<clock, shareVars, countVars, tokens, cookie, sessions, patchVars, histVars>>

\* Mutation: a stream of a live session is not a new view (dedupe by window).
CountRead_Dedupe(r) ==
  /\ pc[r] = "count"
  /\ \/ ~exists /\ Finish(r) /\ UNCHANGED sessions
     \/ /\ exists /\ (req[r].range \/ HasRecentView(req[r].tok))
        /\ Touch(req[r].tok) /\ Goto(r, "deliver") /\ UNCHANGED <<snap, limit>>
     \/ /\ exists /\ ~req[r].range /\ ~HasRecentView(req[r].tok)
        /\ limit' = [limit EXCEPT ![r] = security.maxViews]
        /\ Goto(r, "countView") /\ UNCHANGED <<snap, sessions>>
  /\ UNCHANGED <<clock, shareVars, countVars, tokens, cookie, patchVars, histVars>>

\* countStreamView up to its read of maxViews: a Range request is never counted.
CountRead(r) ==
  /\ pc[r] = "count"
  /\ \/ ~exists /\ Finish(r) /\ UNCHANGED sessions
     \/ /\ exists /\ req[r].range
        /\ Touch(req[r].tok) /\ Goto(r, "deliver") /\ UNCHANGED <<snap, limit>>
     \/ /\ exists /\ ~req[r].range
        /\ limit' = [limit EXCEPT ![r] = security.maxViews]
        /\ Goto(r, "countView") /\ UNCHANGED <<snap, sessions>>
  /\ UNCHANGED <<clock, shareVars, countVars, tokens, cookie, patchVars, histVars>>

\* WHERE counter < limit of the conditional update; without a limit there is none.
HasRoom_OffByOne(counter, max) ==   \* mutation
  max > 0 => counter <= max
HasRoom(counter, max) == max > 0 => counter < max

\* UPDATE ... SET views = views + 1 [WHERE views < maxViews], then touch.
CountView(r) ==
  /\ pc[r] = "countView"
  /\ \/ /\ exists /\ HasRoom(views, limit[r])
        /\ views' = views + 1
        /\ Touch(req[r].tok) /\ Goto(r, "deliver") /\ UNCHANGED <<snap, limit>>
     \/ /\ limit[r] > 0 /\ ~(exists /\ HasRoom(views, limit[r]))
        /\ Limited(r) /\ UNCHANGED <<views, sessions>>
     \/ /\ limit[r] = 0 /\ ~exists
        /\ Finish(r) /\ UNCHANGED <<views, sessions>>
  /\ UNCHANGED <<clock, shareVars, downloads, tokens, cookie, patchVars, histVars>>

\* Mutation: the limit is checked on the row read, and nothing is reserved.
ReserveRead_CheckOnly(r) ==
  /\ pc[r] = "reserve"
  /\ \/ ~exists /\ Finish(r)
     \/ exists /\ Exceeded(security.maxDownloads, downloads) /\ Limited(r)
     \/ /\ exists /\ ~Exceeded(security.maxDownloads, downloads)
        /\ limit' = [limit EXCEPT ![r] = security.maxDownloads]
        /\ Goto(r, "deliver") /\ UNCHANGED snap
  /\ UNCHANGED <<clock, shareVars, countVars, tokens, cookie, sessions, patchVars, histVars>>

\* DownloadLimitGuard: only a limited share counts its downloads.
ReserveRead(r) ==
  /\ pc[r] = "reserve"
  /\ \/ ~exists /\ Finish(r)
     \/ /\ exists
        /\ limit' = [limit EXCEPT ![r] = security.maxDownloads]
        /\ Goto(r, IF security.maxDownloads > 0 THEN "countDownload" ELSE "deliver")
        /\ UNCHANGED snap
  /\ UNCHANGED <<clock, shareVars, countVars, tokens, cookie, sessions, patchVars, histVars>>

CountDownload(r) ==
  /\ pc[r] = "countDownload"
  /\ \/ /\ exists /\ HasRoom(downloads, limit[r])
        /\ downloads' = downloads + 1
        /\ Goto(r, "deliver") /\ UNCHANGED <<snap, limit>>
     \/ /\ ~(exists /\ HasRoom(downloads, limit[r]))
        /\ Limited(r) /\ UNCHANGED downloads
  /\ UNCHANGED <<clock, shareVars, views, tokens, cookie, sessions, patchVars, histVars>>

\* The body is sent, unless the row or the files went away meanwhile; the zip
\* and the certificates may also be missing on their own.
Deliver(r) ==
  /\ pc[r] = "deliver"
  /\ exists /\ (req[r].kind # "page" => stored)
  /\ played' = IF req[r].kind = "stream" /\ ~req[r].range /\ ~IsPrivileged(r)
               THEN played + 1 ELSE played
  /\ fetched' = IF req[r].kind \in {"download", "zip"} /\ limit[r] > 0
                THEN fetched + 1 ELSE fetched
  /\ lastPlay' = IF req[r].kind = "stream" /\ ~IsPrivileged(r)
                    /\ req[r].at > lastPlay[req[r].tok]
                 THEN [lastPlay EXCEPT ![req[r].tok] = req[r].at] ELSE lastPlay
  /\ Finish(r)
  /\ UNCHANGED <<clock, shareVars, countVars, tokens, cookie, sessions, patchVars,
                 viewLimits, downloadLimits, raced>>

DeliveryFails(r) ==
  /\ pc[r] = "deliver"
  /\ ~exists \/ (~stored /\ req[r].kind # "page") \/ req[r].kind \in {"zip", "cert", "certzip"}
  /\ Finish(r)
  /\ UNCHANGED <<clock, shareVars, countVars, tokens, cookie, sessions, patchVars, histVars>>

----------------------------------------------------------------------------
(* POST /shares/:id/token *)

TokenGuard(r) ==
  /\ pc[r] = "tokenGuard"
  /\ \/ (~exists \/ Expired(expiration)) /\ Finish(r)
     \/ exists /\ ~Expired(expiration) /\ Goto(r, "tokenRead") /\ UNCHANGED <<snap, limit>>
  /\ UNCHANGED <<clock, shareVars, countVars, tokens, cookie, sessions, patchVars, histVars>>

\* getShareToken reads the share, then argon.verify runs off the main thread:
\* the token is created in a later step, from what was read in this one.
TokenRead(r) ==
  /\ pc[r] = "tokenRead"
  /\ \/ ~exists /\ Finish(r)
     \/ exists /\ security.password > 0 /\ Finish(r)      \* wrong password
     \/ exists /\ Exceeded(security.maxViews, views) /\ Limited(r)
     \/ /\ exists /\ ~Exceeded(security.maxViews, views)
        /\ ReadShare(r) /\ Goto(r, "tokenCreate") /\ UNCHANGED limit
  /\ UNCHANGED <<clock, shareVars, countVars, tokens, cookie, sessions, patchVars, histVars>>

TokenCreate(r) ==
  /\ pc[r] = "tokenCreate"
  /\ \/ ~exists /\ UNCHANGED <<tokens, cookie>>          \* foreign key: 500
     \/ /\ exists
        /\ \E t \in Tokens :
             /\ ~tokens[t].issued
             /\ tokens' = [tokens EXCEPT ![t] =
                  [issued |-> TRUE, revoked |-> FALSE,
                   expiresAt |-> IF snap[r].expiration = Never THEN clock + TokenLife
                                 ELSE snap[r].expiration,
                   password |-> snap[r].password,
                   stale |-> snap[r].password # security.password]]
             /\ cookie' = [cookie EXCEPT ![req[r].client] = t]
  /\ Finish(r)
  /\ UNCHANGED <<clock, shareVars, countVars, sessions, patchVars, histVars>>

\* Bound: once every row of Tokens is used, a request for one more is dropped.
TokensExhausted(r) ==
  /\ pc[r] = "tokenCreate" /\ \A t \in Tokens : tokens[t].issued
  /\ Finish(r)
  /\ UNCHANGED <<clock, shareVars, countVars, tokens, cookie, sessions, patchVars, histVars>>

----------------------------------------------------------------------------
(* PATCH /shares/:id: the guard's read, update, updateSecurity, revokeAll. *)

EndPatch(p) ==
  /\ patchPc' = [patchPc EXCEPT ![p] = "idle"]
  /\ body' = [body EXCEPT ![p] = NoBody]
  /\ current' = [current EXCEPT ![p] = NoSecurity]

\* ShareOwnerGuard puts the row it read in the request; the service uses that one.
PatchRead(p) ==
  /\ patchPc[p] = "idle" /\ exists
  /\ \E b \in Bodies :
       IF b.password = Keep \/ b.password = 0
       THEN body' = [body EXCEPT ![p] = b] /\ UNCHANGED lastPassword
       ELSE /\ lastPassword < MaxPassword      \* bound
            /\ body' = [body EXCEPT ![p] = [b EXCEPT !.password = lastPassword + 1]]
            /\ lastPassword' = lastPassword + 1
  /\ current' = [current EXCEPT ![p] = security]
  /\ patchPc' = [patchPc EXCEPT ![p] = "row"]
  /\ UNCHANGED <<clock, shareVars, countVars, tokens, cookie, sessions, reqVars, histVars>>

HasSecurity(b) == b.password # Keep \/ b.maxViews # Keep \/ b.maxDownloads # Keep

PatchRow(p) ==
  /\ patchPc[p] = "row"
  /\ expiration' = IF exists /\ body[p].expiration # Keep THEN body[p].expiration
                   ELSE expiration
  /\ \/ exists /\ HasSecurity(body[p])
        /\ patchPc' = [patchPc EXCEPT ![p] = "security"] /\ UNCHANGED <<body, current>>
     \/ ~(exists /\ HasSecurity(body[p])) /\ EndPatch(p)
  /\ UNCHANGED <<clock, exists, stored, security, countVars, tokens, cookie, sessions,
                 reqVars, lastPassword, histVars>>

\* A field the body leaves out is written back as it was read; when no row was
\* read it is undefined, which Prisma does not write.
Written(given, read, now, hadRow) ==
  IF given # Keep THEN given ELSE IF hadRow THEN read ELSE now

NextSecurity(p) ==
  LET b == body[p]   old == current[p]   hadRow == old # NoSecurity IN
    [password |-> Written(b.password, old.password, security.password, hadRow),
     maxViews |-> Written(b.maxViews, old.maxViews, security.maxViews, hadRow),
     maxDownloads |-> Written(b.maxDownloads, old.maxDownloads, security.maxDownloads, hadRow)]

\* Compared with null before the write, where undefined counts as null.
AllNull(p) ==
  LET b == body[p]   old == current[p] IN
    /\ b.password = 0 \/ (b.password = Keep /\ old.password = 0)
    /\ b.maxViews = 0 \/ (b.maxViews = Keep /\ old.maxViews = 0)
    /\ b.maxDownloads = 0 \/ (b.maxDownloads = Keep /\ old.maxDownloads = 0)

\* Mutation: only a removed password revokes.
PasswordChanges_OnlyRemoved(p) == body[p].password = 0 /\ current[p].password # 0

\* nextPassword !== currentSecurity?.password: hashes are salted, and null
\* differs from the undefined of an absent row.
PasswordChanges(p) ==
  /\ body[p].password # Keep
  /\ body[p].password # 0 \/ current[p].password # 0 \/ current[p] = NoSecurity

WriteSecurity(p, new) ==
  /\ security' = new
  /\ viewLimits' = viewLimits \cup {new.maxViews}
  /\ downloadLimits' = downloadLimits \cup {new.maxDownloads}
  /\ raced' = (raced \/ security # current[p])

PatchSecurity(p) ==
  /\ patchPc[p] = "security"
  /\ \/ /\ AllNull(p) /\ current[p] # NoSecurity /\ security # NoSecurity
        /\ WriteSecurity(p, NoSecurity) /\ EndPatch(p)
     \/ /\ AllNull(p) /\ (current[p] = NoSecurity \/ security = NoSecurity)
        /\ EndPatch(p)                       \* nothing to delete, or P2025
        /\ UNCHANGED <<security, viewLimits, downloadLimits, raced>>
     \/ /\ ~AllNull(p) /\ exists
        /\ WriteSecurity(p, NextSecurity(p))
        /\ \/ PasswordChanges(p) /\ patchPc' = [patchPc EXCEPT ![p] = "revoke"]
                                 /\ UNCHANGED <<body, current>>
           \/ ~PasswordChanges(p) /\ EndPatch(p)
     \/ /\ ~AllNull(p) /\ ~exists
        /\ EndPatch(p) /\ UNCHANGED <<security, viewLimits, downloadLimits, raced>>
  /\ UNCHANGED <<clock, exists, stored, expiration, countVars, tokens, cookie, sessions,
                 reqVars, lastPassword, played, fetched, lastPlay>>

\* revokeAllForShare
PatchRevoke(p) ==
  /\ patchPc[p] = "revoke"
  /\ tokens' = [t \in Tokens |-> IF tokens[t].issued
                                 THEN [tokens[t] EXCEPT !.revoked = TRUE] ELSE tokens[t]]
  /\ EndPatch(p)
  /\ UNCHANGED <<clock, shareVars, countVars, cookie, sessions, reqVars, lastPassword, histVars>>

----------------------------------------------------------------------------
(* The owner ends the share; the process restarts; time passes. *)

Expire ==
  /\ "expire" \in Events /\ exists /\ expiration # clock
  /\ expiration' = clock
  /\ UNCHANGED <<clock, exists, stored, security, countVars, tokens, cookie, sessions,
                 reqVars, patchVars, histVars>>

\* remove: deleteAllFiles first, then the row and what cascades from it.
RemoveFiles ==
  /\ "remove" \in Events /\ exists /\ stored
  /\ stored' = FALSE
  /\ UNCHANGED <<clock, exists, expiration, security, countVars, tokens, cookie, sessions,
                 reqVars, patchVars, histVars>>

RemoveRow ==
  /\ exists /\ ~stored
  /\ exists' = FALSE
  /\ security' = NoSecurity
  /\ tokens' = [t \in Tokens |-> NoToken]
  /\ UNCHANGED <<clock, stored, expiration, countVars, cookie, sessions, reqVars,
                 patchVars, histVars>>

Restart ==
  /\ "restart" \in Events
  /\ sessions' = [t \in Tokens |-> 0]
  /\ pc' = [r \in Requests |-> "idle"]
  /\ req' = [r \in Requests |-> NoReq]
  /\ snap' = [r \in Requests |-> NoSnap]
  /\ limit' = [r \in Requests |-> 0]
  /\ patchPc' = [p \in Patches |-> "idle"]
  /\ body' = [p \in Patches |-> NoBody]
  /\ current' = [p \in Patches |-> NoSecurity]
  /\ lastPlay' = [t \in Tokens |-> 0]
  /\ raced' = (raced \/ \E p \in Patches : patchPc[p] = "revoke")
  /\ UNCHANGED <<clock, shareVars, countVars, tokens, cookie, lastPassword, viewLimits,
                 downloadLimits, played, fetched>>

\* sweep drops the sessions past the gap; they were already as good as gone.
Tick ==
  /\ clock < MaxClock
  /\ clock' = clock + 1
  /\ sessions' = [t \in Tokens |-> IF clock' <= sessions[t] + Gap THEN sessions[t] ELSE 0]
  /\ UNCHANGED <<shareVars, countVars, tokens, cookie, reqVars, patchVars, histVars>>

RequestStep(r) ==
  \/ Start(r) \/ GuardRead(r) \/ GuardCheck(r)
  \/ CountRead(r) \/ CountView(r) \/ ReserveRead(r) \/ CountDownload(r)
  \/ Deliver(r) \/ DeliveryFails(r)
  \/ TokenGuard(r) \/ TokenRead(r) \/ TokenCreate(r) \/ TokensExhausted(r)

PatchStep(p) == PatchRead(p) \/ PatchRow(p) \/ PatchSecurity(p) \/ PatchRevoke(p)

Next ==
  \/ \E r \in Requests : RequestStep(r)
  \/ \E p \in Patches : PatchStep(p)
  \/ Expire \/ RemoveFiles \/ RemoveRow \/ Restart \/ Tick

Spec == Init /\ [][Next]_vars

----------------------------------------------------------------------------
(* Properties *)

Steps == {"idle", "limited", "guard", "check", "count", "countView", "reserve",
          "countDownload", "deliver", "tokenGuard", "tokenRead", "tokenCreate"}
PatchSteps == {"idle", "row", "security", "revoke"}

\* Every variable holds a value of the kind the program keeps in it.
TypeOK ==
  /\ clock \in Times
  /\ exists \in BOOLEAN /\ stored \in BOOLEAN
  /\ expiration \in 1..Never
  /\ views \in Nat /\ downloads \in Nat
  /\ security \in SecurityType
  /\ tokens \in [Tokens -> TokenType]
  /\ cookie \in [Clients -> Tokens \cup {None}]
  /\ sessions \in [Tokens -> 0..MaxClock]
  /\ pc \in [Requests -> Steps]
  /\ req \in [Requests -> ReqType]
  /\ snap \in [Requests -> SnapType]
  /\ limit \in [Requests -> Limits]
  /\ patchPc \in [Patches -> PatchSteps]
  /\ body \in [Patches -> BodyType]
  /\ current \in [Patches -> SecurityType]
  /\ lastPassword \in Passwords
  /\ viewLimits \in SUBSET Limits /\ downloadLimits \in SUBSET Limits
  /\ played \in Nat /\ fetched \in Nat
  /\ lastPlay \in [Tokens -> 0..MaxClock]
  /\ raced \in BOOLEAN

\* However requests interleave with each other and with PATCHes that lower or
\* raise the limit, a share that has always had a view limit never counts more
\* views than the largest limit that was in force (countStreamView increments
\* under a limit it read in an earlier step).
ViewsWithinLimits == 0 \notin viewLimits => \E m \in viewLimits : views <= m

\* The same for downloads, which DownloadLimitGuard counts only while a limit
\* is set: periods without a limit do not let the counter past the others.
DownloadsWithinLimits == downloads > 0 => \E m \in downloadLimits : downloads <= m

\* Every stream opened by a visitor (a request without Range) was paid with one
\* view before it was sent, and those still to be sent are paid too: no
\* interleaving, restart or failed delivery lets two streams share a view.
StreamsArePaid ==
  played + Cardinality({r \in Requests : pc[r] = "deliver" /\ req[r].kind = "stream"
                                         /\ ~req[r].range /\ ~IsPrivileged(r)}) <= views

\* Every download of a limited share was paid with one unit of its counter.
DownloadsArePaid ==
  fetched + Cardinality({r \in Requests : pc[r] = "deliver" /\ limit[r] > 0
                              /\ req[r].kind \in {"download", "zip"}}) <= downloads

\* Who got in on the last slot sees the whole video: while the process runs, a
\* Range request of a token that was sent part of a stream less than the session
\* gap ago is not turned away for the view limit.
PlaybackNotCutOff ==
  [][\A r \in Requests :
       pc[r] = "check" /\ pc'[r] = "limited" /\ req[r].range /\ lastPlay[req[r].tok] > 0
         => clock > lastPlay[req[r].tok] + Gap]_vars

\* After a password change, a live token issued under another password is one
\* the PATCH is about to revoke, one created from a read that predates the
\* change, or the remains of PATCHes that overlapped or were cut off by a
\* restart: no other path leaves such a token alive.
StaleTokensOnlyFromRaces ==
  \A t \in Tokens :
    tokens[t].issued /\ ~tokens[t].revoked /\ security.password # 0
      /\ tokens[t].password # security.password
    => raced \/ tokens[t].stale \/ \E p \in Patches : patchPc[p] = "revoke"

ViewMeter == INSTANCE Meter WITH sold <- views, used <- played, limits <- viewLimits
DownloadMeter == INSTANCE Meter
  WITH sold <- downloads, used <- fetched, limits <- downloadLimits \ {0}

\* Streams are metered, whatever requests, PATCHes, removals and restarts do meanwhile: no step
\* counts two views at once, takes one back, counts one over every limit that has been in
\* force, or delivers a stream that was not counted before (countStreamView).
MetersViews == ViewMeter!Spec

\* The same for downloads, which count only under a limit (DownloadLimitGuard).
MetersDownloads == DownloadMeter!Spec
=============================================================================
