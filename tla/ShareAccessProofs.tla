------------------------- MODULE ShareAccessProofs -------------------------
(* Proofs about ShareAccess, for every number of clients, requests, PATCHes *)
(* and tokens and every set of limits.                                      *)
EXTENDS ShareAccess, FiniteSetTheorems, TLAPS

USE ClientsAssumption, LimitsAssumption, RoutesAssumption,
    BodiesAssumption, BoundsAssumption, NoneAssumption

----------------------------------------------------------------------------
(* The three ways a request leaves a step keep its variables well typed. *)

ReqTypeOK ==
  /\ pc \in [Requests -> Steps]
  /\ req \in [Requests -> ReqType]
  /\ snap \in [Requests -> SnapType]
  /\ limit \in [Requests -> Limits]

\* An answered request goes back to a rest state with blank fields.
LEMMA FinishType ==
  ASSUME TypeOK, NEW r \in Requests, Finish(r)
  PROVE  ReqTypeOK'
<1>1. NoReq \in ReqType BY DEF NoReq, ReqType, Kinds
<1>2. NoSnap \in SnapType BY DEF NoSnap, SnapType, Passwords, Never
<1> QED BY <1>1, <1>2 DEF TypeOK, Finish, ReqTypeOK, Steps

\* So does one that a limit turned away.
LEMMA LimitedType ==
  ASSUME TypeOK, NEW r \in Requests, Limited(r)
  PROVE  ReqTypeOK'
<1>1. NoSnap \in SnapType BY DEF NoSnap, SnapType, Passwords, Never
<1> QED BY <1>1 DEF TypeOK, Limited, ReqTypeOK, Steps

\* A step to a known label keeps the type of the step and of the input.
LEMMA GotoType ==
  ASSUME TypeOK, NEW r \in Requests, NEW step \in Steps, Goto(r, step)
  PROVE  pc' \in [Requests -> Steps] /\ req' \in [Requests -> ReqType]
BY DEF TypeOK, Goto

\* A touched session was last seen now.
LEMMA TouchType ==
  ASSUME TypeOK, NEW t, Touch(t)
  PROVE  sessions' \in [Tokens -> 0..MaxClock]
<1>1. clock \in 0..MaxClock BY DEF TypeOK, Times
<1> QED BY <1>1 DEF TypeOK, Touch

\* What the guards read has the type of a snapshot.
LEMMA ReadShareType ==
  ASSUME TypeOK, NEW r \in Requests, ReadShare(r)
  PROVE  snap' \in [Requests -> SnapType]
<1> DEFINE new == [expiration |-> expiration, password |-> security.password,
                   viewsUp |-> Exceeded(security.maxViews, views),
                   downloadsUp |-> Exceeded(security.maxDownloads, downloads)]
<1>1. new \in SnapType
  BY DEF TypeOK, SnapType, SecurityType, Exceeded, Never
<1> QED BY <1>1 DEF TypeOK, ReadShare

\* What updateSecurity writes is a security row.
LEMMA NextSecurityType ==
  ASSUME TypeOK, NEW p \in Patches
  PROVE  NextSecurity(p) \in SecurityType
<1>1. body[p] \in BodyType /\ current[p] \in SecurityType /\ security \in SecurityType
  BY DEF TypeOK
<1> QED BY <1>1 DEF NextSecurity, Written, BodyType, SecurityType

\* A PATCH that ends leaves blank fields behind.
LEMMA EndPatchType ==
  ASSUME TypeOK, NEW p \in Patches, EndPatch(p)
  PROVE  /\ patchPc' \in [Patches -> PatchSteps]
         /\ body' \in [Patches -> BodyType]
         /\ current' \in [Patches -> SecurityType]
<1>1. NoBody \in BodyType BY DEF NoBody, BodyType
<1>2. NoSecurity \in SecurityType BY DEF NoSecurity, SecurityType, Passwords
<1> QED BY <1>1, <1>2 DEF TypeOK, EndPatch, PatchSteps
----------------------------------------------------------------------------
(* Type correctness *)

LEMMA InitType == Init => TypeOK
<1> SUFFICES ASSUME Init PROVE TypeOK OBVIOUS
<1>1. clock \in Times /\ expiration \in 1..Never BY DEF Init, Times, Never
<1>2. security \in SecurityType /\ lastPassword \in Passwords
  BY DEF Init, SecurityType, Passwords
<1>3. tokens \in [Tokens -> TokenType]
  <2>1. NoToken \in TokenType BY DEF NoToken, TokenType, Passwords
  <2>2. (IF expiration = Never THEN 1 + TokenLife ELSE expiration) \in Nat
    BY <1>1 DEF Never
  <2>3. [NoToken EXCEPT !.issued = TRUE, !.password = lastPassword,
           !.expiresAt = IF expiration = Never THEN 1 + TokenLife ELSE expiration]
        \in TokenType
    BY <1>2, <2>1, <2>2 DEF TokenType
  <2> QED BY <2>1, <2>3 DEF Init
<1>4. req \in [Requests -> ReqType] /\ snap \in [Requests -> SnapType]
  BY DEF Init, NoReq, ReqType, Kinds, NoSnap, SnapType, Passwords, Never
<1>5. body \in [Patches -> BodyType] /\ current \in [Patches -> SecurityType]
  BY DEF Init, NoBody, BodyType, NoSecurity, SecurityType, Passwords
<1>6. /\ exists \in BOOLEAN /\ stored \in BOOLEAN /\ raced \in BOOLEAN
      /\ views \in Nat /\ downloads \in Nat /\ played \in Nat /\ fetched \in Nat
      /\ cookie \in [Clients -> Tokens \cup {None}]
  BY DEF Init
<1>7. /\ pc \in [Requests -> Steps] /\ limit \in [Requests -> Limits]
      /\ patchPc \in [Patches -> PatchSteps]
  BY DEF Init, Steps, PatchSteps
<1>8. /\ sessions \in [Tokens -> 0..MaxClock] /\ lastPlay \in [Tokens -> 0..MaxClock]
      /\ viewLimits \in SUBSET Limits /\ downloadLimits \in SUBSET Limits
  BY DEF Init
<1> QED BY <1>1, <1>2, <1>3, <1>4, <1>5, <1>6, <1>7, <1>8 DEF TypeOK

\* The steps of a request up to its delivery.
LEMMA RequestType ==
  ASSUME TypeOK, NEW r \in Requests, RequestStep(r)
  PROVE  TypeOK'
<1> USE DEF shareVars, countVars, reqVars, patchVars, histVars
<1>1. CASE Start(r)
  <2>1. req' \in [Requests -> ReqType]
    <3>1. PICK c \in Clients, k \in Routes, range \in BOOLEAN :
            req' = [req EXCEPT ![r] =
              [client |-> c, kind |-> k, range |-> range, tok |-> cookie[c],
               at |-> IF k = "stream" THEN clock ELSE 0]]
      BY <1>1 DEF Start
    <3>2. k \in Kinds /\ cookie[c] \in Tokens \cup {None}
      BY DEF TypeOK
    <3>3. (IF k = "stream" THEN clock ELSE 0) \in 0..MaxClock
      BY DEF TypeOK, Times
    <3> QED BY <3>1, <3>2, <3>3 DEF TypeOK, ReqType
  <2>2. pc' \in [Requests -> Steps]
    BY <1>1 DEF TypeOK, Start, Steps
  <2> QED BY <1>1, <2>1, <2>2 DEF TypeOK, Start
<1>2. CASE GuardRead(r)
  <2>1. CASE Finish(r) BY <1>2, <2>1, FinishType DEF TypeOK, ReqTypeOK, GuardRead
  <2>2. CASE ReadShare(r) /\ Goto(r, "check") /\ UNCHANGED limit
    BY <1>2, <2>2, ReadShareType, GotoType DEF TypeOK, GuardRead, Steps
  <2> QED BY <1>2, <2>1, <2>2 DEF GuardRead
<1>3. CASE GuardCheck(r)
  <2>1. CASE Finish(r) BY <1>3, <2>1, FinishType DEF TypeOK, ReqTypeOK, GuardCheck
  <2>2. CASE Limited(r) BY <1>3, <2>2, LimitedType DEF TypeOK, ReqTypeOK, GuardCheck
  <2>3. CASE Goto(r, Handler(r)) /\ snap' = [snap EXCEPT ![r] = NoSnap] /\ UNCHANGED limit
    <3>1. Handler(r) \in Steps BY DEF Handler, Steps
    <3>2. NoSnap \in SnapType BY DEF NoSnap, SnapType, Passwords, Never
    <3> QED BY <1>3, <2>3, <3>1, <3>2, GotoType DEF TypeOK, GuardCheck
  <2> QED BY <1>3, <2>1, <2>2, <2>3 DEF GuardCheck
<1>4. CASE CountRead(r)
  <2>1. CASE Finish(r) /\ UNCHANGED sessions
    BY <1>4, <2>1, FinishType DEF TypeOK, ReqTypeOK, CountRead
  <2>2. CASE Touch(req[r].tok) /\ Goto(r, "deliver") /\ UNCHANGED <<snap, limit>>
    BY <1>4, <2>2, TouchType, GotoType DEF TypeOK, CountRead, Steps
  <2>3. CASE limit' = [limit EXCEPT ![r] = security.maxViews] /\ Goto(r, "countView")
             /\ UNCHANGED <<snap, sessions>>
    BY <1>4, <2>3, GotoType DEF TypeOK, CountRead, Steps, SecurityType
  <2> QED BY <1>4, <2>1, <2>2, <2>3 DEF CountRead
<1>5. CASE CountView(r)
  <2>1. CASE views' = views + 1 /\ Touch(req[r].tok) /\ Goto(r, "deliver")
             /\ UNCHANGED <<snap, limit>>
    BY <1>5, <2>1, TouchType, GotoType DEF TypeOK, CountView, Steps
  <2>2. CASE Limited(r) /\ UNCHANGED <<views, sessions>>
    BY <1>5, <2>2, LimitedType DEF TypeOK, ReqTypeOK, CountView
  <2>3. CASE Finish(r) /\ UNCHANGED <<views, sessions>>
    BY <1>5, <2>3, FinishType DEF TypeOK, ReqTypeOK, CountView
  <2> QED BY <1>5, <2>1, <2>2, <2>3 DEF CountView
<1>6. CASE ReserveRead(r)
  <2>1. CASE Finish(r) BY <1>6, <2>1, FinishType DEF TypeOK, ReqTypeOK, ReserveRead
  <2>2. CASE /\ limit' = [limit EXCEPT ![r] = security.maxDownloads]
             /\ Goto(r, IF security.maxDownloads > 0 THEN "countDownload" ELSE "deliver")
             /\ UNCHANGED snap
    <3>1. (IF security.maxDownloads > 0 THEN "countDownload" ELSE "deliver") \in Steps
      BY DEF Steps
    <3> QED BY <1>6, <2>2, <3>1, GotoType DEF TypeOK, ReserveRead, SecurityType
  <2> QED BY <1>6, <2>1, <2>2 DEF ReserveRead
<1>7. CASE CountDownload(r)
  <2>1. CASE downloads' = downloads + 1 /\ Goto(r, "deliver") /\ UNCHANGED <<snap, limit>>
    BY <1>7, <2>1, GotoType DEF TypeOK, CountDownload, Steps
  <2>2. CASE Limited(r) /\ UNCHANGED downloads
    BY <1>7, <2>2, LimitedType DEF TypeOK, ReqTypeOK, CountDownload
  <2> QED BY <1>7, <2>1, <2>2 DEF CountDownload
<1>8. CASE Deliver(r)
  <2>1. req[r].at \in 0..MaxClock BY DEF TypeOK, ReqType
  <2>2. lastPlay' \in [Tokens -> 0..MaxClock] BY <1>8, <2>1 DEF TypeOK, Deliver
  <2>3. played' \in Nat /\ fetched' \in Nat BY <1>8 DEF TypeOK, Deliver
  <2> QED BY <1>8, <2>2, <2>3, FinishType DEF TypeOK, ReqTypeOK, Deliver
<1>9. CASE DeliveryFails(r)
  BY <1>9, FinishType DEF TypeOK, ReqTypeOK, DeliveryFails
<1>10. CASE TokenGuard(r)
  <2>1. CASE Finish(r) BY <1>10, <2>1, FinishType DEF TypeOK, ReqTypeOK, TokenGuard
  <2>2. CASE Goto(r, "tokenRead") /\ UNCHANGED <<snap, limit>>
    BY <1>10, <2>2, GotoType DEF TypeOK, TokenGuard, Steps
  <2> QED BY <1>10, <2>1, <2>2 DEF TokenGuard
<1>11. CASE TokenRead(r)
  <2>1. CASE Finish(r) BY <1>11, <2>1, FinishType DEF TypeOK, ReqTypeOK, TokenRead
  <2>2. CASE Limited(r) BY <1>11, <2>2, LimitedType DEF TypeOK, ReqTypeOK, TokenRead
  <2>3. CASE ReadShare(r) /\ Goto(r, "tokenCreate") /\ UNCHANGED limit
    BY <1>11, <2>3, ReadShareType, GotoType DEF TypeOK, TokenRead, Steps
  <2> QED BY <1>11, <2>1, <2>2, <2>3 DEF TokenRead
<1>12. CASE TokenCreate(r)
  <2>1. CASE UNCHANGED <<tokens, cookie>>
    BY <1>12, <2>1, FinishType DEF TypeOK, ReqTypeOK, TokenCreate
  <2>2. ASSUME NEW t \in Tokens,
               tokens' = [tokens EXCEPT ![t] =
                  [issued |-> TRUE, revoked |-> FALSE,
                   expiresAt |-> IF snap[r].expiration = Never THEN clock + TokenLife
                                 ELSE snap[r].expiration,
                   password |-> snap[r].password,
                   stale |-> snap[r].password # security.password]],
               cookie' = [cookie EXCEPT ![req[r].client] = t]
        PROVE  TypeOK'
    <3>1. snap[r] \in SnapType BY DEF TypeOK
    <3>2. (IF snap[r].expiration = Never THEN clock + TokenLife
           ELSE snap[r].expiration) \in Nat
      BY <3>1 DEF TypeOK, SnapType, Times, Never
    <3>3. tokens' \in [Tokens -> TokenType]
      BY <2>2, <3>1, <3>2 DEF TypeOK, TokenType, SnapType
    <3> QED BY <1>12, <2>2, <3>3, FinishType DEF TypeOK, ReqTypeOK, TokenCreate
  <2> QED BY <1>12, <2>1, <2>2 DEF TokenCreate
<1>13. CASE TokensExhausted(r)
  BY <1>13, FinishType DEF TypeOK, ReqTypeOK, TokensExhausted
<1> QED
  BY <1>1, <1>2, <1>3, <1>4, <1>5, <1>6, <1>7, <1>8, <1>9, <1>10, <1>11, <1>12, <1>13
  DEF RequestStep

\* The steps of a PATCH.
LEMMA PatchType ==
  ASSUME TypeOK, NEW p \in Patches, PatchStep(p)
  PROVE  TypeOK'
<1> USE DEF shareVars, countVars, reqVars, patchVars, histVars
<1>1. CASE PatchRead(p)
  <2>1. PICK b \in Bodies :
          \/ body' = [body EXCEPT ![p] = b] /\ UNCHANGED lastPassword
          \/ /\ lastPassword < MaxPassword
             /\ body' = [body EXCEPT ![p] = [b EXCEPT !.password = lastPassword + 1]]
             /\ lastPassword' = lastPassword + 1
    BY <1>1 DEF PatchRead
  <2>2. b \in BodyType OBVIOUS
  <2>3. lastPassword < MaxPassword => lastPassword + 1 \in Passwords
    BY DEF TypeOK, Passwords
  <2>4. lastPassword' \in Passwords BY <2>1, <2>3 DEF TypeOK
  <2>5. lastPassword < MaxPassword => [b EXCEPT !.password = lastPassword + 1] \in BodyType
    BY <2>2, <2>3 DEF BodyType
  <2>6. body' \in [Patches -> BodyType] BY <2>1, <2>2, <2>5 DEF TypeOK
  <2> QED BY <1>1, <2>4, <2>6 DEF TypeOK, PatchRead, PatchSteps
<1>2. CASE PatchRow(p)
  <2>1. expiration' \in 1..Never
    <3>1. body[p] \in BodyType BY DEF TypeOK
    <3> QED BY <1>2, <3>1 DEF TypeOK, PatchRow, BodyType
  <2>2. CASE patchPc' = [patchPc EXCEPT ![p] = "security"] /\ UNCHANGED <<body, current>>
    BY <1>2, <2>1, <2>2 DEF TypeOK, PatchRow, PatchSteps
  <2>3. CASE EndPatch(p) BY <1>2, <2>1, <2>3, EndPatchType DEF TypeOK, PatchRow
  <2> QED BY <1>2, <2>2, <2>3 DEF PatchRow
<1>3. CASE PatchSecurity(p)
  <2>1. /\ security' \in SecurityType
        /\ viewLimits' \in SUBSET Limits /\ downloadLimits' \in SUBSET Limits
        /\ raced' \in BOOLEAN
    <3>1. ASSUME NEW new \in SecurityType, WriteSecurity(p, new)
          PROVE  /\ security' \in SecurityType
                 /\ viewLimits' \in SUBSET Limits /\ downloadLimits' \in SUBSET Limits
                 /\ raced' \in BOOLEAN
      BY <3>1 DEF TypeOK, WriteSecurity, SecurityType
    <3>2. NoSecurity \in SecurityType BY DEF NoSecurity, SecurityType, Passwords
    <3>3. CASE UNCHANGED <<security, viewLimits, downloadLimits, raced>>
      BY <3>3 DEF TypeOK
    <3> QED BY <1>3, <3>1, <3>2, <3>3, NextSecurityType DEF PatchSecurity
  <2>2. \/ EndPatch(p)
        \/ patchPc' = [patchPc EXCEPT ![p] = "revoke"] /\ UNCHANGED <<body, current>>
    BY <1>3 DEF PatchSecurity
  <2>3. /\ patchPc' \in [Patches -> PatchSteps]
        /\ body' \in [Patches -> BodyType]
        /\ current' \in [Patches -> SecurityType]
    BY <2>2, EndPatchType DEF TypeOK, PatchSteps
  <2> QED BY <1>3, <2>1, <2>3 DEF TypeOK, PatchSecurity
<1>4. CASE PatchRevoke(p)
  <2>1. ASSUME NEW t \in Tokens
        PROVE  [tokens[t] EXCEPT !.revoked = TRUE] \in TokenType
    <3>1. tokens[t] \in TokenType BY DEF TypeOK
    <3> QED BY <3>1 DEF TokenType
  <2>2. tokens' \in [Tokens -> TokenType] BY <1>4, <2>1 DEF TypeOK, PatchRevoke
  <2> QED BY <1>4, <2>2, EndPatchType DEF TypeOK, PatchRevoke
<1> QED BY <1>1, <1>2, <1>3, <1>4 DEF PatchStep

\* The owner's other operations, a restart and the passage of time.
LEMMA EventType ==
  ASSUME TypeOK, Expire \/ RemoveFiles \/ RemoveRow \/ Restart \/ Tick
  PROVE  TypeOK'
<1> USE DEF shareVars, countVars, reqVars, patchVars, histVars
<1>1. CASE Expire BY <1>1 DEF TypeOK, Expire, Times, Never
<1>2. CASE RemoveFiles BY <1>2 DEF TypeOK, RemoveFiles
<1>3. CASE RemoveRow
  <2>1. NoSecurity \in SecurityType BY DEF NoSecurity, SecurityType, Passwords
  <2>2. NoToken \in TokenType BY DEF NoToken, TokenType, Passwords
  <2> QED BY <1>3, <2>1, <2>2 DEF TypeOK, RemoveRow
<1>4. CASE Restart
  <2>1. NoReq \in ReqType /\ NoSnap \in SnapType
    BY DEF NoReq, ReqType, Kinds, NoSnap, SnapType, Passwords, Never
  <2>2. NoBody \in BodyType /\ NoSecurity \in SecurityType
    BY DEF NoBody, BodyType, NoSecurity, SecurityType, Passwords
  <2> QED BY <1>4, <2>1, <2>2 DEF TypeOK, Restart, Steps, PatchSteps
<1>5. CASE Tick BY <1>5 DEF TypeOK, Tick, Times
<1> QED BY <1>1, <1>2, <1>3, <1>4, <1>5

LEMMA TypeStep == TypeOK /\ [Next]_vars => TypeOK'
<1> SUFFICES ASSUME TypeOK, [Next]_vars PROVE TypeOK' OBVIOUS
<1>1. CASE UNCHANGED vars
  BY <1>1 DEF TypeOK, vars, shareVars, countVars, reqVars, patchVars, histVars
<1>2. CASE Next BY <1>2, RequestType, PatchType, EventType DEF Next
<1> QED BY <1>1, <1>2

\* Every reachable state is well typed: no step of a request, of a PATCH or of
\* the owner leaves a value of another kind behind, whatever the interleaving.
THEOREM TypeCorrect == Spec => []TypeOK
BY InitType, TypeStep, PTL DEF Spec

----------------------------------------------------------------------------
(* The counters and the limits.  A request counts under a limit it read in  *)
(* an earlier step; that limit may have been replaced since, but it was in  *)
(* force once.                                                              *)

ReadLimits ==
  /\ exists => security.maxViews \in viewLimits /\ security.maxDownloads \in downloadLimits
  /\ \A r \in Requests : pc[r] = "countView" => limit[r] \in viewLimits
  /\ \A r \in Requests : pc[r] = "countDownload" => limit[r] \in downloadLimits /\ limit[r] > 0

LimitInv == TypeOK /\ ReadLimits /\ ViewsWithinLimits /\ DownloadsWithinLimits

\* Counters that stand still stay within limits that only accumulate.
LEMMA CountersStill ==
  ASSUME LimitInv, UNCHANGED <<views, downloads>>,
         viewLimits \subseteq viewLimits', downloadLimits \subseteq downloadLimits'
  PROVE  ViewsWithinLimits' /\ DownloadsWithinLimits'
BY DEF LimitInv, ViewsWithinLimits, DownloadsWithinLimits

\* A request that moves to a step other than the two counting ones, while the
\* limits stand still, does not disturb what the others read.
LEMMA OthersRead ==
  ASSUME LimitInv, NEW r \in Requests, NEW step \in Steps \ {"countView", "countDownload"},
         pc' = [pc EXCEPT ![r] = step],
         \A q \in Requests \ {r} : limit'[q] = limit[q],
         UNCHANGED <<exists, security, viewLimits, downloadLimits>>
  PROVE  ReadLimits'
<1>1. \A q \in Requests : q # r => pc'[q] = pc[q] BY DEF LimitInv, TypeOK
<1>2. pc'[r] = step BY DEF LimitInv, TypeOK
<1> QED BY <1>1, <1>2 DEF LimitInv, ReadLimits

LEMMA FinishLimits ==
  ASSUME LimitInv, NEW r \in Requests, Finish(r) \/ Limited(r),
         UNCHANGED <<exists, security, viewLimits, downloadLimits>>
  PROVE  ReadLimits'
<1>1. \A q \in Requests \ {r} : limit'[q] = limit[q]
  BY DEF Finish, Limited, LimitInv, TypeOK
<1>2. CASE Finish(r) BY <1>1, <1>2, OthersRead DEF Finish, Steps
<1>3. CASE Limited(r) BY <1>1, <1>3, OthersRead DEF Limited, Steps
<1> QED BY <1>2, <1>3

LEMMA GotoLimits ==
  ASSUME LimitInv, NEW r \in Requests, NEW step \in Steps \ {"countView", "countDownload"},
         Goto(r, step), UNCHANGED limit,
         UNCHANGED <<exists, security, viewLimits, downloadLimits>>
  PROVE  ReadLimits'
BY OthersRead DEF Goto

\* A request that reads a limit of the row and goes to count under it.
LEMMA ReadLimitStep ==
  ASSUME LimitInv, NEW r \in Requests, NEW step \in {"countView", "countDownload"},
         NEW m \in Limits, Goto(r, step), limit' = [limit EXCEPT ![r] = m],
         step = "countView" => m \in viewLimits,
         step = "countDownload" => m \in downloadLimits /\ m > 0,
         UNCHANGED <<exists, security, viewLimits, downloadLimits>>
  PROVE  ReadLimits'
<1>1. \A q \in Requests : q # r => pc'[q] = pc[q] /\ limit'[q] = limit[q]
  BY DEF LimitInv, TypeOK, Goto
<1>2. pc'[r] = step /\ limit'[r] = m BY DEF LimitInv, TypeOK, Goto
<1> QED BY <1>1, <1>2 DEF LimitInv, ReadLimits

LEMMA RequestLimits ==
  ASSUME LimitInv, NEW r \in Requests, RequestStep(r)
  PROVE  ReadLimits' /\ ViewsWithinLimits' /\ DownloadsWithinLimits'
<1> USE DEF shareVars, countVars, reqVars, patchVars, histVars
<1>1. UNCHANGED <<exists, security, viewLimits, downloadLimits>>
  BY DEF RequestStep, Start, GuardRead, GuardCheck, CountRead, CountView, ReserveRead,
         CountDownload, Deliver, DeliveryFails, TokenGuard, TokenRead, TokenCreate,
         TokensExhausted
<1>2. CASE Start(r)
  <2>1. PICK k \in Kinds : pc' = [pc EXCEPT ![r] = IF k = "token" THEN "tokenGuard" ELSE "guard"]
    BY <1>2 DEF Start
  <2>2. (IF k = "token" THEN "tokenGuard" ELSE "guard") \in Steps \ {"countView", "countDownload"}
    BY DEF Steps
  <2>3. UNCHANGED <<limit, views, downloads>> BY <1>2 DEF Start
  <2> QED BY <1>1, <2>1, <2>2, <2>3, OthersRead, CountersStill
<1>3. CASE GuardRead(r) \/ TokenGuard(r) \/ TokenRead(r)
  <2>1. \/ Finish(r) \/ Limited(r)
        \/ \E step \in {"check", "tokenRead", "tokenCreate"} : Goto(r, step) /\ UNCHANGED limit
    BY <1>3 DEF GuardRead, TokenGuard, TokenRead
  <2>2. ReadLimits' BY <1>1, <2>1, FinishLimits, GotoLimits DEF Steps
  <2> QED BY <1>1, <1>3, <2>2, CountersStill DEF GuardRead, TokenGuard, TokenRead
<1>4. CASE GuardCheck(r)
  <2>1. Handler(r) \in Steps \ {"countView", "countDownload"} BY DEF Handler, Steps
  <2>2. ReadLimits' BY <1>1, <1>4, <2>1, FinishLimits, GotoLimits DEF GuardCheck
  <2> QED BY <1>1, <1>4, <2>2, CountersStill DEF GuardCheck
<1>5. CASE CountRead(r)
  <2> SUFFICES ReadLimits' BY <1>1, <1>5, CountersStill DEF CountRead
  <2>1. CASE Finish(r) BY <1>1, <2>1, FinishLimits
  <2>2. CASE Goto(r, "deliver") /\ UNCHANGED limit BY <1>1, <2>2, GotoLimits DEF Steps
  <2>3. CASE exists /\ limit' = [limit EXCEPT ![r] = security.maxViews] /\ Goto(r, "countView")
    BY <1>1, <2>3, ReadLimitStep DEF LimitInv, ReadLimits, TypeOK, SecurityType
  <2> QED BY <1>5, <2>1, <2>2, <2>3 DEF CountRead
<1>6. CASE CountView(r)
  <2>1. CASE HasRoom(views, limit[r]) /\ views' = views + 1 /\ Goto(r, "deliver")
             /\ UNCHANGED limit
    <3>1. ReadLimits' BY <1>1, <2>1, GotoLimits DEF Steps
    <3>2. limit[r] \in viewLimits /\ limit[r] \in Nat /\ views \in Nat
      BY <1>6 DEF LimitInv, ReadLimits, CountView, TypeOK
    <3>3. ViewsWithinLimits'
      BY <1>1, <2>1, <3>2 DEF ViewsWithinLimits, HasRoom
    <3>4. DownloadsWithinLimits'
      BY <1>1, <1>6 DEF LimitInv, DownloadsWithinLimits, CountView
    <3> QED BY <3>1, <3>3, <3>4
  <2>2. CASE (Finish(r) \/ Limited(r)) /\ UNCHANGED views
    BY <1>1, <1>6, <2>2, FinishLimits, CountersStill DEF CountView
  <2> QED BY <1>6, <2>1, <2>2 DEF CountView
<1>7. CASE ReserveRead(r)
  <2> SUFFICES ReadLimits' BY <1>1, <1>7, CountersStill DEF ReserveRead
  <2>1. CASE Finish(r) BY <1>1, <2>1, FinishLimits
  <2>2. CASE /\ exists /\ security.maxDownloads > 0
             /\ limit' = [limit EXCEPT ![r] = security.maxDownloads]
             /\ Goto(r, "countDownload")
    BY <1>1, <2>2, ReadLimitStep DEF LimitInv, ReadLimits, TypeOK, SecurityType
  <2>3. CASE /\ limit' = [limit EXCEPT ![r] = security.maxDownloads]
             /\ Goto(r, "deliver")
    <3>1. \A q \in Requests \ {r} : limit'[q] = limit[q] BY <2>3 DEF LimitInv, TypeOK
    <3> QED BY <1>1, <2>3, <3>1, OthersRead DEF Goto, Steps
  <2> QED BY <1>7, <2>1, <2>2, <2>3 DEF ReserveRead
<1>8. CASE CountDownload(r)
  <2>1. CASE HasRoom(downloads, limit[r]) /\ downloads' = downloads + 1 /\ Goto(r, "deliver")
             /\ UNCHANGED limit
    <3>1. ReadLimits' BY <1>1, <2>1, GotoLimits DEF Steps
    <3>2. /\ limit[r] \in downloadLimits /\ limit[r] > 0 /\ limit[r] \in Nat
          /\ downloads \in Nat
      BY <1>8 DEF LimitInv, ReadLimits, CountDownload, TypeOK
    <3>3. DownloadsWithinLimits'
      BY <1>1, <2>1, <3>2 DEF DownloadsWithinLimits, HasRoom
    <3>4. ViewsWithinLimits'
      BY <1>1, <1>8 DEF LimitInv, ViewsWithinLimits, CountDownload
    <3> QED BY <3>1, <3>3, <3>4
  <2>2. CASE Limited(r) /\ UNCHANGED downloads
    BY <1>1, <1>8, <2>2, FinishLimits, CountersStill DEF CountDownload
  <2> QED BY <1>8, <2>1, <2>2 DEF CountDownload
<1>9. CASE Deliver(r) \/ DeliveryFails(r) \/ TokenCreate(r) \/ TokensExhausted(r)
  <2>1. Finish(r) /\ UNCHANGED <<views, downloads>>
    BY <1>9 DEF Deliver, DeliveryFails, TokenCreate, TokensExhausted
  <2> QED BY <1>1, <2>1, FinishLimits, CountersStill
<1> QED BY <1>2, <1>3, <1>4, <1>5, <1>6, <1>7, <1>8, <1>9 DEF RequestStep

\* A PATCH never forgets a limit, and the row it writes joins the limits in force.
LEMMA PatchLimits ==
  ASSUME LimitInv, NEW p \in Patches, PatchStep(p)
  PROVE  ReadLimits' /\ ViewsWithinLimits' /\ DownloadsWithinLimits'
<1> USE DEF shareVars, countVars, reqVars, patchVars, histVars
<1>1. /\ UNCHANGED <<exists, views, downloads, pc, limit>>
      /\ \/ UNCHANGED <<security, viewLimits, downloadLimits>>
         \/ \E new : WriteSecurity(p, new)
  BY DEF PatchStep, PatchRead, PatchRow, PatchSecurity, PatchRevoke
<1>2. /\ viewLimits \subseteq viewLimits' /\ downloadLimits \subseteq downloadLimits'
      /\ exists' => security'.maxViews \in viewLimits' /\ security'.maxDownloads \in downloadLimits'
  BY <1>1 DEF LimitInv, ReadLimits, WriteSecurity
<1> QED BY <1>1, <1>2, CountersStill DEF LimitInv, ReadLimits

LEMMA EventLimits ==
  ASSUME LimitInv, Expire \/ RemoveFiles \/ RemoveRow \/ Restart \/ Tick
  PROVE  ReadLimits' /\ ViewsWithinLimits' /\ DownloadsWithinLimits'
<1> USE DEF shareVars, countVars, reqVars, patchVars, histVars
<1>1. UNCHANGED <<views, downloads, viewLimits, downloadLimits>>
  BY DEF Expire, RemoveFiles, RemoveRow, Restart, Tick
<1> SUFFICES ReadLimits' BY <1>1, CountersStill
<1>2. CASE Expire \/ RemoveFiles \/ Tick
  BY <1>2 DEF LimitInv, ReadLimits, Expire, RemoveFiles, Tick
<1>3. CASE RemoveRow BY <1>3 DEF LimitInv, ReadLimits, RemoveRow
<1>4. CASE Restart BY <1>4 DEF LimitInv, ReadLimits, Restart
<1> QED BY <1>2, <1>3, <1>4

LEMMA LimitsAlways == Spec => []LimitInv
<1>1. Init => LimitInv
  <2> SUFFICES ASSUME Init PROVE LimitInv OBVIOUS
  <2>1. ReadLimits BY DEF Init, ReadLimits
  <2>2. ViewsWithinLimits /\ DownloadsWithinLimits
    BY DEF Init, ViewsWithinLimits, DownloadsWithinLimits
  <2> QED BY <2>1, <2>2, InitType DEF LimitInv
<1>2. LimitInv /\ [Next]_vars => LimitInv'
  <2> SUFFICES ASSUME LimitInv, [Next]_vars PROVE LimitInv' OBVIOUS
  <2>1. CASE UNCHANGED vars
    BY <2>1 DEF vars, shareVars, countVars, reqVars, patchVars, histVars, LimitInv, TypeOK,
                ReadLimits, ViewsWithinLimits, DownloadsWithinLimits
  <2>2. CASE Next
    <3>1. TypeOK' BY <2>2, RequestType, PatchType, EventType DEF Next, LimitInv
    <3>2. ReadLimits' /\ ViewsWithinLimits' /\ DownloadsWithinLimits'
      BY <2>2, RequestLimits, PatchLimits, EventLimits DEF Next
    <3> QED BY <3>1, <3>2 DEF LimitInv
  <2> QED BY <2>1, <2>2
<1> QED BY <1>1, <1>2, PTL DEF Spec

\* A share that always had a view limit never counts more views than the
\* largest of its limits: for any number of concurrent requests and PATCHes
\* (stream-view-counter.service.ts).
THEOREM ViewsStayWithin == Spec => []ViewsWithinLimits
<1>1. LimitInv => ViewsWithinLimits BY DEF LimitInv
<1> QED BY <1>1, LimitsAlways, PTL

\* The download counter never passes the largest limit it was counted under,
\* whatever periods without a limit come in between (downloadLimit.guard.ts).
THEOREM DownloadsStayWithin == Spec => []DownloadsWithinLimits
<1>1. LimitInv => DownloadsWithinLimits BY DEF LimitInv
<1> QED BY <1>1, LimitsAlways, PTL
----------------------------------------------------------------------------
(* What is paid for.  A delivery under way holds the unit that paid for it. *)

\* Between the guard and the delivery only streams count views and only
\* downloads reserve them.
StepKinds ==
  \A r \in Requests :
    /\ pc[r] \in {"count", "countView"} => req[r].kind = "stream"
    /\ pc[r] \in {"reserve", "countDownload"} => req[r].kind \in {"download", "zip"}

\* A visitor's stream, or a limited download, that is about to be sent.
Streaming(r) ==
  pc[r] = "deliver" /\ req[r].kind = "stream" /\ ~req[r].range /\ ~IsPrivileged(r)
Fetching(r) == pc[r] = "deliver" /\ limit[r] > 0 /\ req[r].kind \in {"download", "zip"}

Streams == {r \in Requests : Streaming(r)}
Fetches == {r \in Requests : Fetching(r)}
PaidInv ==
  /\ TypeOK /\ StepKinds
  /\ IsFiniteSet(Streams) /\ StreamsArePaid
  /\ IsFiniteSet(Fetches) /\ DownloadsArePaid

Unit(b) == IF b THEN 1 ELSE 0

\* Two sets that agree but for one element differ in size by at most one.
LEMMA OneApart ==
  ASSUME NEW S, NEW U, NEW x, IsFiniteSet(S), S \ {x} = U \ {x}
  PROVE  /\ IsFiniteSet(U)
         /\ Cardinality(U) + Unit(x \in S) = Cardinality(S) + Unit(x \in U)
<1> DEFINE R == S \ {x}
<1>1. IsFiniteSet(R) /\ Cardinality(R) + Unit(x \in S) = Cardinality(S)
  <2>1. Cardinality(S) \in Nat BY FS_CardinalityType
  <2>2. IsFiniteSet(R) /\ Cardinality(R) = IF x \in S THEN Cardinality(S) - 1 ELSE Cardinality(S)
    BY FS_RemoveElement
  <2> QED BY <2>1, <2>2 DEF Unit
<1>2. CASE x \in U
  <2>1. U = R \cup {x} /\ x \notin R BY <1>2
  <2>2. IsFiniteSet(U) /\ Cardinality(U) = Cardinality(R) + 1
    BY <1>1, <2>1, FS_AddElement
  <2> HIDE DEF R
  <2> QED BY <1>1, <1>2, <2>2, FS_CardinalityType DEF Unit
<1>3. CASE x \notin U
  <2>1. U = R BY <1>3
  <2> HIDE DEF R
  <2> QED BY <1>1, <1>3, <2>1, FS_CardinalityType DEF Unit
<1> QED BY <1>2, <1>3

\* A step of a request leaves the others where they are.
LEMMA OthersStay ==
  ASSUME TypeOK, NEW r \in Requests, RequestStep(r)
  PROVE  \A q \in Requests \ {r} : pc'[q] = pc[q] /\ req'[q] = req[q] /\ limit'[q] = limit[q]
<1>1. CASE Start(r) BY <1>1 DEF Start, TypeOK
<1>2. CASE GuardRead(r) BY <1>2 DEF GuardRead, Finish, Goto, TypeOK
<1>3. CASE GuardCheck(r) BY <1>3 DEF GuardCheck, Finish, Limited, Goto, TypeOK
<1>4. CASE CountRead(r) BY <1>4 DEF CountRead, Finish, Goto, TypeOK
<1>5. CASE CountView(r) BY <1>5 DEF CountView, Finish, Limited, Goto, TypeOK
<1>6. CASE ReserveRead(r) BY <1>6 DEF ReserveRead, Finish, Goto, TypeOK
<1>7. CASE CountDownload(r) BY <1>7 DEF CountDownload, Limited, Goto, TypeOK
<1>8. CASE Deliver(r) \/ DeliveryFails(r) \/ TokenCreate(r) \/ TokensExhausted(r)
  BY <1>8 DEF Deliver, DeliveryFails, TokenCreate, TokensExhausted, Finish, TypeOK
<1>9. CASE TokenGuard(r) \/ TokenRead(r)
  BY <1>9 DEF TokenGuard, TokenRead, Finish, Limited, Goto, TypeOK
<1> QED
  BY <1>1, <1>2, <1>3, <1>4, <1>5, <1>6, <1>7, <1>8, <1>9 DEF RequestStep

\* A request that comes to rest, or goes on short of its delivery, sends nothing.
LEMMA NotSending ==
  ASSUME TypeOK, NEW r \in Requests,
         \/ Finish(r) \/ Limited(r)
         \/ \E step \in Steps \ {"deliver"} : Goto(r, step)
  PROVE  ~Streaming(r)' /\ ~Fetching(r)'
BY DEF TypeOK, Finish, Limited, Goto, Streaming, Fetching, Steps

\* Who counts or reserves got there from the guard.
LEMMA KindsStep ==
  ASSUME TypeOK, StepKinds, NEW r \in Requests, RequestStep(r)
  PROVE  StepKinds'
<1> DEFINE Counting == {"count", "countView", "reserve", "countDownload"}
<1>1. CASE pc'[r] \notin Counting
  BY <1>1, OthersStay DEF StepKinds
<1>2. CASE pc'[r] \in Counting
  <2>1. ~Finish(r) /\ ~Limited(r) BY <1>2 DEF Finish, Limited, TypeOK
  <2>2. GuardCheck(r) \/ CountRead(r) \/ ReserveRead(r)
    BY <1>2, <2>1 DEF RequestStep, Start, GuardRead, CountView, CountDownload, Deliver,
       DeliveryFails, TokenGuard, TokenRead, TokenCreate, TokensExhausted, Goto, TypeOK
  <2>3. /\ req'[r].kind = req[r].kind
        /\ pc'[r] \in {"count", "countView"} => req[r].kind = "stream"
        /\ pc'[r] \in {"reserve", "countDownload"} => req[r].kind \in {"download", "zip"}
    BY <2>1, <2>2 DEF GuardCheck, CountRead, ReserveRead, Goto, Handler, StepKinds, TypeOK
  <2> QED BY <2>3, OthersStay DEF StepKinds
<1> QED BY <1>1, <1>2

\* What a step of a request takes from the counters, it gives to its own
\* delivery; and a delivery ends by being counted, or by not taking place.
LEMMA RequestPays ==
  ASSUME TypeOK, StepKinds, NEW r \in Requests, RequestStep(r)
  PROVE  /\ played' + Unit(Streaming(r)') + views <= played + Unit(Streaming(r)) + views'
         /\ fetched' + Unit(Fetching(r)') + downloads
              <= fetched + Unit(Fetching(r)) + downloads'
<1> DEFINE Pays == /\ played' + Unit(Streaming(r)') + views
                        <= played + Unit(Streaming(r)) + views'
                   /\ fetched' + Unit(Fetching(r)') + downloads
                        <= fetched + Unit(Fetching(r)) + downloads'
<1>1. /\ views \in Nat /\ downloads \in Nat /\ played \in Nat /\ fetched \in Nat
      /\ \A b : Unit(b) \in {0, 1}
      /\ \A b \in BOOLEAN : Unit(b) = IF b THEN 1 ELSE 0
  BY DEF TypeOK, Unit
<1>2. /\ Streaming(r) \in BOOLEAN /\ Streaming(r)' \in BOOLEAN
      /\ Fetching(r) \in BOOLEAN /\ Fetching(r)' \in BOOLEAN
  BY DEF Streaming, Fetching
<1>3. ASSUME ~Streaming(r)', ~Fetching(r)', UNCHANGED <<played, fetched>>,
             UNCHANGED countVars
      PROVE  Pays
  BY <1>1, <1>2, <1>3 DEF countVars
<1>4. CASE Start(r)
  <2>1. pc'[r] # "deliver" BY <1>4 DEF Start, TypeOK
  <2> QED BY <2>1, <1>3, <1>4 DEF Start, Streaming, Fetching, histVars
<1>5. CASE GuardRead(r) \/ TokenGuard(r) \/ TokenRead(r)
  <2>1. \/ Finish(r) \/ Limited(r)
        \/ \E step \in Steps \ {"deliver"} : Goto(r, step)
    BY <1>5 DEF GuardRead, TokenGuard, TokenRead, Steps
  <2>2. ~Streaming(r)' /\ ~Fetching(r)' BY <2>1, NotSending
  <2> QED BY <2>2, <1>3, <1>5 DEF GuardRead, TokenGuard, TokenRead, histVars
<1>6. CASE GuardCheck(r)
  <2>1. ~Streaming(r)' /\ ~Fetching(r)'
    <3>1. CASE Finish(r) \/ Limited(r) BY <3>1, NotSending
    <3>2. CASE Goto(r, Handler(r))
      BY <3>2 DEF Goto, Handler, Streaming, Fetching, IsPrivileged, TypeOK
    <3> QED BY <1>6, <3>1, <3>2 DEF GuardCheck
  <2> QED BY <2>1, <1>3, <1>6 DEF GuardCheck, histVars
<1>7. CASE CountRead(r)
  <2>1. ~Streaming(r)' /\ ~Fetching(r)'
    <3>1. CASE Finish(r) \/ Goto(r, "countView") BY <3>1, NotSending DEF Steps
    <3>2. CASE req[r].range /\ Goto(r, "deliver")
      <4>1. req'[r] = req[r] /\ req[r].kind = "stream"
        BY <1>7, <3>2 DEF Goto, CountRead, StepKinds
      <4> QED BY <3>2, <4>1 DEF Streaming, Fetching
    <3> QED BY <1>7, <3>1, <3>2 DEF CountRead
  <2> QED BY <2>1, <1>3, <1>7 DEF CountRead, histVars
<1>8. CASE CountView(r)
  <2>1. CASE Finish(r) \/ Limited(r)
    BY <2>1, NotSending, <1>3, <1>8 DEF CountView, histVars, countVars, Finish, Limited,
       Goto, TypeOK
  <2>2. CASE views' = views + 1 /\ Goto(r, "deliver")
    <3>1. ~Fetching(r)'
      BY <1>8, <2>2 DEF CountView, Goto, StepKinds, Fetching
    <3>2. UNCHANGED <<downloads, played, fetched>> BY <1>8 DEF CountView, histVars
    <3> HIDE DEF CountView
    <3> QED BY <2>2, <3>1, <3>2, <1>1, <1>2
  <2> QED BY <1>8, <2>1, <2>2 DEF CountView
<1>9. CASE ReserveRead(r)
  <2>1. ~Streaming(r)' /\ ~Fetching(r)'
    <3>1. CASE Finish(r) \/ Goto(r, "countDownload") BY <3>1, NotSending DEF Steps
    <3>2. CASE /\ limit' = [limit EXCEPT ![r] = security.maxDownloads]
               /\ ~(security.maxDownloads > 0) /\ Goto(r, "deliver")
      <4>1. limit'[r] = security.maxDownloads BY <3>2 DEF TypeOK
      <4>2. req'[r].kind \in {"download", "zip"}
        BY <1>9, <3>2 DEF ReserveRead, Goto, StepKinds
      <4> QED BY <3>2, <4>1, <4>2 DEF Streaming, Fetching
    <3> QED BY <1>9, <3>1, <3>2 DEF ReserveRead
  <2> QED BY <2>1, <1>3, <1>9 DEF ReserveRead, histVars
<1>10. CASE CountDownload(r)
  <2>1. CASE Limited(r) /\ UNCHANGED downloads
    BY <2>1, NotSending, <1>3, <1>10 DEF CountDownload, histVars, countVars
  <2>2. CASE downloads' = downloads + 1 /\ Goto(r, "deliver")
    <3>1. ~Streaming(r)'
      BY <1>10, <2>2 DEF CountDownload, Goto, StepKinds, Streaming
    <3>2. UNCHANGED <<views, played, fetched>> BY <1>10 DEF CountDownload, histVars
    <3> QED BY <2>2, <3>1, <3>2, <1>1, <1>2
  <2> QED BY <1>10, <2>1, <2>2 DEF CountDownload
<1>11. CASE Deliver(r)
  <2>1. ~Streaming(r)' /\ ~Fetching(r)' BY <1>11, NotSending DEF Deliver
  <2>2. /\ played' = played + Unit(Streaming(r)) /\ fetched' = fetched + Unit(Fetching(r))
        /\ UNCHANGED <<views, downloads>>
    <3>1. /\ played' = IF Streaming(r) THEN played + 1 ELSE played
          /\ fetched' = IF Fetching(r) THEN fetched + 1 ELSE fetched
      BY <1>11 DEF Deliver, Streaming, Fetching
    <3>2. UNCHANGED <<views, downloads>> BY <1>11 DEF Deliver, countVars
    <3> QED BY <3>1, <3>2, <1>1, <1>2
  <2> QED BY <2>1, <2>2, <1>1, <1>2
<1>12. CASE DeliveryFails(r) \/ TokenCreate(r) \/ TokensExhausted(r)
  <2>1. Finish(r) BY <1>12 DEF DeliveryFails, TokenCreate, TokensExhausted
  <2> QED
    BY <2>1, NotSending, <1>3, <1>12 DEF DeliveryFails, TokenCreate, TokensExhausted, histVars
<1> QED
  BY <1>4, <1>5, <1>6, <1>7, <1>8, <1>9, <1>10, <1>11, <1>12 DEF RequestStep

\* The sets of deliveries under way change by the request that steps.
LEMMA RequestPaid ==
  ASSUME PaidInv, NEW r \in Requests, RequestStep(r)
  PROVE  PaidInv'
<1>1. TypeOK' /\ StepKinds' BY RequestType, KindsStep DEF PaidInv
<1>2. Streams \ {r} = Streams' \ {r} /\ Fetches \ {r} = Fetches' \ {r}
  BY OthersStay DEF PaidInv, Streams, Fetches, Streaming, Fetching, IsPrivileged
<1>3. /\ r \in Streams <=> Streaming(r)
      /\ r \in Streams' <=> Streaming(r)'
      /\ r \in Fetches <=> Fetching(r)
      /\ r \in Fetches' <=> Fetching(r)'
  BY DEF Streams, Fetches
<1>4. /\ IsFiniteSet(Streams')
      /\ Cardinality(Streams') + Unit(Streaming(r))
           = Cardinality(Streams) + Unit(Streaming(r)')
  <2>1. IsFiniteSet(Streams) BY DEF PaidInv
  <2> QED BY <2>1, <1>2, <1>3, OneApart DEF Unit
<1>5. /\ IsFiniteSet(Fetches')
      /\ Cardinality(Fetches') + Unit(Fetching(r))
           = Cardinality(Fetches) + Unit(Fetching(r)')
  <2>1. IsFiniteSet(Fetches) BY DEF PaidInv
  <2> QED BY <2>1, <1>2, <1>3, OneApart DEF Unit
<1>6. /\ played + Cardinality(Streams) <= views
      /\ fetched + Cardinality(Fetches) <= downloads
  BY DEF PaidInv, StreamsArePaid, DownloadsArePaid, Streams, Streaming, Fetches, Fetching
<1>7. /\ Cardinality(Streams) \in Nat /\ Cardinality(Streams') \in Nat
      /\ Cardinality(Fetches) \in Nat /\ Cardinality(Fetches') \in Nat
  BY <1>4, <1>5, FS_CardinalityType DEF PaidInv
<1>8. /\ played \in Nat /\ played' \in Nat /\ views \in Nat /\ views' \in Nat
      /\ fetched \in Nat /\ fetched' \in Nat /\ downloads \in Nat /\ downloads' \in Nat
      /\ \A b : Unit(b) \in {0, 1}
  BY <1>1 DEF PaidInv, TypeOK, Unit
<1>9. played' + Cardinality(Streams') <= views' /\ fetched' + Cardinality(Fetches') <= downloads'
  <2>1. /\ played' + Unit(Streaming(r)') + views <= played + Unit(Streaming(r)) + views'
        /\ fetched' + Unit(Fetching(r)') + downloads
             <= fetched + Unit(Fetching(r)) + downloads'
    BY RequestPays DEF PaidInv
  <2> QED BY <2>1, <1>4, <1>5, <1>6, <1>7, <1>8
<1>10. StreamsArePaid' /\ DownloadsArePaid'
  BY <1>9 DEF StreamsArePaid, DownloadsArePaid, Streams, Streaming, Fetches, Fetching
<1> QED BY <1>1, <1>4, <1>5, <1>10 DEF PaidInv

\* What else happens keeps the deliveries under way, or ends them all.
LEMMA OtherPaid ==
  ASSUME PaidInv, UNCHANGED <<countVars, played, fetched>>, TypeOK',
         UNCHANGED <<pc, req, limit>> \/ \A r \in Requests : pc'[r] = "idle"
  PROVE  PaidInv'
<1>1. CASE UNCHANGED <<pc, req, limit>>
  <2>1. Streams' = Streams /\ Fetches' = Fetches
    BY <1>1 DEF Streams, Fetches, Streaming, Fetching, IsPrivileged
  <2>2. StepKinds' BY <1>1 DEF PaidInv, StepKinds
  <2>3. StreamsArePaid' /\ DownloadsArePaid'
    BY <1>1 DEF PaidInv, StreamsArePaid, DownloadsArePaid, IsPrivileged, countVars
  <2> QED BY <2>1, <2>2, <2>3 DEF PaidInv
<1>2. CASE \A r \in Requests : pc'[r] = "idle"
  <2>1. Streams' = {} /\ Fetches' = {}
    BY <1>2 DEF Streams, Fetches, Streaming, Fetching
  <2>2. StepKinds' BY <1>2 DEF StepKinds
  <2>3. IsFiniteSet({}) /\ Cardinality({}) = 0 BY FS_EmptySet
  <2>4. played <= views /\ fetched <= downloads
    <3>1. /\ played + Cardinality(Streams) <= views
          /\ fetched + Cardinality(Fetches) <= downloads
      BY DEF PaidInv, StreamsArePaid, DownloadsArePaid, Streams, Streaming, Fetches, Fetching
    <3>2. Cardinality(Streams) \in Nat /\ Cardinality(Fetches) \in Nat
      BY FS_CardinalityType DEF PaidInv
    <3> QED BY <3>1, <3>2 DEF PaidInv, TypeOK
  <2>5. /\ played' + Cardinality(Streams') <= views'
        /\ fetched' + Cardinality(Fetches') <= downloads'
    BY <2>1, <2>3, <2>4 DEF PaidInv, TypeOK, countVars
  <2>6. StreamsArePaid' /\ DownloadsArePaid'
    BY <2>5 DEF StreamsArePaid, DownloadsArePaid, Streams, Streaming, Fetches, Fetching
  <2> QED BY <2>1, <2>2, <2>3, <2>6 DEF PaidInv
<1> QED BY <1>1, <1>2

LEMMA PaidAlways == Spec => []PaidInv
<1>1. Init => PaidInv
  <2> SUFFICES ASSUME Init PROVE PaidInv OBVIOUS
  <2>1. \A r \in Requests : pc[r] = "idle" BY DEF Init
  <2>2. Streams = {} /\ Fetches = {}
    BY <2>1 DEF Streams, Fetches, Streaming, Fetching
  <2>3. IsFiniteSet({}) /\ Cardinality({}) = 0 BY FS_EmptySet
  <2>4. StreamsArePaid /\ DownloadsArePaid
    <3>1. played + Cardinality(Streams) <= views /\ fetched + Cardinality(Fetches) <= downloads
      BY <2>2, <2>3 DEF Init
    <3> QED
      BY <3>1 DEF StreamsArePaid, DownloadsArePaid, Streams, Streaming, Fetches, Fetching
  <2>5. StepKinds BY <2>1 DEF StepKinds
  <2> QED BY <2>2, <2>3, <2>4, <2>5, InitType DEF PaidInv
<1>2. PaidInv /\ [Next]_vars => PaidInv'
  <2> SUFFICES ASSUME PaidInv, [Next]_vars PROVE PaidInv' OBVIOUS
  <2>1. ASSUME NEW r \in Requests, RequestStep(r) PROVE PaidInv' BY <2>1, RequestPaid
  <2>2. CASE UNCHANGED vars
    <3>1. UNCHANGED <<countVars, played, fetched, pc, req, limit>>
      BY <2>2 DEF vars, reqVars, histVars
    <3>2. TypeOK'
      BY <2>2 DEF PaidInv, TypeOK, vars, shareVars, countVars, reqVars, patchVars, histVars
    <3> QED BY <3>1, <3>2, OtherPaid
  <2>3. ASSUME NEW p \in Patches, PatchStep(p) PROVE PaidInv'
    <3>1. UNCHANGED <<countVars, played, fetched, pc, req, limit>>
      BY <2>3 DEF PatchStep, PatchRead, PatchRow, PatchSecurity, PatchRevoke, reqVars, histVars
    <3>2. TypeOK' BY <2>3, PatchType DEF PaidInv
    <3> QED BY <3>1, <3>2, OtherPaid
  <2>4. CASE Expire \/ RemoveFiles \/ RemoveRow \/ Restart \/ Tick
    <3>1. /\ UNCHANGED <<countVars, played, fetched>>
          /\ UNCHANGED <<pc, req, limit>> \/ \A r \in Requests : pc'[r] = "idle"
      BY <2>4 DEF Expire, RemoveFiles, RemoveRow, Restart, Tick, reqVars, histVars
    <3>2. TypeOK' BY <2>4, EventType DEF PaidInv
    <3> QED BY <3>1, <3>2, OtherPaid
  <2> QED BY <2>1, <2>2, <2>3, <2>4 DEF Next
<1> QED BY <1>1, <1>2, PTL DEF Spec

\* However many visitors open streams at once, and whatever PATCHes, restarts and
\* failed deliveries come in between, the streams sent and the streams about to
\* be sent never exceed the views counted (stream-view-counter.service.ts).
THEOREM NoFreeStreams == Spec => []StreamsArePaid
<1>1. PaidInv => StreamsArePaid BY DEF PaidInv
<1> QED BY <1>1, PaidAlways, PTL

\* The same for the downloads and the zips of a limited share
\* (downloadLimit.guard.ts).
THEOREM NoFreeDownloads == Spec => []DownloadsArePaid
<1>1. PaidInv => DownloadsArePaid BY DEF PaidInv
<1> QED BY <1>1, PaidAlways, PTL

----------------------------------------------------------------------------
(* Tokens and passwords.  PATCHes write the password in one step and revoke *)
(* the tokens in a later one; tokens are created from an earlier read.      *)

TokenInv == TypeOK /\ StaleTokensOnlyFromRaces

\* What may explain a token of another password: an accident, or a revocation due.
Explained == raced \/ \E p \in Patches : patchPc[p] = "revoke"

\* A new token carries the password that was read; it is stale unless that one
\* is still in force.
LEMMA CreateTokens ==
  ASSUME TokenInv, NEW r \in Requests, TokenCreate(r)
  PROVE  StaleTokensOnlyFromRaces'
<1>1. UNCHANGED <<security, raced, patchPc>>
  BY DEF TokenCreate, shareVars, patchVars, histVars
<1>2. CASE UNCHANGED tokens
  BY <1>1, <1>2 DEF TokenInv, StaleTokensOnlyFromRaces
<1>3. ASSUME NEW t \in Tokens,
             tokens' = [tokens EXCEPT ![t] =
                [issued |-> TRUE, revoked |-> FALSE,
                 expiresAt |-> IF snap[r].expiration = Never THEN clock + TokenLife
                               ELSE snap[r].expiration,
                 password |-> snap[r].password,
                 stale |-> snap[r].password # security.password]]
      PROVE  StaleTokensOnlyFromRaces'
  <2>1. tokens'[t].stale = (tokens'[t].password # security.password)
    BY <1>3 DEF TokenInv, TypeOK
  <2>2. \A u \in Tokens : u # t => tokens'[u] = tokens[u]
    BY <1>3 DEF TokenInv, TypeOK
  <2> QED BY <1>1, <2>1, <2>2 DEF TokenInv, StaleTokensOnlyFromRaces
<1> QED BY <1>2, <1>3 DEF TokenCreate

\* A password is replaced by one that the body gives, and then a revocation is
\* due; or by what an earlier read wrote back.
LEMMA PatchTokens ==
  ASSUME TokenInv, NEW p \in Patches, PatchSecurity(p)
  PROVE  StaleTokensOnlyFromRaces'
<1>1. UNCHANGED tokens BY DEF PatchSecurity
<1>2. /\ current[p] \in SecurityType /\ security \in SecurityType /\ body[p] \in BodyType
      /\ patchPc \in [Patches -> PatchSteps] /\ patchPc[p] = "security"
  BY DEF TokenInv, TypeOK, PatchSecurity
<1>3. \A q \in Patches : patchPc[q] = "revoke" => patchPc'[q] = "revoke"
  BY <1>2 DEF PatchSecurity, EndPatch
<1>4. CASE UNCHANGED <<security, raced>>
  BY <1>1, <1>3, <1>4 DEF TokenInv, StaleTokensOnlyFromRaces
<1>5. CASE WriteSecurity(p, NoSecurity)
  BY <1>5 DEF WriteSecurity, NoSecurity, StaleTokensOnlyFromRaces
<1>6. CASE WriteSecurity(p, NextSecurity(p)) /\ PasswordChanges(p)
           /\ patchPc' = [patchPc EXCEPT ![p] = "revoke"]
  <2>1. patchPc'[p] = "revoke" BY <1>2, <1>6
  <2> QED BY <2>1 DEF StaleTokensOnlyFromRaces
<1>7. CASE WriteSecurity(p, NextSecurity(p)) /\ ~PasswordChanges(p)
  <2>1. CASE security # current[p]
    BY <1>7, <2>1 DEF WriteSecurity, StaleTokensOnlyFromRaces
  <2>2. CASE security = current[p]
    <3>1. security'.password \in {security.password, 0}
      <4>1. security'.password = Written(body[p].password, current[p].password,
                                         security.password, current[p] # NoSecurity)
        BY <1>7 DEF WriteSecurity, NextSecurity
      <4> QED BY <1>7, <2>2, <4>1 DEF Written, PasswordChanges
    <3>2. raced => raced' BY <1>7 DEF WriteSecurity
    <3> QED BY <1>1, <1>3, <3>1, <3>2 DEF TokenInv, StaleTokensOnlyFromRaces
  <2> QED BY <2>1, <2>2
<1> QED BY <1>4, <1>5, <1>6, <1>7 DEF PatchSecurity

LEMMA TokensStep ==
  ASSUME TokenInv, [Next]_vars
  PROVE  StaleTokensOnlyFromRaces'
<1>1. ASSUME UNCHANGED <<tokens, security, raced>>,
             \A p \in Patches : patchPc[p] = "revoke" => patchPc'[p] = "revoke"
      PROVE  StaleTokensOnlyFromRaces'
  BY <1>1 DEF TokenInv, StaleTokensOnlyFromRaces
<1>2. ASSUME NEW r \in Requests, RequestStep(r) PROVE StaleTokensOnlyFromRaces'
  <2>1. CASE TokenCreate(r) BY <2>1, CreateTokens
  <2>2. CASE ~TokenCreate(r)
    <3>1. UNCHANGED <<tokens, security, raced, patchPc>>
      BY <1>2, <2>2 DEF RequestStep, Start, GuardRead, GuardCheck, CountRead, CountView,
         ReserveRead, CountDownload, Deliver, DeliveryFails, TokenGuard, TokenRead,
         TokensExhausted, shareVars, patchVars, histVars
    <3> QED BY <3>1, <1>1
  <2> QED BY <2>1, <2>2
<1>3. ASSUME NEW p \in Patches, PatchStep(p) PROVE StaleTokensOnlyFromRaces'
  <2>1. CASE PatchSecurity(p) BY <2>1, PatchTokens
  <2>2. CASE PatchRevoke(p)
    <3>1. \A t \in Tokens : tokens'[t].issued => tokens'[t].revoked
      BY <2>2 DEF PatchRevoke, TokenInv, TypeOK, TokenType
    <3> QED BY <3>1 DEF StaleTokensOnlyFromRaces
  <2>3. CASE PatchRead(p) \/ PatchRow(p)
    <3>1. UNCHANGED <<tokens, security, raced>>
      BY <2>3 DEF PatchRead, PatchRow, shareVars, histVars
    <3>2. \A q \in Patches : patchPc[q] = "revoke" => patchPc'[q] = "revoke"
      BY <2>3 DEF PatchRead, PatchRow, EndPatch, TokenInv, TypeOK
    <3> QED BY <3>1, <3>2, <1>1
  <2> QED BY <1>3, <2>1, <2>2, <2>3 DEF PatchStep
<1>4. CASE UNCHANGED vars \/ Expire \/ RemoveFiles \/ Tick
  BY <1>1, <1>4 DEF vars, Expire, RemoveFiles, Tick, shareVars, patchVars, histVars
<1>5. CASE RemoveRow
  BY <1>5 DEF RemoveRow, NoSecurity, StaleTokensOnlyFromRaces
<1>6. CASE Restart
  <2>1. UNCHANGED <<tokens, security>> BY <1>6 DEF Restart, shareVars
  <2>2. Explained => raced' BY <1>6 DEF Restart, Explained
  <2> QED BY <2>1, <2>2 DEF TokenInv, StaleTokensOnlyFromRaces, Explained
<1> QED BY <1>2, <1>3, <1>4, <1>5, <1>6 DEF Next

\* However requests for a token interleave with changes of the password, with
\* restarts and with each other, a live token of another password is about to be
\* revoked, or was created from an earlier read, or PATCHes raced
\* (share.service.ts, updateSecurity and getShareToken).
THEOREM NoForgottenTokens == Spec => []StaleTokensOnlyFromRaces
<1>1. Init => TokenInv
  <2> SUFFICES ASSUME Init PROVE StaleTokensOnlyFromRaces BY InitType DEF TokenInv
  <2>1. \A t \in Tokens : tokens[t].issued => tokens[t].password = security.password
    BY DEF Init, NoToken
  <2> QED BY <2>1 DEF StaleTokensOnlyFromRaces
<1>2. TokenInv /\ [Next]_vars => TokenInv'
  <2>1. TypeOK /\ [Next]_vars => TypeOK' BY TypeStep
  <2> QED BY <2>1, TokensStep DEF TokenInv
<1>3. TokenInv => StaleTokensOnlyFromRaces BY DEF TokenInv
<1> QED BY <1>1, <1>2, <1>3, PTL DEF Spec

----------------------------------------------------------------------------
(* Playback.  A stream touches the session of its token before it is sent,  *)
(* so that the session is at least as young as the last stream delivered,   *)
(* unless the gap has gone by since.                                        *)

Live(t, start) == sessions[t] >= start \/ clock > start + Gap

PlayingOn(r) ==
  /\ req[r].range => req[r].kind = "stream"
  /\ req[r].at <= clock
  /\ pc[r] \in {"count", "countView"} => req[r].kind = "stream" /\ req[r].tok \in Tokens
  /\ pc[r] \in {"reserve", "countDownload"} => req[r].kind # "stream"
  /\ pc[r] = "deliver" /\ req[r].kind = "stream" /\ ~IsPrivileged(r)
       => req[r].tok \in Tokens /\ Live(req[r].tok, req[r].at)

SessionsCover ==
  \A t \in Tokens : lastPlay[t] <= clock /\ (lastPlay[t] > 0 => Live(t, lastPlay[t]))

PlayInv == TypeOK /\ (\A r \in Requests : PlayingOn(r)) /\ SessionsCover

\* What changes the sessions: a touch, the passage of time with its sweep.
SessionStep ==
  \/ UNCHANGED <<clock, sessions>>
  \/ UNCHANGED clock /\ \E u \in Tokens : Touch(u)
  \/ Tick

\* A live session stays live for a stream begun by now.
LEMMA LiveStays ==
  ASSUME TypeOK, SessionStep, NEW t \in Tokens, NEW start \in Nat, start <= clock,
         Live(t, start)
  PROVE  Live(t, start)' /\ start <= clock'
<1>1. clock \in Nat /\ sessions \in [Tokens -> Nat] /\ Gap \in Nat BY DEF TypeOK, Times
<1>2. CASE UNCHANGED <<clock, sessions>> BY <1>2 DEF Live
<1>3. ASSUME UNCHANGED clock, NEW u \in Tokens, Touch(u) PROVE Live(t, start)'
  BY <1>1, <1>3 DEF Live, Touch
<1>4. CASE Tick
  <2>1. clock' = clock + 1
        /\ sessions'[t] = IF clock' <= sessions[t] + Gap THEN sessions[t] ELSE 0
    BY <1>4 DEF Tick
  <2> QED BY <2>1, <1>1 DEF Live
<1> QED BY <1>1, <1>2, <1>3, <1>4 DEF SessionStep, Touch, Tick

\* A request that does not move keeps what is said of it.
LEMMA PlayingStays ==
  ASSUME PlayInv, SessionStep, NEW r \in Requests, pc'[r] = pc[r], req'[r] = req[r]
  PROVE  PlayingOn(r)'
<1>1. req[r].at \in Nat BY DEF PlayInv, TypeOK, ReqType
<1>2. PlayingOn(r) BY DEF PlayInv
<1>3. req[r].at <= clock' BY <1>1, <1>2 DEF PlayInv, PlayingOn, SessionStep, Tick, TypeOK, Times
<1>4. req[r].tok \in Tokens /\ Live(req[r].tok, req[r].at) => Live(req[r].tok, req[r].at)'
  <2>1. \A t \in Tokens, start \in Nat : start <= clock /\ Live(t, start) =>
          sessions'[t] >= start \/ clock' > start + Gap
    BY LiveStays DEF PlayInv, Live
  <2> QED BY <2>1, <1>1, <1>2 DEF Live, PlayingOn
<1> QED BY <1>2, <1>3, <1>4 DEF PlayingOn, IsPrivileged, Live

\* The delivered streams stay covered while none is delivered.
LEMMA CoverStays ==
  ASSUME PlayInv, SessionStep, UNCHANGED lastPlay
  PROVE  SessionsCover'
<1>1. \A t \in Tokens : lastPlay[t] \in Nat BY DEF PlayInv, TypeOK
<1>2. \A t \in Tokens, start \in Nat : start <= clock /\ Live(t, start) =>
        sessions'[t] >= start \/ clock' > start + Gap
  BY LiveStays DEF PlayInv, Live
<1>3. clock <= clock' BY DEF PlayInv, TypeOK, Times, SessionStep, Tick
<1>4. clock \in Nat /\ clock' \in Nat BY DEF PlayInv, TypeOK, Times, SessionStep, Tick
<1> QED BY <1>1, <1>2, <1>3, <1>4 DEF PlayInv, SessionsCover, Live

\* A request that comes to rest, or moves to a step that asks for nothing.
LEMMA PlainMove ==
  ASSUME PlayInv, NEW r \in Requests, UNCHANGED clock,
         \/ Finish(r) \/ Limited(r)
         \/ \E step \in Steps \ {"count", "countView", "reserve", "countDownload", "deliver"} :
              Goto(r, step)
  PROVE  PlayingOn(r)'
<1>1. PlayingOn(r) /\ clock \in Nat BY DEF PlayInv, TypeOK, Times
<1>2. CASE Finish(r)
  <2>1. req'[r] = NoReq /\ pc'[r] = "idle" BY <1>2 DEF Finish, PlayInv, TypeOK
  <2> QED BY <2>1, <1>1 DEF PlayingOn, NoReq
<1>3. CASE ~Finish(r)
  <2>1. /\ req'[r] = req[r]
        /\ pc'[r] \notin {"count", "countView", "reserve", "countDownload", "deliver"}
    BY <1>3 DEF Limited, Goto, PlayInv, TypeOK
  <2> QED BY <2>1, <1>1 DEF PlayingOn
<1> QED BY <1>2, <1>3

\* The request that steps.
LEMMA StepPlays ==
  ASSUME PlayInv, NEW r \in Requests, RequestStep(r)
  PROVE  PlayingOn(r)' /\ SessionStep
<1> USE DEF PlayInv
<1>1. PlayingOn(r) /\ clock \in Nat /\ UNCHANGED clock
  BY DEF TypeOK, Times, RequestStep, Start, GuardRead, GuardCheck, CountRead, CountView,
     ReserveRead, CountDownload, Deliver, DeliveryFails, TokenGuard, TokenRead, TokenCreate,
     TokensExhausted
<1>2. CASE Start(r)
  <2>1. PICK c \in Clients, k \in Routes, range \in BOOLEAN :
          /\ range => k = "stream"
          /\ req' = [req EXCEPT ![r] =
              [client |-> c, kind |-> k, range |-> range, tok |-> cookie[c],
               at |-> IF k = "stream" THEN clock ELSE 0]]
          /\ pc' = [pc EXCEPT ![r] = IF k = "token" THEN "tokenGuard" ELSE "guard"]
    BY <1>2 DEF Start
  <2>2. /\ req'[r].range = range /\ req'[r].kind = k
        /\ req'[r].at = IF k = "stream" THEN clock ELSE 0
        /\ pc'[r] \in {"tokenGuard", "guard"}
    BY <2>1 DEF TypeOK
  <2>3. UNCHANGED sessions BY <1>2 DEF Start
  <2> QED BY <1>1, <2>1, <2>2, <2>3 DEF PlayingOn, SessionStep
<1>3. CASE GuardRead(r) \/ TokenGuard(r) \/ TokenRead(r) \/ Deliver(r) \/ DeliveryFails(r)
           \/ TokenCreate(r) \/ TokensExhausted(r)
  <2>1. \/ Finish(r) \/ Limited(r)
        \/ Goto(r, "check") \/ Goto(r, "tokenRead") \/ Goto(r, "tokenCreate")
    BY <1>3 DEF GuardRead, TokenGuard, TokenRead, Deliver, DeliveryFails, TokenCreate,
       TokensExhausted
  <2>2. UNCHANGED sessions
    BY <1>3 DEF GuardRead, TokenGuard, TokenRead, Deliver, DeliveryFails, TokenCreate,
       TokensExhausted
  <2> QED BY <1>1, <2>1, <2>2, PlainMove DEF Steps, SessionStep
<1>4. CASE GuardCheck(r)
  <2>1. UNCHANGED sessions BY <1>4 DEF GuardCheck
  <2>2. CASE Finish(r) \/ Limited(r) BY <1>1, <2>1, <2>2, PlainMove DEF SessionStep
  <2>3. CASE ~Refused(r) /\ Goto(r, Handler(r))
    <3>1. req'[r] = req[r] /\ pc'[r] = Handler(r) BY <2>3 DEF Goto, TypeOK
    <3>2. ~IsPrivileged(r) => req[r].tok \in Tokens
      BY <2>3 DEF Refused, ValidToken, TypeOK, ReqType
    <3>3. PlayingOn(r)' BY <1>1, <3>1, <3>2 DEF PlayingOn, Handler, IsPrivileged
    <3> QED BY <3>3, <1>1, <2>1 DEF SessionStep
  <2> QED BY <1>4, <2>2, <2>3 DEF GuardCheck
<1>5. CASE CountRead(r) \/ CountView(r)
  <2>1. req[r].kind = "stream" /\ req[r].tok \in Tokens
    BY <1>1, <1>5 DEF CountRead, CountView, PlayingOn
  <2>2. CASE (Finish(r) \/ Limited(r)) /\ UNCHANGED sessions
    BY <1>1, <2>2, PlainMove DEF SessionStep
  <2>3. CASE Touch(req[r].tok) /\ Goto(r, "deliver")
    <3>1. req'[r] = req[r] /\ pc'[r] = "deliver" BY <2>3 DEF Goto, TypeOK
    <3>2. sessions'[req[r].tok] = clock BY <2>1, <2>3 DEF Touch, TypeOK
    <3>3. PlayingOn(r)' BY <1>1, <2>1, <3>1, <3>2 DEF PlayingOn, Live
    <3> QED BY <1>1, <2>1, <2>3, <3>3 DEF SessionStep
  <2>4. CASE Goto(r, "countView") /\ UNCHANGED sessions
    <3>1. req'[r] = req[r] /\ pc'[r] = "countView" BY <2>4 DEF Goto, TypeOK
    <3> QED BY <1>1, <2>1, <2>4, <3>1 DEF PlayingOn, SessionStep
  <2> QED BY <1>5, <2>2, <2>3, <2>4 DEF CountRead, CountView
<1>6. CASE ReserveRead(r) \/ CountDownload(r)
  <2>1. UNCHANGED sessions BY <1>6 DEF ReserveRead, CountDownload
  <2>2. CASE Finish(r) \/ Limited(r) BY <1>1, <2>1, <2>2, PlainMove DEF SessionStep
  <2>3. CASE Goto(r, "countDownload") \/ Goto(r, "deliver")
    <3>1. req'[r] = req[r] /\ pc'[r] \in {"countDownload", "deliver"} BY <2>3 DEF Goto, TypeOK
    <3>2. req[r].kind # "stream" BY <1>1, <1>6 DEF ReserveRead, CountDownload, PlayingOn
    <3>3. PlayingOn(r)' BY <1>1, <3>1, <3>2 DEF PlayingOn
    <3> QED BY <1>1, <2>1, <3>3 DEF SessionStep
  <2> QED BY <1>6, <2>2, <2>3 DEF ReserveRead, CountDownload
<1> QED BY <1>2, <1>3, <1>4, <1>5, <1>6 DEF RequestStep

\* A delivered stream is covered by the session its request had touched.
LEMMA DeliveryCovered ==
  ASSUME PlayInv, NEW r \in Requests, Deliver(r)
  PROVE  SessionsCover'
<1>1. UNCHANGED <<clock, sessions>> /\ pc[r] = "deliver" BY DEF Deliver
<1>2. PlayingOn(r) BY DEF PlayInv
<1>3. CASE UNCHANGED lastPlay BY <1>1, <1>3, CoverStays DEF SessionStep
<1>4. CASE /\ req[r].kind = "stream" /\ ~IsPrivileged(r)
           /\ lastPlay' = [lastPlay EXCEPT ![req[r].tok] = req[r].at]
  BY <1>1, <1>2, <1>4 DEF PlayInv, TypeOK, PlayingOn, SessionsCover, Live
<1> QED BY <1>3, <1>4 DEF Deliver

LEMMA PlayStep == PlayInv /\ [Next]_vars => PlayInv'
<1> SUFFICES ASSUME PlayInv, [Next]_vars PROVE PlayInv' OBVIOUS
<1>1. TypeOK' BY TypeStep DEF PlayInv
<1>2. ASSUME NEW r \in Requests, RequestStep(r) PROVE PlayInv'
  <2>1. PlayingOn(r)' /\ SessionStep BY <1>2, StepPlays
  <2>2. \A q \in Requests \ {r} : PlayingOn(q)'
    BY <1>2, <2>1, OthersStay, PlayingStays DEF PlayInv
  <2>3. SessionsCover'
    <3>1. CASE Deliver(r) BY <3>1, DeliveryCovered
    <3>2. CASE ~Deliver(r)
      <4>1. UNCHANGED lastPlay
        BY <1>2, <3>2 DEF RequestStep, Start, GuardRead, GuardCheck, CountRead, CountView,
           ReserveRead, CountDownload, DeliveryFails, TokenGuard, TokenRead, TokenCreate,
           TokensExhausted, histVars
      <4> QED BY <2>1, <4>1, CoverStays
    <3> QED BY <3>1, <3>2
  <2> QED BY <1>1, <2>1, <2>2, <2>3 DEF PlayInv
<1>3. ASSUME SessionStep, UNCHANGED <<pc, req, lastPlay>> PROVE PlayInv'
  BY <1>1, <1>3, PlayingStays, CoverStays DEF PlayInv
<1>4. ASSUME NEW p \in Patches, PatchStep(p) PROVE PlayInv'
  BY <1>3, <1>4 DEF PatchStep, PatchRead, PatchRow, PatchSecurity, PatchRevoke, reqVars,
     histVars, SessionStep
<1>5. CASE UNCHANGED vars \/ Expire \/ RemoveFiles \/ RemoveRow \/ Tick
  BY <1>3, <1>5 DEF vars, Expire, RemoveFiles, RemoveRow, Tick, reqVars, histVars, SessionStep
<1>6. CASE Restart
  <2>1. \A r \in Requests : PlayingOn(r)'
    BY <1>6 DEF Restart, PlayingOn, NoReq, PlayInv, TypeOK, Times
  <2>2. SessionsCover' BY <1>6 DEF Restart, SessionsCover, PlayInv, TypeOK, Times
  <2> QED BY <1>1, <2>1, <2>2 DEF PlayInv
<1> QED BY <1>2, <1>4, <1>5, <1>6 DEF Next

\* A limit turns away a Range request of a visitor only when the guard finds no
\* recent view.
LEMMA CutOffIsLate ==
  ASSUME PlayInv, [Next]_vars, NEW r \in Requests,
         pc[r] = "check", pc'[r] = "limited", req[r].range, lastPlay[req[r].tok] > 0
  PROVE  clock > lastPlay[req[r].tok] + Gap
<1>1. GuardCheck(r) /\ Limited(r)
  <2>1. ~UNCHANGED vars BY DEF vars, reqVars
  <2>2. ASSUME NEW p \in Patches, PatchStep(p) PROVE FALSE
    BY <2>2 DEF PatchStep, PatchRead, PatchRow, PatchSecurity, PatchRevoke, reqVars
  <2>3. ~(Expire \/ RemoveFiles \/ RemoveRow \/ Restart \/ Tick)
    BY DEF Expire, RemoveFiles, RemoveRow, Restart, Tick, reqVars
  <2>4. PICK q \in Requests : RequestStep(q) BY <2>1, <2>2, <2>3 DEF Next
  <2>5. q = r BY <2>4, OthersStay DEF PlayInv
  <2>6. GuardCheck(r)
    BY <2>4, <2>5 DEF RequestStep, Start, GuardRead, CountRead, CountView, ReserveRead,
       CountDownload, Deliver, DeliveryFails, TokenGuard, TokenRead, TokenCreate,
       TokensExhausted, Rest
  <2>7. ~Finish(r) /\ ~Goto(r, Handler(r))
    BY DEF Finish, Goto, Handler, PlayInv, TypeOK
  <2> QED BY <2>6, <2>7 DEF GuardCheck
<1>2. ~Refused(r) /\ ~LimitExempt(r)
  <2>1. pc'[r] # "idle" /\ pc'[r] # Handler(r) BY DEF Handler
  <2> QED BY <1>1, <2>1 DEF GuardCheck, Finish, Goto, PlayInv, TypeOK
<1>3. req[r].kind = "stream" BY DEF PlayInv, PlayingOn
<1>4. ~IsPrivileged(r) /\ ~HasRecentView(req[r].tok)
  BY <1>2, <1>3 DEF LimitExempt, IsViewOperation
<1>5. req[r].tok \in Tokens
  BY <1>2, <1>4 DEF Refused, ValidToken, PlayInv, TypeOK, ReqType
<1>6. Live(req[r].tok, lastPlay[req[r].tok]) BY <1>5 DEF PlayInv, SessionsCover
<1> QED BY <1>4, <1>5, <1>6, NoneAssumption DEF HasRecentView, Live, PlayInv, TypeOK, Times

\* Whoever was sent part of a stream within the session gap is not turned away
\* for the view limit in the middle of it, whatever the other clients count and
\* however the limit is lowered meanwhile (shareSecurity.guard.ts with
\* stream-view-counter.service.ts).
THEOREM PlaybackGoesOn == Spec => PlaybackNotCutOff
<1>1. Init => PlayInv
  <2> SUFFICES ASSUME Init PROVE PlayInv OBVIOUS
  <2>1. TypeOK BY InitType
  <2>2. \A r \in Requests : PlayingOn(r) BY DEF Init, PlayingOn, NoReq
  <2>3. SessionsCover BY DEF Init, SessionsCover
  <2> QED BY <2>1, <2>2, <2>3 DEF PlayInv
<1>2. PlayInv /\ [Next]_vars =>
        [\A r \in Requests :
           pc[r] = "check" /\ pc'[r] = "limited" /\ req[r].range /\ lastPlay[req[r].tok] > 0
             => clock > lastPlay[req[r].tok] + Gap]_vars
  BY CutOffIsLate
<1> QED BY <1>1, <1>2, PlayStep, PTL DEF Spec, PlaybackNotCutOff

----------------------------------------------------------------------------
(* The share implements two meters: what each step does to a counter, to the *)
(* deliveries it paid for and to the limits is one step of a meter, or none. *)

\* A limit under which a request is about to count has been in force.
LEMMA CountsUnderLimit ==
  ASSUME LimitInv, NEW r \in Requests
  PROVE  /\ pc[r] = "countView" => limit[r] \in viewLimits
         /\ pc[r] = "countDownload" => limit[r] \in downloadLimits \ {0} /\ limit[r] > 0
BY DEF LimitInv, ReadLimits

\* What is about to be sent has been paid, and what was sent before as well.
LEMMA PaidBefore ==
  ASSUME PaidInv, NEW r \in Requests
  PROVE  /\ Streaming(r) => played < views
         /\ Fetching(r) => fetched < downloads
<1>1. /\ played + Cardinality(Streams) <= views /\ fetched + Cardinality(Fetches) <= downloads
      /\ IsFiniteSet(Streams) /\ IsFiniteSet(Fetches)
  BY DEF PaidInv, StreamsArePaid, DownloadsArePaid, Streams, Streaming, Fetches, Fetching
<1>2. /\ Cardinality(Streams) \in Nat /\ Cardinality(Fetches) \in Nat
      /\ Cardinality(Streams) = 0 <=> Streams = {}
      /\ Cardinality(Fetches) = 0 <=> Fetches = {}
  BY <1>1, FS_CardinalityType, FS_EmptySet
<1>3. /\ Streaming(r) => Streams # {}
      /\ Fetching(r) => Fetches # {}
  BY DEF Streams, Fetches
<1>4. /\ played \in Nat /\ views \in Nat /\ fetched \in Nat /\ downloads \in Nat
  BY DEF PaidInv, TypeOK
<1> QED BY <1>1, <1>2, <1>3, <1>4

\* A step of a request sells a unit, uses one, or leaves both meters alone.
LEMMA RequestMeters ==
  ASSUME LimitInv, PaidInv, NEW r \in Requests, RequestStep(r)
  PROVE  /\ [ViewMeter!Next]_(ViewMeter!vars)
         /\ [DownloadMeter!Next]_(DownloadMeter!vars)
<1>1. UNCHANGED <<viewLimits, downloadLimits>>
  BY DEF RequestStep, Start, GuardRead, GuardCheck, CountRead, CountView, ReserveRead,
     CountDownload, Deliver, DeliveryFails, TokenGuard, TokenRead, TokenCreate,
     TokensExhausted, histVars
<1>2. CASE CountView(r)
  <2>1. UNCHANGED <<downloads, played, fetched>> BY <1>2 DEF CountView, histVars
  <2>2. CASE UNCHANGED views
    BY <1>1, <2>1, <2>2 DEF ViewMeter!vars, DownloadMeter!vars
  <2>3. CASE HasRoom(views, limit[r]) /\ views' = views + 1
    <3>1. limit[r] \in viewLimits BY <1>2, CountsUnderLimit DEF CountView
    <3>2. ViewMeter!Sell
      BY <1>1, <2>1, <2>3, <3>1 DEF ViewMeter!Sell, ViewMeter!Allows, HasRoom
    <3> QED BY <1>1, <2>1, <3>2 DEF ViewMeter!Next, DownloadMeter!vars
  <2> QED BY <1>2, <2>2, <2>3 DEF CountView
<1>3. CASE CountDownload(r)
  <2>1. UNCHANGED <<views, played, fetched>> BY <1>3 DEF CountDownload, histVars
  <2>2. CASE UNCHANGED downloads
    BY <1>1, <2>1, <2>2 DEF ViewMeter!vars, DownloadMeter!vars
  <2>3. CASE HasRoom(downloads, limit[r]) /\ downloads' = downloads + 1
    <3>1. limit[r] \in downloadLimits \ {0} BY <1>3, CountsUnderLimit DEF CountDownload
    <3>2. DownloadMeter!Sell
      BY <1>1, <2>1, <2>3, <3>1 DEF DownloadMeter!Sell, DownloadMeter!Allows, HasRoom
    <3> QED BY <1>1, <2>1, <3>2 DEF DownloadMeter!Next, ViewMeter!vars
  <2> QED BY <1>3, <2>2, <2>3 DEF CountDownload
<1>4. CASE Deliver(r)
  <2>1. /\ played' = IF Streaming(r) THEN played + 1 ELSE played
        /\ fetched' = IF Fetching(r) THEN fetched + 1 ELSE fetched
        /\ UNCHANGED <<views, downloads>>
    BY <1>4 DEF Deliver, Streaming, Fetching, countVars
  <2>2. [ViewMeter!Next]_(ViewMeter!vars)
    <3>1. CASE Streaming(r)
      <4>1. ViewMeter!Use BY <1>1, <2>1, <3>1, PaidBefore DEF ViewMeter!Use
      <4> QED BY <4>1 DEF ViewMeter!Next
    <3>2. CASE ~Streaming(r) BY <1>1, <2>1, <3>2 DEF ViewMeter!vars
    <3> QED BY <3>1, <3>2
  <2>3. [DownloadMeter!Next]_(DownloadMeter!vars)
    <3>1. CASE Fetching(r)
      <4>1. DownloadMeter!Use BY <1>1, <2>1, <3>1, PaidBefore DEF DownloadMeter!Use
      <4> QED BY <4>1 DEF DownloadMeter!Next
    <3>2. CASE ~Fetching(r) BY <1>1, <2>1, <3>2 DEF DownloadMeter!vars
    <3> QED BY <3>1, <3>2
  <2> QED BY <2>2, <2>3
<1>5. CASE \/ Start(r) \/ GuardRead(r) \/ GuardCheck(r) \/ CountRead(r) \/ ReserveRead(r)
           \/ DeliveryFails(r) \/ TokenGuard(r) \/ TokenRead(r) \/ TokenCreate(r)
           \/ TokensExhausted(r)
  <2>1. UNCHANGED <<views, downloads, played, fetched>>
    BY <1>5 DEF Start, GuardRead, GuardCheck, CountRead, ReserveRead, DeliveryFails,
       TokenGuard, TokenRead, TokenCreate, TokensExhausted, countVars, histVars
  <2> QED BY <1>1, <2>1 DEF ViewMeter!vars, DownloadMeter!vars
<1> QED BY <1>2, <1>3, <1>4, <1>5 DEF RequestStep

\* A PATCH changes a limit, or leaves both meters alone.
LEMMA PatchMeters ==
  ASSUME NEW p \in Patches, PatchStep(p)
  PROVE  /\ [ViewMeter!Next]_(ViewMeter!vars)
         /\ [DownloadMeter!Next]_(DownloadMeter!vars)
<1>1. UNCHANGED <<views, downloads, played, fetched>>
  BY DEF PatchStep, PatchRead, PatchRow, PatchSecurity, PatchRevoke, countVars, histVars
<1>2. CASE UNCHANGED <<viewLimits, downloadLimits>>
  BY <1>1, <1>2 DEF ViewMeter!vars, DownloadMeter!vars
<1>3. ASSUME NEW new, WriteSecurity(p, new)
      PROVE  /\ [ViewMeter!Next]_(ViewMeter!vars)
             /\ [DownloadMeter!Next]_(DownloadMeter!vars)
  <2>1. /\ viewLimits' = viewLimits \cup {new.maxViews}
        /\ downloadLimits' = downloadLimits \cup {new.maxDownloads}
    BY <1>3 DEF WriteSecurity
  <2>2. ViewMeter!Change BY <1>1, <2>1 DEF ViewMeter!Change
  <2>3. [DownloadMeter!Next]_(DownloadMeter!vars)
    <3>1. CASE new.maxDownloads = 0
      BY <1>1, <2>1, <3>1 DEF DownloadMeter!vars
    <3>2. CASE new.maxDownloads # 0
      <4>1. DownloadMeter!Change BY <1>1, <2>1, <3>2 DEF DownloadMeter!Change
      <4> QED BY <4>1 DEF DownloadMeter!Next
    <3> QED BY <3>1, <3>2
  <2> QED BY <2>2, <2>3 DEF ViewMeter!Next
<1> QED
  BY <1>2, <1>3 DEF PatchStep, PatchRead, PatchRow, PatchSecurity, PatchRevoke, histVars

\* Every step.
LEMMA StepMeters ==
  ASSUME LimitInv, PaidInv, [Next]_vars
  PROVE  /\ [ViewMeter!Next]_(ViewMeter!vars)
         /\ [DownloadMeter!Next]_(DownloadMeter!vars)
<1>1. CASE Expire \/ RemoveFiles \/ RemoveRow \/ Restart \/ Tick \/ UNCHANGED vars
  <2>1. UNCHANGED <<views, downloads, played, fetched, viewLimits, downloadLimits>>
    BY <1>1 DEF Expire, RemoveFiles, RemoveRow, Restart, Tick, vars, countVars, histVars
  <2> QED BY <2>1 DEF ViewMeter!vars, DownloadMeter!vars
<1> QED BY <1>1, RequestMeters, PatchMeters DEF Next

\* Each step of a share is a step of the meter of its views, or none: however requests and
\* PATCHes interleave, no request gets a stream that the counter did not sell, under a limit
\* the owner had set (stream-view-counter.service.ts).
THEOREM ViewsMetered == Spec => MetersViews
<1>1. Init => ViewMeter!Init BY DEF Init, ViewMeter!Init
<1>2. LimitInv /\ PaidInv /\ [Next]_vars => [ViewMeter!Next]_(ViewMeter!vars) BY StepMeters
<1> QED BY <1>1, <1>2, LimitsAlways, PaidAlways, PTL DEF Spec, MetersViews, ViewMeter!Spec

\* The same of its downloads, of which those outside any limit are not counted
\* (downloadLimit.guard.ts).
THEOREM DownloadsMetered == Spec => MetersDownloads
<1>1. Init => DownloadMeter!Init BY DEF Init, DownloadMeter!Init
<1>2. LimitInv /\ PaidInv /\ [Next]_vars => [DownloadMeter!Next]_(DownloadMeter!vars)
  BY StepMeters
<1> QED
  BY <1>1, <1>2, LimitsAlways, PaidAlways, PTL DEF Spec, MetersDownloads, DownloadMeter!Spec
=============================================================================
