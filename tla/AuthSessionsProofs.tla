------------------------- MODULE AuthSessionsProofs -------------------------
(* Proofs about AuthSessions, for every number of requests in flight, of    *)
(* tokens and of resets, and every duration.                                *)
EXTENDS AuthSessions, FiniteSetTheorems, TLAPS

USE KindsAssumption, BoundsAssumption, TimesAssumption

----------------------------------------------------------------------------
(* Families and marks *)

\* The steps of a request that act on the token it presented.
Holding == {"validate", "touch", "guard", "clear", "reauth", "mark", "refresh", "rotate",
            "signOut", "revokeOne"}

Locals == {"password", "activity", "mark", "reset"}
Row == [live : BOOLEAN, expiresAt : Nat, reauthAt : Nat]
Inputs == [kind : AllKinds, id : Nat]

Shape ==
  /\ clock \in Nat /\ lastId \in Nat
  /\ refresh \in [Ids -> Row]
  /\ family \in [Ids -> Nat]
  /\ DOMAIN origin = Ids
  /\ \A f \in Ids : DOMAIN origin[f] = {"password", "late", "confirmed"}
  /\ DOMAIN pc = Requests /\ req \in [Requests -> Inputs] /\ DOMAIN seen = Requests
  /\ \A r \in Requests : seen[r].mark \in Nat /\ DOMAIN seen[r] = Locals

\* A family is named by a number already given out, and a request acts on one.
Numbered ==
  /\ \A i \in Ids : family[i] <= lastId
  /\ \A i \in Live : i <= lastId /\ family[i] \in Ids
  /\ \A r \in Requests : pc[r] \in Holding => req[r].id \in Ids /\ req[r].id <= lastId

\* What a rotation read is still a mark of the family, while the token is live.
ReadMarkConfirmed ==
  \A r \in Requests :
    pc[r] = "rotate" /\ refresh[req[r].id].live /\ seen[r].mark > 0
      => seen[r].mark \in origin[family[req[r].id]].confirmed

\* The requests after a step: none takes up a token it did not hold.
Forward ==
  /\ clock' \in Nat
  /\ DOMAIN pc' = Requests /\ req' \in [Requests -> Inputs] /\ DOMAIN seen' = Requests
  /\ \A r \in Requests : seen'[r].mark \in Nat /\ DOMAIN seen'[r] = Locals
  /\ \A r \in Requests : pc'[r] \in Holding => pc[r] \in Holding /\ req'[r].id = req[r].id
  /\ \A r \in Requests : pc'[r] = "rotate" => pc[r] = "rotate" /\ seen'[r].mark = seen[r].mark

FamilyInv == Shape /\ Numbered /\ OneTokenPerSignIn /\ ReadMarkConfirmed /\ MarksAreConfirmed

\* What is written is a row.
LEMMA Rows == NoRefresh \in Row /\ \A mark \in Nat : clock \in Nat => Refresh(mark) \in Row
BY DEF NoRefresh, Refresh, Row

\* Initially there is no token.
LEMMA FamilyInit == Init => FamilyInv
<1> SUFFICES ASSUME Init PROVE FamilyInv OBVIOUS
<1>1. Live = {} BY DEF Init, Live, NoRefresh
<1>2. Shape BY Rows DEF Init, Shape, NoSeen, NoReq, AllKinds, Locals, Inputs,
              NoOrigin, Ids
<1>3. \A r \in Requests : pc[r] \notin Holding BY DEF Init, Holding
<1>4. Numbered BY <1>1, <1>3 DEF Init, Numbered, Ids
<1>5. OneTokenPerSignIn /\ MarksAreConfirmed
  BY <1>1 DEF OneTokenPerSignIn, MarksAreConfirmed
<1>6. ReadMarkConfirmed BY DEF Init, ReadMarkConfirmed
<1> QED BY <1>2, <1>4, <1>5, <1>6 DEF FamilyInv

\* Steps that touch no row keep the invariant.
LEMMA ForwardKeeps ==
  ASSUME FamilyInv, Forward, UNCHANGED <<refresh, lastId, family, origin>>
  PROVE  FamilyInv'
<1>1. Shape' BY DEF FamilyInv, Shape, Forward
<1>2. Numbered' BY DEF FamilyInv, Numbered, Forward, Live
<1>3. OneTokenPerSignIn' /\ MarksAreConfirmed'
  BY DEF FamilyInv, OneTokenPerSignIn, MarksAreConfirmed, Live
<1>4. ReadMarkConfirmed'
  BY DEF FamilyInv, ReadMarkConfirmed, Forward, Holding
<1> QED BY <1>1, <1>2, <1>3, <1>4 DEF FamilyInv

\* Deleting tokens ends their families and leaves the other ones alone.
LEMMA DeleteSpares ==
  ASSUME FamilyInv, NEW ids \in SUBSET Ids, Delete(ids)
  PROVE  \A i \in Ids : refresh'[i].live =>
           /\ i \notin ids /\ refresh[i].live /\ refresh'[i] = refresh[i]
           /\ family'[i] = family[i] /\ origin'[family[i]] = origin[family[i]]
<1> DEFINE ended == {family[i] : i \in {j \in ids : refresh[j].live}}
<1>1. \A i \in Ids : refresh'[i].live =>
        i \notin ids /\ refresh'[i] = refresh[i] /\ refresh[i].live
  BY DEF Delete, NoRefresh
<1>2. \A i \in Live : i \notin ids => family[i] \notin ended
  BY DEF FamilyInv, OneTokenPerSignIn, Live
<1> QED BY <1>1, <1>2 DEF FamilyInv, Numbered, Live, Delete

LEMMA DeleteKeeps ==
  ASSUME FamilyInv, Forward, NEW ids \in SUBSET Ids, Delete(ids), lastId' = lastId
  PROVE  FamilyInv'
<1>1. \A i \in Ids : refresh'[i].live =>
        i \notin ids /\ refresh'[i] = refresh[i] /\ refresh[i].live
  BY DeleteSpares
<1>2. \A i \in Ids : refresh'[i].live =>
        family'[i] = family[i] /\ origin'[family[i]] = origin[family[i]]
  BY DeleteSpares
<1>3. Shape'
  <2>1. refresh' \in [Ids -> Row] BY Rows DEF FamilyInv, Shape, Delete
  <2>2. family' \in [Ids -> Nat] BY DEF FamilyInv, Shape, Delete
  <2>3. DOMAIN origin' = Ids /\ \A f \in Ids :
          DOMAIN origin'[f] = {"password", "late", "confirmed"}
    BY DEF FamilyInv, Shape, Delete, NoOrigin
  <2> QED BY <2>1, <2>2, <2>3 DEF FamilyInv, Shape, Forward
<1>4. Numbered'
  <2>1. \A i \in Ids : family'[i] <= lastId'
    BY DEF FamilyInv, Shape, Numbered, Delete
  <2> QED BY <2>1, <1>1, <1>2 DEF FamilyInv, Numbered, Live, Forward
<1>5. OneTokenPerSignIn' /\ MarksAreConfirmed'
  BY <1>1, <1>2 DEF FamilyInv, OneTokenPerSignIn, MarksAreConfirmed, Live
<1>6. ReadMarkConfirmed'
  <2> SUFFICES ASSUME NEW r \in Requests, pc'[r] = "rotate", refresh'[req'[r].id].live,
                      seen'[r].mark > 0
               PROVE  seen'[r].mark \in origin'[family'[req'[r].id]].confirmed
    BY DEF ReadMarkConfirmed
  <2>1. pc[r] = "rotate" /\ req'[r].id = req[r].id /\ seen'[r].mark = seen[r].mark
    BY DEF Forward, Holding
  <2>2. req[r].id \in Ids BY <2>1 DEF FamilyInv, Numbered, Holding
  <2> QED BY <2>1, <2>2, <1>1, <1>2 DEF FamilyInv, ReadMarkConfirmed
<1> QED BY <1>3, <1>4, <1>5, <1>6 DEF FamilyInv

\* A request that ends takes up no token.
LEMMA FinishForward ==
  ASSUME FamilyInv, NEW r \in Requests, Finish(r), clock' = clock
  PROVE  Forward
BY DEF Finish, Forward, FamilyInv, Shape, Holding, NoSeen, NoReq, AllKinds, Locals, Inputs

\* Nor does one that goes on with the token it has.
LEMMA GotoForward ==
  ASSUME FamilyInv, NEW r \in Requests, NEW step,
         pc' = [pc EXCEPT ![r] = step], req' = req, DOMAIN seen' = Requests, clock' = clock,
         \A q \in Requests : seen'[q].mark = seen[q].mark /\ DOMAIN seen'[q] = DOMAIN seen[q],
         step \in Holding => pc[r] \in Holding, step # "rotate"
  PROVE  Forward
BY DEF Forward, FamilyInv, Shape

\* The steps of a request that read, or write neither tokens nor families.
LEMMA QuietSteps ==
  ASSUME FamilyInv, NEW r \in Requests,
         \/ NewSession(r) \/ SignIn(r) \/ Validate(r) \/ Touch(r)
         \/ ReauthGuard(r) \/ Reauthenticate(r) \/ VerifyOld(r) \/ SetPassword(r)
         \/ AdminPassword(r) \/ RequestRead(r) \/ RequestTx(r) \/ ResetRead(r)
         \/ RevokeRead(r)
  PROVE  FamilyInv'
<1> USE DEF rowVars, resetVars, histVars, Goto
<1>1. UNCHANGED <<refresh, lastId, family, origin>> /\ clock' = clock
  BY DEF NewSession, SignIn, Validate, Touch, ReauthGuard, Reauthenticate, VerifyOld,
         SetPassword, AdminPassword, RequestRead, RequestTx, ResetRead, RevokeRead
<1>2. CASE Finish(r) BY <1>1, <1>2, FinishForward, ForwardKeeps
<1>3. CASE ~Finish(r)
  <2> DEFINE step == pc'[r]
  <2>1. pc' = [pc EXCEPT ![r] = step] /\ req' = req /\ DOMAIN seen' = Requests
    BY <1>3 DEF NewSession, SignIn, Validate, Touch, ReauthGuard, Reauthenticate, VerifyOld,
         SetPassword, AdminPassword, RequestRead, RequestTx, ResetRead, RevokeRead,
         FamilyInv, Shape
  <2>2. \A q \in Requests : seen'[q].mark = seen[q].mark /\ DOMAIN seen'[q] = DOMAIN seen[q]
    BY <1>3 DEF NewSession, SignIn, Validate, Touch, ReauthGuard, Reauthenticate, VerifyOld,
         SetPassword, AdminPassword, RequestRead, RequestTx, ResetRead, RevokeRead,
         FamilyInv, Shape, Locals
  <2>3. step \in Holding => pc[r] \in Holding
    BY <1>3 DEF NewSession, SignIn, Validate, Touch, ReauthGuard, Reauthenticate, VerifyOld,
         SetPassword, AdminPassword, RequestRead, RequestTx, ResetRead, RevokeRead,
         FamilyInv, Shape, Holding, Handler
  <2>a. Handler(r) # "rotate" BY DEF Handler, FamilyInv, Shape, AllKinds, Inputs
  <2>4. step # "rotate"
    BY <1>3, <2>a DEF NewSession, SignIn, Validate, Touch, ReauthGuard, Reauthenticate,
         VerifyOld, SetPassword, AdminPassword, RequestRead, RequestTx, ResetRead, RevokeRead,
         FamilyInv, Shape
  <2> QED BY <1>1, <2>1, <2>2, <2>3, <2>4, GotoForward, ForwardKeeps
<1> QED BY <1>2, <1>3

\* A new request presents a token that was issued.
LEMMA StartKeeps ==
  ASSUME FamilyInv, NEW r \in Requests, Start(r)
  PROVE  FamilyInv'
<1> USE DEF Start, rowVars, resetVars, histVars
<1>1. UNCHANGED <<refresh, lastId, family, origin, clock>> OBVIOUS
<1>2. PICK k \in Kinds, i \in Issued \cup {0}, n \in 1..lastReset \cup {0} :
        /\ i # 0 <=> k \in Presenting
        /\ pc' = [pc EXCEPT ![r] = FirstStep(k)]
        /\ req' = [req EXCEPT ![r] = [kind |-> k, id |-> i]]
        /\ seen' = [seen EXCEPT ![r] = [NoSeen EXCEPT !.reset = n]]
  OBVIOUS
<1>3. k \in AllKinds BY KindsAssumption
<1>4. FirstStep(k) \in Holding => i \in Ids /\ i <= lastId
  <2>1. FirstStep(k) \in Holding => k \in Presenting
    BY <1>3 DEF FirstStep, Presenting, Authenticated, AllKinds, Holding
  <2> QED BY <1>2, <2>1 DEF Issued
<1>5. FirstStep(k) # "rotate" BY <1>3 DEF FirstStep, AllKinds
<1>6. Shape'
  <2>1. [kind |-> k, id |-> i] \in Inputs BY <1>3 DEF Inputs, Issued, Ids
  <2>2. req' \in [Requests -> Inputs] BY <1>2, <2>1 DEF FamilyInv, Shape
  <2>3. \A q \in Requests : seen'[q].mark \in Nat /\ DOMAIN seen'[q] = Locals
    BY <1>2 DEF FamilyInv, Shape, NoSeen, Locals
  <2> QED BY <1>1, <1>2, <2>2, <2>3 DEF FamilyInv, Shape
<1>7. Numbered' BY <1>1, <1>2, <1>4 DEF FamilyInv, Shape, Numbered, Live
<1>8. OneTokenPerSignIn' /\ MarksAreConfirmed'
  BY <1>1 DEF FamilyInv, OneTokenPerSignIn, MarksAreConfirmed, Live
<1>9. ReadMarkConfirmed'
  BY <1>1, <1>2, <1>5 DEF FamilyInv, Shape, ReadMarkConfirmed
<1> QED BY <1>6, <1>7, <1>8, <1>9 DEF FamilyInv

\* The mark a rotation will carry over is the one of the token it read.
LEMMA RefreshReadKeeps ==
  ASSUME FamilyInv, NEW r \in Requests, RefreshRead(r)
  PROVE  FamilyInv'
<1> USE DEF RefreshRead, rowVars, resetVars, histVars
<1>1. UNCHANGED <<refresh, lastId, family, origin, clock>> OBVIOUS
<1>2. CASE Finish(r) BY <1>1, <1>2, FinishForward, ForwardKeeps
<1>3. CASE ~Finish(r)
  <2>1. /\ pc[r] = "refresh" /\ pc' = [pc EXCEPT ![r] = "rotate"] /\ req' = req
        /\ refresh[req[r].id].live
        /\ seen' = [seen EXCEPT ![r].mark = refresh[req[r].id].reauthAt]
    BY <1>3
  <2>2. req[r].id \in Live BY <2>1 DEF FamilyInv, Numbered, Holding, Live
  <2>3. refresh[req[r].id].reauthAt \in Nat BY <2>2 DEF FamilyInv, Shape, Live, Row
  <2>4. Shape' BY <1>1, <2>1, <2>3 DEF FamilyInv, Shape, Locals
  <2>5. Numbered' BY <1>1, <2>1 DEF FamilyInv, Shape, Numbered, Live, Holding
  <2>6. OneTokenPerSignIn' /\ MarksAreConfirmed'
    BY <1>1 DEF FamilyInv, OneTokenPerSignIn, MarksAreConfirmed, Live
  <2>7. ReadMarkConfirmed'
    BY <1>1, <2>1, <2>2 DEF FamilyInv, Shape, ReadMarkConfirmed, MarksAreConfirmed, Locals
  <2> QED BY <2>4, <2>5, <2>6, <2>7 DEF FamilyInv
<1> QED BY <1>2, <1>3

\* Whatever ends sessions ends the families of the tokens it deletes.
LEMMA RevocationsKeep ==
  ASSUME FamilyInv, NEW r \in Requests,
         \/ Rotate(r) /\ Reused(r)
         \/ RevokeAll(r) \/ AdminRevokeAll(r) \/ ResetTx(r) \/ RevokeOne(r) \/ LogoutAll(r)
  PROVE  FamilyInv'
<1> USE DEF Rotate, RevokeAll, AdminRevokeAll, ResetTx, RevokeOne, LogoutAll, Goto,
            rowVars, resetVars, histVars
<1>1. lastId' = lastId /\ clock' = clock OBVIOUS
<1>2. Forward
  <2>1. CASE Finish(r) BY <2>1, <1>1, FinishForward
  <2>2. CASE ~Finish(r)
    <3>1. pc' = [pc EXCEPT ![r] = "setPassword"] /\ UNCHANGED <<req, seen>>
      BY <2>2
    <3>2. "setPassword" \notin Holding BY DEF Holding
    <3> QED BY <3>1, <3>2, <1>1, GotoForward DEF FamilyInv, Shape
  <2> QED BY <2>1, <2>2
<1>3. CASE \E ids \in SUBSET Ids : Delete(ids) BY <1>1, <1>2, <1>3, DeleteKeeps
<1>4. CASE ~\E ids \in SUBSET Ids : Delete(ids)
  <2>1. ~Delete(Ids) BY <1>4
  <2>2. ~RevokeOne(r)
    <3>1. pc[r] = "revokeOne" => {req[r].id} \in SUBSET Ids
      BY DEF FamilyInv, Numbered, Holding
    <3> QED BY <3>1, <1>4
  <2> QED BY <2>1, <2>2, <1>1, <1>2, ForwardKeeps
<1> QED BY <1>3, <1>4

\* The first token of a sign-in takes a number nobody used.
LEMMA NewRefreshKeeps ==
  ASSUME FamilyInv, NEW r \in Requests, NewRefresh(r)
  PROVE  FamilyInv'
<1> USE DEF NewRefresh, resetVars
<1> DEFINE n == lastId + 1
<1>1. n \in Nat /\ \A i \in Ids : family[i] \in Nat /\ family[i] < n
  BY DEF FamilyInv, Shape, Numbered
<1>2. \A i \in Ids : refresh'[i].live /\ i # n =>
        /\ refresh[i].live /\ refresh'[i] = refresh[i] /\ family'[i] = family[i]
        /\ origin'[family[i]] = origin[family[i]]
  BY <1>1 DEF FamilyInv, Shape, Numbered, Live
<1>3. n \in Ids => /\ refresh'[n].reauthAt = clock /\ family'[n] = n
                  /\ origin'[n].confirmed = {clock}
  BY DEF FamilyInv, Shape, Refresh
<1>4. Shape'
  <2>1. family' \in [Ids -> Nat] /\ lastId' \in Nat BY <1>1 DEF FamilyInv, Shape
  <2>2. refresh' \in [Ids -> Row]
    BY Rows DEF FamilyInv, Shape
  <2> QED BY <2>1, <2>2 DEF FamilyInv, Shape, Inputs
<1>5. Numbered'
  <2>1. \A i \in Ids : family'[i] <= lastId' BY <1>1 DEF FamilyInv, Shape
  <2>2. \A i \in Live' : i <= lastId' /\ family'[i] \in Ids
    <3> SUFFICES ASSUME NEW i \in Ids, refresh'[i].live
                 PROVE  i <= lastId' /\ family'[i] \in Ids
      BY DEF Live
    <3>1. CASE i = n BY <3>1, <1>1, <1>3 DEF FamilyInv, Shape
    <3>2. CASE i # n
      <4>1. refresh[i].live /\ family'[i] = family[i] BY <3>2, <1>2
      <4>2. i <= lastId /\ family[i] \in Ids BY <4>1 DEF FamilyInv, Numbered, Live
      <4>3. lastId \in Nat /\ lastId' = lastId + 1 BY DEF FamilyInv, Shape
      <4> HIDE DEF NewRefresh
      <4> QED BY <4>1, <4>2, <4>3 DEF Ids
    <3> QED BY <3>1, <3>2
  <2>3. \A q \in Requests : pc'[q] \in Holding => req'[q].id \in Ids /\ req'[q].id <= lastId'
    <3> SUFFICES ASSUME NEW q \in Requests, pc'[q] \in Holding
                 PROVE  req'[q].id \in Ids /\ req'[q].id <= lastId'
      OBVIOUS
    <3>1. q # r BY DEF FamilyInv, Shape, Holding
    <3>2. pc'[q] = pc[q] /\ req'[q] = req[q] BY <3>1 DEF FamilyInv, Shape
    <3>3. req[q].id \in Ids /\ req[q].id <= lastId BY <3>2 DEF FamilyInv, Numbered
    <3>4. lastId \in Nat /\ lastId' = lastId + 1 BY DEF FamilyInv, Shape
    <3> HIDE DEF NewRefresh
    <3> QED BY <3>2, <3>3, <3>4 DEF Ids
  <2> QED BY <2>1, <2>2, <2>3 DEF Numbered
<1>6. OneTokenPerSignIn'
  BY <1>1, <1>2, <1>3 DEF FamilyInv, OneTokenPerSignIn, Live
<1>7. MarksAreConfirmed'
  BY <1>2, <1>3 DEF FamilyInv, MarksAreConfirmed, Live
<1>8. ReadMarkConfirmed'
  <2> SUFFICES ASSUME NEW q \in Requests, pc'[q] = "rotate", refresh'[req'[q].id].live,
                      seen'[q].mark > 0
               PROVE  seen'[q].mark \in origin'[family'[req'[q].id]].confirmed
    BY DEF ReadMarkConfirmed
  <2>1. q # r /\ pc[q] = "rotate" /\ req'[q] = req[q] /\ seen' = seen
    BY DEF FamilyInv, Shape
  <2>2. req[q].id \in Ids /\ req[q].id # n
    BY <1>1, <2>1 DEF FamilyInv, Shape, Numbered, Holding, Ids
  <2> QED BY <2>1, <2>2, <1>2 DEF FamilyInv, ReadMarkConfirmed
<1> QED BY <1>4, <1>5, <1>6, <1>7, <1>8 DEF FamilyInv

\* The token that replaces another one takes its place in the family.
LEMMA RotateKeeps ==
  ASSUME FamilyInv, NEW r \in Requests, Rotate(r), ~Reused(r)
  PROVE  FamilyInv'
<1> USE DEF Rotate, resetVars
<1> DEFINE n == lastId + 1
           old == req[r].id
<1>1. pc[r] = "rotate" /\ old \in Live /\ old <= lastId /\ n \in Nat /\ n # old
  BY DEF FamilyInv, Shape, Numbered, Holding, Reused, Live, Ids
<1>2. \A i \in Ids : refresh'[i].live /\ i # n =>
        i # old /\ refresh[i].live /\ refresh'[i] = refresh[i] /\ family'[i] = family[i]
  BY <1>1 DEF FamilyInv, Shape, NoRefresh
<1>3. n \in Ids => refresh'[n].reauthAt = seen[r].mark /\ family'[n] = family[old]
  BY <1>1 DEF FamilyInv, Shape, Refresh, CarriedMark
<1>4. Forward /\ origin' = origin /\ lastId' = n
  BY FinishForward
<1>5. Shape'
  <2>1. family' \in [Ids -> Nat] BY <1>1 DEF FamilyInv, Shape, Live
  <2>2. refresh' \in [Ids -> Row]
    BY Rows DEF FamilyInv, Shape, CarriedMark
  <2> QED BY <2>1, <2>2, <1>1, <1>4 DEF FamilyInv, Shape, Forward
<1>6. Numbered'
  <2>1. \A i \in Ids : family'[i] <= lastId'
    BY <1>1, <1>4 DEF FamilyInv, Shape, Numbered, Live
  <2>2. \A i \in Live' : i <= lastId' /\ family'[i] \in Ids
    <3> SUFFICES ASSUME NEW i \in Ids, refresh'[i].live
                 PROVE  i <= lastId' /\ family'[i] \in Ids
      BY DEF Live
    <3>1. CASE i = n BY <3>1, <1>1, <1>3, <1>4 DEF FamilyInv, Numbered
    <3>2. CASE i # n BY <3>2, <1>1, <1>2, <1>4 DEF FamilyInv, Shape, Numbered, Live, Ids
    <3> QED BY <3>1, <3>2
  <2>3. \A q \in Requests : pc'[q] \in Holding => req'[q].id \in Ids /\ req'[q].id <= lastId'
    <3> SUFFICES ASSUME NEW q \in Requests, pc'[q] \in Holding
                 PROVE  req'[q].id \in Ids /\ req'[q].id <= lastId'
      OBVIOUS
    <3>1. pc[q] \in Holding /\ req'[q].id = req[q].id BY <1>4 DEF Forward
    <3>2. req[q].id \in Ids /\ req[q].id <= lastId BY <3>1 DEF FamilyInv, Numbered
    <3>3. lastId \in Nat /\ lastId' = lastId + 1 BY <1>4 DEF FamilyInv, Shape
    <3> QED BY <3>1, <3>2, <3>3 DEF Ids
  <2> QED BY <2>1, <2>2, <2>3 DEF Numbered
<1>7. OneTokenPerSignIn'
  BY <1>1, <1>2, <1>3 DEF FamilyInv, OneTokenPerSignIn, Live
<1>8. MarksAreConfirmed'
  BY <1>1, <1>2, <1>3, <1>4 DEF FamilyInv, MarksAreConfirmed, ReadMarkConfirmed, Live
<1>9. ReadMarkConfirmed'
  <2> SUFFICES ASSUME NEW q \in Requests, pc'[q] = "rotate", refresh'[req'[q].id].live,
                      seen'[q].mark > 0
               PROVE  seen'[q].mark \in origin'[family'[req'[q].id]].confirmed
    BY DEF ReadMarkConfirmed
  <2>1. pc[q] = "rotate" /\ req'[q].id = req[q].id /\ seen'[q].mark = seen[q].mark
    BY <1>4 DEF Forward, Holding
  <2>2. req[q].id \in Ids /\ req[q].id # n
    BY <1>1, <2>1 DEF FamilyInv, Shape, Numbered, Holding, Ids
  <2> QED BY <2>1, <2>2, <1>2, <1>4 DEF FamilyInv, ReadMarkConfirmed
<1> QED BY <1>5, <1>6, <1>7, <1>8, <1>9 DEF FamilyInv

\* A mark is cleared, or set to a confirmation that enters the record.
LEMMA MarksKeep ==
  ASSUME FamilyInv, NEW r \in Requests, ClearReauthenticated(r) \/ MarkReauthenticated(r)
  PROVE  FamilyInv'
<1> USE DEF ClearReauthenticated, MarkReauthenticated, resetVars, histVars, Goto
<1> DEFINE old == req[r].id
<1>1. lastId' = lastId /\ clock' = clock /\ family' = family OBVIOUS
<1>2. Forward
  <2>1. CASE Finish(r) BY <2>1, <1>1, FinishForward
  <2>2. CASE ~Finish(r)
    <3>1. pc' = [pc EXCEPT ![r] = "verifyOld"] /\ UNCHANGED <<req, seen>>
      BY <2>2
    <3>2. "verifyOld" \notin Holding BY DEF Holding
    <3> QED BY <3>1, <3>2, <1>1, GotoForward DEF FamilyInv, Shape
  <2> QED BY <2>1, <2>2
<1>3. CASE ~refresh[old].live
  BY <1>1, <1>2, <1>3, ForwardKeeps
<1>4. CASE refresh[old].live
  <2>1. old \in Ids /\ old \in Live BY <1>4 DEF FamilyInv, Numbered, Holding, Live
  <2>2. \A i \in Ids : refresh'[i].live = refresh[i].live
    BY <1>4 DEF FamilyInv, Shape, Row
  <2>3. \A i \in Ids : i # old => refresh'[i] = refresh[i] BY <1>4 DEF FamilyInv, Shape
  <2>4. \A f \in Ids : origin[f].confirmed \subseteq origin'[f].confirmed
    BY <1>4 DEF FamilyInv, Shape
  <2>5. refresh'[old].reauthAt > 0 =>
          refresh'[old].reauthAt \in origin'[family[old]].confirmed
    BY <1>4, <2>1 DEF FamilyInv, Shape, Numbered, Live, Row
  <2>6. Shape'
    <3>1. refresh' \in [Ids -> Row]
      <4>1. refresh[old] \in Row /\ DOMAIN refresh = Ids BY <2>1 DEF FamilyInv, Shape
      <4>2. /\ DOMAIN refresh' = Ids
            /\ \E mark \in Nat : refresh'[old] = [refresh[old] EXCEPT !.reauthAt = mark]
        BY <1>4, <2>1, <4>1 DEF FamilyInv, Shape
      <4>3. refresh'[old] \in Row BY <4>1, <4>2 DEF Row
      <4> QED BY <2>1, <2>3, <4>2, <4>3 DEF FamilyInv, Shape
    <3>2. DOMAIN origin' = Ids /\ \A f \in Ids :
            DOMAIN origin'[f] = {"password", "late", "confirmed"}
      BY <1>4 DEF FamilyInv, Shape
    <3> QED BY <3>1, <3>2, <1>1, <1>2 DEF FamilyInv, Shape, Forward
  <2>7. Numbered' BY <1>1, <1>2, <2>2 DEF FamilyInv, Numbered, Live, Forward
  <2>8. OneTokenPerSignIn' BY <1>1, <2>2 DEF FamilyInv, OneTokenPerSignIn, Live
  <2>9. MarksAreConfirmed'
    BY <1>1, <2>2, <2>3, <2>4, <2>5 DEF FamilyInv, Numbered, MarksAreConfirmed, Live
  <2>10. ReadMarkConfirmed'
    BY <1>1, <1>2, <2>2, <2>4
    DEF FamilyInv, Numbered, ReadMarkConfirmed, Forward, Holding, Live
  <2> QED BY <2>6, <2>7, <2>8, <2>9, <2>10 DEF FamilyInv
<1> QED BY <1>3, <1>4

\* The steps of no request: cleanup, time, a restart.
LEMMA BackgroundKeeps ==
  ASSUME FamilyInv, Cleanup \/ Tick \/ Restart
  PROVE  FamilyInv'
<1>1. CASE Cleanup
  <2>1. Forward BY <1>1 DEF Cleanup, reqVars, Forward, FamilyInv, Shape
  <2>2. ExpiredIds \in SUBSET Ids BY DEF ExpiredIds
  <2>3. lastId' = lastId BY <1>1 DEF Cleanup
  <2>4. CASE Delete(ExpiredIds) BY <2>1, <2>2, <2>3, <2>4, DeleteKeeps
  <2>5. CASE UNCHANGED <<refresh, session, histVars>>
    BY <2>1, <2>3, <2>5, ForwardKeeps DEF histVars
  <2> QED BY <1>1, <2>4, <2>5 DEF Cleanup
<1>2. CASE Tick
  <2>1. Forward
    BY <1>2 DEF Tick, reqVars, Forward, FamilyInv, Shape
  <2> QED BY <1>2, <2>1, ForwardKeeps DEF Tick, rowVars, histVars
<1>3. CASE Restart
  <2> USE <1>3 DEF Restart, rowVars
  <2>1. Forward
    BY DEF Forward, FamilyInv, Shape, NoReq, NoSeen, Inputs, Locals, AllKinds, Holding
  <2>2. DOMAIN origin' = Ids
        /\ \A f \in Ids : /\ DOMAIN origin'[f] = {"password", "late", "confirmed"}
                         /\ origin'[f].confirmed = origin[f].confirmed
    BY DEF FamilyInv, Shape
  <2>3. Shape' BY <2>1, <2>2 DEF FamilyInv, Shape, Forward
  <2>4. Numbered' BY <2>1 DEF FamilyInv, Numbered, Live, Holding
  <2>5. OneTokenPerSignIn' BY DEF FamilyInv, OneTokenPerSignIn, Live
  <2>6. MarksAreConfirmed' BY <2>2 DEF FamilyInv, Numbered, MarksAreConfirmed, Live
  <2>7. ReadMarkConfirmed' BY DEF ReadMarkConfirmed
  <2> QED BY <2>3, <2>4, <2>5, <2>6, <2>7 DEF FamilyInv
<1> QED BY <1>1, <1>2, <1>3

\* Every step keeps the invariant.
LEMMA FamilyStep == FamilyInv /\ [Next]_vars => FamilyInv'
<1> SUFFICES ASSUME FamilyInv, [Next]_vars PROVE FamilyInv' OBVIOUS
<1>1. CASE UNCHANGED vars
  <2>1. Forward /\ UNCHANGED <<refresh, lastId, family, origin>>
    BY <1>1 DEF vars, rowVars, reqVars, histVars, Forward, FamilyInv, Shape
  <2> QED BY <2>1, ForwardKeeps
<1>2. CASE Cleanup \/ Tick \/ Restart BY <1>2, BackgroundKeeps
<1>3. ASSUME NEW r \in Requests, RequestStep(r) PROVE FamilyInv'
  BY <1>3, StartKeeps, NewRefreshKeeps, RefreshReadKeeps, RotateKeeps, MarksKeep,
     QuietSteps, RevocationsKeep DEF RequestStep
<1> QED BY <1>1, <1>2, <1>3 DEF Next

\* However many requests rotate the same refresh token at once, and whatever
\* ends sessions meanwhile, a sign-in has at most one live token, and a token
\* in flight never revives a sign-in that ended (refresh.service.ts).
THEOREM SignInsDoNotSplit == Spec => []OneTokenPerSignIn
<1>1. FamilyInv => OneTokenPerSignIn BY DEF FamilyInv
<1> QED BY <1>1, FamilyInit, FamilyStep, PTL DEF Spec

\* A token carries only the mark of a password confirmed in its family, whatever
\* confirmations, consumptions and rotations interleave (reauth.guard.ts).
THEOREM MarksComeFromPasswords == Spec => []MarksAreConfirmed
<1>1. FamilyInv => MarksAreConfirmed BY DEF FamilyInv
<1> QED BY <1>1, FamilyInit, FamilyStep, PTL DEF Spec

----------------------------------------------------------------------------
(* Reset tokens *)

\* A token that set a password is gone, and its number is not given out again.
ResetInv ==
  /\ lastReset \in Nat /\ resetToken.nr \in 0..lastReset
  /\ resets \in [1..MaxReset -> 0..1]
  /\ \A n \in 1..MaxReset : resets[n] = 1 => n # resetToken.nr /\ n <= lastReset

LEMMA ResetStep == ResetInv /\ [Next]_vars => ResetInv'
<1> SUFFICES ASSUME ResetInv, [Next]_vars PROVE ResetInv' OBVIOUS
<1> USE DEF resetVars
<1>1. CASE UNCHANGED resetVars BY <1>1 DEF ResetInv
<1>2. ASSUME NEW r \in Requests, RequestTx(r) PROVE ResetInv'
  BY <1>2 DEF RequestTx, ResetInv
<1>3. ASSUME NEW r \in Requests, ResetRead(r) PROVE ResetInv'
  BY <1>3 DEF ResetRead, NoReset, ResetInv
<1>4. ASSUME NEW r \in Requests, ResetTx(r) PROVE ResetInv'
  <2>1. CASE Redeemable(r)
    <3> DEFINE n == seen[r].reset
    <3>1. n = resetToken.nr /\ resetToken'.nr = 0 /\ lastReset' = lastReset
          /\ resets' = [resets EXCEPT ![n] = @ + 1]
      BY <1>4, <2>1 DEF ResetTx, Redeemable, NoReset
    <3>2. n \in 1..MaxReset => resets[n] = 0 BY <3>1 DEF ResetInv
    <3>3. resets' \in [1..MaxReset -> 0..1]
      <4>1. CASE n \in 1..MaxReset BY <4>1, <3>1, <3>2 DEF ResetInv
      <4>2. CASE n \notin 1..MaxReset
        <5>1. resets' = resets BY <4>2, <3>1 DEF ResetInv
        <5> QED BY <5>1 DEF ResetInv
      <4> QED BY <4>1, <4>2
    <3>4. \A m \in 1..MaxReset : resets'[m] = 1 => m <= lastReset
      BY <3>1 DEF ResetInv
    <3> QED BY <3>1, <3>3, <3>4 DEF ResetInv
  <2>2. CASE ~Redeemable(r) BY <1>4, <2>2 DEF ResetTx, ResetInv
  <2> QED BY <2>1, <2>2
<1>5. CASE Cleanup BY <1>5 DEF Cleanup, NoReset, ResetInv
<1>6. CASE Tick \/ Restart \/ UNCHANGED vars BY <1>1, <1>6 DEF Tick, Restart, vars
<1>7. ASSUME NEW r \in Requests, RequestStep(r),
             ~RequestTx(r), ~ResetRead(r), ~ResetTx(r)
      PROVE  UNCHANGED resetVars
  BY <1>7 DEF RequestStep, Start, NewRefresh, NewSession, SignIn, RefreshRead, Rotate, Validate,
    Touch, ReauthGuard, ClearReauthenticated, Reauthenticate, MarkReauthenticated, VerifyOld,
    RevokeAll, SetPassword, AdminPassword, AdminRevokeAll, RequestRead, RevokeRead, RevokeOne,
    LogoutAll
<1> QED BY <1>1, <1>2, <1>3, <1>4, <1>5, <1>6, <1>7 DEF Next

\* A reset link changes the password at most once, however often it is submitted
\* (verification.service.ts).
THEOREM ResetLinksWorkOnce == Spec => []ResetOnce
<1>1. Init => ResetInv BY DEF Init, ResetInv
<1>2. ResetInv => ResetOnce BY DEF ResetInv, ResetOnce
<1> QED BY <1>1, <1>2, ResetStep, PTL DEF Spec

----------------------------------------------------------------------------
(* Requests do not disturb each other's locals. *)

LEMMA OthersStay ==
  ASSUME FamilyInv, NEW r \in Requests, RequestStep(r)
  PROVE  \A q \in Requests \ {r} : pc'[q] = pc[q] /\ req'[q] = req[q] /\ seen'[q] = seen[q]
<1> USE DEF FamilyInv, Shape, Finish, Goto
<1>1. CASE Start(r) BY <1>1 DEF Start
<1>2. CASE NewRefresh(r) \/ NewSession(r) BY <1>2 DEF NewRefresh, NewSession
<1>3. CASE SignIn(r) \/ RefreshRead(r) \/ Rotate(r) BY <1>3 DEF SignIn, RefreshRead, Rotate
<1>4. CASE Validate(r) \/ Touch(r) BY <1>4 DEF Validate, Touch
<1>5. CASE \/ ReauthGuard(r) \/ ClearReauthenticated(r)
           \/ Reauthenticate(r) \/ MarkReauthenticated(r)
  BY <1>5 DEF ReauthGuard, ClearReauthenticated, Reauthenticate, MarkReauthenticated
<1>6. CASE VerifyOld(r) \/ RevokeAll(r) \/ SetPassword(r)
  BY <1>6 DEF VerifyOld, RevokeAll, SetPassword
<1>7. CASE AdminPassword(r) \/ AdminRevokeAll(r) BY <1>7 DEF AdminPassword, AdminRevokeAll
<1>8. CASE RequestRead(r) \/ RequestTx(r) \/ ResetRead(r) \/ ResetTx(r)
  BY <1>8 DEF RequestRead, RequestTx, ResetRead, ResetTx
<1>9. CASE RevokeRead(r) \/ RevokeOne(r) \/ LogoutAll(r)
  BY <1>9 DEF RevokeRead, RevokeOne, LogoutAll
<1> QED
  BY <1>1, <1>2, <1>3, <1>4, <1>5, <1>6, <1>7, <1>8, <1>9 DEF RequestStep

----------------------------------------------------------------------------
(* Activity.  Several requests may have read the same activity and be about *)
(* to write theirs; one of those writes succeeds, and the others find the   *)
(* record changed.                                                          *)

SessionRow == [live : BOOLEAN, expiresAt : Nat, lastActivity : Nat]

Recorded(i) ==
  lastUse[i] < session[i].lastActivity + Interval \/ lastUse[i] = session[i].lastActivity

\* A write that will find the activity as it was read.
TouchDue(i) ==
  \E r \in Requests :
    pc[r] = "touch" /\ req[r].id = i /\ seen[r].activity = session[i].lastActivity

ActivityInv ==
  /\ session \in [Ids -> SessionRow] /\ lastUse \in [Ids -> Nat]
  /\ \A i \in Ids :
       /\ session[i].lastActivity <= clock /\ lastUse[i] <= clock
       /\ session[i].live => Recorded(i) \/ TouchDue(i)

\* What a step other than a validation or a touch makes of a session.
Kept(i) == session'[i] = session[i] /\ lastUse'[i] = lastUse[i]
Gone(i) == session'[i] = NoSession /\ lastUse'[i] = 0
Begun(i) == session'[i] = Session /\ lastUse'[i] = clock

LEMMA ActivityKeeps ==
  ASSUME FamilyInv, ActivityInv, clock' \in {clock, clock + 1},
         session' \in [Ids -> SessionRow], lastUse' \in [Ids -> Nat],
         \A i \in Ids : Kept(i) \/ Gone(i) \/ Begun(i),
         \A r \in Requests : pc[r] = "touch" =>
           pc'[r] = "touch" /\ req'[r] = req[r] /\ seen'[r] = seen[r]
  PROVE  ActivityInv'
<1>1. clock \in Nat /\ SessionLife \in Nat /\ Interval \in Nat BY DEF FamilyInv, Shape
<1>2. ASSUME NEW i \in Ids
      PROVE  /\ session'[i].lastActivity <= clock' /\ lastUse'[i] <= clock'
             /\ session'[i].live => Recorded(i)' \/ TouchDue(i)'
  <2>1. CASE Kept(i)
    <3>1. TouchDue(i) => TouchDue(i)' BY <2>1 DEF TouchDue, Kept
    <3>2. session[i] \in SessionRow /\ lastUse[i] \in Nat BY DEF ActivityInv
    <3> QED BY <2>1, <3>1, <3>2, <1>1 DEF ActivityInv, Recorded, Kept, SessionRow
  <2>2. CASE Gone(i) BY <2>2, <1>1 DEF Gone, NoSession
  <2>3. CASE Begun(i) BY <2>3, <1>1 DEF Begun, Session, Recorded
  <2> QED BY <1>2, <2>1, <2>2, <2>3
<1> QED BY <1>2 DEF ActivityInv

LEMMA SessionRows ==
  ASSUME FamilyInv
  PROVE  NoSession \in SessionRow /\ Session \in SessionRow
BY DEF NoSession, Session, SessionRow, FamilyInv, Shape

\* Deleted sessions are gone, the others as they were.
LEMMA DeleteActivity ==
  ASSUME FamilyInv, ActivityInv, NEW ids \in SUBSET Ids, Delete(ids)
  PROVE  /\ session' \in [Ids -> SessionRow] /\ lastUse' \in [Ids -> Nat]
         /\ \A i \in Ids : Kept(i) \/ Gone(i)
<1>1. NoSession \in SessionRow BY SessionRows
<1> QED BY <1>1 DEF Delete, ActivityInv, Kept, Gone

\* The validation that finds the record stale leaves a write that will succeed.
LEMMA ValidateActivity ==
  ASSUME FamilyInv, ActivityInv, NEW r \in Requests, Validate(r)
  PROVE  ActivityInv'
<1>1. clock' = clock /\ session' = session /\ pc[r] = "validate" BY DEF Validate, rowVars
<1>2. clock \in Nat /\ Interval \in Nat BY DEF FamilyInv, Shape
<1>3. req[r].id \in Ids BY <1>1 DEF FamilyInv, Numbered, Holding
<1>4. \A i \in Ids : i # req[r].id => lastUse'[i] = lastUse[i]
  BY DEF Validate, ActivityInv
<1>5. \A i \in Ids : TouchDue(i) => TouchDue(i)'
  BY <1>1, OthersStay DEF TouchDue, RequestStep
<1>6. \A i \in Ids : session[i] \in SessionRow /\ lastUse[i] \in Nat BY DEF ActivityInv
<1>7. CASE UNCHANGED lastUse
  BY <1>1, <1>5, <1>7 DEF ActivityInv, Recorded
<1>8. CASE lastUse' = [lastUse EXCEPT ![req[r].id] = clock]
  <2> PICK i \in Ids : i = req[r].id BY <1>3
  <2>1. lastUse' \in [Ids -> Nat] /\ lastUse'[i] = clock BY <1>2, <1>3, <1>8 DEF ActivityInv
  <2>2. CASE IsStale(i)
    <3>1. CASE UNCHANGED lastUse
      BY <3>1, <1>7
    <3>2. CASE ~UNCHANGED lastUse
      <4>1. /\ pc' = [pc EXCEPT ![r] = "touch"] /\ req' = req
            /\ seen' = [seen EXCEPT ![r].activity = session[i].lastActivity]
        BY <2>2, <3>2 DEF Validate
      <4>2. pc'[r] = "touch" /\ seen'[r].activity = session[i].lastActivity
        BY <4>1 DEF FamilyInv, Shape, Locals
      <4>3. TouchDue(i)' BY <4>1, <4>2, <1>1 DEF TouchDue
      <4> QED BY <1>1, <1>2, <1>3, <1>4, <1>5, <2>1, <4>3 DEF ActivityInv, Recorded
    <3> QED BY <3>1, <3>2
  <2>3. CASE ~IsStale(i)
    <3>1. clock < session[i].lastActivity + Interval
      BY <1>2, <1>3, <1>6, <2>3 DEF IsStale, SessionRow
    <3>2. Recorded(i)' BY <1>1, <2>1, <3>1 DEF Recorded
    <3> QED BY <1>1, <1>2, <1>3, <1>4, <1>5, <2>1, <3>2 DEF ActivityInv, Recorded
  <2> QED BY <2>2, <2>3
<1> QED BY <1>7, <1>8 DEF Validate

\* A write that succeeds records a time that no use is later than; one that does
\* not was no write due.
LEMMA TouchActivity ==
  ASSUME FamilyInv, ActivityInv, NEW r \in Requests, Touch(r)
  PROVE  ActivityInv'
<1>1. clock' = clock /\ lastUse' = lastUse /\ pc[r] = "touch" BY DEF Touch, histVars
<1>2. clock \in Nat /\ Interval \in Nat BY DEF FamilyInv, Shape
<1>3. PICK i \in Ids : i = req[r].id BY <1>1 DEF FamilyInv, Numbered, Holding
<1>4. \A j \in Ids : session[j] \in SessionRow /\ lastUse[j] \in Nat BY DEF ActivityInv
<1>5. \A q \in Requests \ {r} : pc'[q] = pc[q] /\ req'[q] = req[q] /\ seen'[q] = seen[q]
  BY OthersStay DEF RequestStep
<1>6. CASE session[i].live /\ session[i].lastActivity = seen[r].activity
  <2>1. session' = [session EXCEPT ![i].lastActivity = clock] BY <1>3, <1>6 DEF Touch
  <2>2. /\ session' \in [Ids -> SessionRow] /\ session'[i].lastActivity = clock
        /\ \A j \in Ids \ {i} : session'[j] = session[j]
    BY <1>2, <1>3, <1>4, <2>1 DEF ActivityInv, SessionRow
  <2>3. Recorded(i)'
    <3>1. lastUse[i] <= clock BY <1>3 DEF ActivityInv
    <3> QED BY <3>1, <1>1, <1>2, <1>3, <1>4, <2>2 DEF Recorded
  <2>4. \A j \in Ids \ {i} : TouchDue(j) => TouchDue(j)' BY <1>3, <1>5, <2>2 DEF TouchDue
  <2> QED BY <1>1, <1>2, <2>2, <2>3, <2>4 DEF ActivityInv, Recorded
<1>7. CASE ~(session[i].live /\ session[i].lastActivity = seen[r].activity)
  <2>1. session' = session BY <1>3, <1>7 DEF Touch
  <2>2. \A j \in Ids : session[j].live /\ TouchDue(j) => TouchDue(j)'
    BY <1>3, <1>5, <1>7, <2>1 DEF TouchDue
  <2> QED BY <1>1, <2>1, <2>2 DEF ActivityInv, Recorded
<1> QED BY <1>6, <1>7

LEMMA ActivityStep ==
  ASSUME FamilyInv, ActivityInv, [Next]_vars
  PROVE  ActivityInv'
<1> DEFINE TouchesStay == \A r \in Requests : pc[r] = "touch" =>
                 pc'[r] = "touch" /\ req'[r] = req[r] /\ seen'[r] = seen[r]
<1>1. NoSession \in SessionRow /\ Session \in SessionRow /\ clock \in Nat
  BY SessionRows DEF FamilyInv, Shape
<1>2. ASSUME UNCHANGED <<session, lastUse>>, clock' \in {clock, clock + 1}, TouchesStay
      PROVE  ActivityInv'
  BY <1>2, ActivityKeeps DEF ActivityInv, Kept
<1>3. ASSUME NEW ids \in SUBSET Ids, Delete(ids), clock' = clock, TouchesStay
      PROVE  ActivityInv'
  BY <1>3, ActivityKeeps, DeleteActivity
<1>4. ASSUME NEW r \in Requests, RequestStep(r) PROVE ActivityInv'
  <2>1. CASE Validate(r) \/ Touch(r) BY <2>1, ValidateActivity, TouchActivity
  <2>2. ASSUME ~Validate(r), ~Touch(r)
        PROVE  TouchesStay /\ clock' = clock
    <3>1. pc[r] # "touch"
      BY <1>4, <2>2 DEF RequestStep, Start, NewRefresh, NewSession, SignIn, RefreshRead, Rotate,
         ReauthGuard, ClearReauthenticated, Reauthenticate, MarkReauthenticated, VerifyOld,
         RevokeAll, SetPassword, AdminPassword, AdminRevokeAll, RequestRead, RequestTx,
         ResetRead, ResetTx, RevokeRead, RevokeOne, LogoutAll
    <3>2. clock' = clock
      BY <1>4, <2>2 DEF RequestStep, Start, NewRefresh, NewSession, SignIn, RefreshRead, Rotate,
         ReauthGuard, ClearReauthenticated, Reauthenticate, MarkReauthenticated, VerifyOld,
         RevokeAll, SetPassword, AdminPassword, AdminRevokeAll, RequestRead, RequestTx,
         ResetRead, ResetTx, RevokeRead, RevokeOne, LogoutAll
    <3> QED BY <1>4, <3>1, <3>2, OthersStay
  <2>3. CASE NewSession(r)
    <3>1. TouchesStay /\ clock' = clock BY <2>2, <2>3 DEF NewSession, Validate, Touch
    <3>2. /\ session' \in [Ids -> SessionRow] /\ lastUse' \in [Ids -> Nat]
          /\ \A i \in Ids : Kept(i) \/ Begun(i)
      BY <1>1, <2>3 DEF NewSession, ActivityInv, Kept, Begun
    <3> QED BY <3>1, <3>2, ActivityKeeps
  <2>4. CASE Rotate(r) /\ ~Reused(r)
    <3>1. TouchesStay /\ clock' = clock BY <2>2, <2>4 DEF Rotate, Validate, Touch
    <3>2. /\ session' \in [Ids -> SessionRow] /\ lastUse' \in [Ids -> Nat]
          /\ \A i \in Ids : Kept(i) \/ Gone(i) \/ Begun(i)
      BY <1>1, <2>4 DEF Rotate, ActivityInv, Kept, Gone, Begun
    <3> QED BY <3>1, <3>2, ActivityKeeps
  <2>5. CASE RevokeOne(r)
    <3>1. TouchesStay /\ clock' = clock BY <2>2, <2>5 DEF RevokeOne, Validate, Touch
    <3>2. {req[r].id} \in SUBSET Ids BY <2>5 DEF RevokeOne, FamilyInv, Numbered, Holding
    <3> QED BY <3>1, <3>2, <1>3, <2>5 DEF RevokeOne
  <2>6. CASE \/ (Rotate(r) /\ Reused(r)) \/ RevokeAll(r) \/ AdminRevokeAll(r) \/ ResetTx(r)
             \/ LogoutAll(r)
    <3>1. TouchesStay /\ clock' = clock
      BY <2>2, <2>6 DEF Rotate, RevokeAll, AdminRevokeAll, ResetTx, LogoutAll, Validate, Touch
    <3>2. Delete(Ids) \/ UNCHANGED <<session, lastUse>>
      BY <2>6 DEF Rotate, RevokeAll, AdminRevokeAll, ResetTx, LogoutAll
    <3> QED BY <3>1, <3>2, <1>2, <1>3
  <2>7. CASE \/ Start(r) \/ NewRefresh(r) \/ SignIn(r) \/ RefreshRead(r) \/ ReauthGuard(r)
             \/ ClearReauthenticated(r) \/ Reauthenticate(r) \/ MarkReauthenticated(r)
             \/ VerifyOld(r) \/ SetPassword(r) \/ AdminPassword(r) \/ RequestRead(r)
             \/ RequestTx(r) \/ ResetRead(r) \/ RevokeRead(r)
    <3>1. UNCHANGED <<session, lastUse>>
      BY <2>7 DEF Start, NewRefresh, SignIn, RefreshRead, ReauthGuard, ClearReauthenticated,
         Reauthenticate, MarkReauthenticated, VerifyOld, SetPassword, AdminPassword,
         RequestRead, RequestTx, ResetRead, RevokeRead, rowVars, histVars
    <3>2. ~Validate(r) /\ ~Touch(r)
      BY <2>7 DEF Start, NewRefresh, SignIn, RefreshRead, ReauthGuard, ClearReauthenticated,
         Reauthenticate, MarkReauthenticated, VerifyOld, SetPassword, AdminPassword,
         RequestRead, RequestTx, ResetRead, RevokeRead, Validate, Touch
    <3> QED BY <3>1, <2>2, <3>2, <1>2
  <2> QED BY <1>4, <2>1, <2>3, <2>4, <2>5, <2>6, <2>7 DEF RequestStep
<1>5. CASE Cleanup
  <2>1. TouchesStay /\ clock' = clock BY <1>5 DEF Cleanup, reqVars
  <2>2. ExpiredIds \in SUBSET Ids BY DEF ExpiredIds
  <2> QED BY <1>2, <1>3, <1>5, <2>1, <2>2 DEF Cleanup, histVars
<1>6. CASE Tick BY <1>2, <1>6 DEF Tick, rowVars, reqVars, histVars
<1>7. CASE Restart BY <1>7 DEF Restart, rowVars, ActivityInv, Recorded, SessionRow
<1>8. CASE UNCHANGED vars BY <1>2, <1>8 DEF vars, rowVars, reqVars, histVars
<1> QED BY <1>4, <1>5, <1>6, <1>7, <1>8 DEF Next

\* The activity on record lags behind the last validated request by less than the
\* write interval, or a write that will catch up is in flight, however many
\* requests of a session are validated at once (session.service.ts, validate).
THEOREM ActivityKeepsUp == Spec => []ActivityOnRecord
<1>1. Init => ActivityInv
  BY DEF Init, ActivityInv, NoSession, SessionRow
<1>2. FamilyInv /\ ActivityInv /\ [Next]_vars => (FamilyInv /\ ActivityInv)'
  BY FamilyStep, ActivityStep
<1>3. FamilyInv /\ ActivityInv => ActivityOnRecord
  BY DEF ActivityInv, ActivityOnRecord, Recorded, TouchDue
<1> QED BY <1>1, <1>2, <1>3, FamilyInit, PTL DEF Spec

----------------------------------------------------------------------------
(* Passwords.  A change ends the sessions and writes the password in two    *)
(* steps: the user's own in this order, an administrator's in the other.    *)

Late(i) == origin[family[i]].late
OfPassword(i) == origin[family[i]].password = password

\* While a password is about to be written, every session began since the
\* revocation that came before it.
PasswordInv ==
  /\ (\E r \in Requests : pc[r] = "setPassword") => \A i \in Live : Late(i)
  /\ (\A r \in Requests : pc[r] # "adminRevokeAll") => \A i \in Live : OfPassword(i) \/ Late(i)

\* A live token that stands, or takes the place of another, in a family whose
\* beginning stands.
Descends(i, j) ==
  /\ origin'[family'[i]].late = origin[family[j]].late
  /\ origin'[family'[i]].password = origin[family[j]].password

LEMMA PasswordStays ==
  ASSUME PasswordInv, UNCHANGED password,
         \A i \in Live' : \E j \in Live : Descends(i, j),
         \A q \in Requests : /\ pc'[q] = "setPassword" => pc[q] = "setPassword"
                             /\ pc[q] = "adminRevokeAll" => pc'[q] = "adminRevokeAll"
  PROVE  PasswordInv'
BY DEF PasswordInv, Descends, Late, OfPassword

\* The steps that leave every live token in its family.
LEMMA QuietTokens ==
  ASSUME FamilyInv, NEW r \in Requests,
         \/ Start(r) \/ NewSession(r) \/ SignIn(r) \/ RefreshRead(r) \/ Validate(r) \/ Touch(r)
         \/ ReauthGuard(r) \/ ClearReauthenticated(r) \/ Reauthenticate(r)
         \/ MarkReauthenticated(r) \/ VerifyOld(r) \/ SetPassword(r) \/ AdminPassword(r)
         \/ RequestRead(r) \/ RequestTx(r) \/ ResetRead(r) \/ RevokeRead(r)
  PROVE  \A i \in Live' : i \in Live /\ Descends(i, i)
<1> USE DEF rowVars, histVars
<1>1. CASE ClearReauthenticated(r)
  BY <1>1 DEF ClearReauthenticated, FamilyInv, Shape, Row, Live, Descends
<1>2. CASE MarkReauthenticated(r)
  <2>1. family' = family /\ \A i \in Ids : refresh'[i].live = refresh[i].live
    BY <1>2 DEF MarkReauthenticated, FamilyInv, Shape, Row
  <2>2. \A f \in Ids : origin'[f].late = origin[f].late /\ origin'[f].password = origin[f].password
    BY <1>2 DEF MarkReauthenticated, FamilyInv, Shape
  <2> QED BY <2>1, <2>2 DEF FamilyInv, Numbered, Live, Descends
<1>3. CASE ~ClearReauthenticated(r) /\ ~MarkReauthenticated(r)
  <2>1. UNCHANGED <<refresh, family, origin>>
    BY <1>3 DEF Start, NewSession, SignIn, RefreshRead, Validate, Touch, ReauthGuard,
       Reauthenticate, VerifyOld, SetPassword, AdminPassword, RequestRead, RequestTx,
       ResetRead, RevokeRead
  <2> QED BY <2>1 DEF Live, Descends
<1> QED BY <1>1, <1>2, <1>3

\* A rotated token stays in the family of the one it replaces.
LEMMA RotatedTokens ==
  ASSUME FamilyInv, NEW r \in Requests, Rotate(r), ~Reused(r)
  PROVE  \A i \in Live' : \E j \in Live : Descends(i, j)
<1>1. req[r].id \in Live BY DEF Rotate, Reused, FamilyInv, Numbered, Holding, Live
<1>2. \A i \in Live' : i # lastId + 1 => i \in Live /\ family'[i] = family[i]
  BY DEF Rotate, FamilyInv, Shape, Live, NoRefresh
<1>3. lastId + 1 \in Ids => family'[lastId + 1] = family[req[r].id]
  BY DEF Rotate, FamilyInv, Shape
<1>4. origin' = origin BY DEF Rotate
<1> QED BY <1>1, <1>2, <1>3, <1>4 DEF Descends, Live

\* Revoking a set of tokens spares the others.
LEMMA RevokedTokens ==
  ASSUME FamilyInv, NEW ids \in SUBSET Ids, Delete(ids)
  PROVE  \A i \in Live' : i \notin ids /\ i \in Live /\ Descends(i, i)
BY DeleteSpares DEF Live, Descends

\* A sign-in that overlaps a change of the password is late.
LEMMA NewTokens ==
  ASSUME FamilyInv, PasswordInv, NEW r \in Requests, NewRefresh(r)
  PROVE  PasswordInv'
<1> DEFINE n == lastId + 1
<1>1. password' = password /\ pc' = [pc EXCEPT ![r] = "newSession"] BY DEF NewRefresh
<1>2. \A i \in Live' : i # n => i \in Live /\ Descends(i, i)
  <2> SUFFICES ASSUME NEW i \in Live', i # n PROVE i \in Live /\ Descends(i, i)
    OBVIOUS
  <2>1. i \in Live /\ family'[i] = family[i]
    BY DEF NewRefresh, FamilyInv, Shape, Live
  <2>2. family[i] # n BY <2>1 DEF FamilyInv, Shape, Numbered, Live
  <2> QED BY <2>1, <2>2 DEF NewRefresh, FamilyInv, Shape, Numbered, Live, Descends
<1>3. n \in Ids => /\ family'[n] = n
                   /\ origin'[n].late = (Changing \/ seen[r].password # password)
                   /\ origin'[n].password = seen[r].password
  BY DEF NewRefresh, FamilyInv, Shape
<1>4. \A q \in Requests : pc'[q] \in {"setPassword", "adminRevokeAll"} <=>
                          pc[q] \in {"setPassword", "adminRevokeAll"} /\ q # r
  BY <1>1 DEF NewRefresh, FamilyInv, Shape
<1>5. \A q \in Requests : pc'[q] = "setPassword" => pc[q] = "setPassword"
  BY <1>1 DEF NewRefresh, FamilyInv, Shape
<1>6. \A q \in Requests : pc[q] = "adminRevokeAll" => pc'[q] = "adminRevokeAll"
  BY <1>1 DEF NewRefresh, FamilyInv, Shape
<1>7. ASSUME NEW i \in Live'
      PROVE  /\ (\E q \in Requests : pc'[q] = "setPassword") => Late(i)'
             /\ (\A q \in Requests : pc'[q] # "adminRevokeAll") => OfPassword(i)' \/ Late(i)'
  <2>1. CASE i = n
    <3>1. Late(i)' = (Changing \/ seen[r].password # password)
          /\ origin'[family'[i]].password = seen[r].password
      BY <2>1, <1>3 DEF Late, Live
    <3> QED BY <3>1, <1>1, <1>5 DEF Changing, OfPassword
  <2>2. CASE i # n
    <3>1. i \in Live /\ Descends(i, i) BY <2>2, <1>2
    <3> QED BY <3>1, <1>1, <1>5, <1>6 DEF PasswordInv, Descends, Late, OfPassword
  <2> QED BY <2>1, <2>2
<1> QED BY <1>7 DEF PasswordInv

LEMMA PasswordStep ==
  ASSUME FamilyInv, PasswordInv, [Next]_vars
  PROVE  PasswordInv'
<1>1. ASSUME Delete(Ids) PROVE PasswordInv'
  BY <1>1, RevokedTokens DEF PasswordInv, Live
<1>2. ASSUME NEW r \in Requests, RequestStep(r) PROVE PasswordInv'
  <2>1. CASE NewRefresh(r) BY <2>1, NewTokens
  <2>2. CASE SetPassword(r)
    <3>1. \A i \in Live : Late(i) BY <2>2 DEF SetPassword, PasswordInv
    <3>2. \A i \in Live' : i \in Live /\ Descends(i, i) BY <2>2, QuietTokens
    <3> QED BY <3>1, <3>2 DEF PasswordInv, Descends, Late
  <2>3. CASE AdminPassword(r)
    <3>1. pc' = [pc EXCEPT ![r] = "adminRevokeAll"] BY <2>3 DEF AdminPassword, Goto
    <3>2. \A i \in Live' : i \in Live /\ Descends(i, i) BY <2>3, QuietTokens
    <3>3. \A q \in Requests : pc'[q] = "setPassword" => pc[q] = "setPassword"
      BY <3>1 DEF FamilyInv, Shape
    <3>4. pc'[r] = "adminRevokeAll" BY <3>1 DEF FamilyInv, Shape
    <3> QED BY <3>2, <3>3, <3>4 DEF PasswordInv, Descends, Late
  <2>4. CASE \/ (Rotate(r) /\ Reused(r)) \/ RevokeAll(r) \/ AdminRevokeAll(r) \/ LogoutAll(r)
             \/ ResetTx(r) /\ Redeemable(r)
    BY <1>1, <2>4 DEF Rotate, RevokeAll, AdminRevokeAll, LogoutAll, ResetTx
  <2>5. ASSUME \A i \in Live' : \E j \in Live : Descends(i, j), ~RevokeAll(r),
               ~AdminRevokeAll(r), ~SetPassword(r), ~AdminPassword(r),
               ~(ResetTx(r) /\ Redeemable(r))
        PROVE  PasswordInv'
    <3>1. UNCHANGED password
      BY <1>2, <2>5 DEF RequestStep, Start, NewRefresh, NewSession, SignIn, RefreshRead, Rotate,
         Validate, Touch, ReauthGuard, ClearReauthenticated, Reauthenticate,
         MarkReauthenticated, VerifyOld, RequestRead, RequestTx, ResetRead, ResetTx,
         RevokeRead, RevokeOne, LogoutAll
    <3>2. pc[r] # "adminRevokeAll"
      BY <1>2, <2>5 DEF RequestStep, Start, NewRefresh, NewSession, SignIn, RefreshRead, Rotate,
         Validate, Touch, ReauthGuard, ClearReauthenticated, Reauthenticate,
         MarkReauthenticated, VerifyOld, RequestRead, RequestTx, ResetRead, ResetTx,
         RevokeRead, RevokeOne, LogoutAll
    <3>3. pc'[r] # "setPassword"
      <4>1. \A k \in AllKinds : FirstStep(k) # "setPassword" BY DEF FirstStep, AllKinds
      <4>2. Handler(r) # "setPassword"
        BY DEF Handler, FamilyInv, Shape, Inputs, AllKinds
      <4> QED
        BY <1>2, <2>5, <4>1, <4>2 DEF RequestStep, Start, NewRefresh, NewSession, SignIn,
           RefreshRead, Rotate, Validate, Touch, ReauthGuard, ClearReauthenticated,
           Reauthenticate, MarkReauthenticated, VerifyOld, RequestRead, RequestTx, ResetRead,
           ResetTx, RevokeRead, RevokeOne, LogoutAll, Finish, Goto, FamilyInv, Shape
    <3> QED BY <1>2, <2>5, <3>1, <3>2, <3>3, OthersStay, PasswordStays
  <2>6. CASE Rotate(r) /\ ~Reused(r)
    BY <2>5, <2>6, RotatedTokens
    DEF Rotate, RevokeAll, AdminRevokeAll, SetPassword, AdminPassword, ResetTx
  <2>7. CASE RevokeOne(r)
    <3>1. {req[r].id} \in SUBSET Ids BY <2>7 DEF RevokeOne, FamilyInv, Numbered, Holding
    <3>2. \A i \in Live' : \E j \in Live : Descends(i, j)
      BY <2>7, <3>1, RevokedTokens DEF RevokeOne
    <3> QED
      BY <2>5, <2>7, <3>2
      DEF RevokeOne, RevokeAll, AdminRevokeAll, SetPassword, AdminPassword, ResetTx
  <2>8. CASE ResetTx(r) /\ ~Redeemable(r)
    <3>1. \A i \in Live' : \E j \in Live : Descends(i, j)
      BY <2>8 DEF ResetTx, Live, Descends
    <3> QED
      BY <2>5, <2>8, <3>1 DEF ResetTx, RevokeAll, AdminRevokeAll, SetPassword, AdminPassword
  <2>9. CASE \/ Start(r) \/ NewSession(r) \/ SignIn(r) \/ RefreshRead(r) \/ Validate(r)
             \/ Touch(r) \/ ReauthGuard(r) \/ ClearReauthenticated(r) \/ Reauthenticate(r)
             \/ MarkReauthenticated(r) \/ VerifyOld(r) \/ RequestRead(r) \/ RequestTx(r)
             \/ ResetRead(r) \/ RevokeRead(r)
    <3>1. \A i \in Live' : \E j \in Live : Descends(i, j) BY <2>9, QuietTokens
    <3>2. ~RevokeAll(r) /\ ~AdminRevokeAll(r) /\ ~SetPassword(r) /\ ~AdminPassword(r)
          /\ ~ResetTx(r)
      BY <2>9 DEF Start, NewSession, SignIn, RefreshRead, Validate, Touch, ReauthGuard,
         ClearReauthenticated, Reauthenticate, MarkReauthenticated, VerifyOld, RequestRead,
         RequestTx, ResetRead, RevokeRead, RevokeAll, AdminRevokeAll, SetPassword,
         AdminPassword, ResetTx
    <3> QED BY <2>5, <3>1, <3>2
  <2> QED BY <1>2, <2>1, <2>2, <2>3, <2>4, <2>6, <2>7, <2>8, <2>9 DEF RequestStep
<1>3. CASE Cleanup
  <2>1. \A i \in Live' : \E j \in Live : Descends(i, j)
    <3>1. CASE Delete(ExpiredIds)
      <4>1. ExpiredIds \in SUBSET Ids BY DEF ExpiredIds
      <4> QED BY <3>1, <4>1, RevokedTokens
    <3>2. CASE UNCHANGED <<refresh, session, histVars>>
      BY <3>2 DEF histVars, Live, Descends
    <3> QED BY <1>3, <3>1, <3>2 DEF Cleanup
  <2>2. UNCHANGED <<password, pc>> BY <1>3 DEF Cleanup, reqVars
  <2> QED BY <2>1, <2>2, PasswordStays
<1>4. CASE Tick \/ UNCHANGED vars
  <2>1. UNCHANGED <<password, pc, refresh, family, origin>>
    BY <1>4 DEF Tick, vars, rowVars, reqVars, histVars
  <2> QED BY <2>1, PasswordStays DEF Live, Descends
<1>5. CASE Restart
  <2>1. /\ UNCHANGED <<password, refresh, family>>
        /\ \A r \in Requests : pc'[r] = "idle"
        /\ \A f \in Ids : /\ origin'[f].late = (origin[f].late \/ Changing)
                          /\ origin'[f].password = origin[f].password
    BY <1>5 DEF Restart, rowVars, FamilyInv, Shape
  <2>2. \A i \in Live : family[i] \in Ids BY DEF FamilyInv, Numbered
  <2> QED BY <2>1, <2>2 DEF PasswordInv, Live, Late, OfPassword, Changing
<1> QED BY <1>2, <1>3, <1>4, <1>5 DEF Next

\* After a change of the password, by its user, by an administrator or by a reset
\* link, a live session of an earlier password overlapped the change or was saved
\* by a restart: no order of sign-ins, rotations and changes leaves another one
\* (auth.service.ts, updatePassword; user.service.ts, update; reset).
THEOREM OldPasswordsEnd == Spec => []OldPasswordOnlyFromRaces
<1>1. Init => PasswordInv
  BY DEF Init, PasswordInv, Live, NoRefresh
<1>2. FamilyInv /\ PasswordInv /\ [Next]_vars => (FamilyInv /\ PasswordInv)'
  BY FamilyStep, PasswordStep
<1>3. PasswordInv => OldPasswordOnlyFromRaces
  BY DEF PasswordInv, OldPasswordOnlyFromRaces, OfPassword, Late
<1> QED BY <1>1, <1>2, <1>3, FamilyInit, PTL DEF Spec
----------------------------------------------------------------------------
(* Types.  What is bounded is created several steps after the request that  *)
(* creates it was let in: the requests under way are counted with what is   *)
(* there already.                                                           *)

Busy == {r \in Requests : pc[r] # "idle"}
ToCreate == {r \in Requests : req[r].kind \in Creates /\ pc[r] \notin {"idle", "newSession"}}
ToChange == {r \in Requests : req[r].kind \in Changes
               /\ pc[r] \notin {"idle", "newRefresh", "newSession", "adminRevokeAll"}}
ToRequest == {r \in Requests : req[r].kind = "request" /\ pc[r] # "idle"}

\* The requests that reach a step that creates something, by kind.
Reaches ==
  \A r \in Requests :
    /\ pc[r] \in {"refresh", "rotate"} => req[r].kind = "refresh"
    /\ pc[r] = "newRefresh" => req[r].kind \in {"signIn", "password"}
    /\ pc[r] \in {"verifyOld", "revokeAll", "setPassword"} => req[r].kind = "password"
    /\ pc[r] \in {"request", "requestTx"} => req[r].kind = "request"
    /\ pc[r] \in {"reset", "resetTx"} => req[r].kind = "reset"
    /\ pc[r] \in {"signIn", "adminPassword"} => req[r].kind = pc[r]

Room(n, waiting, bound) == n \in Nat /\ n + Cardinality(waiting) <= bound

Booked ==
  /\ IsFiniteSet(Busy) /\ Reaches
  /\ Room(lastId, ToCreate, MaxId)
  /\ Room(password, ToChange, MaxPassword)
  /\ Room(lastReset, ToRequest, MaxReset)

\* Nothing is created, and nobody else waits to create.
LEMMA RoomStays ==
  ASSUME NEW n, NEW A, NEW B \in SUBSET A, NEW bound \in Nat, IsFiniteSet(A), Room(n, A, bound)
  PROVE  Room(n, B, bound)
<1>1. Cardinality(B) <= Cardinality(A) /\ Cardinality(A) \in Nat /\ Cardinality(B) \in Nat
  BY FS_Subset, FS_CardinalityType
<1> QED BY <1>1 DEF Room

\* A request creates and waits no more.
LEMMA RoomUsed ==
  ASSUME NEW n, NEW A, NEW x \in A, NEW B \in SUBSET (A \ {x}), NEW bound \in Nat,
         IsFiniteSet(A), Room(n, A, bound)
  PROVE  Room(n + 1, B, bound)
<1>1. IsFiniteSet(A \ {x}) /\ Cardinality(A \ {x}) = Cardinality(A) - 1
  BY FS_RemoveElement
<1>2. /\ Cardinality(B) <= Cardinality(A \ {x})
      /\ Cardinality(A) \in Nat /\ Cardinality(B) \in Nat
  BY <1>1, FS_Subset, FS_CardinalityType
<1> QED BY <1>1, <1>2 DEF Room

\* A request is let in while there is room for those under way and for it.
LEMMA RoomTaken ==
  ASSUME NEW n \in Nat, NEW C, IsFiniteSet(C), NEW x, NEW B \in SUBSET (C \cup {x}),
         NEW bound \in Nat, n + Cardinality(C) < bound
  PROVE  Room(n, B, bound)
<1>1. IsFiniteSet(C \cup {x}) /\ Cardinality(C \cup {x}) <= Cardinality(C) + 1
  <2>1. Cardinality(C) \in Nat BY FS_CardinalityType
  <2>2. /\ IsFiniteSet(C \cup {x})
        /\ Cardinality(C \cup {x}) = IF x \in C THEN Cardinality(C) ELSE Cardinality(C) + 1
    BY FS_AddElement
  <2> QED BY <2>1, <2>2
<1>2. /\ Cardinality(B) <= Cardinality(C \cup {x})
      /\ Cardinality(C) \in Nat /\ Cardinality(B) \in Nat /\ Cardinality(C \cup {x}) \in Nat
  BY <1>1, FS_Subset, FS_CardinalityType
<1> QED BY <1>1, <1>2 DEF Room

\* Initially nobody waits.
LEMMA BookedInit == Init => Booked
<1> SUFFICES ASSUME Init PROVE Booked OBVIOUS
<1>1. Busy = {} /\ ToCreate = {} /\ ToChange = {} /\ ToRequest = {}
  BY DEF Init, Busy, ToCreate, ToChange, ToRequest
<1>2. Reaches BY DEF Init, Reaches
<1> QED BY <1>1, <1>2, FS_EmptySet DEF Init, Booked, Room

\* A step of a request under way answers it or takes it further.
Walks(r) ==
  /\ pc[r] # "idle"
  /\ \/ pc'[r] = "idle"
     \/ /\ req'[r].kind = req[r].kind
        /\ pc[r] \notin {"newSession", "adminRevokeAll"}
        /\ pc[r] = "newRefresh" => pc'[r] = "newSession"

LEMMA Walking ==
  ASSUME FamilyInv, NEW r \in Requests, RequestStep(r), ~Start(r)
  PROVE  Walks(r)
<1> USE DEF FamilyInv, Shape, Finish, Goto, Walks
<1>1. CASE NewRefresh(r) \/ NewSession(r)
  BY <1>1 DEF NewRefresh, NewSession, Inputs
<1>2. CASE SignIn(r) \/ RefreshRead(r) \/ Rotate(r)
  BY <1>2 DEF SignIn, RefreshRead, Rotate
<1>3. CASE Validate(r) \/ Touch(r) BY <1>3 DEF Validate, Touch
<1>4. CASE \/ ReauthGuard(r) \/ ClearReauthenticated(r)
           \/ Reauthenticate(r) \/ MarkReauthenticated(r)
  BY <1>4 DEF ReauthGuard, ClearReauthenticated, Reauthenticate, MarkReauthenticated
<1>5. CASE VerifyOld(r) \/ RevokeAll(r) \/ SetPassword(r)
  BY <1>5 DEF VerifyOld, RevokeAll, SetPassword
<1>6. CASE AdminPassword(r) \/ AdminRevokeAll(r) BY <1>6 DEF AdminPassword, AdminRevokeAll
<1>7. CASE RequestRead(r) \/ RequestTx(r) \/ ResetRead(r) \/ ResetTx(r)
  BY <1>7 DEF RequestRead, RequestTx, ResetRead, ResetTx
<1>8. CASE RevokeRead(r) \/ RevokeOne(r) \/ LogoutAll(r)
  BY <1>8 DEF RevokeRead, RevokeOne, LogoutAll
<1> QED BY <1>1, <1>2, <1>3, <1>4, <1>5, <1>6, <1>7, <1>8 DEF RequestStep

\* So no request begins to wait.
LEMMA WalksShrink ==
  ASSUME FamilyInv, NEW r \in Requests, RequestStep(r), Walks(r)
  PROVE  /\ Busy' \subseteq Busy /\ ToCreate' \subseteq ToCreate
         /\ ToChange' \subseteq ToChange /\ ToRequest' \subseteq ToRequest
<1>1. \A q \in Requests \ {r} : pc'[q] = pc[q] /\ req'[q] = req[q] BY OthersStay
<1> QED BY <1>1 DEF Walks, Busy, ToCreate, ToChange, ToRequest

\* Each step is reached by requests of its kinds.
LEMMA ReachesStep ==
  ASSUME FamilyInv, Reaches, NEW r \in Requests, RequestStep(r)
  PROVE  Reaches'
<1>1. \A q \in Requests \ {r} : pc'[q] = pc[q] /\ req'[q] = req[q] BY OthersStay
<1>2. /\ pc'[r] \in {"refresh", "rotate"} => req'[r].kind = "refresh"
      /\ pc'[r] = "newRefresh" => req'[r].kind \in {"signIn", "password"}
      /\ pc'[r] \in {"verifyOld", "revokeAll", "setPassword"} => req'[r].kind = "password"
      /\ pc'[r] \in {"request", "requestTx"} => req'[r].kind = "request"
      /\ pc'[r] \in {"reset", "resetTx"} => req'[r].kind = "reset"
      /\ pc'[r] \in {"signIn", "adminPassword"} => req'[r].kind = pc'[r]
  <2> USE DEF FamilyInv, Shape, Reaches, Finish, Goto
  <2>1. CASE Start(r) BY <2>1 DEF Start, FirstStep, Authenticated, AllKinds
  <2>2. CASE NewRefresh(r) \/ NewSession(r) BY <2>2 DEF NewRefresh, NewSession
  <2>3. CASE SignIn(r) \/ RefreshRead(r) \/ Rotate(r)
    BY <2>3 DEF SignIn, RefreshRead, Rotate
  <2>4. CASE Validate(r) \/ Touch(r)
    <3>1. req[r].kind \in AllKinds BY DEF Inputs
    <3> QED BY <2>4, <3>1 DEF Validate, Touch, Handler, AllKinds
  <2>5. CASE \/ ReauthGuard(r) \/ ClearReauthenticated(r)
             \/ Reauthenticate(r) \/ MarkReauthenticated(r)
    BY <2>5 DEF ReauthGuard, ClearReauthenticated, Reauthenticate, MarkReauthenticated
  <2>6. CASE VerifyOld(r) \/ RevokeAll(r) \/ SetPassword(r)
    BY <2>6 DEF VerifyOld, RevokeAll, SetPassword
  <2>7. CASE AdminPassword(r) \/ AdminRevokeAll(r) BY <2>7 DEF AdminPassword, AdminRevokeAll
  <2>8. CASE RequestRead(r) \/ RequestTx(r) \/ ResetRead(r) \/ ResetTx(r)
    BY <2>8 DEF RequestRead, RequestTx, ResetRead, ResetTx
  <2>9. CASE RevokeRead(r) \/ RevokeOne(r) \/ LogoutAll(r)
    BY <2>9 DEF RevokeRead, RevokeOne, LogoutAll
  <2> QED BY <2>1, <2>2, <2>3, <2>4, <2>5, <2>6, <2>7, <2>8, <2>9 DEF RequestStep
<1> QED BY <1>1, <1>2 DEF Reaches

\* The step that creates takes its own place, and no other step creates.
LEMMA Takes ==
  ASSUME FamilyInv, Reaches, NEW r \in Requests, RequestStep(r), ~Start(r)
  PROVE  /\ \/ lastId' = lastId
            \/ lastId' = lastId + 1 /\ r \in ToCreate /\ r \notin ToCreate'
         /\ \/ password' = password
            \/ password' = password + 1 /\ r \in ToChange /\ r \notin ToChange'
         /\ \/ lastReset' = lastReset
            \/ lastReset' = lastReset + 1 /\ r \in ToRequest /\ r \notin ToRequest'
<1> USE DEF FamilyInv, Shape, Reaches, Finish, Goto, ToCreate, ToChange, ToRequest
<1>1. CASE \/ NewSession(r) \/ SignIn(r) \/ RefreshRead(r) \/ Validate(r) \/ Touch(r)
           \/ ReauthGuard(r) \/ ClearReauthenticated(r) \/ Reauthenticate(r)
           \/ MarkReauthenticated(r) \/ VerifyOld(r) \/ RevokeAll(r) \/ AdminRevokeAll(r)
           \/ RequestRead(r) \/ ResetRead(r) \/ RevokeRead(r) \/ RevokeOne(r) \/ LogoutAll(r)
  BY <1>1 DEF NewSession, SignIn, RefreshRead, Validate, Touch, ReauthGuard,
     ClearReauthenticated, Reauthenticate, MarkReauthenticated, VerifyOld, RevokeAll,
     AdminRevokeAll, RequestRead, ResetRead, RevokeRead, RevokeOne, LogoutAll,
     rowVars, resetVars
<1>2. CASE NewRefresh(r) \/ Rotate(r)
  BY <1>2 DEF NewRefresh, Rotate, Creates, resetVars
<1>3. CASE SetPassword(r) \/ AdminPassword(r) \/ ResetTx(r)
  BY <1>3 DEF SetPassword, AdminPassword, ResetTx, Changes, rowVars, resetVars
<1>4. CASE RequestTx(r)
  BY <1>4 DEF RequestTx, rowVars
<1> QED BY <1>1, <1>2, <1>3, <1>4 DEF RequestStep

\* A request is let in when there is room for what it creates.
LEMMA StartBooked ==
  ASSUME FamilyInv, Booked, NEW r \in Requests, Start(r)
  PROVE  Booked'
<1> DEFINE Under(kinds) == {q \in Requests : pc[q] # "idle" /\ req[q].kind \in kinds}
<1>1. UNCHANGED <<lastId, password, lastReset>> BY DEF Start, rowVars, resetVars
<1>2. Reaches' BY ReachesStep DEF Booked, RequestStep
<1>3. \A q \in Requests \ {r} : pc'[q] = pc[q] /\ req'[q] = req[q]
  BY OthersStay DEF RequestStep
<1>4. IsFiniteSet(Busy) BY DEF Booked
<1>5. IsFiniteSet(Busy')
  <2>1. IsFiniteSet(Busy \cup {r}) BY <1>4, FS_AddElement
  <2>2. Busy' \subseteq Busy \cup {r} BY <1>3 DEF Busy
  <2> QED BY <2>1, <2>2, FS_Subset
<1>6. \A kinds : IsFiniteSet(Under(kinds))
  <2> TAKE kinds
  <2>1. Under(kinds) \subseteq Busy BY DEF Busy
  <2> QED BY <2>1, <1>4, FS_Subset
<1>7. PICK k \in Kinds :
        /\ k \in Creates => lastId + Cardinality(Under(Creates)) < MaxId
        /\ k \in Changes => password + Cardinality(Under(Changes)) < MaxPassword
        /\ k = "request" => lastReset + Cardinality(Under({"request"})) < MaxReset
        /\ req'[r].kind = k
  <2>1. PICK k \in Kinds, i \in Issued \cup {0} :
          /\ k \in Creates => lastId + InFlight(Creates) < MaxId
          /\ k \in Changes => password + InFlight(Changes) < MaxPassword
          /\ k = "request" => lastReset + InFlight({"request"}) < MaxReset
          /\ req' = [req EXCEPT ![r] = [kind |-> k, id |-> i]]
    BY DEF Start
  <2>2. req'[r].kind = k BY <2>1 DEF FamilyInv, Shape
  <2> QED BY <2>1, <2>2 DEF InFlight
<1>8. lastId \in Nat /\ password \in Nat /\ lastReset \in Nat BY DEF Booked, Room
<1>9. /\ IsFiniteSet(ToCreate) /\ IsFiniteSet(ToChange) /\ IsFiniteSet(ToRequest)
  <2>1. ToCreate \subseteq Busy /\ ToChange \subseteq Busy /\ ToRequest \subseteq Busy
    BY DEF ToCreate, ToChange, ToRequest, Busy
  <2> QED BY <2>1, <1>4, FS_Subset
<1>10. Room(lastId, ToCreate', MaxId)
  <2>1. CASE k \in Creates
    <3>1. ToCreate' \subseteq Under(Creates) \cup {r} BY <1>3 DEF ToCreate
    <3>2. lastId + Cardinality(Under(Creates)) < MaxId BY <1>7, <2>1
    <3> HIDE DEF Under
    <3> QED BY <1>6, <1>8, <3>1, <3>2, RoomTaken
  <2>2. CASE k \notin Creates
    <3>1. ToCreate' \subseteq ToCreate BY <1>3, <1>7, <2>2 DEF ToCreate
    <3> QED BY <1>9, <3>1, RoomStays DEF Booked
  <2> QED BY <2>1, <2>2
<1>11. Room(password, ToChange', MaxPassword)
  <2>1. CASE k \in Changes
    <3>1. ToChange' \subseteq Under(Changes) \cup {r} BY <1>3 DEF ToChange
    <3>2. password + Cardinality(Under(Changes)) < MaxPassword BY <1>7, <2>1
    <3> HIDE DEF Under
    <3> QED BY <1>6, <1>8, <3>1, <3>2, RoomTaken
  <2>2. CASE k \notin Changes
    <3>1. ToChange' \subseteq ToChange BY <1>3, <1>7, <2>2 DEF ToChange
    <3> QED BY <1>9, <3>1, RoomStays DEF Booked
  <2> QED BY <2>1, <2>2
<1>12. Room(lastReset, ToRequest', MaxReset)
  <2>1. CASE k = "request"
    <3>1. ToRequest' \subseteq Under({"request"}) \cup {r} BY <1>3 DEF ToRequest
    <3>2. lastReset + Cardinality(Under({"request"})) < MaxReset BY <1>7, <2>1
    <3> HIDE DEF Under
    <3> QED BY <1>6, <1>8, <3>1, <3>2, RoomTaken
  <2>2. CASE k # "request"
    <3>1. ToRequest' \subseteq ToRequest BY <1>3, <1>7, <2>2 DEF ToRequest
    <3> QED BY <1>9, <3>1, RoomStays DEF Booked
  <2> QED BY <2>1, <2>2
<1> QED BY <1>1, <1>2, <1>5, <1>10, <1>11, <1>12 DEF Booked, Room

\* Every step.
LEMMA BookedStep ==
  ASSUME FamilyInv, Booked, [Next]_vars
  PROVE  Booked'
<1>1. /\ IsFiniteSet(Busy) /\ IsFiniteSet(ToCreate) /\ IsFiniteSet(ToChange)
      /\ IsFiniteSet(ToRequest)
  <2>1. ToCreate \subseteq Busy /\ ToChange \subseteq Busy /\ ToRequest \subseteq Busy
    BY DEF ToCreate, ToChange, ToRequest, Busy
  <2> QED BY <2>1, FS_Subset DEF Booked
<1>2. ASSUME NEW r \in Requests, RequestStep(r), ~Start(r) PROVE Booked'
  <2>1. /\ Busy' \subseteq Busy /\ ToCreate' \subseteq ToCreate
        /\ ToChange' \subseteq ToChange /\ ToRequest' \subseteq ToRequest
    BY <1>2, Walking, WalksShrink
  <2>2. /\ \/ lastId' = lastId
           \/ lastId' = lastId + 1 /\ r \in ToCreate /\ r \notin ToCreate'
        /\ \/ password' = password
           \/ password' = password + 1 /\ r \in ToChange /\ r \notin ToChange'
        /\ \/ lastReset' = lastReset
           \/ lastReset' = lastReset + 1 /\ r \in ToRequest /\ r \notin ToRequest'
    BY <1>2, Takes DEF Booked
  <2>3. Room(lastId', ToCreate', MaxId)
    <3>1. CASE lastId' = lastId BY <3>1, <1>1, <2>1, RoomStays DEF Booked
    <3>2. CASE lastId' = lastId + 1 /\ r \in ToCreate /\ r \notin ToCreate'
      <4>1. ToCreate' \subseteq ToCreate \ {r} BY <3>2, <2>1
      <4> QED BY <3>2, <4>1, <1>1, RoomUsed DEF Booked
    <3> QED BY <3>1, <3>2, <2>2
  <2>4. Room(password', ToChange', MaxPassword)
    <3>1. CASE password' = password BY <3>1, <1>1, <2>1, RoomStays DEF Booked
    <3>2. CASE password' = password + 1 /\ r \in ToChange /\ r \notin ToChange'
      <4>1. ToChange' \subseteq ToChange \ {r} BY <3>2, <2>1
      <4> QED BY <3>2, <4>1, <1>1, RoomUsed DEF Booked
    <3> QED BY <3>1, <3>2, <2>2
  <2>5. Room(lastReset', ToRequest', MaxReset)
    <3>1. CASE lastReset' = lastReset BY <3>1, <1>1, <2>1, RoomStays DEF Booked
    <3>2. CASE lastReset' = lastReset + 1 /\ r \in ToRequest /\ r \notin ToRequest'
      <4>1. ToRequest' \subseteq ToRequest \ {r} BY <3>2, <2>1
      <4> QED BY <3>2, <4>1, <1>1, RoomUsed DEF Booked
    <3> QED BY <3>1, <3>2, <2>2
  <2>6. IsFiniteSet(Busy') BY <1>1, <2>1, FS_Subset
  <2>7. Reaches' BY <1>2, ReachesStep DEF Booked
  <2> QED BY <2>3, <2>4, <2>5, <2>6, <2>7 DEF Booked, Room
<1>3. CASE Cleanup \/ Tick \/ UNCHANGED vars
  <2>1. UNCHANGED <<lastId, password, lastReset, pc, req>>
    BY <1>3 DEF Cleanup, Tick, vars, rowVars, resetVars, reqVars
  <2> QED BY <2>1 DEF Booked, Room, Reaches, Busy, ToCreate, ToChange, ToRequest
<1>4. CASE Restart
  <2>1. UNCHANGED <<lastId, password, lastReset>> BY <1>4 DEF Restart, rowVars, resetVars
  <2>2. Busy' = {} /\ ToCreate' = {} /\ ToChange' = {} /\ ToRequest' = {} /\ Reaches'
    BY <1>4 DEF Restart, Busy, ToCreate, ToChange, ToRequest, Reaches
  <2>3. /\ Room(lastId, {}, MaxId) /\ Room(password, {}, MaxPassword)
        /\ Room(lastReset, {}, MaxReset)
    BY <1>1, RoomStays DEF Booked
  <2> QED BY <2>1, <2>2, <2>3, FS_EmptySet DEF Booked, Room
<1> QED BY <1>2, <1>3, <1>4, StartBooked DEF Next

\* The rows, the requests and the rest.
RowsTyped ==
  /\ refresh \in [Ids -> [live : BOOLEAN, expiresAt : Nat, reauthAt : Times]]
  /\ session \in [Ids -> [live : BOOLEAN, expiresAt : Nat, lastActivity : Times]]
  /\ lastUse \in [Ids -> Times]
  /\ \A f \in Ids : origin[f].confirmed \subseteq Times /\ origin[f].late \in BOOLEAN

Seen == [password : Nat, activity : Times, mark : Times, reset : Nat]
LocalsTyped ==
  /\ pc \in [Requests -> Steps]
  /\ req \in [Requests -> Inputs] /\ seen \in [Requests -> Seen]
  /\ \A r \in Requests : req[r].id <= lastId /\ seen[r].password <= password
                         /\ seen[r].reset <= lastReset

ResetTyped == resetToken \in [nr : Nat, expiresAt : Nat] /\ resetToken.nr <= lastReset

Typed == clock \in Times /\ RowsTyped /\ LocalsTyped /\ ResetTyped

LEMMA TypedIsTypeOK ==
  ASSUME FamilyInv, Booked, Typed
  PROVE  TypeOK
<1>1. /\ lastId \in 0..MaxId /\ password \in 0..MaxPassword /\ lastReset \in 0..MaxReset
  <2>1. ToCreate \subseteq Busy /\ ToChange \subseteq Busy /\ ToRequest \subseteq Busy
    BY DEF ToCreate, ToChange, ToRequest, Busy
  <2>2. /\ Cardinality(ToCreate) \in Nat /\ Cardinality(ToChange) \in Nat
        /\ Cardinality(ToRequest) \in Nat
    BY <2>1, FS_Subset, FS_CardinalityType DEF Booked
  <2> QED BY <2>2 DEF Booked, Room
<1>2. resetToken \in [nr : 0..lastReset, expiresAt : Nat]
  BY <1>1 DEF Typed, ResetTyped
<1>3. req \in [Requests -> [kind : AllKinds, id : 0..lastId]]
  BY <1>1 DEF Typed, LocalsTyped, Inputs
<1>4. seen \in [Requests -> [password : 0..MaxPassword, activity : Times, mark : Times,
                             reset : 0..lastReset]]
  BY <1>1 DEF Typed, LocalsTyped, Seen
<1>5. family \in [Ids -> 0..lastId] BY <1>1 DEF FamilyInv, Shape, Numbered
<1> QED BY <1>1, <1>2, <1>3, <1>4, <1>5 DEF Typed, RowsTyped, LocalsTyped, TypeOK

\* What is written is of its type.
LEMMA Written ==
  ASSUME clock \in Times
  PROVE  /\ NoRefresh \in [live : BOOLEAN, expiresAt : Nat, reauthAt : Times]
         /\ NoSession \in [live : BOOLEAN, expiresAt : Nat, lastActivity : Times]
         /\ \A mark \in Times :
              Refresh(mark) \in [live : BOOLEAN, expiresAt : Nat, reauthAt : Times]
         /\ Session \in [live : BOOLEAN, expiresAt : Nat, lastActivity : Times]
         /\ NoReq \in Inputs /\ NoSeen \in Seen
BY DEF NoRefresh, NoSession, Refresh, Session, NoReq, NoSeen, Times, Inputs, Seen, AllKinds

LEMMA DeleteTyped ==
  ASSUME FamilyInv, Typed, NEW ids, Delete(ids)
  PROVE  RowsTyped'
<1>1. /\ NoRefresh \in [live : BOOLEAN, expiresAt : Nat, reauthAt : Times]
      /\ NoSession \in [live : BOOLEAN, expiresAt : Nat, lastActivity : Times]
      /\ 0 \in Times
  BY Written DEF Typed, Times
<1>2. /\ refresh' \in [Ids -> [live : BOOLEAN, expiresAt : Nat, reauthAt : Times]]
      /\ session' \in [Ids -> [live : BOOLEAN, expiresAt : Nat, lastActivity : Times]]
      /\ lastUse' \in [Ids -> Times]
  BY <1>1 DEF Delete, Typed, RowsTyped
<1>3. \A f \in Ids : origin'[f].confirmed \subseteq Times /\ origin'[f].late \in BOOLEAN
  <2> TAKE f \in Ids
  <2>1. origin'[f] = origin[f] \/ origin'[f] = NoOrigin BY DEF Delete
  <2>2. NoOrigin.confirmed \subseteq Times /\ NoOrigin.late \in BOOLEAN BY DEF NoOrigin
  <2>3. origin[f].confirmed \subseteq Times /\ origin[f].late \in BOOLEAN
    BY DEF Typed, RowsTyped
  <2> QED BY <2>1, <2>2, <2>3
<1> QED BY <1>2, <1>3 DEF RowsTyped

\* A request that ends, or goes on to another step.
LEMMA FinishTyped ==
  ASSUME FamilyInv, Booked, Typed, NEW r \in Requests, Finish(r),
         lastId' \in {lastId, lastId + 1}, password' \in {password, password + 1},
         lastReset' \in {lastReset, lastReset + 1}
  PROVE  LocalsTyped'
<1>1. NoReq \in Inputs /\ NoSeen \in Seen /\ NoReq.id = 0
      /\ NoSeen.password = 0 /\ NoSeen.reset = 0
  BY Written DEF Typed, NoReq, NoSeen
<1>2. lastId \in Nat /\ password \in Nat /\ lastReset \in Nat BY DEF Booked, Room
<1>3. pc' \in [Requests -> Steps] BY DEF Finish, Typed, LocalsTyped, Steps
<1>4. req' \in [Requests -> Inputs] /\ seen' \in [Requests -> Seen]
  BY <1>1 DEF Finish, Typed, LocalsTyped
<1>5. \A q \in Requests : \/ req'[q] = req[q] /\ seen'[q] = seen[q]
                          \/ req'[q] = NoReq /\ seen'[q] = NoSeen
  BY DEF Finish, Typed, LocalsTyped
<1>6. \A q \in Requests : /\ req[q].id \in Nat /\ req[q].id <= lastId
                          /\ seen[q].password \in Nat /\ seen[q].password <= password
                          /\ seen[q].reset \in Nat /\ seen[q].reset <= lastReset
  BY DEF Typed, LocalsTyped, Inputs, Seen
<1>7. \A q \in Requests : req'[q].id <= lastId' /\ seen'[q].password <= password'
                          /\ seen'[q].reset <= lastReset'
  BY <1>1, <1>2, <1>5, <1>6
<1> QED BY <1>3, <1>4, <1>7 DEF LocalsTyped

LEMMA GotoTyped ==
  ASSUME Booked, Typed, NEW r \in Requests, NEW step \in Steps, Goto(r, step),
         UNCHANGED <<lastId, lastReset>>, password' \in {password, password + 1}
  PROVE  LocalsTyped'
<1>1. pc' \in [Requests -> Steps] BY DEF Goto, Typed, LocalsTyped
<1>2. password \in Nat /\ \A q \in Requests : seen[q].password \in Nat
  BY DEF Booked, Room, Typed, LocalsTyped, Seen
<1> QED BY <1>1, <1>2 DEF Goto, Typed, LocalsTyped

\* A request that goes on with what it read.
LEMMA ReadTyped ==
  ASSUME Booked, Typed, NEW r \in Requests, NEW step \in Steps, NEW read \in Seen,
         pc' = [pc EXCEPT ![r] = step], req' = req, seen' = [seen EXCEPT ![r] = read],
         UNCHANGED <<lastId, lastReset>>, password' \in {password, password + 1},
         read.password <= password', read.reset <= lastReset
  PROVE  LocalsTyped'
<1>1. pc' \in [Requests -> Steps] /\ seen' \in [Requests -> Seen]
  BY DEF Typed, LocalsTyped
<1>2. password \in Nat /\ \A q \in Requests : seen[q].password \in Nat
  BY DEF Booked, Room, Typed, LocalsTyped, Seen
<1>3. \A q \in Requests : seen'[q] = seen[q] \/ seen'[q] = read
  BY DEF Typed, LocalsTyped
<1> QED BY <1>1, <1>2, <1>3 DEF Typed, LocalsTyped

\* Steps that read rows.
LEMMA ReadsTyped ==
  ASSUME FamilyInv, Booked, Typed, NEW r \in Requests,
         \/ Start(r) \/ SignIn(r) \/ RefreshRead(r) \/ ReauthGuard(r) \/ Reauthenticate(r)
         \/ VerifyOld(r) \/ SetPassword(r) \/ AdminPassword(r) \/ RequestRead(r) \/ RevokeRead(r)
  PROVE  Typed'
<1>1. UNCHANGED <<clock, refresh, session, lastUse, origin, lastId, resetToken, lastReset>>
  BY DEF Start, SignIn, RefreshRead, ReauthGuard, Reauthenticate, VerifyOld, SetPassword,
     AdminPassword, RequestRead, RevokeRead, rowVars, resetVars, histVars
<1>2. RowsTyped' BY <1>1 DEF Typed, RowsTyped
<1>3. ResetTyped' BY <1>1 DEF Typed, ResetTyped
<1>4. /\ lastId \in Nat /\ password \in Nat /\ lastReset \in Nat
      /\ seen[r] \in Seen /\ seen[r].password <= password /\ seen[r].reset <= lastReset
  BY DEF Booked, Room, Typed, LocalsTyped
<1>5. LocalsTyped'
  <2>1. CASE Start(r)
    <3>1. PICK k \in Kinds, i \in Issued \cup {0}, n \in 1..lastReset \cup {0} :
            /\ pc' = [pc EXCEPT ![r] = FirstStep(k)]
            /\ req' = [req EXCEPT ![r] = [kind |-> k, id |-> i]]
            /\ seen' = [seen EXCEPT ![r] = [NoSeen EXCEPT !.reset = n]]
      BY <2>1 DEF Start
    <3>2. FirstStep(k) \in Steps BY DEF FirstStep, Steps, AllKinds
    <3>3. i \in Nat /\ i <= lastId BY <1>4 DEF Issued, Ids
    <3>4. [NoSeen EXCEPT !.reset = n] \in Seen /\ n <= lastReset
      BY <1>4 DEF NoSeen, Seen, Times
    <3>5. [kind |-> k, id |-> i] \in Inputs BY <3>3 DEF Inputs
    <3>6. pc' \in [Requests -> Steps] BY <3>1, <3>2 DEF Typed, LocalsTyped
    <3>7. req' \in [Requests -> Inputs] /\ \A q \in Requests : req'[q].id <= lastId
      BY <3>1, <3>3, <3>5 DEF Typed, LocalsTyped
    <3>8. /\ seen' \in [Requests -> Seen]
          /\ \A q \in Requests : seen'[q] = seen[q] \/ seen'[q] = [NoSeen EXCEPT !.reset = n]
      BY <3>1, <3>4 DEF Typed, LocalsTyped
    <3>9. \A q \in Requests : seen'[q].password <= password /\ seen'[q].reset <= lastReset
      BY <1>4, <3>4, <3>8 DEF Typed, LocalsTyped, NoSeen
    <3> QED BY <1>1, <2>1, <3>6, <3>7, <3>8, <3>9 DEF LocalsTyped, Start
  <2>2. CASE SignIn(r)
    <3>1. CASE Finish(r) BY <2>2, <3>1, <1>1, FinishTyped DEF SignIn
    <3>2. CASE ~Finish(r)
      <4>1. [seen[r] EXCEPT !.password = password] \in Seen BY <1>4 DEF Seen
      <4>2. seen' = [seen EXCEPT ![r] = [seen[r] EXCEPT !.password = password]]
        BY <2>2, <3>2 DEF SignIn
      <4> DEFINE read == [seen[r] EXCEPT !.password = password]
      <4>3. read.password <= password /\ read.reset <= lastReset BY <1>4 DEF Seen
      <4>4. pc' = [pc EXCEPT ![r] = "newRefresh"] /\ req' = req /\ password' = password
        BY <2>2, <3>2 DEF SignIn
      <4> HIDE DEF read
      <4>5. read \in Seen BY <4>1 DEF read
      <4>6. seen' = [seen EXCEPT ![r] = read] BY <4>2 DEF read
      <4>7. "newRefresh" \in Steps BY DEF Steps
      <4> QED BY <1>1, <4>3, <4>4, <4>5, <4>6, <4>7, ReadTyped
    <3> QED BY <3>1, <3>2
  <2>3. CASE RefreshRead(r)
    <3>1. CASE Finish(r) BY <2>3, <3>1, <1>1, FinishTyped DEF RefreshRead
    <3>2. CASE ~Finish(r)
      <4> DEFINE mark == refresh[req[r].id].reauthAt
                 read == [seen[r] EXCEPT !.mark = mark]
      <4>1. mark \in Times
        BY <2>3 DEF RefreshRead, FamilyInv, Numbered, Holding, Typed, RowsTyped
      <4>2. read \in Seen /\ read.password <= password /\ read.reset <= lastReset
        BY <1>4, <4>1 DEF Seen
      <4>3. /\ pc' = [pc EXCEPT ![r] = "rotate"] /\ req' = req /\ password' = password
            /\ seen' = [seen EXCEPT ![r] = read]
        BY <2>3, <3>2 DEF RefreshRead
      <4>4. "rotate" \in Steps BY DEF Steps
      <4> HIDE DEF read
      <4> QED BY <1>1, <4>2, <4>3, <4>4, ReadTyped
    <3> QED BY <3>1, <3>2
  <2>4. CASE ReauthGuard(r) \/ Reauthenticate(r) \/ VerifyOld(r) \/ AdminPassword(r)
             \/ RevokeRead(r)
    <3>1. password' \in {password, password + 1}
      BY <2>4 DEF ReauthGuard, Reauthenticate, VerifyOld, AdminPassword, RevokeRead
    <3>2. Finish(r) \/ \E step \in Steps : Goto(r, step)
      BY <2>4 DEF ReauthGuard, Reauthenticate, VerifyOld, AdminPassword, RevokeRead, Steps
    <3> QED BY <1>1, <3>1, <3>2, FinishTyped, GotoTyped
  <2>5. CASE SetPassword(r)
    <3> DEFINE read == [seen[r] EXCEPT !.password = password + 1]
    <3>1. read \in Seen /\ read.password <= password + 1 /\ read.reset <= lastReset
      BY <1>4 DEF Seen
    <3>2. /\ pc' = [pc EXCEPT ![r] = "newRefresh"] /\ req' = req /\ password' = password + 1
          /\ seen' = [seen EXCEPT ![r] = read]
      BY <2>5 DEF SetPassword
    <3>3. "newRefresh" \in Steps BY DEF Steps
    <3> HIDE DEF read
    <3> QED BY <1>1, <3>1, <3>2, <3>3, ReadTyped
  <2>6. CASE RequestRead(r)
    <3> DEFINE read == [seen[r] EXCEPT !.reset = resetToken.nr]
    <3>1. resetToken.nr \in Nat /\ resetToken.nr <= lastReset BY DEF Typed, ResetTyped
    <3>2. read \in Seen /\ read.password <= password /\ read.reset <= lastReset
      BY <1>4, <3>1 DEF Seen
    <3>3. /\ pc' = [pc EXCEPT ![r] = "requestTx"] /\ req' = req /\ password' = password
          /\ seen' = [seen EXCEPT ![r] = read]
      BY <2>6 DEF RequestRead
    <3>4. "requestTx" \in Steps BY DEF Steps
    <3> HIDE DEF read
    <3> QED BY <1>1, <3>2, <3>3, <3>4, ReadTyped
  <2> QED BY <2>1, <2>2, <2>3, <2>4, <2>5, <2>6
<1> QED BY <1>1, <1>2, <1>3, <1>5 DEF Typed

\* Steps that delete rows.
LEMMA RevocationsTyped ==
  ASSUME FamilyInv, Booked, Typed, NEW r \in Requests,
         \/ (Rotate(r) /\ Reused(r)) \/ RevokeAll(r) \/ AdminRevokeAll(r) \/ ResetTx(r)
         \/ RevokeOne(r) \/ LogoutAll(r)
  PROVE  Typed'
<1>1. /\ clock' = clock /\ lastId' = lastId /\ lastReset' = lastReset
      /\ password' \in {password, password + 1}
  BY DEF Rotate, RevokeAll, AdminRevokeAll, ResetTx, RevokeOne, LogoutAll, resetVars
<1>2. \/ \E ids : Delete(ids)
      \/ UNCHANGED <<refresh, session, lastUse, origin>>
  BY DEF Rotate, RevokeAll, AdminRevokeAll, ResetTx, RevokeOne, LogoutAll
<1>3. RowsTyped' BY <1>2, DeleteTyped DEF Typed, RowsTyped
<1>4. resetToken' = resetToken \/ resetToken' = NoReset
  BY DEF Rotate, RevokeAll, AdminRevokeAll, ResetTx, RevokeOne, LogoutAll, resetVars
<1>5. ResetTyped' BY <1>1, <1>4 DEF Typed, ResetTyped, NoReset, Booked, Room
<1>6. Finish(r) \/ Goto(r, "setPassword")
  BY DEF Rotate, RevokeAll, AdminRevokeAll, ResetTx, RevokeOne, LogoutAll
<1>7. LocalsTyped' BY <1>1, <1>6, FinishTyped, GotoTyped DEF Steps
<1> QED BY <1>1, <1>3, <1>5, <1>7 DEF Typed

\* Steps that write rows.
LEMMA WritesTyped ==
  ASSUME FamilyInv, Booked, Typed, NEW r \in Requests,
         \/ NewRefresh(r) \/ NewSession(r) \/ (Rotate(r) /\ ~Reused(r)) \/ Validate(r)
         \/ Touch(r) \/ ClearReauthenticated(r) \/ MarkReauthenticated(r)
  PROVE  Typed'
<1>1. UNCHANGED <<clock, password, resetToken, lastReset>>
  BY DEF NewRefresh, NewSession, Rotate, Validate, Touch, ClearReauthenticated,
     MarkReauthenticated, resetVars
<1>2. /\ clock \in Times /\ 0 \in Times
      /\ \A mark \in Times :
           Refresh(mark) \in [live : BOOLEAN, expiresAt : Nat, reauthAt : Times]
      /\ NoRefresh \in [live : BOOLEAN, expiresAt : Nat, reauthAt : Times]
      /\ NoSession \in [live : BOOLEAN, expiresAt : Nat, lastActivity : Times]
      /\ Session \in [live : BOOLEAN, expiresAt : Nat, lastActivity : Times]
  BY Written DEF Typed, Times
<1>3. /\ lastId \in Nat /\ password \in Nat /\ lastReset \in Nat
      /\ seen[r] \in Seen /\ seen[r].password <= password /\ seen[r].reset <= lastReset
  BY DEF Booked, Room, Typed, LocalsTyped
<1>4. ResetTyped' BY <1>1 DEF Typed, ResetTyped
<1>5. RowsTyped'
  <2>1. CASE NewRefresh(r)
    <3>1. refresh' \in [Ids -> [live : BOOLEAN, expiresAt : Nat, reauthAt : Times]]
      BY <2>1, <1>2 DEF NewRefresh, Typed, RowsTyped
    <3>2. \A f \in Ids : origin'[f].confirmed \subseteq Times /\ origin'[f].late \in BOOLEAN
      <4> TAKE f \in Ids
      <4>1. origin'[f] = origin[f] \/ /\ origin'[f].confirmed = {clock}
                                      /\ origin'[f].late \in BOOLEAN
        BY <2>1 DEF NewRefresh, FamilyInv, Shape, Changing
      <4> QED BY <4>1, <1>2 DEF Typed, RowsTyped
    <3> QED BY <2>1, <3>1, <3>2 DEF NewRefresh, Typed, RowsTyped
  <2>2. CASE NewSession(r)
    <3>1. session' \in [Ids -> [live : BOOLEAN, expiresAt : Nat, lastActivity : Times]]
      BY <2>2, <1>2 DEF NewSession, Typed, RowsTyped
    <3>2. lastUse' \in [Ids -> Times] BY <2>2, <1>2 DEF NewSession, Typed, RowsTyped
    <3>3. refresh' = refresh /\ origin' = origin BY <2>2 DEF NewSession
    <3> QED BY <3>1, <3>2, <3>3 DEF Typed, RowsTyped
  <2>3. CASE Rotate(r) /\ ~Reused(r)
    <3>1. CarriedMark(r) \in Times BY <1>3 DEF CarriedMark, Seen
    <3>2. refresh' \in [Ids -> [live : BOOLEAN, expiresAt : Nat, reauthAt : Times]]
      BY <2>3, <3>1, <1>2 DEF Rotate, Typed, RowsTyped
    <3>3. session' \in [Ids -> [live : BOOLEAN, expiresAt : Nat, lastActivity : Times]]
      BY <2>3, <1>2 DEF Rotate, Typed, RowsTyped
    <3>4. lastUse' \in [Ids -> Times] BY <2>3, <1>2 DEF Rotate, Typed, RowsTyped
    <3>5. origin' = origin BY <2>3 DEF Rotate
    <3> QED BY <3>2, <3>3, <3>4, <3>5 DEF Typed, RowsTyped
  <2>4. CASE Validate(r)
    BY <2>4, <1>2 DEF Validate, rowVars, Typed, RowsTyped
  <2>5. CASE Touch(r)
    BY <2>5, <1>2 DEF Touch, histVars, Typed, RowsTyped
  <2>6. CASE ClearReauthenticated(r)
    BY <2>6, <1>2 DEF ClearReauthenticated, histVars, Typed, RowsTyped
  <2>7. CASE MarkReauthenticated(r)
    <3>1. \A f \in Ids : /\ origin'[f].confirmed \subseteq origin[f].confirmed \cup {clock}
                         /\ origin'[f].late = origin[f].late
      BY <2>7 DEF MarkReauthenticated, FamilyInv, Shape
    <3>2. refresh' \in [Ids -> [live : BOOLEAN, expiresAt : Nat, reauthAt : Times]]
      BY <2>7, <1>2 DEF MarkReauthenticated, Typed, RowsTyped
    <3> QED BY <2>7, <3>1, <3>2, <1>2 DEF MarkReauthenticated, Typed, RowsTyped
  <2> QED BY <2>1, <2>2, <2>3, <2>4, <2>5, <2>6, <2>7
<1>6. LocalsTyped'
  <2>1. CASE NewRefresh(r)
    <3>1. /\ pc' = [pc EXCEPT ![r] = "newSession"]
          /\ req' = [req EXCEPT ![r].id = lastId + 1]
          /\ lastId' = lastId + 1 /\ seen' = seen
      BY <2>1 DEF NewRefresh
    <3>2. pc' \in [Requests -> Steps] BY <3>1 DEF Typed, LocalsTyped, Steps
    <3>3. req' \in [Requests -> Inputs] BY <3>1, <1>3 DEF Typed, LocalsTyped, Inputs
    <3>4. \A q \in Requests : req'[q].id = lastId + 1 \/ req'[q] = req[q]
      BY <3>1 DEF Typed, LocalsTyped, Inputs
    <3>5. \A q \in Requests : req[q].id \in Nat BY DEF Typed, LocalsTyped, Inputs
    <3>6. \A q \in Requests : req'[q].id <= lastId'
      BY <3>1, <3>4, <3>5, <1>3 DEF Typed, LocalsTyped
    <3> QED BY <1>1, <3>1, <3>2, <3>3, <3>6 DEF Typed, LocalsTyped
  <2>2. CASE NewSession(r) \/ (Rotate(r) /\ ~Reused(r)) \/ MarkReauthenticated(r)
    <3>1. Finish(r) /\ lastId' \in {lastId, lastId + 1}
      BY <2>2 DEF NewSession, Rotate, MarkReauthenticated
    <3> QED BY <3>1, <1>1, FinishTyped
  <2>3. CASE Validate(r) \/ Touch(r)
    <3>1. lastId' = lastId /\ req[r].id \in Ids /\ req[r].kind \in AllKinds
      BY <2>3 DEF Validate, Touch, rowVars, FamilyInv, Numbered, Holding, Shape, Inputs
    <3>2. CASE Finish(r) BY <3>1, <3>2, <1>1, FinishTyped
    <3>3. CASE ~Finish(r)
      <4>1. PICK step \in {"touch", Handler(r)}, t \in Times :
              /\ pc' = [pc EXCEPT ![r] = step] /\ req' = req
              /\ seen' = [seen EXCEPT ![r].activity = t]
        <5>1. CASE Validate(r)
          <6>1. session[req[r].id].lastActivity \in Times
            BY <3>1 DEF Typed, RowsTyped
          <6> QED BY <5>1, <3>3, <6>1 DEF Validate
        <5>2. CASE Touch(r) BY <5>2, <3>3, <1>2 DEF Touch
        <5> QED BY <2>3, <5>1, <5>2
      <4> DEFINE read == [seen[r] EXCEPT !.activity = t]
      <4>2. read \in Seen /\ read.password <= password /\ read.reset <= lastReset
        BY <1>3 DEF Seen
      <4>3. seen' = [seen EXCEPT ![r] = read] BY <4>1
      <4>4. step \in Steps BY <3>1 DEF Handler, Steps
      <4> HIDE DEF read
      <4> QED BY <1>1, <3>1, <4>1, <4>2, <4>3, <4>4, ReadTyped
    <3> QED BY <3>2, <3>3
  <2>4. CASE ClearReauthenticated(r)
    <3>1. lastId' = lastId /\ (Finish(r) \/ Goto(r, "verifyOld"))
      BY <2>4 DEF ClearReauthenticated
    <3> QED BY <3>1, <1>1, FinishTyped, GotoTyped DEF Steps
  <2> QED BY <2>1, <2>2, <2>3, <2>4
<1> QED BY <1>1, <1>2, <1>4, <1>5, <1>6 DEF Typed

\* Steps of the reset token.
LEMMA ResetsTyped ==
  ASSUME FamilyInv, Booked, Typed, NEW r \in Requests, RequestTx(r) \/ ResetRead(r)
  PROVE  Typed'
<1>1. /\ UNCHANGED <<clock, refresh, session, lastUse, origin, lastId, password>>
      /\ lastReset' \in {lastReset, lastReset + 1}
  BY DEF RequestTx, ResetRead, rowVars, histVars
<1>2. RowsTyped' BY <1>1 DEF Typed, RowsTyped
<1>3. clock \in Nat /\ lastReset \in Nat BY DEF Typed, Times, Booked, Room
<1>4. ResetTyped'
  <2>1. CASE RequestTx(r) BY <2>1, <1>3 DEF RequestTx, Typed, ResetTyped
  <2>2. CASE ResetRead(r) BY <2>2, <1>3 DEF ResetRead, NoReset, Typed, ResetTyped
  <2> QED BY <2>1, <2>2
<1>5. Finish(r) \/ (Goto(r, "resetTx") /\ lastReset' = lastReset)
  BY DEF RequestTx, ResetRead
<1>6. LocalsTyped' BY <1>1, <1>5, FinishTyped, GotoTyped DEF Steps
<1> QED BY <1>1, <1>2, <1>4, <1>6 DEF Typed

LEMMA TypedStep ==
  ASSUME FamilyInv, ActivityInv, Booked, Typed, [Next]_vars
  PROVE  Typed'
<1>1. CASE Cleanup
  <2>1. UNCHANGED <<clock, password, lastId, lastReset, pc, req, seen>>
    BY <1>1 DEF Cleanup, reqVars
  <2>2. RowsTyped'
    <3>1. CASE Delete(ExpiredIds) BY <3>1, DeleteTyped
    <3>2. CASE ~Delete(ExpiredIds)
      BY <1>1, <3>2 DEF Cleanup, histVars, Typed, RowsTyped
    <3> QED BY <3>1, <3>2
  <2>3. ResetTyped'
    BY <1>1, <2>1 DEF Cleanup, NoReset, Typed, ResetTyped, Booked, Room
  <2> QED BY <2>1, <2>2, <2>3 DEF Typed, LocalsTyped
<1>2. CASE Tick
  <2>1. clock' \in Times BY <1>2 DEF Tick, Typed, Times
  <2>2. UNCHANGED <<password, refresh, session, lastUse, origin, lastId, resetToken, lastReset,
                    pc, req, seen>>
    BY <1>2 DEF Tick, rowVars, resetVars, reqVars, histVars
  <2> QED BY <2>1, <2>2 DEF Typed, RowsTyped, LocalsTyped, ResetTyped
<1>3. CASE Restart
  <2>1. UNCHANGED <<clock, password, refresh, session, lastId, resetToken, lastReset>>
    BY <1>3 DEF Restart, rowVars, resetVars
  <2>2. \A i \in Ids : session[i].lastActivity \in Times BY DEF Typed, RowsTyped
  <2>3. lastUse' \in [Ids -> Times] BY <1>3, <2>2 DEF Restart
  <2>4. \A f \in Ids : /\ origin'[f].confirmed = origin[f].confirmed
                       /\ origin'[f].late \in BOOLEAN
    BY <1>3 DEF Restart, Changing, FamilyInv, Shape
  <2>5. NoReq \in Inputs /\ NoSeen \in Seen /\ NoReq.id = 0
        /\ NoSeen.password = 0 /\ NoSeen.reset = 0
    BY Written DEF Typed, NoReq, NoSeen
  <2>6. LocalsTyped'
    BY <1>3, <2>1, <2>5 DEF Restart, LocalsTyped, Steps, Booked, Room
  <2> QED BY <2>1, <2>3, <2>4, <2>6 DEF Typed, RowsTyped, ResetTyped
<1>4. CASE UNCHANGED vars
  BY <1>4 DEF vars, rowVars, resetVars, reqVars, histVars,
     Typed, RowsTyped, LocalsTyped, ResetTyped
<1> QED
  BY <1>1, <1>2, <1>3, <1>4, ReadsTyped, RevocationsTyped, WritesTyped, ResetsTyped
     DEF Next, RequestStep

\* Every variable holds what the program keeps in it: a token is numbered within those
\* created, and no request under way is left without room for what it will create.
THEOREM TypeCorrect == Spec => []TypeOK
<1>1. Init => Typed
  <2> SUFFICES ASSUME Init PROVE Typed OBVIOUS
  <2>1. clock \in Times BY DEF Init, Times
  <2>2. RowsTyped
    <3>1. 0 \in Times /\ NoOrigin.confirmed \subseteq Times /\ NoOrigin.late \in BOOLEAN
      BY DEF Times, NoOrigin
    <3>2. /\ NoRefresh \in [live : BOOLEAN, expiresAt : Nat, reauthAt : Times]
          /\ NoSession \in [live : BOOLEAN, expiresAt : Nat, lastActivity : Times]
      BY <2>1, Written
    <3> QED BY <3>1, <3>2 DEF Init, RowsTyped
  <2>3. LocalsTyped BY <2>1, Written DEF Init, LocalsTyped, Steps, NoReq, NoSeen
  <2> QED BY <2>1, <2>2, <2>3 DEF Init, Typed, ResetTyped
<1>2. Init => ActivityInv
  BY DEF Init, ActivityInv, NoSession, SessionRow
<1>3. FamilyInv /\ ActivityInv /\ Booked /\ Typed /\ [Next]_vars
        => (FamilyInv /\ ActivityInv /\ Booked /\ Typed)'
  BY FamilyStep, ActivityStep, BookedStep, TypedStep
<1>4. FamilyInv /\ Booked /\ Typed => TypeOK BY TypedIsTypeOK
<1> QED BY <1>1, <1>2, <1>3, <1>4, FamilyInit, BookedInit, PTL DEF Spec
=============================================================================
