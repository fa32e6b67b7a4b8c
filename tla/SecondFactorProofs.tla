------------------------- MODULE SecondFactorProofs -------------------------
(* Proofs about SecondFactor, for every number of requests, login tokens,    *)
(* secrets and generations of recovery codes.                                *)
EXTENDS SecondFactor, FiniteSetTheorems, TLAPS

USE BoundsAssumption

----------------------------------------------------------------------------
(* The inductive invariant                                                  *)

Tokened == {"totp", "enrollVerify"}
\* A request that will use up a login token, one that has done so, and one that has consumed
\* a recovery code and not opened its session yet.
Uses(r) == ~Free(r) /\ request[r].kind \in Tokened
Past(r) == Uses(r) /\ request[r].pc \notin {"code", "consume"}
Holds(r) == ~Free(r) /\ request[r].code # None
Changes(r) == ~Free(r) /\ request[r].kind \in Changing

\* Who has consumed a recovery code is alone with it, and it has opened no session.
CodesOnce ==
  /\ \A g \in Codes : spent[g] <= 1 /\ (codes[g] \in {"none", "fresh"} => spent[g] = 0)
  /\ \A r \in Requests :
       Holds(r) => /\ request[r].code \in Codes /\ spent[request[r].code] = 0
                   /\ codes[request[r].code] \notin {"none", "fresh"}
  /\ \A q, r \in Requests : Holds(q) /\ Holds(r) /\ request[q].code = request[r].code => q = r

\* The same of login tokens that are not shared.
LoginsOnce ==
  /\ \A t \in Logins :
       (login[t] # "used" => opened[t] = 0) /\ (t \notin shared => opened[t] <= 1)
  /\ \A r \in Requests :
       Uses(r) => /\ request[r].login \in Logins
                  /\ request[r].login \in shared \/ opened[request[r].login] = 0
  /\ \A q, r \in Requests :
       Uses(q) /\ Uses(r) /\ q # r /\ request[q].login = request[r].login
         => request[r].login \in shared
  /\ \A r \in Requests : Past(r) => login[request[r].login] = "used"

\* No change of the factor is about to replace its codes.
Settled == \A r \in Requests : Changes(r) => request[r].pc \notin {"delete", "create", "clear"}

\* What the one change of the factor that runs knows of the account.
Knows(r) ==
  /\ request[r].pc = "secret" => ~user.verified
  /\ request[r].pc = "clear" => ~user.verified
  /\ request[r].pc = "create" => Alive = {}
  /\ request[r].kind \in {"verify", "enrollVerify", "regenerate"} => user.secret # None
  /\ request[r].kind = "enrollVerify" => request[r].secret = user.secret
  /\ request[r].pc \in {"consume", "verified"} => proven = user.secret
FactorKnown ==
  /\ \A q, r \in Requests : Changes(q) /\ Changes(r) /\ q # r => tangled
  /\ ~tangled => \A r \in Requests : Changes(r) => Knows(r)
  /\ ~tangled /\ user.verified => user.secret = proven

\* The generations of recovery codes that the account should have.
CodesFit ==
  /\ user.verified => \E g \in Codes : Alive = {g}
  /\ user.secret = None => Alive = {}
CodesKnown == ~tangled /\ Settled => CodesFit

Inv == TypeOK /\ CodesOnce /\ LoginsOnce /\ FactorKnown /\ CodesKnown

----------------------------------------------------------------------------
(* Types                                                                    *)

LEMMA RunningNotIdle == \A q \in Running : q # Idle
<1>1. Idle.pc = "idle" /\ "idle" \notin Pcs BY DEF Idle, Pcs
<1>2. \A q \in Running : q.pc \in Pcs BY DEF Running
<1> QED BY <1>1, <1>2

LEMMA Numbers ==
  /\ None \notin Logins /\ None \notin Codes /\ None \notin Secrets
  /\ None = 0 /\ Secrets = 1..MaxSecrets
BY DEF None, Logins, Codes, Secrets

\* One request becomes another, the others stay.
Becomes(r, q) == request' = [request EXCEPT ![r] = q]

LEMMA BecomesOnly ==
  ASSUME TypeOK, NEW r \in Requests, NEW q \in {Idle} \cup Running, Becomes(r, q)
  PROVE  /\ request'[r] = q /\ \A p \in Requests \ {r} : request'[p] = request[p]
         /\ request' \in [Requests -> {Idle} \cup Running]
  BY DEF Becomes, TypeOK

LEMMA EndBecomes == ASSUME NEW r \in Requests, End(r) PROVE Becomes(r, Idle)
  BY DEF End, Becomes

LEMMA GotoBecomes ==
  ASSUME TypeOK, NEW r \in Requests, ~Free(r), NEW pc \in Pcs, Goto(r, pc)
  PROVE  /\ Becomes(r, [request[r] EXCEPT !.pc = pc])
         /\ [request[r] EXCEPT !.pc = pc] \in Running
         /\ request[r] \in Running
<1>1. request[r] \in Running BY DEF TypeOK, Free
<1>2. [request[r] EXCEPT !.pc = pc] \in Running BY <1>1 DEF Running
<1>3. Becomes(r, [request[r] EXCEPT !.pc = pc]) BY DEF Goto, Becomes
<1> QED BY <1>1, <1>2, <1>3

LEMMA PcsIn ==
  {"password", "code", "consume", "secret", "verified", "delete", "create", "off", "clear",
   "issue"} \subseteq Pcs
BY DEF Pcs

\* A redemption and a change of the factor start with what they have read.
LEMMA RedeemBecomes ==
  ASSUME TypeOK, NEW r \in Requests, NEW kind \in Redeeming, NEW t \in Logins, Redeem(r, kind, t)
  PROVE  \E q \in Running :
           /\ Becomes(r, q) /\ Free(r)
           /\ q.pc = (IF kind = "enroll" THEN "secret" ELSE "code")
           /\ q.kind = kind /\ q.login = t /\ q.code = None /\ q.secret = user.secret
<1> DEFINE pc == IF kind = "enroll" THEN "secret" ELSE "code"
<1>1. Start(r, kind, pc, t, FALSE) /\ Free(r) BY DEF Redeem, Start
<1>2. pc \in Pcs BY PcsIn
<1>3. kind \in Kinds BY DEF Kinds
<1> HIDE DEF pc
<1> DEFINE q == [pc |-> pc, kind |-> kind, login |-> t, code |-> None, needs |-> FALSE,
                 secret |-> user.secret]
<1>4. Becomes(r, q) BY <1>1 DEF Start, Becomes
<1>5. q \in Running BY <1>2, <1>3 DEF Running, TypeOK, UserType
<1> QED BY <1>1, <1>4, <1>5 DEF pc

ChangeKinds == {"enable", "disable", "verify", "regenerate"}
LEMMA ChangeBecomes ==
  ASSUME TypeOK, NEW r \in Requests, NEW kind \in Changing, Change(r, kind)
  PROVE  /\ kind \in ChangeKinds /\ Free(r)
         /\ \E q \in Running :
              /\ Becomes(r, q) /\ q.kind = kind /\ q.login = None /\ q.code = None
              /\ kind = "enable" => q.pc = "secret"
              /\ kind = "disable" => q.pc = "off"
              /\ kind = "verify" => q.pc = "verified"
              /\ kind = "regenerate" => q.pc = "delete"
<1> DEFINE pc == CASE kind = "enable" -> "secret"
                   [] kind = "disable" -> "off"
                   [] kind = "verify" -> "verified"
                   [] kind = "regenerate" -> "delete"
<1>1. Start(r, kind, pc, None, FALSE) /\ Free(r) BY DEF Change, Start
<1>2. kind \in ChangeKinds BY DEF Change, ChangeKinds, Changing, Redeeming
<1>3. pc \in Pcs BY <1>2, PcsIn DEF ChangeKinds
<1>4. kind \in Kinds BY DEF Kinds
<1> HIDE DEF pc
<1> DEFINE q == [pc |-> pc, kind |-> kind, login |-> None, code |-> None, needs |-> FALSE,
                 secret |-> None]
<1>5. kind \notin Redeeming BY <1>2 DEF ChangeKinds, Redeeming
<1>6. Becomes(r, q) BY <1>1, <1>5 DEF Start, Becomes
<1>7. q \in Running BY <1>3, <1>4 DEF Running
<1> QED BY <1>1, <1>2, <1>6, <1>7 DEF pc

LEMMA SignInBecomes ==
  ASSUME TypeOK, NEW r \in Requests, SignIn(r)
  PROVE  Free(r) /\ \E q \in Running : /\ Becomes(r, q) /\ q.kind = "signIn"
                                      /\ q.login = None /\ q.code = None
<1>1. PICK admin \in BOOLEAN : Start(r, "signIn", "password", None, NeedsFactor(user, admin))
  BY DEF SignIn
<1>2. NeedsFactor(user, admin) \in BOOLEAN
  <2>1. (user.verified \/ admin) \in BOOLEAN OBVIOUS
  <2> QED BY <2>1 DEF NeedsFactor
<1> DEFINE needs == NeedsFactor(user, admin)
           q == [pc |-> "password", kind |-> "signIn", login |-> None, code |-> None,
                 needs |-> needs, secret |-> None]
<1>3. "signIn" \notin Redeeming BY DEF Redeeming
<1>4. Becomes(r, q) /\ Free(r) BY <1>1, <1>3 DEF Start, Becomes
<1>5. needs \in BOOLEAN BY <1>2
<1> HIDE DEF needs
<1>6. q \in Running BY <1>5 DEF Running, Pcs, Kinds
<1> QED BY <1>4, <1>6

\* Two requests change the factor at once: noted.
LEMMA StartTangles ==
  ASSUME NEW r \in Requests, NEW kind, NEW pc, NEW token, NEW needs,
         Start(r, kind, pc, token, needs)
  PROVE  /\ tangled => tangled'
         /\ kind \in Changing /\ (\E q \in Requests \ {r} : Changes(q)) => tangled'
         /\ tangled' \in BOOLEAN
<1> DEFINE meets == kind \in Changing /\ \E q \in Others(r) : request[q].kind \in Changing
<1>1. tangled' = (tangled \/ meets) BY DEF Start
<1>2. kind \in Changing /\ (\E q \in Requests \ {r} : Changes(q)) => meets
  BY DEF Others, Changes
<1> HIDE DEF meets
<1>3. tangled' \in BOOLEAN BY <1>1
<1>4. tangled \/ meets => tangled' BY <1>1
<1> QED BY <1>2, <1>3, <1>4

LEMMA TypeInv == ASSUME TypeOK, [Next]_vars PROVE TypeOK'
<1>1. ASSUME NEW r \in Requests, SignIn(r) PROVE TypeOK'
  <2>1. tangled' \in BOOLEAN
    <3>1. PICK admin \in BOOLEAN : Start(r, "signIn", "password", None, NeedsFactor(user, admin))
      BY <1>1 DEF SignIn
    <3> QED BY <3>1, StartTangles
  <2>2. request' \in [Requests -> {Idle} \cup Running] BY <1>1, SignInBecomes, BecomesOnly
  <2> QED BY <1>1, <2>1, <2>2 DEF SignIn, TypeOK
<1>2. ASSUME NEW r \in Requests, LoginToken(r) \/ PasswordSession(r) PROVE TypeOK'
  <2>1. request' \in [Requests -> {Idle} \cup Running]
    BY <1>2, EndBecomes, BecomesOnly DEF LoginToken, PasswordSession
  <2>2. login' \in [Logins -> {"none", "fresh", "used"}]
    BY <1>2 DEF LoginToken, PasswordSession, TypeOK
  <2>3. tangled' \in BOOLEAN BY <1>2 DEF LoginToken, PasswordSession, TypeOK, histVars
  <2> QED BY <1>2, <2>1, <2>2, <2>3 DEF LoginToken, PasswordSession, TypeOK, histVars
<1>3. ASSUME NEW r \in Requests, NEW kind \in Redeeming, NEW t \in Logins, Redeem(r, kind, t)
      PROVE  TypeOK'
  <2>1. tangled' \in BOOLEAN BY <1>3, StartTangles DEF Redeem
  <2>2. request' \in [Requests -> {Idle} \cup Running] BY <1>3, RedeemBecomes, BecomesOnly
  <2>3. shared' \subseteq Logins BY <1>3 DEF Redeem, TypeOK
  <2> QED BY <1>3, <2>1, <2>2, <2>3 DEF Redeem, TypeOK
<1>4. ASSUME NEW r \in Requests, TotpCode(r) \/ RecoveryCode(r) PROVE TypeOK'
  <2>1. request[r] \in Running BY <1>4 DEF TotpCode, RecoveryCode, At, Free, TypeOK
  <2>2. request' \in [Requests -> {Idle} \cup Running]
    BY <1>4, <2>1, PcsIn DEF TotpCode, RecoveryCode, Goto, TypeOK, Running
  <2>3. codes' \in [Codes -> {"none", "fresh", "used", "gone"}]
    BY <1>4 DEF TotpCode, RecoveryCode, TypeOK, histVars
  <2>4. proven' \in Secrets \cup {None}
    BY <1>4, <2>1 DEF TotpCode, RecoveryCode, TypeOK, Running, histVars
  <2>5. tangled' \in BOOLEAN BY <1>4 DEF TotpCode, RecoveryCode, TypeOK, histVars
  <2> QED BY <1>4, <2>2, <2>3, <2>4, <2>5 DEF TotpCode, RecoveryCode, TypeOK, histVars
<1>5. ASSUME NEW r \in Requests, ConsumeLogin(r) PROVE TypeOK'
  <2>1. request' \in [Requests -> {Idle} \cup Running]
    BY <1>5, GotoBecomes, BecomesOnly, PcsIn DEF ConsumeLogin, At
  <2>2. tangled' \in BOOLEAN BY <1>5 DEF ConsumeLogin, TypeOK, histVars
  <2> QED BY <1>5, <2>1, <2>2 DEF ConsumeLogin, TypeOK, histVars
<1>6. ASSUME NEW r \in Requests, IssueSession(r) PROVE TypeOK'
  <2>1. request' \in [Requests -> {Idle} \cup Running]
    BY <1>6, EndBecomes, BecomesOnly DEF IssueSession
  <2>2. tangled' \in BOOLEAN BY <1>6 DEF IssueSession, TypeOK
  <2>3. request[r].code \in Codes \cup {None} BY <1>6 DEF IssueSession, At, Free, TypeOK, Running
  <2>4. spent' \in [Codes -> Nat] BY <1>6, <2>3 DEF IssueSession, TypeOK
  <2>5. opened' \in [Logins -> Nat]
    <3>1. opened' = [opened EXCEPT ![request[r].login] = @ + 1] BY <1>6 DEF IssueSession
    <3>2. opened \in [Logins -> Nat] BY DEF TypeOK
    <3>3. \A t \in Logins : opened[t] + 1 \in Nat BY <3>2
    <3> QED BY <3>1, <3>2, <3>3
  <2> QED BY <1>6, <2>1, <2>2, <2>4, <2>5 DEF IssueSession, TypeOK
<1>7. ASSUME NEW r \in Requests, NEW kind \in Changing, Change(r, kind) PROVE TypeOK'
  <2>1. tangled' \in BOOLEAN BY <1>7, StartTangles DEF Change
  <2>2. request' \in [Requests -> {Idle} \cup Running] BY <1>7, ChangeBecomes, BecomesOnly
  <2>3. proven' \in Secrets \cup {None} BY <1>7 DEF Change, TypeOK, UserType
  <2> QED BY <1>7, <2>1, <2>2, <2>3 DEF Change, TypeOK
<1>8. ASSUME NEW r \in Requests, WriteSecret(r) PROVE TypeOK'
  <2>1. request' \in [Requests -> {Idle} \cup Running]
    BY <1>8, EndBecomes, BecomesOnly DEF WriteSecret
  <2>2. tangled' \in BOOLEAN BY <1>8 DEF WriteSecret, TypeOK, histVars
  <2>3. drawn' \in 0..MaxSecrets BY <1>8 DEF WriteSecret, TypeOK
  <2>4. user' \in UserType
    <3>1. drawn' # drawn => drawn' \in Secrets BY <1>8 DEF WriteSecret, TypeOK, Secrets
    <3>2. drawn < MaxSecrets /\ drawn' = drawn + 1 => drawn' \in Secrets BY DEF TypeOK, Secrets
    <3> QED BY <1>8, <3>2 DEF WriteSecret, TypeOK, UserType
  <2> QED BY <1>8, <2>1, <2>2, <2>3, <2>4 DEF WriteSecret, TypeOK, histVars
<1>9. ASSUME NEW r \in Requests, MarkVerified(r) \/ TurnOff(r) PROVE TypeOK'
  <2>1. request' \in [Requests -> {Idle} \cup Running]
    BY <1>9, GotoBecomes, BecomesOnly, PcsIn DEF MarkVerified, TurnOff, At
  <2>2. tangled' \in BOOLEAN BY <1>9 DEF MarkVerified, TurnOff, TypeOK, histVars
  <2>3. user' \in UserType BY <1>9 DEF MarkVerified, TurnOff, TypeOK, UserType
  <2> QED BY <1>9, <2>1, <2>2, <2>3 DEF MarkVerified, TurnOff, TypeOK, histVars
<1>10. ASSUME NEW r \in Requests, DeleteCodes(r) \/ CreateCodes(r) \/ ClearCodes(r) PROVE TypeOK'
  <2>1. request' \in [Requests -> {Idle} \cup Running]
    BY <1>10, GotoBecomes, EndBecomes, BecomesOnly, PcsIn DEF DeleteCodes, CreateCodes, ClearCodes, At
  <2>2. tangled' \in BOOLEAN BY <1>10 DEF DeleteCodes, CreateCodes, ClearCodes, TypeOK, histVars
  <2>3. codes' \in [Codes -> {"none", "fresh", "used", "gone"}]
    BY <1>10 DEF DeleteCodes, CreateCodes, ClearCodes, TypeOK, Deleted
  <2> QED BY <1>10, <2>1, <2>2, <2>3 DEF DeleteCodes, CreateCodes, ClearCodes, TypeOK, histVars
<1>11. ASSUME NEW t \in Logins, ExpireLogin(t) PROVE TypeOK'
  <2>1. tangled' \in BOOLEAN BY <1>11 DEF ExpireLogin, TypeOK, histVars
  <2> QED BY <1>11, <2>1 DEF ExpireLogin, TypeOK, histVars
<1>12. CASE Restart
  <2>1. tangled' \in BOOLEAN BY <1>12 DEF Restart, TypeOK
  <2> QED BY <1>12, <2>1 DEF Restart, TypeOK
<1>13. CASE UNCHANGED vars
  <2>1. tangled' \in BOOLEAN BY <1>13 DEF vars, histVars, TypeOK
  <2> QED BY <1>13, <2>1 DEF vars, histVars, TypeOK
<1> QED
  BY <1>1, <1>2, <1>3, <1>4, <1>5, <1>6, <1>7, <1>8, <1>9, <1>10, <1>11, <1>12, <1>13
  DEF Next, LoginStep, FactorStep

----------------------------------------------------------------------------
(* Recovery codes and login tokens are redeemed once                        *)

\* A step at which no one consumes a recovery code, and no session is opened.
LEMMA CodesFrame ==
  ASSUME CodesOnce, spent' = spent,
         \A g \in Codes : codes'[g] \in {"none", "fresh"} => codes[g] \in {"none", "fresh"},
         \A r \in Requests : Holds(r)' => Holds(r) /\ request'[r].code = request[r].code
  PROVE  CodesOnce'
BY DEF CodesOnce

\* One request goes on: what it holds may only go.
LEMMA HoldsOnly ==
  ASSUME TypeOK, NEW r \in Requests, NEW q \in {Idle} \cup Running, Becomes(r, q),
         q # Idle => \/ q.code = None
                     \/ ~Free(r) /\ q.code = request[r].code
  PROVE  \A p \in Requests : Holds(p)' => Holds(p) /\ request'[p].code = request[p].code
BY BecomesOnly DEF Holds, Free

LEMMA CodesStep == ASSUME TypeOK, CodesOnce, [Next]_vars PROVE CodesOnce'
<1>1. ASSUME NEW r \in Requests, SignIn(r) PROVE CodesOnce'
  <2>1. spent' = spent /\ codes' = codes BY <1>1 DEF SignIn
  <2> QED BY <1>1, <2>1, SignInBecomes, HoldsOnly, CodesFrame
<1>2. ASSUME NEW r \in Requests, LoginToken(r) \/ PasswordSession(r) PROVE CodesOnce'
  <2>1. spent' = spent /\ codes' = codes /\ Becomes(r, Idle)
    BY <1>2, EndBecomes DEF LoginToken, PasswordSession, histVars
  <2> QED BY <2>1, HoldsOnly, CodesFrame
<1>3. ASSUME NEW r \in Requests, NEW kind \in Redeeming, NEW t \in Logins, Redeem(r, kind, t)
      PROVE  CodesOnce'
  <2>1. spent' = spent /\ codes' = codes BY <1>3 DEF Redeem
  <2> QED BY <1>3, <2>1, RedeemBecomes, HoldsOnly, CodesFrame
<1>4. ASSUME NEW r \in Requests, TotpCode(r) \/ ConsumeLogin(r) \/ MarkVerified(r) \/ TurnOff(r)
      PROVE  CodesOnce'
  <2>1. spent' = spent /\ codes' = codes
    BY <1>4 DEF TotpCode, ConsumeLogin, MarkVerified, TurnOff, histVars
  <2>2. ~Free(r) /\ \E pc \in Pcs : Goto(r, pc)
    BY <1>4, PcsIn DEF TotpCode, ConsumeLogin, MarkVerified, TurnOff, At
  <2>3. PICK pc \in Pcs : Goto(r, pc) BY <2>2
  <2>4. [request[r] EXCEPT !.pc = pc].code = request[r].code BY <2>2, GotoBecomes DEF Running
  <2> QED BY <2>1, <2>2, <2>3, <2>4, GotoBecomes, HoldsOnly, CodesFrame
<1>5. ASSUME NEW r \in Requests, RecoveryCode(r) PROVE CodesOnce'
  <2>1. PICK g \in Codes :
          /\ codes[g] = "fresh" /\ codes' = [codes EXCEPT ![g] = "used"]
          /\ request' = [request EXCEPT ![r].pc = "consume", ![r].code = g]
    BY <1>5 DEF RecoveryCode
  <2>2. spent' = spent /\ spent[g] = 0 BY <1>5, <2>1 DEF RecoveryCode, CodesOnce, histVars
  <2>3. request[r] \in Running BY <1>5 DEF RecoveryCode, At, Free, TypeOK
  <2>4. request'[r].code = g /\ \A p \in Requests \ {r} : request'[p] = request[p]
    BY <2>1, <2>3 DEF TypeOK, Running
  <2>5. codes'[g] = "used" /\ \A h \in Codes \ {g} : codes'[h] = codes[h] BY <2>1 DEF TypeOK
  <2>6. \A p \in Requests \ {r} : Holds(p)' => Holds(p) /\ request[p].code \in Codes \ {g}
    BY <2>1, <2>4 DEF Holds, Free, CodesOnce
  <2> QED BY <2>2, <2>4, <2>5, <2>6 DEF CodesOnce
<1>6. ASSUME NEW r \in Requests, IssueSession(r) PROVE CodesOnce'
  <2>1. Becomes(r, Idle) /\ codes' = codes /\ ~Free(r)
    BY <1>6, EndBecomes DEF IssueSession, At
  <2>2. \A p \in Requests : Holds(p)' => p # r /\ Holds(p) /\ request'[p] = request[p]
    BY <2>1, BecomesOnly DEF Holds, Free
  <2>3. CASE request[r].code = None
    BY <1>6, <2>1, <2>2, <2>3, CodesFrame DEF IssueSession
  <2>4. CASE request[r].code # None
    <3>1. Holds(r) BY <2>1, <2>4 DEF Holds
    <3> DEFINE g == request[r].code
    <3>2. g \in Codes /\ spent[g] = 0 /\ codes[g] \notin {"none", "fresh"} BY <3>1 DEF CodesOnce
    <3>3. spent' = [spent EXCEPT ![g] = @ + 1] BY <1>6, <2>4 DEF IssueSession
    <3>4. spent'[g] = 1 /\ \A h \in Codes \ {g} : spent'[h] = spent[h]
      BY <3>2, <3>3 DEF TypeOK
    <3>5. \A p \in Requests : Holds(p)' => request[p].code \in Codes \ {g}
      BY <2>2, <3>1 DEF CodesOnce
    <3>6. \A h \in Codes : spent'[h] <= 1 /\ (codes'[h] \in {"none", "fresh"} => spent'[h] = 0)
      BY <2>1, <3>2, <3>4 DEF CodesOnce
    <3> HIDE DEF g
    <3>7. \A p \in Requests :
            Holds(p)' => /\ request'[p].code \in Codes /\ spent'[request'[p].code] = 0
                         /\ codes'[request'[p].code] \notin {"none", "fresh"}
      BY <2>1, <2>2, <3>4, <3>5 DEF CodesOnce
    <3>8. \A p, q \in Requests :
            Holds(p)' /\ Holds(q)' /\ request'[p].code = request'[q].code => p = q
      BY <2>2 DEF CodesOnce
    <3> QED BY <3>6, <3>7, <3>8 DEF CodesOnce
  <2> QED BY <2>3, <2>4
<1>7. ASSUME NEW r \in Requests, NEW kind \in Changing, Change(r, kind) PROVE CodesOnce'
  <2>1. spent' = spent /\ codes' = codes BY <1>7 DEF Change
  <2> QED BY <1>7, <2>1, ChangeBecomes, HoldsOnly, CodesFrame
<1>8. ASSUME NEW r \in Requests, WriteSecret(r) PROVE CodesOnce'
  <2>1. spent' = spent /\ codes' = codes /\ Becomes(r, Idle)
    BY <1>8, EndBecomes DEF WriteSecret, histVars
  <2> QED BY <2>1, HoldsOnly, CodesFrame
<1>9. ASSUME NEW r \in Requests, DeleteCodes(r) \/ CreateCodes(r) \/ ClearCodes(r) PROVE CodesOnce'
  <2>1. spent' = spent BY <1>9 DEF DeleteCodes, CreateCodes, ClearCodes, histVars
  <2>2. \A g \in Codes : codes'[g] \in {"none", "fresh"} => codes[g] \in {"none", "fresh"}
    BY <1>9 DEF DeleteCodes, CreateCodes, ClearCodes, Deleted, TypeOK
  <2>3. ~Free(r) /\ (End(r) \/ \E pc \in Pcs : Goto(r, pc))
    BY <1>9, PcsIn DEF DeleteCodes, CreateCodes, ClearCodes, At
  <2>4. CASE End(r) BY <2>1, <2>2, <2>4, EndBecomes, HoldsOnly, CodesFrame
  <2>5. ASSUME NEW pc \in Pcs, Goto(r, pc) PROVE CodesOnce'
    <3>1. [request[r] EXCEPT !.pc = pc].code = request[r].code
      BY <2>3, <2>5, GotoBecomes DEF Running
    <3> QED BY <2>1, <2>2, <2>3, <2>5, <3>1, GotoBecomes, HoldsOnly, CodesFrame
  <2> QED BY <2>3, <2>4, <2>5
<1>10. ASSUME NEW t \in Logins, ExpireLogin(t) PROVE CodesOnce'
  BY <1>10, CodesFrame DEF ExpireLogin, histVars, Holds, Free
<1>11. CASE Restart BY <1>11, CodesFrame DEF Restart, Holds, Free
<1>12. CASE UNCHANGED vars BY <1>12, CodesFrame DEF vars, histVars, Holds, Free
<1> QED
  BY <1>1, <1>2, <1>3, <1>4, <1>5, <1>6, <1>7, <1>8, <1>9, <1>10, <1>11, <1>12
  DEF Next, LoginStep, FactorStep

\* A step at which no token is read, used up by a request, or opens a session.
LEMMA LoginsFrame ==
  ASSUME TypeOK, LoginsOnce, opened' = opened, shared' \subseteq Logins, shared \subseteq shared',
         \A t \in Logins : /\ login[t] = "used" => login'[t] = "used"
                           /\ login'[t] # "used" => login[t] # "used",
         \A r \in Requests :
           /\ Uses(r)' => Uses(r) /\ request'[r].login = request[r].login
           /\ Past(r)' => Past(r)
  PROVE  LoginsOnce'
<1>1. \A r \in Requests : Past(r) => Uses(r) BY DEF Past
<1>2. \A r \in Requests : Past(r)' => Uses(r)' BY DEF Past
<1>3. \A t \in Logins :
        (login'[t] # "used" => opened'[t] = 0) /\ (t \notin shared' => opened'[t] <= 1)
  BY DEF LoginsOnce
<1>4. \A r \in Requests :
        Uses(r)' => /\ request'[r].login \in Logins
                    /\ request'[r].login \in shared' \/ opened'[request'[r].login] = 0
  BY DEF LoginsOnce
<1>5. \A q, r \in Requests :
        Uses(q)' /\ Uses(r)' /\ q # r /\ request'[q].login = request'[r].login
          => request'[r].login \in shared'
  BY DEF LoginsOnce
<1>6. \A r \in Requests : Past(r)' => login'[request'[r].login] = "used"
  BY <1>1, <1>2 DEF LoginsOnce
<1> QED BY <1>3, <1>4, <1>5, <1>6 DEF LoginsOnce

\* One request goes on, and neither takes a token nor has used one up.
LEMMA UsesOnly ==
  ASSUME TypeOK, NEW r \in Requests, NEW q \in {Idle} \cup Running, Becomes(r, q),
         q # Idle => \/ q.kind \notin Tokened
                     \/ /\ ~Free(r) /\ q.kind = request[r].kind /\ q.login = request[r].login
                        /\ \/ request[r].pc \notin {"code", "consume"}
                           \/ q.pc \in {"code", "consume"}
  PROVE  \A p \in Requests : /\ Uses(p)' => Uses(p) /\ request'[p].login = request[p].login
                             /\ Past(p)' => Past(p)
BY BecomesOnly DEF Uses, Past, Free

LEMMA LoginsStep == ASSUME TypeOK, LoginsOnce, [Next]_vars PROVE LoginsOnce'
<1>0. shared \subseteq Logins BY DEF TypeOK
<1>1. ASSUME NEW r \in Requests, SignIn(r) PROVE LoginsOnce'
  <2>1. opened' = opened /\ login' = login /\ shared' = shared BY <1>1 DEF SignIn
  <2>2. "signIn" \notin Tokened BY DEF Tokened
  <2> QED BY <1>0, <1>1, <2>1, <2>2, SignInBecomes, UsesOnly, LoginsFrame
<1>2. ASSUME NEW r \in Requests, LoginToken(r) \/ PasswordSession(r) PROVE LoginsOnce'
  <2>1. opened' = opened /\ shared' = shared /\ Becomes(r, Idle)
    BY <1>2, EndBecomes DEF LoginToken, PasswordSession, histVars
  <2>2. \A t \in Logins : /\ login[t] = "used" => login'[t] = "used"
                          /\ login'[t] # "used" => login[t] # "used"
    BY <1>2 DEF LoginToken, PasswordSession, TypeOK
  <2> QED BY <1>0, <2>1, <2>2, UsesOnly, LoginsFrame
<1>3. ASSUME NEW r \in Requests, NEW kind \in Redeeming, NEW t \in Logins, Redeem(r, kind, t)
      PROVE  LoginsOnce'
  <2>1. PICK q \in Running :
           /\ Becomes(r, q) /\ Free(r)
           /\ q.pc = (IF kind = "enroll" THEN "secret" ELSE "code")
           /\ q.kind = kind /\ q.login = t
    BY <1>3, RedeemBecomes
  <2>2. /\ opened' = opened /\ login' = login /\ login[t] # "used" /\ opened[t] = 0
        /\ shared \subseteq shared' /\ shared' \subseteq Logins
    BY <1>3 DEF Redeem, Redeemable, LoginsOnce, TypeOK
  <2>3. CASE kind = "enroll"
    <3>1. kind \notin Tokened BY <2>3 DEF Tokened
    <3> QED BY <2>1, <2>2, <3>1, UsesOnly, LoginsFrame
  <2>4. CASE kind # "enroll"
    <3>1. request'[r] = q /\ \A p \in Requests \ {r} : request'[p] = request[p]
      BY <2>1, BecomesOnly
    <3>2. ~Past(r)' BY <2>1, <2>4, <3>1 DEF Past
    <3>3. \A p \in Requests \ {r} : Uses(p)' = Uses(p) /\ Past(p)' = Past(p)
      BY <3>1 DEF Uses, Past, Free
    <3>4. \A p \in Requests \ {r} : Uses(p) /\ request[p].login = t => t \in shared'
      BY <1>3 DEF Redeem, Uses, Tokened, Others
    <3>5. \A x \in Logins :
            (login'[x] # "used" => opened'[x] = 0) /\ (x \notin shared' => opened'[x] <= 1)
      BY <2>2 DEF LoginsOnce
    <3>6. \A p \in Requests :
            Uses(p)' => /\ request'[p].login \in Logins
                        /\ request'[p].login \in shared' \/ opened'[request'[p].login] = 0
      BY <2>1, <2>2, <3>1, <3>3 DEF LoginsOnce
    <3>7. \A p, x \in Requests :
            Uses(p)' /\ Uses(x)' /\ p # x /\ request'[p].login = request'[x].login
              => request'[x].login \in shared'
      BY <2>1, <2>2, <3>1, <3>3, <3>4 DEF LoginsOnce
    <3>8. \A p \in Requests : Past(p)' => login'[request'[p].login] = "used"
      BY <2>2, <3>1, <3>2, <3>3 DEF LoginsOnce
    <3> QED BY <3>5, <3>6, <3>7, <3>8 DEF LoginsOnce
  <2> QED BY <2>3, <2>4
<1>4. ASSUME NEW r \in Requests, TotpCode(r) \/ RecoveryCode(r) PROVE LoginsOnce'
  <2>1. request[r] \in Running /\ ~Free(r) BY <1>4 DEF TotpCode, RecoveryCode, At, Free, TypeOK
  <2>2. opened' = opened /\ login' = login /\ shared' = shared
    BY <1>4 DEF TotpCode, RecoveryCode, histVars
  <2>3. \E q \in Running : /\ Becomes(r, q) /\ q.kind = request[r].kind
                           /\ q.login = request[r].login /\ q.pc = "consume"
    <3>1. CASE TotpCode(r)
      <4>1. Goto(r, "consume") /\ "consume" \in Pcs BY <3>1, PcsIn DEF TotpCode
      <4> DEFINE q == [request[r] EXCEPT !.pc = "consume"]
      <4>2. q \in Running /\ Becomes(r, q) BY <2>1, <4>1, GotoBecomes
      <4> QED BY <2>1, <4>2 DEF Running
    <3>2. CASE RecoveryCode(r)
      <4>1. PICK g \in Codes : request' = [request EXCEPT ![r].pc = "consume", ![r].code = g]
        BY <3>2 DEF RecoveryCode
      <4> DEFINE q == [request[r] EXCEPT !.pc = "consume", !.code = g]
      <4>2. q \in Running BY <2>1, PcsIn DEF Running
      <4>3. Becomes(r, q) BY <4>1 DEF Becomes, TypeOK
      <4> QED BY <2>1, <4>2, <4>3 DEF Running
    <3> QED BY <1>4, <3>1, <3>2
  <2> QED BY <1>0, <2>1, <2>2, <2>3, UsesOnly, LoginsFrame
<1>5. ASSUME NEW r \in Requests, ConsumeLogin(r) PROVE LoginsOnce'
  <2> DEFINE t == request[r].login
             pc == IF request[r].kind = "totp" THEN "issue" ELSE "verified"
             q == [request[r] EXCEPT !.pc = pc]
  <2>1. ~Free(r) /\ Uses(r) BY <1>5 DEF ConsumeLogin, At, Uses, Tokened
  <2>2. q \in Running /\ Becomes(r, q) /\ request[r] \in Running
    BY <1>5, <2>1, GotoBecomes, PcsIn DEF ConsumeLogin
  <2>3. q.kind = request[r].kind /\ q.login = t BY <2>2 DEF Running
  <2>4. request'[r] = q /\ \A p \in Requests \ {r} : request'[p] = request[p]
    BY <2>2, BecomesOnly
  <2>5. /\ t \in Logins /\ login'[t] = "used" /\ opened' = opened /\ shared' = shared
        /\ \A x \in Logins \ {t} : login'[x] = login[x]
    BY <1>5, <2>1 DEF ConsumeLogin, LoginsOnce, TypeOK, histVars
  <2> HIDE DEF q
  <2>6. \A p \in Requests : /\ Uses(p)' => Uses(p) /\ request'[p].login = request[p].login
                            /\ Past(p)' => Past(p) \/ p = r
    BY <2>1, <2>3, <2>4 DEF Uses, Past, Free
  <2>8. \A p \in Requests : (Past(p)' => Uses(p)') /\ (Past(p) => Uses(p)) BY DEF Past
  <2>9. request'[r].login = t BY <2>3, <2>4
  <2> HIDE DEF t
  <2>10. \A x \in Logins :
          (login'[x] # "used" => opened'[x] = 0) /\ (x \notin shared' => opened'[x] <= 1)
    BY <2>5 DEF LoginsOnce
  <2>11. \A p \in Requests :
          Uses(p)' => /\ request'[p].login \in Logins
                      /\ request'[p].login \in shared' \/ opened'[request'[p].login] = 0
    BY <2>5, <2>6 DEF LoginsOnce
  <2>12. \A p, x \in Requests :
          Uses(p)' /\ Uses(x)' /\ p # x /\ request'[p].login = request'[x].login
            => request'[x].login \in shared'
    BY <2>5, <2>6 DEF LoginsOnce
  <2>13. \A p \in Requests : Past(p)' => login'[request'[p].login] = "used"
    BY <2>5, <2>6, <2>8, <2>9 DEF LoginsOnce
  <2> QED BY <2>10, <2>11, <2>12, <2>13 DEF LoginsOnce
<1>6. ASSUME NEW r \in Requests, IssueSession(r) PROVE LoginsOnce'
  <2> DEFINE t == request[r].login
  <2>1. Becomes(r, Idle) /\ login' = login /\ shared' = shared /\ ~Free(r) /\ Past(r) /\ Uses(r)
    BY <1>6, EndBecomes DEF IssueSession, At, Past, Uses, Tokened
  <2>2. t \in Logins /\ login[t] = "used" /\ (t \in shared \/ opened[t] = 0)
    BY <2>1 DEF LoginsOnce
  <2>3. opened' = [opened EXCEPT ![t] = @ + 1] BY <1>6 DEF IssueSession
  <2>4. opened'[t] = opened[t] + 1 /\ \A x \in Logins \ {t} : opened'[x] = opened[x]
    BY <2>2, <2>3 DEF TypeOK
  <2>5. \A p \in Requests : Uses(p)' => p # r /\ Uses(p) /\ request'[p] = request[p]
    BY <2>1, BecomesOnly DEF Uses, Free
  <2>6. \A p \in Requests : Past(p)' => Past(p) BY <2>5 DEF Past
  <2>7. \A p \in Requests : Uses(p)' => request[p].login # t \/ t \in shared
    BY <2>1, <2>5 DEF LoginsOnce
  <2>8. opened[t] \in Nat BY <2>2 DEF TypeOK
  <2> HIDE DEF t
  <2>9. \A x \in Logins :
          (login'[x] # "used" => opened'[x] = 0) /\ (x \notin shared' => opened'[x] <= 1)
    BY <2>1, <2>2, <2>4, <2>8 DEF LoginsOnce
  <2>10. \A p \in Requests :
          Uses(p)' => /\ request'[p].login \in Logins
                      /\ request'[p].login \in shared' \/ opened'[request'[p].login] = 0
    BY <2>1, <2>4, <2>5, <2>7 DEF LoginsOnce
  <2>11. \A p, x \in Requests :
          Uses(p)' /\ Uses(x)' /\ p # x /\ request'[p].login = request'[x].login
            => request'[x].login \in shared'
    BY <2>1, <2>5 DEF LoginsOnce
  <2>12. \A p \in Requests : Past(p)' => login'[request'[p].login] = "used"
    BY <2>1, <2>5, <2>6 DEF LoginsOnce, Past
  <2> QED BY <2>9, <2>10, <2>11, <2>12 DEF LoginsOnce
<1>7. ASSUME NEW r \in Requests, NEW kind \in Changing, Change(r, kind) PROVE LoginsOnce'
  <2>1. opened' = opened /\ login' = login /\ shared' = shared BY <1>7 DEF Change
  <2>2. PICK q \in Running : Becomes(r, q) /\ q.kind = kind BY <1>7, ChangeBecomes
  <2>3. kind \notin Tokened BY <1>7, ChangeBecomes DEF Tokened, ChangeKinds
  <2> QED BY <1>0, <2>1, <2>2, <2>3, UsesOnly, LoginsFrame
<1>8. ASSUME NEW r \in Requests, WriteSecret(r) PROVE LoginsOnce'
  <2>1. opened' = opened /\ login' = login /\ shared' = shared /\ Becomes(r, Idle)
    BY <1>8, EndBecomes DEF WriteSecret, histVars
  <2> QED BY <1>0, <2>1, UsesOnly, LoginsFrame
<1>9. ASSUME NEW r \in Requests, \/ MarkVerified(r) \/ TurnOff(r)
                                \/ DeleteCodes(r) \/ CreateCodes(r) \/ ClearCodes(r)
      PROVE  LoginsOnce'
  <2>1. opened' = opened /\ login' = login /\ shared' = shared
    BY <1>9 DEF MarkVerified, TurnOff, DeleteCodes, CreateCodes, ClearCodes, histVars
  <2>2. /\ ~Free(r) /\ (End(r) \/ \E pc \in Pcs : Goto(r, pc))
        /\ request[r].pc \notin {"code", "consume"}
    BY <1>9, PcsIn DEF MarkVerified, TurnOff, DeleteCodes, CreateCodes, ClearCodes, At
  <2>3. CASE End(r) BY <1>0, <2>1, <2>3, EndBecomes, UsesOnly, LoginsFrame
  <2>4. ASSUME NEW pc \in Pcs, Goto(r, pc) PROVE LoginsOnce'
    <3> DEFINE q == [request[r] EXCEPT !.pc = pc]
    <3>1. q \in Running /\ Becomes(r, q) /\ request[r] \in Running BY <2>2, <2>4, GotoBecomes
    <3>2. q.kind = request[r].kind /\ q.login = request[r].login BY <3>1 DEF Running
    <3> QED BY <1>0, <2>1, <2>2, <3>1, <3>2, UsesOnly, LoginsFrame
  <2> QED BY <2>2, <2>3, <2>4
<1>10. ASSUME NEW t \in Logins, ExpireLogin(t) PROVE LoginsOnce'
  <2>1. /\ opened' = opened /\ shared' = shared
        /\ \A r \in Requests : /\ Uses(r)' => Uses(r) /\ request'[r].login = request[r].login
                               /\ Past(r)' => Past(r)
    BY <1>10 DEF ExpireLogin, histVars, Uses, Past, Free
  <2>2. \A x \in Logins : /\ login[x] = "used" => login'[x] = "used"
                          /\ login'[x] # "used" => login[x] # "used"
    BY <1>10 DEF ExpireLogin, TypeOK
  <2> QED BY <1>0, <2>1, <2>2, LoginsFrame
<1>11. CASE Restart BY <1>0, <1>11, LoginsFrame DEF Restart, Uses, Past, Free
<1>12. CASE UNCHANGED vars BY <1>0, <1>12, LoginsFrame DEF vars, histVars, Uses, Past, Free
<1> QED
  BY <1>1, <1>2, <1>3, <1>4, <1>5, <1>6, <1>7, <1>8, <1>9, <1>10, <1>11, <1>12
  DEF Next, LoginStep, FactorStep

----------------------------------------------------------------------------
(* The factor and its codes                                                 *)

\* A step that changes neither the factor nor what a change of it knows.
LEMMA FactorFrame ==
  ASSUME FactorKnown, CodesKnown, user' = user, Alive' = Alive, proven' = proven,
         tangled => tangled', Settled' => Settled \/ tangled',
         \A p \in Requests : Changes(p)' => Changes(p) /\ request'[p] = request[p]
  PROVE  FactorKnown' /\ CodesKnown'
<1>1. CodesKnown' BY DEF CodesKnown, CodesFit
<1>2. \A q, r \in Requests : Changes(q)' /\ Changes(r)' /\ q # r => tangled'
  BY DEF FactorKnown
<1>3. ASSUME ~tangled', NEW r \in Requests, Changes(r)' PROVE Knows(r)'
  BY <1>3 DEF FactorKnown, Knows
<1>4. ~tangled' /\ user'.verified => user'.secret = proven' BY DEF FactorKnown
<1> QED BY <1>1, <1>2, <1>3, <1>4 DEF FactorKnown

\* A step of the only request that changes the factor.
LEMMA FactorOne ==
  ASSUME FactorKnown, NEW r \in Requests, tangled => tangled',
         \A p \in Requests \ {r} : request'[p] = request[p],
         ~tangled' => \A p \in Requests \ {r} : ~Changes(p),
         ~tangled' => /\ Changes(r)' => Knows(r)'
                      /\ user'.verified => user'.secret = proven'
                      /\ (Changes(r)' => request'[r].pc \notin {"delete", "create", "clear"})
                           => CodesFit'
  PROVE  FactorKnown' /\ CodesKnown'
<1>1. \A p \in Requests \ {r} : Changes(p)' = Changes(p) BY DEF Changes, Free
<1>2. \A p, q \in Requests : Changes(p)' /\ Changes(q)' /\ p # q => tangled'
  BY <1>1 DEF FactorKnown
<1>3. ~tangled' => \A p \in Requests : Changes(p)' => Knows(p)' BY <1>1
<1>4. ~tangled' /\ Settled' => CodesFit' BY DEF Settled
<1> QED BY <1>2, <1>3, <1>4 DEF FactorKnown, CodesKnown

LEMMA AloneSettled ==
  ASSUME NEW r \in Requests, \A p \in Requests \ {r} : ~Changes(p),
         Changes(r) => request[r].pc \notin {"delete", "create", "clear"}
  PROVE  Settled
BY DEF Settled

\* One request that does not change the factor goes on.
LEMMA ChangesOnly ==
  ASSUME TypeOK, NEW r \in Requests, NEW q \in {Idle} \cup Running, Becomes(r, q),
         q # Idle => q.kind \notin Changing,
         Changes(r) => request[r].pc \notin {"delete", "create", "clear"}
  PROVE  /\ \A p \in Requests : Changes(p)' => Changes(p) /\ request'[p] = request[p]
         /\ Settled' => Settled
<1>1. request'[r] = q /\ \A p \in Requests \ {r} : request'[p] = request[p] BY BecomesOnly
<1>2. ~Changes(r)' BY <1>1 DEF Changes, Free
<1>3. \A p \in Requests \ {r} : Changes(p)' = Changes(p) BY <1>1 DEF Changes, Free
<1> QED BY <1>1, <1>2, <1>3 DEF Settled

LEMMA SignInFactor ==
  ASSUME TypeOK, FactorKnown, CodesKnown, NEW r \in Requests,
         SignIn(r) \/ LoginToken(r) \/ PasswordSession(r)
  PROVE  FactorKnown' /\ CodesKnown'
<1>1. user' = user /\ Alive' = Alive /\ proven' = proven
  BY DEF SignIn, LoginToken, PasswordSession, histVars, Alive
<1>2. "signIn" \notin Changing BY DEF Changing
<1>3. CASE SignIn(r)
  <2>1. tangled => tangled' BY <1>3, StartTangles DEF SignIn
  <2>2. PICK q \in Running : Becomes(r, q) /\ q.kind = "signIn" BY <1>3, SignInBecomes
  <2>3. ~Changes(r) BY <1>3, SignInBecomes DEF Changes
  <2> QED BY <1>1, <1>2, <2>1, <2>2, <2>3, ChangesOnly, FactorFrame
<1>4. CASE LoginToken(r) \/ PasswordSession(r)
  <2>1. tangled' = tangled /\ Becomes(r, Idle)
    BY <1>4, EndBecomes DEF LoginToken, PasswordSession, histVars
  <2>2. ~Changes(r) BY <1>2, <1>4 DEF LoginToken, PasswordSession, At, Changes
  <2> QED BY <1>1, <2>1, <2>2, ChangesOnly, FactorFrame
<1> QED BY <1>3, <1>4

LEMMA RedeemFactor ==
  ASSUME TypeOK, FactorKnown, CodesKnown, NEW r \in Requests, NEW kind \in Redeeming,
         NEW t \in Logins, Redeem(r, kind, t)
  PROVE  FactorKnown' /\ CodesKnown'
<1>1. PICK q \in Running :
        /\ Becomes(r, q) /\ Free(r)
        /\ q.pc = (IF kind = "enroll" THEN "secret" ELSE "code")
        /\ q.kind = kind /\ q.secret = user.secret
  BY RedeemBecomes
<1>2. /\ user' = user /\ Alive' = Alive /\ proven' = proven
      /\ kind = "enroll" => ~user.verified
      /\ kind = "enrollVerify" => user.secret # None
  BY DEF Redeem, Alive
<1>3. /\ tangled => tangled'
      /\ kind \in Changing /\ (\E p \in Requests \ {r} : Changes(p)) => tangled'
  BY StartTangles DEF Redeem
<1>4. request'[r] = q /\ \A p \in Requests \ {r} : request'[p] = request[p] BY <1>1, BecomesOnly
<1>5. CASE kind \notin Changing
  <2>1. ~Changes(r) BY <1>1 DEF Changes
  <2> QED BY <1>1, <1>2, <1>3, <1>5, <2>1, ChangesOnly, FactorFrame
<1>6. CASE kind \in Changing
  <2>1. ~Changes(r) BY <1>1 DEF Changes
  <2>2. kind \in {"enroll", "enrollVerify"} BY <1>6 DEF Redeeming, Changing
  <2>3. ~tangled' => /\ ~tangled /\ \A p \in Requests \ {r} : ~Changes(p) BY <1>3, <1>6
  <2>4. Knows(r)' BY <1>1, <1>2, <1>4, <2>2 DEF Knows
  <2>5. ~tangled' => CodesFit' BY <1>2, <2>1, <2>3, AloneSettled DEF CodesKnown, CodesFit
  <2>6. ~tangled' => (user'.verified => user'.secret = proven') BY <1>2, <2>3 DEF FactorKnown
  <2> QED BY <1>3, <1>4, <2>3, <2>4, <2>5, <2>6, FactorOne
<1> QED BY <1>5, <1>6

LEMMA CodeFactor ==
  ASSUME TypeOK, FactorKnown, CodesKnown, NEW r \in Requests,
         TotpCode(r) \/ RecoveryCode(r) \/ ConsumeLogin(r)
  PROVE  FactorKnown' /\ CodesKnown'
<1>1. ~Free(r) /\ request[r] \in Running /\ request[r].pc \in {"code", "consume"}
  BY DEF TotpCode, RecoveryCode, ConsumeLogin, At, Free, TypeOK
<1>2. PICK q \in Running :
        /\ Becomes(r, q) /\ q.kind = request[r].kind /\ q.secret = request[r].secret
        /\ q.pc = IF ~ConsumeLogin(r) THEN "consume"
                  ELSE IF request[r].kind = "totp" THEN "issue" ELSE "verified"
  <2>1. CASE ConsumeLogin(r)
    <3> DEFINE pc == IF request[r].kind = "totp" THEN "issue" ELSE "verified"
               q == [request[r] EXCEPT !.pc = pc]
    <3>1. Goto(r, pc) /\ pc \in Pcs BY <2>1, PcsIn DEF ConsumeLogin
    <3>2. q \in Running /\ Becomes(r, q) BY <1>1, <3>1, GotoBecomes
    <3> QED BY <1>1, <2>1, <3>2 DEF Running
  <2>2. CASE TotpCode(r) /\ ~ConsumeLogin(r)
    <3> DEFINE q == [request[r] EXCEPT !.pc = "consume"]
    <3>1. Goto(r, "consume") /\ "consume" \in Pcs BY <2>2, PcsIn DEF TotpCode
    <3>2. q \in Running /\ Becomes(r, q) BY <1>1, <3>1, GotoBecomes
    <3> QED BY <1>1, <2>2, <3>2 DEF Running
  <2>3. CASE RecoveryCode(r) /\ ~ConsumeLogin(r)
    <3>1. PICK g \in Codes : request' = [request EXCEPT ![r].pc = "consume", ![r].code = g]
      BY <2>3 DEF RecoveryCode
    <3> DEFINE q == [request[r] EXCEPT !.pc = "consume", !.code = g]
    <3>2. q \in Running BY <1>1, PcsIn DEF Running
    <3>3. Becomes(r, q) BY <3>1 DEF Becomes, TypeOK
    <3> QED BY <1>1, <2>3, <3>2, <3>3 DEF Running
  <2> QED BY <2>1, <2>2, <2>3
<1>3. user' = user /\ tangled' = tangled
  BY DEF TotpCode, RecoveryCode, ConsumeLogin, histVars
<1>4. Alive' = Alive
  <2>1. CASE RecoveryCode(r)
    <3>1. \A g \in Codes : codes'[g] \in {"fresh", "used"} <=> codes[g] \in {"fresh", "used"}
      BY <2>1 DEF RecoveryCode, TypeOK
    <3> QED BY <3>1 DEF Alive
  <2>2. CASE ~RecoveryCode(r) BY <2>2 DEF TotpCode, ConsumeLogin, Alive
  <2> QED BY <2>1, <2>2
<1>5. request'[r] = q /\ \A p \in Requests \ {r} : request'[p] = request[p] BY <1>2, BecomesOnly
<1>6. request[r].kind \in {"totp", "enrollVerify"}
  BY DEF TotpCode, RecoveryCode, ConsumeLogin, At
<1>7. CASE request[r].kind = "totp"
  <2>1. q.kind \notin Changing BY <1>2, <1>7 DEF Changing
  <2>2. proven' = proven BY <1>7 DEF TotpCode, RecoveryCode, ConsumeLogin, histVars
  <2> QED BY <1>1, <1>2, <1>3, <1>4, <2>1, <2>2, ChangesOnly, FactorFrame
<1>8. CASE request[r].kind = "enrollVerify"
  <2>1. Changes(r) /\ ~RecoveryCode(r)
    BY <1>1, <1>8 DEF Changes, Changing, RecoveryCode, At
  <2>2. ~tangled => /\ \A p \in Requests \ {r} : ~Changes(p)
                    /\ Knows(r) /\ user.secret # None /\ request[r].secret = user.secret
    BY <1>8, <2>1 DEF FactorKnown, Knows
  <2>3. ~tangled => proven' = user.secret
    <3>1. CASE ConsumeLogin(r)
      <4>1. proven' = proven /\ request[r].pc = "consume" BY <3>1 DEF ConsumeLogin, At, histVars
      <4> QED BY <2>2, <4>1 DEF Knows
    <3>2. CASE TotpCode(r) BY <1>8, <2>2, <3>2 DEF TotpCode
    <3> QED BY <2>1, <3>1, <3>2
  <2>4. q.pc \in {"consume", "verified"} /\ q.kind = "enrollVerify" BY <1>2, <1>8
  <2>5. ~tangled => Knows(r)' BY <1>2, <1>3, <1>5, <2>2, <2>3, <2>4 DEF Knows
  <2>6. ~tangled => CodesFit'
    BY <1>1, <1>3, <1>4, <2>2, AloneSettled DEF CodesKnown, CodesFit
  <2> QED BY <1>3, <1>5, <2>2, <2>3, <2>5, <2>6, FactorOne
<1> QED BY <1>6, <1>7, <1>8

LEMMA IssueFactor ==
  ASSUME TypeOK, FactorKnown, CodesKnown, NEW r \in Requests, IssueSession(r)
  PROVE  FactorKnown' /\ CodesKnown'
<1>1. Becomes(r, Idle) BY EndBecomes DEF IssueSession
<1>2. user' = user /\ Alive' = Alive /\ proven' = proven /\ tangled' = tangled
  BY DEF IssueSession, Alive
<1>3. request[r].pc = "issue" BY DEF IssueSession, At
<1> QED BY <1>1, <1>2, <1>3, ChangesOnly, FactorFrame

LEMMA ChangeFactor ==
  ASSUME TypeOK, FactorKnown, CodesKnown, NEW r \in Requests, NEW kind \in Changing,
         Change(r, kind)
  PROVE  FactorKnown' /\ CodesKnown'
<1>1. kind \in ChangeKinds /\ Free(r) BY ChangeBecomes
<1>2. PICK q \in Running :
              /\ Becomes(r, q) /\ q.kind = kind
              /\ kind = "enable" => q.pc = "secret"
              /\ kind = "disable" => q.pc = "off"
              /\ kind = "verify" => q.pc = "verified"
              /\ kind = "regenerate" => q.pc = "delete"
  BY ChangeBecomes
<1>3. /\ user' = user /\ Alive' = Alive
      /\ IF kind = "enable" THEN ~user.verified ELSE user.secret # None
      /\ proven' = IF kind = "verify" THEN user.secret ELSE proven
  BY DEF Change, Alive
<1>4. /\ tangled => tangled'
      /\ (\E p \in Requests \ {r} : Changes(p)) => tangled'
  BY StartTangles DEF Change
<1>5. request'[r] = q /\ \A p \in Requests \ {r} : request'[p] = request[p] BY <1>2, BecomesOnly
<1>6. ~Changes(r) BY <1>1 DEF Changes
<1>7. Knows(r)'
  <2>1. q.pc # "clear" /\ q.pc # "create" /\ kind # "enrollVerify"
        /\ (q.pc = "secret" <=> kind = "enable")
        /\ (q.pc \in {"consume", "verified"} <=> kind = "verify")
    BY <1>1, <1>2 DEF ChangeKinds
  <2> QED BY <1>2, <1>3, <1>5, <2>1 DEF Knows
<1>8. ~tangled' => CodesFit' BY <1>3, <1>4, <1>6, AloneSettled DEF CodesKnown, CodesFit
<1>9. ~tangled' => (user'.verified => user'.secret = proven') BY <1>3, <1>4 DEF FactorKnown
<1> QED BY <1>4, <1>5, <1>7, <1>8, <1>9, FactorOne

LEMMA SecretFactor ==
  ASSUME TypeOK, FactorKnown, CodesKnown, NEW r \in Requests, WriteSecret(r)
  PROVE  FactorKnown' /\ CodesKnown'
<1>1. Becomes(r, Idle) /\ request[r].pc = "secret" /\ Changes(r)
  BY EndBecomes DEF WriteSecret, At, Changes, Changing
<1>2. request'[r] = Idle /\ \A p \in Requests \ {r} : request'[p] = request[p] BY <1>1, BecomesOnly
<1>3. Alive' = Alive /\ proven' = proven /\ tangled' = tangled BY DEF WriteSecret, Alive, histVars
<1>4. ~tangled => /\ \A p \in Requests \ {r} : ~Changes(p)
                  /\ ~user.verified
  BY <1>1 DEF FactorKnown, Knows
<1>5. ~Changes(r)' BY <1>2 DEF Changes, Free
<1>6. user'.verified = user.verified /\ (user'.secret = None => user.secret = None)
  <2>1. drawn < MaxSecrets /\ drawn' = drawn + 1 => drawn' # None BY Numbers DEF TypeOK
  <2> QED BY <2>1 DEF WriteSecret, TypeOK, UserType
<1>7. ~tangled => CodesFit'
  BY <1>1, <1>3, <1>4, <1>6, AloneSettled DEF CodesKnown, CodesFit
<1> QED BY <1>2, <1>3, <1>4, <1>5, <1>6, <1>7, FactorOne

LEMMA VerifiedFactor ==
  ASSUME TypeOK, FactorKnown, CodesKnown, NEW r \in Requests, MarkVerified(r) \/ TurnOff(r)
  PROVE  FactorKnown' /\ CodesKnown'
<1>1. Changes(r) /\ ~Free(r) BY DEF MarkVerified, TurnOff, At, Changes, Changing
<1>2. Alive' = Alive /\ proven' = proven /\ tangled' = tangled
  BY DEF MarkVerified, TurnOff, Alive, histVars
<1>3. ~tangled => /\ \A p \in Requests \ {r} : ~Changes(p)
                  /\ Knows(r)
  BY <1>1 DEF FactorKnown
<1>4. CASE MarkVerified(r)
  <2> DEFINE q == [request[r] EXCEPT !.pc = "delete"]
  <2>1. /\ q \in Running /\ Becomes(r, q) /\ request[r] \in Running
    BY <1>1, <1>4, GotoBecomes, PcsIn DEF MarkVerified
  <2>2. q.pc = "delete" /\ q.kind = request[r].kind /\ q.secret = request[r].secret
    BY <2>1 DEF Running
  <2>3. /\ user' = [user EXCEPT !.verified = TRUE] /\ request[r].pc = "verified"
        /\ request[r].kind \in {"verify", "enrollVerify"}
    BY <1>4 DEF MarkVerified, At
  <2>4. user'.secret = user.secret BY <2>3 DEF TypeOK, UserType
  <2> HIDE DEF q
  <2>5. request'[r] = q /\ \A p \in Requests \ {r} : request'[p] = request[p] BY <2>1, BecomesOnly
  <2>6. ~tangled => Knows(r)' BY <1>2, <1>3, <2>2, <2>3, <2>4, <2>5 DEF Knows
  <2>7. ~tangled => user'.secret = proven' BY <1>2, <1>3, <2>3, <2>4 DEF Knows
  <2>8. Changes(r)' BY <1>1, <2>1, <2>2, <2>5, RunningNotIdle DEF Changes, Free
  <2> QED BY <1>2, <1>3, <2>2, <2>5, <2>6, <2>7, <2>8, FactorOne
<1>5. CASE TurnOff(r)
  <2> DEFINE q == [request[r] EXCEPT !.pc = "clear"]
  <2>1. /\ q \in Running /\ Becomes(r, q) /\ request[r] \in Running
    BY <1>1, <1>5, GotoBecomes, PcsIn DEF TurnOff
  <2>2. q.pc = "clear" /\ q.kind = "disable" BY <1>5, <2>1 DEF Running, TurnOff, At
  <2>3. ~user'.verified BY <1>5 DEF TurnOff, TypeOK, UserType
  <2> HIDE DEF q
  <2>4. request'[r] = q /\ \A p \in Requests \ {r} : request'[p] = request[p] BY <2>1, BecomesOnly
  <2>5. Knows(r)' BY <2>2, <2>3, <2>4 DEF Knows
  <2>6. Changes(r)' BY <2>1, <2>2, <2>4, RunningNotIdle DEF Changes, Changing, Free
  <2> QED BY <1>2, <1>3, <2>2, <2>3, <2>4, <2>5, <2>6, FactorOne
<1> QED BY <1>4, <1>5

LEMMA DeletedNone == Alive' = {} <=> \A g \in Codes : codes'[g] \notin {"fresh", "used"}
  BY DEF Alive

LEMMA CodesFactor ==
  ASSUME TypeOK, FactorKnown, CodesKnown, NEW r \in Requests,
         DeleteCodes(r) \/ CreateCodes(r) \/ ClearCodes(r)
  PROVE  FactorKnown' /\ CodesKnown'
<1>1. Changes(r) /\ ~Free(r) /\ request[r] \in Running
  BY DEF DeleteCodes, CreateCodes, ClearCodes, At, Changes, Changing, Free, TypeOK
<1>2. user' = user /\ proven' = proven /\ tangled' = tangled
  BY DEF DeleteCodes, CreateCodes, ClearCodes, histVars
<1>3. ~tangled => /\ \A p \in Requests \ {r} : ~Changes(p)
                  /\ Knows(r)
                  /\ user.verified => user.secret = proven
  BY <1>1 DEF FactorKnown
<1>4. CASE DeleteCodes(r)
  <2> DEFINE q == [request[r] EXCEPT !.pc = "create"]
  <2>1. q \in Running /\ Becomes(r, q)
    BY <1>1, <1>4, GotoBecomes, PcsIn DEF DeleteCodes
  <2>2. q.pc = "create" /\ q.kind = request[r].kind /\ q.secret = request[r].secret
    BY <1>1 DEF Running
  <2>3. Alive' = {}
    <3>1. \A g \in Codes : codes'[g] \notin {"fresh", "used"} BY <1>4 DEF DeleteCodes, Deleted
    <3> QED BY <3>1, DeletedNone
  <2> HIDE DEF q
  <2>4. request'[r] = q /\ \A p \in Requests \ {r} : request'[p] = request[p] BY <2>1, BecomesOnly
  <2>5. ~tangled => Knows(r)' BY <1>2, <1>3, <2>2, <2>3, <2>4 DEF Knows
  <2>6. Changes(r)' BY <1>1, <2>1, <2>2, <2>4, RunningNotIdle DEF Changes, Free
  <2> QED BY <1>2, <1>3, <2>2, <2>4, <2>5, <2>6, FactorOne
<1>5. CASE CreateCodes(r)
  <2>1. PICK g \in Codes : codes[g] = "none" /\ codes' = [codes EXCEPT ![g] = "fresh"]
    BY <1>5 DEF CreateCodes
  <2>2. request[r].pc = "create" /\ request[r].kind \in {"verify", "enrollVerify", "regenerate"}
    BY <1>5 DEF CreateCodes, At
  <2>3. ~tangled => Alive = {} /\ user.secret # None BY <1>3, <2>2 DEF Knows
  <2>4. ~tangled => Alive' = {g}
    <3>1. ~tangled => \A h \in Codes : codes[h] \notin {"fresh", "used"} BY <2>3 DEF Alive
    <3>2. codes'[g] = "fresh" /\ \A h \in Codes \ {g} : codes'[h] = codes[h] BY <2>1 DEF TypeOK
    <3> QED BY <3>1, <3>2 DEF Alive
  <2>5. ~tangled => CodesFit' BY <1>2, <2>3, <2>4 DEF CodesFit
  <2>6. PICK q \in {Idle} \cup Running :
          /\ Becomes(r, q)
          /\ q # Idle => q.pc = "issue" /\ q.kind = request[r].kind /\ q.secret = request[r].secret
    <3>1. CASE End(r) BY <3>1, EndBecomes
    <3>2. CASE Goto(r, "issue")
      <4> DEFINE q == [request[r] EXCEPT !.pc = "issue"]
      <4>1. q \in Running /\ Becomes(r, q) BY <1>1, <3>2, GotoBecomes, PcsIn
      <4> QED BY <1>1, <4>1 DEF Running
    <3> QED BY <1>5, <3>1, <3>2 DEF CreateCodes
  <2>7. request'[r] = q /\ \A p \in Requests \ {r} : request'[p] = request[p] BY <2>6, BecomesOnly
  <2>8. ~tangled /\ Changes(r)' => Knows(r)'
    BY <1>2, <1>3, <2>2, <2>3, <2>6, <2>7 DEF Knows, Changes, Free
  <2> QED BY <1>2, <1>3, <2>5, <2>7, <2>8, FactorOne
<1>6. CASE ClearCodes(r)
  <2>1. Becomes(r, Idle) /\ request[r].pc = "clear" BY <1>6, EndBecomes DEF ClearCodes, At
  <2>2. Alive' = {}
    <3>1. \A g \in Codes : codes'[g] \notin {"fresh", "used"} BY <1>6 DEF ClearCodes, Deleted
    <3> QED BY <3>1, DeletedNone
  <2>3. request'[r] = Idle /\ \A p \in Requests \ {r} : request'[p] = request[p]
    BY <2>1, BecomesOnly
  <2>4. ~Changes(r)' BY <2>3 DEF Changes, Free
  <2>5. ~tangled => CodesFit' BY <1>2, <1>3, <2>1, <2>2 DEF CodesFit, Knows
  <2> QED BY <1>2, <1>3, <2>3, <2>4, <2>5, FactorOne
<1> QED BY <1>4, <1>5, <1>6

LEMMA FactorStepInv ==
  ASSUME TypeOK, FactorKnown, CodesKnown, [Next]_vars
  PROVE  FactorKnown' /\ CodesKnown'
<1>1. ASSUME NEW r \in Requests, LoginStep(r) PROVE FactorKnown' /\ CodesKnown'
  BY <1>1, SignInFactor, RedeemFactor, CodeFactor, IssueFactor DEF LoginStep
<1>2. ASSUME NEW r \in Requests, FactorStep(r) PROVE FactorKnown' /\ CodesKnown'
  BY <1>2, ChangeFactor, SecretFactor, VerifiedFactor, CodesFactor DEF FactorStep
<1>3. ASSUME NEW t \in Logins, ExpireLogin(t) PROVE FactorKnown' /\ CodesKnown'
  BY <1>3, FactorFrame DEF ExpireLogin, histVars, Alive, Settled, Changes, Free
<1>4. CASE Restart
  <2>1. \A r \in Requests : ~Changes(r)' BY <1>4 DEF Restart, Changes, Free
  <2>2. tangled' = (tangled \/ \E r \in Requests : Changes(r)) BY <1>4 DEF Restart, Changes
  <2>3. tangled => tangled' BY <2>2
  <2>4. Settled \/ tangled' BY <2>2 DEF Settled
  <2>5. user' = user /\ Alive' = Alive /\ proven' = proven BY <1>4 DEF Restart, Alive
  <2> QED BY <2>1, <2>3, <2>4, <2>5, FactorFrame
<1>5. CASE UNCHANGED vars
  BY <1>5, FactorFrame DEF vars, histVars, Alive, Settled, Changes, Free
<1> QED BY <1>1, <1>2, <1>3, <1>4, <1>5 DEF Next

----------------------------------------------------------------------------
(* The theorems                                                             *)

LEMMA InitInv == Init => Inv
<1> SUFFICES ASSUME Init PROVE Inv OBVIOUS
<1>1. \A r \in Requests : Free(r) BY DEF Init, Free
<1>2. TypeOK
  <2>1. tangled \in BOOLEAN /\ user \in UserType BY DEF Init, UserType
  <2>2. drawn \in 0..MaxSecrets /\ faults \in 0..MaxFaults BY DEF Init
  <2>3. /\ login \in [Logins -> {"none", "fresh", "used"}]
        /\ codes \in [Codes -> {"none", "fresh", "used", "gone"}]
        /\ request \in [Requests -> {Idle} \cup Running]
        /\ opened \in [Logins -> Nat] /\ spent \in [Codes -> Nat]
        /\ shared \subseteq Logins /\ proven \in Secrets \cup {None}
    BY DEF Init
  <2> QED BY <2>1, <2>2, <2>3 DEF TypeOK
<1>3. CodesOnce BY <1>1 DEF Init, CodesOnce, Holds
<1>4. LoginsOnce BY <1>1 DEF Init, LoginsOnce, Uses, Past
<1>5. Alive = {} BY DEF Init, Alive
<1>6. FactorKnown /\ CodesKnown
  BY <1>1, <1>5 DEF Init, FactorKnown, CodesKnown, CodesFit, Changes
<1> QED BY <1>2, <1>3, <1>4, <1>6 DEF Inv

LEMMA NextInv == Inv /\ [Next]_vars => Inv'
  BY TypeInv, CodesStep, LoginsStep, FactorStepInv DEF Inv

LEMMA Invariant == Spec => []Inv
<1> QED BY InitInv, NextInv, PTL DEF Spec

\* The row, the tokens, the codes and the handlers hold what they should.
THEOREM TypeCorrect == Spec => []TypeOK
<1>1. Inv => TypeOK BY DEF Inv
<1> QED BY Invariant, <1>1, PTL

\* A recovery code opens one session, a login token one unless two requests have read it
\* before either used it, for every number of them (AuthTotpService.signInTotp).
THEOREM OneSessionEach == Spec => []RedeemedOnce
<1>1. Inv => RedeemedOnce
  <2> SUFFICES ASSUME Inv, NEW t \in Logins, opened[t] > 1 PROVE t \in shared
    BY DEF Inv, CodesOnce, RedeemedOnce
  <2>1. t \notin shared => opened[t] <= 1 BY DEF Inv, LoginsOnce
  <2>2. opened[t] \in Nat BY DEF Inv, TypeOK
  <2> QED BY <2>1, <2>2
<1> QED BY Invariant, <1>1, PTL

\* A verified factor is one whose secret the user has shown to have (verifyTotp and
\* enrollVerifyTotp), unless two changes of it met.
THEOREM FactorIsProven == Spec => []VerifiedIsProven
<1>1. Inv => VerifiedIsProven BY DEF Inv, FactorKnown, VerifiedIsProven
<1> QED BY Invariant, <1>1, PTL

\* A verified factor has one generation of recovery codes, no factor none
\* (RecoveryCodeService.regenerate, clearForUser).
THEOREM OneGeneration == Spec => []CodesMatchFactor
<1>1. Inv => CodesMatchFactor
  <2> SUFFICES ASSUME Inv, ~tangled,
                      \A r \in Requests : ~Free(r) => request[r].kind \notin Changing
               PROVE  /\ user.verified => Cardinality(Alive) = 1
                      /\ user.secret = None => Alive = {}
    BY DEF CodesMatchFactor
  <2>1. Settled BY DEF Settled, Changes
  <2>2. CodesFit BY <2>1 DEF Inv, CodesKnown
  <2> QED BY <2>2, FS_Singleton DEF CodesFit
<1> QED BY Invariant, <1>1, PTL
=============================================================================
