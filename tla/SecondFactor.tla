---------------------------- MODULE SecondFactor ----------------------------
(***************************************************************************)
(* The second factor of one account: the sign-in that gives a login token  *)
(* instead of a session, its redemption with a TOTP or a recovery code,    *)
(* the enrolment of administrators with a login token, and the activation, *)
(* deactivation and new recovery codes of a user who is signed in.         *)
(*                                                                         *)
(* The password is known. A secret is its number in the order of drawing,  *)
(* a code is one of a secret; a generation of recovery codes is one code.  *)
(***************************************************************************)
EXTENDS Naturals, FiniteSets

CONSTANTS
  Requests,   \* requests that run at once
  MaxLogins,  \* bound: login tokens
  MaxSecrets, \* bound: secrets
  MaxCodes,   \* bound: generations of recovery codes
  MaxFaults   \* bound: restarts

ASSUME BoundsAssumption ==
  MaxLogins \in Nat /\ MaxSecrets \in Nat /\ MaxCodes \in Nat /\ MaxFaults \in Nat

Logins == 1..MaxLogins
Secrets == 1..MaxSecrets
Codes == 1..MaxCodes
None == 0             \* no login token, no secret, no recovery code

VARIABLES
  user,      \* the row: totpSecret, totpVerified
  login,     \* the login tokens
  codes,     \* the RecoveryCode table
  request,   \* the handlers, between two awaits
  drawn,     \* secrets drawn so far
  faults,
  \* history, read by no step of the program
  opened,    \* sessions opened with each login token
  spent,     \* sessions opened with each recovery code
  shared,    \* login tokens read by a second request before the first had used them
  proven,    \* the secret of which a code was given last to activate the factor
  tangled    \* two requests that change the factor ran at once, or a restart cut one off

histVars == <<opened, spent, shared, proven, tangled>>
vars == <<user, login, codes, request, drawn, faults, histVars>>

----------------------------------------------------------------------------
UserType == [secret : Secrets \cup {None}, verified : BOOLEAN]
Redeeming == {"totp", "enroll", "enrollVerify"}          \* with a login token
Changing == {"enroll", "enrollVerify", "enable", "verify", "disable", "regenerate"}
Kinds == {"signIn"} \cup Redeeming \cup Changing
Pcs == {"password", "code", "consume", "secret", "verified", "delete", "create", "off", "clear",
        "issue"}
Idle == [pc |-> "idle"]
Running == [pc : Pcs, kind : Kinds,
            needs : BOOLEAN,                \* the sign-in needs the factor, as read
            secret : Secrets \cup {None},   \* user.totpSecret, as read
            login : Logins \cup {None},
            code : Codes \cup {None}]       \* the recovery code consumed

Init ==
  /\ user = [secret |-> None, verified |-> FALSE]
  /\ login = [t \in Logins |-> "none"]
  /\ codes = [g \in Codes |-> "none"]
  /\ request = [r \in Requests |-> Idle]
  /\ drawn = 0 /\ faults = 0
  /\ opened = [t \in Logins |-> 0] /\ spent = [g \in Codes |-> 0]
  /\ shared = {} /\ proven = None /\ tangled = FALSE

----------------------------------------------------------------------------
Free(r) == request[r] = Idle
At(r, pc, kinds) == ~Free(r) /\ request[r].pc = pc /\ request[r].kind \in kinds
Goto(r, pc) == request' = [request EXCEPT ![r].pc = pc]
End(r) == request' = [request EXCEPT ![r] = Idle]
Others(r) == {q \in Requests \ {r} : ~Free(q)}

\* generateToken decides on the user as read.
NeedsFactor(u, admin) == u.verified \/ admin
\* A request starts with what it has read: of the user, what it will still look at.
Start(r, kind, pc, token, needs) ==
  /\ Free(r)
  /\ request' = [request EXCEPT ![r] =
                  [pc |-> pc, kind |-> kind, login |-> token, code |-> None,
                   needs |-> needs,
                   secret |-> IF kind \in Redeeming THEN user.secret ELSE None]]
  /\ tangled' = (tangled \/ /\ kind \in Changing
                            /\ \E q \in Others(r) : request[q].kind \in Changing)

----------------------------------------------------------------------------
(* Sign-in with the password.                                              *)

\* Whether the user is an administrator is for another one to change at any time, so that
\* each reading may find either.
SignIn(r) ==
  /\ \E admin \in BOOLEAN : Start(r, "signIn", "password", None, NeedsFactor(user, admin))
  /\ UNCHANGED <<user, login, codes, drawn, faults, opened, spent, shared, proven>>

\* createLoginToken uses up the tokens before it, in one transaction.
LoginToken(r) ==
  /\ At(r, "password", {"signIn"}) /\ request[r].needs
  /\ \E t \in Logins :   \* bound
       /\ login[t] = "none"
       /\ login' = [s \in Logins |-> IF s = t THEN "fresh"
                                     ELSE IF login[s] = "none" THEN "none" ELSE "used"]
  /\ End(r)
  /\ UNCHANGED <<user, codes, drawn, faults, histVars>>
PasswordSession(r) ==
  /\ At(r, "password", {"signIn"}) /\ ~request[r].needs
  /\ End(r)
  /\ UNCHANGED <<user, login, codes, drawn, faults, histVars>>

----------------------------------------------------------------------------
(* What is done with a login token.                                        *)

\* Mutation: whether a token is used is not asked.
Redeemable_Used == {"fresh", "used"}
Redeemable == {"fresh"}

\* validateLoginToken reads the token with its user.
Redeem(r, kind, t) ==
  /\ kind \in Redeeming /\ login[t] \in Redeemable
  /\ CASE kind = "totp" -> user.secret # None
       [] kind = "enroll" -> ~user.verified
       [] kind = "enrollVerify" -> user.secret # None
  /\ Start(r, kind, IF kind = "enroll" THEN "secret" ELSE "code", t, FALSE)
  /\ shared' = IF \E q \in Others(r) : request[q].login = t /\ request[q].kind # "enroll"
               THEN shared \cup {t} ELSE shared
  /\ UNCHANGED <<user, login, codes, drawn, faults, opened, spent, proven>>

\* A code of the secret read is good, whatever the secret is by now.
TotpCode(r) ==
  /\ At(r, "code", {"totp", "enrollVerify"})
  /\ Goto(r, "consume")
  /\ proven' = IF request[r].kind = "totp" THEN proven ELSE request[r].secret
  /\ UNCHANGED <<user, login, codes, drawn, faults, opened, spent, shared, tangled>>

\* No TOTP: a recovery code, marked by one conditional update.
RecoveryCode(r) ==
  /\ At(r, "code", {"totp"})
  /\ \E g \in Codes :
       /\ codes[g] = "fresh"
       /\ codes' = [codes EXCEPT ![g] = "used"]
       /\ request' = [request EXCEPT ![r].pc = "consume", ![r].code = g]
  /\ UNCHANGED <<user, login, drawn, faults, histVars>>

\* consumeLoginToken does not ask whether it is used already.
ConsumeLogin(r) ==
  /\ At(r, "consume", {"totp", "enrollVerify"})
  /\ login' = [login EXCEPT ![request[r].login] = "used"]
  /\ Goto(r, IF request[r].kind = "totp" THEN "issue" ELSE "verified")
  /\ UNCHANGED <<user, codes, drawn, faults, histVars>>

IssueSession(r) ==
  /\ At(r, "issue", {"totp", "enrollVerify"})
  /\ opened' = [opened EXCEPT ![request[r].login] = @ + 1]
  /\ spent' = IF request[r].code = None THEN spent
              ELSE [spent EXCEPT ![request[r].code] = @ + 1]
  /\ End(r)
  /\ UNCHANGED <<user, login, codes, drawn, faults, shared, proven, tangled>>

\* Five minutes later it is as good as used.
ExpireLogin(t) ==
  /\ login[t] = "fresh"
  /\ login' = [login EXCEPT ![t] = "used"]
  /\ UNCHANGED <<user, codes, request, drawn, faults, histVars>>

----------------------------------------------------------------------------
(* What changes the factor.                                                *)

\* Mutation: the factor is activated again without asking whether it is.
Change_Reenable(r, kind) ==
  /\ kind \in Changing \ Redeeming
  /\ kind # "enable" => user.secret # None
  /\ Start(r, kind, CASE kind = "enable" -> "secret"
                      [] kind = "disable" -> "off"
                      [] kind = "verify" -> "verified"
                      [] kind = "regenerate" -> "delete", None, FALSE)
  /\ proven' = IF kind = "verify" THEN user.secret ELSE proven
  /\ UNCHANGED <<user, login, codes, drawn, faults, opened, spent, shared>>
\* A user who is signed in: the password was confirmed before the row is read.
Change(r, kind) ==
  /\ kind \in Changing \ Redeeming
  /\ IF kind = "enable" THEN ~user.verified ELSE user.secret # None
  /\ Start(r, kind, CASE kind = "enable" -> "secret"
                      [] kind = "disable" -> "off"
                      [] kind = "verify" -> "verified"
                      [] kind = "regenerate" -> "delete", None, FALSE)
  /\ proven' = IF kind = "verify" THEN user.secret ELSE proven
  /\ UNCHANGED <<user, login, codes, drawn, faults, opened, spent, shared>>

\* enableTotp draws a secret each time, enrollTotp keeps the one it has read.
WriteSecret(r) ==
  /\ At(r, "secret", {"enable", "enroll"})
  /\ IF request[r].kind = "enroll" /\ request[r].secret # None THEN UNCHANGED <<user, drawn>>
     ELSE /\ drawn < MaxSecrets   \* bound
          /\ drawn' = drawn + 1
          /\ user' = [user EXCEPT !.secret = drawn']
  /\ End(r)
  /\ UNCHANGED <<login, codes, faults, histVars>>

MarkVerified(r) ==
  /\ At(r, "verified", {"verify", "enrollVerify"})
  /\ user' = [user EXCEPT !.verified = TRUE]
  /\ Goto(r, "delete")
  /\ UNCHANGED <<login, codes, drawn, faults, histVars>>

Deleted == [g \in Codes |-> IF codes[g] = "none" THEN "none" ELSE "gone"]
\* Mutation: the codes before stay.
DeleteCodes_Keep(r) ==
  /\ At(r, "delete", {"verify", "enrollVerify", "regenerate"})
  /\ Goto(r, "create")
  /\ UNCHANGED <<user, login, codes, drawn, faults, histVars>>
\* RecoveryCodeService.regenerate deletes in one statement and creates in another.
DeleteCodes(r) ==
  /\ At(r, "delete", {"verify", "enrollVerify", "regenerate"})
  /\ codes' = Deleted
  /\ Goto(r, "create")
  /\ UNCHANGED <<user, login, drawn, faults, histVars>>
CreateCodes(r) ==
  /\ At(r, "create", {"verify", "enrollVerify", "regenerate"})
  /\ \E g \in Codes :   \* bound
       /\ codes[g] = "none" /\ \A h \in Codes : h < g => codes[h] # "none"
       /\ codes' = [codes EXCEPT ![g] = "fresh"]
  /\ IF request[r].kind = "enrollVerify" THEN Goto(r, "issue") ELSE End(r)
  /\ UNCHANGED <<user, login, drawn, faults, histVars>>

TurnOff(r) ==
  /\ At(r, "off", {"disable"})
  /\ user' = [user EXCEPT !.verified = FALSE, !.secret = None]
  /\ Goto(r, "clear")
  /\ UNCHANGED <<login, codes, drawn, faults, histVars>>
ClearCodes(r) ==
  /\ At(r, "clear", {"disable"})
  /\ codes' = Deleted
  /\ End(r)
  /\ UNCHANGED <<user, login, drawn, faults, histVars>>

Restart ==
  /\ faults < MaxFaults   \* bound
  /\ faults' = faults + 1
  /\ tangled' = (tangled \/ \E r \in Requests : ~Free(r) /\ request[r].kind \in Changing)
  /\ request' = [r \in Requests |-> Idle]
  /\ UNCHANGED <<user, login, codes, drawn, opened, spent, shared, proven>>

----------------------------------------------------------------------------
LoginStep(r) ==
  \/ SignIn(r) \/ LoginToken(r) \/ PasswordSession(r)
  \/ \E kind \in Redeeming, t \in Logins : Redeem(r, kind, t)
  \/ TotpCode(r) \/ RecoveryCode(r) \/ ConsumeLogin(r) \/ IssueSession(r)
FactorStep(r) ==
  \/ \E kind \in Changing : Change(r, kind)
  \/ WriteSecret(r) \/ MarkVerified(r) \/ DeleteCodes(r) \/ CreateCodes(r)
  \/ TurnOff(r) \/ ClearCodes(r)

Next ==
  \/ \E r \in Requests : LoginStep(r) \/ FactorStep(r)
  \/ \E t \in Logins : ExpireLogin(t)
  \/ Restart

Spec == Init /\ [][Next]_vars

----------------------------------------------------------------------------
(* Properties.                                                             *)

\* Each variable holds what its place in the code can hold.
TypeOK ==
  /\ user \in UserType
  /\ login \in [Logins -> {"none", "fresh", "used"}]
  /\ codes \in [Codes -> {"none", "fresh", "used", "gone"}]
  /\ request \in [Requests -> {Idle} \cup Running]
  /\ drawn \in 0..MaxSecrets /\ faults \in 0..MaxFaults
  /\ opened \in [Logins -> Nat] /\ spent \in [Codes -> Nat]
  /\ shared \subseteq Logins /\ proven \in Secrets \cup {None} /\ tangled \in BOOLEAN

\* A recovery code opens one session at most, whatever runs at once; a login token more than
\* one only if two requests have read it before either had used it (signInTotp, consume).
RedeemedOnce ==
  /\ \A g \in Codes : spent[g] <= 1
  /\ \A t \in Logins : opened[t] > 1 => t \in shared

\* An account whose second factor counts as verified has the secret that its user has shown
\* to know, unless two changes of the factor ran at once.
VerifiedIsProven == user.verified /\ ~tangled => user.secret = proven

Alive == {g \in Codes : codes[g] \in {"fresh", "used"}}
\* When no change of the factor is on its way, none has been cut off and no two have met, a
\* verified factor has exactly one generation of recovery codes, and no factor has none.
CodesMatchFactor ==
  ~tangled /\ (\A r \in Requests : ~Free(r) => request[r].kind \notin Changing)
  => /\ user.verified => Cardinality(Alive) = 1
     /\ user.secret = None => Alive = {}
=============================================================================
