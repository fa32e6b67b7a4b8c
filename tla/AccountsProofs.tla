--------------------------- MODULE AccountsProofs ---------------------------
(* Proofs about Accounts, for every number of users, requests and restarts.  *)
EXTENDS Accounts, FiniteSetTheorems, TLAPS

USE BodiesAssumption

----------------------------------------------------------------------------
(* The inductive invariant                                                  *)

SigningUp(r) == ~Free(r) /\ request[r].kind = "signUp"
\* A request whose last step creates the row of its user.
Creates(r) == ~Free(r) /\ request[r].kind \in {"signUp", "create"}
Changes(r) == ~Free(r) /\ request[r].kind \in Changing
OtherAdmin(u) == \E v \in Admins : v # u
OtherActive(u) == \E v \in ActiveAdmins : v # u

\* What the history says of a row.
LivesTold ==
  /\ \A u \in Users : life[u] = "used" => u \in Rows /\ users[u].active
  /\ \A u \in Rows : users[u].active => life[u] \in {"used", "late"}
  /\ \A u \in job : life[u] # "used"

\* A user who is drawn has no row, and is drawn once; the other requests are about rows
\* that there are or were.
DrawnOnce ==
  /\ \A q, r \in Requests :
       Creates(r) => /\ users[request[r].user] = New
                     /\ Creates(q) /\ request[q].user = request[r].user => q = r
  /\ \A r \in Requests : ~Free(r) /\ ~Creates(r) => users[request[r].user] # New

\* Two sign-ups at once are noted; one that takes itself for the first is when no founder has
\* a row.
MeetingsNoted ==
  /\ \A q, r \in Requests : SigningUp(q) /\ SigningUp(r) /\ q # r => met
  /\ \A u \in founders : users[u] # New
  /\ \A r \in Requests :
       SigningUp(r) /\ request[r].flag => met \/ \A u \in founders : users[u] = Gone

\* What a change or deletion that has counted can rely on unless it is shaken: beside its user
\* there is an administrator, and an active one where it deactivates.
Lowers(r) ==
  \/ At(r, "files")
  \/ request[r].body.role = "operador" /\ (At(r, "write") \/ At(r, "countDeactivate"))
Deactivates(r) == request[r].body.active = "off" /\ request[r].user \in ActiveAdmins
LetThrough(r) ==
  /\ Lowers(r) /\ request[r].user \in Admins => OtherAdmin(request[r].user)
  /\ At(r, "write") /\ Deactivates(r) => OtherActive(request[r].user)
  /\ At(r, "countDemote") /\ Deactivates(r) => request[r].flag = TRUE
AllLetThrough == \A r \in Requests \ shaken : LetThrough(r)

\* Each step belongs to its kind of request.
StepsMatch ==
  \A r \in Requests :
    /\ At(r, "hash") => Creates(r)
    /\ \A pc \in {"countDemote", "countDeactivate", "write", "countDelete", "files"} :
         At(r, pc) => Changes(r)

Inv ==
  /\ TypeOK /\ LivesTold /\ DrawnOnce /\ MeetingsNoted /\ AllLetThrough /\ StepsMatch
  /\ OneFounder

LEMMA InitInv == Init => Inv
<1> SUFFICES ASSUME Init PROVE Inv OBVIOUS
<1>1. PICK first \in SUBSET Users :
        /\ users = [u \in Users |-> IF u \in first THEN YamlRow ELSE New]
        /\ life = [u \in Users |-> IF u \in first THEN "used" ELSE "fresh"]
  BY DEF Init
<1>2. /\ YamlRow \in RowType /\ YamlRow.state = "row" /\ New.state = "new"
      /\ YamlRow.admin /\ YamlRow.active
  BY DEF YamlRow, Row, RowType, New
<1>3. Rows = first /\ Admins = first /\ ActiveAdmins = first
  BY <1>1, <1>2 DEF Rows, Admins, ActiveAdmins
<1>4. \A r \in Requests : Free(r) BY DEF Init, Free
<1>5. TypeOK
  <2>1. users \in [Users -> RowType \cup {New, Gone}] BY <1>1, <1>2
  <2>2. life \in [Users -> {"fresh", "used", "stopped", "late"}] BY <1>1
  <2>3. request \in [Requests -> Running \cup {Idle}] BY DEF Init
  <2>4. /\ job \subseteq Users /\ up \in BOOLEAN /\ founders \subseteq Users
        /\ met \in BOOLEAN /\ shaken \subseteq Requests
    BY <1>1 DEF Init
  <2> QED BY <2>1, <2>2, <2>3, <2>4 DEF TypeOK
<1>6. LivesTold BY <1>1, <1>2, <1>3 DEF LivesTold, Init
<1>7. DrawnOnce /\ MeetingsNoted /\ AllLetThrough /\ StepsMatch
  BY <1>4 DEF DrawnOnce, MeetingsNoted, AllLetThrough, LetThrough, Lowers, Deactivates, StepsMatch,
              Creates, SigningUp, Changes, At, Init
<1>8. OneFounder BY DEF OneFounder, Init
<1> QED BY <1>5, <1>6, <1>7, <1>8 DEF Inv

----------------------------------------------------------------------------
(* What steps have in common                                                *)

\* Every request goes on as it was, or has ended.
Shrinks ==
  /\ request' \in [Requests -> Running \cup {Idle}]
  /\ \A q \in Requests : request'[q] = request[q] \/ request'[q] = Idle

LEMMA Kinds ==
  /\ New # Gone /\ \A row \in RowType : row # New /\ row # Gone /\ row.state = "row"
  /\ New.state # "row" /\ Gone.state # "row"
  /\ \A q \in Running : q # Idle
<1>1. Idle.pc = "idle" /\ "idle" \notin Pcs BY DEF Idle, Pcs
<1>2. New.state = "new" /\ Gone.state = "gone" BY DEF New, Gone
<1>3. \A row \in RowType : row.state = "row" BY DEF RowType
<1>4. \A q \in Running : q.pc \in Pcs BY DEF Running
<1> QED BY <1>1, <1>2, <1>3, <1>4

LEMMA RowsTyped ==
  ASSUME TypeOK
  PROVE  /\ \A u \in Rows : u \in Users /\ users[u] \in RowType
         /\ \A u \in Users : users[u] \in RowType => u \in Rows
         /\ \A u \in Users : u \in Rows \/ users[u] = New \/ users[u] = Gone
<1>1. \A u \in Users : users[u] \in RowType \/ users[u] = New \/ users[u] = Gone
  BY DEF TypeOK
<1> QED BY <1>1, Kinds DEF Rows

LEMMA ShrinksOnly ==
  ASSUME Shrinks, NEW q \in Requests
  PROVE  /\ ~Free(q)' => ~Free(q) /\ request'[q] = request[q]
         /\ Creates(q)' => Creates(q) /\ request'[q] = request[q]
         /\ SigningUp(q)' => SigningUp(q) /\ request'[q] = request[q]
         /\ Changes(q)' => Changes(q) /\ request'[q] = request[q]
         /\ \A pc \in STRING : At(q, pc)' => At(q, pc) /\ request'[q] = request[q]
  BY DEF Shrinks, Free, Creates, SigningUp, Changes, At

LEMMA EndShrinks ==
  ASSUME TypeOK, NEW r \in Requests, End(r)
  PROVE  Shrinks /\ request'[r] = Idle /\ Free(r)'
  BY DEF TypeOK, End, Shrinks, Free

\* The requests that go on say of the steps, and of the drawn users, what they said.
LEMMA ShrinkKeeps ==
  ASSUME Inv, Shrinks
  PROVE  StepsMatch'
<1> SUFFICES ASSUME NEW r \in Requests
             PROVE  /\ At(r, "hash")' => Creates(r)'
                    /\ \A pc \in {"countDemote", "countDeactivate", "write", "countDelete", "files"} :
                         At(r, pc)' => Changes(r)'
  BY DEF StepsMatch
<1>1. CASE request'[r] = Idle BY <1>1 DEF At, Free
<1>2. CASE request'[r] = request[r]
  BY <1>2 DEF Inv, StepsMatch, At, Free, Creates, Changes
<1> QED BY <1>1, <1>2 DEF Shrinks

\* What a request relies on stays, unless it is shaken.
LEMMA Unshaken ==
  ASSUME Inv, NEW r \in Requests, r \notin shaken, request'[r] = request[r],
         NEW u, u = request[r].user,
         u \in Admins' => u \in Admins,
         u \in ActiveAdmins' => u \in ActiveAdmins,
         \A v \in Admins : v # u => v \in Admins',
         \A v \in ActiveAdmins : v # u => v \in ActiveAdmins'
  PROVE  LetThrough(r)'
<1>1. LetThrough(r) BY DEF Inv, AllLetThrough
<1>2. /\ At(r, "write")' <=> At(r, "write")
      /\ At(r, "files")' <=> At(r, "files")
      /\ At(r, "countDemote")' <=> At(r, "countDemote")
      /\ At(r, "countDeactivate")' <=> At(r, "countDeactivate")
  BY DEF At, Free
<1>3. OtherAdmin(request[r].user) => OtherAdmin(request[r].user)' BY DEF OtherAdmin
<1>4. OtherActive(request[r].user) => OtherActive(request[r].user)' BY DEF OtherActive
<1>5. Lowers(r)' => Lowers(r) BY <1>2 DEF Lowers
<1>6. Deactivates(r)' => Deactivates(r) BY DEF Deactivates
<1> QED BY <1>1, <1>2, <1>3, <1>4, <1>5, <1>6 DEF LetThrough

\* The account u becomes, or ceases to be, an administrator, and the requests that are not
\* shaken by it keep what they rely on.
LEMMA ShakeKeeps ==
  ASSUME Inv, Shrinks, NEW u, NEW admin \in BOOLEAN, NEW active \in BOOLEAN,
         Shake(u, admin, active),
         \A v : v # u => /\ (v \in Admins' <=> v \in Admins)
                        /\ (v \in ActiveAdmins' <=> v \in ActiveAdmins),
         u \in Admins' <=> admin,
         u \in ActiveAdmins' <=> admin /\ active
  PROVE  AllLetThrough' /\ shaken' \subseteq Requests
<1> DEFINE rises == admin /\ (u \notin Admins \/ (active /\ u \notin ActiveAdmins))
           falls == u \in Admins /\ (~admin \/ (u \in ActiveAdmins /\ ~active))
<1>1. shaken' = shaken \cup
        {q \in Requests : /\ ~Free(q) /\ request[q].kind \in Changing
                          /\ IF request[q].user = u THEN rises ELSE falls}
  BY DEF Shake
<1>2. shaken' \subseteq Requests BY <1>1 DEF Inv, TypeOK
<1>3. ASSUME NEW r \in Requests \ shaken' PROVE LetThrough(r)'
  <2>1. CASE request'[r] = Idle BY <2>1 DEF LetThrough, Lowers, Deactivates, At, Free
  <2>2. CASE request'[r] = request[r] /\ ~Changes(r)
    <3>1. /\ ~At(r, "write") /\ ~At(r, "countDeactivate") /\ ~At(r, "countDemote")
          /\ ~At(r, "files")
      BY <2>2 DEF Inv, StepsMatch
    <3> QED BY <2>2, <3>1 DEF LetThrough, Lowers, Deactivates, At, Free
  <2>3. CASE request'[r] = request[r] /\ Changes(r)
    <3>1. r \notin shaken /\ ~(IF request[r].user = u THEN rises ELSE falls)
      BY <1>1, <1>3, <2>3 DEF Changes
    <3>2. ActiveAdmins \subseteq Admins BY DEF ActiveAdmins
    <3>3. CASE request[r].user = u
      <4>1. ~rises BY <3>1, <3>3
      <4> QED BY <2>3, <3>1, <3>3, <4>1, Unshaken
    <3>4. CASE request[r].user # u
      <4>1. ~falls BY <3>1, <3>4
      <4>2. (u \in Admins => u \in Admins') /\ (u \in ActiveAdmins => u \in ActiveAdmins')
        BY <3>2, <4>1
      <4> HIDE DEF rises, falls
      <4> QED BY <2>3, <3>1, <3>4, <4>2, Unshaken
    <3> QED BY <3>3, <3>4
  <2> QED BY <2>1, <2>2, <2>3 DEF Shrinks
<1> QED BY <1>2, <1>3 DEF AllLetThrough

\* A row is written: a new one, or a changed one.
LEMMA PutInv ==
  ASSUME Inv, NEW u \in Users, NEW row \in RowType, NEW stops \in BOOLEAN,
         Put(u, row, stops), users[u] # Gone, Shrinks,
         UNCHANGED met, job' \subseteq job, up' \in BOOLEAN,
         \/ UNCHANGED founders
         \/ /\ founders' = founders \cup {u}
            /\ met \/ \A v \in founders : users[v] = Gone
            /\ met \/ \A q \in Requests : ~SigningUp(q)',
         users[u] = New => \A q \in Requests : Creates(q)' => request[q].user # u,
         u \in Rows => (users[u].active /\ ~row.active => stops)
  PROVE  Inv'
<1>1. users'[u] = row /\ \A v \in Users \ {u} : users'[v] = users[v]
  BY DEF Put, Inv, TypeOK
<1>2. /\ \A row2 \in RowType : row2 # New /\ row2 # Gone /\ row2.state = "row"
      /\ \A v \in Rows : users[v] # New /\ users[v] # Gone /\ users[v] \in RowType
      /\ \A v \in Users : v \in Rows \/ users[v] = New \/ users[v] = Gone
      /\ New # Gone
  BY Kinds, RowsTyped DEF Inv
<1>3. Rows' = Rows \cup {u} BY <1>1, <1>2 DEF Rows
<1>4. /\ \A v \in Users \ {u} : (v \in ActiveAdmins' <=> v \in ActiveAdmins)
                                /\ (v \in Admins' <=> v \in Admins)
      /\ u \in ActiveAdmins' <=> row.admin /\ row.active
      /\ u \in Admins' <=> row.admin
  BY <1>1, <1>3 DEF ActiveAdmins, Admins
<1>5. Rows \subseteq Users /\ ActiveAdmins \subseteq Users BY DEF Rows, ActiveAdmins, Admins
<1>6. /\ life' = [life EXCEPT ![u] = life'[u]] /\ \A v \in Users \ {u} : life'[v] = life[v]
      /\ life'[u] = IF row.active THEN IF u \in Rows /\ users[u].active THEN life[u]
                                       ELSE IF u \in job THEN "late" ELSE "used"
                    ELSE IF stops THEN "stopped" ELSE life[u]
  BY DEF Put, Inv, TypeOK
<1>kept. AllLetThrough' /\ shaken' \subseteq Requests
  <2>1. Shake(u, row.admin, row.active) BY DEF Put
  <2>2. row.admin \in BOOLEAN /\ row.active \in BOOLEAN BY DEF RowType
  <2>3. Admins \subseteq Users /\ ActiveAdmins \subseteq Users BY DEF Admins, ActiveAdmins, Rows
  <2>4. Admins' \subseteq Users /\ ActiveAdmins' \subseteq Users
    BY <1>3, <1>5 DEF Admins, ActiveAdmins
  <2>5. \A v : v # u => /\ (v \in Admins' <=> v \in Admins)
                       /\ (v \in ActiveAdmins' <=> v \in ActiveAdmins)
    BY <1>4, <2>3, <2>4
  <2> QED BY <1>4, <2>1, <2>2, <2>5, ShakeKeeps
<1>7. TypeOK'
  <2>1. users' \in [Users -> RowType \cup {New, Gone}] BY DEF Put, Inv, TypeOK
  <2>2. life' \in [Users -> {"fresh", "used", "stopped", "late"}]
    <3>1. life'[u] \in {"fresh", "used", "stopped", "late"} BY <1>6 DEF Inv, TypeOK
    <3> QED BY <1>6, <3>1 DEF Inv, TypeOK
  <2>3. shaken' \subseteq Requests BY <1>kept
  <2>4. founders' \subseteq Users BY DEF Inv, TypeOK
  <2>5. request' \in [Requests -> Running \cup {Idle}] BY DEF Shrinks
  <2>6. /\ job' \subseteq Users /\ up' \in BOOLEAN
        /\ met' \in BOOLEAN
    BY DEF Inv, TypeOK
  <2> QED BY <2>1, <2>2, <2>3, <2>4, <2>5, <2>6 DEF TypeOK
<1>8. LivesTold'
  <2>1. /\ life[u] = "used" => u \in Rows /\ users[u].active
        /\ u \in Rows /\ users[u].active => life[u] \in {"used", "late"}
        /\ u \in job => life[u] # "used"
    BY DEF Inv, LivesTold
  <2>2. /\ life'[u] = "used" => row.active
        /\ row.active => life'[u] \in {"used", "late"}
        /\ u \in job => life'[u] # "used"
    BY <1>6, <2>1
  <2>3. ASSUME NEW v \in Users \ {u}
        PROVE  /\ life'[v] = "used" => v \in Rows' /\ users'[v].active
               /\ v \in Rows' /\ users'[v].active => life'[v] \in {"used", "late"}
               /\ v \in job => life'[v] # "used"
    BY <1>1, <1>3, <1>6, <2>3 DEF Inv, LivesTold
  <2> QED BY <1>1, <1>3, <1>5, <2>2, <2>3 DEF LivesTold, Inv, TypeOK
<1>9. DrawnOnce'
  <2>1. ASSUME NEW r \in Requests, Creates(r)'
        PROVE  users'[request'[r].user] = New
    <3>1. Creates(r) /\ request'[r] = request[r] BY <2>1, ShrinksOnly
    <3>2. users[request[r].user] = New BY <3>1 DEF Inv, DrawnOnce
    <3>3. request[r].user \in Users BY <3>1 DEF Inv, TypeOK, Creates, Free, Running
    <3>4. request[r].user # u BY <1>2, <2>1, <3>2
    <3> QED BY <1>1, <3>1, <3>2, <3>3, <3>4
  <2>2. ASSUME NEW r \in Requests, NEW q \in Requests, Creates(r)', Creates(q)',
               request'[q].user = request'[r].user
        PROVE  q = r
    BY <2>2, ShrinksOnly DEF Inv, DrawnOnce
  <2>3. ASSUME NEW r \in Requests, ~Free(r)', ~Creates(r)'
        PROVE  users'[request'[r].user] # New
    <3>1. ~Free(r) /\ request'[r] = request[r] BY <2>3, ShrinksOnly
    <3>2. ~Creates(r) BY <2>3, <3>1 DEF Creates, Free
    <3>3. request[r].user \in Users BY <3>1 DEF Inv, TypeOK, Free, Running
    <3> QED BY <1>1, <1>2, <3>1, <3>2, <3>3 DEF Inv, DrawnOnce
  <2> QED BY <2>1, <2>2, <2>3 DEF DrawnOnce
<1>10. MeetingsNoted'
  <2>1. ASSUME NEW q \in Requests, NEW r \in Requests, q # r
        PROVE  SigningUp(q)' /\ SigningUp(r)' => met'
    BY <2>1, ShrinksOnly DEF Inv, MeetingsNoted
  <2>2. \A v \in founders' : users'[v] # New
    BY <1>1, <1>2 DEF Inv, MeetingsNoted, TypeOK
  <2>3. ASSUME NEW r \in Requests, SigningUp(r)', request'[r].flag
        PROVE  met' \/ \A v \in founders' : users'[v] = Gone
    <3>1. SigningUp(r) /\ request'[r] = request[r] BY <2>3, ShrinksOnly
    <3>2. met \/ \A v \in founders : users[v] = Gone BY <2>3, <3>1 DEF Inv, MeetingsNoted
    <3> QED BY <1>1, <2>3, <3>2 DEF Inv, TypeOK
  <2> QED BY <2>1, <2>2, <2>3 DEF MeetingsNoted
<1>13. OneFounder'
  <2> SUFFICES ASSUME NEW v \in founders', NEW w \in founders', v # w, ~met
               PROVE  \E x \in {v, w} : users'[x] = Gone
    BY DEF OneFounder
  <2>1. \A x \in Users : users[x] = Gone => users'[x] = Gone BY <1>1
  <2>2. founders \subseteq Users BY DEF Inv, TypeOK
  <2>3. CASE v \in founders /\ w \in founders
    BY <2>1, <2>2, <2>3 DEF Inv, OneFounder
  <2>4. CASE ~(v \in founders /\ w \in founders)
    <3>1. \A x \in founders : users[x] = Gone BY <2>4
    <3> QED BY <2>1, <2>2, <2>4, <3>1
  <2> QED BY <2>3, <2>4
<1> QED BY <1>7, <1>8, <1>9, <1>10, <1>13, <1>kept, ShrinkKeeps DEF Inv

\* A row is deleted.
LEMMA RemoveInv ==
  ASSUME Inv, NEW u \in Rows, Remove(u), Shrinks, UNCHANGED <<founders, met>>,
         job' \subseteq job, up' \in BOOLEAN
  PROVE  Inv'
<1>1. u \in Users /\ users'[u] = Gone /\ \A v \in Users \ {u} : users'[v] = users[v]
  BY DEF Remove, Inv, TypeOK, Rows
<1>2. /\ \A v \in Rows : users[v] # New /\ users[v] # Gone
      /\ New # Gone /\ Gone.state # "row"
  BY Kinds, RowsTyped DEF Inv
<1>3. Rows' = Rows \ {u} BY <1>1, <1>2 DEF Rows
<1>4. ActiveAdmins' = ActiveAdmins \ {u} /\ Admins' = Admins \ {u}
  <2>1. Rows \subseteq Users BY DEF Rows
  <2>2. Admins' = Admins \ {u} BY <1>1, <1>3, <2>1 DEF Admins
  <2> QED BY <1>1, <2>1, <2>2 DEF ActiveAdmins, Admins
<1>5. life'[u] = "fresh" /\ \A v \in Users \ {u} : life'[v] = life[v]
  BY <1>1 DEF Remove, Inv, TypeOK
<1>kept. AllLetThrough' /\ shaken' \subseteq Requests
  <2>1. Shake(u, FALSE, FALSE) BY DEF Remove
  <2> QED BY <1>4, <2>1, ShakeKeeps
<1>6. TypeOK'
  <2>1. users' \in [Users -> RowType \cup {New, Gone}] BY DEF Remove, Inv, TypeOK
  <2>2. life' \in [Users -> {"fresh", "used", "stopped", "late"}] BY DEF Remove, Inv, TypeOK
  <2>3. shaken' \subseteq Requests /\ met' \in BOOLEAN BY <1>kept DEF Inv, TypeOK
  <2>4. founders' \subseteq Users /\ job' \subseteq Users BY DEF Inv, TypeOK
  <2>5. request' \in [Requests -> Running \cup {Idle}] BY DEF Shrinks
  <2> QED BY <2>1, <2>2, <2>3, <2>4, <2>5 DEF TypeOK
<1>7. LivesTold'
  <2>1. ASSUME NEW v \in Users
        PROVE  /\ life'[v] = "used" => v \in Rows' /\ users'[v].active
               /\ v \in Rows' /\ users'[v].active => life'[v] \in {"used", "late"}
               /\ v \in job' => life'[v] # "used"
    BY <1>1, <1>3, <1>5 DEF Inv, LivesTold
  <2>2. Rows' \subseteq Users /\ job' \subseteq Users BY <1>3 DEF Rows, Inv, TypeOK
  <2> QED BY <2>1, <2>2 DEF LivesTold
<1>8. DrawnOnce'
  <2>1. ASSUME NEW r \in Requests, Creates(r)'
        PROVE  users'[request'[r].user] = New
    <3>1. Creates(r) /\ request'[r] = request[r] BY <2>1, ShrinksOnly
    <3>2. users[request[r].user] = New BY <3>1 DEF Inv, DrawnOnce
    <3>3. request[r].user \in Users BY <3>1 DEF Inv, TypeOK, Creates, Free, Running
    <3>4. request[r].user # u BY <1>2, <3>2
    <3> QED BY <1>1, <3>1, <3>2, <3>3, <3>4
  <2>2. ASSUME NEW r \in Requests, NEW q \in Requests, Creates(r)', Creates(q)',
               request'[q].user = request'[r].user
        PROVE  q = r
    BY <2>2, ShrinksOnly DEF Inv, DrawnOnce
  <2>3. ASSUME NEW r \in Requests, ~Free(r)', ~Creates(r)'
        PROVE  users'[request'[r].user] # New
    <3>1. ~Free(r) /\ request'[r] = request[r] BY <2>3, ShrinksOnly
    <3>2. ~Creates(r) BY <2>3, <3>1 DEF Creates, Free
    <3>3. request[r].user \in Users BY <3>1 DEF Inv, TypeOK, Free, Running
    <3> QED BY <1>1, <1>2, <3>1, <3>2, <3>3 DEF Inv, DrawnOnce
  <2> QED BY <2>1, <2>2, <2>3 DEF DrawnOnce
<1>9. \A x \in Users : (users[x] = Gone => users'[x] = Gone) /\ (users[x] # New => users'[x] # New)
  BY <1>1, <1>2
<1>10. MeetingsNoted'
  <2>1. ASSUME NEW q \in Requests, NEW r \in Requests, q # r
        PROVE  SigningUp(q)' /\ SigningUp(r)' => met'
    BY <2>1, ShrinksOnly DEF Inv, MeetingsNoted
  <2>2. \A v \in founders' : users'[v] # New BY <1>9 DEF Inv, MeetingsNoted, TypeOK
  <2>3. ASSUME NEW r \in Requests, SigningUp(r)', request'[r].flag
        PROVE  met' \/ \A v \in founders' : users'[v] = Gone
    BY <1>9, <2>3, ShrinksOnly DEF Inv, MeetingsNoted, TypeOK
  <2> QED BY <2>1, <2>2, <2>3 DEF MeetingsNoted
<1>13. OneFounder' BY <1>9 DEF Inv, OneFounder, TypeOK
<1> QED BY <1>6, <1>7, <1>8, <1>10, <1>13, <1>kept, ShrinkKeeps DEF Inv

\* Requests end, and the job has fewer accounts to delete.
LEMMA SameInv ==
  ASSUME Inv, Same, Shrinks, UNCHANGED <<founders, met>>,
         job' \subseteq job, up' \in BOOLEAN
  PROVE  Inv'
<1>1. Rows' = Rows /\ Admins' = Admins /\ ActiveAdmins' = ActiveAdmins
  BY DEF Same, Rows, Admins, ActiveAdmins
<1>2. TypeOK'
  <2>1. users' \in [Users -> RowType \cup {New, Gone}] BY DEF Same, Inv, TypeOK
  <2>2. met' \in BOOLEAN /\ shaken' \subseteq Requests BY DEF Same, Inv, TypeOK
  <2>3. /\ life' \in [Users -> {"fresh", "used", "stopped", "late"}]
        /\ founders' \subseteq Users /\ job' \subseteq Users
    BY DEF Same, Inv, TypeOK
  <2>4. request' \in [Requests -> Running \cup {Idle}] BY DEF Shrinks
  <2> QED BY <2>1, <2>2, <2>3, <2>4 DEF TypeOK
<1>3. LivesTold' BY <1>1 DEF Same, Inv, LivesTold
<1>4. DrawnOnce'
  <2>1. ASSUME NEW r \in Requests, ~Free(r)', ~Creates(r)'
        PROVE  users'[request'[r].user] # New
    <3>1. ~Free(r) /\ request'[r] = request[r] BY <2>1, ShrinksOnly
    <3>2. ~Creates(r) BY <2>1, <3>1 DEF Creates, Free
    <3> QED BY <3>1, <3>2 DEF Same, Inv, DrawnOnce
  <2> QED BY <2>1, ShrinksOnly DEF Same, Inv, DrawnOnce
<1>5. MeetingsNoted' BY ShrinksOnly DEF Same, Inv, MeetingsNoted
<1>6. AllLetThrough'
  <2> SUFFICES ASSUME NEW r \in Requests \ shaken PROVE LetThrough(r)' BY DEF AllLetThrough, Same
  <2>1. CASE request'[r] = Idle BY <2>1 DEF LetThrough, Lowers, Deactivates, At, Free
  <2>2. CASE request'[r] = request[r] BY <1>1, <2>2, Unshaken
  <2> QED BY <2>1, <2>2 DEF Shrinks
<1>7. OneFounder' BY DEF Same, Inv, OneFounder
<1> QED BY <1>2, <1>3, <1>4, <1>5, <1>6, <1>7, ShrinkKeeps DEF Inv

\* A request starts: for a user who has just been drawn, or about a row.
LEMMA StartInv ==
  ASSUME Inv, NEW r \in Requests, NEW pc \in Pcs, NEW u \in Users, NEW body \in BodyType,
         NEW kind \in {"signUp", "create", "update", "delete", "verify", "resend"},
         NEW flag \in BOOLEAN, Start(r, kind, pc, u, body, flag),
         IF kind \in {"signUp", "create"} THEN pc = "hash" /\ u \in Drawn
         ELSE pc # "hash" /\ u \in Rows,
         kind = "signUp" /\ flag => Rows = {},
         pc \in {"countDemote", "countDeactivate", "write", "countDelete", "files"}
           => kind \in Changing,
         pc \in {"write", "countDeactivate"} => ~(body.role = "operador" /\ u \in Admins),
         pc = "write" => ~(body.active = "off" /\ u \in ActiveAdmins),
         pc = "countDemote" => (body.active = "off" /\ u \in ActiveAdmins => flag),
         pc = "files" => u \notin Admins
  PROVE  Inv'
<1> DEFINE q0 == [pc |-> pc, kind |-> kind, user |-> u, body |-> body, flag |-> flag]
<1>1. /\ q0 \in Running /\ q0 # Idle
      /\ q0.pc = pc /\ q0.kind = kind /\ q0.user = u /\ q0.body = body /\ q0.flag = flag
  BY Kinds DEF Running
<1> HIDE DEF q0
<1>2. request'[r] = q0 /\ \A q \in Requests \ {r} : request'[q] = request[q]
  BY DEF Start, Inv, TypeOK, q0
<1>3. Free(r) /\ ~Free(r)' BY <1>1, <1>2 DEF Start, Free
<1>4. Rows' = Rows /\ Admins' = Admins /\ ActiveAdmins' = ActiveAdmins
  BY DEF Start, Rows, Admins, ActiveAdmins
<1>5. TypeOK'
  <2>1. request' \in [Requests -> Running \cup {Idle}] BY <1>1 DEF Start, Inv, TypeOK, q0
  <2>2. met' \in BOOLEAN BY DEF Start, Inv, TypeOK
  <2>3. shaken' \subseteq Requests BY DEF Start, Inv, TypeOK
  <2>4. /\ users' \in [Users -> RowType \cup {New, Gone}] /\ job' \subseteq Users
        /\ founders' \subseteq Users
        /\ life' \in [Users -> {"fresh", "used", "stopped", "late"}]
    BY DEF Start, Inv, TypeOK
  <2>5. up' \in BOOLEAN BY DEF Start, Inv, TypeOK
  <2> QED BY <2>1, <2>2, <2>3, <2>4, <2>5 DEF TypeOK
<1>6. LivesTold' BY <1>4 DEF Start, Inv, LivesTold
<1>7. \A q \in Requests \ {r} :
        /\ Creates(q)' = Creates(q) /\ SigningUp(q)' = SigningUp(q)
        /\ Changes(q)' = Changes(q) /\ Free(q)' = Free(q)
  BY <1>2 DEF Creates, SigningUp, Changes, Free
<1>8. /\ Creates(r)' => kind \in {"signUp", "create"}
      /\ SigningUp(r)' => kind = "signUp" /\ Creates(r)'
      /\ Changes(r)' <=> kind \in Changing
      /\ kind \in {"signUp", "create"} => Creates(r)'
  BY <1>1, <1>2, <1>3 DEF Creates, SigningUp, Changes
<1>9. DrawnOnce'
  <2>1. u \in Drawn => users[u] = New /\ \A q \in Requests \ {r} : Creates(q) => request[q].user # u
    BY DEF Drawn, Creates
  <2>2. u \in Rows => users[u] # New BY RowsTyped, Kinds DEF Inv
  <2>3. users' = users BY DEF Start
  <2>4. ASSUME NEW q \in Requests, Creates(q)' PROVE users'[request'[q].user] = New
    BY <1>1, <1>2, <1>7, <1>8, <2>1, <2>3, <2>4 DEF Inv, DrawnOnce
  <2>5. ASSUME NEW p \in Requests, NEW q \in Requests, Creates(p)', Creates(q)',
               request'[q].user = request'[p].user
        PROVE  q = p
    BY <1>1, <1>2, <1>7, <1>8, <2>1, <2>5 DEF Inv, DrawnOnce
  <2>6. ASSUME NEW q \in Requests, ~Free(q)', ~Creates(q)'
        PROVE  users'[request'[q].user] # New
    BY <1>1, <1>2, <1>7, <1>8, <2>2, <2>3, <2>6 DEF Inv, DrawnOnce
  <2> QED BY <2>4, <2>5, <2>6 DEF DrawnOnce
<1>10. MeetingsNoted'
  <2>1. met => met' BY DEF Start
  <2>3. kind = "signUp" /\ (\E q \in Requests \ {r} : SigningUp(q)) => met'
    BY DEF Start, Beside, SigningUp
  <2>5. ASSUME NEW p \in Requests, NEW q \in Requests, p # q
        PROVE  SigningUp(p)' /\ SigningUp(q)' => met'
    BY <1>7, <1>8, <2>1, <2>3, <2>5 DEF Inv, MeetingsNoted
  <2>6. users' = users /\ founders' = founders BY DEF Start
  <2>7. \A v \in founders : users[v] # New BY DEF Inv, MeetingsNoted
  <2>8. ASSUME NEW q \in Requests, SigningUp(q)', request'[q].flag
        PROVE  met' \/ \A v \in founders' : users'[v] = Gone
    <3>1. CASE q = r
      <4>1. Rows = {} BY <1>1, <1>2, <1>8, <2>8, <3>1
      <4> QED BY <2>6, <2>7, <4>1, RowsTyped DEF Inv, TypeOK
    <3>2. CASE q # r
      BY <1>2, <1>7, <2>1, <2>6, <2>8, <3>2 DEF Inv, MeetingsNoted
    <3> QED BY <3>1, <3>2
  <2> QED BY <2>5, <2>6, <2>7, <2>8 DEF MeetingsNoted
<1>11. AllLetThrough'
  <2> SUFFICES ASSUME NEW q \in Requests \ shaken' PROVE LetThrough(q)' BY DEF AllLetThrough
  <2>1. CASE q = r
    <3>1. /\ request'[q].user = u /\ request'[q].body = body /\ request'[q].flag = flag
          /\ At(q, "write")' => pc = "write"
          /\ At(q, "files")' => pc = "files"
          /\ At(q, "countDemote")' => pc = "countDemote"
          /\ At(q, "countDeactivate")' => pc = "countDeactivate"
      BY <1>1, <1>2, <2>1 DEF At
    <3>2. LetThrough(r)' BY <1>4, <2>1, <3>1 DEF LetThrough, Lowers, Deactivates
    <3> QED BY <2>1, <3>2
  <2>2. CASE q # r
    <3>1. q \notin shaken BY <2>2 DEF Start
    <3> QED BY <1>2, <1>4, <2>2, <3>1, Unshaken
  <2> QED BY <2>1, <2>2
<1>12. StepsMatch'
  <2>1. At(r, "hash")' => Creates(r)' BY <1>1, <1>2, <1>8 DEF At
  <2>2. \A x \in {"countDemote", "countDeactivate", "write", "countDelete", "files"} :
          At(r, x)' => Changes(r)'
    BY <1>1, <1>2, <1>8 DEF At
  <2> QED BY <1>2, <1>7, <2>1, <2>2 DEF StepsMatch, Inv, At, Free
<1>14. OneFounder'
  <2>1. met => met' BY DEF Start
  <2>2. users' = users /\ founders' = founders BY DEF Start
  <2> QED BY <2>1, <2>2 DEF Inv, OneFounder
<1> QED BY <1>5, <1>6, <1>9, <1>10, <1>11, <1>12, <1>14 DEF Inv

\* A count other than one, of those among whom the user is: there is another.
LEMMA CountedAnother ==
  ASSUME NEW S, NEW u \in S, Cardinality(S) # 1
  PROVE  \E v \in S : v # u
<1> SUFFICES ASSUME S = {u} PROVE FALSE OBVIOUS
<1> QED BY FS_Singleton

\* A count lets a request go on.
LEMMA GoOnInv ==
  ASSUME Inv, NEW r \in Requests, NEW pc \in {"countDeactivate", "write", "files"},
         Changes(r), Goto(r, pc), UNCHANGED <<users, job, up, histVars>>,
         r \notin shaken => LetThrough(r)'
  PROVE  Inv'
<1>1. /\ request'[r] = [request[r] EXCEPT !.pc = pc]
      /\ \A q \in Requests \ {r} : request'[q] = request[q]
  BY DEF Goto, Inv, TypeOK
<1>2. request[r] \in Running /\ request'[r] \in Running
  <2>1. request[r] \in Running BY DEF Changes, Free, Inv, TypeOK
  <2> QED BY <1>1, <2>1 DEF Running, Pcs
<1>3. /\ request'[r].kind = request[r].kind /\ request'[r].user = request[r].user
      /\ request'[r].flag = request[r].flag /\ request'[r].pc = pc /\ request'[r] # Idle
  BY <1>1, <1>2, Kinds DEF Running
<1>4. Rows' = Rows /\ Admins' = Admins /\ ActiveAdmins' = ActiveAdmins
  BY DEF Rows, Admins, ActiveAdmins
<1>5. \A q \in Requests :
        /\ Creates(q)' = Creates(q) /\ SigningUp(q)' = SigningUp(q)
        /\ Changes(q)' = Changes(q) /\ Free(q)' = Free(q)
        /\ ~Free(q) => request'[q].user = request[q].user /\ request'[q].flag = request[q].flag
  BY <1>1, <1>3 DEF Creates, SigningUp, Changes, Free
<1>8. TypeOK'
  <2>1. request' \in [Requests -> Running \cup {Idle}] BY <1>2, <1>1 DEF Goto, Inv, TypeOK
  <2>2. /\ users' \in [Users -> RowType \cup {New, Gone}] /\ job' \subseteq Users
        /\ founders' \subseteq Users
        /\ life' \in [Users -> {"fresh", "used", "stopped", "late"}]
    BY DEF Inv, TypeOK, histVars
  <2>3. up' \in BOOLEAN /\ met' \in BOOLEAN /\ shaken' \subseteq Requests
    BY DEF Inv, TypeOK, histVars
  <2> QED BY <2>1, <2>2, <2>3 DEF TypeOK
<1>9. LivesTold' BY <1>4 DEF Inv, LivesTold, histVars
<1>10. DrawnOnce'
  <2>1. \A q \in Requests : Creates(q) => ~Free(q) BY DEF Creates
  <2> QED BY <1>5, <2>1 DEF Inv, DrawnOnce
<1>11. MeetingsNoted'
  <2>1. \A q \in Requests : SigningUp(q) => ~Free(q) BY DEF SigningUp
  <2> QED BY <1>5, <2>1 DEF Inv, MeetingsNoted, histVars
<1>12. AllLetThrough'
  <2> SUFFICES ASSUME NEW q \in Requests \ shaken PROVE LetThrough(q)'
    BY DEF AllLetThrough, histVars
  <2>1. CASE q = r BY <2>1
  <2>2. CASE q # r BY <1>1, <1>4, <2>2, Unshaken
  <2> QED BY <2>1, <2>2
<1>13. StepsMatch'
  <2>1. ~At(r, "hash")' /\ Changes(r)' BY <1>3, <1>5 DEF At
  <2>2. \A q \in Requests \ {r}, x \in {"hash", "countDemote", "countDeactivate", "write",
                                        "countDelete", "files"} : At(q, x)' = At(q, x)
    BY <1>1 DEF At, Free
  <2> QED BY <1>5, <2>1, <2>2 DEF StepsMatch, Inv
<1>15. OneFounder' BY DEF Inv, OneFounder, histVars
<1> QED BY <1>8, <1>9, <1>10, <1>11, <1>12, <1>13, <1>15 DEF Inv

----------------------------------------------------------------------------
(* The steps                                                                *)

LEMMA SignUpStep == ASSUME Inv, NEW r \in Requests, SignUp(r) PROVE Inv'
<1>1. PICK u \in Drawn : Start(r, "signUp", "hash", u, NoBody, IsFirst) BY DEF SignUp
<1>2. /\ u \in Users /\ NoBody \in BodyType /\ "hash" \in Pcs /\ IsFirst \in BOOLEAN
      /\ IsFirst => Rows = {}
  BY DEF Drawn, NoBody, BodyType, Pcs, IsFirst
<1>3. IF "signUp" \in {"signUp", "create"} THEN "hash" = "hash" /\ u \in Drawn
      ELSE "hash" # "hash" /\ u \in Rows
  OBVIOUS
<1> QED BY <1>1, <1>2, <1>3, StartInv

LEMMA CreateStep == ASSUME Inv, NEW r \in Requests, CreateUser(r) PROVE Inv'
<1>1. PICK u \in Drawn, role \in {"admin", "operador"}, active \in {"on", "off"} :
        Start(r, "create", "hash", u, [role |-> role, active |-> active], FALSE)
  BY DEF CreateUser
<1>2. u \in Users /\ [role |-> role, active |-> active] \in BodyType /\ "hash" \in Pcs
  BY DEF Drawn, BodyType, Pcs
<1> QED BY <1>1, <1>2, StartInv

LEMMA RegisterStep == ASSUME Inv, NEW r \in Requests, Register(r) \/ Insert(r) PROVE Inv'
<1> DEFINE u == request[r].user
<1>1. Creates(r) /\ ~Free(r) /\ End(r) BY DEF Register, Insert, At, Creates
<1>2. request[r] \in Running BY <1>1 DEF Free, Inv, TypeOK
<1>3. u \in Users /\ users[u] = New /\ request[r].flag \in BOOLEAN
  BY <1>1, <1>2 DEF Running, Inv, DrawnOnce
<1>4. u \notin Rows /\ users[u] # Gone BY <1>3, Kinds DEF Rows
<1>5. Shrinks /\ request'[r] = Idle BY <1>1, EndShrinks DEF Inv
<1>6. \A q \in Requests : ~Free(q)' => q # r /\ request'[q] = request[q] /\ ~Free(q)
  BY <1>5 DEF Shrinks, Free
<1>7. \A q \in Requests : Creates(q)' => request[q].user # u
  BY <1>1, <1>6, ShrinksOnly, <1>5 DEF Inv, DrawnOnce, Creates
<1>8. CASE Register(r)
  <2>1. PICK mail \in BOOLEAN :
          LET first == request[r].flag
              needs == ~first /\ mail
          IN /\ Put(u, Row(first, ~needs, needs, FALSE), FALSE)
             /\ founders' = IF first THEN founders \cup {u} ELSE founders
    BY <1>8 DEF Register
  <2> DEFINE first == request[r].flag
             needs == ~first /\ mail
             row == Row(first, ~needs, needs, FALSE)
  <2>2. row \in RowType
    <3>1. first \in BOOLEAN BY <1>3
    <3>2. needs \in BOOLEAN OBVIOUS
    <3> HIDE DEF needs
    <3>3. (~needs) \in BOOLEAN OBVIOUS
    <3> HIDE DEF first
    <3> QED BY <3>1, <3>2, <3>3 DEF Row, RowType
  <2>3. Put(u, row, FALSE) BY <2>1
  <2>4. \/ UNCHANGED founders
        \/ /\ founders' = founders \cup {u}
           /\ met \/ \A v \in founders : users[v] = Gone
           /\ met \/ \A q \in Requests : ~SigningUp(q)'
    <3>1. SigningUp(r) BY <1>8 DEF Register, At, SigningUp
    <3>2. first => met \/ \A v \in founders : users[v] = Gone
      BY <3>1 DEF Inv, MeetingsNoted
    <3>3. met \/ \A q \in Requests : ~SigningUp(q)'
      BY <1>6, <3>1 DEF Inv, MeetingsNoted, SigningUp, Free
    <3> QED BY <2>1, <3>2, <3>3
  <2>5. UNCHANGED met /\ job' \subseteq job /\ up' \in BOOLEAN
    BY <1>8 DEF Register, Inv, TypeOK
  <2> HIDE DEF u, row
  <2> QED BY <1>3, <1>4, <1>5, <1>7, <2>2, <2>3, <2>4, <2>5, PutInv
<1>9. CASE Insert(r)
  <2> DEFINE row == Row(request[r].body.role = "admin", request[r].body.active = "on", FALSE, FALSE)
  <2>1. row \in RowType BY DEF Row, RowType
  <2>2. Put(u, row, FALSE) BY <1>9 DEF Insert
  <2>3. /\ UNCHANGED <<founders, met>> /\ job' \subseteq job
        /\ up' \in BOOLEAN
    BY <1>9 DEF Insert, Inv, TypeOK
  <2> HIDE DEF u, row
  <2> QED BY <1>3, <1>4, <1>5, <1>7, <2>1, <2>2, <2>3, PutInv
<1> QED BY <1>8, <1>9

LEMMA UpdateReadStep ==
  ASSUME Inv, NEW r \in Requests, NEW u \in Users, NEW body \in Bodies, UpdateRead(r, u, body)
  PROVE  Inv'
<1> DEFINE demotes == body.role = "operador" /\ users[u].admin
           deactivates == body.active = "off" /\ users[u].active /\ users[u].admin
           pc == CASE demotes -> "countDemote"
                   [] ~demotes /\ deactivates -> "countDeactivate"
                   [] OTHER -> "write"
           flag == demotes /\ deactivates
<1>1. u \in Rows /\ ActiveAdmins # {} /\ Start(r, "update", pc, u, body, flag)
  BY DEF UpdateRead, Authorized
<1>2. body \in BodyType OBVIOUS
<1>3. pc \in {"countDemote", "countDeactivate", "write"} OBVIOUS
<1>4. pc = "write" => ~demotes /\ ~deactivates OBVIOUS
<1>5. flag \in BOOLEAN
  <2>1. users[u] \in RowType BY <1>1, RowsTyped DEF Inv
  <2>2. users[u].admin \in BOOLEAN /\ users[u].active \in BOOLEAN BY <2>1 DEF RowType
  <2> QED BY <2>2
<1>6. /\ pc \in {"write", "countDeactivate"} => ~(body.role = "operador" /\ u \in Admins)
      /\ pc = "write" => ~(body.active = "off" /\ u \in ActiveAdmins)
      /\ pc = "countDemote" => (body.active = "off" /\ u \in ActiveAdmins => flag)
  <2>1. /\ u \in Admins => users[u].admin
        /\ u \in ActiveAdmins => users[u].admin /\ users[u].active
    BY DEF ActiveAdmins, Admins
  <2>2. pc \in {"write", "countDeactivate"} => ~demotes OBVIOUS
  <2>3. pc = "countDemote" => demotes OBVIOUS
  <2> HIDE DEF pc
  <2> QED BY <1>4, <2>1, <2>2, <2>3
<1> HIDE DEF pc, flag
<1>7. pc \in Pcs /\ pc # "hash" /\ pc # "files" BY <1>3 DEF Pcs
<1>8. "update" \in Changing /\ "update" \notin {"signUp", "create"} BY DEF Changing
<1> QED BY <1>1, <1>2, <1>5, <1>6, <1>7, <1>8, StartInv

LEMMA AboutRowStep ==
  ASSUME Inv, NEW r \in Requests, NEW u \in Users,
         DeleteRead(r, u) \/ VerifyRead(r, u) \/ ResendRead(r, u)
  PROVE  Inv'
<1>1. u \in Rows /\ NoBody \in BodyType
  BY DEF DeleteRead, VerifyRead, ResendRead, NoBody, BodyType
<1>2. "delete" \in Changing /\ {"countDelete", "files", "verify", "resend"} \subseteq Pcs
  BY DEF Changing, Pcs
<1>3. CASE DeleteRead(r, u)
  <2> DEFINE pc == IF users[u].admin THEN "countDelete" ELSE "files"
  <2>1. Start(r, "delete", pc, u, NoBody, FALSE) BY <1>3 DEF DeleteRead
  <2>2. pc \in {"countDelete", "files"} /\ (pc = "files" => u \notin Admins) BY DEF Admins
  <2> HIDE DEF pc
  <2> QED BY <1>1, <1>2, <2>1, <2>2, StartInv
<1>4. CASE VerifyRead(r, u)
  <2>1. Start(r, "verify", "verify", u, NoBody, FALSE) BY <1>4 DEF VerifyRead
  <2> QED BY <1>1, <1>2, <2>1, StartInv
<1>5. CASE ResendRead(r, u)
  <2>1. Start(r, "resend", "resend", u, NoBody, FALSE) BY <1>5 DEF ResendRead
  <2> QED BY <1>1, <1>2, <2>1, StartInv
<1> QED BY <1>3, <1>4, <1>5

LEMMA CountStep ==
  ASSUME Inv, NEW r \in Requests, CountDemote(r) \/ CountDeactivate(r) \/ CountDelete(r)
  PROVE  Inv'
<1>1. UNCHANGED <<users, job, up, histVars>>
  BY DEF CountDemote, CountDeactivate, CountDelete
<1>2. PICK pc \in {"countDeactivate", "write", "files"} :
        /\ Pass(r, pc)
        /\ \/ At(r, "countDemote") /\ pc = IF request[r].flag THEN "countDeactivate" ELSE "write"
           \/ At(r, "countDeactivate") /\ pc = "write"
           \/ At(r, "countDelete") /\ pc = "files"
  BY DEF CountDemote, CountDeactivate, CountDelete
<1>3. Changes(r)
  BY DEF CountDemote, CountDeactivate, CountDelete, Inv, StepsMatch
<1>4. CASE End(r)
  <2>1. Shrinks BY <1>4, EndShrinks DEF Inv
  <2>2. up' \in BOOLEAN BY <1>1 DEF Inv, TypeOK
  <2>3. Same /\ UNCHANGED <<founders, met>> BY <1>1 DEF Same, histVars
  <2> QED BY <1>1, <2>1, <2>2, <2>3, SameInv
<1>5. CASE Goto(r, pc) /\ Cardinality(Counted(r)) # 1
  <2> DEFINE u == request[r].user
             body == request[r].body
  <2>1. request[r] \in Running /\ request'[r] = [request[r] EXCEPT !.pc = pc]
    BY <1>3, <1>5 DEF Changes, Free, Goto, Inv, TypeOK
  <2>2. /\ request'[r].user = u /\ request'[r].body = body /\ request'[r].flag = request[r].flag
        /\ At(r, "write")' => pc = "write"
        /\ At(r, "files")' => pc = "files"
        /\ At(r, "countDemote")' => pc = "countDemote"
        /\ At(r, "countDeactivate")' => pc = "countDeactivate"
    BY <2>1 DEF Running, At
  <2>3. Admins' = Admins /\ ActiveAdmins' = ActiveAdmins BY <1>1 DEF Admins, ActiveAdmins, Rows
  <2>4. At(r, "countDemote") \/ At(r, "countDelete") => (u \in Admins => OtherAdmin(u))
    <3>1. ASSUME At(r, "countDemote") \/ At(r, "countDelete") PROVE Counted(r) = Admins
      BY <3>1 DEF At, Counted
    <3> HIDE DEF u
    <3> QED BY <1>5, <3>1, CountedAnother DEF OtherAdmin
  <2>5. At(r, "countDeactivate") => (u \in ActiveAdmins => OtherActive(u))
    <3>1. ASSUME At(r, "countDeactivate") PROVE Counted(r) = ActiveAdmins
      BY <3>1 DEF At, Counted
    <3> HIDE DEF u
    <3> QED BY <1>5, <3>1, CountedAnother DEF OtherActive
  <2>6. /\ OtherAdmin(u) => OtherAdmin(request[r].user)'
        /\ OtherActive(u) => OtherActive(request[r].user)'
    BY <2>2, <2>3 DEF OtherAdmin, OtherActive
  <2>7. ASSUME r \notin shaken PROVE LetThrough(r)'
    <3>1. LetThrough(r) BY <2>7 DEF Inv, AllLetThrough
    <3> QED BY <1>2, <2>2, <2>3, <2>4, <2>5, <2>6, <3>1 DEF LetThrough, Lowers, Deactivates
  <2> QED BY <1>1, <1>3, <1>5, <2>7, GoOnInv
<1> QED BY <1>2, <1>4, <1>5 DEF Pass

LEMMA UpdateWriteStep == ASSUME Inv, NEW r \in Requests, UpdateWrite(r) PROVE Inv'
<1> DEFINE u == request[r].user
           body == request[r].body
           row == [users[u] EXCEPT
                     !.admin = IF body.role = "keep" THEN @ ELSE body.role = "admin",
                     !.active = IF body.active = "keep" THEN @ ELSE body.active = "on"]
           stops == body.active = "off"
<1>1. /\ At(r, "write") /\ End(r) /\ UNCHANGED <<job, up, founders, met>>
      /\ IF u \notin Rows THEN Same ELSE Put(u, row, stops)
  BY DEF UpdateWrite
<1>2. Changes(r) /\ ~Free(r) BY <1>1 DEF Inv, StepsMatch, Changes
<1>3. Shrinks BY <1>1, EndShrinks DEF Inv
<1>4. up' \in BOOLEAN BY <1>1 DEF Inv, TypeOK
<1>5. CASE u \notin Rows
  <2>1. Same BY <1>1, <1>5
  <2>2. UNCHANGED <<founders, met>> /\ job' \subseteq job BY <1>1
  <2> HIDE DEF u, body, row, stops
  <2> QED BY <1>3, <1>4, <2>1, <2>2, SameInv
<1>6. CASE u \in Rows
  <2>1. request[r] \in Running BY <1>2 DEF Free, Inv, TypeOK
  <2>2. body \in BodyType BY <2>1 DEF Running
  <2>3. u \in Users /\ users[u] \in RowType /\ users[u] # Gone /\ users[u] # New
    BY <1>6, RowsTyped, Kinds DEF Inv
  <2>4. /\ row \in RowType
        /\ row.admin = IF body.role = "keep" THEN users[u].admin ELSE body.role = "admin"
        /\ row.active = IF body.active = "keep" THEN users[u].active ELSE body.active = "on"
    BY <2>3 DEF RowType
  <2>5. Put(u, row, stops) /\ stops \in BOOLEAN BY <1>1, <1>6
  <2>6. users[u].active /\ ~row.active => stops BY <2>2, <2>4 DEF BodyType
  <2>9. UNCHANGED <<founders, met>> /\ job' \subseteq job BY <1>1
  <2> HIDE DEF u, body, row, stops
  <2> QED BY <1>3, <1>4, <1>6, <2>3, <2>4, <2>5, <2>6, <2>9, PutInv
<1> QED BY <1>5, <1>6

LEMMA DeleteRowStep == ASSUME Inv, NEW r \in Requests, DeleteRow(r) PROVE Inv'
<1> DEFINE u == request[r].user
<1>1. /\ At(r, "files") /\ End(r) /\ UNCHANGED <<job, up, founders, met>>
      /\ IF u \in Rows THEN Remove(u) ELSE Same
  BY DEF DeleteRow
<1>2. Changes(r) BY <1>1 DEF Inv, StepsMatch
<1>3. Shrinks BY <1>1, EndShrinks DEF Inv
<1>4. up' \in BOOLEAN BY <1>1 DEF Inv, TypeOK
<1>5. UNCHANGED <<founders, met>> /\ job' \subseteq job BY <1>1
<1> HIDE DEF u
<1>6. CASE u \in Rows
  <2>1. Remove(u) BY <1>1, <1>6
  <2> QED BY <1>3, <1>4, <1>5, <1>6, <2>1, RemoveInv
<1>7. CASE u \notin Rows
  <2>1. Same BY <1>1, <1>7
  <2> QED BY <1>3, <1>4, <1>5, <2>1, SameInv
<1> QED BY <1>6, <1>7

LEMMA EmailStep ==
  ASSUME Inv, NEW r \in Requests, VerifyWrite(r) \/ ResendWrite(r)
  PROVE  Inv'
<1> DEFINE u == request[r].user
           active == [users[u] EXCEPT !.active = TRUE, !.token = FALSE]
           token == [users[u] EXCEPT !.token = TRUE]
<1>1. /\ End(r) /\ UNCHANGED <<job, up, founders, met>>
      /\ IF u \in Rows THEN Put(u, active, FALSE) \/ Put(u, token, FALSE) ELSE Same
  BY DEF VerifyWrite, ResendWrite
<1>2. Shrinks BY <1>1, EndShrinks DEF Inv
<1>3. up' \in BOOLEAN /\ job' \subseteq job
      /\ UNCHANGED <<founders, met>>
  BY <1>1 DEF Inv, TypeOK
<1>4. CASE u \notin Rows
  <2>1. Same BY <1>1, <1>4
  <2> HIDE DEF u, active, token
  <2> QED BY <1>2, <1>3, <2>1, SameInv
<1>5. CASE u \in Rows
  <2>1. u \in Users /\ users[u] \in RowType /\ users[u] # Gone /\ users[u] # New
    BY <1>5, RowsTyped, Kinds DEF Inv
  <2>2. PICK row \in {active, token} : Put(u, row, FALSE) BY <1>1, <1>5
  <2>3. /\ row \in RowType /\ row.admin = users[u].admin
        /\ users[u].active => row.active
    BY <2>1 DEF RowType
  <2> HIDE DEF u, active, token
  <2> QED BY <1>2, <1>3, <1>5, <2>1, <2>2, <2>3, PutInv
<1> QED BY <1>4, <1>5

LEMMA JobStep ==
  ASSUME Inv, JobQuery \/ \E u \in Users : JobDelete(u) PROVE Inv'
<1>1. CASE JobQuery
  <2>1. /\ job' = {u \in Rows : Unactivated(u)} /\ UNCHANGED <<users, request, up, histVars>>
    BY <1>1 DEF JobQuery
  <2>2. Rows' = Rows /\ Admins' = Admins /\ ActiveAdmins' = ActiveAdmins
    BY <2>1 DEF Rows, Admins, ActiveAdmins
  <2>3. TypeOK'
    <3>1. job' \subseteq Users BY <2>1 DEF Rows
    <3>2. /\ up' \in BOOLEAN /\ met' \in BOOLEAN /\ shaken' \subseteq Requests
      BY <2>1 DEF Inv, TypeOK, histVars
    <3> QED BY <2>1, <3>1, <3>2 DEF Inv, TypeOK, histVars
  <2>4. LivesTold'
    <3>1. users' = users /\ life' = life BY <2>1 DEF histVars
    <3>2. \A u \in job' : u \in Users /\ ~users[u].active BY <2>1 DEF Unactivated, Rows
    <3> QED BY <2>2, <3>1, <3>2 DEF Inv, LivesTold
  <2>5. DrawnOnce' /\ MeetingsNoted'
    BY <2>1 DEF Inv, DrawnOnce, MeetingsNoted, Creates, SigningUp, Changes, Free, histVars
  <2>6. StepsMatch' BY <2>1, <2>2 DEF Inv, StepsMatch, Creates, Changes, At, Free
  <2>7. AllLetThrough'
    BY <2>1, <2>2, Unshaken DEF AllLetThrough, histVars
  <2>8. OneFounder' BY <2>1 DEF Inv, OneFounder, histVars
  <2> QED BY <2>3, <2>4, <2>5, <2>6, <2>7, <2>8 DEF Inv
<1>2. ASSUME NEW u \in Users, JobDelete(u) PROVE Inv'
  <2>1. Shrinks BY <1>2 DEF JobDelete, Shrinks, Inv, TypeOK
  <2>2. /\ up' \in BOOLEAN /\ job' \subseteq job
        /\ UNCHANGED <<founders, met>>
    BY <1>2 DEF JobDelete, Inv, TypeOK
  <2>3. CASE u \in Rows
    <3>1. Remove(u) BY <1>2, <2>3 DEF JobDelete
    <3> QED BY <2>1, <2>2, <2>3, <3>1, RemoveInv
  <2>4. CASE u \notin Rows
    <3>1. Same BY <1>2, <2>4 DEF JobDelete
    <3> QED BY <2>1, <2>2, <3>1, SameInv
  <2> QED BY <2>3, <2>4
<1> QED BY <1>1, <1>2

LEMMA AgeStep == ASSUME Inv, NEW u \in Users, Age(u) PROVE Inv'
<1>1. u \in Rows /\ users' = [users EXCEPT ![u].old = TRUE, ![u].token = FALSE]
      /\ UNCHANGED <<request, job, up, histVars>>
  BY DEF Age
<1>2. users[u] \in RowType BY <1>1, RowsTyped DEF Inv
<1>3. /\ users'[u] \in RowType
      /\ users'[u].admin = users[u].admin /\ users'[u].active = users[u].active
      /\ \A v \in Users \ {u} : users'[v] = users[v]
  BY <1>1, <1>2 DEF RowType, Inv, TypeOK
<1>4. /\ users[u] # New /\ users[u] # Gone /\ users'[u] # New /\ users'[u] # Gone
      /\ users[u].state = "row" /\ users'[u].state = "row"
  BY <1>2, <1>3, Kinds
<1>5. Rows' = Rows BY <1>3, <1>4 DEF Rows
<1>6. Admins' = Admins /\ ActiveAdmins' = ActiveAdmins
  BY <1>3, <1>5 DEF Admins, ActiveAdmins, Rows
<1>7. \A v \in Users : (users'[v] = New <=> users[v] = New) /\ (users'[v] = Gone <=> users[v] = Gone)
  BY <1>3, <1>4
<1>8. TypeOK'
  <2>1. users' \in [Users -> RowType \cup {New, Gone}] BY <1>1, <1>3 DEF Inv, TypeOK
  <2>2. /\ up' \in BOOLEAN /\ met' \in BOOLEAN /\ shaken' \subseteq Requests
    BY <1>1 DEF Inv, TypeOK, histVars
  <2> QED BY <1>1, <2>1, <2>2 DEF Inv, TypeOK, histVars
<1>9. LivesTold' BY <1>1, <1>3, <1>5 DEF Inv, LivesTold, histVars, Rows
<1>10. \A r \in Requests : ~Free(r) => request[r].user \in Users
  BY DEF Inv, TypeOK, Free, Running
<1>11. DrawnOnce'
  <2>1. \A r \in Requests : Creates(r) => ~Free(r) BY DEF Creates
  <2>2. \A r \in Requests : Creates(r)' = Creates(r) /\ Free(r)' = Free(r)
    BY <1>1 DEF Creates, Free
  <2> QED BY <1>1, <1>7, <1>10, <2>1, <2>2 DEF Inv, DrawnOnce
<1>12. MeetingsNoted'
  BY <1>1, <1>7 DEF Inv, MeetingsNoted, SigningUp, Changes, Free, histVars, TypeOK
<1>13. StepsMatch' BY <1>1 DEF Inv, StepsMatch, Creates, Changes, At, Free
<1>14. AllLetThrough' BY <1>1, <1>6, Unshaken DEF AllLetThrough, histVars
<1>15. OneFounder'
  <2>1. founders' = founders /\ (met => met') BY <1>1 DEF histVars
  <2>2. founders \subseteq Users BY DEF Inv, TypeOK
  <2> QED BY <1>7, <2>1, <2>2 DEF Inv, OneFounder
<1> QED BY <1>8, <1>9, <1>11, <1>12, <1>13, <1>14, <1>15 DEF Inv

LEMMA RestartStep == ASSUME Inv, NEW enabled \in BOOLEAN, Restart(enabled) PROVE Inv'
<1>1. /\ request' = [r \in Requests |-> Idle] /\ job' = {}
      /\ UNCHANGED <<founders, met>>
  BY DEF Restart
<1>2. up' \in BOOLEAN BY DEF Restart
<1>4. Shrinks BY <1>1 DEF Shrinks
<1>5. \A r \in Requests : ~Creates(r)' BY <1>1 DEF Creates, Free
<1>6. CASE Same BY <1>1, <1>2, <1>4, <1>6, SameInv
<1>7. ASSUME NEW u \in Users, users[u] = New, Put(u, YamlRow, FALSE) PROVE Inv'
  <2>1. YamlRow \in RowType BY DEF YamlRow, Row, RowType
  <2>2. users[u] # Gone /\ u \notin Rows BY <1>7, Kinds DEF Rows
  <2>3. UNCHANGED founders /\ UNCHANGED met /\ job' \subseteq job BY <1>1
  <2>4. users[u] = New => \A q \in Requests : Creates(q)' => request[q].user # u BY <1>5
  <2> QED BY <1>2, <1>4, <1>7, <2>1, <2>2, <2>3, <2>4, PutInv
<1> QED BY <1>6, <1>7 DEF Restart

LEMMA NextInv == ASSUME Inv, [Next]_vars PROVE Inv'
<1>1. ASSUME NEW r \in Requests, HandlerStep(r) PROVE Inv'
  BY <1>1, SignUpStep, CreateStep, RegisterStep, UpdateReadStep, CountStep, UpdateWriteStep,
     AboutRowStep, DeleteRowStep, EmailStep DEF HandlerStep, Rows
<1>2. CASE JobQuery \/ \E u \in Users : JobDelete(u) \/ Age(u)
  BY <1>2, JobStep, AgeStep
<1>3. ASSUME NEW enabled \in BOOLEAN, Restart(enabled) PROVE Inv' BY <1>3, RestartStep
<1>4. CASE UNCHANGED vars
  <2>1. Rows' = Rows /\ Admins' = Admins /\ ActiveAdmins' = ActiveAdmins
    BY <1>4 DEF vars, Rows, Admins, ActiveAdmins
  <2>2. Same /\ UNCHANGED <<founders, met, job, request>>
    BY <1>4 DEF vars, histVars, Same
  <2>3. Shrinks BY <2>2 DEF Shrinks, Inv, TypeOK
  <2>4. up' \in BOOLEAN BY <1>4 DEF vars, Inv, TypeOK
  <2> QED BY <2>2, <2>3, <2>4, SameInv
<1> QED BY <1>1, <1>2, <1>3, <1>4 DEF Next

LEMMA Invariant == Spec => []Inv
<1> QED BY InitInv, NextInv, PTL DEF Spec

----------------------------------------------------------------------------
(* The theorems                                                             *)

\* Rows, handlers and the job hold what they should.
THEOREM TypeCorrect == Spec => []TypeOK
<1>1. Inv => TypeOK BY DEF Inv
<1> QED BY Invariant, <1>1, PTL

\* A change or deletion takes the last administrator away, and a deactivation the last active
\* one, only if another step took one away, or raised its own user, after it was read: whatever
\* the number of accounts, requests and restarts (UserService.update and delete).
THEOREM AnAdministratorRemains == Spec => AdministratorRemains
<1>1. ASSUME Inv, NEW r \in Requests \ shaken, UpdateWrite(r)
      PROVE  /\ Admins = {} \/ Admins' # {}
             /\ request[r].body.active = "off" => ActiveAdmins = {} \/ ActiveAdmins' # {}
  <2> DEFINE u == request[r].user
             body == request[r].body
             row == [users[u] EXCEPT
                       !.admin = IF body.role = "keep" THEN @ ELSE body.role = "admin",
                       !.active = IF body.active = "keep" THEN @ ELSE body.active = "on"]
  <2>1. IF u \notin Rows THEN Same ELSE users' = [users EXCEPT ![u] = row]
    BY <1>1 DEF UpdateWrite, Put
  <2>2. CASE u \notin Rows
    BY <2>1, <2>2 DEF Same, Admins, ActiveAdmins, Rows
  <2>3. CASE u \in Rows
    <3>1. At(r, "write") /\ request[r] \in Running
      BY <1>1 DEF UpdateWrite, At, Free, Inv, TypeOK
    <3>2. u \in Users /\ users[u] \in RowType /\ body \in BodyType
      <4>1. u \in Users /\ users[u] \in RowType BY <1>1, <2>3, RowsTyped DEF Inv
      <4> QED BY <3>1, <4>1 DEF Running
    <3>3. /\ row.state = "row"
          /\ row.admin = IF body.role = "keep" THEN users[u].admin ELSE body.role = "admin"
      BY <3>2 DEF RowType
    <3>4. users'[u] = row /\ \A v \in Users \ {u} : users'[v] = users[v]
      BY <1>1, <2>1, <2>3, <3>2 DEF Inv, TypeOK
    <3>5. \A v \in Admins : v # u => v \in Admins' /\ (v \in ActiveAdmins => v \in ActiveAdmins')
      BY <3>4 DEF Admins, ActiveAdmins, Rows
    <3>6. u \in Admins /\ body.role # "operador" => u \in Admins'
      <4>1. body.role \in {"keep", "admin", "operador"} BY <3>2 DEF BodyType
      <4> HIDE DEF u, body, row
      <4> QED BY <3>2, <3>3, <3>4, <4>1 DEF Admins, Rows
    <3>7. LetThrough(r) BY <1>1 DEF Inv, AllLetThrough
    <3>8. u \in Admins /\ body.role = "operador" => OtherAdmin(u)
      BY <3>1, <3>7 DEF LetThrough, Lowers, Deactivates
    <3>9. body.active = "off" /\ u \in ActiveAdmins => OtherActive(u)
      BY <3>1, <3>7 DEF LetThrough, Lowers, Deactivates
    <3>10. ActiveAdmins \subseteq Admins BY DEF ActiveAdmins
    <3> HIDE DEF u, body, row
    <3>11. Admins = {} \/ Admins' # {} BY <3>5, <3>6, <3>8 DEF OtherAdmin
    <3>12. body.active = "off" => ActiveAdmins = {} \/ ActiveAdmins' # {}
      BY <3>5, <3>9, <3>10 DEF OtherActive
    <3> QED BY <3>11, <3>12 DEF body
  <2> QED BY <2>2, <2>3
<1>2. ASSUME Inv, NEW r \in Requests \ shaken, DeleteRow(r)
      PROVE  Admins = {} \/ Admins' # {}
  <2> DEFINE u == request[r].user
  <2>1. At(r, "files") /\ LetThrough(r) BY <1>2 DEF DeleteRow, Inv, AllLetThrough
  <2>2. u \in Admins => OtherAdmin(u) BY <2>1 DEF LetThrough, Lowers
  <2>3. CASE u \notin Rows BY <1>2, <2>3 DEF DeleteRow, Same, Admins, Rows
  <2>4. CASE u \in Rows
    <3>1. users' = [users EXCEPT ![u] = Gone] BY <1>2, <2>4 DEF DeleteRow, Remove
    <3>2. \A v \in Admins : v # u => v \in Admins' BY <3>1 DEF Admins, Rows, Inv, TypeOK
    <3> HIDE DEF u
    <3> QED BY <2>2, <3>2 DEF OtherAdmin
  <2> QED BY <2>3, <2>4
<1>3. Inv /\ [Next]_vars =>
        [\A r \in Requests \ shaken :
           /\ UpdateWrite(r) \/ DeleteRow(r) => Admins = {} \/ Admins' # {}
           /\ UpdateWrite(r) /\ request[r].body.active = "off"
                => ActiveAdmins = {} \/ ActiveAdmins' # {}]_vars
  BY <1>1, <1>2
<1> QED BY Invariant, <1>3, PTL DEF Spec, AdministratorRemains

\* Only sign-ups that meet make two administrators (AuthService.signUp).
THEOREM FoundedOnce == Spec => []OneFounder
<1>1. Inv => OneFounder BY DEF Inv
<1> QED BY Invariant, <1>1, PTL

\* The hourly job deletes no account in use that was so when it asked (deleteUnactivatedUsers).
THEOREM SweepsSpareUsers == Spec => SweepsNeverActive
<1>1. Inv /\ [Next]_vars => [\A u \in Rows : JobDelete(u) => life[u] # "used"]_vars
  BY DEF Inv, LivesTold, JobDelete
<1> QED BY Invariant, <1>1, PTL DEF Spec, SweepsNeverActive
=============================================================================
