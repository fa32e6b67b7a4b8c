-------------------------- MODULE AuditWormProofs --------------------------
(* Proofs about AuditWorm, for every number of concurrent writers and users, *)
(* every batch size and every hash function; only ValidVouches asks of the   *)
(* hash that it tells payloads apart.  Then about Keys.                      *)
EXTENDS AuditWorm, Keys, FiniteSetTheorems, SequenceTheorems, TLAPS

USE WritersAssumption, UsersAssumption, EventsAssumption, BoundsAssumption

----------------------------------------------------------------------------
(* The inductive invariant *)

\* The log is a function to whole rows.
LogShape ==
  /\ log = [s \in Seqs |-> log[s]]
  /\ \A s \in Seqs :
       log[s] = [stored |-> log[s].stored, user |-> log[s].user, event |-> log[s].event,
                 prev |-> log[s].prev, hash |-> log[s].hash]
  /\ \A s \in Seqs : log[s].stored \in BOOLEAN
PrevShape == prev = [w \in Writers |-> prev[w]]

\* Below a row there is a row, or one that was removed; what was removed was
\* never the last.
NoHole == \A s \in Rows, u \in Seqs : u < s => u \in Rows \cup tampered
RemovedBelow == \A s \in tampered \ Rows : \E u \in Rows : u > s

\* What a writer read of the head is still true, for a row never changes its
\* hash; the number it is about to use was never that of a removed row.
HeadRead(w) ==
  /\ head[w] = 0 => prev[w] = Genesis
  /\ head[w] # 0 => head[w] \in Rows \cup tampered
  /\ head[w] \in Rows => prev[w] = log[head[w]].hash
  /\ head[w] + 1 \notin tampered \ Rows

\* How far the chain has grown since record was called.
Grown(w) ==
  /\ pc[w] = "insert" /\ attempt[w] = 0 => start[w] <= head[w]
  /\ pc[w] = "insert" /\ attempt[w] = 1 => start[w] + 1 <= head[w]
  /\ pc[w] \in {"read", "insert"} => start[w] \in Rows \cup tampered \cup {0}
  /\ pc[w] = "read" /\ attempt[w] = 1 => start[w] + 1 \in Rows \cup tampered
  /\ pc[w] = "mirror" => head[w] < MaxSeq

\* Where the walk stands: on a row whose hash it remembers.
Walk ==
  vPc = "scan" => /\ cursor = 0 \/ cursor \in Rows \cup tampered
                  /\ cursor \in Rows => expected = log[cursor].hash

Inv ==
  /\ TypeOK /\ LogShape /\ PrevShape
  /\ ChainLinked /\ NoHole /\ RemovedBelow
  /\ \A w \in Writers : pc[w] = "insert" => HeadRead(w)
  /\ \A w \in Writers : Grown(w)
  /\ LostOnlyToTwo
  /\ Walk /\ AlarmIsTrue

LEMMA InitInv == Init => Inv
<1> SUFFICES ASSUME Init PROVE Inv OBVIOUS
<1>1. Rows = {} BY DEF Init, Rows, NoRow
<1>2. TypeOK
  <2>1. /\ 0 \in 0..MaxSeq /\ 0 \in {0, 1}
        /\ "idle" \in Steps /\ NoUser \in Users \cup {NoUser} /\ Report \in Events
    BY DEF Steps
  <2> QED BY <1>1, <2>1 DEF Init, TypeOK
<1>3. LogShape /\ PrevShape BY DEF Init, LogShape, PrevShape, NoRow
<1>4. ChainLinked /\ NoHole /\ RemovedBelow BY <1>1 DEF Init, ChainLinked, NoHole, RemovedBelow
<1>5. \A w \in Writers : pc[w] = "idle" BY DEF Init
<1>6. (\A w \in Writers : pc[w] = "insert" => HeadRead(w)) /\ LostOnlyToTwo
      /\ \A w \in Writers : Grown(w)
  BY <1>5 DEF LostOnlyToTwo, Grown
<1>7. Walk /\ AlarmIsTrue BY DEF Init, Walk, AlarmIsTrue
<1> QED BY <1>2, <1>3, <1>4, <1>6, <1>7 DEF Inv

----------------------------------------------------------------------------
(* Steps that leave the log alone *)

\* A step that changes neither rows nor history keeps everything said of them.
LEMMA SameLog ==
  ASSUME Inv, UNCHANGED <<log, nulled, tampered>>
  PROVE  /\ Rows' = Rows /\ damaged' = damaged
         /\ LogShape' /\ ChainLinked' /\ NoHole' /\ RemovedBelow'
<1>1. Rows' = Rows /\ damaged' = damaged BY DEF Rows, damaged
<1>2. \A s : RowHash(s)' = RowHash(s) BY DEF RowHash
<1> QED BY <1>1, <1>2 DEF Inv, LogShape, ChainLinked, NoHole, RemovedBelow

\* The head is above every row and every removed number.
LEMMA HeadIsTop ==
  ASSUME Inv, NEW h \in 0..MaxSeq, IsHead(h)
  PROVE  \A s \in Rows \cup tampered : s <= h
<1>1. \A s \in Rows : s <= h BY DEF IsHead
<1>2. ASSUME NEW s \in tampered \ Rows PROVE s <= h
  <2>1. PICK u \in Rows : u > s BY <1>2 DEF Inv, RemovedBelow
  <2>2. s \in Nat /\ u \in Nat /\ h \in Nat
    BY <1>2, <2>1 DEF Inv, TypeOK, Rows, Seqs
  <2>3. u <= h BY <1>1, <2>1
  <2> QED BY <2>1, <2>2, <2>3
<1> QED BY <1>1, <1>2

\* Beginning a call of record keeps what is said of the writers.
LEMMA BeginInv ==
  ASSUME Inv, NEW w \in Writers, NEW u \in Users \cup {NoUser}, NEW e \in Events,
         Begin(w, u, e), UNCHANGED <<users, log, nulled, tampered>>
  PROVE  /\ pc' \in [Writers -> Steps]
         /\ user' \in [Writers -> Users \cup {NoUser}]
         /\ event' \in [Writers -> Events]
         /\ head' \in [Writers -> 0..MaxSeq] /\ start' \in [Writers -> 0..MaxSeq]
         /\ attempt' \in [Writers -> {0, 1}] /\ PrevShape'
         /\ \A x \in Writers : pc'[x] = "insert" => HeadRead(x)'
         /\ \A x \in Writers : Grown(x)'
         /\ LostOnlyToTwo'
<1>1. Rows' = Rows /\ damaged' = damaged BY SameLog
<1>2. PICK h \in 0..MaxSeq : IsHead(h) /\ start' = [start EXCEPT ![w] = h] BY DEF Begin
<1>3. /\ pc' \in [Writers -> Steps]
      /\ user' \in [Writers -> Users \cup {NoUser}]
      /\ event' \in [Writers -> Events]
      /\ head' \in [Writers -> 0..MaxSeq] /\ start' \in [Writers -> 0..MaxSeq]
      /\ attempt' \in [Writers -> {0, 1}] /\ PrevShape'
  BY <1>2 DEF Inv, TypeOK, PrevShape, Begin, Steps
<1>4. ASSUME NEW x \in Writers, pc'[x] = "insert" PROVE HeadRead(x)'
  BY <1>1, <1>4 DEF Inv, TypeOK, HeadRead, Begin
<1>5. ASSUME NEW x \in Writers PROVE Grown(x)'
  <2>1. CASE x = w
    <3>1. h \in Rows \cup {0} BY <1>2 DEF IsHead
    <3> QED BY <1>1, <1>2, <2>1, <3>1 DEF Inv, TypeOK, Grown, Begin
  <2>2. CASE x # w
    BY <1>1, <1>2, <2>2 DEF Inv, TypeOK, Grown, Begin
  <2> QED BY <2>1, <2>2
<1>6. LostOnlyToTwo' BY <1>1, <1>2 DEF Inv, TypeOK, LostOnlyToTwo, Begin
<1> QED BY <1>3, <1>4, <1>5, <1>6

\* So does its return, if what it says of a lost event is true.
LEMMA ReturnInv ==
  ASSUME Inv, NEW w \in Writers, NEW to \in {"idle", "lost"}, Return(w, to),
         to = "lost" => start[w] + 2 \in Rows \cup damaged,
         UNCHANGED <<log, nulled, tampered>>
  PROVE  /\ pc' \in [Writers -> Steps]
         /\ user' \in [Writers -> Users \cup {NoUser}]
         /\ event' \in [Writers -> Events]
         /\ head' \in [Writers -> 0..MaxSeq] /\ start' \in [Writers -> 0..MaxSeq]
         /\ attempt' \in [Writers -> {0, 1}] /\ PrevShape'
         /\ \A x \in Writers : pc'[x] = "insert" => HeadRead(x)'
         /\ \A x \in Writers : Grown(x)'
         /\ LostOnlyToTwo'
<1>1. Rows' = Rows /\ damaged' = damaged BY SameLog
<1>2. /\ pc' \in [Writers -> Steps]
      /\ user' \in [Writers -> Users \cup {NoUser}]
      /\ event' \in [Writers -> Events]
      /\ head' \in [Writers -> 0..MaxSeq] /\ start' \in [Writers -> 0..MaxSeq]
      /\ attempt' \in [Writers -> {0, 1}] /\ PrevShape'
  <2>1. PrevShape' BY DEF Inv, PrevShape, Return
  <2> QED BY <2>1 DEF Inv, TypeOK, Return, Steps
<1>3. ASSUME NEW x \in Writers, pc'[x] = "insert" PROVE HeadRead(x)'
  BY <1>1, <1>3 DEF Inv, TypeOK, HeadRead, Return
<1>4. ASSUME NEW x \in Writers PROVE Grown(x)'
  BY <1>1 DEF Inv, TypeOK, Grown, Return
<1>5. LostOnlyToTwo' BY <1>1 DEF Inv, TypeOK, LostOnlyToTwo, Return
<1> QED BY <1>2, <1>3, <1>4, <1>5

----------------------------------------------------------------------------
(* The steps of a writer *)

LEMMA RecordInv ==
  ASSUME Inv, NEW w \in Writers, Record(w)
  PROVE  Inv'
<1>1. PICK u \in users \cup {NoUser}, e \in Events : Begin(w, u, e) BY DEF Record
<1>2. u \in Users \cup {NoUser} BY DEF Inv, TypeOK
<1>3. UNCHANGED <<users, log, mirror, verifyVars, unmirrored, nulled, tampered>> BY DEF Record
<1>4. /\ Rows' = Rows /\ damaged' = damaged
      /\ LogShape' /\ ChainLinked' /\ NoHole' /\ RemovedBelow'
  BY <1>3, SameLog
<1> HIDE DEF Begin
<1>5. TypeOK' BY <1>1, <1>2, <1>3, <1>4, BeginInv DEF Inv, TypeOK, verifyVars
<1>6. Walk' /\ AlarmIsTrue' BY <1>3, <1>4 DEF Inv, Walk, AlarmIsTrue, verifyVars
<1> QED BY <1>1, <1>2, <1>3, <1>4, <1>5, <1>6, BeginInv DEF Inv

LEMMA ReadHeadInv ==
  ASSUME Inv, NEW w \in Writers, ReadHead(w)
  PROVE  Inv'
<1>1. PICK h \in 0..MaxSeq :
        /\ IsHead(h)
        /\ head' = [head EXCEPT ![w] = h]
        /\ prev' = [prev EXCEPT ![w] = IF h = 0 THEN Genesis ELSE log[h].hash]
  BY DEF ReadHead
<1>2. /\ Rows' = Rows /\ damaged' = damaged
      /\ LogShape' /\ ChainLinked' /\ NoHole' /\ RemovedBelow'
  BY SameLog DEF ReadHead
<1>3. TypeOK' /\ PrevShape'
  BY <1>1, <1>2 DEF Inv, TypeOK, PrevShape, ReadHead, verifyVars, Steps
<1>4. ASSUME NEW x \in Writers, pc'[x] = "insert" PROVE HeadRead(x)'
  <2>1. CASE x = w
    <3>1. head'[x] = h /\ prev'[x] = IF h = 0 THEN Genesis ELSE log[h].hash
      BY <1>1, <2>1 DEF Inv, TypeOK, PrevShape
    <3>2. h \in Rows \cup {0} BY <1>1 DEF IsHead
    <3>3. h + 1 \notin tampered BY <1>1, HeadIsTop
    <3>4. 0 \notin Rows BY DEF Rows, Seqs
    <3> QED BY <1>2, <3>1, <3>2, <3>3, <3>4 DEF HeadRead, ReadHead
  <2>2. CASE x # w
    BY <1>1, <1>2, <1>4, <2>2 DEF Inv, TypeOK, PrevShape, HeadRead, ReadHead
  <2> QED BY <2>1, <2>2
<1>5. ASSUME NEW x \in Writers PROVE Grown(x)'
  <2>1. CASE x = w
    <3>1. \A s \in Rows \cup tampered : s <= h BY <1>1, HeadIsTop
    <3> QED BY <1>1, <1>2, <2>1, <3>1 DEF Inv, TypeOK, Grown, ReadHead, Steps
  <2>2. CASE x # w
    BY <1>1, <1>2, <2>2 DEF Inv, TypeOK, Grown, ReadHead
  <2> QED BY <2>1, <2>2
<1>6. LostOnlyToTwo' BY <1>1, <1>2 DEF Inv, TypeOK, LostOnlyToTwo, ReadHead
<1>7. Walk' /\ AlarmIsTrue' BY <1>2 DEF Inv, Walk, AlarmIsTrue, ReadHead, verifyVars
<1> QED BY <1>2, <1>3, <1>4, <1>5, <1>6, <1>7 DEF Inv

LEMMA InsertInv ==
  ASSUME Inv, NEW w \in Writers, Insert(w)
  PROVE  Inv'
<1> DEFINE k == head[w] + 1
<1>1. k \in Seqs /\ k \notin Rows /\ k \notin tampered
  BY DEF Inv, TypeOK, Insert, Conflict, HeadRead, Seqs
<1>2. log' = [log EXCEPT ![k] = NextRow(w)] BY DEF Insert
<1>3. /\ log'[k] = NextRow(w) /\ \A s \in Seqs \ {k} : log'[s] = log[s]
  BY <1>1, <1>2 DEF Inv, LogShape
<1>4. Rows' = Rows \cup {k} BY <1>1, <1>3 DEF Rows, NextRow
<1>5. damaged' = damaged BY DEF Insert, damaged
<1>6. TypeOK'
  <2>1. DOMAIN log' = Seqs BY <1>2 DEF Inv, TypeOK
  <2>2. ASSUME NEW s \in Rows'
        PROVE log'[s].user \in Users \cup {NoUser} /\ log'[s].event \in Events
    <3>1. CASE s = k
      BY <1>3, <3>1 DEF Inv, TypeOK, NextRow
    <3>2. CASE s # k
      BY <1>3, <1>4, <2>2, <3>2 DEF Inv, TypeOK, Rows
    <3> QED BY <3>1, <3>2
  <2> QED BY <2>1, <2>2 DEF Inv, TypeOK, Insert, verifyVars, Steps
<1>17. PrevShape' BY DEF Inv, PrevShape, Insert
<1>7. LogShape'
  <2>1. log' = [s \in Seqs |-> log'[s]] BY <1>2 DEF Inv, LogShape
  <2>2. ASSUME NEW s \in Seqs
        PROVE /\ log'[s] = [stored |-> log'[s].stored, user |-> log'[s].user,
                            event |-> log'[s].event, prev |-> log'[s].prev,
                            hash |-> log'[s].hash]
              /\ log'[s].stored \in BOOLEAN
    <3>1. CASE s = k
      <4>1. PICK h : NextRow(w) = [stored |-> TRUE, user |-> user[w], event |-> event[w],
                                   prev |-> prev[w], hash |-> h]
        BY DEF NextRow
      <4>2. log'[s] = NextRow(w) BY <1>3, <3>1
      <4>3. /\ log'[s].stored = TRUE /\ log'[s].user = user[w] /\ log'[s].event = event[w]
            /\ log'[s].prev = prev[w] /\ log'[s].hash = h
        BY <4>1, <4>2
      <4> QED BY <4>1, <4>2, <4>3
    <3>2. CASE s # k BY <1>3, <3>2 DEF Inv, LogShape
    <3> QED BY <3>1, <3>2
  <2> QED BY <2>1, <2>2 DEF LogShape
<1>8. HeadRead(w) BY DEF Inv, Insert
<1>9. k + 1 \notin Rows BY <1>1 DEF Inv, ChainLinked, Rows, Seqs
<1>10. ChainLinked'
  <2> SUFFICES ASSUME NEW s \in Rows'
               PROVE  /\ s \notin damaged' => log'[s].hash = RowHash(s)'
                      /\ s = 1 => log'[s].prev = Genesis
                      /\ s > 1 /\ s - 1 \in Rows' => log'[s].prev = log'[s - 1].hash
                      /\ s > 1 /\ s - 1 \notin Rows' => s - 1 \in tampered'
    BY DEF ChainLinked
  <2>1. tampered' = tampered BY DEF Insert
  <2>2. CASE s = k
    <3>1. log'[s].hash = RowHash(s)' BY <1>3, <2>2 DEF RowHash, NextRow
    <3>2. log'[s].prev = prev[w] BY <1>3, <2>2 DEF NextRow
    <3>3. s = 1 => head[w] = 0 BY <2>2 DEF Inv, TypeOK
    <3>4. s > 1 => s - 1 = head[w] /\ head[w] # 0 /\ head[w] # k BY <2>2 DEF Inv, TypeOK
    <3>5. s > 1 /\ s - 1 \in Rows' => s - 1 \in Rows /\ log'[s - 1] = log[s - 1]
      BY <1>3, <1>4, <3>4 DEF Rows
    <3> QED BY <1>4, <1>8, <2>1, <3>1, <3>2, <3>3, <3>4, <3>5 DEF HeadRead
  <2>3. CASE s # k
    <3>1. s \in Rows /\ log'[s] = log[s] BY <1>3, <1>4, <2>3 DEF Rows
    <3>2. s - 1 # k BY <1>9, <3>1 DEF Rows, Seqs, Inv, TypeOK
    <3>3. s > 1 => (s - 1 \in Rows' <=> s - 1 \in Rows) BY <1>4, <3>2
    <3>4. s - 1 \in Rows => log'[s - 1] = log[s - 1] BY <1>3, <3>2 DEF Rows
    <3> QED BY <1>5, <2>1, <3>1, <3>3, <3>4 DEF Inv, ChainLinked, RowHash
  <2> QED BY <2>2, <2>3
<1>11. NoHole'
  <2> SUFFICES ASSUME NEW s \in Rows', NEW u \in Seqs, u < s
               PROVE  u \in Rows' \cup tampered'
    BY DEF NoHole
  <2>1. CASE s # k BY <1>4, <2>1 DEF Inv, NoHole, Insert
  <2>2. CASE s = k
    <3>1. u <= head[w] /\ head[w] # 0 BY <2>2 DEF Inv, TypeOK, Seqs
    <3>2. head[w] \in Rows \cup tampered BY <1>8, <3>1 DEF HeadRead
    <3>3. PICK t \in Rows : head[w] <= t
      BY <3>2 DEF Inv, TypeOK, RemovedBelow, Rows, Seqs
    <3>4. u = t \/ u < t BY <3>1, <3>3 DEF Rows, Seqs, Inv, TypeOK
    <3> QED BY <1>4, <3>3, <3>4 DEF Inv, NoHole, Insert
  <2> QED BY <2>1, <2>2
<1>12. RemovedBelow' BY <1>1, <1>4 DEF Inv, RemovedBelow, Insert
<1>13. ASSUME NEW x \in Writers, pc'[x] = "insert" PROVE HeadRead(x)'
  <2>1. x # w /\ pc[x] = "insert" BY <1>13 DEF Inv, TypeOK, Insert
  <2>2. head[x] # k
    BY <1>1, <2>1 DEF Inv, TypeOK, HeadRead
  <2> QED BY <1>3, <1>4, <2>1, <2>2 DEF Inv, TypeOK, HeadRead, Insert, Rows
<1>14. ASSUME NEW x \in Writers PROVE Grown(x)'
  BY <1>4 DEF Inv, TypeOK, Grown, Insert
<1>15. LostOnlyToTwo' BY <1>4, <1>5 DEF Inv, TypeOK, LostOnlyToTwo, Insert
<1>16. Walk' /\ AlarmIsTrue'
  <2>1. cursor # k \/ vPc # "scan" BY <1>1 DEF Inv, TypeOK, Walk, Seqs
  <2> QED BY <1>3, <1>4, <1>5, <2>1 DEF Inv, Walk, AlarmIsTrue, Insert, verifyVars, Rows
<1> QED BY <1>6, <1>7, <1>10, <1>11, <1>12, <1>13, <1>14, <1>15, <1>16, <1>17 DEF Inv

\* The caller of these lemmas has already shown that the log stays as it is.
LEMMA ReturnStepInv ==
  ASSUME Inv, NEW w \in Writers, NEW to \in {"idle", "lost"}, Return(w, to),
         to = "lost" => start[w] + 2 \in Rows \cup damaged,
         UNCHANGED <<users, log, verifyVars, nulled, tampered>>, unmirrored' \subseteq Seqs
  PROVE  Inv'
<1> HIDE DEF Return
<1>1. /\ Rows' = Rows /\ damaged' = damaged
      /\ LogShape' /\ ChainLinked' /\ NoHole' /\ RemovedBelow'
  BY SameLog
<1>2. TypeOK' BY <1>1, ReturnInv DEF Inv, TypeOK, verifyVars
<1>3. Walk' /\ AlarmIsTrue' BY <1>1 DEF Inv, Walk, AlarmIsTrue, verifyVars
<1> QED BY <1>1, <1>2, <1>3, ReturnInv DEF Inv

LEMMA InsertFailsInv ==
  ASSUME Inv, NEW w \in Writers, InsertFails(w)
  PROVE  Inv'
<1>1. /\ UNCHANGED <<users, log, verifyVars, unmirrored, nulled, tampered>> /\ Conflict(w)
      /\ unmirrored' \subseteq Seqs
  BY DEF InsertFails, Inv, TypeOK
<1>3. CASE MayRetry(w)
           /\ pc' = [pc EXCEPT ![w] = "read"]
           /\ attempt' = [attempt EXCEPT ![w] = @ + 1]
           /\ UNCHANGED <<user, event, head, prev, start>>
  <2>1. /\ Rows' = Rows /\ damaged' = damaged
        /\ LogShape' /\ ChainLinked' /\ NoHole' /\ RemovedBelow'
    BY <1>1, SameLog
  <2>2. attempt[w] = 0 /\ head[w] + 1 \in Rows BY <1>1, <1>3 DEF Conflict, MayRetry
  <2>3. TypeOK' BY <1>1, <1>3, <2>1, <2>2 DEF Inv, TypeOK, verifyVars, Steps
  <2>4. ASSUME NEW x \in Writers, pc'[x] = "insert" PROVE HeadRead(x)'
    BY <1>1, <1>3, <2>1, <2>4 DEF Inv, TypeOK, HeadRead
  <2>5. ASSUME NEW x \in Writers PROVE Grown(x)'
    <3>1. CASE x # w BY <1>1, <1>3, <2>1, <3>1 DEF Inv, TypeOK, Grown
    <3>2. CASE x = w
      <4>1. pc[w] = "insert" /\ start[w] <= head[w] BY <2>2 DEF Inv, Grown, InsertFails
      <4>2. start[w] + 1 \in Rows \cup tampered
        BY <2>2, <4>1 DEF Inv, TypeOK, NoHole, Rows, Seqs
      <4>3. start[w] \in Rows \cup tampered \cup {0} BY <4>1 DEF Inv, Grown
      <4> QED BY <1>1, <1>3, <2>1, <3>2, <4>2, <4>3 DEF Inv, TypeOK, Grown
    <3> QED BY <3>1, <3>2
  <2>6. LostOnlyToTwo' BY <1>1, <1>3, <2>1 DEF Inv, TypeOK, LostOnlyToTwo
  <2>7. Walk' /\ AlarmIsTrue' BY <1>1, <2>1 DEF Inv, Walk, AlarmIsTrue, verifyVars
  <2>8. PrevShape' BY <1>3 DEF Inv, PrevShape
  <2> QED BY <2>1, <2>3, <2>4, <2>5, <2>6, <2>7, <2>8 DEF Inv
<1>4. CASE ~MayRetry(w) /\ Return(w, "lost")
  <2>1. pc[w] = "insert" /\ attempt[w] = 1 /\ head[w] + 1 \in Rows
    BY <1>1, <1>4 DEF Inv, TypeOK, Conflict, MayRetry, InsertFails
  <2>2. start[w] + 1 <= head[w] BY <2>1 DEF Inv, Grown
  <2>3. start[w] + 2 \in Rows \cup tampered
    <3>1. NoHole BY DEF Inv
    <3>2. head[w] \in Nat /\ start[w] \in Nat BY DEF Inv, TypeOK
    <3>3. head[w] + 1 \in Seqs /\ MaxSeq \in Nat BY <2>1, BoundsAssumption DEF Rows
    <3>4. start[w] + 2 \in Seqs BY <2>2, <3>2, <3>3 DEF Seqs
    <3>5. start[w] + 2 = head[w] + 1 \/ start[w] + 2 < head[w] + 1 BY <2>2, <3>2
    <3> QED BY <2>1, <3>1, <3>4, <3>5 DEF NoHole
  <2> QED BY <1>1, <1>4, <2>3, ReturnStepInv DEF damaged
<1> QED BY <1>3, <1>4 DEF InsertFails

LEMMA RecordFailsInv ==
  ASSUME Inv, NEW w \in Writers, RecordFails(w)
  PROVE  Inv'
<1>1. unmirrored' \subseteq Seqs BY DEF RecordFails, Inv, TypeOK
<1> HIDE DEF Return
<1> QED BY <1>1, ReturnStepInv DEF RecordFails

LEMMA AppendMirrorInv ==
  ASSUME Inv, NEW w \in Writers, AppendMirror(w)
  PROVE  Inv'
<1>1. head[w] + 1 \in Seqs BY DEF AppendMirror, Inv, TypeOK, Grown, Seqs
<1>2. unmirrored' \subseteq Seqs BY <1>1 DEF AppendMirror, Inv, TypeOK
<1> HIDE DEF Return
<1> QED BY <1>2, ReturnStepInv DEF AppendMirror

----------------------------------------------------------------------------
(* The steps of the verification *)

\* A step of the verification leaves the log and the writers alone.
LEMMA VerifyKeeps ==
  ASSUME Inv, UNCHANGED <<users, log, writerVars, unmirrored, nulled, tampered>>
  PROVE  /\ Rows' = Rows /\ damaged' = damaged
         /\ LogShape' /\ PrevShape' /\ ChainLinked' /\ NoHole' /\ RemovedBelow'
         /\ \A x \in Writers : pc'[x] = "insert" => HeadRead(x)'
         /\ \A x \in Writers : Grown(x)'
         /\ LostOnlyToTwo'
<1>1. /\ Rows' = Rows /\ damaged' = damaged
      /\ LogShape' /\ ChainLinked' /\ NoHole' /\ RemovedBelow'
  BY SameLog
<1>2. PrevShape' BY DEF Inv, PrevShape, writerVars
<1>3. ASSUME NEW x \in Writers PROVE (pc'[x] = "insert" => HeadRead(x)') /\ Grown(x)'
  BY <1>1 DEF Inv, HeadRead, Grown, writerVars
<1>4. LostOnlyToTwo' BY <1>1 DEF Inv, LostOnlyToTwo, writerVars
<1> QED BY <1>1, <1>2, <1>3, <1>4

\* A batch takes the rows in order: what it takes, it takes all that is before.
LEMMA BatchIsPrefix ==
  ASSUME TypeOK, NEW s \in NextBatch, NEW u \in Ahead, u < s
  PROVE  u \in NextBatch
<1> DEFINE Upto(x) == {y \in Ahead : y <= x}
<1>1. IsFiniteSet(Upto(s))
  <2>1. IsFiniteSet(1..MaxSeq) BY FS_Interval
  <2> QED BY <2>1, FS_Subset DEF Ahead, Rows, Seqs
<1>2. Upto(u) \subseteq Upto(s) BY DEF NextBatch, Ahead, Rows, Seqs
<1>3. Cardinality(Upto(u)) <= Cardinality(Upto(s)) /\ IsFiniteSet(Upto(u))
  BY <1>1, <1>2, FS_Subset
<1>4. Cardinality(Upto(u)) \in Nat /\ Cardinality(Upto(s)) \in Nat
  BY <1>1, <1>3, FS_CardinalityType
<1>5. Cardinality(Upto(s)) <= BatchSize BY DEF NextBatch
<1> QED BY <1>3, <1>4, <1>5 DEF NextBatch

\* A chain nothing has altered passes the check of every batch.
LEMMA IntactPasses ==
  ASSUME Inv, vPc = "scan", damaged = {}
  PROVE  ~Broken(NextBatch)
<1>1. tampered = {} BY DEF damaged
<1>2. \A s \in Rows : log[s].hash = RowHash(s) BY DEF Inv, ChainLinked
<1>3. ASSUME NEW s \in NextBatch, Unlinked(s, NextBatch) PROVE FALSE
  <2>1. PICK p \in NextBatch \cup {cursor} :
          Precedes(p, s, NextBatch) /\ (s # p + 1 \/ log[s].prev # ExpectedPrev(p))
    BY <1>3 DEF Unlinked
  <2>2. /\ s \in Rows /\ s > cursor /\ s \in 1..MaxSeq /\ cursor \in 0..MaxSeq
        /\ NextBatch \subseteq Ahead /\ \A u \in Ahead : u \in Rows /\ u > cursor
    BY DEF NextBatch, Ahead, Rows, Seqs, Inv, TypeOK
  <2>3. p # 0 /\ p \in 1..MaxSeq /\ p < s
    BY <2>1, <2>2 DEF Precedes, Rows, Seqs
  <2>4. s - 1 \in Rows
    BY <1>1, <2>2, <2>3 DEF Inv, NoHole, Seqs
  <2>5. p = s - 1
    <3>1. CASE s - 1 > cursor
      <4>1. s - 1 \in NextBatch
        BY <2>2, <2>4, <3>1, BatchIsPrefix DEF Ahead, Inv
      <4>2. s - 1 <= p BY <2>1, <2>2, <4>1 DEF Precedes
      <4> QED BY <2>2, <2>3, <4>2
    <3>2. CASE s - 1 = cursor
      <4>1. p \notin NextBatch BY <2>2, <2>3, <3>2
      <4> QED BY <2>1, <3>2, <4>1 DEF Precedes
    <3> QED BY <2>2, <3>1, <3>2
  <2>6. log[s].prev = log[p].hash
    BY <2>2, <2>3, <2>4, <2>5 DEF Inv, ChainLinked
  <2>7. ExpectedPrev(p) = log[p].hash
    BY <2>4, <2>5 DEF Inv, Walk, ExpectedPrev
  <2> QED BY <2>1, <2>2, <2>5, <2>6, <2>7
<1>4. NextBatch \subseteq Rows BY DEF NextBatch, Ahead
<1> QED BY <1>2, <1>3, <1>4 DEF Broken

LEMMA VerifyInv ==
  ASSUME Inv, VerifyStart \/ VerifyBatch \/ VerifyFails \/ VerifyReport
  PROVE  Inv'
<1>1. CASE VerifyStart
  <2>1. UNCHANGED <<users, log, writerVars, unmirrored, nulled, tampered>>
    BY <1>1 DEF VerifyStart
  <2>2. TypeOK'
    BY <1>1, <2>1, VerifyKeeps DEF Inv, TypeOK, VerifyStart, writerVars, damaged
  <2>3. Walk' /\ AlarmIsTrue'
    BY <1>1, <2>1, VerifyKeeps DEF Inv, Walk, AlarmIsTrue, VerifyStart, Rows, Seqs
  <2> QED BY <2>1, <2>2, <2>3, VerifyKeeps DEF Inv
<1>2. CASE VerifyBatch
  <2>1. UNCHANGED <<users, log, writerVars, unmirrored, nulled, tampered>>
    BY <1>2 DEF VerifyBatch
  <2>2. NextBatch \subseteq Seqs /\ NextBatch \subseteq Rows
    BY DEF NextBatch, Ahead, Rows
  <2>3. CASE vPc' = "report" /\ gauge' \in BOOLEAN /\ (gauge' => Broken(NextBatch)) /\ ~failed'
             /\ UNCHANGED <<cursor, expected, first>>
    <3>1. TypeOK'
      BY <1>2, <2>1, <2>3, VerifyKeeps DEF Inv, TypeOK, VerifyBatch, writerVars
    <3>2. Walk' BY <2>3 DEF Walk
    <3>3. AlarmIsTrue'
      BY <1>2, <2>1, <2>3, VerifyKeeps, IntactPasses DEF AlarmIsTrue, VerifyBatch
    <3> QED BY <2>1, <3>1, <3>2, <3>3, VerifyKeeps DEF Inv
  <2>4. CASE /\ NextBatch # {}
             /\ \E m \in NextBatch :
                  /\ \A s \in NextBatch : s <= m
                  /\ cursor' = m /\ expected' = log[m].hash
             /\ \E f \in NextBatch : first' = IF first # 0 THEN first ELSE f
             /\ UNCHANGED <<vPc, gauge, failed>>
    <3>1. cursor' \in Rows /\ cursor' \in 0..MaxSeq /\ expected' = log[cursor'].hash
      BY <2>2, <2>4 DEF Seqs
    <3>2. first' \in 0..MaxSeq BY <2>2, <2>4 DEF Inv, TypeOK, Seqs
    <3>3. TypeOK'
      BY <1>2, <2>1, <2>4, <3>1, <3>2, VerifyKeeps DEF Inv, TypeOK, VerifyBatch, writerVars
    <3>4. Walk' /\ AlarmIsTrue'
      BY <2>1, <2>4, <3>1, VerifyKeeps DEF Inv, Walk, AlarmIsTrue
    <3> QED BY <2>1, <3>3, <3>4, VerifyKeeps DEF Inv
  <2> QED BY <1>2, <2>3, <2>4 DEF VerifyBatch
<1>4. CASE VerifyFails
  <2>1. UNCHANGED <<users, log, writerVars, unmirrored, nulled, tampered>>
    BY <1>4 DEF VerifyFails
  <2>2. TypeOK'
    BY <1>4, <2>1, VerifyKeeps DEF Inv, TypeOK, VerifyFails, VerifyEnds, writerVars
  <2>3. Walk' /\ AlarmIsTrue'
    BY <1>4 DEF Walk, AlarmIsTrue, VerifyFails, VerifyEnds
  <2> QED BY <2>1, <2>2, <2>3, VerifyKeeps DEF Inv
<1>3. CASE VerifyReport
  <2>1. CASE Begin(Verifier, NoUser, Report)
    <3>1. /\ Rows' = Rows /\ damaged' = damaged
          /\ LogShape' /\ ChainLinked' /\ NoHole' /\ RemovedBelow'
      BY <1>3, SameLog DEF VerifyReport
    <3>2. UNCHANGED <<users, log, nulled, tampered>> BY <1>3 DEF VerifyReport
    <3> HIDE DEF Begin
    <3>3. TypeOK'
      BY <1>3, <2>1, <3>1, <3>2, BeginInv DEF Inv, TypeOK, VerifyReport, VerifyEnds
    <3>4. Walk' /\ AlarmIsTrue'
      BY <1>3, <3>1 DEF Inv, Walk, AlarmIsTrue, VerifyReport, VerifyEnds
    <3> QED BY <2>1, <3>1, <3>2, <3>3, <3>4, BeginInv DEF Inv
  <2>2. CASE UNCHANGED writerVars
    <3>1. UNCHANGED <<users, log, writerVars, unmirrored, nulled, tampered>>
      BY <1>3, <2>2 DEF VerifyReport
    <3>2. TypeOK'
      BY <1>3, <3>1, VerifyKeeps DEF Inv, TypeOK, VerifyReport, VerifyEnds, writerVars
    <3>3. Walk' /\ AlarmIsTrue'
      BY <1>3, <3>1, VerifyKeeps DEF Inv, Walk, AlarmIsTrue, VerifyReport, VerifyEnds
    <3> QED BY <3>1, <3>2, <3>3, VerifyKeeps DEF Inv
  <2> QED BY <1>3, <2>1, <2>2 DEF VerifyReport
<1> QED BY <1>1, <1>2, <1>3, <1>4

----------------------------------------------------------------------------
(* What alters rows, and restarts *)

\* Alterations that leave every link and every row's place alone.
LEMMA AlteredInv ==
  ASSUME Inv, UNCHANGED <<writerVars, verifyVars, unmirrored>>,
         users' \subseteq Users,
         DOMAIN log' = Seqs, LogShape',
         Rows' = Rows,
         \A s \in Rows : /\ log'[s].user \in Users \cup {NoUser}
                         /\ log'[s].event \in Events
                         /\ log'[s].prev = log[s].prev /\ log'[s].hash = log[s].hash
                         /\ s \notin damaged' => log'[s] = log[s],
         nulled' \subseteq Seqs, tampered' \subseteq Seqs,
         nulled \subseteq nulled', tampered \subseteq tampered',
         tampered' \subseteq tampered \cup Rows
  PROVE  Inv'
<1>1. damaged \subseteq damaged' BY DEF damaged
<1>2. TypeOK' BY DEF Inv, TypeOK, writerVars, verifyVars
<1>3. ChainLinked'
  <2> SUFFICES ASSUME NEW s \in Rows
               PROVE  /\ s \notin damaged' => log'[s].hash = RowHash(s)'
                      /\ s = 1 => log'[s].prev = Genesis
                      /\ s > 1 /\ s - 1 \in Rows => log'[s].prev = log'[s - 1].hash
                      /\ s > 1 /\ s - 1 \notin Rows => s - 1 \in tampered'
    BY DEF ChainLinked
  <2>1. s \notin damaged' => log'[s].hash = RowHash(s)'
    BY <1>1 DEF Inv, ChainLinked, RowHash
  <2> QED BY <2>1 DEF Inv, ChainLinked
<1>4. NoHole' /\ RemovedBelow' BY DEF Inv, NoHole, RemovedBelow
<1>5. ASSUME NEW x \in Writers, pc'[x] = "insert" PROVE HeadRead(x)'
  BY <1>5 DEF Inv, HeadRead, writerVars
<1>6. ASSUME NEW x \in Writers PROVE Grown(x)' BY DEF Inv, Grown, writerVars
<1>7. LostOnlyToTwo' BY <1>1 DEF Inv, LostOnlyToTwo, writerVars
<1>8. Walk' /\ AlarmIsTrue' BY <1>1 DEF Inv, Walk, AlarmIsTrue, verifyVars
<1>9. PrevShape' BY DEF Inv, PrevShape, writerVars
<1> QED BY <1>2, <1>3, <1>4, <1>5, <1>6, <1>7, <1>8, <1>9 DEF Inv

LEMMA DeleteUserInv ==
  ASSUME Inv, NEW u \in Users, DeleteUser(u)
  PROVE  Inv'
<1> DEFINE new(s) == IF s \in Rows /\ log[s].user = u
                     THEN [log[s] EXCEPT !.user = NoUser] ELSE log[s]
<1>1. log' = [s \in Seqs |-> new(s)] BY DEF DeleteUser
<1>2. \A s \in Seqs :
        /\ new(s).stored = log[s].stored /\ new(s).event = log[s].event
        /\ new(s).prev = log[s].prev /\ new(s).hash = log[s].hash
        /\ new(s).user = IF s \in Rows /\ log[s].user = u THEN NoUser ELSE log[s].user
  BY DEF Inv, LogShape
<1>3. \A s \in Seqs :
        new(s) = [stored |-> new(s).stored, user |-> new(s).user, event |-> new(s).event,
                  prev |-> new(s).prev, hash |-> new(s).hash]
  <2> SUFFICES ASSUME NEW s \in Seqs
               PROVE  new(s) = [stored |-> new(s).stored, user |-> new(s).user,
                                event |-> new(s).event, prev |-> new(s).prev,
                                hash |-> new(s).hash]
    OBVIOUS
  <2>1. log[s] = [stored |-> log[s].stored, user |-> log[s].user, event |-> log[s].event,
                  prev |-> log[s].prev, hash |-> log[s].hash]
    BY DEF Inv, LogShape
  <2>2. CASE s \in Rows /\ log[s].user = u
    <3>1. new(s) = [log[s] EXCEPT !.user = NoUser] BY <2>2
    <3>2. new(s) = [stored |-> log[s].stored, user |-> NoUser, event |-> log[s].event,
                    prev |-> log[s].prev, hash |-> log[s].hash]
      BY <2>1, <3>1
    <3> QED BY <1>2, <2>2, <3>2
  <2>3. CASE ~(s \in Rows /\ log[s].user = u) BY <2>1, <2>3
  <2> QED BY <2>2, <2>3
<1>4. \A s \in Seqs : new(s).stored \in BOOLEAN BY <1>2 DEF Inv, LogShape
<1> HIDE DEF new
<1>5. LogShape' BY <1>1, <1>3, <1>4 DEF LogShape
<1>6. Rows' = Rows BY <1>1, <1>2 DEF Rows
<1>7. \A s \in Rows : s \in Seqs BY DEF Rows
<1>8. \A s \in Rows : s \notin damaged' => log'[s] = log[s]
  BY <1>1, <1>7 DEF new, DeleteUser, damaged
<1>9. \A s \in Rows : /\ log'[s].user \in Users \cup {NoUser} /\ log'[s].event \in Events
                      /\ log'[s].prev = log[s].prev /\ log'[s].hash = log[s].hash
  BY <1>1, <1>2, <1>7 DEF Inv, TypeOK
<1>10. /\ nulled \subseteq nulled' /\ nulled' \subseteq Seqs /\ tampered' = tampered
       /\ users' \subseteq Users /\ tampered \subseteq Seqs
       /\ UNCHANGED <<writerVars, verifyVars, unmirrored>>
  BY <1>7 DEF DeleteUser, Inv, TypeOK
<1>11. DOMAIN log' = Seqs BY <1>1
<1> QED BY <1>5, <1>6, <1>8, <1>9, <1>10, <1>11, AlteredInv

LEMMA EditInv ==
  ASSUME Inv, NEW k \in Seqs, Edit(k)
  PROVE  Inv'
<1>1. PICK e \in Events : log' = [log EXCEPT ![k].event = e] BY DEF Edit
<1>2. k \in Rows BY DEF Edit
<1>3. \A s \in Seqs :
        log[s] = [stored |-> log[s].stored, user |-> log[s].user, event |-> log[s].event,
                  prev |-> log[s].prev, hash |-> log[s].hash]
  BY DEF Inv, LogShape
<1>4. log'[k] = [log[k] EXCEPT !.event = e] /\ \A s \in Seqs \ {k} : log'[s] = log[s]
  BY <1>1 DEF Inv, LogShape
<1>5. log'[k] = [stored |-> log[k].stored, user |-> log[k].user, event |-> e,
                 prev |-> log[k].prev, hash |-> log[k].hash]
  BY <1>3, <1>4
<1>6. LogShape'
  <2>1. log' = [s \in Seqs |-> log'[s]] BY <1>1 DEF Inv, LogShape
  <2>2. ASSUME NEW s \in Seqs
        PROVE /\ log'[s] = [stored |-> log'[s].stored, user |-> log'[s].user,
                            event |-> log'[s].event, prev |-> log'[s].prev,
                            hash |-> log'[s].hash]
              /\ log'[s].stored \in BOOLEAN
    <3>1. CASE s = k BY <1>5, <3>1 DEF Inv, LogShape
    <3>2. CASE s # k BY <1>4, <3>2 DEF Inv, LogShape
    <3> QED BY <3>1, <3>2
  <2> QED BY <2>1, <2>2 DEF LogShape
<1>7. Rows' = Rows BY <1>4, <1>5 DEF Rows
<1>8. \A s \in Rows : /\ log'[s].user \in Users \cup {NoUser} /\ log'[s].event \in Events
                      /\ log'[s].prev = log[s].prev /\ log'[s].hash = log[s].hash
                      /\ s \notin damaged' => log'[s] = log[s]
  <2> SUFFICES ASSUME NEW s \in Rows
               PROVE  /\ log'[s].user \in Users \cup {NoUser} /\ log'[s].event \in Events
                      /\ log'[s].prev = log[s].prev /\ log'[s].hash = log[s].hash
                      /\ s \notin damaged' => log'[s] = log[s]
    OBVIOUS
  <2>1. s \in Seqs BY DEF Rows
  <2>2. log[s].user \in Users \cup {NoUser} /\ log[s].event \in Events BY DEF Inv, TypeOK
  <2>3. k \in damaged' BY DEF Edit, damaged
  <2>4. CASE s = k BY <1>5, <2>2, <2>3, <2>4
  <2>5. CASE s # k BY <1>4, <2>1, <2>2, <2>5
  <2> QED BY <2>4, <2>5
<1>9. DOMAIN log' = Seqs BY <1>6 DEF LogShape
<1> QED BY <1>2, <1>6, <1>7, <1>8, <1>9, AlteredInv DEF Inv, TypeOK, Edit

LEMMA RemoveInv ==
  ASSUME Inv, NEW k \in Seqs, Remove(k)
  PROVE  Inv'
<1>1. log' = [log EXCEPT ![k] = NoRow] /\ k \in Rows BY DEF Remove
<1>2. log'[k] = NoRow /\ \A s \in Seqs \ {k} : log'[s] = log[s]
  BY <1>1 DEF Inv, LogShape
<1>3. Rows' = Rows \ {k} BY <1>2 DEF Rows, NoRow
<1>4. tampered' = tampered \cup {k} /\ damaged' = damaged \cup {k}
  BY DEF Remove, damaged
<1>5. LogShape'
  <2>1. log' = [s \in Seqs |-> log'[s]] BY <1>1 DEF Inv, LogShape
  <2>2. ASSUME NEW s \in Seqs
        PROVE /\ log'[s] = [stored |-> log'[s].stored, user |-> log'[s].user,
                            event |-> log'[s].event, prev |-> log'[s].prev,
                            hash |-> log'[s].hash]
              /\ log'[s].stored \in BOOLEAN
    <3>1. CASE s = k
      <4>1. log'[s] = [stored |-> FALSE, user |-> NoUser, event |-> Report,
                       prev |-> Genesis, hash |-> Genesis]
        BY <1>2, <3>1 DEF NoRow
      <4>2. /\ log'[s].stored = FALSE /\ log'[s].user = NoUser /\ log'[s].event = Report
            /\ log'[s].prev = Genesis /\ log'[s].hash = Genesis
        BY <4>1
      <4> QED BY <4>1, <4>2
    <3>2. CASE s # k BY <1>2, <3>2 DEF Inv, LogShape
    <3> QED BY <3>1, <3>2
  <2> QED BY <2>1, <2>2 DEF LogShape
<1>6. TypeOK'
  <2>1. DOMAIN log' = Seqs BY <1>5 DEF LogShape
  <2>2. \A s \in Rows' : log'[s].user \in Users \cup {NoUser} /\ log'[s].event \in Events
    BY <1>2, <1>3 DEF Inv, TypeOK, Rows
  <2> QED BY <1>4, <2>1, <2>2 DEF Inv, TypeOK, Remove, writerVars, verifyVars
<1>7. ChainLinked'
  <2> SUFFICES ASSUME NEW s \in Rows'
               PROVE  /\ s \notin damaged' => log'[s].hash = RowHash(s)'
                      /\ s = 1 => log'[s].prev = Genesis
                      /\ s > 1 /\ s - 1 \in Rows' => log'[s].prev = log'[s - 1].hash
                      /\ s > 1 /\ s - 1 \notin Rows' => s - 1 \in tampered'
    BY DEF ChainLinked
  <2>1. s \in Rows /\ log'[s] = log[s] BY <1>2, <1>3 DEF Rows
  <2>2. s - 1 \in Rows' => log'[s - 1] = log[s - 1] BY <1>2, <1>3 DEF Rows
  <2> QED BY <1>3, <1>4, <2>1, <2>2 DEF Inv, ChainLinked, RowHash
<1>8. NoHole' BY <1>3, <1>4 DEF Inv, NoHole
<1>9. RemovedBelow'
  <2>1. PICK top \in Rows : top > k BY DEF Remove
  <2> SUFFICES ASSUME NEW s \in tampered' \ Rows' PROVE \E u \in Rows' : u > s
    BY DEF RemovedBelow
  <2>2. CASE s = k BY <1>3, <2>1, <2>2 DEF Rows, Seqs
  <2>3. CASE s # k
    <3>1. s \in tampered \ Rows BY <1>3, <1>4, <2>3
    <3>2. PICK u \in Rows : u > s BY <3>1 DEF Inv, RemovedBelow
    <3>3. top > s \/ u # k
      BY <2>1, <3>1, <3>2 DEF Inv, TypeOK, Rows, Seqs
    <3> QED BY <1>3, <2>1, <3>2, <3>3 DEF Rows, Seqs
  <2> QED BY <2>2, <2>3
<1>10. ASSUME NEW x \in Writers, pc'[x] = "insert" PROVE HeadRead(x)'
  <2>1. pc[x] = "insert" /\ head[x] + 1 # k BY <1>10 DEF Remove, writerVars
  <2>2. HeadRead(x) /\ head[x] + 1 \notin tampered \ Rows BY <2>1 DEF Inv, HeadRead
  <2> QED BY <1>2, <1>3, <1>4, <2>1, <2>2 DEF HeadRead, Remove, writerVars, Rows
<1>11. ASSUME NEW x \in Writers PROVE Grown(x)'
  BY <1>3, <1>4 DEF Inv, Grown, Remove, writerVars
<1>12. LostOnlyToTwo' BY <1>3, <1>4 DEF Inv, LostOnlyToTwo, Remove, writerVars
<1>13. Walk' /\ AlarmIsTrue'
  BY <1>2, <1>3, <1>4 DEF Inv, Walk, AlarmIsTrue, Remove, verifyVars, Rows
<1>14. PrevShape' BY DEF Inv, PrevShape, Remove, writerVars
<1> QED BY <1>5, <1>6, <1>7, <1>8, <1>9, <1>10, <1>11, <1>12, <1>13, <1>14 DEF Inv

LEMMA RestartInv ==
  ASSUME Inv, Restart
  PROVE  Inv'
<1>1. /\ Rows' = Rows /\ damaged' = damaged
      /\ LogShape' /\ ChainLinked' /\ NoHole' /\ RemovedBelow'
  BY SameLog DEF Restart
<1>2. \A w \in Writers : pc'[w] = "idle" BY DEF Restart
<1>3. TypeOK'
  <2>1. /\ "idle" \in Steps /\ 0 \in 0..MaxSeq /\ NoUser \in Users \cup {NoUser}
        /\ Report \in Events
    BY DEF Steps
  <2>2. \A w \in Writers : pc[w] = "mirror" => head[w] + 1 \in Seqs
    BY DEF Inv, TypeOK, Grown, Seqs
  <2> QED BY <1>1, <2>1, <2>2 DEF Inv, TypeOK, Restart, VerifyEnds
<1>4. PrevShape' BY DEF Restart, PrevShape
<1>5. /\ \A x \in Writers : pc'[x] = "insert" => HeadRead(x)'
      /\ \A x \in Writers : Grown(x)'
      /\ LostOnlyToTwo'
  BY <1>2 DEF Grown, LostOnlyToTwo
<1>6. Walk' /\ AlarmIsTrue' BY DEF Restart, VerifyEnds, Walk, AlarmIsTrue
<1> QED BY <1>1, <1>3, <1>4, <1>5, <1>6 DEF Inv

----------------------------------------------------------------------------
(* Theorems *)

LEMMA NextInv == Inv /\ [Next]_vars => Inv'
<1> SUFFICES ASSUME Inv, [Next]_vars PROVE Inv' OBVIOUS
<1>1. ASSUME NEW w \in Writers, WriterStep(w) PROVE Inv'
  BY <1>1, RecordInv, ReadHeadInv, InsertInv, InsertFailsInv, RecordFailsInv, AppendMirrorInv
     DEF WriterStep
<1>2. CASE VerifyStart \/ VerifyBatch \/ VerifyFails \/ VerifyReport BY <1>2, VerifyInv
<1>3. ASSUME NEW u \in Users, DeleteUser(u) PROVE Inv' BY <1>3, DeleteUserInv
<1>4. ASSUME NEW s \in Seqs, Edit(s) \/ Remove(s) PROVE Inv' BY <1>4, EditInv, RemoveInv
<1>5. CASE Restart BY <1>5, RestartInv
<1>6. CASE UNCHANGED vars
  <2>1. /\ Rows' = Rows /\ damaged' = damaged
        /\ LogShape' /\ PrevShape' /\ ChainLinked' /\ NoHole' /\ RemovedBelow'
        /\ \A x \in Writers : pc'[x] = "insert" => HeadRead(x)'
        /\ \A x \in Writers : Grown(x)'
        /\ LostOnlyToTwo'
    BY <1>6, VerifyKeeps DEF vars
  <2>2. TypeOK' BY <1>6, <2>1 DEF vars, writerVars, verifyVars, Inv, TypeOK
  <2>3. Walk' /\ AlarmIsTrue' BY <1>6, <2>1 DEF vars, verifyVars, Inv, Walk, AlarmIsTrue
  <2> QED BY <2>1, <2>2, <2>3 DEF Inv
<1> QED BY <1>1, <1>2, <1>3, <1>4, <1>5, <1>6 DEF Next

\* No writer or verification leaves its steps, and no number its bound.
THEOREM TypeCorrect == Spec => []TypeOK
<1>1. Inv => TypeOK BY DEF Inv
<1> QED BY InitInv, NextInv, <1>1, PTL DEF Spec

\* The chain written by record never forks and has no hole, for any number of
\* concurrent writers: two that read the same head cannot both insert.
THEOREM ChainNeverForks == Spec => []ChainLinked
<1>1. Inv => ChainLinked BY DEF Inv
<1> QED BY InitInv, NextInv, <1>1, PTL DEF Spec

\* One retry is enough against one competitor: only two rows chained since the
\* call of record make it give an event up.
THEOREM RetryBeatsOneRival == Spec => []LostOnlyToTwo
<1>1. Inv => LostOnlyToTwo BY DEF Inv
<1> QED BY InitInv, NextInv, <1>1, PTL DEF Spec

\* A verification that reads the chain to its end never raises the alarm over rows nobody
\* altered, whatever is appended between its batches and whatever the size of a batch; what
\* else raises it is a verification the database did not let end (verifyIntegrity).
THEOREM NoFalseAlarm == Spec => []AlarmIsTrue
<1>1. Inv => AlarmIsTrue BY DEF Inv
<1> QED BY InitInv, NextInv, <1>1, PTL DEF Spec

----------------------------------------------------------------------------
(* The mirror, and the append-only trail                                    *)

\* There is a last row; the mirror is a sequence of lines of rows that were inserted; a
\* writer about to append one is the only one with that row, which has no line yet.
TrailInv ==
  /\ \E h \in 0..MaxSeq : IsHead(h)
  /\ \E n \in Nat : mirror = [i \in 1..n |-> mirror[i]]
  /\ \A i \in DOMAIN mirror : mirror[i].seq \in Rows \cup tampered
  /\ \A w \in Writers : pc[w] = "mirror" =>
       /\ head[w] + 1 \in Rows \cup tampered
       /\ \A i \in DOMAIN mirror : mirror[i].seq # head[w] + 1
       /\ head[w] + 1 \in Rows => NextRow(w).hash = log[head[w] + 1].hash
  /\ \A v, w \in Writers :
       pc[v] = "mirror" /\ pc[w] = "mirror" /\ head[v] = head[w] => v = w
  /\ MirrorKeepsEvidence

\* The links of every row stay.
LinksStay ==
  /\ Rows' = Rows /\ tampered \subseteq tampered' /\ tampered' \subseteq Rows \cup tampered
  /\ \A s \in Rows : log'[s].prev = log[s].prev /\ log'[s].hash = log[s].hash
\* The writers about to append to the mirror are the same.
MirrorersStay ==
  \A w \in Writers :
    /\ pc'[w] = "mirror" <=> pc[w] = "mirror"
    /\ pc[w] = "mirror" => UNCHANGED <<head[w], prev[w], user[w], event[w]>>

LEMMA InitTrail == Init => TrailInv
<1> SUFFICES ASSUME Init PROVE TrailInv OBVIOUS
<1>1. Rows = {} BY DEF Init, Rows, NoRow
<1>2. mirror = <<>> /\ DOMAIN mirror = {} BY DEF Init
<1>3. 0 \in 0..MaxSeq /\ IsHead(0) BY <1>1 DEF IsHead
<1>4. mirror = [i \in 1..0 |-> mirror[i]] BY <1>2
<1>5. \A w \in Writers : pc[w] # "mirror" BY DEF Init
<1>6. MirrorKeepsEvidence BY <1>1, <1>2 DEF Init, MirrorKeepsEvidence
<1>7. \E n \in Nat : mirror = [i \in 1..n |-> mirror[i]]
  <2> WITNESS 0 \in Nat
  <2> QED BY <1>4
<1> QED BY <1>2, <1>3, <1>5, <1>6, <1>7 DEF TrailInv

\* A step that inserts no row, appends no line and takes no writer from its line.
LEMMA QuietTrail ==
  ASSUME Inv, TrailInv, UNCHANGED mirror, MirrorersStay,
         Rows' \subseteq Rows, Rows \cup tampered \subseteq Rows' \cup tampered',
         tampered' \subseteq Rows \cup tampered,
         \A s \in Rows' : log'[s].hash = log[s].hash,
         unmirrored \subseteq unmirrored',
         \E h \in 0..MaxSeq : IsHead(h)'
  PROVE  TrailInv'
<1>1. ASSUME NEW w \in Writers, pc'[w] = "mirror"
      PROVE  /\ head'[w] + 1 \in (Rows \cup tampered)'
             /\ \A i \in DOMAIN mirror' : mirror'[i].seq # head'[w] + 1
             /\ head'[w] + 1 \in Rows' => NextRow(w)'.hash = log'[head'[w] + 1].hash
  <2>1. pc[w] = "mirror" /\ UNCHANGED <<head[w], prev[w], user[w], event[w]>>
    BY <1>1 DEF MirrorersStay
  <2>2. NextRow(w)' = NextRow(w) BY <2>1 DEF NextRow, Payload
  <2>3. /\ head[w] + 1 \in Rows \cup tampered
        /\ \A i \in DOMAIN mirror : mirror[i].seq # head[w] + 1
        /\ head[w] + 1 \in Rows => NextRow(w).hash = log[head[w] + 1].hash
    BY <2>1 DEF TrailInv
  <2> QED BY <2>1, <2>2, <2>3
<1>2. \A v, w \in Writers :
        pc'[v] = "mirror" /\ pc'[w] = "mirror" /\ head'[v] = head'[w] => v = w
  BY DEF TrailInv, MirrorersStay
<1>3. MirrorKeepsEvidence'
  <2>1. ASSUME NEW s \in Rows' \cup tampered'
        PROVE  \/ s \in unmirrored'
               \/ \E w \in Writers : pc'[w] = "mirror" /\ head'[w] + 1 = s
               \/ \E i \in DOMAIN mirror' :
                    mirror'[i].seq = s /\ (s \in Rows' => mirror'[i].row.hash = log'[s].hash)
    <3>1. \/ s \in unmirrored
          \/ \E w \in Writers : pc[w] = "mirror" /\ head[w] + 1 = s
          \/ \E i \in DOMAIN mirror :
               mirror[i].seq = s /\ (s \in Rows => mirror[i].row.hash = log[s].hash)
      BY <2>1 DEF TrailInv, MirrorKeepsEvidence
    <3>2. ASSUME NEW w \in Writers, pc[w] = "mirror", head[w] + 1 = s
          PROVE  pc'[w] = "mirror" /\ head'[w] + 1 = s
      BY <3>2 DEF MirrorersStay
    <3>3. ASSUME NEW i \in DOMAIN mirror, mirror[i].seq = s,
                 s \in Rows => mirror[i].row.hash = log[s].hash
          PROVE  mirror'[i].seq = s /\ (s \in Rows' => mirror'[i].row.hash = log'[s].hash)
      BY <2>1, <3>3
    <3>4. s \in unmirrored => s \in unmirrored' OBVIOUS
    <3> QED BY <3>1, <3>2, <3>3, <3>4
  <2> QED BY <2>1 DEF TrailInv, MirrorKeepsEvidence, Payload
<1>4. \A i \in DOMAIN mirror' : mirror'[i].seq \in (Rows \cup tampered)' BY DEF TrailInv
<1> QED BY <1>1, <1>2, <1>3, <1>4 DEF TrailInv

\* The row a writer may insert comes right after the last one.
LEMMA InsertAtTop ==
  ASSUME Inv, NEW w \in Writers, Insert(w)
  PROVE  /\ IsHead(head[w]) /\ head[w] \in 0..MaxSeq
         /\ head[w] + 1 \in Seqs \ (Rows \cup tampered)
<1> DEFINE k == head[w] + 1
<1>1. k \in Seqs /\ k \notin Rows /\ k \notin tampered
  BY DEF Inv, TypeOK, Insert, Conflict, HeadRead, Seqs
<1>2. head[w] \in 0..MaxSeq BY DEF Inv, TypeOK
<1>3. \A s \in Rows : s <= head[w]
  <2> SUFFICES ASSUME NEW s \in Rows, s > head[w] PROVE FALSE
    BY <1>2 DEF Rows, Seqs
  <2>1. s \in Seqs BY DEF Rows
  <2>2. s # k BY <1>1
  <2>3. k < s BY <2>1, <2>2, <1>2 DEF Seqs
  <2> QED BY <1>1, <2>3 DEF Inv, NoHole
<1>4. head[w] \in Rows \cup {0}
  <2> SUFFICES ASSUME head[w] # 0, head[w] \notin Rows PROVE FALSE OBVIOUS
  <2>1. HeadRead(w) BY DEF Inv, Insert
  <2>2. head[w] \in tampered \ Rows BY <2>1 DEF HeadRead
  <2>3. PICK u \in Rows : u > head[w] BY <2>2 DEF Inv, RemovedBelow
  <2> QED BY <1>2, <1>3, <2>3 DEF Rows, Seqs
<1> QED BY <1>1, <1>2, <1>3, <1>4 DEF IsHead

LEMMA InsertTrail ==
  ASSUME Inv, TrailInv, NEW w \in Writers, Insert(w)
  PROVE  TrailInv'
<1> DEFINE k == head[w] + 1
<1>1. IsHead(head[w]) /\ head[w] \in 0..MaxSeq /\ k \in Seqs \ (Rows \cup tampered)
  BY InsertAtTop
<1>2. log'[k] = NextRow(w) /\ \A s \in Seqs \ {k} : log'[s] = log[s]
  BY <1>1 DEF Insert, Inv, LogShape
<1>3. Rows' = Rows \cup {k} /\ tampered' = tampered
  BY <1>1, <1>2 DEF Rows, NextRow, Insert
<1>4. /\ pc'[w] = "mirror" /\ pc[w] = "insert"
      /\ \A x \in Writers \ {w} : pc'[x] = pc[x]
      /\ UNCHANGED <<mirror, user, event, head, prev, unmirrored>>
  BY DEF Insert, Inv, TypeOK
<1>5. \A x \in Writers : NextRow(x)' = NextRow(x) BY <1>4 DEF NextRow, Payload
<1>6. \E h \in 0..MaxSeq : IsHead(h)'
  <2>1. k \in 0..MaxSeq BY <1>1 DEF Seqs
  <2>2. k \in Rows' /\ \A s \in Rows' : s <= k BY <1>1, <1>3 DEF IsHead, Rows, Seqs
  <2>3. \E h \in 0..MaxSeq : h \in Rows' \cup {0} /\ \A s \in Rows' : s <= h
    BY <2>1, <2>2
  <2> QED BY <2>3 DEF IsHead
<1>7. \A i \in DOMAIN mirror : mirror[i].seq \in Rows \cup tampered /\ mirror[i].seq # k
  BY <1>1 DEF TrailInv
<1>8. ASSUME NEW x \in Writers, pc'[x] = "mirror"
      PROVE  /\ head'[x] + 1 \in (Rows \cup tampered)'
             /\ \A i \in DOMAIN mirror' : mirror'[i].seq # head'[x] + 1
             /\ head'[x] + 1 \in Rows' => NextRow(x)'.hash = log'[head'[x] + 1].hash
  <2>1. CASE x = w BY <2>1, <1>2, <1>3, <1>4, <1>5, <1>7
  <2>2. CASE x # w
    <3>1. /\ head[x] + 1 \in Rows \cup tampered
          /\ \A i \in DOMAIN mirror : mirror[i].seq # head[x] + 1
          /\ head[x] + 1 \in Rows => NextRow(x).hash = log[head[x] + 1].hash
      BY <1>4, <1>8, <2>2 DEF TrailInv
    <3>2. head[x] + 1 # k BY <1>1, <3>1
    <3> QED BY <1>2, <1>3, <1>4, <1>5, <3>1, <3>2 DEF Rows
  <2> QED BY <2>1, <2>2
<1>9. ASSUME NEW v \in Writers, NEW x \in Writers,
             pc'[v] = "mirror", pc'[x] = "mirror", head'[v] = head'[x]
      PROVE  v = x
  <2>1. \A y \in Writers : pc[y] = "mirror" => head[y] # head[w]
    BY <1>1 DEF TrailInv
  <2> QED BY <1>4, <1>9, <2>1 DEF TrailInv
<1>10. MirrorKeepsEvidence'
  <2>1. ASSUME NEW s \in Rows' \cup tampered'
        PROVE  \/ s \in unmirrored'
               \/ \E x \in Writers : pc'[x] = "mirror" /\ head'[x] + 1 = s
               \/ \E i \in DOMAIN mirror' :
                    mirror'[i].seq = s /\ (s \in Rows' => mirror'[i].row.hash = log'[s].hash)
    <3>1. CASE s = k BY <1>4, <3>1
    <3>2. CASE s # k
      <4>1. s \in Rows \cup tampered /\ (s \in Rows' => s \in Rows /\ log'[s] = log[s])
        BY <1>2, <1>3, <2>1, <3>2 DEF Rows
      <4>2. \A x \in Writers : pc[x] = "mirror" => pc'[x] = "mirror" BY <1>4
      <4> QED BY <1>4, <4>1, <4>2 DEF TrailInv, MirrorKeepsEvidence
    <3> QED BY <3>1, <3>2
  <2> QED BY <1>4, <2>1 DEF TrailInv, MirrorKeepsEvidence, Payload
<1>11. \A i \in DOMAIN mirror' : mirror'[i].seq \in (Rows \cup tampered)'
  BY <1>3, <1>4, <1>7
<1>12. \E n \in Nat : mirror' = [i \in 1..n |-> mirror'[i]] BY <1>4 DEF TrailInv
<1> QED BY <1>6, <1>8, <1>9, <1>10, <1>11, <1>12 DEF TrailInv

\* What Append does to the mirror.
LEMMA AppendsLine ==
  ASSUME TrailInv, NEW line, mirror' = Append(mirror, line)
  PROVE  \E n \in Nat :
           /\ DOMAIN mirror = 1..n /\ DOMAIN mirror' = 1..(n + 1)
           /\ mirror' = [i \in 1..(n + 1) |-> mirror'[i]]
           /\ mirror'[n + 1] = line /\ \A i \in 1..n : mirror'[i] = mirror[i]
<1>1. PICK n \in Nat : mirror = [i \in 1..n |-> mirror[i]] BY DEF TrailInv
<1> DEFINE S == {mirror[i] : i \in 1..n} \cup {line}
<1>2. mirror \in Seq(S) BY <1>1
<1>3. Len(mirror) = n BY <1>1, <1>2, LenProperties
<1>4. /\ mirror' \in Seq(S) /\ Len(mirror') = n + 1
      /\ mirror'[n + 1] = line /\ \A i \in 1..n : mirror'[i] = mirror[i]
  BY <1>2, <1>3, AppendProperties
<1>5. DOMAIN mirror' = 1..(n + 1) /\ mirror' = [i \in 1..(n + 1) |-> mirror'[i]]
  BY <1>4, LenProperties
<1> QED BY <1>1, <1>4, <1>5

LEMMA AppendTrail ==
  ASSUME Inv, TrailInv, NEW w \in Writers, AppendMirror(w), mirror' = Append(mirror, Line(w)),
         UNCHANGED unmirrored
  PROVE  TrailInv'
<1>1. /\ pc[w] = "mirror" /\ pc'[w] = "idle"
      /\ UNCHANGED <<log, nulled, tampered, unmirrored>>
      /\ mirror' = Append(mirror, Line(w))
  BY DEF AppendMirror, Return, Inv, TypeOK
<1>2. \A x \in Writers \ {w} :
        pc'[x] = pc[x] /\ UNCHANGED <<head[x], prev[x], user[x], event[x]>>
  BY DEF AppendMirror, Return, Inv, TypeOK, PrevShape
<1>3. Rows' = Rows BY <1>1 DEF Rows
<1>4. PICK n \in Nat :
           /\ DOMAIN mirror = 1..n /\ DOMAIN mirror' = 1..(n + 1)
           /\ mirror' = [i \in 1..(n + 1) |-> mirror'[i]]
           /\ mirror'[n + 1] = Line(w) /\ \A i \in 1..n : mirror'[i] = mirror[i]
  BY <1>1, AppendsLine
<1>5. /\ Line(w).seq = head[w] + 1 /\ Line(w).row = NextRow(w)
      /\ head[w] + 1 \in Rows \cup tampered
      /\ \A i \in 1..n : mirror[i].seq # head[w] + 1
      /\ head[w] + 1 \in Rows => NextRow(w).hash = log[head[w] + 1].hash
  BY <1>1, <1>4 DEF TrailInv, Line
<1>6. \A i \in 1..(n + 1) : i \in 1..n \/ i = n + 1 BY <1>4
<1>7. \A i \in DOMAIN mirror' : mirror'[i].seq \in (Rows \cup tampered)'
  BY <1>1, <1>3, <1>4, <1>5, <1>6 DEF TrailInv
<1>8. ASSUME NEW x \in Writers, pc'[x] = "mirror"
      PROVE  /\ head'[x] + 1 \in (Rows \cup tampered)'
             /\ \A i \in DOMAIN mirror' : mirror'[i].seq # head'[x] + 1
             /\ head'[x] + 1 \in Rows' => NextRow(x)'.hash = log'[head'[x] + 1].hash
  <2>1. x # w /\ pc[x] = "mirror" /\ UNCHANGED <<head[x], prev[x], user[x], event[x]>>
    BY <1>1, <1>2, <1>8
  <2>2. NextRow(x)' = NextRow(x) BY <2>1 DEF NextRow, Payload
  <2>3. /\ head[x] + 1 \in Rows \cup tampered
        /\ \A i \in DOMAIN mirror : mirror[i].seq # head[x] + 1
        /\ head[x] + 1 \in Rows => NextRow(x).hash = log[head[x] + 1].hash
        /\ head[x] # head[w]
    BY <1>1, <2>1 DEF TrailInv
  <2>4. head[x] + 1 # head[w] + 1 BY <2>3 DEF Inv, TypeOK
  <2> QED BY <1>1, <1>3, <1>4, <1>5, <1>6, <2>1, <2>2, <2>3, <2>4
<1>9. ASSUME NEW v \in Writers, NEW x \in Writers,
             pc'[v] = "mirror", pc'[x] = "mirror", head'[v] = head'[x]
      PROVE  v = x
  <2>1. v # w /\ x # w BY <1>1, <1>9
  <2>2. pc[v] = "mirror" /\ pc[x] = "mirror" /\ head[v] = head[x] BY <1>2, <1>9, <2>1
  <2> QED BY <2>2 DEF TrailInv
<1>10. MirrorKeepsEvidence'
  <2>1. \A i, j \in DOMAIN mirror' : mirror'[i].seq = mirror'[j].seq => i = j
    <3>1. \A i, j \in 1..n : mirror[i].seq = mirror[j].seq => i = j
      BY <1>4 DEF TrailInv, MirrorKeepsEvidence
    <3> SUFFICES ASSUME NEW i \in DOMAIN mirror', NEW j \in DOMAIN mirror',
                        mirror'[i].seq = mirror'[j].seq
                 PROVE  i = j
      OBVIOUS
    <3>2. i \in 1..(n + 1) /\ j \in 1..(n + 1) BY <1>4
    <3> QED BY <1>4, <1>5, <1>6, <3>1, <3>2
  <2>2. ASSUME NEW i \in DOMAIN mirror'
        PROVE  mirror'[i].row.hash =
                 Hash(mirror'[i].row.prev,
                      Payload(mirror'[i].seq, mirror'[i].row.user, mirror'[i].row.event))
    <3>1. CASE i \in 1..n BY <1>4, <3>1 DEF TrailInv, MirrorKeepsEvidence
    <3>2. CASE i = n + 1
      <4>1. NextRow(w).hash =
              Hash(NextRow(w).prev, Payload(head[w] + 1, NextRow(w).user, NextRow(w).event))
        BY DEF NextRow
      <4> QED BY <1>4, <1>5, <3>2, <4>1
    <3> QED BY <1>4, <1>6, <2>2, <3>1, <3>2
  <2>3. ASSUME NEW s \in Rows' \cup tampered'
        PROVE  \/ s \in unmirrored'
               \/ \E x \in Writers : pc'[x] = "mirror" /\ head'[x] + 1 = s
               \/ \E i \in DOMAIN mirror' :
                    mirror'[i].seq = s /\ (s \in Rows' => mirror'[i].row.hash = log'[s].hash)
    <3>1. CASE s = head[w] + 1
      <4>1. n + 1 \in DOMAIN mirror' BY <1>4
      <4>2. mirror'[n + 1].seq = s /\ (s \in Rows' => mirror'[n + 1].row.hash = log'[s].hash)
        BY <1>1, <1>3, <1>4, <1>5, <2>3, <3>1
      <4> QED BY <4>1, <4>2
    <3>2. CASE s # head[w] + 1
      <4>1. \/ s \in unmirrored
            \/ \E x \in Writers : pc[x] = "mirror" /\ head[x] + 1 = s
            \/ \E i \in DOMAIN mirror :
                 mirror[i].seq = s /\ (s \in Rows => mirror[i].row.hash = log[s].hash)
        BY <1>1, <1>3, <2>3 DEF TrailInv, MirrorKeepsEvidence
      <4>2. CASE s \in unmirrored BY <1>1, <4>2
      <4>3. ASSUME NEW x \in Writers, pc[x] = "mirror", head[x] + 1 = s
            PROVE  pc'[x] = "mirror" /\ head'[x] + 1 = s
        BY <1>2, <3>2, <4>3
      <4>4. ASSUME NEW i \in DOMAIN mirror, mirror[i].seq = s,
                   s \in Rows => mirror[i].row.hash = log[s].hash
            PROVE  /\ i \in DOMAIN mirror' /\ mirror'[i].seq = s
                   /\ s \in Rows' => mirror'[i].row.hash = log'[s].hash
        BY <1>1, <1>3, <1>4, <4>4
      <4> QED BY <4>1, <4>2, <4>3, <4>4
    <3> QED BY <3>1, <3>2
  <2> QED BY <2>1, <2>2, <2>3 DEF MirrorKeepsEvidence
<1>11. \E h \in 0..MaxSeq : IsHead(h)' BY <1>3 DEF TrailInv, IsHead
<1>12. \E m \in Nat : mirror' = [i \in 1..m |-> mirror'[i]]
  <2>1. n + 1 \in Nat BY <1>4
  <2> QED BY <1>4, <2>1
<1> QED BY <1>7, <1>8, <1>9, <1>10, <1>11, <1>12 DEF TrailInv

\* An append that fails leaves the row to those without a line.
LEMMA NoLineTrail ==
  ASSUME Inv, TrailInv, NEW w \in Writers, AppendMirror(w), UNCHANGED mirror,
         unmirrored' = unmirrored \cup {head[w] + 1}
  PROVE  TrailInv'
<1>1. /\ pc[w] = "mirror" /\ pc'[w] = "idle"
      /\ UNCHANGED <<log, nulled, tampered>>
  BY DEF AppendMirror, Return, Inv, TypeOK
<1>2. \A x \in Writers \ {w} :
        pc'[x] = pc[x] /\ UNCHANGED <<head[x], prev[x], user[x], event[x]>>
  BY DEF AppendMirror, Return, Inv, TypeOK, PrevShape
<1>3. Rows' = Rows BY <1>1 DEF Rows
<1>4. ASSUME NEW x \in Writers, pc'[x] = "mirror"
      PROVE  /\ pc[x] = "mirror" /\ head'[x] = head[x]
             /\ head'[x] + 1 \in (Rows \cup tampered)'
             /\ \A i \in DOMAIN mirror' : mirror'[i].seq # head'[x] + 1
             /\ head'[x] + 1 \in Rows' => NextRow(x)'.hash = log'[head'[x] + 1].hash
  <2>1. x # w /\ pc[x] = "mirror" /\ UNCHANGED <<head[x], prev[x], user[x], event[x]>>
    BY <1>1, <1>2, <1>4
  <2>2. NextRow(x)' = NextRow(x) BY <2>1 DEF NextRow, Payload
  <2>3. /\ head[x] + 1 \in Rows \cup tampered
        /\ \A i \in DOMAIN mirror : mirror[i].seq # head[x] + 1
        /\ head[x] + 1 \in Rows => NextRow(x).hash = log[head[x] + 1].hash
    BY <2>1 DEF TrailInv
  <2> QED BY <1>1, <1>3, <2>1, <2>2, <2>3
<1>5. MirrorKeepsEvidence'
  <2>1. ASSUME NEW s \in Rows \cup tampered
        PROVE  \/ s \in unmirrored'
               \/ \E x \in Writers : pc'[x] = "mirror" /\ head'[x] + 1 = s
               \/ \E i \in DOMAIN mirror :
                    mirror[i].seq = s /\ (s \in Rows => mirror[i].row.hash = log[s].hash)
    <3>1. ASSUME NEW x \in Writers, pc[x] = "mirror", head[x] + 1 = s
          PROVE  \/ s \in unmirrored'
                 \/ pc'[x] = "mirror" /\ head'[x] + 1 = s
      BY <1>2, <3>1
    <3> QED BY <3>1 DEF TrailInv, MirrorKeepsEvidence
  <2> QED BY <1>1, <1>3, <2>1 DEF TrailInv, MirrorKeepsEvidence, Payload
<1>6. \E h \in 0..MaxSeq : IsHead(h)' BY <1>3 DEF TrailInv, IsHead
<1>7. \A v, x \in Writers :
        pc'[v] = "mirror" /\ pc'[x] = "mirror" /\ head'[v] = head'[x] => v = x
  BY <1>4 DEF TrailInv
<1> QED BY <1>1, <1>3, <1>4, <1>5, <1>6, <1>7 DEF TrailInv

LEMMA RestartTrail ==
  ASSUME Inv, TrailInv, Restart
  PROVE  TrailInv'
<1>1. /\ Rows' = Rows /\ UNCHANGED <<log, mirror, tampered>>
      /\ unmirrored' = unmirrored \cup {head[w] + 1 : w \in {x \in Writers : pc[x] = "mirror"}}
      /\ \A w \in Writers : pc'[w] = "idle"
  BY DEF Restart, Rows
<1>2. MirrorKeepsEvidence'
  <2>1. ASSUME NEW s \in Rows \cup tampered
        PROVE  s \in unmirrored' \/ \E i \in DOMAIN mirror :
                  mirror[i].seq = s /\ (s \in Rows => mirror[i].row.hash = log[s].hash)
    BY <1>1, <2>1 DEF TrailInv, MirrorKeepsEvidence
  <2> QED BY <1>1, <2>1 DEF TrailInv, MirrorKeepsEvidence, Payload
<1> QED BY <1>1, <1>2 DEF TrailInv, IsHead

LEMMA DeleteUserLinks ==
  ASSUME Inv, NEW u \in Users, DeleteUser(u)
  PROVE  LinksStay
<1>1. \A s \in Seqs : /\ log'[s].stored = log[s].stored
                      /\ log'[s].prev = log[s].prev /\ log'[s].hash = log[s].hash
  BY DEF DeleteUser, Inv, LogShape
<1> QED BY <1>1 DEF LinksStay, Rows, DeleteUser

LEMMA EditLinks ==
  ASSUME Inv, NEW k \in Seqs, Edit(k)
  PROVE  LinksStay
<1>1. \A s \in Seqs : /\ log'[s].stored = log[s].stored
                      /\ log'[s].prev = log[s].prev /\ log'[s].hash = log[s].hash
  BY DEF Edit, Inv, LogShape
<1> QED BY <1>1 DEF LinksStay, Rows, Edit

LEMMA RemoveLinks ==
  ASSUME Inv, NEW k \in Seqs, Remove(k)
  PROVE  /\ k \in Rows /\ Rows' = Rows \ {k} /\ tampered' = tampered \cup {k}
         /\ \E u \in Rows : u > k
         /\ \A s \in Rows' : log'[s] = log[s]
<1>1. log' = [log EXCEPT ![k] = NoRow] /\ k \in Rows BY DEF Remove
<1>2. log'[k] = NoRow /\ \A s \in Seqs \ {k} : log'[s] = log[s]
  BY <1>1 DEF Inv, LogShape
<1> QED BY <1>1, <1>2 DEF Rows, NoRow, Remove

\* The last row stays the last when the links of all rows stay, and when another is removed.
LEMMA HeadStays ==
  ASSUME Inv, NEW h \in 0..MaxSeq, IsHead(h),
         Rows' = Rows \/ \E k \in Seqs : Remove(k)
  PROVE  h \in Rows' \cup {0} /\ \A s \in Rows' : s <= h
<1>1. CASE Rows' = Rows BY <1>1 DEF IsHead
<1>2. ASSUME NEW k \in Seqs, Remove(k) PROVE h \in Rows' \cup {0} /\ \A s \in Rows' : s <= h
  <2>1. Rows' = Rows \ {k} /\ \E u \in Rows : u > k BY <1>2, RemoveLinks
  <2>2. h # k BY <2>1 DEF IsHead, Rows, Seqs
  <2> QED BY <2>1, <2>2 DEF IsHead
<1> QED BY <1>1, <1>2

\* The steps of a writer before it inserts, and what it does when that fails.
LEMMA WriterStays ==
  ASSUME Inv, NEW w \in Writers, Record(w) \/ ReadHead(w) \/ InsertFails(w) \/ RecordFails(w)
  PROVE  MirrorersStay /\ UNCHANGED <<log, mirror, unmirrored, tampered>>
<1>1. CASE Record(w)
  <2>1. PICK u \in users \cup {NoUser}, e \in Events : Begin(w, u, e) BY <1>1 DEF Record
  <2>2. pc[w] # "mirror" /\ pc'[w] = "read" /\ \A x \in Writers \ {w} : pc'[x] = pc[x]
    BY <2>1 DEF Begin, Rest, Inv, TypeOK
  <2>3. \A x \in Writers \ {w} : UNCHANGED <<head[x], prev[x], user[x], event[x]>>
    BY <2>1 DEF Begin, Inv, TypeOK
  <2> QED BY <1>1, <2>2, <2>3 DEF MirrorersStay, Record
<1>2. CASE ReadHead(w)
  BY <1>2 DEF ReadHead, MirrorersStay, Inv, TypeOK, PrevShape
<1>3. CASE InsertFails(w)
  <2>1. \A x \in Writers \ {w} :
          pc'[x] = pc[x] /\ UNCHANGED <<head[x], prev[x], user[x], event[x]>>
    BY <1>3 DEF InsertFails, Return, Inv, TypeOK, PrevShape
  <2>2. pc[w] = "insert" /\ pc'[w] # "mirror"
    BY <1>3 DEF InsertFails, Return, Inv, TypeOK
  <2> QED BY <1>3, <2>1, <2>2 DEF MirrorersStay, InsertFails
<1>4. CASE RecordFails(w)
  <2>1. \A x \in Writers \ {w} :
          pc'[x] = pc[x] /\ UNCHANGED <<head[x], prev[x], user[x], event[x]>>
    BY <1>4 DEF RecordFails, Return, Inv, TypeOK, PrevShape
  <2>2. pc[w] # "mirror" /\ pc'[w] = "idle"
    BY <1>4 DEF RecordFails, Return, Inv, TypeOK
  <2> QED BY <1>4, <2>1, <2>2 DEF MirrorersStay, RecordFails
<1> QED BY <1>1, <1>2, <1>3, <1>4

LEMMA NextTrail == Inv /\ TrailInv /\ [Next]_vars => TrailInv'
<1> SUFFICES ASSUME Inv, TrailInv, [Next]_vars PROVE TrailInv' OBVIOUS
<1>1. PICK h \in 0..MaxSeq : IsHead(h) BY DEF TrailInv
<1>2. ASSUME LinksStay, UNCHANGED mirror, MirrorersStay, unmirrored \subseteq unmirrored'
      PROVE  TrailInv'
  <2>1. \E g \in 0..MaxSeq : IsHead(g)' BY <1>1, <1>2 DEF LinksStay, IsHead
  <2> QED BY <1>2, <2>1, QuietTrail DEF LinksStay
<1>3. ASSUME NEW w \in Writers, WriterStep(w) PROVE TrailInv'
  <2>1. CASE Record(w) \/ ReadHead(w) \/ InsertFails(w) \/ RecordFails(w)
    <3>1. LinksStay /\ UNCHANGED mirror /\ MirrorersStay /\ unmirrored' = unmirrored
      BY <2>1, WriterStays DEF LinksStay, Rows
    <3> QED BY <1>2, <3>1
  <2>2. CASE Insert(w) BY <2>2, InsertTrail
  <2>3. CASE AppendMirror(w) BY <2>3, AppendTrail, NoLineTrail DEF AppendMirror
  <2> QED BY <1>3, <2>1, <2>2, <2>3 DEF WriterStep
<1>4. CASE VerifyStart \/ VerifyBatch \/ VerifyFails \/ UNCHANGED vars
  <2>1. UNCHANGED <<log, mirror, writerVars, unmirrored, tampered>>
    BY <1>4 DEF VerifyStart, VerifyBatch, VerifyFails, vars
  <2>2. LinksStay /\ MirrorersStay BY <2>1 DEF LinksStay, Rows, MirrorersStay, writerVars
  <2> QED BY <1>2, <2>1, <2>2
<1>5. CASE VerifyReport
  <2>1. UNCHANGED <<log, mirror, unmirrored, tampered>> BY <1>5 DEF VerifyReport
  <2>2. CASE Begin(Verifier, NoUser, Report)
    <3>1. Verifier \in Writers BY WritersAssumption
    <3>2. pc[Verifier] # "mirror" /\ pc'[Verifier] = "read"
          /\ \A x \in Writers \ {Verifier} : pc'[x] = pc[x]
      BY <2>2, <3>1 DEF Begin, Rest, Inv, TypeOK
    <3>3. \A x \in Writers \ {Verifier} : UNCHANGED <<head[x], prev[x], user[x], event[x]>>
      BY <2>2, <3>1 DEF Begin, Inv, TypeOK
    <3>4. LinksStay /\ MirrorersStay
      BY <2>1, <3>1, <3>2, <3>3 DEF LinksStay, Rows, MirrorersStay
    <3> QED BY <1>2, <2>1, <3>4
  <2>3. CASE UNCHANGED writerVars
    <3>1. LinksStay /\ MirrorersStay
      BY <2>1, <2>3 DEF LinksStay, Rows, MirrorersStay, writerVars
    <3> QED BY <1>2, <2>1, <3>1
  <2> QED BY <1>5, <2>2, <2>3 DEF VerifyReport
<1>6. ASSUME NEW u \in Users, DeleteUser(u) PROVE TrailInv'
  <2>1. UNCHANGED <<mirror, writerVars, unmirrored>> BY <1>6 DEF DeleteUser
  <2>2. MirrorersStay BY <2>1 DEF MirrorersStay, writerVars
  <2> QED BY <1>2, <1>6, <2>1, <2>2, DeleteUserLinks
<1>7. ASSUME NEW k \in Seqs, Edit(k) PROVE TrailInv'
  <2>1. UNCHANGED <<mirror, writerVars, unmirrored>> BY <1>7 DEF Edit
  <2>2. MirrorersStay BY <2>1 DEF MirrorersStay, writerVars
  <2> QED BY <1>2, <1>7, <2>1, <2>2, EditLinks
<1>8. ASSUME NEW k \in Seqs, Remove(k) PROVE TrailInv'
  <2>1. UNCHANGED <<mirror, writerVars, unmirrored>> BY <1>8 DEF Remove
  <2>2. MirrorersStay BY <2>1 DEF MirrorersStay, writerVars
  <2>3. /\ Rows' \subseteq Rows /\ Rows \cup tampered \subseteq Rows' \cup tampered'
        /\ tampered' \subseteq Rows \cup tampered
        /\ \A s \in Rows' : log'[s].hash = log[s].hash
    BY <1>8, RemoveLinks
  <2>4. \E g \in 0..MaxSeq : IsHead(g)' BY <1>1, <1>8, HeadStays DEF IsHead
  <2> QED BY <2>1, <2>2, <2>3, <2>4, QuietTrail
<1>9. CASE Restart BY <1>9, RestartTrail
<1> QED BY <1>3, <1>4, <1>5, <1>6, <1>7, <1>8, <1>9 DEF Next

\* There is one last row, and Top is its number.
LEMMA TopIsHead ==
  ASSUME Inv, NEW h \in 0..MaxSeq, IsHead(h)
  PROVE  Top = h
<1>1. \A g \in 0..MaxSeq : IsHead(g) => g = h BY DEF IsHead, Rows, Seqs
<1> QED BY <1>1 DEF Top

\* When the links of all rows stay and the mirror does, nothing happens to the trail.
LEMMA TrailStutters ==
  ASSUME Inv, Inv', TrailInv, LinksStay, UNCHANGED mirror
  PROVE  UNCHANGED T!vars
<1>1. PICK h \in 0..MaxSeq : IsHead(h) BY DEF TrailInv
<1>2. Top = h BY <1>1, TopIsHead
<1>3. Top' = h
  <2>1. \A g \in 0..MaxSeq : (g \in Rows' \cup {0} /\ \A s \in Rows' : s <= g) <=> g = h
    BY <1>1 DEF LinksStay, IsHead, Rows, Seqs
  <2> QED BY <2>1 DEF Top, IsHead
<1>4. Links' = Links BY DEF Links, LinksStay
<1>5. Copies' = Copies BY DEF Copies
<1> QED BY <1>2, <1>3, <1>4, <1>5 DEF T!vars

LEMMA InsertChains ==
  ASSUME Inv, TrailInv, NEW w \in Writers, Insert(w)
  PROVE  T!Chain
<1> DEFINE k == head[w] + 1
<1>1. IsHead(head[w]) /\ head[w] \in 0..MaxSeq /\ k \in Seqs \ (Rows \cup tampered)
  BY InsertAtTop
<1>2. log'[k] = NextRow(w) /\ \A s \in Seqs \ {k} : log'[s] = log[s]
  BY <1>1 DEF Insert, Inv, LogShape
<1>3. Rows' = Rows \cup {k} BY <1>1, <1>2 DEF Rows, NextRow
<1>4. Top = head[w] BY <1>1, TopIsHead
<1>5. Top' = k
  <2>1. \A g \in 0..MaxSeq : (g \in Rows' \cup {0} /\ \A s \in Rows' : s <= g) <=> g = k
    BY <1>1, <1>3 DEF IsHead, Rows, Seqs
  <2>2. k \in 0..MaxSeq BY <1>1 DEF Seqs
  <2> QED BY <2>1, <2>2 DEF Top, IsHead
<1>6. DOMAIN Links = Rows /\ DOMAIN Links' = Rows \cup {k} BY <1>3 DEF Links
<1>7. \A s \in Rows : Links'[s] = Links[s] BY <1>1, <1>2, <1>3 DEF Links, Rows
<1>8. Links'[k].prev = IF head[w] = 0 THEN Genesis ELSE Links[head[w]].hash
  <2>1. Links'[k].prev = prev[w] BY <1>2, <1>3 DEF Links, NextRow
  <2>2. HeadRead(w) BY DEF Inv, Insert
  <2>3. CASE head[w] = 0 BY <2>1, <2>2, <2>3 DEF HeadRead
  <2>4. CASE head[w] # 0
    <3>1. head[w] \in Rows BY <1>1, <2>4 DEF IsHead
    <3> QED BY <2>1, <2>2, <2>4, <3>1 DEF HeadRead, Links
  <2> QED BY <2>3, <2>4
<1>9. Copies' = Copies BY DEF Copies, Insert
<1> QED BY <1>4, <1>5, <1>6, <1>7, <1>8, <1>9 DEF T!Chain, T!Agree

LEMMA AppendCopies ==
  ASSUME Inv, Inv', TrailInv, NEW w \in Writers, AppendMirror(w),
         mirror' = Append(mirror, Line(w))
  PROVE  T!Copy
<1> DEFINE k == head[w] + 1
<1>1. pc[w] = "mirror" /\ UNCHANGED log /\ mirror' = Append(mirror, Line(w))
  BY DEF AppendMirror
<1>2. PICK h \in 0..MaxSeq : IsHead(h) BY DEF TrailInv
<1>3. Top = h /\ Top' = Top /\ Links' = Links
  <2>1. Top = h BY <1>2, TopIsHead
  <2>2. Rows' = Rows /\ Links' = Links BY <1>1 DEF Rows, Links
  <2> QED BY <2>1, <2>2 DEF Top, IsHead
<1>4. k \in Rows \cup tampered /\ k \notin Copies
  BY <1>1 DEF TrailInv, Copies
<1>5. k \in 1..Top
  <2>1. k <= h BY <1>2, <1>4, HeadIsTop
  <2>2. k \in Seqs BY <1>4 DEF Rows, Inv, TypeOK
  <2> QED BY <1>3, <2>1, <2>2 DEF Seqs
<1>6. Copies' = Copies \cup {k}
  <2>1. PICK n \in Nat :
           /\ DOMAIN mirror = 1..n /\ DOMAIN mirror' = 1..(n + 1)
           /\ mirror'[n + 1] = Line(w) /\ \A i \in 1..n : mirror'[i] = mirror[i]
    BY <1>1, AppendsLine
  <2>2. 1..(n + 1) = (1..n) \cup {n + 1} BY <2>1
  <2>3. Line(w).seq = k BY DEF Line
  <2>4. {mirror'[i].seq : i \in 1..n} = {mirror[i].seq : i \in 1..n} BY <2>1
  <2> QED BY <2>1, <2>2, <2>3, <2>4 DEF Copies
<1> QED BY <1>3, <1>4, <1>5, <1>6 DEF T!Copy

LEMMA RemoveLoses ==
  ASSUME Inv, TrailInv, NEW k \in Seqs, Remove(k)
  PROVE  T!Lose
<1>1. /\ k \in Rows /\ Rows' = Rows \ {k} /\ \E u \in Rows : u > k
      /\ \A s \in Rows' : log'[s] = log[s]
  BY RemoveLinks
<1>2. PICK h \in 0..MaxSeq : IsHead(h) BY DEF TrailInv
<1>3. Top = h BY <1>2, TopIsHead
<1>4. h # k BY <1>1, <1>2 DEF IsHead, Rows, Seqs
<1>5. Top' = h
  <2>1. \A g \in 0..MaxSeq : (g \in Rows' \cup {0} /\ \A s \in Rows' : s <= g) <=> g = h
    BY <1>1, <1>2, <1>4 DEF IsHead, Rows, Seqs
  <2> QED BY <2>1 DEF Top, IsHead
<1>6. DOMAIN Links = Rows /\ DOMAIN Links' = Rows \ {k} BY <1>1 DEF Links
<1>7. \A s \in Rows \ {k} : Links'[s] = Links[s] BY <1>1 DEF Links
<1>8. Copies' = Copies BY DEF Copies, Remove
<1> QED BY <1>1, <1>3, <1>4, <1>5, <1>6, <1>7, <1>8 DEF T!Lose, T!Agree

LEMMA StepIsTrail == Inv /\ Inv' /\ TrailInv /\ [Next]_vars => [T!Next]_T!vars
<1> SUFFICES ASSUME Inv, Inv', TrailInv, [Next]_vars PROVE [T!Next]_T!vars OBVIOUS
<1>1. ASSUME NEW w \in Writers, WriterStep(w) PROVE [T!Next]_T!vars
  <2>1. CASE Record(w) \/ ReadHead(w) \/ InsertFails(w) \/ RecordFails(w)
    <3>1. LinksStay /\ UNCHANGED mirror BY <2>1, WriterStays DEF LinksStay, Rows
    <3> QED BY <3>1, TrailStutters
  <2>2. CASE Insert(w) BY <2>2, InsertChains DEF T!Next
  <2>3. CASE AppendMirror(w)
    <3>1. CASE mirror' = Append(mirror, Line(w)) BY <2>3, <3>1, AppendCopies DEF T!Next
    <3>2. CASE UNCHANGED mirror
      <4>1. LinksStay BY <2>3 DEF AppendMirror, LinksStay, Rows
      <4> QED BY <3>2, <4>1, TrailStutters
    <3> QED BY <2>3, <3>1, <3>2 DEF AppendMirror
  <2> QED BY <1>1, <2>1, <2>2, <2>3 DEF WriterStep
<1>2. CASE VerifyStart \/ VerifyBatch \/ VerifyFails \/ VerifyReport \/ Restart \/ UNCHANGED vars
  <2>1. LinksStay /\ UNCHANGED mirror
    BY <1>2 DEF VerifyStart, VerifyBatch, VerifyFails, VerifyReport, Restart, vars, LinksStay, Rows
  <2> QED BY <2>1, TrailStutters
<1>3. ASSUME NEW u \in Users, DeleteUser(u) PROVE [T!Next]_T!vars
  BY <1>3, DeleteUserLinks, TrailStutters DEF DeleteUser
<1>4. ASSUME NEW k \in Seqs, Edit(k) PROVE [T!Next]_T!vars
  BY <1>4, EditLinks, TrailStutters DEF Edit
<1>5. ASSUME NEW k \in Seqs, Remove(k) PROVE [T!Next]_T!vars
  BY <1>5, RemoveLoses DEF T!Next
<1> QED BY <1>1, <1>2, <1>3, <1>4, <1>5 DEF Next

LEMMA InitIsTrail == Init => T!Init
<1> SUFFICES ASSUME Init PROVE T!Init OBVIOUS
<1>1. Rows = {} BY DEF Init, Rows, NoRow
<1>2. \A g \in 0..MaxSeq : IsHead(g) <=> g = 0 BY <1>1 DEF IsHead
<1>3. Top = 0
  <2>1. 0 \in 0..MaxSeq OBVIOUS
  <2> QED BY <1>2, <2>1 DEF Top
<1>4. DOMAIN Links = {} BY <1>1 DEF Links
<1>5. Copies = {} BY DEF Copies, Init
<1> QED BY <1>3, <1>4, <1>5 DEF T!Init

\* Whatever is deleted, edited or restarted, the mirror has one line for each row ever
\* inserted, removed ones included, with the hash the row has; but for those whose append
\* failed or was cut off by a restart (appendMirror).
THEOREM MirrorOutlives == Spec => []MirrorKeepsEvidence
<1>1. TrailInv => MirrorKeepsEvidence BY DEF TrailInv
<1> QED BY InitInv, NextInv, InitTrail, NextTrail, <1>1, PTL DEF Spec

\* The audit trail is append-only, for every number of writers: an insert takes the next
\* number and names the hash of the last row, and nothing else links a row (append).
THEOREM AppendOnly == Spec => ImplementsTrail
<1>1. Inv /\ TrailInv /\ Inv' /\ [Next]_vars => [T!Next]_T!vars BY StepIsTrail
<1> QED BY InitInv, NextInv, InitTrail, NextTrail, InitIsTrail, <1>1, PTL
        DEF Spec, ImplementsTrail, T!Spec

----------------------------------------------------------------------------
(* What a valid verification vouches for.  This needs of the hash that it   *)
(* tells the payloads of a row apart, as SHA-256 is taken to do.            *)

CollisionFree ==
  \A h : \A s \in Seqs, u, v \in Users \cup {NoUser}, d, e \in Events :
    Hash(h, Payload(s, u, d)) = Hash(h, Payload(s, v, e)) => u = v /\ d = e

\* The row was inserted for user u and event e: what it says of them now is the
\* same, but for what was nulled or edited.
InsertedAs(s, u, e) ==
  /\ log[s].hash = Hash(log[s].prev, Payload(s, u, e))
  /\ s \in tampered <=> e # log[s].event
  /\ IF s \in nulled THEN u # NoUser /\ log[s].user = NoUser ELSE u = log[s].user

Scarred ==
  /\ nulled \subseteq Rows \cup tampered
  /\ \A s \in Rows : \E u \in Users \cup {NoUser}, e \in Events : InsertedAs(s, u, e)

\* The damage there was as the walk began is still there, and none of it lies
\* in what the walk has passed.
Vouched ==
  /\ vPc # "idle" => /\ before \subseteq damaged
                     /\ first = 0 <=> cursor = 0
                     /\ first <= cursor
  /\ vPc = "scan" \/ (vPc = "report" /\ ~gauge) => before \cap (first..cursor) = {}

ReportInv == Inv /\ Scarred /\ Vouched

\* A set of numbers that has one has a least one; up to a bound, a greatest one.
LEMMA Least ==
  ASSUME NEW Q, Q \subseteq Nat, Q # {}
  PROVE  \E x \in Q : \A y \in Q : x <= y
<1>1. PICK x \in Q : \A y \in Q : ~(<<y, x>> \in OpToRel(<, Nat))
  BY NatLessThanWellFounded, WFMin
<1>2. \A y \in Q : ~(y < x) BY <1>1 DEF OpToRel
<1>3. x \in Nat /\ \A y \in Q : y \in Nat OBVIOUS
<1> QED BY <1>2, <1>3

LEMMA Greatest ==
  ASSUME NEW n \in Nat, NEW Q, Q \subseteq 0..n, Q # {}
  PROVE  \E x \in Q : \A y \in Q : y <= x
<1> DEFINE U == {n - x : x \in Q}
<1>1. \A x \in Q : x \in Nat /\ n - x \in Nat OBVIOUS
<1>2. U \subseteq Nat /\ U # {} BY <1>1
<1>3. PICK d \in U : \A e \in U : d <= e BY <1>2, Least
<1>4. PICK x \in Q : d = n - x OBVIOUS
<1>5. \A y \in Q : n - x <= n - y BY <1>3, <1>4
<1> QED BY <1>1, <1>5

\* An altered row does not hash to its own hash.
LEMMA ScarShows ==
  ASSUME CollisionFree, Inv, Scarred, NEW s \in Rows, s \in damaged
  PROVE  log[s].hash # RowHash(s)
<1>1. PICK u \in Users \cup {NoUser}, e \in Events : InsertedAs(s, u, e) BY DEF Scarred
<1>2. /\ s \in Seqs /\ log[s].user \in Users \cup {NoUser} /\ log[s].event \in Events
  BY DEF Inv, TypeOK, Rows
<1>3. u # log[s].user \/ e # log[s].event BY <1>1 DEF InsertedAs, damaged
<1> QED BY <1>1, <1>2, <1>3 DEF InsertedAs, RowHash, CollisionFree

\* A removed row leaves a gap that the next row of the batch shows.
LEMMA GapShows ==
  ASSUME Inv, NEW s \in Seqs \ Rows, s > cursor,
         NEW m \in NextBatch, s < m,
         cursor = 0 => \E f \in NextBatch : f < s
  PROVE  \E q \in NextBatch : Unlinked(q, NextBatch)
<1>1. /\ NextBatch \subseteq Rows /\ NextBatch \subseteq 1..MaxSeq /\ s \in 1..MaxSeq
      /\ cursor \in 0..MaxSeq /\ MaxSeq \in Nat /\ \A u \in NextBatch : u > cursor
  BY DEF NextBatch, Ahead, Rows, Seqs, Inv, TypeOK
<1>2. PICK q \in NextBatch : q > s /\ \A u \in NextBatch : u > s => q <= u
  <2> DEFINE Q == {u \in NextBatch : u > s}
  <2>1. m \in Q OBVIOUS
  <2>2. NextBatch \subseteq Nat BY <1>1
  <2>3. Q \subseteq Nat BY <2>2
  <2> HIDE DEF Q
  <2>4. PICK q \in Q : \A u \in Q : q <= u BY <2>1, <2>3, Least
  <2> QED BY <2>4 DEF Q
<1>3. PICK p \in NextBatch \cup ({cursor} \ {0}) :
        p < q /\ \A u \in NextBatch : u < q => u <= p
  <2> DEFINE Q == {u \in NextBatch \cup ({cursor} \ {0}) : u < q}
  <2>1. Q \subseteq 0..MaxSeq
    <3>1. NextBatch \cup ({cursor} \ {0}) \subseteq 0..MaxSeq BY <1>1
    <3> QED BY <3>1
  <2>2. Q # {}
    <3>1. CASE cursor = 0
      <4>1. PICK f \in NextBatch : f < s BY <3>1
      <4>2. f \in Q BY <1>1, <1>2, <4>1
      <4> QED BY <4>2
    <3>2. CASE cursor # 0
      <4>1. cursor \in Q BY <1>1, <1>2, <3>2
      <4> QED BY <4>1
    <3> QED BY <3>1, <3>2
  <2> HIDE DEF Q
  <2>3. PICK p \in Q : \A u \in Q : u <= p BY <1>1, <2>1, <2>2, Greatest
  <2> QED BY <2>3 DEF Q
<1>4. Precedes(p, q, NextBatch) BY <1>3 DEF Precedes
<1>5. p < s
  <2>1. CASE p \in NextBatch BY <1>1, <1>2, <1>3, <2>1
  <2>2. CASE p = cursor BY <2>2
  <2> QED BY <2>1, <2>2
<1>6. q # p + 1 BY <1>1, <1>2, <1>3, <1>5
<1> QED BY <1>4, <1>6 DEF Unlinked

\* A batch that passes holds none of the damage between its rows.
LEMMA PassedIsIntact ==
  ASSUME CollisionFree, Inv, Scarred, ~Broken(NextBatch),
         NEW m \in NextBatch, NEW f \in NextBatch, NEW s \in damaged,
         cursor < s, s <= m, cursor = 0 => f <= s
  PROVE  FALSE
<1>1. /\ NextBatch \subseteq Rows /\ NextBatch \subseteq 1..MaxSeq /\ s \in 1..MaxSeq
  BY DEF NextBatch, Ahead, Rows, Seqs, Inv, TypeOK, damaged
<1>2. CASE s \in Rows
  <2>1. s \in Ahead BY <1>2 DEF Ahead
  <2>2. s \in NextBatch
    <3>1. CASE s = m BY <3>1
    <3>2. CASE s < m BY <2>1, <3>2, BatchIsPrefix DEF Inv
    <3> QED BY <1>1, <3>1, <3>2
  <2> QED BY <1>2, <2>2, ScarShows DEF Broken
<1>3. CASE s \notin Rows
  <2>1. s # m /\ s # f BY <1>1, <1>3
  <2>2. s < m /\ (cursor = 0 => f < s) BY <1>1, <2>1
  <2>3. s \in Seqs \ Rows BY <1>1, <1>3 DEF Seqs
  <2>4. \E q \in NextBatch : Unlinked(q, NextBatch) BY <2>2, <2>3, GapShows
  <2> QED BY <2>4 DEF Broken
<1> QED BY <1>2, <1>3

\* Inserts, deletions of users, edits and removals keep track of how each row began.
LEMMA ScarredStep ==
  ASSUME Inv, Scarred, [Next]_vars
  PROVE  Scarred'
<1>1. ASSUME UNCHANGED <<log, nulled, tampered>> PROVE Scarred'
  <2>1. Rows' = Rows BY <1>1 DEF Rows
  <2> QED BY <1>1, <2>1 DEF Scarred, InsertedAs
<1>2. ASSUME NEW w \in Writers, Insert(w) PROVE Scarred'
  <2> DEFINE k == head[w] + 1
  <2>1. k \in Seqs /\ k \notin Rows /\ k \notin tampered
    BY <1>2 DEF Inv, TypeOK, Insert, Conflict, HeadRead, Seqs
  <2>2. /\ log'[k] = NextRow(w) /\ \A s \in Seqs \ {k} : log'[s] = log[s]
        /\ UNCHANGED <<nulled, tampered>>
    BY <1>2, <2>1 DEF Inv, LogShape, Insert
  <2>3. Rows' = Rows \cup {k} BY <2>1, <2>2 DEF Rows, NextRow
  <2>4. user[w] \in Users \cup {NoUser} /\ event[w] \in Events BY DEF Inv, TypeOK
  <2>5. k \notin nulled BY <2>1 DEF Scarred
  <2>6. ASSUME NEW s \in Rows'
        PROVE  \E u \in Users \cup {NoUser}, e \in Events : InsertedAs(s, u, e)'
    <3>1. CASE s = k
      <4>1. /\ log'[s].hash = Hash(log'[s].prev, Payload(s, user[w], event[w]))
            /\ log'[s].user = user[w] /\ log'[s].event = event[w]
        BY <2>2, <3>1 DEF NextRow
      <4> QED BY <2>1, <2>2, <2>4, <2>5, <3>1, <4>1 DEF InsertedAs
    <3>2. CASE s # k
      <4>1. s \in Rows /\ log'[s] = log[s] BY <2>2, <2>3, <2>6, <3>2 DEF Rows
      <4> QED BY <2>2, <4>1 DEF Scarred, InsertedAs
    <3> QED BY <3>1, <3>2
  <2> QED BY <2>2, <2>3, <2>6 DEF Scarred
<1>3. ASSUME NEW g \in Users, DeleteUser(g) PROVE Scarred'
  <2>1. \A s \in Seqs :
          /\ log'[s].stored = log[s].stored /\ log'[s].event = log[s].event
          /\ log'[s].prev = log[s].prev /\ log'[s].hash = log[s].hash
          /\ log'[s].user = IF s \in Rows /\ log[s].user = g THEN NoUser ELSE log[s].user
    BY <1>3 DEF DeleteUser, Inv, LogShape
  <2>2. Rows' = Rows BY <2>1 DEF Rows
  <2>3. /\ nulled' = nulled \cup {s \in Rows : log[s].user = g} /\ tampered' = tampered
    BY <1>3 DEF DeleteUser
  <2>4. ASSUME NEW s \in Rows
        PROVE  \E u \in Users \cup {NoUser}, e \in Events : InsertedAs(s, u, e)'
    <3>1. PICK u \in Users \cup {NoUser}, e \in Events : InsertedAs(s, u, e) BY DEF Scarred
    <3>2. s \in Seqs /\ g # NoUser BY UsersAssumption DEF Rows
    <3>3. InsertedAs(s, u, e)' BY <2>1, <2>3, <3>1, <3>2 DEF InsertedAs
    <3> QED BY <3>3
  <2> QED BY <2>2, <2>3, <2>4 DEF Scarred
<1>4. ASSUME NEW k \in Seqs, Edit(k) PROVE Scarred'
  <2>1. PICK d \in Events \ {log[k].event} : log' = [log EXCEPT ![k].event = d]
    BY <1>4 DEF Edit
  <2>2. /\ log'[k] = [log[k] EXCEPT !.event = d]
        /\ \A s \in Seqs \ {k} : log'[s] = log[s]
    BY <2>1 DEF Inv, LogShape
  <2>3. /\ log'[k].stored = log[k].stored /\ log'[k].user = log[k].user
        /\ log'[k].prev = log[k].prev /\ log'[k].hash = log[k].hash /\ log'[k].event = d
    BY <2>2 DEF Inv, LogShape
  <2>4. Rows' = Rows BY <2>2, <2>3 DEF Rows
  <2>5. k \in Rows /\ k \notin damaged /\ nulled' = nulled /\ tampered' = tampered \cup {k}
    BY <1>4 DEF Edit
  <2>6. ASSUME NEW s \in Rows
        PROVE  \E u \in Users \cup {NoUser}, e \in Events : InsertedAs(s, u, e)'
    <3>1. PICK u \in Users \cup {NoUser}, e \in Events : InsertedAs(s, u, e) BY DEF Scarred
    <3>2. CASE s = k
      <4>1. InsertedAs(s, u, e)' BY <2>1, <2>3, <2>5, <3>1, <3>2 DEF InsertedAs, damaged
      <4> QED BY <4>1
    <3>3. CASE s # k
      <4>1. log'[s] = log[s] BY <2>2, <3>3 DEF Rows
      <4>2. InsertedAs(s, u, e)' BY <2>5, <3>1, <3>3, <4>1 DEF InsertedAs
      <4> QED BY <4>2
    <3> QED BY <3>2, <3>3
  <2> QED BY <2>4, <2>5, <2>6 DEF Scarred
<1>5. ASSUME NEW k \in Seqs, Remove(k) PROVE Scarred'
  <2>1. /\ \A s \in Seqs \ {k} : log'[s] = log[s]
        /\ nulled' = nulled /\ tampered' = tampered \cup {k}
    BY <1>5 DEF Remove, Inv, LogShape
  <2>2. Rows' = Rows \ {k} BY <1>5, RemoveLinks
  <2>3. ASSUME NEW s \in Rows'
        PROVE  \E u \in Users \cup {NoUser}, e \in Events : InsertedAs(s, u, e)'
    <3>1. s \in Rows /\ s # k /\ log'[s] = log[s] BY <2>1, <2>2, <2>3 DEF Rows
    <3> QED BY <2>1, <3>1 DEF Scarred, InsertedAs
  <2> QED BY <2>1, <2>2, <2>3 DEF Scarred
<1>6. ASSUME NEW w \in Writers, WriterStep(w), ~Insert(w) PROVE Scarred'
  BY <1>1, <1>6 DEF WriterStep, Record, ReadHead, InsertFails, RecordFails, AppendMirror
<1>7. CASE VerifyStart \/ VerifyBatch \/ VerifyFails \/ VerifyReport \/ Restart \/ UNCHANGED vars
  BY <1>1, <1>7 DEF VerifyStart, VerifyBatch, VerifyFails, VerifyReport, Restart, vars
<1> QED BY <1>2, <1>3, <1>4, <1>5, <1>6, <1>7 DEF Next

\* The walk goes over a batch only when nothing in it was altered before.
LEMMA VouchedStep ==
  ASSUME CollisionFree, ReportInv, [Next]_vars
  PROVE  Vouched'
<1> USE DEF ReportInv
<1>1. before \subseteq Seqs /\ cursor \in 0..MaxSeq /\ first \in 0..MaxSeq
  BY DEF Inv, TypeOK
<1>2. ASSUME damaged \subseteq damaged', UNCHANGED verifyVars PROVE Vouched'
  BY <1>2 DEF Vouched, verifyVars
<1>3. CASE VerifyStart
  <2>1. /\ vPc' = "scan" /\ cursor' = 0 /\ first' = 0 /\ before' = damaged /\ damaged' = damaged
    BY <1>3 DEF VerifyStart, damaged
  <2>2. damaged \subseteq Seqs BY DEF damaged, Inv, TypeOK
  <2> QED BY <2>1, <2>2 DEF Vouched, Seqs
<1>4. CASE VerifyBatch
  <2>1. vPc = "scan" /\ before' = before /\ damaged' = damaged
    BY <1>4 DEF VerifyBatch, damaged
  <2>2. CASE vPc' = "report" /\ UNCHANGED <<cursor, expected, first>>
    BY <2>1, <2>2 DEF Vouched
  <2>3. CASE /\ NextBatch # {} /\ ~Broken(NextBatch)
             /\ \E m \in NextBatch :
                  /\ \A s \in NextBatch : s <= m
                  /\ cursor' = m /\ expected' = log[m].hash
             /\ \E f \in NextBatch :
                  /\ \A s \in NextBatch : f <= s
                  /\ first' = IF first # 0 THEN first ELSE f
             /\ UNCHANGED <<vPc, gauge, failed>>
    <3>1. PICK m \in NextBatch : cursor' = m /\ \A s \in NextBatch : s <= m BY <2>3
    <3>2. PICK f \in NextBatch : first' = IF first # 0 THEN first ELSE f BY <2>3
    <3>3. /\ m \in 1..MaxSeq /\ f \in 1..MaxSeq /\ m > cursor /\ f > cursor /\ f <= m
      BY <3>1 DEF NextBatch, Ahead, Rows, Seqs
    <3>4. /\ before \subseteq damaged /\ (first = 0 <=> cursor = 0) /\ first <= cursor
          /\ before \cap (first..cursor) = {}
      BY <2>1 DEF Vouched
    <3>5. first' <= cursor' /\ first' # 0 /\ cursor' # 0
      BY <1>1, <3>1, <3>2, <3>3, <3>4
    <3>6. ASSUME NEW s \in before, first' <= s, s <= m PROVE FALSE
      <4>1. s \in 1..MaxSeq BY <1>1 DEF Seqs
      <4>2. cursor < s
        <5>1. CASE first = 0 BY <1>1, <3>4, <4>1, <5>1
        <5>2. CASE first # 0
          <6>1. first <= s BY <3>2, <3>6, <5>2
          <6>2. s \notin first..cursor BY <3>4
          <6> QED BY <1>1, <4>1, <6>1, <6>2
        <5> QED BY <5>1, <5>2
      <4>3. cursor = 0 => f <= s BY <3>2, <3>4, <3>6
      <4> QED BY <2>3, <3>4, <3>6, <4>2, <4>3, PassedIsIntact
    <3>7. before' \cap (first'..cursor') = {}
      BY <1>1, <2>1, <3>1, <3>6 DEF Seqs
    <3> QED BY <2>1, <2>3, <3>4, <3>5, <3>7 DEF Vouched
  <2> QED BY <1>4, <2>2, <2>3 DEF VerifyBatch
<1>5. CASE VerifyFails \/ VerifyReport BY <1>5 DEF VerifyFails, VerifyReport, VerifyEnds, Vouched
<1>6. ASSUME NEW w \in Writers, WriterStep(w) PROVE Vouched'
  BY <1>2, <1>6
     DEF WriterStep, Record, ReadHead, Insert, InsertFails, RecordFails, AppendMirror, damaged
<1>7. ASSUME NEW u \in Users, DeleteUser(u) PROVE Vouched'
  BY <1>2, <1>7 DEF DeleteUser, damaged
<1>8. ASSUME NEW s \in Seqs, Edit(s) \/ Remove(s) PROVE Vouched'
  BY <1>2, <1>8 DEF Edit, Remove, damaged
<1>9. CASE Restart BY <1>9 DEF Restart, VerifyEnds, Vouched
<1>10. CASE UNCHANGED vars BY <1>2, <1>10 DEF vars, damaged
<1> QED BY <1>3, <1>4, <1>5, <1>6, <1>7, <1>8, <1>9, <1>10 DEF Next

\* A verification that ends without an alarm read nothing that was altered before
\* it began, from the first row it found to the last: with a hash that tells
\* payloads apart, no edit, deletion of a user or gap slips through, whatever the
\* size of the batches and whatever is appended or deleted between them
\* (audit.service.ts, verifyIntegrity).
THEOREM ValidVouches ==
  ASSUME CollisionFree
  PROVE  Spec => []ValidMeansIntact
<1>1. Init => ReportInv
  <2> SUFFICES ASSUME Init PROVE ReportInv OBVIOUS
  <2>1. Scarred BY DEF Init, Scarred, Rows, NoRow
  <2>2. Vouched BY DEF Init, Vouched
  <2> QED BY <2>1, <2>2, InitInv DEF ReportInv
<1>2. ReportInv /\ [Next]_vars => ReportInv'
  BY NextInv, ScarredStep, VouchedStep DEF ReportInv
<1>3. ReportInv => ValidMeansIntact BY DEF ReportInv, Vouched, ValidMeansIntact
<1> QED BY <1>1, <1>2, <1>3, PTL DEF Spec

----------------------------------------------------------------------------
(* The keys that sign the attestations of access reviews (Keys), for every   *)
(* number of requests, of keys, of updates and of restarts, and every length *)
(* of the history.                                                           *)

\* A request is at its reload; a request rotates the key; a rotation is at its reload.
Reloads(r) == At(r, "read") \/ At(r, "publish")
Rotates(r) == ~Free(r) /\ request[r].kind = "rotate"
Turning == \E r \in Requests : Rotates(r) /\ Reloads(r)

\* Two lists that sign with the same keys; the history a rotation draws from a list.
SameKeys(l, m) == l.secret = m.secret /\ l.history = m.history /\ l.source = m.source
Behind(l) ==
  LET all == <<Current(l)>> \o l.history
  IN SubSeq(all, 1, IF Len(all) < MaxHistory THEN Len(all) ELSE MaxHistory)

\* A list the program holds: its key was drawn after those of its history, and once the
\* table decides in it the table decides.
Held(l) ==
  /\ l \in ListType
  /\ Current(l) <= drawn
  /\ \A i \in 1..Len(l.history) : l.history[i] < Current(l)
  /\ l.source = "db" => table.source = "db"

\* A rotation that holds the lock: the other rotations wait, its history is of drawn keys,
\* and the key it draws will sign.
Ready(r) ==
  /\ Rotates(r)
  /\ \A i \in 1..Len(request[r].history) : request[r].history[i] <= drawn
  /\ request[r].adopts \/ table.source = "db" \/ file = NoKey
  /\ \A q \in Requests \ {r} : Rotates(q) => request[q].pc = "wait"

KeysShape ==
  /\ KeysTypeOK
  /\ Held(table) /\ Held(memory)
  /\ \A r \in Requests : At(r, "publish") => Held(request[r].list)
  /\ \A r \in Requests : At(r, "wait") => Rotates(r)
  /\ \A r \in Requests : At(r, "commit") => Ready(r)

\* A key is accepted, or so many were drawn after it that it was pushed out.
Retained(k) == k \in Accepted(table) \/ drawn - k > MaxHistory

\* At least as many keys as its place says were drawn after a key of the history.
Positions == \A i \in 1..Len(table.history) : table.history[i] + i <= drawn

\* While no write has met a request that held an older list.
KeysClean ==
  /\ \A r \in Requests : At(r, "publish") => request[r].list = table
  /\ memory = table \/ \E r \in Requests : Reloads(r)
  /\ SameKeys(memory, table) \/ Turning
  /\ cache # <<>> => cache.current = Current(table) \/ Turning
  /\ \A r \in Requests : At(r, "commit") => request[r].history = Behind(table)
  /\ Positions
  /\ Retained(Current(memory))
  /\ \A k \in signed : Retained(k)
  /\ cache # <<>> => Retained(cache.current)

KeysInv == KeysShape /\ (~raced => KeysClean)

\* Initially.
LEMMA KeysStarts == ASSUME KeysInit PROVE KeysInv
<1>1. /\ MaxKeys \in Nat /\ MaxKeys >= 2 /\ MaxWrites \in Nat /\ MaxFaults \in Nat
      /\ MaxHistory \in Nat \ {0}
  BY HistoryAssumption, KeysAssumption DEF HistoryAssumption, KeysAssumption
<1>2. table \in ListType /\ memory \in ListType /\ table.history = <<>> /\ memory = table
  BY <1>1 DEF KeysInit, ListType, Key
<1>3. KeysTypeOK
  <2>1. request \in [Requests -> Running \cup {Idle}] BY DEF KeysInit
  <2>2. file \in Key \cup {NoKey} /\ drawn \in Key
    BY <1>1 DEF KeysInit, Key, NoKey
  <2>3. cache = <<>> /\ faults \in 0..MaxFaults /\ signed \subseteq Key
    BY <1>1 DEF KeysInit
  <2>4. raced \in BOOLEAN BY DEF KeysInit
  <2> QED BY <1>2, <2>1, <2>2, <2>3, <2>4 DEF KeysTypeOK
<1>4. Current(table) = drawn /\ table.source = "auto"
  BY DEF KeysInit, Current, NoKey
<1>5. \A r \in Requests : Free(r)
  BY DEF KeysInit, Free
<1>6. Held(table) /\ Held(memory)
  BY <1>2, <1>3, <1>4 DEF Held, KeysTypeOK, Key
<1>7. KeysShape BY <1>3, <1>5, <1>6 DEF KeysShape, At
<1>8. cache = <<>> /\ signed = {} BY DEF KeysInit
<1>9. Retained(Current(memory)) BY <1>2 DEF Retained, Accepted
<1>10. KeysClean BY <1>2, <1>5, <1>8, <1>9 DEF KeysClean, At, SameKeys, Positions
<1> QED BY <1>7, <1>10 DEF KeysInv

\* What is left without a key that is not there is the whole.
LEMMA WithoutNone ==
  ASSUME NEW S, NEW s \in Seq(S), NEW k, \A i \in 1..Len(s) : s[i] # k
  PROVE  Without(s, k) = s
<1> DEFINE D == 0..Len(s)
           Left(f) == f = [n \in D |-> IF n = 0 THEN <<>>
                                       ELSE IF s[n] = k THEN f[n - 1] ELSE Append(f[n - 1], s[n])]
           left == CHOOSE f : Left(f)
           whole == [n \in D |-> SubSeq(s, 1, n)]
<1>1. Left(whole)
  <2>1. ASSUME NEW n \in D, n # 0
        PROVE  whole[n] = IF s[n] = k THEN whole[n - 1] ELSE Append(whole[n - 1], s[n])
    <3>1. n \in 1..Len(s) /\ n - 1 \in D BY <2>1
    <3>2. SubSeq(s, 1, n) = Append(SubSeq(s, 1, n - 1), s[n]) BY <3>1
    <3> QED BY <3>1, <3>2
  <2>2. 0 \in D => whole[0] = <<>> OBVIOUS
  <2> QED BY <2>1, <2>2
<1>2. Left(left) BY <1>1
<1>3. left = whole
  <2>1. DOMAIN left = D BY <1>2
  <2>2. \A n \in D : left[n] = IF n = 0 THEN <<>>
                               ELSE IF s[n] = k THEN left[n - 1] ELSE Append(left[n - 1], s[n])
    BY <1>2
  <2> HIDE DEF left
  <2>3. left[0] = whole[0]
    <3>1. 0 \in D OBVIOUS
    <3>2. left[0] = <<>> BY <2>2, <3>1
    <3> QED BY <3>1, <3>2
  <2>4. \A n \in 1..Len(s) : left[n - 1] = whole[n - 1] => left[n] = whole[n]
    <3> SUFFICES ASSUME NEW n \in 1..Len(s), left[n - 1] = whole[n - 1] PROVE left[n] = whole[n]
      OBVIOUS
    <3>1. n \in D /\ n # 0 /\ n - 1 \in D OBVIOUS
    <3>2. left[n] = Append(left[n - 1], s[n]) BY <2>2, <3>1
    <3>3. whole[n] = Append(whole[n - 1], s[n]) BY <3>1
    <3> QED BY <3>2, <3>3
  <2>5. left = [n \in D |-> left[n]] /\ whole = [n \in D |-> whole[n]] BY <1>2
  <2> HIDE DEF whole
  <2>6. ASSUME NEW n \in D, left[n] # whole[n] PROVE FALSE
    <3> DEFINE Bad == {m \in D : left[m] # whole[m]}
    <3>1. D \subseteq Nat /\ n \in Bad BY <2>6
    <3>2. Bad \in SUBSET Nat /\ Bad # {} BY <3>1
    <3> HIDE DEF Bad
    <3>3. PICK m \in Bad : \A j \in Bad : m <= j BY <3>2, Least
    <3> USE DEF Bad
    <3>4. m \in 1..Len(s) BY <2>3, <3>3
    <3>5. m - 1 \in D /\ m - 1 \notin Bad BY <3>3, <3>4
    <3> QED BY <2>4, <3>3, <3>4, <3>5
  <2> QED BY <2>5, <2>6
<1> HIDE DEF left
<1>4. Len(s) \in D /\ left[Len(s)] = s
  <2>1. Len(s) \in Nat /\ Len(s) \in D OBVIOUS
  <2>2. left[Len(s)] = SubSeq(s, 1, Len(s)) BY <1>3, <2>1
  <2>3. SubSeq(s, 1, Len(s)) = s OBVIOUS
  <2> QED BY <2>1, <2>2, <2>3
<1> USE DEF left
<1>5. Without(s, k) = left[Len(s)] BY DEF Without
<1> QED BY <1>4, <1>5

\* What the constants are.
LEMMA KeysBounds ==
  /\ MaxHistory \in Nat \ {0}
  /\ MaxKeys \in Nat /\ MaxWrites \in Nat /\ MaxFaults \in Nat
BY HistoryAssumption, KeysAssumption DEF HistoryAssumption, KeysAssumption

\* A request that is replaced is one of the kind, and the others stay.
LEMMA Replaced ==
  ASSUME KeysTypeOK, NEW r \in Requests, NEW x \in Running \cup {Idle},
         request' = [request EXCEPT ![r] = x]
  PROVE  /\ request' \in [Requests -> Running \cup {Idle}]
         /\ request'[r] = x
         /\ \A q \in Requests \ {r} : request'[q] = request[q]
<1>1. request \in [Requests -> Running \cup {Idle}] BY DEF KeysTypeOK
<1> QED BY <1>1

\* A request that is not idle is running, and one that runs is not idle.
LEMMA RunningIsNotIdle == Idle \notin Running
<1>1. \A x \in Running : x.pc # "idle" BY DEF Running
<1> QED BY <1>1 DEF Idle

LEMMA AtIsRunning ==
  ASSUME KeysTypeOK, NEW r \in Requests, NEW a, At(r, a)
  PROVE  request[r] \in Running /\ request[r].pc = a
BY DEF KeysTypeOK, At, Free

\* A request that goes on keeps all but its place.
LEMMA GoesOn ==
  ASSUME KeysTypeOK, NEW r \in Requests, NEW a, At(r, a),
         NEW b \in {"save", "wait", "commit", "read", "publish"}, Goto(r, b)
  PROVE  /\ request' \in [Requests -> Running \cup {Idle}]
         /\ request'[r] \in Running /\ request'[r] # Idle
         /\ request'[r].pc = b /\ request'[r].kind = request[r].kind
         /\ request'[r].list = request[r].list /\ request'[r].history = request[r].history
         /\ request'[r].adopts = request[r].adopts
         /\ \A q \in Requests \ {r} : request'[q] = request[q]
<1> DEFINE x == [request[r] EXCEPT !.pc = b]
<1>1. request[r] \in Running BY AtIsRunning
<1>2. x \in Running /\ x.pc = b /\ x.kind = request[r].kind /\ x.list = request[r].list
      /\ x.history = request[r].history /\ x.adopts = request[r].adopts
  BY <1>1 DEF Running
<1>3. request' = [request EXCEPT ![r] = x] BY DEF Goto
<1> HIDE DEF x
<1>4. request' \in [Requests -> Running \cup {Idle}] /\ request'[r] = x
      /\ \A q \in Requests \ {r} : request'[q] = request[q]
  BY <1>2, <1>3, Replaced
<1> QED BY <1>2, <1>4, RunningIsNotIdle

\* A request that ends is idle.
LEMMA Ends ==
  ASSUME KeysTypeOK, NEW r \in Requests, request' = [request EXCEPT ![r] = Idle]
  PROVE  /\ request' \in [Requests -> Running \cup {Idle}]
         /\ request'[r] = Idle
         /\ \A q \in Requests \ {r} : request'[q] = request[q]
BY Replaced

\* A request that starts holds neither a list nor the lock.
LEMMA Starts ==
  ASSUME KeysTypeOK, NEW r \in Requests,
         NEW kind \in {"update", "rotate"}, NEW pcs \in {"save", "wait"}, Start(r, kind, pcs)
  PROVE  /\ request' \in [Requests -> Running \cup {Idle}]
         /\ request'[r] # Idle /\ request'[r].pc = pcs /\ request'[r].kind = kind
         /\ \A q \in Requests \ {r} : request'[q] = request[q]
         /\ Free(r)
<1> DEFINE x == [pc |-> pcs, kind |-> kind, history |-> <<>>, adopts |-> FALSE, list |-> NoList]
<1>1. x \in Running /\ x.pc = pcs /\ x.kind = kind BY DEF Running
<1>2. request' = [request EXCEPT ![r] = x] /\ Free(r) BY DEF Start
<1> HIDE DEF x
<1>3. request' \in [Requests -> Running \cup {Idle}] /\ request'[r] = x
      /\ \A q \in Requests \ {r} : request'[q] = request[q]
  BY <1>1, <1>2, Replaced
<1> QED BY <1>1, <1>2, <1>3, RunningIsNotIdle

\* A request starts.
LEMMA KeysAfterStart ==
  ASSUME KeysInv, NEW r \in Requests, Update(r) \/ Rotate(r)
  PROVE  KeysInv'
<1>1. PICK kind \in {"update", "rotate"}, place \in {"save", "wait"} :
        Start(r, kind, place) /\ (kind = "rotate" <=> place = "wait")
  BY DEF Update, Rotate
<1>2. UNCHANGED <<table, memory, cache, file, drawn, faults, signed, raced>>
  BY <1>1 DEF Start
<1>3. /\ request' \in [Requests -> Running \cup {Idle}]
      /\ request'[r] # Idle /\ request'[r].pc = place /\ request'[r].kind = kind
      /\ \A q \in Requests \ {r} : request'[q] = request[q]
      /\ request[r] = Idle
  BY <1>1, Starts DEF KeysInv, KeysShape, Free
<1>4. \A q \in Requests \ {r} : \A a : At(q, a)' <=> At(q, a)
  BY <1>3 DEF At, Free
<1>5. ~At(r, "publish")' /\ ~At(r, "commit")'
  BY <1>1, <1>3 DEF At
<1>6. KeysTypeOK' BY <1>2, <1>3 DEF KeysInv, KeysShape, KeysTypeOK
<1>7. Held(table)' /\ Held(memory)' BY <1>2 DEF KeysInv, KeysShape, Held, Current
<1>8. ASSUME NEW q \in Requests, At(q, "publish")' PROVE Held(request[q].list)'
  <2>1. q # r /\ request'[q] = request[q] /\ Held(request[q].list)
    BY <1>3, <1>4, <1>5, <1>8 DEF KeysInv, KeysShape
  <2> QED BY <1>2, <2>1 DEF Held, Current
<1>9. ASSUME NEW q \in Requests, At(q, "commit")' PROVE Ready(q)'
  <2>1. q # r /\ request'[q] = request[q] /\ Ready(q)
    BY <1>3, <1>4, <1>5, <1>9 DEF KeysInv, KeysShape
  <2> QED BY <1>1, <1>2, <1>3, <2>1 DEF Ready, Rotates, Free
<1>10. \A q \in Requests : At(q, "wait")' => Rotates(q)'
  BY <1>1, <1>3, <1>4 DEF KeysInv, KeysShape, At, Free, Rotates
<1>11. KeysShape' BY <1>6, <1>7, <1>8, <1>9, <1>10 DEF KeysShape
<1>12. ASSUME ~raced PROVE KeysClean'
  <2>1. KeysClean BY <1>12 DEF KeysInv
  <2>2. \A q \in Requests : Reloads(q) => q # r /\ Reloads(q)' /\ Rotates(q)' = Rotates(q)
    BY <1>3 DEF Reloads, Rotates, At, Free
  <2>3. Turning => Turning' BY <2>2 DEF Turning
  <2>4. \A q \in Requests : At(q, "publish")' => request'[q].list = table'
    BY <1>2, <1>3, <1>4, <1>5, <2>1 DEF KeysClean
  <2>5. \A q \in Requests : At(q, "commit")' => request'[q].history = Behind(table)'
    BY <1>2, <1>3, <1>4, <1>5, <2>1 DEF KeysClean, Behind, Current
  <2>6. memory' = table' \/ \E q \in Requests : Reloads(q)'
    BY <1>2, <2>1, <2>2 DEF KeysClean
  <2>7. (SameKeys(memory, table)' \/ Turning')
        /\ (cache' # <<>> => cache'.current = Current(table)' \/ Turning')
    BY <1>2, <2>1, <2>3 DEF KeysClean, SameKeys, Current
  <2>8. /\ Positions' /\ Retained(Current(memory))'
        /\ \A k \in signed' : Retained(k)'
        /\ cache' # <<>> => Retained(cache.current)'
    BY <1>2, <2>1 DEF KeysClean, Positions, Retained, Accepted, Current
  <2> QED BY <2>4, <2>5, <2>6, <2>7, <2>8 DEF KeysClean
<1> QED BY <1>2, <1>11, <1>12 DEF KeysInv

\* An update writes its variable.
LEMMA KeysAfterSave ==
  ASSUME KeysInv, NEW r \in Requests, Save(r)
  PROVE  KeysInv'
<1>1. /\ table.setting < MaxWrites /\ table' = [table EXCEPT !.setting = @ + 1]
      /\ raced' = Races(r) /\ UNCHANGED <<memory, cache, file, drawn, faults, signed>>
      /\ At(r, "save")
  BY DEF Save
<1>2. table' \in ListType /\ table'.secret = table.secret /\ table'.history = table.history
      /\ table'.source = table.source
  <2>1. table \in ListType /\ MaxWrites \in Nat BY KeysBounds DEF KeysInv, KeysShape, Held
  <2>2. table.setting + 1 \in 0..MaxWrites BY <1>1, <2>1 DEF ListType
  <2> QED BY <1>1, <2>1, <2>2 DEF ListType
<1>3. /\ request' \in [Requests -> Running \cup {Idle}]
      /\ request'[r] # Idle /\ request'[r].pc = "read" /\ request'[r].kind = request[r].kind
      /\ \A q \in Requests \ {r} : request'[q] = request[q]
  BY <1>1, GoesOn DEF KeysInv, KeysShape, Save
<1>4. \A q \in Requests \ {r} : \A a : At(q, a)' <=> At(q, a)
  BY <1>3 DEF At, Free
<1>5. ~At(r, "publish")' /\ ~At(r, "commit")' /\ ~Reloads(r) /\ Reloads(r)'
  BY <1>1, <1>3 DEF At, Reloads, Free
<1>6. KeysTypeOK' BY <1>1, <1>2, <1>3 DEF KeysInv, KeysShape, KeysTypeOK, Races
<1>7. Held(table)' /\ Held(memory)' BY <1>1, <1>2 DEF KeysInv, KeysShape, Held, Current
<1>8. ASSUME NEW q \in Requests, At(q, "publish")' PROVE Held(request[q].list)'
  <2>1. q # r /\ request'[q] = request[q] /\ Held(request[q].list)
    BY <1>3, <1>4, <1>5, <1>8 DEF KeysInv, KeysShape
  <2> QED BY <1>1, <1>2, <2>1 DEF Held, Current
<1>9. ASSUME NEW q \in Requests, At(q, "commit")' PROVE Ready(q)'
  <2>1. q # r /\ request'[q] = request[q] /\ Ready(q)
    BY <1>3, <1>4, <1>5, <1>9 DEF KeysInv, KeysShape
  <2>2. ~Rotates(r) BY <1>1, <2>1 DEF Ready, At
  <2> QED BY <1>1, <1>2, <1>3, <2>1, <2>2 DEF Ready, Rotates, Free, At
<1>10. \A q \in Requests : At(q, "wait")' => Rotates(q)'
  BY <1>2, <1>3, <1>4 DEF KeysInv, KeysShape, At, Free, Rotates
<1>11. KeysShape' BY <1>6, <1>7, <1>8, <1>9, <1>10 DEF KeysShape
<1>12. ASSUME ~raced' PROVE KeysClean'
  <2>1. KeysClean /\ \A q \in Requests \ {r} : ~At(q, "publish")
    BY <1>1, <1>12 DEF KeysInv, Races
  <2>2. \A q \in Requests : Reloads(q) => q # r /\ Reloads(q)' /\ (Rotates(q) => Rotates(q)')
    BY <1>3, <1>5 DEF Reloads, Rotates, At, Free
  <2>3. Turning => Turning' BY <2>2 DEF Turning
  <2>4. \A q \in Requests : ~At(q, "publish")' BY <1>4, <1>5, <2>1
  <2>5. \A q \in Requests : At(q, "commit")' => request'[q].history = Behind(table)'
    BY <1>1, <1>2, <1>3, <1>4, <1>5, <2>1 DEF KeysClean, Behind, Current
  <2>6. \E q \in Requests : Reloads(q)' BY <1>5
  <2>7. (SameKeys(memory, table)' \/ Turning')
        /\ (cache' # <<>> => cache'.current = Current(table)' \/ Turning')
    BY <1>1, <1>2, <2>1, <2>3 DEF KeysClean, SameKeys, Current
  <2>8. /\ Positions' /\ Retained(Current(memory))'
        /\ \A k \in signed' : Retained(k)'
        /\ cache' # <<>> => Retained(cache.current)'
    BY <1>1, <1>2, <2>1 DEF KeysClean, Positions, Retained, Accepted, Current
  <2> QED BY <2>4, <2>5, <2>6, <2>7, <2>8 DEF KeysClean
<1> QED BY <1>11, <1>12 DEF KeysInv

\* A request reads the rows.
LEMMA KeysAfterReadTable ==
  ASSUME KeysInv, NEW r \in Requests, ReadTable(r)
  PROVE  KeysInv'
<1> DEFINE x == [request[r] EXCEPT !.pc = "publish", !.list = table]
<1>1. /\ request' = [request EXCEPT ![r] = x] /\ At(r, "read")
      /\ UNCHANGED <<table, memory, cache, file, drawn, faults, signed, raced>>
  BY DEF ReadTable
<1>2. x \in Running /\ x.pc = "publish" /\ x.kind = request[r].kind /\ x.list = table
  <2>1. request[r] \in Running /\ table \in ListType
    BY <1>1, AtIsRunning DEF KeysInv, KeysShape, Held
  <2> QED BY <2>1 DEF Running
<1> HIDE DEF x
<1>3. /\ request' \in [Requests -> Running \cup {Idle}]
      /\ request'[r] = x /\ x # Idle
      /\ \A q \in Requests \ {r} : request'[q] = request[q]
  BY <1>1, <1>2, Replaced, RunningIsNotIdle DEF KeysInv, KeysShape
<1>4. \A q \in Requests \ {r} : \A a : At(q, a)' <=> At(q, a)
  BY <1>3 DEF At, Free
<1>5. ~At(r, "commit")' /\ Reloads(r) /\ Reloads(r)' /\ (Rotates(r) => Rotates(r)')
  BY <1>1, <1>2, <1>3 DEF At, Reloads, Rotates, Free
<1>6. KeysTypeOK' BY <1>1, <1>3 DEF KeysInv, KeysShape, KeysTypeOK
<1>7. Held(table)' /\ Held(memory)' BY <1>1 DEF KeysInv, KeysShape, Held, Current
<1>8. ASSUME NEW q \in Requests, At(q, "publish")' PROVE Held(request[q].list)'
  <2>1. Held(request'[q].list)
    BY <1>2, <1>3, <1>4, <1>8 DEF KeysInv, KeysShape
  <2> QED BY <1>1, <2>1 DEF Held, Current
<1>9. ASSUME NEW q \in Requests, At(q, "commit")' PROVE Ready(q)'
  <2>1. q # r /\ request'[q] = request[q] /\ Ready(q)
    BY <1>3, <1>4, <1>5, <1>9 DEF KeysInv, KeysShape
  <2>2. ~Rotates(r) BY <1>1, <2>1 DEF Ready, At
  <2> QED BY <1>1, <1>2, <1>3, <2>1, <2>2 DEF Ready, Rotates, Free, At
<1>10. \A q \in Requests : At(q, "wait")' => Rotates(q)'
  BY <1>2, <1>3, <1>4 DEF KeysInv, KeysShape, At, Free, Rotates
<1>11. KeysShape' BY <1>6, <1>7, <1>8, <1>9, <1>10 DEF KeysShape
<1>12. ASSUME ~raced PROVE KeysClean'
  <2>1. KeysClean BY <1>12 DEF KeysInv
  <2>2. \A q \in Requests : Reloads(q) => Reloads(q)' /\ (Rotates(q) => Rotates(q)')
    BY <1>3, <1>4, <1>5 DEF Reloads, Rotates, Free
  <2>3. Turning => Turning' BY <2>2 DEF Turning
  <2>4. \A q \in Requests : At(q, "publish")' => request'[q].list = table'
    BY <1>1, <1>2, <1>3, <1>4, <2>1 DEF KeysClean
  <2>5. \A q \in Requests : At(q, "commit")' => request'[q].history = Behind(table)'
    BY <1>1, <1>3, <1>4, <1>5, <2>1 DEF KeysClean, Behind, Current
  <2>6. \E q \in Requests : Reloads(q)' BY <1>5
  <2>7. (SameKeys(memory, table)' \/ Turning')
        /\ (cache' # <<>> => cache'.current = Current(table)' \/ Turning')
    BY <1>1, <2>1, <2>3 DEF KeysClean, SameKeys, Current
  <2>8. /\ Positions' /\ Retained(Current(memory))'
        /\ \A k \in signed' : Retained(k)'
        /\ cache' # <<>> => Retained(cache.current)'
    BY <1>1, <2>1 DEF KeysClean, Positions, Retained, Accepted, Current
  <2> QED BY <2>4, <2>5, <2>6, <2>7, <2>8 DEF KeysClean
<1> QED BY <1>1, <1>11, <1>12 DEF KeysInv

\* A request publishes the rows it read.
LEMMA KeysAfterPublish ==
  ASSUME KeysInv, NEW r \in Requests, Publish(r)
  PROVE  KeysInv'
<1>1. /\ request' = [request EXCEPT ![r] = Idle] /\ At(r, "publish")
      /\ memory' = request[r].list
      /\ cache' = IF request[r].kind = "rotate" THEN <<>> ELSE cache
      /\ UNCHANGED <<table, file, drawn, faults, signed, raced>>
  BY DEF Publish
<1>2. Held(request[r].list) BY <1>1 DEF KeysInv, KeysShape
<1>3. /\ request' \in [Requests -> Running \cup {Idle}]
      /\ request'[r] = Idle
      /\ \A q \in Requests \ {r} : request'[q] = request[q]
  BY <1>1, Ends DEF KeysInv, KeysShape
<1>4. \A q \in Requests \ {r} : \A a : At(q, a)' <=> At(q, a)
  BY <1>3 DEF At, Free
<1>5. \A a : ~At(r, a)'
  BY <1>3 DEF At, Free
<1>6. KeysTypeOK'
  <2>1. memory' \in ListType BY <1>1, <1>2 DEF Held
  <2>2. cache' = <<>> \/ cache' \in [current : Key, accepted : SUBSET Key]
    BY <1>1 DEF KeysInv, KeysShape, KeysTypeOK
  <2> QED BY <1>1, <1>3, <2>1, <2>2 DEF KeysInv, KeysShape, KeysTypeOK
<1>7. Held(table)' /\ Held(memory)' BY <1>1, <1>2 DEF KeysInv, KeysShape, Held, Current
<1>8. ASSUME NEW q \in Requests, At(q, "publish")' PROVE Held(request[q].list)'
  <2>1. q # r /\ request'[q] = request[q] /\ Held(request[q].list)
    BY <1>3, <1>4, <1>5, <1>8 DEF KeysInv, KeysShape
  <2> QED BY <1>1, <2>1 DEF Held, Current
<1>9. ASSUME NEW q \in Requests, At(q, "commit")' PROVE Ready(q)'
  <2>1. q # r /\ request'[q] = request[q] /\ Ready(q)
    BY <1>3, <1>4, <1>5, <1>9 DEF KeysInv, KeysShape
  <2> QED BY <1>1, <1>3, <2>1 DEF Ready, Rotates, Free
<1>10. \A q \in Requests : At(q, "wait")' => Rotates(q)'
  BY <1>2, <1>3, <1>4 DEF KeysInv, KeysShape, At, Free, Rotates
<1>11. KeysShape' BY <1>6, <1>7, <1>8, <1>9, <1>10 DEF KeysShape
<1>12. ASSUME ~raced PROVE KeysClean'
  <2>1. KeysClean /\ request[r].list = table BY <1>1, <1>12 DEF KeysInv, KeysClean
  <2>2. \A q \in Requests \ {r} : Reloads(q)' = Reloads(q) /\ Rotates(q)' = Rotates(q)
    BY <1>3, <1>4 DEF Reloads, Rotates, Free
  <2>3. ~(Rotates(r) /\ Reloads(r)) /\ Turning => Turning' BY <2>2 DEF Turning
  <2>4. \A q \in Requests : At(q, "publish")' => request'[q].list = table'
    BY <1>1, <1>3, <1>4, <1>5, <2>1 DEF KeysClean
  <2>5. \A q \in Requests : At(q, "commit")' => request'[q].history = Behind(table)'
    BY <1>1, <1>3, <1>4, <1>5, <2>1 DEF KeysClean, Behind, Current
  <2>6. memory' = table' /\ SameKeys(memory, table)' BY <1>1, <2>1 DEF SameKeys
  <2>7. cache' # <<>> => cache'.current = Current(table)' \/ Turning'
    <3>1. CASE Rotates(r) BY <1>1, <3>1 DEF Rotates
    <3>2. CASE ~Rotates(r)
      <4>1. cache' = cache BY <1>1, <3>2 DEF Rotates, At
      <4> QED BY <1>1, <2>1, <2>3, <3>2, <4>1 DEF KeysClean, Current
    <3> QED BY <3>1, <3>2
  <2>8. Positions' /\ Retained(Current(memory))' /\ \A k \in signed' : Retained(k)'
    BY <1>1, <2>1 DEF KeysClean, Positions, Retained, Accepted, Current
  <2>9. cache' # <<>> => Retained(cache.current)'
    <3>1. cache' # <<>> => cache' = cache BY <1>1
    <3> QED BY <1>1, <2>1, <3>1 DEF KeysClean, Retained, Accepted, Current
  <2> QED BY <2>4, <2>5, <2>6, <2>7, <2>8, <2>9 DEF KeysClean
<1> QED BY <1>1, <1>11, <1>12 DEF KeysInv

\* The history of a rotation, from what memory holds: the key in force, then the older ones.
LEMMA HistoryOfHeld ==
  ASSUME KeysTypeOK, Held(memory)
  PROVE  /\ NextHistory = Behind(memory)
         /\ NextHistory \in Seq(Key)
         /\ \A i \in 1..Len(NextHistory) : NextHistory[i] <= drawn
<1> DEFINE current == Current(memory)
           all == <<current>> \o memory.history
           most == IF Len(all) < MaxHistory THEN Len(all) ELSE MaxHistory
<1>1. current \in Key /\ memory.history \in Seq(Key) /\ drawn \in Nat /\ current <= drawn
      /\ \A i \in 1..Len(memory.history) : memory.history[i] < current
  <2>1. memory.secret \in Key /\ memory.history \in Seq(Key) BY DEF Held, ListType
  <2>2. current \in Key BY <2>1 DEF Current, KeysTypeOK, NoKey
  <2> QED BY <2>1, <2>2 DEF Held, KeysTypeOK, Key
<1>2. Key \subseteq Nat BY KeysBounds DEF Key
<1> HIDE DEF current
<1>3. \A i \in 1..Len(memory.history) : memory.history[i] # current BY <1>1, <1>2
<1>4. Without(memory.history, current) = memory.history BY <1>1, <1>3, WithoutNone
<1>5. NextHistory = SubSeq(all, 1, most) /\ Behind(memory) = SubSeq(all, 1, most)
  BY <1>4 DEF NextHistory, Behind, current
<1>6. all \in Seq(Key) /\ Len(all) = 1 + Len(memory.history)
      /\ \A i \in 1..Len(all) : all[i] <= drawn
  <2>1. all \in Seq(Key) /\ Len(all) = 1 + Len(memory.history) BY <1>1
  <2>2. ASSUME NEW i \in 1..Len(all) PROVE all[i] <= drawn
    <3>1. CASE i = 1 BY <1>1, <3>1
    <3>2. CASE i # 1
      <4>1. i - 1 \in 1..Len(memory.history) /\ all[i] = memory.history[i - 1] BY <1>1, <2>1, <3>2
      <4>2. memory.history[i - 1] \in Key BY <1>1, <4>1
      <4>3. memory.history[i - 1] \in Nat /\ current \in Nat BY <1>1, <1>2, <4>2
      <4>4. memory.history[i - 1] < current BY <1>1, <4>1
      <4>5. memory.history[i - 1] <= drawn BY <1>1, <4>3, <4>4
      <4> QED BY <4>1, <4>5
    <3> QED BY <3>1, <3>2
  <2> QED BY <2>1, <2>2
<1>7. most \in 1..Len(all) BY <1>1, <1>6, KeysBounds
<1> HIDE DEF all, most
<1>8. SubSeq(all, 1, most) \in Seq(Key) /\ Len(SubSeq(all, 1, most)) = most
      /\ \A i \in 1..most : SubSeq(all, 1, most)[i] = all[i]
  BY <1>6, <1>7
<1> QED BY <1>5, <1>6, <1>7, <1>8

\* A rotation that gets the lock takes the history from memory.
LEMMA KeysAfterPrepare ==
  ASSUME KeysInv, NEW r \in Requests, Prepare(r)
  PROVE  KeysInv'
<1> DEFINE x == [request[r] EXCEPT !.pc = "commit", !.history = NextHistory,
                                   !.adopts = memory.source = "auto" /\ file # NoKey]
<1>1. /\ request' = [request EXCEPT ![r] = x] /\ At(r, "wait") /\ ~Locked(r)
      /\ UNCHANGED <<table, memory, cache, file, drawn, faults, signed, raced>>
  BY DEF Prepare
<1>2. x \in Running /\ x.pc = "commit" /\ x.kind = request[r].kind /\ x.history = NextHistory
      /\ x.adopts = (memory.source = "auto" /\ file # NoKey)
  <2>1. request[r] \in Running BY <1>1, AtIsRunning DEF KeysInv, KeysShape
  <2>2. NextHistory \in Seq(Key) BY HistoryOfHeld DEF KeysInv, KeysShape
  <2> QED BY <2>1, <2>2 DEF Running
<1> HIDE DEF x
<1>3. /\ request' \in [Requests -> Running \cup {Idle}]
      /\ request'[r] = x /\ x # Idle
      /\ \A q \in Requests \ {r} : request'[q] = request[q]
  BY <1>1, <1>2, Replaced, RunningIsNotIdle DEF KeysInv, KeysShape
<1>4. \A q \in Requests \ {r} : \A a : At(q, a)' <=> At(q, a)
  BY <1>3 DEF At, Free
<1>5. ~At(r, "publish")' /\ ~Reloads(r)
  BY <1>1, <1>2, <1>3 DEF At, Reloads, Free
<1>6. \A q \in Requests \ {r} : Rotates(q) => request[q].pc = "wait"
  BY <1>1 DEF Locked, Rotates
<1>7. KeysTypeOK' BY <1>1, <1>3 DEF KeysInv, KeysShape, KeysTypeOK
<1>8. Held(table)' /\ Held(memory)' BY <1>1 DEF KeysInv, KeysShape, Held, Current
<1>9. ASSUME NEW q \in Requests, At(q, "publish")' PROVE Held(request[q].list)'
  <2>1. q # r /\ request'[q] = request[q] /\ Held(request[q].list)
    BY <1>3, <1>4, <1>5, <1>9 DEF KeysInv, KeysShape
  <2> QED BY <1>1, <2>1 DEF Held, Current
<1>10. ASSUME NEW q \in Requests, At(q, "commit")' PROVE q = r
  <2>1. q # r => Rotates(q) /\ request[q].pc = "commit"
    BY <1>4, <1>10 DEF KeysInv, KeysShape, Ready, At
  <2> QED BY <1>6, <2>1
<1>11. Ready(r)'
  <2>1. Rotates(r)' <=> Rotates(r) BY <1>1, <1>2, <1>3 DEF Rotates, Free, At
  <2>2. Rotates(r) BY <1>1 DEF KeysInv, KeysShape
  <2>3. \A i \in 1..Len(request'[r].history) : request'[r].history[i] <= drawn'
    BY <1>1, <1>2, <1>3, HistoryOfHeld DEF KeysInv, KeysShape
  <2>4. request'[r].adopts \/ table'.source = "db" \/ file' = NoKey
    <3>1. memory.source \in {"auto", "db"} /\ (memory.source = "db" => table.source = "db")
      BY DEF KeysInv, KeysShape, Held, ListType
    <3> QED BY <1>1, <1>2, <1>3, <3>1
  <2>5. \A q \in Requests \ {r} : Rotates(q)' => request'[q].pc = "wait"
    BY <1>3, <1>6 DEF Rotates, Free
  <2> QED BY <2>1, <2>2, <2>3, <2>4, <2>5 DEF Ready
<1>12. \A q \in Requests : At(q, "wait")' => Rotates(q)'
  BY <1>2, <1>3, <1>4 DEF KeysInv, KeysShape, At, Free, Rotates
<1>13. KeysShape' BY <1>7, <1>8, <1>9, <1>10, <1>11, <1>12 DEF KeysShape
<1>14. ASSUME ~raced PROVE KeysClean'
  <2>1. KeysClean BY <1>14 DEF KeysInv
  <2>2. ~Turning
    BY <1>5, <1>6 DEF Turning, Reloads, At
  <2>3. \A q \in Requests : Reloads(q) => Reloads(q)'
    BY <1>4, <1>5 DEF Reloads
  <2>4. \A q \in Requests : At(q, "publish")' => request'[q].list = table'
    BY <1>1, <1>3, <1>4, <1>5, <2>1 DEF KeysClean
  <2>5. SameKeys(memory, table) BY <2>1, <2>2 DEF KeysClean
  <2>6. \A q \in Requests : At(q, "commit")' => request'[q].history = Behind(table)'
    <3>1. NextHistory = Behind(memory) BY HistoryOfHeld DEF KeysInv, KeysShape
    <3>2. Behind(memory) = Behind(table) BY <2>5 DEF Behind, SameKeys, Current
    <3>3. Behind(table)' = Behind(table) BY <1>1 DEF Behind, Current
    <3> QED BY <1>2, <1>3, <1>10, <3>1, <3>2, <3>3
  <2>7. memory' = table' \/ \E q \in Requests : Reloads(q)'
    BY <1>1, <2>1, <2>3 DEF KeysClean
  <2>8. SameKeys(memory, table)' /\ (cache' # <<>> => cache'.current = Current(table)')
    BY <1>1, <2>1, <2>2 DEF KeysClean, SameKeys, Current
  <2>9. /\ Positions' /\ Retained(Current(memory))'
        /\ \A k \in signed' : Retained(k)'
        /\ cache' # <<>> => Retained(cache.current)'
    BY <1>1, <2>1 DEF KeysClean, Positions, Retained, Accepted, Current
  <2> QED BY <2>4, <2>6, <2>7, <2>8, <2>9 DEF KeysClean
<1> QED BY <1>1, <1>13, <1>14 DEF KeysInv

\* A rotation commits: it holds the lock, so that no other is past it.
LEMMA KeysAfterCommit ==
  ASSUME KeysInv, NEW r \in Requests, Commit(r)
  PROVE  KeysShape'
<1>1. /\ drawn < MaxKeys /\ drawn' = drawn + 1 /\ At(r, "commit")
      /\ table' = [table EXCEPT !.secret = drawn + 1, !.history = request[r].history,
                                !.source = IF request[r].adopts THEN "db" ELSE @]
      /\ raced' = Races(r) /\ UNCHANGED <<memory, cache, file, faults, signed>>
  BY DEF Commit
<1>2. /\ request' \in [Requests -> Running \cup {Idle}]
      /\ request'[r] # Idle /\ request'[r].pc = "read" /\ request'[r].kind = request[r].kind
      /\ \A q \in Requests \ {r} : request'[q] = request[q]
  BY <1>1, GoesOn DEF KeysInv, KeysShape, Commit
<1>3. \A q \in Requests \ {r} : \A a : At(q, a)' <=> At(q, a)
  BY <1>2 DEF At, Free
<1>4. ~At(r, "publish")' /\ ~At(r, "commit")' /\ ~At(r, "wait")'
  BY <1>2 DEF At, Free
<1>5. Ready(r) BY <1>1 DEF KeysInv, KeysShape
<1>6. /\ drawn \in Nat /\ drawn' \in Key /\ drawn \in Key
      /\ MaxKeys \in Nat
  BY <1>1, KeysBounds DEF KeysInv, KeysShape, KeysTypeOK, Key
<1>7. request[r].history \in Seq(Key)
  BY <1>1, AtIsRunning DEF KeysInv, KeysShape, Running
<1>8. /\ table' \in ListType /\ table'.secret = drawn' /\ table'.history = request[r].history
      /\ request[r].adopts => table'.source = "db"
      /\ table.source = "db" => table'.source = "db"
  <2>1. table \in ListType BY DEF KeysInv, KeysShape, Held
  <2> DEFINE source == IF request[r].adopts THEN "db" ELSE table.source
  <2>2. source \in {"auto", "db"} /\ table.source \in {"auto", "db"} BY <2>1 DEF ListType
  <2> HIDE DEF source
  <2>3. table' = [table EXCEPT !.secret = drawn + 1, !.history = request[r].history,
                               !.source = source]
    BY <1>1 DEF source
  <2>4. table' \in ListType /\ table'.secret = drawn' /\ table'.history = request[r].history
        /\ table'.source = source
    BY <1>1, <1>6, <1>7, <2>1, <2>2, <2>3 DEF ListType
  <2> QED BY <2>4 DEF source
<1>9. KeysTypeOK'
  BY <1>1, <1>2, <1>6, <1>8 DEF KeysInv, KeysShape, KeysTypeOK, Races
<1>10. Current(table)' = drawn'
  BY <1>1, <1>5, <1>8 DEF Ready, Current
<1>11. Held(table)'
  <2>1. \A i \in 1..Len(table'.history) : table'.history[i] < drawn'
    <3> SUFFICES ASSUME NEW i \in 1..Len(table'.history) PROVE table'.history[i] < drawn'
      OBVIOUS
    <3>1. table'.history[i] \in Key /\ Key \subseteq Nat BY <1>6, <1>7, <1>8 DEF Key
    <3>2. table'.history[i] <= drawn BY <1>5, <1>8 DEF Ready
    <3>3. table'.history[i] \in Nat BY <3>1
    <3>4. drawn' = drawn + 1 /\ drawn \in Nat BY <1>1, <1>6
    <3> QED BY <3>2, <3>3, <3>4
  <2> QED BY <1>1, <1>6, <1>8, <1>10, <2>1 DEF Held
<1>12. ASSUME NEW l, Held(l) PROVE /\ l \in ListType /\ Current(l)' <= drawn'
                                   /\ \A i \in 1..Len(l.history) : l.history[i] < Current(l)'
                                   /\ l.source = "db" => table'.source = "db"
  <2>1. Current(l)' = Current(l) BY <1>1 DEF Current
  <2>2. Current(l) \in Nat
    BY <1>6, <1>12 DEF Held, Current, ListType, Key, KeysInv, KeysShape, KeysTypeOK, NoKey
  <2> QED BY <1>1, <1>6, <1>8, <1>12, <2>1, <2>2 DEF Held
<1>13. Held(memory)' BY <1>1, <1>12 DEF KeysInv, KeysShape, Held, Current
<1>14. ASSUME NEW q \in Requests, At(q, "publish")' PROVE Held(request[q].list)'
  <2>1. q # r /\ request'[q] = request[q] /\ Held(request[q].list)
    BY <1>2, <1>3, <1>4, <1>14 DEF KeysInv, KeysShape
  <2> QED BY <1>1, <1>12, <2>1 DEF Held, Current
<1>15. \A q \in Requests : ~At(q, "commit")'
  <2>1. \A q \in Requests \ {r} : ~At(q, "commit")
    BY <1>5 DEF Ready, At, KeysInv, KeysShape
  <2> QED BY <1>3, <1>4, <2>1
<1>16. \A q \in Requests : At(q, "wait")' => Rotates(q)'
  BY <1>2, <1>3, <1>4 DEF KeysInv, KeysShape, Free, Rotates
<1> QED BY <1>9, <1>11, <1>13, <1>14, <1>15, <1>16 DEF KeysShape

\* What the table accepts, seen by position.
LEMMA AcceptedAt ==
  ASSUME NEW l, l.history \in Seq(Key), NEW k
  PROVE  k \in Accepted(l) <=> k = Current(l) \/ \E i \in 1..Len(l.history) : k = l.history[i]
BY DEF Accepted, Range

\* A rotation that nothing raced draws its history from the table, so that each key the table
\* accepted goes one place back, and the last one out.
LEMMA CleanAfterCommit ==
  ASSUME KeysInv, NEW r \in Requests, Commit(r), ~raced', KeysShape'
  PROVE  KeysClean'
<1>1. /\ drawn < MaxKeys /\ drawn' = drawn + 1 /\ At(r, "commit")
      /\ table' = [table EXCEPT !.secret = drawn + 1, !.history = request[r].history,
                                !.source = IF request[r].adopts THEN "db" ELSE @]
      /\ raced' = Races(r) /\ UNCHANGED <<memory, cache, file, faults, signed>>
  BY DEF Commit
<1>2. /\ request'[r] # Idle /\ request'[r].pc = "read" /\ request'[r].kind = request[r].kind
      /\ \A q \in Requests \ {r} : request'[q] = request[q]
  BY <1>1, GoesOn DEF KeysInv, KeysShape, Commit
<1>3. \A q \in Requests \ {r} : \A a : At(q, a)' <=> At(q, a)
  BY <1>2 DEF At, Free
<1>4. Ready(r) /\ KeysClean /\ (\A q \in Requests \ {r} : ~At(q, "publish"))
  BY <1>1 DEF KeysInv, KeysShape, Races
<1>5. Turning' /\ \E q \in Requests : Reloads(q)'
  BY <1>2, <1>4 DEF Turning, Reloads, Rotates, Ready, At, Free
<1>6. \A q \in Requests : ~At(q, "publish")' /\ ~At(q, "commit")'
  <2>1. \A q \in Requests \ {r} : ~At(q, "commit")
    BY <1>4 DEF Ready, At, KeysInv, KeysShape
  <2> QED BY <1>2, <1>3, <1>4, <2>1 DEF At, Free
<1>7. SameKeys(memory, table)
  BY <1>1, <1>4 DEF KeysClean, Turning, Ready, Reloads, At
<1> DEFINE current == Current(table)
           L == table.history
           H == request[r].history
           most == IF 1 + Len(L) < MaxHistory THEN 1 + Len(L) ELSE MaxHistory
<1>8. /\ L \in Seq(Key) /\ current <= drawn /\ current \in Key /\ drawn \in Nat
      /\ Key \subseteq Nat /\ MaxHistory \in Nat \ {0}
  <2>1. table.secret \in Key /\ L \in Seq(Key) BY DEF KeysInv, KeysShape, Held, ListType
  <2>2. current \in Key BY <2>1 DEF Current, KeysInv, KeysShape, KeysTypeOK, NoKey
  <2> QED BY <2>1, <2>2, KeysBounds DEF KeysInv, KeysShape, Held, KeysTypeOK, Key
<1>9. /\ table'.history = H /\ H \in Seq(Key)
      /\ Held(table)' /\ Current(table)' = drawn'
  <2>1. H \in Seq(Key) BY <1>1, AtIsRunning DEF KeysInv, KeysShape, Running
  <2>2. table \in ListType BY DEF KeysInv, KeysShape, Held
  <2>3. table'.history = H /\ table'.secret = drawn'
        /\ table'.source = IF request[r].adopts THEN "db" ELSE table.source
    BY <1>1, <2>2 DEF ListType
  <2>4. Current(table)' = drawn' BY <1>1, <1>4, <2>3 DEF Ready, Current
  <2> QED BY <2>1, <2>3, <2>4 DEF KeysShape
<1>10. H = Behind(table) BY <1>1, <1>4 DEF KeysClean
<1> HIDE DEF current
<1>11. /\ Len(H) = most /\ most >= 1 /\ H[1] = current
       /\ \A i \in 1..most : i > 1 => H[i] = L[i - 1] /\ i - 1 \in 1..Len(L)
  <2> DEFINE all == <<current>> \o L
  <2>1. all \in Seq(Key) /\ Len(all) = 1 + Len(L) /\ all[1] = current
        /\ \A i \in 1..Len(all) : i > 1 => all[i] = L[i - 1]
    BY <1>8
  <2>2. H = SubSeq(all, 1, most) BY <1>10, <2>1 DEF Behind, current
  <2>3. most \in 1..Len(all) BY <1>8, <2>1
  <2> HIDE DEF all, L, H, most
  <2>4. Len(H) = most /\ \A i \in 1..most : H[i] = all[i] BY <2>1, <2>2, <2>3
  <2>5. \A i \in 1..most : i > 1 => i - 1 \in 1..Len(L) BY <2>1, <2>3
  <2> QED BY <2>1, <2>3, <2>4, <2>5
<1>12. Positions'
  <2> SUFFICES ASSUME NEW i \in 1..Len(table'.history) PROVE table'.history[i] + i <= drawn'
    BY DEF Positions
  <2>1. i \in 1..most /\ table'.history[i] = H[i] BY <1>9, <1>11
  <2>2. CASE i = 1
    <3>1. table'.history[i] = current BY <1>11, <2>1, <2>2
    <3>2. current \in Nat /\ current <= drawn /\ drawn \in Nat BY <1>8
    <3>3. drawn' = drawn + 1 BY <1>1
    <3> QED BY <2>2, <3>1, <3>2, <3>3
  <2>3. CASE i > 1
    <3>1. L[i - 1] + (i - 1) <= drawn BY <1>4, <1>11, <2>1, <2>3 DEF KeysClean, Positions
    <3>2. H[i] = L[i - 1] /\ i - 1 \in 1..Len(L) BY <1>11, <2>1, <2>3
    <3>3. L[i - 1] \in Key BY <1>8, <3>2
    <3>4. L[i - 1] \in Nat BY <1>8, <3>3
    <3>5. table'.history[i] = L[i - 1] /\ i \in Nat BY <2>1, <3>2
    <3> HIDE DEF L, H
    <3>6. drawn' = drawn + 1 /\ drawn \in Nat BY <1>1, <1>8
    <3> QED BY <3>1, <3>4, <3>5, <3>6
  <2> QED BY <2>1, <2>2, <2>3
<1>13. ASSUME NEW k \in Key, Retained(k) PROVE Retained(k)'
  <2>1. k \in Nat BY <1>8
  <2>2. k \in Accepted(table)' <=> k = drawn' \/ \E i \in 1..Len(H) : k = H[i]
    BY <1>9 DEF Accepted, Range
  <2>3. CASE drawn - k > MaxHistory BY <1>1, <1>8, <2>1, <2>3 DEF Retained
  <2>4. CASE k = current BY <1>11, <2>2, <2>4 DEF Retained
  <2>5. ASSUME NEW i \in 1..Len(L), k = L[i] PROVE Retained(k)'
    <3>1. CASE i < MaxHistory
      <4>1. i + 1 \in 1..most /\ i + 1 > 1 BY <1>8, <2>5, <3>1
      <4>2. H[i + 1] = k BY <1>11, <2>5, <4>1
      <4> QED BY <1>11, <2>2, <4>1, <4>2 DEF Retained
    <3>2. CASE i >= MaxHistory
      <4>1. k + i <= drawn BY <1>4, <2>5 DEF KeysClean, Positions
      <4>2. drawn' = drawn + 1 /\ drawn \in Nat /\ MaxHistory \in Nat /\ MaxHistory' = MaxHistory
        BY <1>1, <1>8
      <4>3. drawn' - k > MaxHistory BY <2>1, <3>2, <4>1, <4>2
      <4> QED BY <4>3 DEF Retained
    <3> QED BY <1>8, <3>1, <3>2
  <2>6. k \in Accepted(table) <=> k = current \/ \E i \in 1..Len(L) : k = L[i]
    BY <1>8, AcceptedAt DEF current
  <2> QED BY <1>13, <2>3, <2>4, <2>5, <2>6 DEF Retained
<1>14. Current(memory)' = current BY <1>1, <1>7 DEF SameKeys, Current, current
<1>15. Retained(Current(memory))'
  <2>1. PICK k : k = current OBVIOUS
  <2>2. Retained(k)' BY <1>8, <1>13, <2>1, AcceptedAt DEF Retained, current
  <2> QED BY <1>14, <2>1, <2>2 DEF Retained
<1>16. \A k \in signed' : Retained(k)'
  BY <1>1, <1>4, <1>13 DEF KeysClean, KeysInv, KeysShape, KeysTypeOK
<1>17. cache' # <<>> => Retained(cache.current)'
  <2> SUFFICES ASSUME cache # <<>> PROVE Retained(cache.current)' BY <1>1
  <2>1. PICK k : k = cache.current OBVIOUS
  <2>2. k \in Key /\ Retained(k) BY <1>4, <2>1 DEF KeysClean, KeysInv, KeysShape, KeysTypeOK
  <2>3. Retained(k)' BY <1>13, <2>2
  <2> QED BY <1>1, <2>1, <2>3
<1> QED BY <1>5, <1>6, <1>12, <1>15, <1>16, <1>17 DEF KeysClean

\* An attestation is signed, by the key of the cache or else of memory.
LEMMA KeysAfterCertify ==
  ASSUME KeysInv, Certify
  PROVE  KeysInv'
<1> DEFINE used == IF cache # <<>> THEN cache
                   ELSE [current |-> Current(memory), accepted |-> Accepted(memory)]
<1>1. /\ cache' = used /\ signed' = signed \cup {used.current}
      /\ UNCHANGED <<table, memory, file, request, drawn, faults, raced>>
  BY DEF Certify
<1>2. used \in [current : Key, accepted : SUBSET Key]
  <2>1. CASE cache # <<>> BY <2>1 DEF KeysInv, KeysShape, KeysTypeOK
  <2>2. CASE cache = <<>>
    <3>1. memory.secret \in Key /\ memory.history \in Seq(Key)
      BY DEF KeysInv, KeysShape, Held, ListType
    <3>2. Current(memory) \in Key
      BY <3>1 DEF Current, KeysInv, KeysShape, KeysTypeOK, NoKey
    <3>3. \A i \in 1..Len(memory.history) : memory.history[i] \in Key BY <3>1
    <3>4. Accepted(memory) \subseteq Key BY <3>2, <3>3 DEF Accepted, Range
    <3> QED BY <2>2, <3>2, <3>4
  <2> QED BY <2>1, <2>2
<1>3. (cache # <<>> /\ used.current = cache.current) \/ used.current = Current(memory)
  OBVIOUS
<1> HIDE DEF used
<1>4. \A q : (\A a : At(q, a)' <=> At(q, a)) /\ (Rotates(q)' <=> Rotates(q))
             /\ (Reloads(q)' <=> Reloads(q))
  BY <1>1 DEF At, Free, Rotates, Reloads
<1>5. KeysTypeOK'
  BY <1>1, <1>2 DEF KeysInv, KeysShape, KeysTypeOK
<1>6. KeysShape'
  <2>1. Held(table)' /\ Held(memory)' BY <1>1 DEF KeysInv, KeysShape, Held, Current
  <2>2. ASSUME NEW q \in Requests, At(q, "publish")' PROVE Held(request[q].list)'
    BY <1>1, <1>4, <2>2 DEF KeysInv, KeysShape, Held, Current
  <2>3. ASSUME NEW q \in Requests, At(q, "commit")' PROVE Ready(q)'
    BY <1>1, <1>4, <2>3 DEF KeysInv, KeysShape, Ready
  <2> QED BY <1>4, <1>5, <2>1, <2>2, <2>3 DEF KeysInv, KeysShape
<1>7. ASSUME ~raced PROVE KeysClean'
  <2>1. KeysClean BY <1>7 DEF KeysInv
  <2>2. Turning => Turning' BY <1>4 DEF Turning
  <2>3. Retained(cache.current)' /\ \A k \in signed' : Retained(k)'
    <3>1. PICK k : k = used.current OBVIOUS
    <3>2. Retained(k) BY <1>3, <2>1, <3>1 DEF KeysClean
    <3>3. \A j : Retained(j) => Retained(j)' BY <1>1 DEF Retained, Accepted, Current
    <3>4. cache'.current = k /\ signed' = signed \cup {k} BY <1>1, <3>1
    <3>5. Retained(cache.current)' BY <3>2, <3>3, <3>4 DEF Retained
    <3> QED BY <2>1, <3>2, <3>3, <3>4, <3>5 DEF KeysClean
  <2>4. used.current = Current(table) \/ Turning
    BY <1>3, <2>1 DEF KeysClean, SameKeys, Current
  <2>5. \A q \in Requests : /\ At(q, "publish")' => request'[q].list = table'
                            /\ At(q, "commit")' => request'[q].history = Behind(table)'
    BY <1>1, <1>4, <2>1 DEF KeysClean, Behind, Current
  <2>6. /\ memory' = table' \/ \E q \in Requests : Reloads(q)'
        /\ SameKeys(memory, table)' \/ Turning'
        /\ cache'.current = Current(table)' \/ Turning'
    BY <1>1, <1>4, <2>1, <2>2, <2>4 DEF KeysClean, SameKeys, Current
  <2>7. Positions' /\ Retained(Current(memory))'
    BY <1>1, <2>1 DEF KeysClean, Positions, Retained, Accepted, Current
  <2> QED BY <1>1, <2>3, <2>5, <2>6, <2>7 DEF KeysClean
<1> QED BY <1>1, <1>6, <1>7 DEF KeysInv

\* The server starts again, from the rows.
LEMMA KeysAfterInitialize ==
  ASSUME KeysInv, Initialize
  PROVE  KeysInv'
<1>1. /\ faults < MaxFaults /\ faults' = faults + 1 /\ memory' = table /\ cache' = <<>>
      /\ request' = [q \in Requests |-> Idle]
      /\ UNCHANGED <<table, file, drawn, signed, raced>>
  BY DEF Initialize
<1>2. \A q \in Requests : \A a : ~At(q, a)' BY <1>1 DEF At, Free
<1>3. KeysTypeOK'
  <2>1. faults' \in 0..MaxFaults BY <1>1, KeysBounds DEF KeysInv, KeysShape, KeysTypeOK
  <2>2. request' \in [Requests -> Running \cup {Idle}] BY <1>1
  <2> QED BY <1>1, <2>1, <2>2 DEF KeysInv, KeysShape, KeysTypeOK
<1>4. Held(table)' /\ Held(memory)' BY <1>1 DEF KeysInv, KeysShape, Held, Current
<1>5. KeysShape' BY <1>2, <1>3, <1>4 DEF KeysShape
<1>6. ASSUME ~raced PROVE KeysClean'
  <2>1. KeysClean BY <1>6 DEF KeysInv
  <2>2. Positions' /\ \A k \in signed' : Retained(k)'
    BY <1>1, <2>1 DEF KeysClean, Positions, Retained, Accepted, Current
  <2>3. Retained(Current(memory))' BY <1>1 DEF Retained, Accepted, Current
  <2> QED BY <1>1, <1>2, <2>2, <2>3 DEF KeysClean, SameKeys
<1> QED BY <1>1, <1>5, <1>6 DEF KeysInv

\* Each step keeps the invariant.
LEMMA KeysStep == ASSUME KeysInv, [KeysNext]_keysVars PROVE KeysInv'
<1>1. CASE UNCHANGED keysVars
  <2>1. UNCHANGED <<table, memory, cache, file, request, drawn, faults, signed, raced>>
    BY <1>1 DEF keysVars
  <2>2. KeysTypeOK' BY <2>1 DEF KeysInv, KeysShape, KeysTypeOK
  <2>3. \A q : (\A a : At(q, a)' <=> At(q, a)) /\ (Rotates(q)' <=> Rotates(q))
               /\ (Reloads(q)' <=> Reloads(q))
    BY <2>1 DEF At, Free, Rotates, Reloads
  <2>4. \A l : Held(l) => /\ l \in ListType /\ Current(l)' <= drawn'
                          /\ \A i \in 1..Len(l.history) : l.history[i] < Current(l)'
                          /\ l.source = "db" => table'.source = "db"
    BY <2>1 DEF Held, Current
  <2>5. \A q \in Requests : Ready(q)' <=> Ready(q)
    BY <2>1, <2>3 DEF Ready
  <2>6. KeysShape'
    BY <2>1, <2>2, <2>3, <2>4, <2>5 DEF KeysInv, KeysShape, Held, Current
  <2>7. (Turning' <=> Turning) /\ (Positions' <=> Positions) /\ Behind(table)' = Behind(table)
        /\ \A k : Retained(k)' <=> Retained(k)
    BY <2>1, <2>3 DEF Turning, Positions, Behind, Retained, Accepted, Current
  <2>8. KeysClean => KeysClean'
    BY <2>1, <2>3, <2>7 DEF KeysClean, SameKeys, Current, Retained
  <2> QED BY <2>1, <2>6, <2>8 DEF KeysInv
<1>2. ASSUME NEW r \in Requests, Update(r) \/ Rotate(r) PROVE KeysInv' BY <1>2, KeysAfterStart
<1>3. ASSUME NEW r \in Requests, Save(r) PROVE KeysInv' BY <1>3, KeysAfterSave
<1>4. ASSUME NEW r \in Requests, ReadTable(r) PROVE KeysInv' BY <1>4, KeysAfterReadTable
<1>5. ASSUME NEW r \in Requests, Publish(r) PROVE KeysInv' BY <1>5, KeysAfterPublish
<1>6. ASSUME NEW r \in Requests, Prepare(r) PROVE KeysInv' BY <1>6, KeysAfterPrepare
<1>7. ASSUME NEW r \in Requests, Commit(r) PROVE KeysInv'
  BY <1>7, KeysAfterCommit, CleanAfterCommit DEF KeysInv
<1> QED BY <1>1, <1>2, <1>3, <1>4, <1>5, <1>6, <1>7, KeysAfterCertify, KeysAfterInitialize
    DEF KeysNext

LEMMA KeysInvariant == KeysSpec => []KeysInv
<1>1. KeysInit => KeysInv BY KeysStarts
<1>2. KeysInv /\ [KeysNext]_keysVars => KeysInv' BY KeysStep
<1> QED BY <1>1, <1>2, PTL DEF KeysSpec

\* What the program holds of the configuration and of the keys has its type.
THEOREM KeysWellTyped == KeysSpec => []KeysTypeOK
<1>1. KeysInv => KeysTypeOK BY DEF KeysInv, KeysShape
<1> QED BY <1>1, KeysInvariant, PTL

\* A key that has signed is retained until MaxHistory later ones have pushed it out, unless a
\* write met a request that held an older list (JwtSecretService.rotate).
THEOREM KeysStay == KeysSpec => []KeysRetained
<1>1. KeysInv => KeysRetained
  BY DEF KeysInv, KeysClean, Retained, KeysRetained, KeysShape, KeysTypeOK
<1> QED BY <1>1, KeysInvariant, PTL

\* When no request is under way, what memory and the cache hold is what the table says, unless
\* a write met a request that held an older list (ConfigService.update, JwtSecretService.rotate).
THEOREM MemoryAgrees == KeysSpec => []MemoryFresh
<1>1. KeysInv => MemoryFresh
  BY DEF KeysInv, KeysClean, Turning, Reloads, MemoryFresh, At
<1> QED BY <1>1, KeysInvariant, PTL
=============================================================================
