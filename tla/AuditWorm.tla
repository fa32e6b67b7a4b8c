----------------------------- MODULE AuditWorm -----------------------------
(***************************************************************************)
(* The audit trail: concurrent writers that chain each event to the last   *)
(* one by its hash, the append-only mirror, and the verification that      *)
(* walks the chain in batches while writers append to it.                  *)
(*                                                                         *)
(* A writer reads the head in one step and inserts after it in a later     *)
(* one; the UNIQUE index on sequenceNumber decides between two that read   *)
(* the same head.  Rows change behind the chain in two ways: deleting a    *)
(* user nulls userId in that user's rows, and somebody may edit or remove  *)
(* rows in the database.                                                   *)
(***************************************************************************)
EXTENDS Naturals, FiniteSets, Sequences

CONSTANTS
  Writers,      \* calls of record that may run at once
  Verifier,     \* the one of them that records the result of a verification
  Users, NoUser,
  Events,       \* what a row says besides its user and its links
  Report,       \* the event that only a verification records, one of Events
  Hash(_, _),   \* SHA-256 of the previous hash and the canonical payload
  Genesis,      \* GENESIS_HASH
  BatchSize,    \* verifyBatchSize
  MaxSeq,       \* bound: no event starts once it could not be numbered
  MaxTampered   \* bound on the rows edited or removed

ASSUME WritersAssumption == Verifier \in Writers
ASSUME UsersAssumption == NoUser \notin Users
ASSUME EventsAssumption == Report \in Events
ASSUME BoundsAssumption == MaxSeq \in Nat \ {0} /\ BatchSize \in Nat \ {0} /\ MaxTampered \in Nat
VARIABLES
  users,               \* the rows of User
  log,                 \* AuditLog by sequenceNumber
  mirror,              \* the lines of the NDJSON files
  pc, user, event,     \* of each writer: its step and its input
  head, prev, attempt, \* the head it read, its hash, the retries so far
  vPc, cursor, expected, gauge,   \* the verification; audit_log_hash_chain_broken
  \* history, read by no step of the program
  start,               \* the head when record was called
  unmirrored,          \* rows whose line could not be written, or was cut off by a restart
  nulled, tampered,    \* rows whose user was deleted; rows edited or removed
  first, before,       \* of the verification: its first row; the damage as it began
  failed               \* the last verification could not run to its end

writerVars == <<pc, user, event, head, prev, attempt, start>>
verifyVars == <<vPc, cursor, expected, gauge, first, before, failed>>
vars == <<users, log, mirror, writerVars, verifyVars, unmirrored, nulled, tampered>>

damaged == nulled \cup tampered

Seqs == 1..MaxSeq
NoRow == [stored |-> FALSE, user |-> NoUser, event |-> Report, prev |-> Genesis,
          hash |-> Genesis]
Rows == {s \in Seqs : log[s].stored}
IsHead(h) == h \in Rows \cup {0} /\ \A s \in Rows : s <= h

Payload(s, u, e) == [sequenceNumber |-> s, userId |-> u, eventType |-> e]
RowHash(s) == Hash(log[s].prev, Payload(s, log[s].user, log[s].event))

Init ==
  /\ users = Users
  /\ log = [s \in Seqs |-> NoRow]
  /\ mirror = <<>>
  /\ pc = [w \in Writers |-> "idle"]
  /\ user = [w \in Writers |-> NoUser]
  /\ event = [w \in Writers |-> Report]
  /\ head = [w \in Writers |-> 0]
  /\ prev = [w \in Writers |-> Genesis]
  /\ attempt = [w \in Writers |-> 0]
  /\ vPc = "idle" /\ cursor = 0 /\ expected = Genesis /\ gauge = FALSE
  /\ start = [w \in Writers |-> 0]
  /\ unmirrored = {} /\ nulled = {} /\ tampered = {}
  /\ first = 0 /\ before = {} /\ failed = FALSE

----------------------------------------------------------------------------
(* record *)

Rest == {"idle", "lost"}      \* "lost": the event was given up after its retry

\* record returns: its locals are gone.
Return(w, to) ==
  /\ pc' = [pc EXCEPT ![w] = to]
  /\ user' = [user EXCEPT ![w] = NoUser]
  /\ event' = [event EXCEPT ![w] = Report]
  /\ head' = [head EXCEPT ![w] = 0]
  /\ prev' = [prev EXCEPT ![w] = Genesis]
  /\ attempt' = [attempt EXCEPT ![w] = 0]
  /\ start' = [start EXCEPT ![w] = IF to = "lost" THEN start[w] ELSE 0]

\* Bound: every event in flight, this one included, can still be numbered.
CanNumber ==
  \E h \in 0..MaxSeq :
    IsHead(h) /\ h + Cardinality({w \in Writers : pc[w] \in {"read", "insert"}}) < MaxSeq

Begin(w, u, e) ==
  /\ pc[w] \in Rest /\ CanNumber
  /\ pc' = [pc EXCEPT ![w] = "read"]
  /\ user' = [user EXCEPT ![w] = u]
  /\ event' = [event EXCEPT ![w] = e]
  /\ attempt' = [attempt EXCEPT ![w] = 0]
  /\ \E h \in 0..MaxSeq : IsHead(h) /\ start' = [start EXCEPT ![w] = h]
  /\ UNCHANGED <<head, prev>>

Record(w) ==
  /\ w # Verifier
  /\ \E u \in users \cup {NoUser}, e \in Events \ {Report} : Begin(w, u, e)
  /\ UNCHANGED <<users, log, mirror, verifyVars, unmirrored, nulled, tampered>>

ReadHead(w) ==
  /\ pc[w] = "read"
  /\ \E h \in 0..MaxSeq :
       /\ IsHead(h)
       /\ head' = [head EXCEPT ![w] = h]
       /\ prev' = [prev EXCEPT ![w] = IF h = 0 THEN Genesis ELSE log[h].hash]
  /\ pc' = [pc EXCEPT ![w] = "insert"]
  /\ UNCHANGED <<users, log, mirror, user, event, attempt, start, verifyVars,
                 unmirrored, nulled, tampered>>

NextRow(w) ==
  [stored |-> TRUE, user |-> user[w], event |-> event[w], prev |-> prev[w],
   hash |-> Hash(prev[w], Payload(head[w] + 1, user[w], event[w]))]

\* Mutation: the number is assigned without the UNIQUE index.
Conflict_None(w) == FALSE
\* P2002 on sequenceNumber.
Conflict(w) == head[w] + 1 \in Rows

\* Mutation: the line is built from the table, not from what create returned.
Line_Reread(w) == [seq |-> head[w] + 1, row |-> log[head[w] + 1]]
Line(w) == [seq |-> head[w] + 1, row |-> NextRow(w)]

Insert(w) ==
  /\ pc[w] = "insert" /\ head[w] < MaxSeq
  /\ user[w] \in users \cup {NoUser} /\ ~Conflict(w)
  /\ log' = [log EXCEPT ![head[w] + 1] = NextRow(w)]
  /\ pc' = [pc EXCEPT ![w] = "mirror"]
  /\ UNCHANGED <<users, mirror, user, event, head, prev, attempt, start, verifyVars,
                 unmirrored, nulled, tampered>>

\* Mutation: a conflict is an error like any other.
MayRetry_Never(w) == FALSE
MayRetry(w) == attempt[w] = 0

InsertFails(w) ==
  /\ pc[w] = "insert" /\ head[w] < MaxSeq
  /\ user[w] \in users \cup {NoUser} /\ Conflict(w)
  /\ \/ /\ MayRetry(w)
        /\ pc' = [pc EXCEPT ![w] = "read"]
        /\ attempt' = [attempt EXCEPT ![w] = @ + 1]
        /\ UNCHANGED <<user, event, head, prev, start>>
     \/ ~MayRetry(w) /\ Return(w, "lost")
  /\ UNCHANGED <<users, log, mirror, verifyVars, unmirrored, nulled, tampered>>

\* Any other error of the database, at the read or at the insert (the user is gone, P2003):
\* record logs it and returns.
RecordFails(w) ==
  /\ pc[w] \in {"read", "insert"}
  /\ Return(w, "idle")
  /\ UNCHANGED <<users, log, mirror, verifyVars, unmirrored, nulled, tampered>>

\* The line is written; or the append fails, as every one does while the directory is not there
\* (mirroring is off, or onModuleInit could not make it and went on).  That is only logged.
AppendMirror(w) ==
  /\ pc[w] = "mirror"
  /\ \/ mirror' = Append(mirror, Line(w)) /\ UNCHANGED unmirrored
     \/ unmirrored' = unmirrored \cup {head[w] + 1} /\ UNCHANGED mirror
  /\ Return(w, "idle")
  /\ UNCHANGED <<users, log, verifyVars, nulled, tampered>>

----------------------------------------------------------------------------
(* verifyIntegrity *)

VerifyStart ==
  /\ vPc = "idle"
  /\ vPc' = "scan" /\ cursor' = 0 /\ expected' = Genesis
  /\ first' = 0 /\ before' = damaged
  /\ UNCHANGED <<users, log, mirror, writerVars, gauge, failed, unmirrored,
                 nulled, tampered>>

Ahead == {s \in Rows : s > cursor}
NextBatch == {s \in Ahead : Cardinality({u \in Ahead : u <= s}) <= BatchSize}

\* The row scanned just before s, if any, and the hash s must name.
Precedes(p, s, batch) ==
  /\ p \in batch \cup ({cursor} \ {0}) /\ p < s
  /\ \A u \in batch : u < s => u <= p
\* Mutation: the expected hash starts over with each batch.
ExpectedPrev_StartsOver(p) == IF p = cursor THEN Genesis ELSE log[p].hash
ExpectedPrev(p) == IF p = cursor THEN expected ELSE log[p].hash

Unlinked(s, batch) ==
  \E p \in batch \cup {cursor} :
    Precedes(p, s, batch) /\ (s # p + 1 \/ log[s].prev # ExpectedPrev(p))

\* Mutation: only the links are checked.
Broken_LinksOnly(batch) == \E s \in batch : Unlinked(s, batch)
Broken(batch) == \E s \in batch : log[s].hash # RowHash(s) \/ Unlinked(s, batch)

\* One batch is read and checked; the last, empty one ends the walk.
VerifyBatch ==
  /\ vPc = "scan"
  /\ \/ /\ NextBatch = {}
        /\ vPc' = "report" /\ gauge' = FALSE /\ failed' = FALSE
        /\ UNCHANGED <<cursor, expected, first>>
     \/ /\ Broken(NextBatch)
        /\ vPc' = "report" /\ gauge' = TRUE /\ failed' = FALSE
        /\ UNCHANGED <<cursor, expected, first>>
     \/ /\ NextBatch # {} /\ ~Broken(NextBatch)
        /\ \E m \in NextBatch :
             /\ \A s \in NextBatch : s <= m
             /\ cursor' = m /\ expected' = log[m].hash
        /\ \E f \in NextBatch :
             /\ \A s \in NextBatch : f <= s
             /\ first' = IF first # 0 THEN first ELSE f
        /\ UNCHANGED <<vPc, gauge, failed>>
  /\ UNCHANGED <<users, log, mirror, writerVars, before, unmirrored,
                 nulled, tampered>>

\* verifyIntegrity returns: its locals are gone.
VerifyEnds ==
  /\ vPc' = "idle" /\ cursor' = 0 /\ expected' = Genesis
  /\ first' = 0 /\ before' = {}

\* The database does not answer: fail-closed, the alarm is raised and nothing is recorded.
VerifyFails ==
  /\ vPc = "scan" /\ VerifyEnds
  /\ gauge' = TRUE /\ failed' = TRUE
  /\ UNCHANGED <<users, log, mirror, writerVars, unmirrored, nulled, tampered>>

\* The result is itself an event of the chain.
VerifyReport ==
  /\ vPc = "report" /\ VerifyEnds
  /\ \/ Begin(Verifier, NoUser, Report)
     \/ ~CanNumber /\ UNCHANGED writerVars           \* bound
  /\ UNCHANGED <<users, log, mirror, gauge, failed, unmirrored, nulled, tampered>>

----------------------------------------------------------------------------
(* What alters rows that are already chained *)

\* user.delete: ON DELETE SET NULL.
DeleteUser(u) ==
  /\ u \in users
  /\ users' = users \ {u}
  /\ log' = [s \in Seqs |-> IF s \in Rows /\ log[s].user = u
                            THEN [log[s] EXCEPT !.user = NoUser] ELSE log[s]]
  /\ nulled' = nulled \cup {s \in Rows : log[s].user = u}
  /\ UNCHANGED <<mirror, writerVars, verifyVars, unmirrored, tampered>>

\* Somebody changes a row, or removes one that is not the last, in the database
\* (long after its insert: nobody who raced for that number is still at it).
Edit(s) ==
  /\ vPc = "idle" /\ s \in Rows \ damaged
  /\ Cardinality(tampered) < MaxTampered      \* bound
  /\ \E e \in Events \ {log[s].event} : log' = [log EXCEPT ![s].event = e]
  /\ tampered' = tampered \cup {s}
  /\ UNCHANGED <<users, mirror, writerVars, verifyVars, unmirrored, nulled>>

Remove(s) ==
  /\ vPc = "idle" /\ s \in Rows /\ \E u \in Rows : u > s
  /\ Cardinality(tampered) < MaxTampered      \* bound
  /\ \A w \in Writers : pc[w] = "insert" => head[w] + 1 # s
  /\ log' = [log EXCEPT ![s] = NoRow]
  /\ tampered' = tampered \cup {s}
  /\ UNCHANGED <<users, mirror, writerVars, verifyVars, unmirrored, nulled>>

\* onModuleInit clears the gauge, and goes on whether or not it can make the mirror's directory:
\* what AppendMirror can do afterwards is left open there.
Restart ==
  /\ pc' = [w \in Writers |-> "idle"]
  /\ user' = [w \in Writers |-> NoUser]
  /\ event' = [w \in Writers |-> Report]
  /\ head' = [w \in Writers |-> 0]
  /\ prev' = [w \in Writers |-> Genesis]
  /\ attempt' = [w \in Writers |-> 0]
  /\ start' = [w \in Writers |-> 0]
  /\ VerifyEnds /\ gauge' = FALSE /\ failed' = FALSE
  /\ unmirrored' = unmirrored \cup {head[w] + 1 : w \in {x \in Writers : pc[x] = "mirror"}}
  /\ UNCHANGED <<users, log, mirror, nulled, tampered>>

WriterStep(w) ==
  \/ Record(w) \/ ReadHead(w) \/ Insert(w) \/ InsertFails(w) \/ RecordFails(w)
  \/ AppendMirror(w)

Next ==
  \/ \E w \in Writers : WriterStep(w)
  \/ VerifyStart \/ VerifyBatch \/ VerifyFails \/ VerifyReport
  \/ \E u \in Users : DeleteUser(u)
  \/ \E s \in Seqs : Edit(s) \/ Remove(s)
  \/ Restart

Spec == Init /\ [][Next]_vars

----------------------------------------------------------------------------
(* Properties *)

Steps == {"idle", "lost", "read", "insert", "mirror"}

\* Every variable holds a value of the kind the program keeps in it.
TypeOK ==
  /\ users \subseteq Users
  /\ DOMAIN log = Seqs
  /\ \A s \in Rows : log[s].user \in Users \cup {NoUser} /\ log[s].event \in Events
  /\ pc \in [Writers -> Steps]
  /\ user \in [Writers -> Users \cup {NoUser}]
  /\ event \in [Writers -> Events]
  /\ head \in [Writers -> 0..MaxSeq] /\ start \in [Writers -> 0..MaxSeq]
  /\ attempt \in [Writers -> {0, 1}]
  /\ vPc \in {"idle", "scan", "report"} /\ gauge \in BOOLEAN
  /\ failed \in BOOLEAN
  /\ cursor \in 0..MaxSeq /\ first \in 0..MaxSeq
  /\ unmirrored \subseteq Seqs /\ nulled \subseteq Seqs /\ tampered \subseteq Seqs
  /\ before \subseteq Seqs

\* However many writers race for the same head, with their retries and with
\* restarts between a read and its insert, the chain never forks and has no
\* hole: every row nobody altered hashes to its own hash, and names the hash of
\* the row before it unless that one was removed.
ChainLinked ==
  \A s \in Rows :
    /\ s \notin damaged => log[s].hash = RowHash(s)
    /\ s = 1 => log[s].prev = Genesis
    /\ s > 1 /\ s - 1 \in Rows => log[s].prev = log[s - 1].hash
    /\ s > 1 /\ s - 1 \notin Rows => s - 1 \in tampered

\* An event is given up for a conflict only after two others were chained
\* meanwhile: losing to a single competitor is what the retry is for.
LostOnlyToTwo ==
  \A w \in Writers : pc[w] = "lost" => start[w] + 2 \in Rows \cup damaged

\* The alarm is never raised over a chain nothing has altered, however the
\* batches of the verification interleave with the writers, unless the last
\* verification could not read the chain to its end (fail-closed).
AlarmIsTrue == gauge => damaged # {} \/ failed

\* A verification that finds the chain valid vouches for what it read: nothing
\* altered before it began lies between the first and the last row it read.
ValidMeansIntact == vPc = "report" /\ ~gauge => before \cap (first..cursor) = {}

\* The mirror holds each row once, as it was inserted: its lines still hash
\* right after users were deleted and rows edited, and the line of a row that
\* was removed is still there.  None is missing but those that could not be
\* written, or that a restart cut off.
MirrorKeepsEvidence ==
  /\ \A i, j \in DOMAIN mirror : mirror[i].seq = mirror[j].seq => i = j
  /\ \A i \in DOMAIN mirror :
       LET row == mirror[i].row IN
         row.hash = Hash(row.prev, Payload(mirror[i].seq, row.user, row.event))
  /\ \A s \in Rows \cup tampered :
       \/ s \in unmirrored
       \/ \E w \in Writers : pc[w] = "mirror" /\ head[w] + 1 = s
       \/ \E i \in DOMAIN mirror :
            mirror[i].seq = s /\ (s \in Rows => mirror[i].row.hash = log[s].hash)

----------------------------------------------------------------------------
(* What it promises *)

Links == [s \in Rows |-> [prev |-> log[s].prev, hash |-> log[s].hash]]
Top == CHOOSE h \in 0..MaxSeq : IsHead(h)
Copies == {mirror[i].seq : i \in DOMAIN mirror}
T == INSTANCE Trail WITH links <- Links, top <- Top, copies <- Copies

\* The writers, with their races, retries and restarts, keep an append-only trail: no step
\* renumbers, relinks or overwrites a row, and none mirrors a row twice (append, mirror).
ImplementsTrail == T!Spec
=============================================================================
