-------------------------------- MODULE Keys --------------------------------
(***************************************************************************)
(* The configuration in the table and in memory, and the signing keys kept *)
(* in it: updates of a variable, rotations of the key, which run one after *)
(* the other but beside updates, and the attestations of access reviews    *)
(* signed meanwhile.                                                       *)
(*                                                                         *)
(* Neither JWT_SECRET nor config.yaml is set, which would only refuse all  *)
(* of it. A key is its number in the order of drawing; the age at which a  *)
(* retired key is dropped is left out, their number is not.  The names of  *)
(* its specification begin with its own: one module proves theorems about  *)
(* it beside those about AuditWorm.                                        *)
(***************************************************************************)
EXTENDS Naturals, Sequences, Functions

CONSTANTS
  Requests,    \* requests that run at once
  MaxHistory,  \* MAX_HISTORY
  MaxKeys,     \* bound: keys
  MaxWrites,   \* bound: updates
  MaxFaults    \* bound: restarts

ASSUME HistoryAssumption == MaxHistory \in Nat \ {0}
ASSUME KeysAssumption == MaxKeys \in Nat /\ MaxKeys >= 2 /\ MaxWrites \in Nat /\ MaxFaults \in Nat

VARIABLES
  table,    \* the rows
  memory,   \* configVariables
  cache,    \* JwtSecretService.cache: the key that signs and those accepted; <<>> when none
  file,     \* the key of the Docker secret file, NoKey when there is none
  request,  \* the handlers, between two awaits
  drawn,    \* keys drawn so far
  faults,
  \* history, read by no step of the program
  signed,   \* keys that have signed an attestation
  raced     \* rows were written while a request held a list read before

keysVars == <<table, memory, cache, file, request, drawn, faults, signed, raced>>

----------------------------------------------------------------------------
Key == 1..MaxKeys
NoKey == 0
ListType == [secret : Key, history : Seq(Key), source : {"auto", "db"}, setting : 0..MaxWrites]
Idle == [pc |-> "idle"]
NoList == <<>>
Running == [pc : {"save", "wait", "commit", "read", "publish"}, kind : {"update", "rotate"},
            history : Seq(Key),                 \* nextHistory
            adopts : BOOLEAN,                   \* the key of the file goes into the history
            list : ListType \cup {NoList}]      \* what findMany has returned

\* With or without a secret file.
KeysInit ==
  /\ table = [secret |-> 1, history |-> <<>>, source |-> "auto", setting |-> 0]
  /\ memory = table
  /\ cache = <<>>
  /\ file \in {NoKey, 2}
  /\ drawn = IF file = NoKey THEN 1 ELSE 2
  /\ request = [r \in Requests |-> Idle]
  /\ faults = 0
  /\ signed = {} /\ raced = FALSE

----------------------------------------------------------------------------
Free(r) == request[r] = Idle
At(r, pc) == ~Free(r) /\ request[r].pc = pc
Goto(r, pc) == request' = [request EXCEPT ![r].pc = pc]
Start(r, kind, pc) ==
  /\ Free(r)
  /\ request' = [request EXCEPT ![r] =
       [pc |-> pc, kind |-> kind, history |-> <<>>, adopts |-> FALSE, list |-> NoList]]
  /\ UNCHANGED <<table, memory, cache, file, drawn, faults, signed, raced>>
\* Another request is between the two ends of its findMany.
Races(r) == raced \/ \E q \in Requests \ {r} : At(q, "publish")

\* The key that signs, as the list l and the file say.
Current(l) == IF l.source = "db" \/ file = NoKey THEN l.secret ELSE file
Accepted(l) == {Current(l)} \cup Range(l.history)

----------------------------------------------------------------------------
(* ConfigService.update.                                                   *)

Update(r) == Start(r, "update", "save")
Save(r) ==
  /\ At(r, "save")
  /\ table.setting < MaxWrites   \* bound
  /\ table' = [table EXCEPT !.setting = @ + 1]
  /\ Goto(r, "read")
  /\ raced' = Races(r)
  /\ UNCHANGED <<memory, cache, file, drawn, faults, signed>>

\* findMany sees the table at one moment, and the answer takes effect at another.
ReadTable(r) ==
  /\ At(r, "read")
  /\ request' = [request EXCEPT ![r].pc = "publish", ![r].list = table]
  /\ UNCHANGED <<table, memory, cache, file, drawn, faults, signed, raced>>
\* Mutation: the reload after a rotation is not waited for.
Publish_NoReload(r) ==
  /\ At(r, "publish")
  /\ memory' = IF request[r].kind = "rotate" THEN memory ELSE request[r].list
  /\ cache' = IF request[r].kind = "rotate" THEN <<>> ELSE cache
  /\ request' = [request EXCEPT ![r] = Idle]
  /\ UNCHANGED <<table, file, drawn, faults, signed, raced>>
\* A rotation forgets the cache, too, and lets the next one in.
Publish(r) ==
  /\ At(r, "publish")
  /\ memory' = request[r].list
  /\ cache' = IF request[r].kind = "rotate" THEN <<>> ELSE cache
  /\ request' = [request EXCEPT ![r] = Idle]
  /\ UNCHANGED <<table, file, drawn, faults, signed, raced>>

----------------------------------------------------------------------------
(* JwtSecretService.rotate.                                                *)

Rotate(r) == Start(r, "rotate", "wait")

Locked(r) == \E q \in Requests \ {r} :
  ~Free(q) /\ request[q].kind = "rotate" /\ request[q].pc # "wait"

\* What is left of s without the key k.
Without(s, k) ==
  LET left[n \in 0..Len(s)] ==
        IF n = 0 THEN <<>>
        ELSE IF s[n] = k THEN left[n - 1] ELSE Append(left[n - 1], s[n])
  IN left[Len(s)]

\* Mutation: the key that retires is not retained.
NextHistory_Lost == memory.history
\* The key that signs, then the retired ones, as they are in memory.
NextHistory ==
  LET current == Current(memory)
      all == <<current>> \o Without(memory.history, current)
  IN SubSeq(all, 1, IF Len(all) < MaxHistory THEN Len(all) ELSE MaxHistory)

Prepare(r) ==
  /\ At(r, "wait") /\ ~Locked(r)
  /\ request' = [request EXCEPT ![r].pc = "commit", ![r].history = NextHistory,
                                ![r].adopts = memory.source = "auto" /\ file # NoKey]
  /\ UNCHANGED <<table, memory, cache, file, drawn, faults, signed, raced>>

\* One transaction writes the new key, the history, and that the table now decides.
Commit(r) ==
  /\ At(r, "commit")
  /\ drawn < MaxKeys   \* bound
  /\ drawn' = drawn + 1
  /\ table' = [table EXCEPT !.secret = drawn + 1, !.history = request[r].history,
                            !.source = IF request[r].adopts THEN "db" ELSE @]
  /\ Goto(r, "read")
  /\ raced' = Races(r)
  /\ UNCHANGED <<memory, cache, file, faults, signed>>

----------------------------------------------------------------------------
(* Signing, restarts.                                                      *)

\* getCache builds the cache from the list in memory when there is none; certify signs.
Certify ==
  LET used == IF cache # <<>> THEN cache
              ELSE [current |-> Current(memory), accepted |-> Accepted(memory)]
  IN /\ cache' = used
     /\ signed' = signed \cup {used.current}
     /\ UNCHANGED <<table, memory, file, request, drawn, faults, raced>>

Initialize ==
  /\ faults < MaxFaults   \* bound
  /\ faults' = faults + 1
  /\ memory' = table /\ cache' = <<>>
  /\ request' = [r \in Requests |-> Idle]
  /\ UNCHANGED <<table, file, drawn, signed, raced>>

----------------------------------------------------------------------------
KeysNext ==
  \/ \E r \in Requests : Update(r) \/ Save(r) \/ ReadTable(r) \/ Publish(r)
                         \/ Rotate(r) \/ Prepare(r) \/ Commit(r)
  \/ Certify \/ Initialize

KeysSpec == KeysInit /\ [][KeysNext]_keysVars

----------------------------------------------------------------------------
(* Properties.                                                             *)

\* Each variable holds what its place in the code can hold.
KeysTypeOK ==
  /\ table \in ListType /\ memory \in ListType
  /\ cache = <<>> \/ cache \in [current : Key, accepted : SUBSET Key]
  /\ file \in Key \cup {NoKey}
  /\ request \in [Requests -> Running \cup {Idle}]
  /\ drawn \in Key /\ faults \in 0..MaxFaults
  /\ signed \subseteq Key /\ raced \in BOOLEAN

\* A key that has signed is retained in the table, and accepted by a cache built after it,
\* until MaxHistory later ones have pushed it out, unless a write met a request that held an
\* older list: its publication brings the older list back, and the next rotation goes by it.
KeysRetained ==
  \A k \in signed : k \in Accepted(table) \/ drawn - k > MaxHistory \/ raced

\* When no request is under way, memory and table agree, and the cache, if there is one, signs
\* with the key of the table, unless a write met a request that held an older list.
MemoryFresh ==
  (\A r \in Requests : Free(r)) /\ ~raced =>
    memory = table /\ (cache # <<>> => cache.current = Current(table))
=============================================================================
