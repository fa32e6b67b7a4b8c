------------------------------ MODULE Uploads ------------------------------
(***************************************************************************)
(* The upload of the files of one share: the retry loop of the web client  *)
(* for each file, the handler that appends a chunk to a temporary file and *)
(* turns it into a recorded file after the last one, and what happens to   *)
(* both meanwhile: answers lost, restarts, the completion, its reversal    *)
(* and the removal of the share.                                           *)
(*                                                                         *)
(* The content of a file is its size and whether it is `intact', a prefix  *)
(* of the client's file. Sizes are in an arbitrary unit. An append of one  *)
(* buffer is one step, except that a restart may cut it short; the disk    *)
(* does not fail otherwise.                                                *)
(***************************************************************************)
EXTENDS Naturals, FiniteSets

CONSTANTS
  Files,        \* the files the client uploads
  Bytes,        \* the size of each
  Suspects,     \* those whose content may not be what their extension says
  ChunkSize,    \* share.chunkSize
  ShareLimit,   \* share.maxSize, or the creator's own limit if less
  MaxFileSize,  \* share.maxFileSize; 0 is no limit
  Requests,     \* how many handlers run at once
  MaxIds,       \* bound: identifiers of files
  MaxEvents     \* bound: faults, completions and reversals

Ids == 1..MaxIds
NoId == 0             \* the client has no identifier yet (undefined)

ASSUME FilesAssumption == Bytes \in [Files -> Nat] /\ Suspects \subseteq Files
ASSUME LimitsAssumption ==
  ChunkSize \in Nat \ {0} /\ ShareLimit \in Nat /\ MaxFileSize \in Nat
ASSUME BoundsAssumption == MaxIds \in Nat /\ MaxEvents \in Nat

VARIABLES
  client,       \* of each file: the loop of uploadFiles
  handler,      \* of each request: the handler, between two awaits
  share,        \* the row of the share, uploadLocked, the directory on disk
  tmp, disk,    \* <id>.tmp-chunk and <id> in the directory of the share
  rows,         \* the File table
  mislabeled,   \* the suspects whose content is not what it should be
  events,       \* faults, completions and reversals so far
  \* history, read by no step of the program
  owner,        \* the file an identifier was drawn for
  muddled,      \* identifiers with a chunk appended twice, out of place or in part
  unheard,      \* files of which an answer was lost
  raced         \* two files were recorded under one reading of the sum

diskVars == <<tmp, disk>>
histVars == <<owner, muddled, unheard, raced>>
vars == <<client, handler, share, diskVars, rows, mislabeled, events, histVars>>

----------------------------------------------------------------------------
NoFile == [there |-> FALSE, size |-> 0, intact |-> TRUE]
NoRow == [there |-> FALSE, size |-> 0]
Idle == [pc |-> "idle"]
StartOfLoop == [pc |-> "send", index |-> 0, id |-> NoId]

FileType == [there : BOOLEAN, size : Nat, intact : BOOLEAN]
RowType == [there : BOOLEAN, size : Nat]
ClientType == [pc : {"send", "wait", "done", "stopped"}, index : Nat, id : Ids \cup {NoId}]
Running == [pc : {"read", "stat", "append", "move", "check", "record"},
            file : Files, id : Ids \cup {NoId}, index : Nat,
            live : BOOLEAN,              \* the client still waits for it
            recorded : [Ids -> RowType], \* share.files, as read
            size : Nat]                  \* diskFileSize, then fileSize
HandlerType == {Idle} \cup Running

Init ==
  /\ client = [f \in Files |-> StartOfLoop]
  /\ handler = [r \in Requests |-> Idle]
  /\ share = [row |-> TRUE, locked |-> FALSE, dir |-> TRUE]
  /\ tmp = [i \in Ids |-> NoFile] /\ disk = [i \in Ids |-> NoFile]
  /\ rows = [i \in Ids |-> NoRow]
  /\ mislabeled \in SUBSET Suspects
  /\ events = 0
  /\ owner = [i \in Ids |-> NoId]
  /\ muddled = {} /\ unheard = {} /\ raced = FALSE

----------------------------------------------------------------------------
(* Sizes and chunks.                                                       *)

CeilDiv(a, b) == (a + b - 1) \div b
\* A file of 0 bytes still is one chunk.
Chunks(f) == IF Bytes[f] = 0 THEN 1 ELSE CeilDiv(Bytes[f], ChunkSize)
\* The length of a slice beyond the end is 0.
ChunkLength(f, i) ==
  IF Bytes[f] <= i * ChunkSize THEN 0
  ELSE IF Bytes[f] - i * ChunkSize < ChunkSize THEN Bytes[f] - i * ChunkSize ELSE ChunkSize
IsLast(f, i) == i + 1 = Chunks(f)
\* Mutation: an incomplete chunk is not counted.
ExpectedIndex_Floor(size) == size \div ChunkSize
\* Mutation: one too many for complete chunks.
ExpectedIndex_Next(size) == size \div ChunkSize + 1
ExpectedIndex(size) == CeilDiv(size, ChunkSize)

SizeIn(table, i) == IF table[i].there THEN table[i].size ELSE 0
\* The sizes of the files in a table, added up one after the other.
SumOfSizes(table) ==
  LET total[n \in 0..MaxIds] == IF n = 0 THEN 0 ELSE total[n - 1] + SizeIn(table, n)
  IN total[MaxIds]
SizeOf(i) == IF i # NoId /\ tmp[i].there THEN tmp[i].size ELSE 0
\* Mutation: the chunks already on disk are forgotten.
Fits_LastChunk(table, size, length) ==
  /\ SumOfSizes(table) + length <= ShareLimit
  /\ MaxFileSize > 0 => length <= MaxFileSize
Fits(table, size, length) ==
  /\ SumOfSizes(table) + size + length <= ShareLimit
  /\ MaxFileSize > 0 => size + length <= MaxFileSize

\* Appending length bytes of f, from position from on.
Appended(c, from, length) ==
  [there |-> TRUE, size |-> c.size + length, intact |-> c.intact /\ c.size = from]

\* An identifier drawn by randomUUID. It is drawn here when it first matters, and
\* one that left no trace may be drawn again.
Unused == {i \in Ids : /\ ~tmp[i].there /\ ~disk[i].there /\ ~rows[i].there
                       /\ \A f \in Files : client[f].id # i
                       /\ \A r \in Requests : handler[r] # Idle => handler[r].id # i}
FirstUnused == LET unused == Unused IN {i \in unused : \A j \in unused : i <= j}
Drawing == {r \in Requests : handler[r] # Idle /\ handler[r].id = NoId}

----------------------------------------------------------------------------
(* The client's loop: what it does with an answer.                         *)

Carried(f, index, id) ==
  [pc |-> IF index = Chunks(f) THEN "done" ELSE "send", index |-> index, id |-> id]
\* Mutation: a loop that ends is taken for an upload that ends.
Corrected_Done(f, index) ==
  [client[f] EXCEPT !.pc = IF index < Chunks(f) THEN "send" ELSE "done", !.index = index]
\* Mutation: the same chunk is sent again.
Corrected_Ignored(f, index) == [client[f] EXCEPT !.pc = "send"]
\* The expected index ends the loop when there is no such chunk.
Corrected(f, index) ==
  [client[f] EXCEPT !.pc = IF index < Chunks(f) THEN "send" ELSE "stopped", !.index = index]
\* Mutation: a new file for the server.
StartedOver_Fresh(f) == StartOfLoop
\* Any other error: again from the first chunk, after five seconds.
StartedOver(f) == [client[f] EXCEPT !.pc = "send", !.index = 0]

\* The handler ends; the client hears of it if it still waits.
Answer(r, heard) ==
  /\ handler' = [handler EXCEPT ![r] = Idle]
  /\ client' = IF handler[r].live THEN [client EXCEPT ![handler[r].file] = heard] ELSE client
Fail(r) == Answer(r, StartedOver(handler[r].file))
Succeed(r) == Answer(r, Carried(handler[r].file, handler[r].index + 1, handler[r].id))

Send(f) ==
  /\ client[f].pc = "send"
  /\ client[f].id = NoId => Cardinality(Drawing) < Cardinality(Unused)   \* bound
  /\ \E r \in Requests :
       /\ handler[r] = Idle
       /\ handler' = [handler EXCEPT ![r] =
            [pc |-> "read", file |-> f, id |-> client[f].id, index |-> client[f].index,
             live |-> TRUE, recorded |-> [i \in Ids |-> NoRow], size |-> 0]]
  /\ client' = [client EXCEPT ![f].pc = "wait"]
  /\ UNCHANGED <<share, diskVars, rows, mislabeled, events, histVars>>

----------------------------------------------------------------------------
(* LocalFileService.create, from await to await.                           *)

\* The share is gone or locked, or its files are read.
Read(r) ==
  /\ handler[r].pc = "read"
  /\ IF share.row /\ ~share.locked
     THEN /\ handler' = [handler EXCEPT ![r].pc = "stat", ![r].recorded = rows]
          /\ UNCHANGED client
     ELSE Fail(r)
  /\ UNCHANGED <<share, diskVars, rows, mislabeled, events, histVars>>

\* The size on disk tells the expected chunk; then the limits are checked.
Stat(r) ==
  LET h == handler[r]  size == SizeOf(h.id) IN
  /\ h.pc = "stat"
  /\ \/ /\ h.index # ExpectedIndex(size)
        /\ Answer(r, Corrected(h.file, ExpectedIndex(size)))
        /\ UNCHANGED <<owner, muddled>>
     \/ /\ h.index = ExpectedIndex(size)
        /\ ~Fits(h.recorded, size, ChunkLength(h.file, h.index))
        /\ Fail(r)
        /\ UNCHANGED <<owner, muddled>>
     \/ /\ h.index = ExpectedIndex(size)
        /\ Fits(h.recorded, size, ChunkLength(h.file, h.index))
        /\ \E i \in IF h.id = NoId THEN FirstUnused ELSE {h.id} :
             /\ handler' = [handler EXCEPT ![r].pc = "append", ![r].size = size, ![r].id = i]
             /\ owner' = [owner EXCEPT ![i] = h.file]
             /\ muddled' = IF h.id = NoId THEN muddled \ {i} ELSE muddled
        /\ UNCHANGED client
  /\ UNCHANGED <<share, diskVars, rows, mislabeled, events, unheard, raced>>

\* The last chunk goes on to the move, any other is answered.
Append(r) ==
  LET h == handler[r]  length == ChunkLength(h.file, h.index) IN
  /\ h.pc = "append"
  /\ \/ /\ ~share.dir
        /\ Fail(r)
        /\ UNCHANGED <<diskVars, muddled>>
     \/ /\ share.dir
        /\ tmp' = [tmp EXCEPT ![h.id] = Appended(@, h.index * ChunkSize, length)]
        /\ muddled' = IF SizeOf(h.id) # h.size THEN muddled \cup {h.id} ELSE muddled
        /\ IF IsLast(h.file, h.index)
           THEN /\ handler' = [handler EXCEPT ![r].pc = "move"]
                /\ UNCHANGED client
           ELSE Succeed(r)
        /\ UNCHANGED disk
  /\ UNCHANGED <<share, rows, mislabeled, events, owner, unheard, raced>>

\* The rename replaces a file of an earlier upload under the same identifier.
Move(r) ==
  LET h == handler[r] IN
  /\ h.pc = "move"
  /\ \/ /\ ~tmp[h.id].there
        /\ Fail(r)
        /\ UNCHANGED diskVars
     \/ /\ tmp[h.id].there
        /\ disk' = [disk EXCEPT ![h.id] = tmp[h.id]]
        /\ tmp' = [tmp EXCEPT ![h.id] = NoFile]
        /\ handler' = [handler EXCEPT ![r].pc = "check"]
        /\ UNCHANGED client
  /\ UNCHANGED <<share, rows, mislabeled, events, histVars>>

\* The size is taken and the first bytes are compared with the extension: a
\* mislabeled file is unlinked.
Check(r) ==
  LET h == handler[r] IN
  /\ h.pc = "check"
  /\ \/ /\ ~disk[h.id].there
        /\ Fail(r)
        /\ UNCHANGED disk
     \/ /\ disk[h.id].there /\ h.file \in mislabeled
        /\ disk' = [disk EXCEPT ![h.id] = NoFile]
        /\ Fail(r)
     \/ /\ disk[h.id].there /\ h.file \notin mislabeled
        /\ handler' = [handler EXCEPT ![r].pc = "record", ![r].size = disk[h.id].size]
        /\ UNCHANGED <<client, disk>>
  /\ UNCHANGED <<share, tmp, rows, mislabeled, events, histVars>>

\* File.id is the primary key, and File.shareId refers to the share.
Record(r) ==
  LET h == handler[r] IN
  /\ h.pc = "record"
  /\ \/ /\ rows[h.id].there \/ ~share.row
        /\ Fail(r)
        /\ UNCHANGED <<rows, raced>>
     \/ /\ ~rows[h.id].there /\ share.row
        /\ rows' = [rows EXCEPT ![h.id] = [there |-> TRUE, size |-> h.size]]
        /\ raced' = (raced \/ rows # h.recorded)
        /\ Succeed(r)
  /\ UNCHANGED <<share, diskVars, mislabeled, events, owner, muddled, unheard>>

----------------------------------------------------------------------------
(* What else happens. Each of these takes one of the bounded events.       *)

Event == events < MaxEvents /\ events' = events + 1   \* bound

\* A request that does not reach the handler, or finds the disk full.
SendFails(f) ==
  /\ Event
  /\ client[f].pc = "send"
  /\ client' = [client EXCEPT ![f] = StartedOver(f)]
  /\ UNCHANGED <<handler, share, diskVars, rows, mislabeled, histVars>>

\* The connection breaks while the handler runs on.
LoseAnswer(r) ==
  /\ Event
  /\ handler[r] # Idle
  /\ handler[r].live
  /\ handler' = [handler EXCEPT ![r].live = FALSE]
  /\ client' = [client EXCEPT ![handler[r].file] = StartedOver(handler[r].file)]
  /\ unheard' = unheard \cup {handler[r].file}
  /\ UNCHANGED <<share, diskVars, rows, mislabeled, owner, muddled, raced>>

\* Every handler ends where it is, and every client that waits starts over.
AllHandlersEnd ==
  LET waiting == {f \in Files : client[f].pc = "wait"} IN
  /\ handler' = [r \in Requests |-> Idle]
  /\ client' = [f \in Files |-> IF f \in waiting THEN StartedOver(f) ELSE client[f]]
  /\ unheard' = unheard \cup waiting
Restart ==
  /\ Event
  /\ \E r \in Requests : handler[r] # Idle
  /\ AllHandlersEnd
  /\ UNCHANGED <<share, diskVars, rows, mislabeled, owner, muddled, raced>>

\* The same in the middle of an append.
RestartTears(r) ==
  LET h == handler[r] IN
  /\ Event
  /\ h.pc = "append" /\ share.dir
  /\ \E part \in 1..ChunkLength(h.file, h.index) - 1 :
       tmp' = [tmp EXCEPT ![h.id] = Appended(@, h.index * ChunkSize, part)]
  /\ muddled' = muddled \cup {h.id}
  /\ AllHandlersEnd
  /\ UNCHANGED <<share, disk, rows, mislabeled, owner, raced>>

\* deleteTemporaryFiles: a temporary file nobody has written to for a day.
DeleteTemporary(i) ==
  /\ Event
  /\ tmp[i].there
  /\ \A r \in Requests : handler[r] # Idle => handler[r].id # i
  /\ tmp' = [tmp EXCEPT ![i] = NoFile]
  /\ UNCHANGED <<client, handler, share, disk, rows, mislabeled, histVars>>

\* complete and revertComplete, called from another page of the same owner.
Complete ==
  /\ Event
  /\ share.row /\ ~share.locked
  /\ \E i \in Ids : rows[i].there
  /\ share' = [share EXCEPT !.locked = TRUE]
  /\ UNCHANGED <<client, handler, diskVars, rows, mislabeled, histVars>>
RevertComplete ==
  /\ Event
  /\ share.row
  /\ share.locked
  /\ share' = [share EXCEPT !.locked = FALSE]
  /\ UNCHANGED <<client, handler, diskVars, rows, mislabeled, histVars>>

\* remove: the directory first, then the row, with the rows of its files.
RemoveFiles ==
  /\ Event
  /\ share.row /\ share.dir
  /\ share' = [share EXCEPT !.dir = FALSE]
  /\ tmp' = [i \in Ids |-> NoFile] /\ disk' = [i \in Ids |-> NoFile]
  /\ UNCHANGED <<client, handler, rows, mislabeled, histVars>>
RemoveRow ==
  /\ share.row /\ ~share.dir
  /\ share' = [share EXCEPT !.row = FALSE]
  /\ rows' = [i \in Ids |-> NoRow]
  /\ UNCHANGED <<client, handler, diskVars, mislabeled, events, histVars>>

----------------------------------------------------------------------------
HandlerStep(r) == Read(r) \/ Stat(r) \/ Append(r) \/ Move(r) \/ Check(r) \/ Record(r)
\* Nothing is left to do: each file has ended and nothing more happens.
Ended(f) == client[f].pc \in {"done", "stopped"}
AllEnded ==
  /\ \A f \in Files : Ended(f)
  /\ \A r \in Requests : handler[r] = Idle
  /\ UNCHANGED vars

Next ==
  \/ \E f \in Files : Send(f) \/ SendFails(f)
  \/ \E r \in Requests : HandlerStep(r) \/ LoseAnswer(r) \/ RestartTears(r)
  \/ \E i \in Ids : DeleteTemporary(i)
  \/ Restart \/ Complete \/ RevertComplete \/ RemoveFiles \/ RemoveRow
  \/ AllEnded

Spec == Init /\ [][Next]_vars
\* The page stays open, so its loops go on; Node runs a handler to its end.
FairSpec ==
  /\ Spec
  /\ \A f \in Files : WF_vars(Send(f))
  /\ \A r \in Requests : WF_vars(HandlerStep(r))

----------------------------------------------------------------------------
TypeOK ==
  /\ client \in [Files -> ClientType]
  /\ handler \in [Requests -> HandlerType]
  /\ share \in [row : BOOLEAN, locked : BOOLEAN, dir : BOOLEAN]
  /\ tmp \in [Ids -> FileType] /\ disk \in [Ids -> FileType]
  /\ rows \in [Ids -> RowType]
  /\ mislabeled \in SUBSET Files
  /\ events \in 0..MaxEvents
  /\ owner \in [Ids -> Files \cup {NoId}]
  /\ muddled \in SUBSET Ids /\ unheard \in SUBSET Files /\ raced \in BOOLEAN

\* The file behind a row is the client's file, entire and of the size recorded, as
\* long as no chunk of it was appended by two handlers at once or in part.
RecordedWhole ==
  \A i \in Ids : rows[i].there /\ share.dir /\ i \notin muddled =>
    /\ disk[i].there /\ disk[i].intact
    /\ disk[i].size = Bytes[owner[i]] /\ rows[i].size = Bytes[owner[i]]

\* The files of a share are together within its limit, unless one was recorded
\* while another was between its reading of the sum and its own record, or a chunk
\* was appended by two handlers at once.
LimitOnlyRaced == SumOfSizes(rows) > ShareLimit => raced \/ muddled # {}

\* One file is recorded twice only if it is a single chunk and its answer was lost.
TwiceOnlyUnheard ==
  \A i, j \in Ids : i # j /\ rows[i].there /\ rows[j].there /\ owner[i] = owner[j] =>
    owner[i] \in unheard /\ Chunks(owner[i]) = 1

\* What the page shows as uploaded is recorded, as long as the share exists.
DoneIsRecorded ==
  \A f \in Files : client[f].pc = "done" /\ share.row =>
    client[f].id # NoId /\ rows[client[f].id].there /\ owner[client[f].id] = f

\* The loop gives up on a file, with no record and no error shown, only after an
\* answer to one of its chunks was lost.
StoppedOnlyUnheard == \A f \in Files : client[f].pc = "stopped" => f \in unheard

\* Why the retry of a file cannot come to an end.
Refused(f) ==
  \/ share.locked \/ ~share.row \/ ~share.dir
  \/ f \in mislabeled
  \/ ~Fits(rows, 0, Bytes[f])
RecordedUnheard(f) == client[f].id # NoId /\ rows[client[f].id].there

\* Every file ends, unless the server refuses it for good or has already recorded it
\* without the client hearing of it.
UploadsEnd == \A f \in Files : <>[](Ended(f) \/ Refused(f) \/ RecordedUnheard(f))
=============================================================================
