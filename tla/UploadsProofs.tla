--------------------------- MODULE UploadsProofs ---------------------------
(***************************************************************************)
(* Proofs about Uploads, for any files, sizes, limits, number of handlers  *)
(* and bounds: the type invariant, that a file the page shows as uploaded  *)
(* is recorded under the identifier the client holds, that what is         *)
(* recorded is the whole file, that the client is misled only after an     *)
(* answer was lost, and that the limit is passed only by races.            *)
(***************************************************************************)
EXTENDS Uploads, NaturalsInduction, WellFoundedInduction, TLAPS

(* A chunk is as long as a chunk, or as what is left of the file.          *)
LEMMA ChunkLengthType ==
  ASSUME NEW f \in Files, NEW i \in Nat
  PROVE  ChunkLength(f, i) \in Nat
<1>1. i * ChunkSize \in Nat /\ Bytes[f] \in Nat /\ ChunkSize \in Nat
  BY FilesAssumption, LimitsAssumption
<1>2. QED
  BY <1>1 DEF ChunkLength

(* The division of the code is one of whole numbers.                       *)
LEMMA ExpectedIndexType ==
  ASSUME NEW size \in Nat
  PROVE  ExpectedIndex(size) \in Nat
BY LimitsAssumption DEF ExpectedIndex, CeilDiv

(* Appending keeps a file a file.                                          *)
LEMMA AppendedType ==
  ASSUME NEW c \in FileType, NEW from, NEW length \in Nat
  PROVE  Appended(c, from, length) \in FileType
BY DEF FileType, Appended

(* The size the handler takes of a temporary file.                         *)
LEMMA SizeOfType ==
  ASSUME tmp \in [Ids -> FileType], NEW i \in Ids \cup {NoId}
  PROVE  SizeOf(i) \in Nat
BY DEF SizeOf, FileType, NoId

(* What the loop becomes after any answer.                                 *)
LEMMA LoopType ==
  ASSUME client \in [Files -> ClientType], NEW f \in Files
  PROVE  /\ StartedOver(f) \in ClientType
         /\ \A index \in Nat : Corrected(f, index) \in ClientType
         /\ \A index \in Nat, id \in Ids : Carried(f, index, id) \in ClientType
BY DEF ClientType, StartedOver, Corrected, Carried

(* A handler that runs has all its fields.                                 *)
LEMMA RunningType ==
  ASSUME handler \in [Requests -> HandlerType], NEW r \in Requests,
         handler[r] # Idle
  PROVE  /\ handler[r].file \in Files /\ handler[r].index \in Nat
         /\ handler[r].id \in Ids \cup {NoId} /\ handler[r].live \in BOOLEAN
         /\ handler[r].recorded \in [Ids -> RowType] /\ handler[r].size \in Nat
         /\ handler[r] \in Running
BY DEF HandlerType, Running

(* From the draw of the identifier on, a handler has one.                  *)
Named == \A r \in Requests :
  handler[r] # Idle /\ handler[r].pc \in {"append", "move", "check", "record"} =>
    handler[r].id # NoId

(* The record step takes the size of the file.                             *)
LEMMA SizedType ==
  ASSUME NEW h \in Running, NEW size \in Nat
  PROVE  /\ [h EXCEPT !.pc = "record", !.size = size] \in Running
         /\ [h EXCEPT !.pc = "record", !.size = size].id = h.id
BY DEF Running

(* A handler that goes on stays a handler.                                 *)
LEMMA AdvanceType ==
  ASSUME handler \in [Requests -> HandlerType], Named, NEW r \in Requests, NEW h \in Running,
         handler' = [handler EXCEPT ![r] = h],
         h.pc \in {"append", "move", "check", "record"} => h.id # NoId
  PROVE  handler' \in [Requests -> HandlerType] /\ Named'
BY DEF HandlerType, Named

(* A handler that ends leaves the types of both sides.                     *)
LEMMA AnswerType ==
  ASSUME client \in [Files -> ClientType], handler \in [Requests -> HandlerType],
         NEW r \in Requests, NEW heard \in ClientType, Answer(r, heard)
  PROVE  client' \in [Files -> ClientType] /\ handler' \in [Requests -> HandlerType]
BY DEF Answer, HandlerType

LEMMA FailType ==
  ASSUME client \in [Files -> ClientType], handler \in [Requests -> HandlerType],
         NEW r \in Requests, handler[r] # Idle, Fail(r)
  PROVE  client' \in [Files -> ClientType] /\ handler' \in [Requests -> HandlerType]
<1>1. StartedOver(handler[r].file) \in ClientType
  BY RunningType, LoopType
<1>2. QED
  BY <1>1, AnswerType DEF Fail

LEMMA SucceedType ==
  ASSUME client \in [Files -> ClientType], handler \in [Requests -> HandlerType],
         NEW r \in Requests, handler[r] # Idle, handler[r].id # NoId, Succeed(r)
  PROVE  client' \in [Files -> ClientType] /\ handler' \in [Requests -> HandlerType]
<1>1. handler[r].file \in Files /\ handler[r].index + 1 \in Nat /\ handler[r].id \in Ids
  BY RunningType
<1>2. Carried(handler[r].file, handler[r].index + 1, handler[r].id) \in ClientType
  BY <1>1, LoopType
<1>3. QED
  BY <1>2, AnswerType DEF Succeed

LEMMA AllEndType ==
  ASSUME client \in [Files -> ClientType], AllHandlersEnd, unheard \in SUBSET Files
  PROVE  /\ client' \in [Files -> ClientType]
         /\ handler' \in [Requests -> HandlerType]
         /\ unheard' \in SUBSET Files
BY LoopType DEF AllHandlersEnd, HandlerType

----------------------------------------------------------------------------
LEMMA TypeInit == Init => TypeOK /\ Named
<1> SUFFICES ASSUME Init PROVE TypeOK /\ Named
  OBVIOUS
<1>1. client \in [Files -> ClientType]
  BY DEF Init, StartOfLoop, ClientType
<1>2. handler \in [Requests -> HandlerType] /\ Named
  BY DEF Init, HandlerType, Named
<1>3. tmp \in [Ids -> FileType] /\ disk \in [Ids -> FileType] /\ rows \in [Ids -> RowType]
  BY DEF Init, NoFile, NoRow, FileType, RowType
<1>4. /\ share \in [row : BOOLEAN, locked : BOOLEAN, dir : BOOLEAN]
      /\ mislabeled \in SUBSET Files /\ owner \in [Ids -> Files \cup {NoId}]
      /\ muddled \in SUBSET Ids /\ unheard \in SUBSET Files /\ raced \in BOOLEAN
  BY FilesAssumption DEF Init
<1>5. events \in 0..MaxEvents
  BY BoundsAssumption DEF Init
<1>6. QED
  BY <1>1, <1>2, <1>3, <1>4, <1>5 DEF TypeOK

LEMMA EventType == TypeOK /\ Event => events' \in 0..MaxEvents
BY BoundsAssumption DEF TypeOK, Event

(* Each step preserves the types, and with them that handlers are named.   *)
LEMMA TypeStep == TypeOK /\ Named /\ [Next]_vars => TypeOK' /\ Named'
<1> SUFFICES ASSUME TypeOK, Named, [Next]_vars PROVE TypeOK' /\ Named'
  OBVIOUS
<1>s. ASSUME UNCHANGED vars PROVE TypeOK' /\ Named'
  BY <1>s DEF vars, diskVars, histVars, TypeOK, Named
<1>1. ASSUME NEW f \in Files, Send(f) PROVE TypeOK' /\ Named'
  <2>1. PICK r \in Requests : /\ handler[r] = Idle
          /\ handler' = [handler EXCEPT ![r] =
               [pc |-> "read", file |-> f, id |-> client[f].id, index |-> client[f].index,
                live |-> TRUE, recorded |-> [i \in Ids |-> NoRow], size |-> 0]]
    BY <1>1 DEF Send
  <2>2. [i \in Ids |-> NoRow] \in [Ids -> RowType]
    BY DEF NoRow, RowType
  <2>3. client[f].id \in Ids \cup {NoId} /\ client[f].index \in Nat
    BY DEF TypeOK, ClientType
  <2>4. handler' \in [Requests -> HandlerType]
    BY <2>1, <2>2, <2>3 DEF TypeOK, HandlerType, Running
  <2>5. client' \in [Files -> ClientType]
    BY <1>1 DEF Send, TypeOK, ClientType
  <2>6. Named'
    BY <2>1 DEF Named, TypeOK
  <2>7. QED
    BY <1>1, <2>4, <2>5, <2>6 DEF Send, TypeOK, diskVars, histVars
<1>2. ASSUME NEW r \in Requests, Read(r) PROVE TypeOK' /\ Named'
  <2>1. handler[r] # Idle
    BY <1>2 DEF Read, Idle
  <2>2. CASE share.row /\ ~share.locked
    <3>1. handler' = [handler EXCEPT ![r].pc = "stat", ![r].recorded = rows]
      BY <1>2, <2>2 DEF Read
    <3> DEFINE h == [handler[r] EXCEPT !.pc = "stat", !.recorded = rows]
    <3>2. h \in Running /\ h.pc = "stat" /\ handler' = [handler EXCEPT ![r] = h]
      BY <3>1, <2>1, RunningType DEF TypeOK, Running
    <3> HIDE DEF h
    <3>3. handler' \in [Requests -> HandlerType] /\ Named'
      BY <3>2, AdvanceType DEF TypeOK
    <3>4. QED
      BY <1>2, <2>2, <3>3 DEF Read, TypeOK, diskVars, histVars
  <2>3. CASE ~(share.row /\ ~share.locked)
    <3>1. Fail(r)
      BY <1>2, <2>3 DEF Read
    <3>2. client' \in [Files -> ClientType] /\ handler' \in [Requests -> HandlerType]
      BY <3>1, <2>1, FailType DEF TypeOK
    <3>3. Named'
      BY <3>1 DEF Fail, Answer, Named, TypeOK
    <3>4. QED
      BY <1>2, <3>2, <3>3 DEF Read, TypeOK, diskVars, histVars
  <2>4. QED
    BY <2>2, <2>3
<1>3. ASSUME NEW r \in Requests, Stat(r) PROVE TypeOK' /\ Named'
  <2>1. handler[r] # Idle
    BY <1>3 DEF Stat, Idle
  <2>2. SizeOf(handler[r].id) \in Nat
    BY <2>1, RunningType, SizeOfType DEF TypeOK
  <2>3. CASE /\ UNCHANGED <<owner, muddled>>
             /\ \/ Fail(r)
                \/ Answer(r, Corrected(handler[r].file, ExpectedIndex(SizeOf(handler[r].id))))
    <3>1. Corrected(handler[r].file, ExpectedIndex(SizeOf(handler[r].id))) \in ClientType
      BY <2>1, <2>2, RunningType, ExpectedIndexType, LoopType DEF TypeOK
    <3>2. client' \in [Files -> ClientType] /\ handler' \in [Requests -> HandlerType]
      BY <2>3, <2>1, <3>1, FailType, AnswerType DEF TypeOK
    <3>3. Named'
      BY <2>3 DEF Fail, Answer, Named, TypeOK
    <3>4. QED
      BY <1>3, <2>3, <3>2, <3>3 DEF Stat, TypeOK, diskVars
  <2>4. CASE \E i \in IF handler[r].id = NoId THEN FirstUnused ELSE {handler[r].id} :
             /\ handler' = [handler EXCEPT ![r].pc = "append",
                             ![r].size = SizeOf(handler[r].id), ![r].id = i]
             /\ owner' = [owner EXCEPT ![i] = handler[r].file]
             /\ muddled' = IF handler[r].id = NoId THEN muddled \ {i} ELSE muddled
             /\ UNCHANGED client
    <3>1. PICK i \in IF handler[r].id = NoId THEN FirstUnused ELSE {handler[r].id} :
             /\ handler' = [handler EXCEPT ![r].pc = "append",
                             ![r].size = SizeOf(handler[r].id), ![r].id = i]
             /\ owner' = [owner EXCEPT ![i] = handler[r].file]
             /\ muddled' = IF handler[r].id = NoId THEN muddled \ {i} ELSE muddled
             /\ UNCHANGED client
      BY <2>4
    <3>2. i \in Ids
      BY <2>1, RunningType DEF FirstUnused, Unused, TypeOK
    <3>3. i # NoId
      BY <3>2 DEF Ids, NoId
    <3>4. handler' \in [Requests -> HandlerType] /\ Named'
      <4> DEFINE h == [handler[r] EXCEPT !.pc = "append", !.size = SizeOf(handler[r].id),
                                         !.id = i]
      <4>1. h \in Running /\ h.id = i
        BY <3>2, <2>1, <2>2, RunningType DEF TypeOK, Running
      <4>2. handler' = [handler EXCEPT ![r] = h]
        BY <3>1
      <4> HIDE DEF h
      <4>3. QED
        BY <4>1, <4>2, <3>3, AdvanceType DEF TypeOK
    <3>5. owner' \in [Ids -> Files \cup {NoId}] /\ muddled' \in SUBSET Ids
      BY <3>1, <3>2, <2>1, RunningType DEF TypeOK
    <3>6. QED
      BY <1>3, <3>1, <3>4, <3>5 DEF Stat, TypeOK, diskVars
  <2>5. QED
    BY <1>3, <2>3, <2>4 DEF Stat
<1>4. ASSUME NEW r \in Requests, Append(r) PROVE TypeOK' /\ Named'
  <2>1. handler[r] # Idle /\ handler[r].pc = "append"
    BY <1>4 DEF Append, Idle
  <2>2. handler[r].id \in Ids
    BY <2>1, RunningType DEF TypeOK, Named
  <2>3. CASE ~share.dir
    <3>1. Fail(r) /\ UNCHANGED <<diskVars, muddled>>
      BY <1>4, <2>3 DEF Append
    <3>2. client' \in [Files -> ClientType] /\ handler' \in [Requests -> HandlerType]
      BY <3>1, <2>1, FailType DEF TypeOK
    <3>3. Named'
      BY <3>1 DEF Fail, Answer, Named, TypeOK
    <3>4. QED
      BY <1>4, <3>1, <3>2, <3>3 DEF Append, TypeOK, diskVars
  <2>4. CASE share.dir
    <3>1. ChunkLength(handler[r].file, handler[r].index) \in Nat
      BY <2>1, RunningType, ChunkLengthType DEF TypeOK
    <3>2. Appended(tmp[handler[r].id], handler[r].index * ChunkSize,
                   ChunkLength(handler[r].file, handler[r].index)) \in FileType
      BY <3>1, <2>2, AppendedType DEF TypeOK
    <3>3. tmp' = [tmp EXCEPT ![handler[r].id] =
                    Appended(tmp[handler[r].id], handler[r].index * ChunkSize,
                             ChunkLength(handler[r].file, handler[r].index))]
      BY <1>4, <2>4 DEF Append
    <3>4. tmp' \in [Ids -> FileType]
      BY <3>2, <3>3, <2>2 DEF TypeOK
    <3>5. muddled' \in SUBSET Ids /\ UNCHANGED disk
      BY <1>4, <2>2, <2>4 DEF Append, TypeOK
    <3>6. \/ handler' = [handler EXCEPT ![r].pc = "move"] /\ UNCHANGED client
          \/ Succeed(r)
      BY <1>4, <2>4 DEF Append
    <3>7. /\ client' \in [Files -> ClientType] /\ handler' \in [Requests -> HandlerType]
          /\ Named'
      <4>1. CASE handler' = [handler EXCEPT ![r].pc = "move"] /\ UNCHANGED client
        BY <4>1, <2>1, RunningType DEF TypeOK, HandlerType, Running, Named
      <4>2. CASE Succeed(r)
        <5>1. handler[r].id # NoId
          BY <2>2 DEF Ids, NoId
        <5>2. client' \in [Files -> ClientType] /\ handler' \in [Requests -> HandlerType]
          BY <4>2, <5>1, <2>1, SucceedType DEF TypeOK
        <5>3. Named'
          BY <4>2 DEF Succeed, Answer, Named, TypeOK
        <5>4. QED
          BY <5>2, <5>3
      <4>3. QED
        BY <3>6, <4>1, <4>2
    <3>8. QED
      BY <1>4, <3>4, <3>5, <3>7 DEF Append, TypeOK
  <2>5. QED
    BY <2>3, <2>4
<1>5. ASSUME NEW r \in Requests, Move(r) PROVE TypeOK' /\ Named'
  <2>1. handler[r] # Idle /\ handler[r].pc = "move"
    BY <1>5 DEF Move, Idle
  <2>2. handler[r].id \in Ids
    BY <2>1, RunningType DEF TypeOK, Named
  <2>3. CASE ~tmp[handler[r].id].there
    <3>1. Fail(r) /\ UNCHANGED diskVars
      BY <1>5, <2>3 DEF Move
    <3>2. client' \in [Files -> ClientType] /\ handler' \in [Requests -> HandlerType]
      BY <3>1, <2>1, FailType DEF TypeOK
    <3>3. Named'
      BY <3>1 DEF Fail, Answer, Named, TypeOK
    <3>4. QED
      BY <1>5, <3>1, <3>2, <3>3 DEF Move, TypeOK, diskVars, histVars
  <2>4. CASE tmp[handler[r].id].there
    <3>1. /\ disk' = [disk EXCEPT ![handler[r].id] = tmp[handler[r].id]]
          /\ tmp' = [tmp EXCEPT ![handler[r].id] = NoFile]
          /\ handler' = [handler EXCEPT ![r].pc = "check"]
          /\ UNCHANGED client
      BY <1>5, <2>4 DEF Move
    <3>2. disk' \in [Ids -> FileType] /\ tmp' \in [Ids -> FileType]
      BY <3>1, <2>2 DEF TypeOK, NoFile, FileType
    <3>3. handler' \in [Requests -> HandlerType] /\ Named'
      BY <3>1, <2>1, RunningType DEF TypeOK, HandlerType, Running, Named
    <3>4. QED
      BY <1>5, <3>1, <3>2, <3>3 DEF Move, TypeOK, histVars
  <2>5. QED
    BY <2>3, <2>4
<1>6. ASSUME NEW r \in Requests, Check(r) PROVE TypeOK' /\ Named'
  <2>1. handler[r] # Idle /\ handler[r].pc = "check"
    BY <1>6 DEF Check, Idle
  <2>2. handler[r].id \in Ids
    BY <2>1, RunningType DEF TypeOK, Named
  <2>3. CASE ~disk[handler[r].id].there \/ handler[r].file \in mislabeled
    <3>1. Fail(r) /\ (UNCHANGED disk \/ disk' = [disk EXCEPT ![handler[r].id] = NoFile])
      BY <1>6, <2>3 DEF Check
    <3>2. disk' \in [Ids -> FileType]
      <4>1. NoFile \in FileType
        BY DEF NoFile, FileType
      <4>2. QED
        BY <3>1, <4>1, <2>2 DEF TypeOK
    <3>3. client' \in [Files -> ClientType] /\ handler' \in [Requests -> HandlerType]
      BY <3>1, <2>1, FailType DEF TypeOK
    <3>4. Named'
      BY <3>1 DEF Fail, Answer, Named, TypeOK
    <3>5. QED
      BY <1>6, <3>2, <3>3, <3>4 DEF Check, TypeOK, histVars
  <2>4. CASE disk[handler[r].id].there /\ handler[r].file \notin mislabeled
    <3>1. /\ handler' = [handler EXCEPT ![r].pc = "record", ![r].size = disk[handler[r].id].size]
          /\ UNCHANGED <<client, disk>>
      BY <1>6, <2>4 DEF Check
    <3>2. disk[handler[r].id].size \in Nat
      BY <2>2 DEF TypeOK, FileType
    <3>3. handler' \in [Requests -> HandlerType] /\ Named'
      <4> DEFINE h == [handler[r] EXCEPT !.pc = "record", !.size = disk[handler[r].id].size]
      <4>1. handler[r] \in Running
        BY <2>1, RunningType DEF TypeOK
      <4>3. h \in Running /\ h.id = handler[r].id
        BY <3>2, <4>1, SizedType
      <4>2. handler' = [handler EXCEPT ![r] = h]
        BY <3>1
      <4> HIDE DEF h
      <4>4. QED
        BY <4>3, <4>2, <2>1, AdvanceType DEF TypeOK, Named
    <3>4. QED
      BY <1>6, <3>1, <3>3 DEF Check, TypeOK, histVars
  <2>5. QED
    BY <2>3, <2>4
<1>7. ASSUME NEW r \in Requests, Record(r) PROVE TypeOK' /\ Named'
  <2>1. handler[r] # Idle /\ handler[r].pc = "record"
    BY <1>7 DEF Record, Idle
  <2>2. handler[r].id \in Ids /\ handler[r].id # NoId /\ handler[r].size \in Nat
    BY <2>1, RunningType DEF TypeOK, Named
  <2>3. CASE Fail(r) /\ UNCHANGED <<rows, raced>>
    <3>1. client' \in [Files -> ClientType] /\ handler' \in [Requests -> HandlerType]
      BY <2>3, <2>1, FailType DEF TypeOK
    <3>2. Named'
      BY <2>3 DEF Fail, Answer, Named, TypeOK
    <3>3. QED
      BY <1>7, <2>3, <3>1, <3>2 DEF Record, TypeOK, diskVars
  <2>4. CASE /\ rows' = [rows EXCEPT ![handler[r].id] = [there |-> TRUE, size |-> handler[r].size]]
             /\ raced' = (raced \/ rows # handler[r].recorded)
             /\ Succeed(r)
    <3>1. rows' \in [Ids -> RowType] /\ raced' \in BOOLEAN
      BY <2>4, <2>2 DEF TypeOK, RowType
    <3>2. client' \in [Files -> ClientType] /\ handler' \in [Requests -> HandlerType]
      BY <2>4, <2>1, <2>2, SucceedType DEF TypeOK
    <3>3. Named'
      BY <2>4 DEF Succeed, Answer, Named, TypeOK
    <3>4. QED
      BY <1>7, <3>1, <3>2, <3>3 DEF Record, TypeOK, diskVars
  <2>5. QED
    BY <1>7, <2>3, <2>4 DEF Record
<1>8. ASSUME NEW f \in Files, SendFails(f) PROVE TypeOK' /\ Named'
  <2>1. client' \in [Files -> ClientType]
    BY <1>8, LoopType DEF SendFails, TypeOK
  <2>2. QED
    BY <1>8, <2>1, EventType DEF SendFails, TypeOK, Named, diskVars, histVars
<1>9. ASSUME NEW r \in Requests, LoseAnswer(r) PROVE TypeOK' /\ Named'
  <2>1. handler[r] # Idle
    BY <1>9 DEF LoseAnswer
  <2>2. handler[r].file \in Files /\ StartedOver(handler[r].file) \in ClientType
    BY <2>1, RunningType, LoopType DEF TypeOK
  <2>3. client' \in [Files -> ClientType] /\ unheard' \in SUBSET Files
    BY <1>9, <2>2 DEF LoseAnswer, TypeOK
  <2>4. handler' \in [Requests -> HandlerType] /\ Named'
    <3> DEFINE h == [handler[r] EXCEPT !.live = FALSE]
    <3>1. h \in Running /\ h.id = handler[r].id /\ h.pc = handler[r].pc
      BY <2>1, RunningType DEF TypeOK, Running
    <3>2. handler' = [handler EXCEPT ![r] = h]
      BY <1>9 DEF LoseAnswer
    <3> HIDE DEF h
    <3>3. QED
      BY <3>1, <3>2, <2>1, AdvanceType DEF TypeOK, Named
  <2>5. QED
    BY <1>9, <2>3, <2>4, EventType DEF LoseAnswer, TypeOK, diskVars
<1>10. ASSUME Restart PROVE TypeOK' /\ Named'
  <2>1. /\ client' \in [Files -> ClientType] /\ handler' \in [Requests -> HandlerType]
        /\ unheard' \in SUBSET Files
    BY <1>10, AllEndType DEF Restart, TypeOK
  <2>2. Named'
    BY <1>10 DEF Restart, AllHandlersEnd, Named
  <2>3. QED
    BY <1>10, <2>1, <2>2, EventType DEF Restart, TypeOK, diskVars
<1>11. ASSUME NEW r \in Requests, RestartTears(r) PROVE TypeOK' /\ Named'
  <2>1. handler[r] # Idle /\ handler[r].pc = "append"
    BY <1>11 DEF RestartTears, Idle
  <2>2. handler[r].id \in Ids
    BY <2>1, RunningType DEF TypeOK, Named
  <2>3. tmp' \in [Ids -> FileType] /\ muddled' \in SUBSET Ids
    <3>1. PICK part \in 1..ChunkLength(handler[r].file, handler[r].index) - 1 :
            tmp' = [tmp EXCEPT ![handler[r].id] =
                      Appended(tmp[handler[r].id], handler[r].index * ChunkSize, part)]
      BY <1>11 DEF RestartTears
    <3>2. ChunkLength(handler[r].file, handler[r].index) \in Nat
      BY <2>1, RunningType, ChunkLengthType DEF TypeOK
    <3>3. part \in Nat
      BY <3>2
    <3>4. Appended(tmp[handler[r].id], handler[r].index * ChunkSize, part) \in FileType
      BY <3>3, <2>2, AppendedType DEF TypeOK
    <3>5. QED
      BY <1>11, <3>1, <3>4, <2>2 DEF RestartTears, TypeOK
  <2>4. /\ client' \in [Files -> ClientType] /\ handler' \in [Requests -> HandlerType]
        /\ unheard' \in SUBSET Files
    BY <1>11, AllEndType DEF RestartTears, TypeOK
  <2>5. Named'
    BY <1>11 DEF RestartTears, AllHandlersEnd, Named
  <2>6. QED
    BY <1>11, <2>3, <2>4, <2>5, EventType DEF RestartTears, TypeOK
<1>12. ASSUME NEW i \in Ids, DeleteTemporary(i) PROVE TypeOK' /\ Named'
  <2>1. tmp' \in [Ids -> FileType]
    BY <1>12 DEF DeleteTemporary, TypeOK, NoFile, FileType
  <2>2. QED
    BY <1>12, <2>1, EventType DEF DeleteTemporary, TypeOK, Named, histVars
<1>13. ASSUME Complete \/ RevertComplete PROVE TypeOK' /\ Named'
  BY <1>13, EventType DEF Complete, RevertComplete, TypeOK, Named, diskVars, histVars
<1>14. ASSUME RemoveFiles PROVE TypeOK' /\ Named'
  <2>1. tmp' \in [Ids -> FileType] /\ disk' \in [Ids -> FileType]
    BY <1>14 DEF RemoveFiles, NoFile, FileType
  <2>2. QED
    BY <1>14, <2>1, EventType DEF RemoveFiles, TypeOK, Named, histVars
<1>15. ASSUME RemoveRow PROVE TypeOK' /\ Named'
  <2>1. rows' \in [Ids -> RowType]
    BY <1>15 DEF RemoveRow, NoRow, RowType
  <2>2. QED
    BY <1>15, <2>1 DEF RemoveRow, TypeOK, Named, diskVars, histVars
<1>16. QED
  BY <1>s, <1>1, <1>2, <1>3, <1>4, <1>5, <1>6, <1>7, <1>8, <1>9, <1>10, <1>11, <1>12, <1>13,
     <1>14, <1>15 DEF Next, HandlerStep, AllEnded

(* Every reachable state of an upload is type-correct: sizes and chunk     *)
(* indices stay natural numbers, and no step leaves a record undefined.    *)
THEOREM TypeCorrect == Spec => []TypeOK
<1>1. TypeOK /\ Named /\ [Next]_vars => TypeOK' /\ Named'
  BY TypeStep
<1>2. QED
  BY <1>1, TypeInit, PTL DEF Spec

----------------------------------------------------------------------------
(* An identifier belongs to one file, whoever holds it.                    *)
Owned ==
  /\ \A f \in Files : client[f].id # NoId => owner[client[f].id] = f
  /\ \A r \in Requests : handler[r] # Idle /\ handler[r].id # NoId =>
       owner[handler[r].id] = handler[r].file

RecordInv == TypeOK /\ Named /\ Owned /\ DoneIsRecorded

(* What Owned and DoneIsRecorded need of a step that draws no identifier:  *)
(* the loops keep their identifiers and end only on a record.              *)
LEMMA NoDraw ==
  ASSUME RecordInv, UNCHANGED owner,
         \A r \in Requests : handler'[r] # Idle =>
            \/ /\ handler[r] # Idle
               /\ handler'[r].id = handler[r].id /\ handler'[r].file = handler[r].file
            \/ client[handler'[r].file].id = handler'[r].id /\ handler'[r].file \in Files,
         share'.row => share.row /\ \A i \in Ids : rows[i].there => rows'[i].there,
         \A f \in Files :
            \/ client'[f].id = client[f].id /\ client'[f].pc # "done"
            \/ client'[f] = client[f]
            \/ /\ client'[f].id \in Ids /\ owner[client'[f].id] = f
               /\ client'[f].pc = "done" => rows'[client'[f].id].there
  PROVE  Owned' /\ DoneIsRecorded'
<1>1. Ids \cap {NoId} = {}
  BY DEF Ids, NoId
<1>2. \A f \in Files : client[f].id \in Ids \cup {NoId}
  BY DEF RecordInv, TypeOK, ClientType
<1>3. Owned'
  <2>1. ASSUME NEW f \in Files, client'[f].id # NoId PROVE owner'[client'[f].id] = f
    BY <2>1 DEF RecordInv, Owned
  <2>2. ASSUME NEW r \in Requests, handler'[r] # Idle, handler'[r].id # NoId
        PROVE  owner'[handler'[r].id] = handler'[r].file
    BY <2>2 DEF RecordInv, Owned
  <2>3. QED
    BY <2>1, <2>2 DEF Owned
<1>4. DoneIsRecorded'
  <2> SUFFICES ASSUME NEW f \in Files, client'[f].pc = "done", share'.row
               PROVE  client'[f].id # NoId /\ rows'[client'[f].id].there /\ owner'[client'[f].id] = f
    BY DEF DoneIsRecorded
  <2>1. CASE client'[f] = client[f]
    BY <2>1, <1>1, <1>2 DEF RecordInv, DoneIsRecorded
  <2>2. CASE client'[f].id \in Ids /\ owner[client'[f].id] = f /\ rows'[client'[f].id].there
    BY <2>2, <1>1
  <2>3. QED
    BY <2>1, <2>2
<1>5. QED
  BY <1>3, <1>4

(* A handler that fails, or corrects the client, ends no loop as done.     *)
LEMMA UnsuccessfulStep ==
  ASSUME RecordInv, UNCHANGED <<owner, share, rows>>, NEW r \in Requests, handler[r] # Idle,
         \/ Fail(r)
         \/ \E index \in Nat : Answer(r, Corrected(handler[r].file, index))
  PROVE  Owned' /\ DoneIsRecorded'
<1>1. PICK heard : /\ Answer(r, heard)
                   /\ heard.id = client[handler[r].file].id /\ heard.pc # "done"
  <2>1. handler[r].file \in Files /\ client \in [Files -> ClientType]
    BY RunningType DEF RecordInv, TypeOK
  <2>2. \A index \in Nat : /\ Corrected(handler[r].file, index).id = client[handler[r].file].id
                           /\ Corrected(handler[r].file, index).pc # "done"
    BY <2>1 DEF Corrected, ClientType
  <2>3. /\ StartedOver(handler[r].file).id = client[handler[r].file].id
        /\ StartedOver(handler[r].file).pc # "done"
    BY <2>1 DEF StartedOver, ClientType
  <2>4. CASE Fail(r)
    BY <2>4, <2>3 DEF Fail
  <2>5. CASE \E index \in Nat : Answer(r, Corrected(handler[r].file, index))
    BY <2>5, <2>2
  <2>6. QED
    BY <2>4, <2>5
<1>2. \A f \in Files : \/ client'[f].id = client[f].id /\ client'[f].pc # "done"
                       \/ client'[f] = client[f]
  BY <1>1 DEF Answer, RecordInv, TypeOK
<1>3. \A q \in Requests : handler'[q] # Idle => handler'[q] = handler[q]
  BY <1>1 DEF Answer, RecordInv, TypeOK
<1>4. QED
  BY <1>2, <1>3, NoDraw

(* A handler that succeeds ends a loop as done only on its last chunk.     *)
LEMMA SuccessfulStep ==
  ASSUME RecordInv, UNCHANGED <<owner, share>>, NEW r \in Requests, handler[r] # Idle,
         handler[r].id # NoId, Succeed(r),
         \A i \in Ids : rows[i].there => rows'[i].there,
         IsLast(handler[r].file, handler[r].index) => rows'[handler[r].id].there
  PROVE  Owned' /\ DoneIsRecorded'
<1>1. handler[r].file \in Files /\ handler[r].id \in Ids
  BY RunningType DEF RecordInv, TypeOK
<1>2. owner[handler[r].id] = handler[r].file
  BY DEF RecordInv, Owned
<1> DEFINE heard == Carried(handler[r].file, handler[r].index + 1, handler[r].id)
<1>3. /\ heard.id = handler[r].id
      /\ heard.pc = "done" => rows'[handler[r].id].there
  BY DEF Carried, IsLast
<1>4. Answer(r, heard)
  BY DEF Succeed
<1> HIDE DEF heard
<1>5. \A f \in Files : \/ client'[f] = client[f]
                       \/ f = handler[r].file /\ client'[f] = heard
  BY <1>4 DEF Answer, RecordInv, TypeOK
<1>6. \A q \in Requests : handler'[q] # Idle => handler'[q] = handler[q]
  BY <1>4 DEF Answer, RecordInv, TypeOK
<1>7. \A f \in Files : \/ client'[f] = client[f]
                       \/ /\ client'[f].id \in Ids /\ owner[client'[f].id] = f
                          /\ client'[f].pc = "done" => rows'[client'[f].id].there
  BY <1>5, <1>1, <1>2, <1>3
<1>8. QED
  BY <1>6, <1>7, NoDraw

(* Each step preserves what a done file promises.                          *)
LEMMA RecordStep == RecordInv /\ [Next]_vars => Owned' /\ DoneIsRecorded'
<1> SUFFICES ASSUME RecordInv, [Next]_vars PROVE Owned' /\ DoneIsRecorded'
  OBVIOUS
<1> USE DEF RecordInv
<1>s. ASSUME UNCHANGED vars PROVE Owned' /\ DoneIsRecorded'
  BY <1>s DEF vars, histVars, Owned, DoneIsRecorded
<1>1. ASSUME NEW f \in Files, Send(f) PROVE Owned' /\ DoneIsRecorded'
  <2>1. PICK r \in Requests : handler' = [handler EXCEPT ![r] =
               [pc |-> "read", file |-> f, id |-> client[f].id, index |-> client[f].index,
                live |-> TRUE, recorded |-> [i \in Ids |-> NoRow], size |-> 0]]
    BY <1>1 DEF Send
  <2>2. client' = [client EXCEPT ![f].pc = "wait"]
    BY <1>1 DEF Send
  <2>3. \A g \in Files : \/ client'[g].id = client[g].id /\ client'[g].pc # "done"
                         \/ client'[g] = client[g]
    BY <2>2 DEF TypeOK, ClientType
  <2>4. \A q \in Requests : handler'[q] # Idle =>
          \/ handler'[q] = handler[q]
          \/ handler'[q].id = client[f].id /\ handler'[q].file = f
    BY <2>1 DEF TypeOK
  <2>5. UNCHANGED <<owner, share, rows>>
    BY <1>1 DEF Send, histVars
  <2>6. QED
    BY <2>3, <2>4, <2>5, NoDraw
<1>2. ASSUME NEW r \in Requests, Read(r) PROVE Owned' /\ DoneIsRecorded'
  <2>1. handler[r] # Idle /\ UNCHANGED <<owner, share, rows>>
    BY <1>2 DEF Read, Idle, histVars
  <2>2. CASE handler' = [handler EXCEPT ![r].pc = "stat", ![r].recorded = rows] /\ UNCHANGED client
    <3>1. \A q \in Requests : handler'[q] # Idle =>
            /\ handler[q] # Idle
            /\ handler'[q].id = handler[q].id /\ handler'[q].file = handler[q].file
      BY <2>1, <2>2, RunningType DEF TypeOK, Running
    <3>2. QED
      BY <2>1, <2>2, <3>1, NoDraw
  <2>3. CASE Fail(r)
    BY <2>1, <2>3, UnsuccessfulStep
  <2>4. QED
    BY <1>2, <2>2, <2>3 DEF Read
<1>3. ASSUME NEW r \in Requests, Stat(r) PROVE Owned' /\ DoneIsRecorded'
  <2>1. handler[r] # Idle /\ UNCHANGED <<share, rows>>
    BY <1>3 DEF Stat, Idle
  <2>2. CASE /\ UNCHANGED owner
             /\ \/ Fail(r)
                \/ Answer(r, Corrected(handler[r].file, ExpectedIndex(SizeOf(handler[r].id))))
    <3>1. ExpectedIndex(SizeOf(handler[r].id)) \in Nat
      BY <2>1, RunningType, SizeOfType, ExpectedIndexType DEF TypeOK
    <3>2. QED
      BY <2>1, <2>2, <3>1, UnsuccessfulStep
  <2>3. CASE \E i \in IF handler[r].id = NoId THEN FirstUnused ELSE {handler[r].id} :
             /\ handler' = [handler EXCEPT ![r].pc = "append",
                             ![r].size = SizeOf(handler[r].id), ![r].id = i]
             /\ owner' = [owner EXCEPT ![i] = handler[r].file]
             /\ UNCHANGED client
    <3>1. PICK i \in IF handler[r].id = NoId THEN FirstUnused ELSE {handler[r].id} :
             /\ handler' = [handler EXCEPT ![r].pc = "append",
                             ![r].size = SizeOf(handler[r].id), ![r].id = i]
             /\ owner' = [owner EXCEPT ![i] = handler[r].file]
             /\ UNCHANGED client
      BY <2>3
    <3>2. /\ handler'[r].id = i /\ handler'[r].file = handler[r].file
          /\ \A q \in Requests : q # r => handler'[q] = handler[q]
      BY <3>1, <2>1, RunningType DEF TypeOK, Running
    <3>3. CASE handler[r].id # NoId
      <4>1. i = handler[r].id /\ i \in Ids /\ owner[i] = handler[r].file
        BY <3>1, <3>3, <2>1, RunningType DEF TypeOK, Owned
      <4>2. UNCHANGED owner
        BY <3>1, <4>1 DEF TypeOK
      <4>3. \A q \in Requests : handler'[q] # Idle =>
              /\ handler[q] # Idle
              /\ handler'[q].id = handler[q].id /\ handler'[q].file = handler[q].file
        BY <3>2, <4>1, <2>1
      <4>4. QED
        BY <2>1, <3>1, <4>2, <4>3, NoDraw
    <3>4. CASE handler[r].id = NoId
      <4>1. i \in Unused
        BY <3>1, <3>4 DEF FirstUnused
      <4>2. /\ i \in Ids /\ \A f \in Files : client[f].id # i
            /\ \A q \in Requests : handler[q] # Idle => handler[q].id # i
        BY <4>1 DEF Unused
      <4>3. owner'[i] = handler[r].file /\ \A j : j # i => owner'[j] = owner[j]
        BY <3>1, <4>2 DEF TypeOK
      <4>4. DoneIsRecorded'
        BY <2>1, <3>1, <4>2, <4>3 DEF DoneIsRecorded
      <4>5. \A f \in Files : client'[f].id # NoId => owner'[client'[f].id] = f
        BY <3>1, <4>2, <4>3 DEF Owned
      <4>6. \A q \in Requests : handler'[q] # Idle /\ handler'[q].id # NoId =>
              owner'[handler'[q].id] = handler'[q].file
        BY <3>2, <4>2, <4>3 DEF Owned
      <4>7. QED
        BY <4>4, <4>5, <4>6 DEF Owned
    <3>5. QED
      BY <3>3, <3>4
  <2>4. QED
    BY <1>3, <2>2, <2>3 DEF Stat
<1>4. ASSUME NEW r \in Requests, Append(r) PROVE Owned' /\ DoneIsRecorded'
  <2>1. /\ handler[r] # Idle /\ handler[r].id # NoId
        /\ UNCHANGED <<owner, share, rows>>
    BY <1>4 DEF Append, Idle, Named
  <2>2. CASE Fail(r)
    BY <2>1, <2>2, UnsuccessfulStep
  <2>3. CASE handler' = [handler EXCEPT ![r].pc = "move"] /\ UNCHANGED client
    <3>1. \A q \in Requests : handler'[q] # Idle =>
            /\ handler[q] # Idle
            /\ handler'[q].id = handler[q].id /\ handler'[q].file = handler[q].file
      BY <2>1, <2>3, RunningType DEF TypeOK, Running
    <3>2. QED
      BY <2>1, <2>3, <3>1, NoDraw
  <2>4. CASE Succeed(r) /\ ~IsLast(handler[r].file, handler[r].index)
    BY <2>1, <2>4, SuccessfulStep
  <2>5. QED
    BY <1>4, <2>2, <2>3, <2>4 DEF Append
<1>5. ASSUME NEW r \in Requests, Move(r) PROVE Owned' /\ DoneIsRecorded'
  <2>1. handler[r] # Idle /\ UNCHANGED <<owner, share, rows>>
    BY <1>5 DEF Move, Idle, histVars
  <2>2. CASE Fail(r)
    BY <2>1, <2>2, UnsuccessfulStep
  <2>3. CASE handler' = [handler EXCEPT ![r].pc = "check"] /\ UNCHANGED client
    <3>1. \A q \in Requests : handler'[q] # Idle =>
            /\ handler[q] # Idle
            /\ handler'[q].id = handler[q].id /\ handler'[q].file = handler[q].file
      BY <2>1, <2>3, RunningType DEF TypeOK, Running
    <3>2. QED
      BY <2>1, <2>3, <3>1, NoDraw
  <2>4. QED
    BY <1>5, <2>2, <2>3 DEF Move
<1>6. ASSUME NEW r \in Requests, Check(r) PROVE Owned' /\ DoneIsRecorded'
  <2>1. handler[r] # Idle /\ UNCHANGED <<owner, share, rows>>
    BY <1>6 DEF Check, Idle, histVars
  <2>2. CASE Fail(r)
    BY <2>1, <2>2, UnsuccessfulStep
  <2>3. CASE /\ handler' = [handler EXCEPT ![r].pc = "record", ![r].size = disk[handler[r].id].size]
             /\ UNCHANGED client
    <3>1. \A q \in Requests : handler'[q] # Idle =>
            /\ handler[q] # Idle
            /\ handler'[q].id = handler[q].id /\ handler'[q].file = handler[q].file
      BY <2>1, <2>3, RunningType DEF TypeOK, Running
    <3>2. QED
      BY <2>1, <2>3, <3>1, NoDraw
  <2>4. QED
    BY <1>6, <2>2, <2>3 DEF Check
<1>7. ASSUME NEW r \in Requests, Record(r) PROVE Owned' /\ DoneIsRecorded'
  <2>1. handler[r] # Idle /\ handler[r].id # NoId /\ UNCHANGED <<owner, share>>
    BY <1>7 DEF Record, Idle, Named
  <2>2. CASE Fail(r) /\ UNCHANGED rows
    BY <2>1, <2>2, UnsuccessfulStep
  <2>3. CASE /\ rows' = [rows EXCEPT ![handler[r].id] = [there |-> TRUE, size |-> handler[r].size]]
             /\ Succeed(r)
    <3>1. handler[r].id \in Ids
      BY <2>1, RunningType DEF TypeOK
    <3>2. rows'[handler[r].id].there /\ \A i \in Ids : rows[i].there => rows'[i].there
      BY <2>3, <3>1 DEF TypeOK
    <3>3. QED
      BY <2>1, <2>3, <3>2, SuccessfulStep
  <2>4. QED
    BY <1>7, <2>2, <2>3 DEF Record
<1>8. ASSUME NEW f \in Files, SendFails(f) PROVE Owned' /\ DoneIsRecorded'
  <2>1. \A g \in Files : \/ client'[g].id = client[g].id /\ client'[g].pc # "done"
                         \/ client'[g] = client[g]
    BY <1>8 DEF SendFails, StartedOver, TypeOK, ClientType
  <2>2. QED
    BY <1>8, <2>1, NoDraw DEF SendFails, histVars
<1>9. ASSUME NEW r \in Requests, LoseAnswer(r) PROVE Owned' /\ DoneIsRecorded'
  <2>1. handler[r] # Idle /\ handler[r].file \in Files /\ UNCHANGED <<owner, share, rows>>
    BY <1>9, RunningType DEF LoseAnswer, TypeOK
  <2>2. \A g \in Files : \/ client'[g].id = client[g].id /\ client'[g].pc # "done"
                         \/ client'[g] = client[g]
    BY <1>9, <2>1 DEF LoseAnswer, StartedOver, TypeOK, ClientType
  <2>3. \A q \in Requests : handler'[q] # Idle =>
          /\ handler[q] # Idle
          /\ handler'[q].id = handler[q].id /\ handler'[q].file = handler[q].file
    BY <1>9, <2>1, RunningType DEF LoseAnswer, TypeOK, Running
  <2>4. QED
    BY <2>1, <2>2, <2>3, NoDraw
<1>10. ASSUME AllHandlersEnd, UNCHANGED <<owner, share, rows>> PROVE Owned' /\ DoneIsRecorded'
  <2>1. \A g \in Files : \/ client'[g].id = client[g].id /\ client'[g].pc # "done"
                         \/ client'[g] = client[g]
    BY <1>10 DEF AllHandlersEnd, StartedOver, TypeOK, ClientType
  <2>2. \A q \in Requests : handler'[q] = Idle
    BY <1>10 DEF AllHandlersEnd
  <2>3. QED
    BY <1>10, <2>1, <2>2, NoDraw
<1>11. ASSUME NEW i \in Ids, DeleteTemporary(i) PROVE Owned' /\ DoneIsRecorded'
  BY <1>11, NoDraw DEF DeleteTemporary, histVars
<1>12. ASSUME Complete \/ RevertComplete \/ RemoveFiles PROVE Owned' /\ DoneIsRecorded'
  <2>1. share'.row => share.row
    BY <1>12 DEF Complete, RevertComplete, RemoveFiles
  <2>2. UNCHANGED <<client, handler, rows, owner>>
    BY <1>12 DEF Complete, RevertComplete, RemoveFiles, histVars
  <2>3. QED
    BY <2>1, <2>2, NoDraw
<1>13. ASSUME RemoveRow PROVE Owned' /\ DoneIsRecorded'
  <2>1. ~share'.row
    BY <1>13 DEF RemoveRow, TypeOK
  <2>2. UNCHANGED <<client, handler, owner>>
    BY <1>13 DEF RemoveRow, histVars
  <2>3. QED
    BY <2>1, <2>2, NoDraw
<1>14. QED
  BY <1>s, <1>1, <1>2, <1>3, <1>4, <1>5, <1>6, <1>7, <1>8, <1>9, <1>10, <1>11, <1>12, <1>13
  DEF Next, HandlerStep, AllEnded, Restart, RestartTears

(* What the page shows as uploaded is recorded while the share exists,     *)
(* whatever answers are lost and however often the process restarts.       *)
THEOREM UploadedIsRecorded == Spec => []DoneIsRecorded
<1>1. Init => RecordInv
  <2> SUFFICES ASSUME Init PROVE Owned /\ DoneIsRecorded
    BY TypeInit DEF RecordInv
  <2>1. /\ \A f \in Files : client[f].id = NoId /\ client[f].pc = "send"
        /\ \A r \in Requests : handler[r] = Idle
    BY DEF Init, StartOfLoop
  <2>2. QED
    BY <2>1 DEF Owned, DoneIsRecorded
<1>2. RecordInv /\ [Next]_vars => RecordInv'
  BY TypeStep, RecordStep DEF RecordInv
<1>3. RecordInv => DoneIsRecorded
  BY DEF RecordInv
<1>4. QED
  BY <1>1, <1>2, <1>3, PTL DEF Spec

----------------------------------------------------------------------------
(* How chunks add up to a file.                                            *)

(* The quotient rounded up is the one with the file in its last chunk.     *)
LEMMA CeilDivBetween ==
  ASSUME NEW a \in Nat, NEW b \in Nat \ {0}
  PROVE  /\ CeilDiv(a, b) \in Nat /\ a <= CeilDiv(a, b) * b
         /\ a > 0 => CeilDiv(a, b) > 0 /\ (CeilDiv(a, b) - 1) * b < a
         /\ a = 0 => CeilDiv(a, b) = 0
<1> DEFINE q == CeilDiv(a, b)
<1>1. q \in Nat
  BY DEF CeilDiv
<1>2. /\ b * ((a + b - 1) \div b) <= a + b - 1
      /\ a + b - 1 < b * ((a + b - 1) \div b) + b
  OBVIOUS
<1>3. b * q <= a + b - 1 /\ a + b - 1 < b * q + b
  BY <1>2 DEF CeilDiv
<1>4. b * q \in Nat /\ q * b = b * q /\ (q - 1) * b = b * q - b
  BY <1>1
<1> HIDE DEF q
<1>5. a <= q * b /\ (q - 1) * b < a
  BY <1>1, <1>3, <1>4
<1>6. ASSUME a > 0 PROVE q > 0
  BY <1>1, <1>5, <1>6
<1>7. ASSUME a = 0 PROVE q = 0
  <2>1. CASE q >= 1
    <3>1. (q - 1) * b \in Nat
      BY <1>1, <2>1
    <3>2. QED
      BY <1>5, <1>7, <3>1
  <2>2. QED
    BY <1>1, <2>1
<1>8. QED
  BY <1>1, <1>5, <1>6, <1>7 DEF q

(* More chunks are no shorter.                                             *)
LEMMA ChunksMonotone ==
  ASSUME NEW b \in Nat, NEW m \in Nat, NEW n \in Nat, m <= n
  PROVE  m * b <= n * b
<1>1. PICK d \in Nat : n = m + d
  <2>1. n - m \in Nat /\ n = m + (n - m)
    OBVIOUS
  <2>2. QED
    BY <2>1
<1>2. n * b = m * b + d * b /\ d * b \in Nat /\ m * b \in Nat
  BY <1>1
<1>3. QED
  BY <1>2

(* Whole chunks on disk: the next one is expected.                         *)
LEMMA ExpectedAfter ==
  ASSUME NEW k \in Nat
  PROVE  ExpectedIndex(k * ChunkSize) = k
<1> DEFINE a == k * ChunkSize  q == ExpectedIndex(a)
<1>1. ChunkSize \in Nat \ {0} /\ a \in Nat
  BY LimitsAssumption
<1>2. /\ q \in Nat /\ a <= q * ChunkSize
      /\ a > 0 => q > 0 /\ (q - 1) * ChunkSize < a
      /\ a = 0 => q = 0
  BY <1>1, CeilDivBetween DEF ExpectedIndex
<1> HIDE DEF q
<1>3. CASE a = 0
  <2>1. k = 0
    <3>1. CASE k >= 1
      <4>1. 1 * ChunkSize <= a
        BY <1>1, <3>1, ChunksMonotone
      <4>2. QED
        BY <1>1, <1>3, <4>1
    <3>2. QED
      BY <3>1
  <2>2. QED
    BY <1>2, <1>3, <2>1 DEF q
<1>4. CASE a > 0
  <2>1. ~(k < q)
    <3>1. SUFFICES ASSUME k < q PROVE FALSE
      OBVIOUS
    <3>2. k <= q - 1 /\ q - 1 \in Nat
      BY <1>2, <3>1
    <3>3. k * ChunkSize <= (q - 1) * ChunkSize
      BY <1>1, <3>2, ChunksMonotone
    <3>4. QED
      BY <1>1, <1>2, <1>4, <3>2, <3>3
  <2>2. ~(q < k)
    <3>1. SUFFICES ASSUME q < k PROVE FALSE
      OBVIOUS
    <3>2. q + 1 <= k /\ q + 1 \in Nat
      BY <1>2, <3>1
    <3>3. (q + 1) * ChunkSize <= k * ChunkSize
      BY <1>1, <3>2, ChunksMonotone
    <3>4. (q + 1) * ChunkSize = q * ChunkSize + ChunkSize /\ q * ChunkSize \in Nat
      BY <1>1, <1>2
    <3>5. QED
      BY <1>1, <1>2, <3>3, <3>4
  <2>3. QED
    BY <1>2, <2>1, <2>2 DEF q
<1>5. QED
  BY <1>1, <1>3, <1>4

(* A file fills its chunks but for the end of the last one.                *)
LEMMA ChunksOfFile ==
  ASSUME NEW f \in Files
  PROVE  /\ Chunks(f) \in Nat \ {0} /\ Bytes[f] \in Nat
         /\ Bytes[f] <= Chunks(f) * ChunkSize
         /\ Bytes[f] > 0 => /\ (Chunks(f) - 1) * ChunkSize < Bytes[f]
                            /\ ExpectedIndex(Bytes[f]) = Chunks(f)
         /\ Bytes[f] = 0 => Chunks(f) = 1 /\ ExpectedIndex(Bytes[f]) = 0
<1>1. ChunkSize \in Nat \ {0} /\ Bytes[f] \in Nat
  BY FilesAssumption, LimitsAssumption
<1>2. /\ ExpectedIndex(Bytes[f]) \in Nat /\ Bytes[f] <= ExpectedIndex(Bytes[f]) * ChunkSize
      /\ Bytes[f] > 0 => /\ ExpectedIndex(Bytes[f]) > 0
                         /\ (ExpectedIndex(Bytes[f]) - 1) * ChunkSize < Bytes[f]
      /\ Bytes[f] = 0 => ExpectedIndex(Bytes[f]) = 0
  BY <1>1, CeilDivBetween DEF ExpectedIndex
<1>3. Chunks(f) = IF Bytes[f] = 0 THEN 1 ELSE ExpectedIndex(Bytes[f])
  BY DEF Chunks, ExpectedIndex
<1>4. CASE Bytes[f] = 0
  <2>1. Chunks(f) = 1 /\ 1 * ChunkSize = ChunkSize
    BY <1>1, <1>3, <1>4
  <2>2. QED
    BY <1>1, <1>2, <1>4, <2>1
<1>5. CASE Bytes[f] > 0
  BY <1>1, <1>2, <1>3, <1>5
<1>6. QED
  BY <1>1, <1>4, <1>5

(* What a chunk of the file adds to those before it.                       *)
LEMMA ChunkAdds ==
  ASSUME NEW f \in Files, NEW i \in Nat, i < Chunks(f)
  PROVE  /\ i * ChunkSize \in Nat
         /\ IsLast(f, i) => i * ChunkSize + ChunkLength(f, i) = Bytes[f]
         /\ ~IsLast(f, i) => /\ i + 1 \in 1..Chunks(f) - 1
                             /\ i * ChunkSize + ChunkLength(f, i) = (i + 1) * ChunkSize
<1>1. /\ ChunkSize \in Nat \ {0} /\ i * ChunkSize \in Nat
      /\ (i + 1) * ChunkSize = i * ChunkSize + ChunkSize
  BY LimitsAssumption
<1>2. /\ Chunks(f) \in Nat \ {0} /\ Bytes[f] \in Nat
      /\ Bytes[f] <= Chunks(f) * ChunkSize
      /\ Bytes[f] > 0 => (Chunks(f) - 1) * ChunkSize < Bytes[f]
      /\ Bytes[f] = 0 => Chunks(f) = 1
  BY ChunksOfFile
<1>3. CASE IsLast(f, i)
  <2>1. Chunks(f) = i + 1 /\ Chunks(f) - 1 = i
    BY <1>2, <1>3 DEF IsLast
  <2>2. Bytes[f] <= i * ChunkSize + ChunkSize /\ (Bytes[f] > 0 => i * ChunkSize < Bytes[f])
    BY <1>1, <1>2, <2>1
  <2>3. Bytes[f] = 0 => i * ChunkSize = 0
    BY <1>1, <1>2, <2>1
  <2>4. i * ChunkSize + ChunkLength(f, i) = Bytes[f]
    <3> DEFINE before == i * ChunkSize
    <3>1. /\ before \in Nat /\ ChunkSize \in Nat /\ Bytes[f] \in Nat
          /\ Bytes[f] <= before + ChunkSize /\ before <= Bytes[f]
      BY <1>1, <1>2, <2>2, <2>3
    <3>2. ChunkLength(f, i) = IF Bytes[f] <= before THEN 0
            ELSE IF Bytes[f] - before < ChunkSize THEN Bytes[f] - before ELSE ChunkSize
      BY DEF ChunkLength
    <3> HIDE DEF before
    <3>3. before + ChunkLength(f, i) = Bytes[f]
      BY <3>1, <3>2
    <3>4. QED
      BY <3>3 DEF before
  <2>5. QED
    BY <1>1, <1>3, <2>4
<1>4. CASE ~IsLast(f, i)
  <2>1. i + 1 <= Chunks(f) - 1 /\ Chunks(f) - 1 \in Nat
    BY <1>2, <1>4 DEF IsLast
  <2>2. (i + 1) * ChunkSize <= (Chunks(f) - 1) * ChunkSize
    BY <1>1, <2>1, ChunksMonotone
  <2>3. (Chunks(f) - 1) * ChunkSize < Bytes[f]
    BY <1>2, <2>1
  <2>4. (Chunks(f) - 1) * ChunkSize \in Nat
    BY <1>1, <2>1
  <2>5. i * ChunkSize + ChunkSize < Bytes[f]
    BY <1>1, <1>2, <2>2, <2>3, <2>4
  <2>6. ChunkLength(f, i) = ChunkSize
    <3> DEFINE before == i * ChunkSize
    <3>1. before \in Nat /\ before + ChunkSize < Bytes[f] /\ ChunkSize \in Nat /\ Bytes[f] \in Nat
      BY <1>1, <1>2, <2>5
    <3>2. ChunkLength(f, i) = IF Bytes[f] <= before THEN 0
            ELSE IF Bytes[f] - before < ChunkSize THEN Bytes[f] - before ELSE ChunkSize
      BY DEF ChunkLength
    <3> HIDE DEF before
    <3>3. QED
      BY <3>1, <3>2
  <2>7. QED
    BY <1>1, <1>4, <2>1, <2>6
<1>5. QED
  BY <1>1, <1>3, <1>4

----------------------------------------------------------------------------
(* The loop of the client and its handlers: who still waits for whom.      *)

Runs(r) == handler[r] # Idle
Writing == {"append", "move", "check", "record"}
Written == {"move", "check", "record"}

(* No chunk beyond the last one is sent, and after an append only the      *)
(* handler of the last chunk goes on.                                      *)
InPace(h) == /\ h.index < Chunks(h.file)
             /\ h.pc \in Written => IsLast(h.file, h.index)
Paced ==
  /\ \A f \in Files : client[f].pc \in {"send", "wait"} => client[f].index < Chunks(f)
  /\ \A r \in Requests : Runs(r) => InPace(handler[r])

(* Of the handlers of a file at most one is waited for, and a loop that    *)
(* has an identifier keeps it; a handler with another one was left with    *)
(* the first chunk.                                                        *)
SameName(h) ==
  h.id # NoId => client[h.file].id = h.id \/ (h.index = 0 /\ h.pc \in Writing)
Waited ==
  \A r \in Requests : Runs(r) /\ handler[r].live =>
    /\ client[handler[r].file].pc = "wait"
    /\ client[handler[r].file].id \in {handler[r].id, NoId}
AtMostOne ==
  \A q, r \in Requests :
    Runs(q) /\ handler[q].live /\ Runs(r) /\ handler[r].live /\ handler[q].file = handler[r].file =>
      q = r
Abandoned == \A r \in Requests : Runs(r) /\ ~handler[r].live => handler[r].file \in unheard
SameNames == \A r \in Requests : Runs(r) => SameName(handler[r])
Awaited == Waited /\ AtMostOne /\ Abandoned /\ SameNames

LoopInv == TypeOK /\ Named /\ Paced /\ Awaited

(* A handler that goes on.                                                 *)
LEMMA HandlerAdvances ==
  ASSUME LoopInv, NEW r \in Requests, Runs(r), NEW h \in Running,
         handler' = [handler EXCEPT ![r] = h], UNCHANGED <<client, unheard>>,
         h.file = handler[r].file, h.index = handler[r].index, h.live = handler[r].live,
         h.pc \in Written => IsLast(h.file, h.index),
         handler[r].pc \in Writing => h.pc \in Writing,
         h.id = handler[r].id \/ (handler[r].id = NoId /\ h.index = 0 /\ h.pc \in Writing)
  PROVE  Paced' /\ Awaited'
<1>1. h # Idle
  BY DEF Running, Idle
<1>2. handler'[r] = h /\ \A q \in Requests : q # r => handler'[q] = handler[q]
  BY DEF LoopInv, TypeOK
<1>3. Paced'
  BY <1>1, <1>2 DEF LoopInv, Paced, InPace, Runs
<1>4. ASSUME NEW q \in Requests, Runs(q)'
      PROVE  /\ Runs(q) /\ handler'[q].file = handler[q].file
             /\ handler'[q].live = handler[q].live
  BY <1>2, <1>4 DEF Runs
<1>5. ASSUME NEW q \in Requests, Runs(q)'
      PROVE  /\ handler'[q].live => client[handler[q].file].id \in {handler'[q].id, NoId}
             /\ SameName(handler[q])
             /\ handler'[q].id # NoId => \/ client[handler'[q].file].id = handler'[q].id
                                         \/ handler'[q].index = 0 /\ handler'[q].pc \in Writing
  BY <1>2, <1>4, <1>5 DEF LoopInv, Awaited, Waited, SameNames, SameName
<1>6. Waited' /\ SameNames'
  BY <1>4, <1>5 DEF LoopInv, Awaited, Waited, SameNames, SameName
<1>7. AtMostOne' /\ Abandoned'
  BY <1>4 DEF LoopInv, Awaited, AtMostOne, Abandoned
<1>8. QED
  BY <1>3, <1>6, <1>7 DEF Awaited

(* A handler that ends.                                                    *)
LEMMA HandlerAnswers ==
  ASSUME LoopInv, NEW r \in Requests, Runs(r), NEW heard \in ClientType, Answer(r, heard),
         UNCHANGED unheard,
         heard.pc \in {"send", "wait"} => heard.index < Chunks(handler[r].file),
         heard.id \in {client[handler[r].file].id, handler[r].id},
         client[handler[r].file].id # NoId => heard.id # NoId
  PROVE  Paced' /\ Awaited'
<1>1. handler'[r] = Idle /\ \A q \in Requests : q # r => handler'[q] = handler[q]
  BY DEF Answer, LoopInv, TypeOK
<1>2. handler[r].file \in Files
  BY RunningType DEF LoopInv, TypeOK, Runs
<1>3. \A f \in Files : \/ client'[f] = client[f]
                       \/ handler[r].live /\ f = handler[r].file /\ client'[f] = heard
  BY <1>2 DEF Answer, LoopInv, TypeOK
<1>4. ASSUME NEW q \in Requests, Runs(q)'
      PROVE  /\ Runs(q) /\ q # r /\ handler'[q] = handler[q] /\ handler[q].file \in Files
  BY <1>1, <1>4, RunningType DEF LoopInv, TypeOK, Runs
<1>5. Paced'
  BY <1>3, <1>4 DEF LoopInv, Paced, InPace
<1>6. ASSUME NEW q \in Requests, Runs(q)', handler[q].live
      PROVE  client'[handler[q].file] = client[handler[q].file]
  BY <1>3, <1>4, <1>6 DEF LoopInv, Awaited, AtMostOne
<1>7. ASSUME NEW f \in Files
      PROVE  client[f].id # NoId => client'[f].id = client[f].id
  <2>1. CASE client'[f] = client[f]
    BY <2>1
  <2>2. CASE handler[r].live /\ f = handler[r].file /\ client'[f] = heard
    BY <2>2 DEF LoopInv, Awaited, Waited
  <2>3. QED
    BY <1>3, <2>1, <2>2
<1>8. ASSUME NEW q \in Requests, Runs(q)', handler[q].id # NoId
      PROVE  \/ client'[handler[q].file].id = handler[q].id
             \/ handler[q].index = 0 /\ handler[q].pc \in Writing
  BY <1>4, <1>7, <1>8 DEF LoopInv, Awaited, Waited, SameNames, SameName
<1>9. Waited' /\ SameNames'
  BY <1>4, <1>6, <1>8 DEF LoopInv, Awaited, Waited, SameNames, SameName
<1>10. AtMostOne' /\ Abandoned'
  BY <1>4 DEF LoopInv, Awaited, AtMostOne, Abandoned
<1>11. QED
  BY <1>5, <1>9, <1>10 DEF Awaited

(* What an answer does to the fields of the loop.                          *)
LEMMA LoopFields ==
  ASSUME client \in [Files -> ClientType], NEW f \in Files
  PROVE  /\ StartedOver(f).pc = "send" /\ StartedOver(f).index = 0
         /\ StartedOver(f).id = client[f].id
         /\ \A index \in Nat :
              /\ Corrected(f, index).pc = IF index < Chunks(f) THEN "send" ELSE "stopped"
              /\ Corrected(f, index).index = index /\ Corrected(f, index).id = client[f].id
BY DEF StartedOver, Corrected, ClientType

LEMMA FailKeepsPace ==
  ASSUME LoopInv, NEW r \in Requests, Runs(r), Fail(r), UNCHANGED unheard
  PROVE  Paced' /\ Awaited'
<1>1. handler[r].file \in Files /\ client \in [Files -> ClientType]
  BY RunningType DEF LoopInv, TypeOK, Runs
<1> DEFINE heard == StartedOver(handler[r].file)
<1>2. heard \in ClientType /\ heard.index = 0 /\ heard.id = client[handler[r].file].id
  BY <1>1, LoopType, LoopFields
<1>3. Chunks(handler[r].file) \in Nat \ {0}
  BY <1>1, ChunksOfFile
<1>4. Answer(r, heard)
  BY DEF Fail
<1> HIDE DEF heard
<1>5. QED
  BY <1>2, <1>3, <1>4, HandlerAnswers

LEMMA CorrectionKeepsPace ==
  ASSUME LoopInv, NEW r \in Requests, Runs(r), NEW index \in Nat,
         Answer(r, Corrected(handler[r].file, index)), UNCHANGED unheard
  PROVE  Paced' /\ Awaited'
<1>1. handler[r].file \in Files /\ client \in [Files -> ClientType]
  BY RunningType DEF LoopInv, TypeOK, Runs
<1> DEFINE heard == Corrected(handler[r].file, index)
<1>2. /\ heard \in ClientType /\ heard.id = client[handler[r].file].id
      /\ heard.pc \in {"send", "wait"} => heard.index < Chunks(handler[r].file)
  BY <1>1, LoopType, LoopFields
<1> HIDE DEF heard
<1>3. QED
  BY <1>2, HandlerAnswers DEF heard

LEMMA SuccessKeepsPace ==
  ASSUME LoopInv, NEW r \in Requests, Runs(r), handler[r].id # NoId, Succeed(r),
         UNCHANGED unheard
  PROVE  Paced' /\ Awaited'
<1>1. /\ handler[r].file \in Files /\ handler[r].index \in Nat /\ handler[r].id \in Ids
      /\ client \in [Files -> ClientType]
  BY RunningType DEF LoopInv, TypeOK, Runs
<1> DEFINE heard == Carried(handler[r].file, handler[r].index + 1, handler[r].id)
<1>2. heard \in ClientType /\ heard.id = handler[r].id
  BY <1>1, LoopType DEF Carried
<1>3. /\ heard.pc = IF handler[r].index + 1 = Chunks(handler[r].file) THEN "done" ELSE "send"
      /\ heard.index = handler[r].index + 1
  BY DEF Carried
<1>4. handler[r].index < Chunks(handler[r].file) /\ Chunks(handler[r].file) \in Nat
  BY <1>1, ChunksOfFile DEF LoopInv, Paced, InPace
<1>5. Answer(r, heard)
  BY DEF Succeed
<1> HIDE DEF heard
<1>6. heard.pc \in {"send", "wait"} => heard.index < Chunks(handler[r].file)
  BY <1>1, <1>3, <1>4
<1>7. QED
  BY <1>2, <1>5, <1>6, HandlerAnswers

(* When every handler ends, nobody waits any more.                         *)
LEMMA AllEndKeepPace ==
  ASSUME LoopInv, AllHandlersEnd
  PROVE  Paced' /\ Awaited'
<1>1. \A r \in Requests : handler'[r] = Idle
  BY DEF AllHandlersEnd
<1>2. ASSUME NEW f \in Files, client'[f].pc \in {"send", "wait"}
      PROVE  client'[f].index < Chunks(f)
  <2>1. Chunks(f) \in Nat \ {0}
    BY ChunksOfFile
  <2>2. CASE client[f].pc = "wait"
    <3>1. client'[f] = StartedOver(f)
      BY <2>2 DEF AllHandlersEnd
    <3>2. client'[f].index = 0
      BY <3>1 DEF StartedOver, LoopInv, TypeOK, ClientType
    <3>3. QED
      BY <2>1, <3>2
  <2>3. CASE client[f].pc # "wait"
    BY <1>2, <2>3 DEF AllHandlersEnd, LoopInv, Paced
  <2>4. QED
    BY <2>2, <2>3
<1>3. QED
  BY <1>1, <1>2 DEF Paced, Awaited, Waited, AtMostOne, Abandoned, SameNames, Runs

(* A chunk is expected only where the loop of a file can be.               *)
LEMMA StatNames ==
  ASSUME LoopInv, NEW r \in Requests, handler[r].pc = "stat", Runs(r),
         handler[r].id = NoId, handler[r].index = ExpectedIndex(SizeOf(handler[r].id))
  PROVE  handler[r].index = 0
<1>1. SizeOf(handler[r].id) = 0 * ChunkSize
  BY LimitsAssumption DEF SizeOf
<1>2. QED
  BY <1>1, ExpectedAfter

(* Each step keeps the pace of the loops, and what is known of handlers.   *)
LEMMA LoopStep == LoopInv /\ [Next]_vars => Paced' /\ Awaited'
<1> SUFFICES ASSUME LoopInv, [Next]_vars PROVE Paced' /\ Awaited'
  OBVIOUS
<1>s. ASSUME UNCHANGED <<client, handler, unheard>> PROVE Paced' /\ Awaited'
  <2>1. \A r \in Requests : SameName(handler[r])' <=> SameName(handler[r])
    BY <1>s DEF SameName
  <2>2. QED
    BY <1>s, <2>1 DEF LoopInv, Paced, InPace, Awaited, Waited, AtMostOne, Abandoned, SameNames,
       Runs
<1>1. ASSUME NEW f \in Files, Send(f) PROVE Paced' /\ Awaited'
  <2>1. PICK r \in Requests : /\ handler[r] = Idle
          /\ handler' = [handler EXCEPT ![r] =
               [pc |-> "read", file |-> f, id |-> client[f].id, index |-> client[f].index,
                live |-> TRUE, recorded |-> [i \in Ids |-> NoRow], size |-> 0]]
    BY <1>1 DEF Send
  <2>2. /\ handler'[r].pc = "read" /\ handler'[r].file = f /\ handler'[r].id = client[f].id
        /\ handler'[r].index = client[f].index /\ handler'[r].live
        /\ \A q \in Requests : q # r => handler'[q] = handler[q]
    BY <2>1 DEF LoopInv, TypeOK
  <2>3. /\ client'[f].pc = "wait" /\ client'[f].id = client[f].id
        /\ client'[f].index = client[f].index
        /\ \A g \in Files : g # f => client'[g] = client[g]
    BY <1>1 DEF Send, LoopInv, TypeOK, ClientType
  <2>4. client[f].pc = "send" /\ UNCHANGED unheard
    BY <1>1 DEF Send, histVars
  <2>5. \A q \in Requests : Runs(q)' /\ q # r =>
          Runs(q) /\ handler'[q] = handler[q] /\ handler[q].file \in Files
    BY <2>2, RunningType DEF Runs, LoopInv, TypeOK
  <2>6. \A q \in Requests : Runs(q)' /\ q # r /\ handler[q].live => handler[q].file # f
    BY <2>4, <2>5 DEF LoopInv, Awaited, Waited
  <2>7. \A q \in Requests : Runs(q)' =>
          client'[handler'[q].file].id = client[handler'[q].file].id
    BY <2>2, <2>3, <2>5
  <2>8. Paced'
    BY <2>2, <2>3, <2>4, <2>5 DEF LoopInv, Paced, InPace, Written
  <2>9. Waited' /\ AtMostOne' /\ Abandoned'
    BY <2>2, <2>3, <2>4, <2>5, <2>6 DEF LoopInv, Awaited, Waited, AtMostOne, Abandoned
  <2>10. SameNames'
    BY <2>2, <2>5, <2>7 DEF LoopInv, Awaited, SameNames, SameName
  <2>11. QED
    BY <2>8, <2>9, <2>10 DEF Awaited
<1>2. ASSUME NEW r \in Requests, Read(r) PROVE Paced' /\ Awaited'
  <2>1. Runs(r) /\ UNCHANGED unheard /\ handler[r].pc = "read"
    BY <1>2 DEF Read, Idle, Runs, histVars
  <2>2. CASE handler' = [handler EXCEPT ![r].pc = "stat", ![r].recorded = rows] /\ UNCHANGED client
    <3> DEFINE h == [handler[r] EXCEPT !.pc = "stat", !.recorded = rows]
    <3>1. /\ h \in Running /\ h.pc = "stat" /\ handler' = [handler EXCEPT ![r] = h]
          /\ h.file = handler[r].file /\ h.index = handler[r].index
          /\ h.live = handler[r].live /\ h.id = handler[r].id
      BY <2>1, <2>2, RunningType DEF LoopInv, TypeOK, Running, Runs
    <3> HIDE DEF h
    <3>2. QED
      BY <2>1, <2>2, <3>1, HandlerAdvances DEF Writing, Written
  <2>3. CASE Fail(r)
    BY <2>1, <2>3, FailKeepsPace
  <2>4. QED
    BY <1>2, <2>2, <2>3 DEF Read
<1>3. ASSUME NEW r \in Requests, Stat(r) PROVE Paced' /\ Awaited'
  <2>1. Runs(r) /\ UNCHANGED unheard /\ handler[r].pc = "stat"
    BY <1>3 DEF Stat, Idle, Runs
  <2>2. CASE \/ Fail(r)
             \/ Answer(r, Corrected(handler[r].file, ExpectedIndex(SizeOf(handler[r].id))))
    <3>1. ExpectedIndex(SizeOf(handler[r].id)) \in Nat
      BY <2>1, RunningType, SizeOfType, ExpectedIndexType DEF LoopInv, TypeOK, Runs
    <3>2. QED
      BY <2>1, <2>2, <3>1, FailKeepsPace, CorrectionKeepsPace
  <2>3. CASE /\ handler[r].index = ExpectedIndex(SizeOf(handler[r].id))
             /\ \E i \in IF handler[r].id = NoId THEN FirstUnused ELSE {handler[r].id} :
                  handler' = [handler EXCEPT ![r].pc = "append",
                               ![r].size = SizeOf(handler[r].id), ![r].id = i]
             /\ UNCHANGED client
    <3>1. PICK i \in IF handler[r].id = NoId THEN FirstUnused ELSE {handler[r].id} :
             handler' = [handler EXCEPT ![r].pc = "append",
                             ![r].size = SizeOf(handler[r].id), ![r].id = i]
      BY <2>3
    <3>2. i \in Ids
      BY <2>1, RunningType DEF FirstUnused, Unused, LoopInv, TypeOK, Runs
    <3>3. SizeOf(handler[r].id) \in Nat
      BY <2>1, RunningType, SizeOfType DEF LoopInv, TypeOK, Runs
    <3> DEFINE h == [handler[r] EXCEPT !.pc = "append", !.size = SizeOf(handler[r].id), !.id = i]
    <3>4. /\ h \in Running /\ h.pc = "append" /\ handler' = [handler EXCEPT ![r] = h]
          /\ h.file = handler[r].file /\ h.index = handler[r].index
          /\ h.live = handler[r].live /\ h.id = i
      BY <2>1, <3>1, <3>2, <3>3, RunningType DEF LoopInv, TypeOK, Running, Runs
    <3> HIDE DEF h
    <3>5. i = handler[r].id \/ (handler[r].id = NoId /\ handler[r].index = 0)
      BY <2>1, <2>3, StatNames
    <3>6. QED
      BY <2>1, <2>3, <3>4, <3>5, HandlerAdvances DEF Writing, Written
  <2>4. QED
    BY <1>3, <2>2, <2>3 DEF Stat
<1>4. ASSUME NEW r \in Requests, Append(r) PROVE Paced' /\ Awaited'
  <2>1. Runs(r) /\ UNCHANGED unheard /\ handler[r].pc = "append" /\ handler[r].id # NoId
    BY <1>4 DEF Append, Idle, Runs, LoopInv, Named
  <2>2. CASE Fail(r)
    BY <2>1, <2>2, FailKeepsPace
  <2>3. CASE /\ IsLast(handler[r].file, handler[r].index)
             /\ handler' = [handler EXCEPT ![r].pc = "move"] /\ UNCHANGED client
    <3> DEFINE h == [handler[r] EXCEPT !.pc = "move"]
    <3>1. /\ h \in Running /\ h.pc = "move" /\ handler' = [handler EXCEPT ![r] = h]
          /\ h.file = handler[r].file /\ h.index = handler[r].index
          /\ h.live = handler[r].live /\ h.id = handler[r].id
      BY <2>1, <2>3, RunningType DEF LoopInv, TypeOK, Running, Runs
    <3> HIDE DEF h
    <3>2. QED
      BY <2>1, <2>3, <3>1, HandlerAdvances DEF Writing, Written
  <2>4. CASE Succeed(r)
    BY <2>1, <2>4, SuccessKeepsPace
  <2>5. QED
    BY <1>4, <2>2, <2>3, <2>4 DEF Append
<1>5. ASSUME NEW r \in Requests, Move(r) PROVE Paced' /\ Awaited'
  <2>1. Runs(r) /\ UNCHANGED unheard /\ handler[r].pc = "move"
    BY <1>5 DEF Move, Idle, Runs, histVars
  <2>2. CASE Fail(r)
    BY <2>1, <2>2, FailKeepsPace
  <2>3. CASE handler' = [handler EXCEPT ![r].pc = "check"] /\ UNCHANGED client
    <3> DEFINE h == [handler[r] EXCEPT !.pc = "check"]
    <3>1. /\ h \in Running /\ h.pc = "check" /\ handler' = [handler EXCEPT ![r] = h]
          /\ h.file = handler[r].file /\ h.index = handler[r].index
          /\ h.live = handler[r].live /\ h.id = handler[r].id
      BY <2>1, <2>3, RunningType DEF LoopInv, TypeOK, Running, Runs
    <3>2. IsLast(handler[r].file, handler[r].index)
      BY <2>1 DEF LoopInv, Paced, InPace, Written
    <3> HIDE DEF h
    <3>3. QED
      BY <2>1, <2>3, <3>1, <3>2, HandlerAdvances DEF Writing
  <2>4. QED
    BY <1>5, <2>2, <2>3 DEF Move
<1>6. ASSUME NEW r \in Requests, Check(r) PROVE Paced' /\ Awaited'
  <2>1. Runs(r) /\ UNCHANGED unheard /\ handler[r].pc = "check" /\ handler[r].id \in Ids
    BY <1>6, RunningType DEF Check, Idle, Runs, histVars, LoopInv, Named, TypeOK
  <2>2. CASE Fail(r)
    BY <2>1, <2>2, FailKeepsPace
  <2>3. CASE /\ handler' = [handler EXCEPT ![r].pc = "record", ![r].size = disk[handler[r].id].size]
             /\ UNCHANGED client
    <3> DEFINE h == [handler[r] EXCEPT !.pc = "record", !.size = disk[handler[r].id].size]
    <3>1. disk[handler[r].id].size \in Nat
      BY <2>1 DEF LoopInv, TypeOK, FileType
    <3>2. h \in Running
      BY <2>1, <3>1, RunningType, SizedType DEF LoopInv, TypeOK, Runs
    <3>3. /\ h.pc = "record" /\ handler' = [handler EXCEPT ![r] = h]
          /\ h.file = handler[r].file /\ h.index = handler[r].index
          /\ h.live = handler[r].live /\ h.id = handler[r].id
      BY <2>1, <2>3, RunningType DEF LoopInv, TypeOK, Running, Runs
    <3>4. IsLast(handler[r].file, handler[r].index)
      BY <2>1 DEF LoopInv, Paced, InPace, Written
    <3> HIDE DEF h
    <3>5. QED
      BY <2>1, <2>3, <3>2, <3>3, <3>4, HandlerAdvances DEF Writing
  <2>4. QED
    BY <1>6, <2>2, <2>3 DEF Check
<1>7. ASSUME NEW r \in Requests, Record(r) PROVE Paced' /\ Awaited'
  <2>1. Runs(r) /\ UNCHANGED unheard /\ handler[r].id # NoId
    BY <1>7 DEF Record, Idle, Runs, LoopInv, Named
  <2>2. Fail(r) \/ Succeed(r)
    BY <1>7 DEF Record
  <2>3. QED
    BY <2>1, <2>2, FailKeepsPace, SuccessKeepsPace
<1>8. ASSUME NEW f \in Files, SendFails(f) PROVE Paced' /\ Awaited'
  <2>1. /\ client'[f].pc = "send" /\ client'[f].index = 0 /\ client'[f].id = client[f].id
        /\ \A g \in Files : g # f => client'[g] = client[g]
    BY <1>8, LoopFields DEF SendFails, LoopInv, TypeOK
  <2>2. client[f].pc = "send" /\ UNCHANGED <<handler, unheard>>
    BY <1>8 DEF SendFails, histVars
  <2>3. \A q \in Requests : Runs(q) => handler[q].file \in Files
    BY RunningType DEF Runs, LoopInv, TypeOK
  <2>4. Chunks(f) \in Nat \ {0}
    BY ChunksOfFile
  <2>5. Paced'
    BY <2>1, <2>2, <2>4 DEF LoopInv, Paced, InPace, Runs
  <2>6. Waited' /\ AtMostOne' /\ Abandoned'
    BY <2>1, <2>2, <2>3 DEF LoopInv, Awaited, Waited, AtMostOne, Abandoned, Runs
  <2>7. SameNames'
    BY <2>1, <2>2, <2>3 DEF LoopInv, Awaited, SameNames, SameName, Runs
  <2>8. QED
    BY <2>5, <2>6, <2>7 DEF Awaited
<1>9. ASSUME NEW r \in Requests, LoseAnswer(r) PROVE Paced' /\ Awaited'
  <2> DEFINE f == handler[r].file
  <2>1. Runs(r) /\ handler[r].live /\ f \in Files
    BY <1>9, RunningType DEF LoseAnswer, Runs, LoopInv, TypeOK
  <2>2. /\ client'[f].pc = "send" /\ client'[f].index = 0 /\ client'[f].id = client[f].id
        /\ \A g \in Files : g # f => client'[g] = client[g]
    BY <1>9, <2>1, LoopFields DEF LoseAnswer, LoopInv, TypeOK
  <2>3. /\ handler'[r].file = f /\ ~handler'[r].live /\ handler'[r].id = handler[r].id
        /\ handler'[r].index = handler[r].index /\ handler'[r].pc = handler[r].pc
        /\ \A q \in Requests : q # r => handler'[q] = handler[q]
    BY <1>9, <2>1, RunningType DEF LoseAnswer, LoopInv, TypeOK, Running, Runs
  <2>4. unheard' = unheard \cup {f}
    BY <1>9 DEF LoseAnswer
  <2>5. \A q \in Requests : Runs(q)' => Runs(q) /\ handler[q].file \in Files
    BY <2>1, <2>3, RunningType DEF Runs, LoopInv, TypeOK
  <2>6. \A q \in Requests : Runs(q)' /\ handler'[q].live => q # r /\ handler[q].file # f
    BY <2>1, <2>3, <2>5 DEF LoopInv, Awaited, AtMostOne
  <2>7. Chunks(f) \in Nat \ {0}
    BY <2>1, ChunksOfFile
  <2>8. Paced'
    BY <2>2, <2>3, <2>5, <2>7 DEF LoopInv, Paced, InPace
  <2>9. Waited' /\ AtMostOne' /\ Abandoned'
    BY <2>2, <2>3, <2>4, <2>5, <2>6 DEF LoopInv, Awaited, Waited, AtMostOne, Abandoned
  <2>10. SameNames'
    BY <2>2, <2>3, <2>5 DEF LoopInv, Awaited, SameNames, SameName
  <2>11. QED
    BY <2>8, <2>9, <2>10 DEF Awaited
<1>10. ASSUME Restart \/ \E r \in Requests : RestartTears(r) PROVE Paced' /\ Awaited'
  BY <1>10, AllEndKeepPace DEF Restart, RestartTears
<1>11. ASSUME \/ \E i \in Ids : DeleteTemporary(i)
              \/ Complete \/ RevertComplete \/ RemoveFiles \/ RemoveRow
       PROVE  Paced' /\ Awaited'
  <2>1. UNCHANGED <<client, handler, unheard>>
    BY <1>11 DEF DeleteTemporary, Complete, RevertComplete, RemoveFiles, RemoveRow, histVars
  <2>2. QED
    BY <1>s, <2>1
<1>12. QED
  BY <1>s, <1>1, <1>2, <1>3, <1>4, <1>5, <1>6, <1>7, <1>8, <1>9, <1>10, <1>11
  DEF Next, HandlerStep, AllEnded, vars, histVars

----------------------------------------------------------------------------
(* What is on disk: of an identifier with no chunk out of place, a prefix  *)
(* of whole chunks, or the file.                                           *)

Part(f, n) == \E k \in 1..Chunks(f) - 1 : n = k * ChunkSize
TmpWhole(i) ==
  /\ owner[i] \in Files /\ tmp[i].intact
  /\ tmp[i].size = Bytes[owner[i]] \/ Part(owner[i], tmp[i].size)
TmpKept == \A i \in Ids :
  IF tmp[i].there THEN share.dir /\ (i \notin muddled => TmpWhole(i)) ELSE tmp[i] = NoFile
DiskKept == \A i \in Ids : disk[i].there /\ i \notin muddled =>
  owner[i] \in Files /\ disk[i].intact /\ disk[i].size = Bytes[owner[i]]
RowKept == \A i \in Ids : rows[i].there =>
  /\ owner[i] \in Files \ mislabeled
  /\ share.dir => disk[i].there
  /\ i \notin muddled => rows[i].size = Bytes[owner[i]]

(* A handler appends where its chunk begins; a file of several chunks      *)
(* waits for the one handler that moves it; a file to be recorded is there *)
(* and has passed its check.                                               *)
AppendGood(r) ==
  handler[r].id \notin muddled => handler[r].size = handler[r].index * ChunkSize
MoveGood(r) ==
  handler[r].id \notin muddled /\ share.dir /\ Chunks(handler[r].file) > 1 =>
    /\ tmp[handler[r].id].there /\ tmp[handler[r].id].size = Bytes[handler[r].file]
    /\ \A q \in Requests :
         Runs(q) /\ handler[q].pc = "move" /\ handler[q].id = handler[r].id => q = r
RecordGood(r) ==
  /\ handler[r].file \notin mislabeled
  /\ share.dir => disk[handler[r].id].there
  /\ handler[r].id \notin muddled => handler[r].size = Bytes[handler[r].file]
HandlersGood == \A r \in Requests : Runs(r) =>
  /\ handler[r].pc = "append" => AppendGood(r)
  /\ handler[r].pc = "move" => MoveGood(r)
  /\ handler[r].pc = "record" => RecordGood(r)

Contents == TmpKept /\ DiskKept /\ RowKept /\ HandlersGood
ContentInv == RecordInv /\ Paced /\ Awaited /\ Contents

LEMMA ContentTypes ==
  ASSUME ContentInv
  PROVE  /\ TypeOK /\ Named /\ Owned /\ LoopInv
         /\ \A r \in Requests : Runs(r) =>
              /\ handler[r] \in Running /\ handler[r].file \in Files /\ handler[r].index \in Nat
              /\ handler[r].index < Chunks(handler[r].file)
              /\ handler[r].id \in Ids \cup {NoId} /\ handler[r].size \in Nat
              /\ handler[r].id # NoId => owner[handler[r].id] = handler[r].file
              /\ handler[r].pc \in Writing => handler[r].id \in Ids
BY RunningType DEF ContentInv, RecordInv, LoopInv, TypeOK, Runs, Owned, Named, Paced, InPace, Writing

(* A handler that keeps its place.                                         *)
Same(q) ==
  /\ Runs(q) /\ handler'[q].pc = handler[q].pc /\ handler'[q].id = handler[q].id
  /\ handler'[q].index = handler[q].index /\ handler'[q].size = handler[q].size
  /\ handler'[q].file = handler[q].file
  /\ handler[q].id \in muddled => handler[q].id \in muddled'

(* A step that leaves the files on disk.                                   *)
LEMMA ContentFrame ==
  ASSUME ContentInv, UNCHANGED <<tmp, disk, mislabeled>>, share'.dir = share.dir,
         \A i \in Ids : tmp[i].there \/ disk[i].there \/ rows[i].there =>
            owner'[i] = owner[i] /\ (i \in muddled => i \in muddled'),
         rows' = rows \/ RowKept',
         \A q \in Requests : Runs(q)' /\ handler'[q].pc \in {"append", "move", "record"} =>
            \/ Same(q)
            \/ handler'[q].pc = "append" /\ AppendGood(q)'
            \/ handler'[q].pc = "record" /\ RecordGood(q)'
  PROVE  Contents'
<1>1. TmpKept'
  <2>1. ASSUME NEW i \in Ids, tmp[i].there, i \notin muddled' PROVE TmpWhole(i)'
    <3>1. TmpWhole(i) /\ owner'[i] = owner[i]
      BY <2>1 DEF ContentInv, Contents, TmpKept
    <3>2. QED
      BY <3>1 DEF TmpWhole, Part
  <2>2. QED
    BY <2>1 DEF ContentInv, Contents, TmpKept
<1>2. DiskKept'
  BY DEF ContentInv, Contents, DiskKept
<1>3. RowKept'
  BY DEF ContentInv, Contents, RowKept
<1>4. ASSUME NEW r \in Requests, Runs(r)', handler'[r].pc = "move" PROVE MoveGood(r)'
  <2>1. Same(r) /\ MoveGood(r)
    BY <1>4 DEF Same, ContentInv, Contents, HandlersGood
  <2>2. \A q \in Requests : Runs(q)' /\ handler'[q].pc = "move" => Same(q)
    OBVIOUS
  <2>3. QED
    BY <2>1, <2>2 DEF Same, MoveGood
<1>5. ASSUME NEW r \in Requests, Runs(r)', handler'[r].pc = "append" PROVE AppendGood(r)'
  BY <1>5 DEF Same, ContentInv, Contents, HandlersGood, AppendGood
<1>6. ASSUME NEW r \in Requests, Runs(r)', handler'[r].pc = "record" PROVE RecordGood(r)'
  BY <1>6 DEF Same, ContentInv, Contents, HandlersGood, RecordGood
<1>7. HandlersGood'
  BY <1>4, <1>5, <1>6 DEF HandlersGood
<1>8. QED
  BY <1>1, <1>2, <1>3, <1>7 DEF Contents

LEMMA AnswerLeavesContents ==
  ASSUME ContentInv, NEW r \in Requests, Runs(r), NEW heard, Answer(r, heard),
         UNCHANGED <<tmp, disk, mislabeled, share, owner, muddled>>, rows' = rows \/ RowKept'
  PROVE  Contents'
<1>1. \A q \in Requests : Runs(q)' => Runs(q) /\ handler'[q] = handler[q]
  BY ContentTypes DEF Answer, Runs, TypeOK
<1>2. \A q \in Requests : Runs(q)' => Same(q)
  BY <1>1 DEF Same
<1>3. QED
  BY <1>2, ContentFrame

(* Where a chunk begins is before the end of a file, but for an empty one. *)
LEMMA NotAtEnd ==
  ASSUME NEW f \in Files, NEW i \in Nat, i < Chunks(f), i * ChunkSize = Bytes[f]
  PROVE  Bytes[f] = 0 /\ Chunks(f) = 1
<1>1. /\ Chunks(f) \in Nat \ {0} /\ Bytes[f] \in Nat
      /\ Bytes[f] > 0 => ExpectedIndex(Bytes[f]) = Chunks(f)
      /\ Bytes[f] = 0 => Chunks(f) = 1
  BY ChunksOfFile
<1>2. ExpectedIndex(i * ChunkSize) = i
  BY ExpectedAfter
<1>3. ExpectedIndex(Bytes[f]) = i
  BY <1>2
<1>4. QED
  BY <1>1, <1>3

(* A handler that passes the check of its index appends where it should.   *)
LEMMA StatPlaces ==
  ASSUME ContentInv, NEW r \in Requests, Runs(r),
         handler[r].index = ExpectedIndex(SizeOf(handler[r].id)),
         handler[r].id \notin muddled
  PROVE  SizeOf(handler[r].id) = handler[r].index * ChunkSize
<1> DEFINE i == handler[r].id  f == handler[r].file
<1>1. /\ f \in Files /\ i \in Ids \cup {NoId} /\ handler[r].index \in Nat
      /\ handler[r].index < Chunks(f) /\ (i # NoId => owner[i] = f)
  BY ContentTypes
<1>2. 0 * ChunkSize = 0
  BY LimitsAssumption
<1>3. CASE i = NoId \/ ~tmp[i].there
  <2>1. SizeOf(i) = 0
    BY <1>3 DEF SizeOf
  <2>2. ExpectedIndex(0) = 0
    BY <1>2, ExpectedAfter
  <2>3. QED
    BY <1>2, <2>1, <2>2
<1>4. CASE i # NoId /\ tmp[i].there
  <2>1. SizeOf(i) = tmp[i].size /\ i \in Ids
    BY <1>1, <1>4 DEF SizeOf
  <2>2. TmpWhole(i)
    BY <1>4, <2>1 DEF ContentInv, Contents, TmpKept
  <2>3. CASE tmp[i].size = Bytes[f]
    <3>1. /\ Bytes[f] \in Nat /\ Chunks(f) \in Nat
          /\ Bytes[f] > 0 => ExpectedIndex(Bytes[f]) = Chunks(f)
          /\ Bytes[f] = 0 => ExpectedIndex(Bytes[f]) = 0
      BY <1>1, ChunksOfFile
    <3>2. Bytes[f] = 0 /\ handler[r].index = 0
      BY <1>1, <2>1, <2>3, <3>1
    <3>3. QED
      BY <1>2, <2>1, <2>3, <3>2
  <2>4. CASE Part(f, tmp[i].size)
    <3>1. PICK k \in 1..Chunks(f) - 1 : tmp[i].size = k * ChunkSize
      BY <2>4 DEF Part
    <3>2. k \in Nat
      BY <1>1, ChunksOfFile
    <3>3. ExpectedIndex(k * ChunkSize) = k
      BY <3>2, ExpectedAfter
    <3>4. QED
      BY <2>1, <3>1, <3>3
  <2>5. QED
    BY <1>1, <1>4, <2>2, <2>3, <2>4 DEF TmpWhole
<1>5. QED
  BY <1>1, <1>3, <1>4

(* A handler at its append finds the file as it saw it, or muddles it.     *)
LEMMA AppendPlaces ==
  ASSUME ContentInv, NEW r \in Requests, Append(r), share.dir, handler[r].id \notin muddled'
  PROVE  LET i == handler[r].id  f == handler[r].file IN
         /\ i \in Ids /\ owner[i] = f /\ i \notin muddled
         /\ SizeOf(i) = handler[r].index * ChunkSize
         /\ tmp'[i].there /\ tmp'[i].intact
         /\ IF IsLast(f, handler[r].index) THEN tmp'[i].size = Bytes[f] ELSE Part(f, tmp'[i].size)
<1> DEFINE i == handler[r].id  f == handler[r].file  from == handler[r].index * ChunkSize
           length == ChunkLength(f, handler[r].index)
<1>1. Runs(r) /\ handler[r].pc = "append"
  BY DEF Append, Runs, Idle
<1>2. /\ f \in Files /\ i \in Ids /\ handler[r].index \in Nat /\ owner[i] = f /\ TypeOK /\ i # NoId
      /\ handler[r].index < Chunks(f)
  <2>1. handler[r].pc \in Writing
    BY <1>1 DEF Writing
  <2>2. i \in Ids /\ TypeOK
    BY <1>1, <2>1, ContentTypes
  <2>3. i # NoId
    BY <2>2 DEF Ids, NoId
  <2>4. QED
    BY <1>1, <2>2, <2>3, ContentTypes
<1>3. i \notin muddled /\ SizeOf(i) = handler[r].size
  BY <1>1 DEF Append
<1>4. SizeOf(i) = from
  BY <1>1, <1>3 DEF ContentInv, Contents, HandlersGood, AppendGood
<1>5. tmp' = [tmp EXCEPT ![i] = Appended(@, from, length)]
  BY <1>1 DEF Append
<1>6. tmp'[i] = Appended(tmp[i], from, length)
  BY <1>2, <1>5 DEF TypeOK
<1>7. tmp[i].intact /\ tmp[i].size = from
  <2>1. CASE tmp[i].there
    <3>1. TmpWhole(i)
      BY <1>2, <1>3, <2>1 DEF ContentInv, Contents, TmpKept
    <3>2. QED
      BY <1>2, <1>4, <2>1, <3>1 DEF TmpWhole, SizeOf
  <2>2. CASE ~tmp[i].there
    <3>1. tmp[i] = NoFile
      BY <1>2, <2>2 DEF ContentInv, Contents, TmpKept
    <3>2. QED
      BY <1>4, <2>2, <3>1 DEF NoFile, SizeOf
  <2>3. QED
    BY <2>1, <2>2
<1>8. tmp'[i].there /\ tmp'[i].intact /\ tmp'[i].size = from + length
  <2> HIDE DEF from, length
  <2>1. /\ tmp'[i].there = TRUE /\ tmp'[i].intact = (tmp[i].intact /\ tmp[i].size = from)
        /\ tmp'[i].size = tmp[i].size + length
    BY <1>6 DEF Appended
  <2>2. QED
    BY <1>7, <2>1
<1>9. IF IsLast(f, handler[r].index) THEN from + length = Bytes[f] ELSE Part(f, from + length)
  BY <1>2, ChunkAdds DEF Part
<1>10. QED
  BY <1>2, <1>3, <1>4, <1>8, <1>9

(* An append into the directory.                                           *)
LEMMA AppendKeepsContents ==
  ASSUME ContentInv, NEW r \in Requests, Append(r), share.dir
  PROVE  Contents'
<1> DEFINE i == handler[r].id  f == handler[r].file
<1>1. /\ Runs(r) /\ handler[r].pc = "append" /\ handler[r].pc \in Writing
      /\ UNCHANGED <<disk, share, rows, mislabeled, owner>>
  BY DEF Append, Runs, Idle, Writing
<1>2. i \in Ids /\ f \in Files /\ owner[i] = f /\ TypeOK
  <2>1. i # NoId
    BY <1>1, ContentTypes DEF Ids, NoId
  <2>2. QED
    BY <1>1, <2>1, ContentTypes
<1>3. /\ tmp'[i].there /\ \A j \in Ids : j # i => tmp'[j] = tmp[j]
      /\ muddled \subseteq muddled'
  BY <1>1, <1>2 DEF Append, TypeOK, Appended
<1>4. ASSUME NEW j \in Ids, j = i, j \notin muddled' PROVE TmpWhole(j)'
  <2>1. /\ owner[j] = f /\ tmp'[j].intact
        /\ IF IsLast(f, handler[r].index) THEN tmp'[j].size = Bytes[f] ELSE Part(f, tmp'[j].size)
    BY <1>4, AppendPlaces
  <2>2. owner'[j] = f /\ (tmp'[j].size = Bytes[owner'[j]] \/ Part(f, tmp'[j].size))
    BY <1>1, <2>1
  <2>3. QED
    BY <1>2, <2>1, <2>2 DEF TmpWhole, Part
<1>5. TmpKept'
  <2>1. ASSUME NEW j \in Ids, j # i, tmp[j].there, j \notin muddled' PROVE TmpWhole(j)'
    <3>1. TmpWhole(j) /\ owner'[j] = owner[j] /\ tmp'[j] = tmp[j]
      BY <1>1, <1>3, <2>1 DEF ContentInv, Contents, TmpKept
    <3>2. QED
      BY <3>1 DEF TmpWhole, Part
  <2>2. QED
    BY <1>1, <1>3, <1>4, <2>1 DEF ContentInv, Contents, TmpKept
<1>6. DiskKept' /\ RowKept'
  BY <1>1, <1>3 DEF ContentInv, Contents, DiskKept, RowKept
<1>7. /\ \A q \in Requests : q # r => handler'[q] = handler[q]
      /\ \/ handler'[r] = Idle
         \/ /\ handler'[r].pc = "move" /\ handler'[r].id = i /\ handler'[r].file = f
            /\ IsLast(f, handler[r].index)
  BY <1>1, <1>2, ContentTypes DEF Append, Fail, Succeed, Answer, TypeOK, Running
<1>8. ASSUME i \notin muddled', Chunks(f) > 1, NEW q \in Requests, q # r,
             Runs(q), handler[q].pc = "move", handler[q].id = i
      PROVE  FALSE
  <2>1. MoveGood(q) /\ handler[q].file = f
    BY <1>2, <1>8, ContentTypes DEF ContentInv, Contents, HandlersGood, Ids, NoId
  <2>2. tmp[i].there /\ tmp[i].size = Bytes[f]
    BY <1>1, <1>3, <1>8, <2>1 DEF MoveGood
  <2>3. SizeOf(i) = handler[r].index * ChunkSize /\ i # NoId
    BY <1>1, <1>8, AppendPlaces DEF Ids, NoId
  <2>4. handler[r].index \in Nat /\ handler[r].index < Chunks(f)
    BY <1>1, ContentTypes
  <2>5. Chunks(f) = 1
    BY <1>2, <2>2, <2>3, <2>4, NotAtEnd DEF SizeOf
  <2>6. QED
    BY <1>8, <2>5
<1>9. ASSUME NEW q \in Requests, Runs(q)', handler'[q].pc = "move" PROVE MoveGood(q)'
  <2>1. CASE q = r
    <3>1. handler'[r].id = i /\ handler'[r].file = f /\ IsLast(f, handler[r].index)
      BY <1>7, <1>9, <2>1 DEF Runs
    <3>2. ASSUME i \notin muddled' PROVE tmp'[i].there /\ tmp'[i].size = Bytes[f]
      BY <3>1, <3>2, <1>1, AppendPlaces
    <3>3. ASSUME i \notin muddled', Chunks(f) > 1, NEW p \in Requests, Runs(p)',
                 handler'[p].pc = "move", handler'[p].id = i
          PROVE  p = r
      BY <3>3, <1>7, <1>8 DEF Runs
    <3>4. QED
      BY <2>1, <3>1, <3>2, <3>3 DEF MoveGood, Chunks
  <2>2. CASE q # r
    <3>1. handler'[q] = handler[q] /\ Runs(q) /\ MoveGood(q)
      BY <1>7, <1>9, <2>2 DEF Runs, ContentInv, Contents, HandlersGood
    <3>2. handler[q].id \in Ids /\ owner[handler[q].id] = handler[q].file
      <4>1. handler[q].id \in Ids
        BY <1>9, <3>1, ContentTypes DEF Writing
      <4>2. handler[q].id # NoId
        BY <4>1 DEF Ids, NoId
      <4>3. QED
        BY <3>1, <4>1, <4>2, ContentTypes
    <3>3. CASE handler[q].id = i
      <4>1. i \in muddled' \/ ~(Chunks(f) > 1)
        BY <1>8, <1>9, <2>2, <3>1, <3>3
      <4>2. handler'[q].id = i /\ handler'[q].file = f
        BY <1>2, <3>1, <3>2, <3>3
      <4>3. QED
        BY <4>1, <4>2 DEF MoveGood, Chunks
    <3>4. CASE handler[q].id # i
      <4>1. tmp'[handler[q].id] = tmp[handler[q].id]
        BY <1>3, <3>2, <3>4
      <4>2. \A p \in Requests : Runs(p)' /\ handler'[p].id = handler[q].id =>
              Runs(p) /\ handler'[p] = handler[p]
        BY <1>7, <3>4 DEF Runs
      <4>3. QED
        BY <1>1, <1>3, <3>1, <4>1, <4>2 DEF MoveGood, Chunks
    <3>5. QED
      BY <3>3, <3>4
  <2>3. QED
    BY <2>1, <2>2
<1>10. ASSUME NEW q \in Requests, Runs(q)', handler'[q].pc \in {"append", "record"}
       PROVE  Runs(q) /\ handler'[q] = handler[q]
  BY <1>7, <1>10 DEF Runs
<1>11. HandlersGood'
  <2>1. ASSUME NEW q \in Requests, Runs(q)', handler'[q].pc = "append" PROVE AppendGood(q)'
    BY <1>3, <1>10, <2>1 DEF ContentInv, Contents, HandlersGood, AppendGood
  <2>2. ASSUME NEW q \in Requests, Runs(q)', handler'[q].pc = "record" PROVE RecordGood(q)'
    BY <1>1, <1>3, <1>10, <2>2 DEF ContentInv, Contents, HandlersGood, RecordGood
  <2>3. QED
    BY <1>9, <2>1, <2>2 DEF HandlersGood
<1>12. QED
  BY <1>5, <1>6, <1>11 DEF Contents

(* The rename of a temporary file.                                         *)
LEMMA MoveKeepsContents ==
  ASSUME ContentInv, NEW r \in Requests, Move(r), tmp[handler[r].id].there
  PROVE  Contents'
<1> DEFINE i == handler[r].id  f == handler[r].file
<1>1. /\ Runs(r) /\ handler[r].pc = "move" /\ handler[r].pc \in Writing
      /\ UNCHANGED <<share, rows, mislabeled, owner, muddled>>
  BY DEF Move, Runs, Idle, Writing, histVars
<1>2. i \in Ids /\ f \in Files /\ owner[i] = f /\ TypeOK
  <2>1. i # NoId
    BY <1>1, ContentTypes DEF Ids, NoId
  <2>2. QED
    BY <1>1, <2>1, ContentTypes
<1>3. /\ disk'[i] = tmp[i] /\ tmp'[i] = NoFile
      /\ \A j \in Ids : j # i => disk'[j] = disk[j] /\ tmp'[j] = tmp[j]
      /\ handler'[r].pc = "check" /\ \A q \in Requests : q # r => handler'[q] = handler[q]
  BY <1>1, <1>2, ContentTypes DEF Move, TypeOK, Running
<1>4. share.dir /\ (i \notin muddled => TmpWhole(i) /\ tmp[i].size = Bytes[f])
  <2>1. share.dir /\ (i \notin muddled => TmpWhole(i))
    BY <1>2 DEF ContentInv, Contents, TmpKept
  <2>2. ASSUME i \notin muddled, Chunks(f) > 1 PROVE tmp[i].size = Bytes[f]
    BY <1>1, <2>1, <2>2 DEF ContentInv, Contents, HandlersGood, MoveGood
  <2>3. ASSUME i \notin muddled, ~(Chunks(f) > 1) PROVE tmp[i].size = Bytes[f]
    <3>1. Chunks(f) = 1
      BY <1>2, <2>3, ChunksOfFile
    <3>2. ~Part(f, tmp[i].size)
      BY <3>1 DEF Part
    <3>3. QED
      BY <1>2, <2>1, <2>3, <3>2 DEF TmpWhole
  <2>4. QED
    BY <2>1, <2>2, <2>3
<1>5. TmpKept'
  <2>1. ASSUME NEW j \in Ids, j # i, tmp[j].there, j \notin muddled PROVE TmpWhole(j)'
    <3>1. TmpWhole(j) /\ owner'[j] = owner[j] /\ tmp'[j] = tmp[j]
      BY <1>1, <1>3, <2>1 DEF ContentInv, Contents, TmpKept
    <3>2. QED
      BY <3>1 DEF TmpWhole, Part
  <2>2. QED
    BY <1>1, <1>3, <2>1 DEF ContentInv, Contents, TmpKept, NoFile
<1>6. DiskKept' /\ RowKept'
  BY <1>1, <1>2, <1>3, <1>4 DEF ContentInv, Contents, DiskKept, RowKept, TmpWhole
<1>7. ASSUME NEW q \in Requests, Runs(q)', handler'[q].pc \in {"append", "move", "record"}
      PROVE  q # r /\ Runs(q) /\ handler'[q] = handler[q] /\ handler[q].id \in Ids
             /\ owner[handler[q].id] = handler[q].file
  <2>1. q # r /\ Runs(q) /\ handler'[q] = handler[q]
    BY <1>3, <1>7 DEF Runs
  <2>2. handler[q].id \in Ids
    BY <1>7, <2>1, ContentTypes DEF Writing
  <2>3. handler[q].id # NoId
    BY <2>2 DEF Ids, NoId
  <2>4. QED
    BY <2>1, <2>2, <2>3, ContentTypes
<1>8. ASSUME NEW q \in Requests, Runs(q)', handler'[q].pc = "move" PROVE MoveGood(q)'
  <2>1. MoveGood(q) /\ MoveGood(r) /\ q # r /\ handler'[q] = handler[q]
    BY <1>1, <1>7, <1>8 DEF ContentInv, Contents, HandlersGood
  <2>2. CASE handler[q].id = i
    <3>1. handler[q].file = f
      BY <1>2, <1>7, <1>8, <2>2
    <3>2. i \in muddled \/ ~(Chunks(f) > 1)
      BY <1>1, <1>4, <1>7, <1>8, <2>1, <2>2 DEF MoveGood
    <3>3. QED
      BY <1>1, <2>1, <2>2, <3>1, <3>2 DEF MoveGood, Chunks
  <2>3. CASE handler[q].id # i
    <3>1. tmp'[handler[q].id] = tmp[handler[q].id]
      BY <1>3, <1>7, <1>8, <2>3
    <3>2. \A p \in Requests : Runs(p)' /\ handler'[p].pc = "move" =>
            Runs(p) /\ handler'[p] = handler[p]
      BY <1>7
    <3>3. QED
      BY <1>1, <2>1, <3>1, <3>2 DEF MoveGood, Chunks
  <2>4. QED
    BY <2>2, <2>3
<1>9. HandlersGood'
  <2>1. ASSUME NEW q \in Requests, Runs(q)', handler'[q].pc = "append" PROVE AppendGood(q)'
    BY <1>1, <1>7, <2>1 DEF ContentInv, Contents, HandlersGood, AppendGood
  <2>2. ASSUME NEW q \in Requests, Runs(q)', handler'[q].pc = "record" PROVE RecordGood(q)'
    BY <1>1, <1>3, <1>7, <2>2 DEF ContentInv, Contents, HandlersGood, RecordGood
  <2>3. QED
    BY <1>8, <2>1, <2>2 DEF HandlersGood
<1>10. QED
  BY <1>5, <1>6, <1>9 DEF Contents

(* The check of a mislabeled file unlinks it, and nobody records it.       *)
LEMMA UnlinkKeepsContents ==
  ASSUME ContentInv, NEW r \in Requests, Check(r), handler[r].file \in mislabeled,
         disk[handler[r].id].there
  PROVE  Contents'
<1> DEFINE i == handler[r].id
<1>1. /\ Runs(r) /\ handler[r].pc = "check" /\ handler[r].pc \in Writing /\ Fail(r)
      /\ UNCHANGED <<share, rows, tmp, mislabeled, owner, muddled>>
      /\ disk' = [disk EXCEPT ![i] = NoFile]
  BY DEF Check, Runs, Idle, Writing, histVars
<1>2. i \in Ids /\ owner[i] = handler[r].file /\ TypeOK
  <2>1. i # NoId
    BY <1>1, ContentTypes DEF Ids, NoId
  <2>2. QED
    BY <1>1, <2>1, ContentTypes
<1>3. ~disk'[i].there /\ \A j \in Ids : j # i => disk'[j] = disk[j]
  BY <1>1, <1>2 DEF TypeOK, NoFile
<1>4. \A q \in Requests : Runs(q)' => Runs(q) /\ handler'[q] = handler[q]
  BY <1>1, <1>2 DEF Fail, Answer, Runs, TypeOK
<1>5. TmpKept'
  <2>1. ASSUME NEW j \in Ids, tmp[j].there, j \notin muddled PROVE TmpWhole(j)'
    BY <1>1, <2>1 DEF ContentInv, Contents, TmpKept, TmpWhole, Part
  <2>2. QED
    BY <1>1, <2>1 DEF ContentInv, Contents, TmpKept
<1>6. DiskKept'
  BY <1>1, <1>3 DEF ContentInv, Contents, DiskKept
<1>7. RowKept'
  BY <1>1, <1>2, <1>3 DEF ContentInv, Contents, RowKept
<1>8. ASSUME NEW q \in Requests, Runs(q)', handler'[q].pc = "append" PROVE AppendGood(q)'
  BY <1>1, <1>4, <1>8 DEF ContentInv, Contents, HandlersGood, AppendGood
<1>9. ASSUME NEW q \in Requests, Runs(q)', handler'[q].pc = "move" PROVE MoveGood(q)'
  <2>1. MoveGood(q) /\ handler'[q] = handler[q]
    BY <1>4, <1>9 DEF ContentInv, Contents, HandlersGood
  <2>2. QED
    BY <1>1, <1>4, <2>1 DEF MoveGood, Chunks
<1>10. ASSUME NEW q \in Requests, Runs(q)', handler'[q].pc = "record" PROVE RecordGood(q)'
  <2>1. RecordGood(q) /\ handler'[q] = handler[q] /\ Runs(q)
    BY <1>4, <1>10 DEF ContentInv, Contents, HandlersGood
  <2>2. handler[q].id \in Ids /\ handler[q].id # NoId
    BY <1>10, <2>1, ContentTypes DEF Writing, Ids, NoId
  <2>3. handler[q].id # i
    BY <1>2, <2>1, <2>2, ContentTypes DEF RecordGood
  <2>4. QED
    BY <1>1, <1>3, <2>1, <2>2, <2>3 DEF RecordGood
<1>11. HandlersGood'
  BY <1>8, <1>9, <1>10 DEF HandlersGood
<1>12. QED
  BY <1>5, <1>6, <1>7, <1>11 DEF Contents

(* Every handler ends, and what it leaves on disk is the rest.             *)
LEMMA NoHandlerNoHarm ==
  ASSUME ContentInv, UNCHANGED <<share, rows, disk, mislabeled, owner>>,
         NEW torn \in SUBSET Ids, muddled' = muddled \cup torn, torn # {} => share.dir,
         \A i \in Ids : IF i \in torn THEN tmp'[i].there ELSE tmp'[i] = tmp[i],
         \A r \in Requests : handler'[r] = Idle
  PROVE  Contents'
<1>1. TmpKept'
  <2>1. ASSUME NEW j \in Ids, tmp'[j].there, j \notin muddled' PROVE TmpWhole(j)'
    <3>1. tmp'[j] = tmp[j] /\ TmpWhole(j)
      BY <2>1 DEF ContentInv, Contents, TmpKept
    <3>2. QED
      BY <3>1 DEF TmpWhole, Part
  <2>2. QED
    BY <2>1 DEF ContentInv, Contents, TmpKept
<1>2. DiskKept' /\ RowKept'
  BY DEF ContentInv, Contents, DiskKept, RowKept
<1>3. HandlersGood'
  BY DEF HandlersGood, Runs
<1>4. QED
  BY <1>1, <1>2, <1>3 DEF Contents

(* Each step keeps what is on disk.                                        *)
LEMMA ContentStep == ContentInv /\ [Next]_vars => Contents'
<1> SUFFICES ASSUME ContentInv, [Next]_vars PROVE Contents'
  OBVIOUS
<1>t. TypeOK /\ Named /\ Owned /\ LoopInv
  BY ContentTypes
<1>s. ASSUME UNCHANGED <<handler, tmp, disk, rows, mislabeled, owner, muddled>>,
             share'.dir = share.dir
      PROVE Contents'
  <2>1. \A q \in Requests : Runs(q)' => Same(q)
    BY <1>s DEF Same, Runs
  <2>2. QED
    BY <1>s, <2>1, ContentFrame
<1>1. ASSUME NEW f \in Files, Send(f) PROVE Contents'
  <2>1. PICK r \in Requests : handler' = [handler EXCEPT ![r] =
               [pc |-> "read", file |-> f, id |-> client[f].id, index |-> client[f].index,
                live |-> TRUE, recorded |-> [i \in Ids |-> NoRow], size |-> 0]]
    BY <1>1 DEF Send
  <2>2. \A q \in Requests : Runs(q)' /\ handler'[q].pc # "read" => Same(q)
    BY <1>t, <1>1, <2>1 DEF Same, Runs, TypeOK, Send, histVars
  <2>3. QED
    BY <1>1, <2>2, ContentFrame DEF Send, diskVars, histVars
<1>2. ASSUME NEW r \in Requests, Read(r) PROVE Contents'
  <2>1. /\ Runs(r) /\ handler[r].pc = "read"
        /\ UNCHANGED <<share, rows, tmp, disk, mislabeled, owner, muddled>>
    BY <1>2 DEF Read, Idle, Runs, diskVars, histVars
  <2>2. CASE handler' = [handler EXCEPT ![r].pc = "stat", ![r].recorded = rows]
    <3>1. handler'[r].pc = "stat" /\ \A q \in Requests : q # r => handler'[q] = handler[q]
      BY <1>t, <2>1, <2>2, ContentTypes DEF TypeOK, Running
    <3>2. \A q \in Requests : Runs(q)' /\ handler'[q].pc # "stat" => Same(q)
      BY <2>1, <3>1 DEF Same, Runs
    <3>3. QED
      BY <2>1, <3>2, ContentFrame
  <2>3. CASE Fail(r)
    BY <2>1, <2>3, AnswerLeavesContents DEF Fail
  <2>4. QED
    BY <1>2, <2>2, <2>3 DEF Read
<1>3. ASSUME NEW r \in Requests, Stat(r) PROVE Contents'
  <2>1. /\ Runs(r) /\ handler[r].pc = "stat"
        /\ UNCHANGED <<share, rows, tmp, disk, mislabeled>>
    BY <1>3 DEF Stat, Idle, Runs, diskVars
  <2>2. CASE /\ UNCHANGED <<owner, muddled>>
             /\ \/ Fail(r)
                \/ Answer(r, Corrected(handler[r].file, ExpectedIndex(SizeOf(handler[r].id))))
    BY <2>1, <2>2, AnswerLeavesContents DEF Fail
  <2>3. CASE /\ handler[r].index = ExpectedIndex(SizeOf(handler[r].id))
             /\ \E i \in IF handler[r].id = NoId THEN FirstUnused ELSE {handler[r].id} :
                  /\ handler' = [handler EXCEPT ![r].pc = "append",
                                  ![r].size = SizeOf(handler[r].id), ![r].id = i]
                  /\ owner' = [owner EXCEPT ![i] = handler[r].file]
                  /\ muddled' = IF handler[r].id = NoId THEN muddled \ {i} ELSE muddled
    <3>1. PICK i \in IF handler[r].id = NoId THEN FirstUnused ELSE {handler[r].id} :
                  /\ handler' = [handler EXCEPT ![r].pc = "append",
                                  ![r].size = SizeOf(handler[r].id), ![r].id = i]
                  /\ owner' = [owner EXCEPT ![i] = handler[r].file]
                  /\ muddled' = IF handler[r].id = NoId THEN muddled \ {i} ELSE muddled
      BY <2>3
    <3>2. /\ handler'[r].pc = "append" /\ handler'[r].size = SizeOf(handler[r].id)
          /\ handler'[r].id = i /\ handler'[r].index = handler[r].index
          /\ \A q \in Requests : q # r => handler'[q] = handler[q]
      BY <1>t, <2>1, <3>1, ContentTypes DEF TypeOK, Running
    <3>3. handler[r].id \notin muddled => SizeOf(handler[r].id) = handler[r].index * ChunkSize
      BY <2>1, <2>3, StatPlaces
    <3>4. CASE handler[r].id # NoId
      <4>1. i = handler[r].id /\ i \in Ids /\ owner[i] = handler[r].file
        BY <2>1, <3>1, <3>4, ContentTypes
      <4>2. UNCHANGED <<owner, muddled>>
        BY <1>t, <3>1, <3>4, <4>1 DEF TypeOK
      <4>3. AppendGood(r)'
        BY <3>2, <3>3, <4>1, <4>2 DEF AppendGood
      <4>4. \A q \in Requests : Runs(q)' /\ q # r => Same(q)
        BY <3>2, <4>2 DEF Same, Runs
      <4>5. QED
        BY <2>1, <3>2, <4>2, <4>3, <4>4, ContentFrame
    <3>5. CASE handler[r].id = NoId
      <4>1. i \in Unused
        BY <3>1, <3>5 DEF FirstUnused
      <4>2. /\ i \in Ids /\ ~tmp[i].there /\ ~disk[i].there /\ ~rows[i].there
            /\ \A q \in Requests : Runs(q) => handler[q].id # i
        BY <4>1 DEF Unused, Runs
      <4>3. /\ muddled' = muddled \ {i} /\ \A j \in Ids : j # i => owner'[j] = owner[j]
        BY <1>t, <3>1, <3>5 DEF TypeOK
      <4>4. handler[r].id \notin muddled
        BY <1>t, <3>5 DEF TypeOK, Ids, NoId
      <4>5. AppendGood(r)'
        BY <3>2, <3>3, <4>4 DEF AppendGood
      <4>6. \A q \in Requests : Runs(q)' /\ q # r => Same(q)
        BY <3>2, <4>2, <4>3 DEF Same, Runs
      <4>7. QED
        BY <2>1, <3>2, <4>2, <4>3, <4>5, <4>6, ContentFrame
    <3>6. QED
      BY <3>4, <3>5
  <2>4. QED
    BY <1>3, <2>2, <2>3 DEF Stat
<1>4. ASSUME NEW r \in Requests, Append(r) PROVE Contents'
  <2>1. CASE share.dir
    BY <1>4, <2>1, AppendKeepsContents
  <2>2. CASE ~share.dir
    <3>1. /\ Runs(r) /\ Fail(r)
          /\ UNCHANGED <<share, rows, tmp, disk, mislabeled, owner, muddled>>
      BY <1>4, <2>2 DEF Append, Idle, Runs, diskVars
    <3>2. QED
      BY <3>1, AnswerLeavesContents DEF Fail
  <2>3. QED
    BY <2>1, <2>2
<1>5. ASSUME NEW r \in Requests, Move(r) PROVE Contents'
  <2>1. CASE tmp[handler[r].id].there
    BY <1>5, <2>1, MoveKeepsContents
  <2>2. CASE ~tmp[handler[r].id].there
    <3>1. /\ Runs(r) /\ Fail(r)
          /\ UNCHANGED <<share, rows, tmp, disk, mislabeled, owner, muddled>>
      BY <1>5, <2>2 DEF Move, Idle, Runs, diskVars, histVars
    <3>2. QED
      BY <3>1, AnswerLeavesContents DEF Fail
  <2>3. QED
    BY <2>1, <2>2
<1>6. ASSUME NEW r \in Requests, Check(r) PROVE Contents'
  <2>1. /\ Runs(r) /\ handler[r].pc = "check" /\ handler[r].pc \in Writing
        /\ UNCHANGED <<share, rows, tmp, mislabeled, owner, muddled>>
    BY <1>6 DEF Check, Idle, Runs, Writing, histVars
  <2>2. CASE Fail(r) /\ UNCHANGED disk
    BY <2>1, <2>2, AnswerLeavesContents DEF Fail
  <2>3. CASE disk[handler[r].id].there /\ handler[r].file \in mislabeled
    BY <1>6, <2>3, UnlinkKeepsContents
  <2>4. CASE /\ disk[handler[r].id].there /\ handler[r].file \notin mislabeled
             /\ handler' = [handler EXCEPT ![r].pc = "record", ![r].size = disk[handler[r].id].size]
             /\ UNCHANGED disk
    <3>1. /\ handler'[r].pc = "record" /\ handler'[r].size = disk[handler[r].id].size
          /\ handler'[r].id = handler[r].id /\ handler'[r].file = handler[r].file
          /\ \A q \in Requests : q # r => handler'[q] = handler[q]
      BY <1>t, <2>1, <2>4, ContentTypes DEF TypeOK, Running
    <3>2. handler[r].id \in Ids /\ owner[handler[r].id] = handler[r].file
      <4>1. handler[r].id \in Ids
        BY <2>1, ContentTypes
      <4>2. handler[r].id # NoId
        BY <4>1 DEF Ids, NoId
      <4>3. QED
        BY <2>1, <4>1, <4>2, ContentTypes
    <3>3. handler[r].id \notin muddled => disk[handler[r].id].size = Bytes[handler[r].file]
      BY <2>4, <3>2 DEF ContentInv, Contents, DiskKept
    <3>4. RecordGood(r)'
      BY <2>1, <2>4, <3>1, <3>3 DEF RecordGood
    <3>5. \A q \in Requests : Runs(q)' /\ q # r => Same(q)
      BY <2>1, <3>1 DEF Same, Runs
    <3>6. QED
      BY <2>1, <2>4, <3>1, <3>4, <3>5, ContentFrame
  <2>5. QED
    BY <1>6, <2>2, <2>3, <2>4 DEF Check
<1>7. ASSUME NEW r \in Requests, Record(r) PROVE Contents'
  <2>1. /\ Runs(r) /\ handler[r].pc = "record" /\ handler[r].pc \in Writing
        /\ UNCHANGED <<share, tmp, disk, mislabeled, owner, muddled>>
    BY <1>7 DEF Record, Idle, Runs, Writing, diskVars
  <2>2. CASE Fail(r) /\ UNCHANGED rows
    BY <2>1, <2>2, AnswerLeavesContents DEF Fail
  <2>3. CASE /\ rows' = [rows EXCEPT ![handler[r].id] = [there |-> TRUE, size |-> handler[r].size]]
             /\ Succeed(r)
    <3>1. handler[r].id \in Ids /\ owner[handler[r].id] = handler[r].file
      <4>1. handler[r].id \in Ids
        BY <2>1, ContentTypes
      <4>2. handler[r].id # NoId
        BY <4>1 DEF Ids, NoId
      <4>3. QED
        BY <2>1, <4>1, <4>2, ContentTypes
    <3>2. RecordGood(r) /\ handler[r].file \in Files
      BY <2>1, ContentTypes DEF ContentInv, Contents, HandlersGood
    <3>3. /\ rows'[handler[r].id].size = handler[r].size
          /\ \A j \in Ids : j # handler[r].id => rows'[j] = rows[j]
      BY <1>t, <2>3, <3>1 DEF TypeOK
    <3>4. RowKept'
      BY <2>1, <3>1, <3>2, <3>3 DEF RecordGood, ContentInv, Contents, RowKept
    <3>5. QED
      BY <2>1, <2>3, <3>4, AnswerLeavesContents DEF Succeed
  <2>4. QED
    BY <1>7, <2>2, <2>3 DEF Record
<1>8. ASSUME NEW f \in Files, SendFails(f) PROVE Contents'
  BY <1>8, <1>s DEF SendFails, diskVars, histVars
<1>9. ASSUME NEW r \in Requests, LoseAnswer(r) PROVE Contents'
  <2>1. /\ Runs(r) /\ handler' = [handler EXCEPT ![r].live = FALSE]
        /\ UNCHANGED <<share, rows, tmp, disk, mislabeled, owner, muddled>>
    BY <1>9 DEF LoseAnswer, Runs, diskVars
  <2>2. /\ handler'[r].pc = handler[r].pc /\ handler'[r].id = handler[r].id
        /\ handler'[r].index = handler[r].index /\ handler'[r].size = handler[r].size
        /\ handler'[r].file = handler[r].file
        /\ \A q \in Requests : q # r => handler'[q] = handler[q]
    BY <1>t, <2>1, ContentTypes DEF TypeOK, Running
  <2>3. \A q \in Requests : Runs(q)' => Same(q)
    BY <2>1, <2>2 DEF Same, Runs
  <2>4. QED
    BY <2>1, <2>3, ContentFrame
<1>10. ASSUME Restart PROVE Contents'
  <2>1. /\ UNCHANGED <<share, rows, tmp, disk, mislabeled, owner, muddled>>
        /\ \A r \in Requests : handler'[r] = Idle
    BY <1>10 DEF Restart, AllHandlersEnd, diskVars
  <2>2. /\ muddled' = muddled \cup {} /\ {} \in SUBSET Ids
        /\ \A i \in Ids : IF i \in {} THEN tmp'[i].there ELSE tmp'[i] = tmp[i]
    BY <2>1
  <2>3. QED
    BY <2>1, <2>2, NoHandlerNoHarm
<1>11. ASSUME NEW r \in Requests, RestartTears(r) PROVE Contents'
  <2>1. /\ UNCHANGED <<share, rows, disk, mislabeled, owner>> /\ share.dir
        /\ Runs(r) /\ handler[r].pc = "append" /\ muddled' = muddled \cup {handler[r].id}
        /\ \A q \in Requests : handler'[q] = Idle
    BY <1>11 DEF RestartTears, AllHandlersEnd, Runs, Idle
  <2>2. handler[r].id \in Ids
    BY <2>1, ContentTypes DEF Writing
  <2>3. \A i \in Ids : IF i \in {handler[r].id} THEN tmp'[i].there ELSE tmp'[i] = tmp[i]
    BY <1>t, <1>11, <2>2 DEF RestartTears, TypeOK, Appended
  <2>4. QED
    BY <2>1, <2>2, <2>3, NoHandlerNoHarm
<1>12. ASSUME NEW i \in Ids, DeleteTemporary(i) PROVE Contents'
  <2>1. /\ UNCHANGED <<handler, share, rows, disk, mislabeled, owner, muddled>>
        /\ \A r \in Requests : Runs(r) => handler[r].id # i
        /\ tmp'[i] = NoFile /\ \A j \in Ids : j # i => tmp'[j] = tmp[j]
    BY <1>t, <1>12 DEF DeleteTemporary, TypeOK, Runs, histVars
  <2>2. TmpKept'
    <3>1. ASSUME NEW j \in Ids, j # i, tmp[j].there, j \notin muddled PROVE TmpWhole(j)'
      BY <2>1, <3>1 DEF ContentInv, Contents, TmpKept, TmpWhole, Part
    <3>2. QED
      BY <2>1, <3>1 DEF ContentInv, Contents, TmpKept, NoFile
  <2>3. DiskKept' /\ RowKept'
    BY <2>1 DEF ContentInv, Contents, DiskKept, RowKept
  <2>4. ASSUME NEW r \in Requests, Runs(r)
        PROVE  /\ handler[r].pc = "append" => AppendGood(r)'
               /\ handler[r].pc = "move" => MoveGood(r)'
               /\ handler[r].pc = "record" => RecordGood(r)'
    <3>1. CASE handler[r].pc = "append"
      BY <2>1, <2>4, <3>1 DEF ContentInv, Contents, HandlersGood, AppendGood
    <3>2. CASE handler[r].pc = "move"
      <4>1. handler[r].id \in Ids /\ handler[r].id # i /\ MoveGood(r)
        BY <2>1, <2>4, <3>2, ContentTypes DEF ContentInv, Contents, HandlersGood, Writing
      <4>2. QED
        BY <2>1, <3>2, <4>1 DEF MoveGood, Runs, Chunks
    <3>3. CASE handler[r].pc = "record"
      BY <2>1, <2>4, <3>3 DEF ContentInv, Contents, HandlersGood, RecordGood
    <3>4. QED
      BY <3>1, <3>2, <3>3
  <2>5. HandlersGood'
    BY <2>1, <2>4 DEF HandlersGood, Runs
  <2>6. QED
    BY <2>2, <2>3, <2>5 DEF Contents
<1>13. ASSUME Complete \/ RevertComplete PROVE Contents'
  <2>1. /\ UNCHANGED <<handler, tmp, disk, rows, mislabeled, owner, muddled>>
        /\ share'.dir = share.dir
    BY <1>t, <1>13 DEF Complete, RevertComplete, TypeOK, diskVars, histVars
  <2>2. QED
    BY <1>s, <2>1
<1>14. ASSUME RemoveFiles PROVE Contents'
  <2>1. /\ UNCHANGED <<handler, rows, mislabeled, owner, muddled>> /\ ~share'.dir
        /\ \A i \in Ids : tmp'[i] = NoFile /\ disk'[i] = NoFile
    BY <1>t, <1>14 DEF RemoveFiles, TypeOK, histVars
  <2>2. TmpKept' /\ DiskKept' /\ RowKept'
    BY <2>1 DEF ContentInv, Contents, TmpKept, DiskKept, RowKept, NoFile
  <2>3. HandlersGood'
    BY <2>1 DEF ContentInv, Contents, HandlersGood, AppendGood, MoveGood, RecordGood, Runs
  <2>4. QED
    BY <2>2, <2>3 DEF Contents
<1>15. ASSUME RemoveRow PROVE Contents'
  <2>1. /\ UNCHANGED <<handler, tmp, disk, mislabeled, owner, muddled>>
        /\ share'.dir = share.dir /\ \A i \in Ids : ~rows'[i].there
    BY <1>t, <1>15 DEF RemoveRow, TypeOK, diskVars, histVars, NoRow
  <2>2. RowKept'
    BY <2>1 DEF RowKept
  <2>3. \A q \in Requests : Runs(q)' => Same(q)
    BY <2>1 DEF Same, Runs
  <2>4. QED
    BY <2>1, <2>2, <2>3, ContentFrame
<1>16. QED
  BY <1>s, <1>1, <1>2, <1>3, <1>4, <1>5, <1>6, <1>7, <1>8, <1>9, <1>10, <1>11, <1>12, <1>13,
     <1>14, <1>15 DEF Next, HandlerStep, AllEnded, vars, diskVars, histVars

LEMMA ContentInit == Init => ContentInv
<1> SUFFICES ASSUME Init PROVE ContentInv
  OBVIOUS
<1>1. /\ \A f \in Files : client[f].id = NoId /\ client[f].pc = "send" /\ client[f].index = 0
      /\ \A r \in Requests : handler[r] = Idle
      /\ \A i \in Ids : tmp[i] = NoFile /\ disk[i] = NoFile /\ rows[i] = NoRow
  BY DEF Init, StartOfLoop
<1>2. RecordInv
  BY <1>1, TypeInit DEF RecordInv, Owned, DoneIsRecorded
<1>3. \A f \in Files : Chunks(f) \in Nat \ {0}
  BY ChunksOfFile
<1>4. Paced /\ Awaited
  BY <1>1, <1>3 DEF Paced, Awaited, Waited, AtMostOne, Abandoned, SameNames, Runs
<1>5. Contents
  BY <1>1 DEF Contents, TmpKept, DiskKept, RowKept, HandlersGood, NoFile, NoRow, Runs
<1>6. QED
  BY <1>2, <1>4, <1>5 DEF ContentInv

LEMMA ContentInvStep == ContentInv /\ [Next]_vars => ContentInv'
<1> SUFFICES ASSUME ContentInv, [Next]_vars PROVE ContentInv'
  OBVIOUS
<1>1. TypeOK /\ Named /\ LoopInv /\ RecordInv
  BY ContentTypes DEF ContentInv
<1>2. QED
  BY <1>1, TypeStep, RecordStep, LoopStep, ContentStep DEF ContentInv, RecordInv

(* The file behind a record is the whole file of the client, of the size   *)
(* recorded, unless a chunk of it was appended twice, out of place or in   *)
(* part: whatever the files, the chunks and the retries.                   *)
THEOREM RecordsAreWhole == Spec => []RecordedWhole
<1>1. ContentInv => RecordedWhole
  BY DEF ContentInv, Contents, RowKept, DiskKept, RecordedWhole
<1>2. QED
  BY <1>1, ContentInit, ContentInvStep, PTL DEF Spec

----------------------------------------------------------------------------
(* What a client that has heard every answer can rely on.                  *)

MuddledUnheard == \A i \in muddled : owner[i] \in unheard
Steady == \A r \in Requests :
  Runs(r) /\ handler[r].pc = "append" /\ share.dir /\ handler[r].file \notin unheard =>
    SizeOf(handler[r].id) = handler[r].size
MovedNext(i) == \E r \in Requests : Runs(r) /\ handler[r].pc = "move" /\ handler[r].id = i
Expecting == \A i \in Ids : tmp[i].there /\ owner[i] \notin unheard =>
  ExpectedIndex(tmp[i].size) < Chunks(owner[i]) \/ MovedNext(i)
Heard == MuddledUnheard /\ Steady /\ Expecting /\ StoppedOnlyUnheard

(* A file is recorded once, under the identifier its client holds.         *)
Once == \A i \in Ids : rows[i].there =>
  /\ owner[i] \notin unheard => client[owner[i]].pc = "done"
  /\ owner[i] \notin unheard \/ Chunks(owner[i]) > 1 => client[owner[i]].id = i

HeardInv == ContentInv /\ Heard /\ Once

(* The handlers of a file whose client has heard every answer are one.     *)
LEMMA OneHandler ==
  ASSUME ContentInv, NEW q \in Requests, NEW r \in Requests, Runs(q), Runs(r),
         handler[r].file \notin unheard,
         handler[q].file = handler[r].file \/ (handler[q].id = handler[r].id /\ handler[q].id # NoId)
  PROVE  q = r /\ handler[r].live
<1>1. handler[q].file = handler[r].file
  BY ContentTypes
<1>2. handler[q].live /\ handler[r].live
  BY <1>1 DEF ContentInv, Awaited, Abandoned
<1>3. QED
  BY <1>1, <1>2 DEF ContentInv, Awaited, AtMostOne

(* A step that leaves the temporary files.                                 *)
LEMMA HeardFrame ==
  ASSUME HeardInv, UNCHANGED tmp, share'.dir = share.dir, unheard \subseteq unheard',
         \A i \in Ids : tmp[i].there => owner'[i] = owner[i],
         \A i \in muddled' : (i \in muddled /\ owner'[i] = owner[i]) \/ owner'[i] \in unheard',
         \A q \in Requests : Runs(q)' /\ handler'[q].pc = "append" =>
            \/ Same(q)
            \/ SizeOf(handler'[q].id) = handler'[q].size,
         \A q \in Requests : Runs(q) /\ handler[q].pc = "move" =>
            \/ Runs(q)' /\ handler'[q].pc = "move" /\ handler'[q].id = handler[q].id
            \/ handler[q].id \in Ids /\ ~tmp[handler[q].id].there
            \/ handler[q].file \in unheard',
         \A f \in Files : client'[f].pc = "stopped" => client[f].pc = "stopped" \/ f \in unheard'
  PROVE  Heard'
<1>1. MuddledUnheard'
  BY DEF HeardInv, Heard, MuddledUnheard
<1>2. ASSUME NEW q \in Requests, Runs(q)', handler'[q].pc = "append", share'.dir,
             handler'[q].file \notin unheard'
      PROVE  SizeOf(handler[q].id)' = handler'[q].size
  <2>1. SizeOf(handler'[q].id) = handler'[q].size
    BY <1>2 DEF HeardInv, Heard, Steady, Same
  <2>2. QED
    BY <2>1 DEF SizeOf
<1>4. Steady'
  BY <1>2 DEF Steady
<1>5. ASSUME NEW i \in Ids, tmp'[i].there, owner'[i] \notin unheard'
      PROVE  ExpectedIndex(tmp'[i].size) < Chunks(owner'[i]) \/ MovedNext(i)'
  <2>1. tmp[i].there /\ owner[i] \notin unheard' /\ owner[i] \notin unheard /\ owner'[i] = owner[i]
    BY <1>5
  <2>2. CASE ExpectedIndex(tmp[i].size) < Chunks(owner[i])
    BY <2>1, <2>2
  <2>3. CASE MovedNext(i)
    <3>1. PICK q \in Requests : Runs(q) /\ handler[q].pc = "move" /\ handler[q].id = i
      BY <2>3 DEF MovedNext
    <3>2. handler[q].file = owner[i]
      BY <3>1, ContentTypes DEF HeardInv, Ids, NoId
    <3>3. Runs(q)' /\ handler'[q].pc = "move" /\ handler'[q].id = i
      BY <2>1, <3>1, <3>2
    <3>4. QED
      BY <3>3 DEF MovedNext
  <2>4. QED
    BY <2>1, <2>2, <2>3 DEF HeardInv, Heard, Expecting
<1>6. Expecting'
  BY <1>5 DEF Expecting, ExpectedIndex, CeilDiv, Chunks
<1>7. StoppedOnlyUnheard'
  BY DEF HeardInv, Heard, StoppedOnlyUnheard
<1>8. QED
  BY <1>1, <1>4, <1>6, <1>7 DEF Heard

LEMMA AnswerIsHeard ==
  ASSUME HeardInv, NEW r \in Requests, Runs(r), NEW heard, Answer(r, heard),
         UNCHANGED <<tmp, owner, muddled, unheard>>, share'.dir = share.dir,
         heard.pc = "stopped" => handler[r].file \in unheard \/ ~handler[r].live,
         handler[r].pc = "move" => handler[r].id \in Ids /\ ~tmp[handler[r].id].there
  PROVE  Heard'
<1>1. handler[r].file \in Files /\ TypeOK
  BY ContentTypes DEF HeardInv
<1>2. handler'[r] = Idle /\ \A q \in Requests : q # r => handler'[q] = handler[q]
  BY <1>1 DEF Answer, TypeOK
<1>3. \A f \in Files : \/ client'[f] = client[f]
                       \/ handler[r].live /\ f = handler[r].file /\ client'[f] = heard
  BY <1>1 DEF Answer, TypeOK
<1>4. \A q \in Requests : Runs(q)' /\ handler'[q].pc = "append" => Same(q)
  BY <1>2 DEF Same, Runs
<1>5. \A q \in Requests : Runs(q) /\ handler[q].pc = "move" =>
        \/ Runs(q)' /\ handler'[q].pc = "move" /\ handler'[q].id = handler[q].id
        \/ handler[q].id \in Ids /\ ~tmp[handler[q].id].there
  BY <1>2 DEF Runs
<1>6. \A f \in Files : client'[f].pc = "stopped" => client[f].pc = "stopped" \/ f \in unheard'
  BY <1>3
<1>7. \A i \in muddled' : i \in muddled /\ owner'[i] = owner[i]
  OBVIOUS
<1>8. QED
  BY <1>4, <1>5, <1>6, <1>7, HeardFrame

(* A handler is corrected to a chunk that is not there only after an       *)
(* answer was lost.                                                        *)
LEMMA CorrectedToAChunk ==
  ASSUME HeardInv, NEW r \in Requests, Runs(r), handler[r].pc = "stat",
         handler[r].file \notin unheard
  PROVE  ExpectedIndex(SizeOf(handler[r].id)) < Chunks(handler[r].file)
<1>1. /\ handler[r].file \in Files /\ handler[r].id \in Ids \cup {NoId}
      /\ handler[r].id # NoId => owner[handler[r].id] = handler[r].file
  BY ContentTypes DEF HeardInv
<1>2. CASE handler[r].id = NoId \/ ~tmp[handler[r].id].there
  <2>1. SizeOf(handler[r].id) = 0 * ChunkSize
    BY <1>2, LimitsAssumption DEF SizeOf
  <2>2. ExpectedIndex(0 * ChunkSize) = 0
    BY ExpectedAfter
  <2>3. QED
    BY <1>1, <2>1, <2>2, ChunksOfFile
<1>3. CASE handler[r].id # NoId /\ tmp[handler[r].id].there
  <2>1. PICK i \in Ids : i = handler[r].id
    BY <1>1, <1>3
  <2>2. SizeOf(i) = tmp[i].size
    BY <1>3, <2>1 DEF SizeOf
  <2>3. ~MovedNext(i)
    <3> SUFFICES ASSUME MovedNext(i) PROVE FALSE
      OBVIOUS
    <3>1. PICK q \in Requests : Runs(q) /\ handler[q].pc = "move" /\ handler[q].id = i
      BY DEF MovedNext
    <3>2. q = r
      BY <1>3, <2>1, <3>1, OneHandler DEF HeardInv
    <3>3. QED
      BY <3>1, <3>2
  <2>4. ExpectedIndex(tmp[i].size) < Chunks(owner[i])
    BY <1>1, <1>3, <2>1, <2>3 DEF HeardInv, Heard, Expecting
  <2>5. QED
    BY <1>1, <1>3, <2>1, <2>2, <2>4
<1>4. QED
  BY <1>2, <1>3

LEMMA AppendIsHeard ==
  ASSUME HeardInv, NEW r \in Requests, Append(r), share.dir
  PROVE  Heard'
<1>1. /\ Runs(r) /\ handler[r].pc = "append" /\ handler[r].pc \in Writing
      /\ UNCHANGED <<share, unheard, owner>> /\ ContentInv /\ TypeOK
  BY ContentTypes DEF Append, Runs, Idle, Writing, HeardInv
<1>2. PICK i \in Ids : i = handler[r].id
  BY <1>1, ContentTypes
<1>3. PICK f \in Files : f = handler[r].file /\ owner[i] = f
  BY <1>1, <1>2, ContentTypes DEF Ids, NoId
<1>4. \A j \in Ids : j # i => tmp'[j] = tmp[j]
  BY <1>1, <1>2 DEF Append, TypeOK
<1>5. muddled' = IF SizeOf(i) # handler[r].size THEN muddled \cup {i} ELSE muddled
  BY <1>1, <1>2 DEF Append
<1>6. MuddledUnheard'
  <2>1. i \in muddled' => f \in unheard
    BY <1>1, <1>2, <1>3, <1>5 DEF HeardInv, Heard, MuddledUnheard, Steady
  <2>2. QED
    BY <1>1, <1>3, <1>5, <2>1 DEF HeardInv, Heard, MuddledUnheard
<1>7. /\ \A q \in Requests : q # r => handler'[q] = handler[q]
      /\ IF IsLast(f, handler[r].index)
         THEN /\ handler'[r].pc = "move" /\ handler'[r].id = i /\ handler'[r] # Idle
              /\ UNCHANGED client
         ELSE handler'[r] = Idle /\ Succeed(r)
  <2>1. handler[r] \in Running
    BY <1>1, ContentTypes
  <2>2. IF IsLast(f, handler[r].index)
        THEN handler' = [handler EXCEPT ![r].pc = "move"] /\ UNCHANGED client
        ELSE Succeed(r)
    BY <1>1, <1>3 DEF Append
  <2>3. CASE IsLast(f, handler[r].index)
    <3>1. handler'[r] = [handler[r] EXCEPT !.pc = "move"]
      BY <1>1, <2>2, <2>3 DEF TypeOK
    <3>2. handler'[r].pc = "move" /\ handler'[r].id = i
      BY <1>2, <2>1, <3>1 DEF Running
    <3>3. QED
      BY <1>1, <2>2, <2>3, <3>2 DEF TypeOK, Idle
  <2>4. CASE ~IsLast(f, handler[r].index)
    BY <1>1, <2>2, <2>4 DEF Succeed, Answer, TypeOK
  <2>5. QED
    BY <2>3, <2>4
<1>8. Steady'
  <2> SUFFICES ASSUME NEW q \in Requests, Runs(q)', handler'[q].pc = "append", share'.dir,
                      handler'[q].file \notin unheard'
               PROVE  SizeOf(handler[q].id)' = handler'[q].size
    BY DEF Steady
  <2>1. q # r /\ handler'[q] = handler[q] /\ Runs(q)
    BY <1>7 DEF Runs
  <2>2. handler[q].id \in Ids /\ handler[q].id # NoId
    BY <1>1, <2>1, ContentTypes DEF Writing, Ids, NoId
  <2>3. handler[q].id # i
    BY <1>1, <1>2, <2>1, <2>2, OneHandler
  <2>4. tmp'[handler[q].id] = tmp[handler[q].id]
    BY <1>4, <2>2, <2>3
  <2>5. SizeOf(handler[q].id) = handler[q].size
    BY <1>1, <2>1 DEF HeardInv, Heard, Steady
  <2>6. QED
    BY <2>1, <2>4, <2>5 DEF SizeOf
<1>9. ASSUME NEW j \in Ids, tmp'[j].there, owner[j] \notin unheard
      PROVE  ExpectedIndex(tmp'[j].size) < Chunks(owner[j]) \/ MovedNext(j)'
  <2>1. CASE j # i
    <3>1. CASE ExpectedIndex(tmp[j].size) < Chunks(owner[j])
      BY <1>4, <2>1, <3>1
    <3>2. CASE MovedNext(j)
      <4>1. PICK q \in Requests : Runs(q) /\ handler[q].pc = "move" /\ handler[q].id = j
        BY <3>2 DEF MovedNext
      <4>2. Runs(q)' /\ handler'[q].pc = "move" /\ handler'[q].id = j
        BY <1>1, <1>7, <4>1 DEF Runs
      <4>3. QED
        BY <4>2 DEF MovedNext
    <3>3. QED
      BY <1>4, <1>9, <2>1, <3>1, <3>2 DEF HeardInv, Heard, Expecting
  <2>2. CASE j = i
    <3>1. i \notin muddled'
      BY <1>1, <1>6, <1>9, <2>2 DEF MuddledUnheard
    <3>2. IF IsLast(f, handler[r].index) THEN TRUE ELSE Part(f, tmp'[i].size)
      BY <1>1, <1>2, <1>3, <3>1, AppendPlaces
    <3>3. CASE IsLast(f, handler[r].index)
      <4>1. Runs(r)' /\ handler'[r].pc = "move" /\ handler'[r].id = i
        BY <1>7, <3>3 DEF Runs
      <4>2. QED
        BY <2>2, <4>1 DEF MovedNext
    <3>4. CASE ~IsLast(f, handler[r].index)
      <4>1. PICK k \in 1..Chunks(f) - 1 : tmp'[i].size = k * ChunkSize
        BY <3>2, <3>4 DEF Part
      <4>2. Chunks(f) \in Nat /\ k \in Nat /\ k < Chunks(f)
        BY ChunksOfFile
      <4>3. ExpectedIndex(k * ChunkSize) = k
        BY <4>2, ExpectedAfter
      <4>4. QED
        BY <1>3, <2>2, <4>1, <4>2, <4>3
    <3>5. QED
      BY <3>3, <3>4
  <2>3. QED
    BY <2>1, <2>2
<1>10. Expecting'
  BY <1>1, <1>9 DEF Expecting, ExpectedIndex, CeilDiv, Chunks
<1>11. StoppedOnlyUnheard'
  <2>1. CASE UNCHANGED client
    BY <1>1, <2>1 DEF HeardInv, Heard, StoppedOnlyUnheard
  <2>2. CASE Succeed(r)
    <3>1. \A g \in Files : client'[g] = client[g] \/ client'[g].pc # "stopped"
      BY <1>1, <2>2 DEF Succeed, Answer, Carried, TypeOK
    <3>2. QED
      BY <1>1, <3>1 DEF HeardInv, Heard, StoppedOnlyUnheard
  <2>3. QED
    BY <1>7, <2>1, <2>2
<1>12. QED
  BY <1>6, <1>8, <1>10, <1>11 DEF Heard

LEMMA MoveIsHeard ==
  ASSUME HeardInv, NEW r \in Requests, Move(r), tmp[handler[r].id].there
  PROVE  Heard'
<1>1. /\ Runs(r) /\ handler[r].pc = "move" /\ handler[r].pc \in Writing
      /\ UNCHANGED <<client, share, unheard, owner, muddled>> /\ ContentInv /\ TypeOK
  BY ContentTypes DEF Move, Runs, Idle, Writing, HeardInv, histVars
<1>2. PICK i \in Ids : i = handler[r].id
  BY <1>1, ContentTypes
<1>3. /\ ~tmp'[i].there /\ \A j \in Ids : j # i => tmp'[j] = tmp[j]
      /\ handler'[r].pc = "check" /\ \A q \in Requests : q # r => handler'[q] = handler[q]
  BY <1>1, <1>2, ContentTypes DEF Move, TypeOK, NoFile, Running
<1>4. MuddledUnheard' /\ StoppedOnlyUnheard'
  BY <1>1 DEF HeardInv, Heard, MuddledUnheard, StoppedOnlyUnheard
<1>5. Steady'
  <2> SUFFICES ASSUME NEW q \in Requests, Runs(q)', handler'[q].pc = "append", share'.dir,
                      handler'[q].file \notin unheard'
               PROVE  SizeOf(handler[q].id)' = handler'[q].size
    BY DEF Steady
  <2>1. q # r /\ handler'[q] = handler[q] /\ Runs(q)
    BY <1>3 DEF Runs
  <2>2. handler[q].id \in Ids /\ handler[q].id # NoId
    BY <1>1, <2>1, ContentTypes DEF Writing, Ids, NoId
  <2>3. handler[q].id # i
    BY <1>1, <1>2, <2>1, <2>2, OneHandler
  <2>4. tmp'[handler[q].id] = tmp[handler[q].id]
    BY <1>3, <2>2, <2>3
  <2>5. SizeOf(handler[q].id) = handler[q].size
    BY <1>1, <2>1 DEF HeardInv, Heard, Steady
  <2>6. QED
    BY <2>1, <2>4, <2>5 DEF SizeOf
<1>6. ASSUME NEW j \in Ids, tmp'[j].there, owner[j] \notin unheard
      PROVE  ExpectedIndex(tmp'[j].size) < Chunks(owner[j]) \/ MovedNext(j)'
  <2>1. j # i /\ tmp'[j] = tmp[j]
    BY <1>3, <1>6
  <2>2. ASSUME MovedNext(j) PROVE MovedNext(j)'
    <3>1. PICK q \in Requests : Runs(q) /\ handler[q].pc = "move" /\ handler[q].id = j
      BY <2>2 DEF MovedNext
    <3>2. Runs(q)' /\ handler'[q].pc = "move" /\ handler'[q].id = j
      BY <1>2, <1>3, <2>1, <3>1 DEF Runs
    <3>3. QED
      BY <3>2 DEF MovedNext
  <2>3. QED
    BY <1>6, <2>1, <2>2 DEF HeardInv, Heard, Expecting
<1>7. Expecting'
  BY <1>1, <1>6 DEF Expecting, ExpectedIndex, CeilDiv, Chunks
<1>8. QED
  BY <1>4, <1>5, <1>7 DEF Heard

(* A restart, also in the middle of an append: every client that waits has *)
(* not heard its answer.                                                   *)
LEMMA RestartIsHeard ==
  ASSUME HeardInv, AllHandlersEnd, UNCHANGED <<share, owner>>,
         NEW torn \in SUBSET Ids, muddled' = muddled \cup torn,
         \A i \in torn : \E r \in Requests : Runs(r) /\ handler[r].file = owner[i],
         \A i \in Ids \ torn : tmp'[i] = tmp[i]
  PROVE  Heard'
<1>1. /\ \A r \in Requests : handler'[r] = Idle
      /\ unheard' = unheard \cup {f \in Files : client[f].pc = "wait"}
  BY DEF AllHandlersEnd
<1>2. ASSUME NEW r \in Requests, Runs(r) PROVE handler[r].file \in unheard'
  BY <1>1, <1>2, ContentTypes DEF HeardInv, ContentInv, Awaited, Waited, Abandoned
<1>3. MuddledUnheard'
  BY <1>1, <1>2 DEF HeardInv, Heard, MuddledUnheard
<1>4. Steady'
  BY <1>1 DEF Steady, Runs
<1>5. ASSUME NEW j \in Ids, tmp'[j].there, owner[j] \notin unheard'
      PROVE  ExpectedIndex(tmp'[j].size) < Chunks(owner[j])
  <2>1. j \notin torn /\ tmp'[j] = tmp[j]
    BY <1>2, <1>5
  <2>2. ~MovedNext(j)
    <3> SUFFICES ASSUME MovedNext(j) PROVE FALSE
      OBVIOUS
    <3>1. PICK q \in Requests : Runs(q) /\ handler[q].pc = "move" /\ handler[q].id = j
      BY DEF MovedNext
    <3>2. handler[q].file = owner[j]
      BY <3>1, ContentTypes DEF HeardInv, Ids, NoId
    <3>3. QED
      BY <1>2, <1>5, <3>1, <3>2
  <2>3. QED
    BY <1>1, <1>5, <2>1, <2>2 DEF HeardInv, Heard, Expecting
<1>6. Expecting'
  BY <1>5 DEF Expecting, ExpectedIndex, CeilDiv, Chunks
<1>7. StoppedOnlyUnheard'
  <2>1. \A f \in Files : client'[f] = client[f] \/ client'[f].pc # "stopped"
    BY LoopFields, ContentTypes DEF HeardInv, AllHandlersEnd, TypeOK
  <2>2. QED
    BY <1>1, <2>1 DEF HeardInv, Heard, StoppedOnlyUnheard
<1>8. QED
  BY <1>3, <1>4, <1>6, <1>7 DEF Heard

(* Each step keeps what an attentive client relies on.                     *)
LEMMA HeardStep == HeardInv /\ [Next]_vars => Heard'
<1> SUFFICES ASSUME HeardInv, [Next]_vars PROVE Heard'
  OBVIOUS
<1>t. TypeOK /\ Named /\ Owned /\ ContentInv
  BY ContentTypes DEF HeardInv
<1>s. ASSUME UNCHANGED <<handler, tmp, owner, muddled, unheard>>, share'.dir = share.dir,
             \A f \in Files : client'[f].pc = "stopped" => client[f].pc = "stopped"
      PROVE Heard'
  <2>1. \A q \in Requests : (Runs(q)' => Same(q)) /\ (Runs(q) => Runs(q)')
    BY <1>s DEF Same, Runs
  <2>2. \A i \in muddled' : i \in muddled /\ owner'[i] = owner[i]
    BY <1>s
  <2>3. QED
    BY <1>s, <2>1, <2>2, HeardFrame DEF Same
<1>1. ASSUME NEW f \in Files, Send(f) PROVE Heard'
  <2>1. PICK r \in Requests : /\ handler[r] = Idle
          /\ handler' = [handler EXCEPT ![r] =
               [pc |-> "read", file |-> f, id |-> client[f].id, index |-> client[f].index,
                live |-> TRUE, recorded |-> [i \in Ids |-> NoRow], size |-> 0]]
    BY <1>1 DEF Send
  <2>2. /\ \A q \in Requests : Runs(q)' /\ handler'[q].pc # "read" => Same(q)
        /\ \A q \in Requests : Runs(q) => Runs(q)' /\ handler'[q] = handler[q]
    BY <1>t, <1>1, <2>1 DEF Same, Runs, TypeOK, Send, histVars
  <2>3. \A g \in Files : client'[g] = client[g] \/ client'[g].pc = "wait"
    BY <1>t, <1>1 DEF Send, TypeOK, ClientType
  <2>4. UNCHANGED <<tmp, owner, muddled, unheard, share>>
    BY <1>1 DEF Send, diskVars, histVars
  <2>5. \A i \in muddled' : i \in muddled /\ owner'[i] = owner[i]
    BY <2>4
  <2>6. QED
    BY <2>2, <2>3, <2>4, <2>5, HeardFrame
<1>2. ASSUME NEW r \in Requests, Read(r) PROVE Heard'
  <2>1. /\ Runs(r) /\ handler[r].pc = "read"
        /\ UNCHANGED <<share, tmp, owner, muddled, unheard>>
    BY <1>2 DEF Read, Idle, Runs, diskVars, histVars
  <2>2. CASE handler' = [handler EXCEPT ![r].pc = "stat", ![r].recorded = rows] /\ UNCHANGED client
    <3>1. handler'[r].pc = "stat" /\ \A q \in Requests : q # r => handler'[q] = handler[q]
      BY <1>t, <2>1, <2>2, ContentTypes DEF TypeOK, Running
    <3>2. /\ \A q \in Requests : Runs(q)' /\ handler'[q].pc # "stat" => Same(q)
          /\ \A q \in Requests : Runs(q) /\ handler[q].pc # "read" => Runs(q)' /\ handler'[q] = handler[q]
      BY <2>1, <3>1 DEF Same, Runs
    <3>3. \A i \in muddled' : i \in muddled /\ owner'[i] = owner[i]
      BY <2>1
    <3>4. QED
      BY <2>1, <2>2, <3>2, <3>3, HeardFrame
  <2>3. CASE Fail(r)
    BY <1>t, <2>1, <2>3, LoopFields, ContentTypes, AnswerIsHeard DEF Fail, TypeOK
  <2>4. QED
    BY <1>2, <2>2, <2>3 DEF Read
<1>3. ASSUME NEW r \in Requests, Stat(r) PROVE Heard'
  <2>1. Runs(r) /\ handler[r].pc = "stat" /\ UNCHANGED <<share, tmp, unheard>>
    BY <1>3 DEF Stat, Idle, Runs, diskVars
  <2>2. CASE UNCHANGED <<owner, muddled>> /\ Fail(r)
    BY <1>t, <2>1, <2>2, LoopFields, ContentTypes, AnswerIsHeard DEF Fail, TypeOK
  <2>3. CASE /\ UNCHANGED <<owner, muddled>>
             /\ Answer(r, Corrected(handler[r].file, ExpectedIndex(SizeOf(handler[r].id))))
    <3>1. ExpectedIndex(SizeOf(handler[r].id)) \in Nat /\ handler[r].file \in Files
      BY <1>t, <2>1, ContentTypes, SizeOfType, ExpectedIndexType DEF TypeOK
    <3>2. Corrected(handler[r].file, ExpectedIndex(SizeOf(handler[r].id))).pc = "stopped" =>
            handler[r].file \in unheard
      BY <1>t, <2>1, <3>1, LoopFields, CorrectedToAChunk DEF TypeOK
    <3>3. QED
      BY <2>1, <2>3, <3>2, AnswerIsHeard
  <2>4. CASE \E i \in IF handler[r].id = NoId THEN FirstUnused ELSE {handler[r].id} :
                  /\ handler' = [handler EXCEPT ![r].pc = "append",
                                  ![r].size = SizeOf(handler[r].id), ![r].id = i]
                  /\ owner' = [owner EXCEPT ![i] = handler[r].file]
                  /\ muddled' = IF handler[r].id = NoId THEN muddled \ {i} ELSE muddled
                  /\ UNCHANGED client
    <3>1. PICK i \in IF handler[r].id = NoId THEN FirstUnused ELSE {handler[r].id} :
                  /\ handler' = [handler EXCEPT ![r].pc = "append",
                                  ![r].size = SizeOf(handler[r].id), ![r].id = i]
                  /\ owner' = [owner EXCEPT ![i] = handler[r].file]
                  /\ muddled' = IF handler[r].id = NoId THEN muddled \ {i} ELSE muddled
                  /\ UNCHANGED client
      BY <2>4
    <3>2. /\ handler'[r].size = SizeOf(handler[r].id) /\ handler'[r].id = i
          /\ \A q \in Requests : q # r => handler'[q] = handler[q]
      BY <1>t, <2>1, <3>1, ContentTypes DEF TypeOK, Running
    <3>3. /\ SizeOf(i) = SizeOf(handler[r].id)
          /\ \A j \in Ids : tmp[j].there => owner'[j] = owner[j]
          /\ \A j \in muddled' : j \in muddled /\ owner'[j] = owner[j]
          /\ \A q \in Requests : Runs(q) /\ handler[q].id \in muddled /\ q # r =>
               handler[q].id \in muddled'
      <4>1. CASE handler[r].id # NoId
        <5>1. i = handler[r].id /\ i \in Ids /\ owner[i] = handler[r].file
          BY <1>t, <2>1, <3>1, <4>1, ContentTypes
        <5>2. UNCHANGED <<owner, muddled>>
          BY <1>t, <3>1, <4>1, <5>1 DEF TypeOK
        <5>3. QED
          BY <5>1, <5>2
      <4>2. CASE handler[r].id = NoId
        <5>1. i \in Unused
          BY <3>1, <4>2 DEF FirstUnused
        <5>2. i \in Ids /\ ~tmp[i].there /\ \A q \in Requests : Runs(q) => handler[q].id # i
          BY <5>1 DEF Unused, Runs
        <5>3. /\ muddled' = muddled \ {i} /\ \A j \in Ids : j # i => owner'[j] = owner[j]
              /\ muddled \subseteq Ids
          BY <1>t, <3>1, <4>2 DEF TypeOK
        <5>4. SizeOf(i) = 0 /\ SizeOf(handler[r].id) = 0
          BY <4>2, <5>2 DEF SizeOf
        <5>5. QED
          BY <5>2, <5>3, <5>4
      <4>3. QED
        BY <4>1, <4>2
    <3>4. \A q \in Requests : Runs(q)' /\ q # r => Same(q)
      BY <3>2, <3>3 DEF Same, Runs
    <3>5. \A q \in Requests : Runs(q) /\ q # r => Runs(q)' /\ handler'[q] = handler[q]
      BY <3>2 DEF Runs
    <3>6. SizeOf(handler'[r].id) = handler'[r].size
      BY <3>2, <3>3
    <3>7. QED
      BY <2>1, <3>1, <3>3, <3>4, <3>5, <3>6, HeardFrame
  <2>5. QED
    BY <1>3, <2>2, <2>3, <2>4 DEF Stat
<1>4. ASSUME NEW r \in Requests, Append(r) PROVE Heard'
  <2>1. CASE share.dir
    BY <1>4, <2>1, AppendIsHeard
  <2>2. CASE ~share.dir
    <3>1. /\ Runs(r) /\ handler[r].pc = "append" /\ Fail(r)
          /\ UNCHANGED <<share, tmp, owner, muddled, unheard>>
      BY <1>4, <2>2 DEF Append, Idle, Runs, diskVars
    <3>2. QED
      BY <1>t, <3>1, LoopFields, ContentTypes, AnswerIsHeard DEF Fail, TypeOK
  <2>3. QED
    BY <2>1, <2>2
<1>5. ASSUME NEW r \in Requests, Move(r) PROVE Heard'
  <2>1. CASE tmp[handler[r].id].there
    BY <1>5, <2>1, MoveIsHeard
  <2>2. CASE ~tmp[handler[r].id].there
    <3>1. /\ Runs(r) /\ handler[r].pc \in Writing /\ Fail(r)
          /\ UNCHANGED <<share, tmp, owner, muddled, unheard>>
      BY <1>5, <2>2 DEF Move, Idle, Runs, Writing, diskVars, histVars
    <3>2. handler[r].id \in Ids
      BY <1>t, <3>1, ContentTypes
    <3>3. QED
      BY <1>t, <2>2, <3>1, <3>2, LoopFields, ContentTypes, AnswerIsHeard DEF Fail, TypeOK
  <2>3. QED
    BY <2>1, <2>2
<1>6. ASSUME NEW r \in Requests, Check(r) PROVE Heard'
  <2>1. /\ Runs(r) /\ handler[r].pc = "check"
        /\ UNCHANGED <<share, tmp, owner, muddled, unheard>>
    BY <1>6 DEF Check, Idle, Runs, histVars
  <2>2. CASE Fail(r)
    BY <1>t, <2>1, <2>2, LoopFields, ContentTypes, AnswerIsHeard DEF Fail, TypeOK
  <2>3. CASE /\ handler' = [handler EXCEPT ![r].pc = "record", ![r].size = disk[handler[r].id].size]
             /\ UNCHANGED client
    <3>1. handler'[r].pc = "record" /\ \A q \in Requests : q # r => handler'[q] = handler[q]
      BY <1>t, <2>1, <2>3, ContentTypes DEF TypeOK, Running
    <3>2. /\ \A q \in Requests : Runs(q)' /\ handler'[q].pc = "append" => Same(q)
          /\ \A q \in Requests : Runs(q) /\ q # r => Runs(q)' /\ handler'[q] = handler[q]
      BY <2>1, <3>1 DEF Same, Runs
    <3>3. \A i \in muddled' : i \in muddled /\ owner'[i] = owner[i]
      BY <2>1
    <3>4. QED
      BY <2>1, <2>3, <3>2, <3>3, HeardFrame
  <2>4. QED
    BY <1>6, <2>2, <2>3 DEF Check
<1>7. ASSUME NEW r \in Requests, Record(r) PROVE Heard'
  <2>1. /\ Runs(r) /\ handler[r].pc = "record"
        /\ UNCHANGED <<share, tmp, owner, muddled, unheard>>
    BY <1>7 DEF Record, Idle, Runs, diskVars
  <2>2. CASE Fail(r)
    BY <1>t, <2>1, <2>2, LoopFields, ContentTypes, AnswerIsHeard DEF Fail, TypeOK
  <2>3. CASE Succeed(r)
    BY <2>1, <2>3, AnswerIsHeard DEF Succeed, Carried
  <2>4. QED
    BY <1>7, <2>2, <2>3 DEF Record
<1>8. ASSUME NEW f \in Files, SendFails(f) PROVE Heard'
  <2>1. \A g \in Files : client'[g] = client[g] \/ client'[g].pc = "send"
    BY <1>t, <1>8, LoopFields DEF SendFails, TypeOK
  <2>2. QED
    BY <1>8, <1>s, <2>1 DEF SendFails, diskVars, histVars
<1>9. ASSUME NEW r \in Requests, LoseAnswer(r) PROVE Heard'
  <2>1. /\ Runs(r) /\ handler' = [handler EXCEPT ![r].live = FALSE]
        /\ UNCHANGED <<share, tmp, owner, muddled>> /\ unheard \subseteq unheard'
    BY <1>9 DEF LoseAnswer, Runs, diskVars
  <2>2. /\ handler'[r].pc = handler[r].pc /\ handler'[r].id = handler[r].id
        /\ handler'[r].index = handler[r].index /\ handler'[r].size = handler[r].size
        /\ handler'[r].file = handler[r].file /\ handler'[r] # Idle
        /\ \A q \in Requests : q # r => handler'[q] = handler[q]
    BY <1>t, <2>1, ContentTypes DEF TypeOK, Running, Idle
  <2>3. /\ \A q \in Requests : Runs(q)' => Same(q)
        /\ \A q \in Requests : Runs(q) =>
             Runs(q)' /\ handler'[q].pc = handler[q].pc /\ handler'[q].id = handler[q].id
    BY <2>1, <2>2 DEF Same, Runs
  <2>4. \A g \in Files : client'[g] = client[g] \/ client'[g].pc = "send"
    BY <1>t, <1>9, <2>1, LoopFields, ContentTypes DEF LoseAnswer, TypeOK
  <2>5. \A i \in muddled' : i \in muddled /\ owner'[i] = owner[i]
    BY <2>1
  <2>6. QED
    BY <2>1, <2>3, <2>4, <2>5, HeardFrame
<1>10. ASSUME Restart PROVE Heard'
  <2>1. AllHandlersEnd /\ UNCHANGED <<share, tmp, owner, muddled>>
    BY <1>10 DEF Restart, diskVars
  <2>2. /\ muddled' = muddled \cup {} /\ {} \in SUBSET Ids /\ \A i \in Ids \ {} : tmp'[i] = tmp[i]
        /\ \A i \in {} : \E r \in Requests : Runs(r) /\ handler[r].file = owner[i]
    BY <2>1
  <2>3. QED
    BY <2>1, <2>2, RestartIsHeard
<1>11. ASSUME NEW r \in Requests, RestartTears(r) PROVE Heard'
  <2>1. /\ AllHandlersEnd /\ UNCHANGED <<share, owner>>
        /\ Runs(r) /\ handler[r].pc = "append" /\ muddled' = muddled \cup {handler[r].id}
    BY <1>11 DEF RestartTears, Runs, Idle
  <2>2. handler[r].id \in Ids /\ owner[handler[r].id] = handler[r].file
    <3>1. handler[r].id \in Ids
      BY <1>t, <2>1, ContentTypes DEF Writing
    <3>2. QED
      BY <1>t, <2>1, <3>1, ContentTypes DEF Ids, NoId
  <2>3. \A i \in Ids \ {handler[r].id} : tmp'[i] = tmp[i]
    BY <1>t, <1>11 DEF RestartTears, TypeOK
  <2>4. /\ {handler[r].id} \in SUBSET Ids
        /\ \A i \in {handler[r].id} : \E q \in Requests : Runs(q) /\ handler[q].file = owner[i]
    BY <2>1, <2>2
  <2>5. QED
    BY <2>1, <2>3, <2>4, RestartIsHeard
<1>12. ASSUME NEW i \in Ids, DeleteTemporary(i) PROVE Heard'
  <2>1. /\ UNCHANGED <<client, handler, share, owner, muddled, unheard>>
        /\ \A r \in Requests : Runs(r) => handler[r].id # i
        /\ tmp'[i] = NoFile /\ \A j \in Ids : j # i => tmp'[j] = tmp[j]
    BY <1>t, <1>12 DEF DeleteTemporary, TypeOK, Runs, histVars
  <2>2. MuddledUnheard' /\ StoppedOnlyUnheard'
    BY <2>1 DEF HeardInv, Heard, MuddledUnheard, StoppedOnlyUnheard
  <2>3. ASSUME NEW q \in Requests, Runs(q), handler[q].pc = "append", share.dir,
               handler[q].file \notin unheard
        PROVE  SizeOf(handler[q].id)' = handler[q].size
    <3>1. handler[q].id \in Ids /\ handler[q].id # i
      BY <1>t, <2>1, <2>3, ContentTypes DEF Writing
    <3>2. SizeOf(handler[q].id) = handler[q].size
      BY <2>3 DEF HeardInv, Heard, Steady
    <3>3. QED
      BY <2>1, <3>1, <3>2 DEF SizeOf
  <2>4. Steady'
    BY <2>1, <2>3 DEF Steady, Runs
  <2>5. \A j \in Ids : MovedNext(j) => MovedNext(j)'
    BY <2>1 DEF MovedNext, Runs
  <2>6. Expecting'
    BY <2>1, <2>5 DEF HeardInv, Heard, Expecting, NoFile, ExpectedIndex, CeilDiv, Chunks
  <2>7. QED
    BY <2>2, <2>4, <2>6 DEF Heard
<1>13. ASSUME Complete \/ RevertComplete \/ RemoveRow PROVE Heard'
  <2>1. UNCHANGED <<client, handler, tmp, owner, muddled, unheard>> /\ share'.dir = share.dir
    BY <1>t, <1>13 DEF Complete, RevertComplete, RemoveRow, TypeOK, diskVars, histVars
  <2>2. QED
    BY <1>s, <2>1
<1>14. ASSUME RemoveFiles PROVE Heard'
  <2>1. /\ UNCHANGED <<client, handler, owner, muddled, unheard>> /\ ~share'.dir
        /\ \A i \in Ids : tmp'[i] = NoFile
    BY <1>t, <1>14 DEF RemoveFiles, TypeOK, histVars
  <2>2. QED
    BY <2>1 DEF HeardInv, Heard, MuddledUnheard, StoppedOnlyUnheard, Steady, Expecting, NoFile
<1>15. QED
  BY <1>s, <1>1, <1>2, <1>3, <1>4, <1>5, <1>6, <1>7, <1>8, <1>9, <1>10, <1>11, <1>12, <1>13,
     <1>14 DEF Next, HandlerStep, AllEnded, vars, diskVars, histVars

(* A loop that has ended as done, and an identifier, stay with the client. *)
LEMMA ClientKeeps ==
  ASSUME HeardInv, [Next]_vars
  PROVE  \A f \in Files : /\ client[f].pc = "done" => client'[f].pc = "done"
                          /\ client[f].id # NoId => client'[f].id = client[f].id
<1>t. TypeOK /\ Named /\ Owned /\ LoopInv
  BY ContentTypes DEF HeardInv
<1> SUFFICES ASSUME NEW f \in Files
             PROVE  /\ client[f].pc = "done" => client'[f].pc = "done"
                    /\ client[f].id # NoId => client'[f].id = client[f].id
  OBVIOUS
<1>1. ASSUME NEW r \in Requests, Runs(r), NEW heard, Answer(r, heard),
             heard.id = client[handler[r].file].id \/ heard.id = handler[r].id
      PROVE  /\ client[f].pc = "done" => client'[f].pc = "done"
             /\ client[f].id # NoId => client'[f].id = client[f].id
  <2>1. CASE client'[f] = client[f]
    BY <2>1
  <2>2. CASE handler[r].live /\ f = handler[r].file /\ client'[f] = heard
    BY <1>1, <2>2 DEF HeardInv, ContentInv, Awaited, Waited
  <2>3. QED
    BY <1>t, <1>1, <2>1, <2>2, ContentTypes DEF HeardInv, Answer, TypeOK
<1>2. ASSUME NEW r \in Requests, Runs(r), Fail(r)
      PROVE  /\ client[f].pc = "done" => client'[f].pc = "done"
             /\ client[f].id # NoId => client'[f].id = client[f].id
  <2>1. StartedOver(handler[r].file).id = client[handler[r].file].id
    BY <1>t, <1>2, ContentTypes, LoopFields DEF HeardInv, TypeOK
  <2>2. QED
    BY <1>1, <1>2, <2>1 DEF Fail
<1>3. ASSUME NEW r \in Requests, Runs(r), Succeed(r)
      PROVE  /\ client[f].pc = "done" => client'[f].pc = "done"
             /\ client[f].id # NoId => client'[f].id = client[f].id
  <2>1. Carried(handler[r].file, handler[r].index + 1, handler[r].id).id = handler[r].id
    BY DEF Carried
  <2>2. QED
    BY <1>1, <1>3, <2>1 DEF Succeed
<1>4. ASSUME NEW r \in Requests, Stat(r)
      PROVE  /\ client[f].pc = "done" => client'[f].pc = "done"
             /\ client[f].id # NoId => client'[f].id = client[f].id
  <2>1. Runs(r) /\ handler[r].file \in Files
    BY <1>4, ContentTypes DEF HeardInv, Stat, Runs, Idle
  <2>2. ExpectedIndex(SizeOf(handler[r].id)) \in Nat
    BY <1>t, <2>1, ContentTypes, SizeOfType, ExpectedIndexType DEF HeardInv, TypeOK
  <2>3. Corrected(handler[r].file, ExpectedIndex(SizeOf(handler[r].id))).id =
          client[handler[r].file].id
    BY <1>t, <2>1, <2>2, LoopFields DEF TypeOK
  <2>4. CASE Answer(r, Corrected(handler[r].file, ExpectedIndex(SizeOf(handler[r].id))))
    BY <1>1, <2>1, <2>3, <2>4
  <2>5. QED
    BY <1>2, <1>4, <2>1, <2>4 DEF Stat
<1>5. ASSUME NEW r \in Requests, Read(r) \/ Append(r) \/ Move(r) \/ Check(r) \/ Record(r)
      PROVE  Runs(r) /\ (UNCHANGED client \/ Fail(r) \/ Succeed(r))
  BY <1>5 DEF Read, Append, Move, Check, Record, Runs, Idle
<1>6. ASSUME NEW g \in Files, Send(g) \/ SendFails(g)
      PROVE  /\ client[f].pc = "done" => client'[f].pc = "done"
             /\ client[f].id # NoId => client'[f].id = client[f].id
  BY <1>t, <1>6, LoopFields DEF Send, SendFails, TypeOK, ClientType
<1>7. ASSUME NEW r \in Requests, LoseAnswer(r)
      PROVE  /\ client[f].pc = "done" => client'[f].pc = "done"
             /\ client[f].id # NoId => client'[f].id = client[f].id
  <2>1. /\ Runs(r) /\ handler[r].live /\ handler[r].file \in Files
        /\ client' = [client EXCEPT ![handler[r].file] = StartedOver(handler[r].file)]
    BY <1>7, ContentTypes DEF LoseAnswer, Runs, HeardInv
  <2>2. client[handler[r].file].pc = "wait"
    BY <2>1 DEF HeardInv, ContentInv, Awaited, Waited
  <2>3. QED
    BY <1>t, <2>1, <2>2, LoopFields DEF TypeOK
<1>8. ASSUME AllHandlersEnd
      PROVE  /\ client[f].pc = "done" => client'[f].pc = "done"
             /\ client[f].id # NoId => client'[f].id = client[f].id
  BY <1>t, <1>8, LoopFields DEF AllHandlersEnd, TypeOK
<1>9. QED
  BY <1>2, <1>3, <1>4, <1>5, <1>6, <1>7, <1>8
  DEF Next, HandlerStep, AllEnded, vars, diskVars, histVars, Restart, RestartTears,
      DeleteTemporary, Complete, RevertComplete, RemoveFiles, RemoveRow

(* A step that records nothing new.                                        *)
LEMMA OnceFrame ==
  ASSUME HeardInv, [Next]_vars, unheard \subseteq unheard',
         \A i \in Ids : rows'[i].there => rows[i].there /\ owner'[i] = owner[i]
  PROVE  Once'
<1> SUFFICES ASSUME NEW i \in Ids, rows'[i].there
             PROVE  /\ owner'[i] \notin unheard' => client'[owner'[i]].pc = "done"
                    /\ owner'[i] \notin unheard' \/ Chunks(owner'[i]) > 1 => client'[owner'[i]].id = i
  BY DEF Once, Chunks
<1>1. rows[i].there /\ owner'[i] = owner[i] /\ owner[i] \in Files /\ i # NoId
  BY DEF HeardInv, ContentInv, Contents, RowKept, Ids, NoId
<1>2. /\ owner[i] \notin unheard => client[owner[i]].pc = "done"
      /\ owner[i] \notin unheard \/ Chunks(owner[i]) > 1 => client[owner[i]].id = i
  BY <1>1 DEF HeardInv, Once
<1>3. /\ client[owner[i]].pc = "done" => client'[owner[i]].pc = "done"
      /\ client[owner[i]].id # NoId => client'[owner[i]].id = client[owner[i]].id
  BY <1>1, ClientKeeps
<1>4. QED
  BY <1>1, <1>2, <1>3

(* A new record is the end of its loop, or one the client has lost.        *)
LEMMA RecordOnce ==
  ASSUME HeardInv, NEW r \in Requests, Record(r),
         rows' = [rows EXCEPT ![handler[r].id] = [there |-> TRUE, size |-> handler[r].size]],
         Succeed(r)
  PROVE  Once'
<1>1. /\ Runs(r) /\ handler[r].pc = "record" /\ handler[r].pc \in Writing
      /\ UNCHANGED <<owner, unheard>> /\ TypeOK /\ ContentInv /\ Record(r)
  BY ContentTypes DEF Record, Runs, Idle, Writing, HeardInv
<1>2. PICK i \in Ids : i = handler[r].id
  BY <1>1, ContentTypes
<1>3. PICK f \in Files : f = handler[r].file /\ owner[i] = f
  BY <1>1, <1>2, ContentTypes DEF Ids, NoId
<1>4. /\ handler[r].index \in Nat /\ handler[r].index + 1 = Chunks(f) /\ Chunks(f) \in Nat
      /\ i # NoId
  BY <1>1, <1>2, <1>3, ContentTypes, ChunksOfFile
  DEF ContentInv, Paced, InPace, Written, IsLast, Ids, NoId
<1>5. ASSUME f \notin unheard PROVE client'[f].pc = "done" /\ client'[f].id = i
  <2>1. handler[r].live
    BY <1>1, <1>3, <1>5 DEF ContentInv, Awaited, Abandoned
  <2>2. client'[f] = Carried(f, Chunks(f), i)
    BY <1>1, <1>2, <1>3, <1>4, <2>1 DEF Succeed, Answer, TypeOK
  <2>3. QED
    BY <2>2 DEF Carried
<1>6. ASSUME Chunks(f) > 1 PROVE client'[f].id = i
  <2>1. handler[r].index # 0
    BY <1>4, <1>6
  <2>2. client[f].id = i
    BY <1>1, <1>2, <1>3, <1>4, <2>1 DEF ContentInv, Awaited, SameNames, SameName
  <2>3. Next
    BY <1>1 DEF Next, HandlerStep
  <2>4. QED
    BY <1>4, <2>2, <2>3, ClientKeeps
<1>7. \A j \in Ids : j # i => rows'[j] = rows[j]
  BY <1>1, <1>2 DEF TypeOK
<1>8. ASSUME NEW j \in Ids, j # i, rows'[j].there
      PROVE  /\ owner[j] \notin unheard => client'[owner[j]].pc = "done"
             /\ owner[j] \notin unheard \/ Chunks(owner[j]) > 1 => client'[owner[j]].id = j
  <2>1. rows[j].there /\ owner[j] \in Files /\ j # NoId
    BY <1>7, <1>8 DEF HeardInv, ContentInv, Contents, RowKept, Ids, NoId
  <2>2. /\ owner[j] \notin unheard => client[owner[j]].pc = "done"
        /\ owner[j] \notin unheard \/ Chunks(owner[j]) > 1 => client[owner[j]].id = j
    BY <2>1 DEF HeardInv, Once
  <2>3. Next
    BY <1>1 DEF Next, HandlerStep
  <2>4. /\ client[owner[j]].pc = "done" => client'[owner[j]].pc = "done"
        /\ client[owner[j]].id # NoId => client'[owner[j]].id = client[owner[j]].id
    BY <2>1, <2>3, ClientKeeps
  <2>5. QED
    BY <2>1, <2>2, <2>4
<1>9. \A j \in Ids : rows'[j].there =>
        /\ owner[j] \notin unheard => client'[owner[j]].pc = "done"
        /\ owner[j] \notin unheard \/ Chunks(owner[j]) > 1 => client'[owner[j]].id = j
  BY <1>3, <1>5, <1>6, <1>8
<1>10. QED
  BY <1>1, <1>9 DEF Once, Chunks

LEMMA OnceStep == HeardInv /\ [Next]_vars => Once'
<1> SUFFICES ASSUME HeardInv, [Next]_vars PROVE Once'
  OBVIOUS
<1>t. TypeOK
  BY ContentTypes DEF HeardInv
<1>1. ASSUME NEW r \in Requests, Record(r) PROVE Once'
  <2>1. CASE /\ rows' = [rows EXCEPT ![handler[r].id] = [there |-> TRUE, size |-> handler[r].size]]
             /\ Succeed(r)
    BY <1>1, <2>1, RecordOnce
  <2>2. CASE UNCHANGED rows
    BY <1>1, <2>2, OnceFrame DEF Record
  <2>3. QED
    BY <1>1, <2>1, <2>2 DEF Record
<1>2. ASSUME NEW r \in Requests, Stat(r) PROVE Once'
  <2>1. Runs(r) /\ UNCHANGED <<rows, unheard>>
    BY <1>2 DEF Stat, Runs, Idle
  <2>2. \A i \in Ids : rows[i].there => owner'[i] = owner[i]
    <3>1. CASE UNCHANGED owner
      BY <3>1
    <3>2. CASE \E i \in IF handler[r].id = NoId THEN FirstUnused ELSE {handler[r].id} :
                 owner' = [owner EXCEPT ![i] = handler[r].file]
      <4>1. PICK i \in IF handler[r].id = NoId THEN FirstUnused ELSE {handler[r].id} :
                 owner' = [owner EXCEPT ![i] = handler[r].file]
        BY <3>2
      <4>2. CASE handler[r].id # NoId
        BY <1>t, <2>1, <4>1, <4>2, ContentTypes DEF HeardInv, TypeOK
      <4>3. CASE handler[r].id = NoId
        BY <1>t, <4>1, <4>3 DEF FirstUnused, Unused, TypeOK
      <4>4. QED
        BY <4>2, <4>3
    <3>3. QED
      BY <1>2, <3>1, <3>2 DEF Stat
  <2>3. QED
    BY <2>1, <2>2, OnceFrame
<1>3. ASSUME RemoveRow PROVE Once'
  BY <1>3, OnceFrame DEF RemoveRow, NoRow, histVars
<1>4. ASSUME UNCHANGED <<rows, owner>>, unheard \subseteq unheard' PROVE Once'
  BY <1>4, OnceFrame
<1>5. ASSUME NEW r \in Requests, Read(r) \/ Append(r) \/ Move(r) \/ Check(r) PROVE Once'
  BY <1>4, <1>5 DEF Read, Append, Move, Check, histVars
<1>6. ASSUME \/ \E f \in Files : Send(f) \/ SendFails(f)
             \/ \E r \in Requests : LoseAnswer(r) \/ RestartTears(r)
             \/ \E i \in Ids : DeleteTemporary(i)
             \/ Restart \/ Complete \/ RevertComplete \/ RemoveFiles
             \/ UNCHANGED vars
      PROVE  Once'
  <2>1. UNCHANGED <<rows, owner>> /\ unheard \subseteq unheard'
    BY <1>6 DEF Send, SendFails, LoseAnswer, RestartTears, DeleteTemporary, Restart, Complete,
       RevertComplete, RemoveFiles, AllHandlersEnd, vars, histVars
  <2>2. QED
    BY <1>4, <2>1
<1>7. QED
  BY <1>1, <1>2, <1>3, <1>5, <1>6 DEF Next, HandlerStep, AllEnded

LEMMA HeardCorrect == Spec => []HeardInv
<1>1. Init => HeardInv
  <2> SUFFICES ASSUME Init PROVE HeardInv
    OBVIOUS
  <2>1. /\ \A f \in Files : client[f].pc = "send"
        /\ \A r \in Requests : handler[r] = Idle
        /\ \A i \in Ids : ~tmp[i].there /\ ~rows[i].there
        /\ muddled = {}
    BY DEF Init, StartOfLoop, NoFile, NoRow
  <2>2. Heard /\ Once
    BY <2>1 DEF Heard, Once, MuddledUnheard, Steady, Expecting, StoppedOnlyUnheard, Runs
  <2>3. QED
    BY <2>2, ContentInit DEF HeardInv
<1>2. HeardInv /\ [Next]_vars => HeardInv'
  BY HeardStep, OnceStep, ContentInvStep DEF HeardInv
<1>3. QED
  BY <1>1, <1>2, PTL DEF Spec

(* The loop of a file gives up in silence only if an answer to one of its  *)
(* chunks was lost: what is on disk never asks an attentive client for a   *)
(* chunk that is not there.                                                *)
THEOREM GivesUpOnlyUnheard == Spec => []StoppedOnlyUnheard
<1>1. HeardInv => StoppedOnlyUnheard
  BY DEF HeardInv, Heard
<1>2. QED
  BY <1>1, HeardCorrect, PTL

(* A file is recorded twice only if it is a single chunk whose answer was  *)
(* lost: any other is recorded under the identifier its client holds.      *)
THEOREM RecordedTwiceOnlyUnheard == Spec => []TwiceOnlyUnheard
<1>1. HeardInv => TwiceOnlyUnheard
  <2> SUFFICES ASSUME HeardInv, NEW i \in Ids, NEW j \in Ids, i # j, rows[i].there, rows[j].there,
                      owner[i] = owner[j]
               PROVE  owner[i] \in unheard /\ Chunks(owner[i]) = 1
    BY DEF TwiceOnlyUnheard
  <2>1. Chunks(owner[i]) \in Nat \ {0}
    BY ChunksOfFile DEF HeardInv, ContentInv, Contents, RowKept
  <2>2. owner[i] \in unheard /\ ~(Chunks(owner[i]) > 1)
    BY DEF HeardInv, Once
  <2>3. QED
    BY <2>1, <2>2
<1>2. QED
  BY <1>1, HeardCorrect, PTL

----------------------------------------------------------------------------
(* The sum of the sizes in a table of files.                               *)

Adds(total, table, m) ==
  total = [n \in 0..m |-> IF n = 0 THEN 0 ELSE total[n - 1] + SizeIn(table, n)]

(* A set of naturals has a least element.                                  *)
LEMMA LeastOf ==
  ASSUME NEW S \in SUBSET Nat, S # {}
  PROVE  \E k \in S : \A j \in S : k <= j
<1>1. PICK k \in S : \A j \in S : ~(<<j, k>> \in OpToRel(<, Nat))
  BY NatLessThanWellFounded, WFMin
<1>2. \A j \in S : ~(j < k)
  BY <1>1 DEF OpToRel
<1>3. QED
  BY <1>2

(* The sizes of any part of a table add up.                                *)
LEMMA PartAdds ==
  ASSUME NEW table, NEW m \in Nat
  PROVE  \E total : Adds(total, table, m)
<1> DEFINE S == {k \in Nat : ~\E total : Adds(total, table, k)}
<1>1. SUFFICES ASSUME S # {} PROVE FALSE
  OBVIOUS
<1>2. PICK k \in S : \A j \in S : k <= j
  BY <1>1, LeastOf
<1>3. k # 0
  <2> DEFINE total == [n \in 0..0 |-> 0]
  <2>1. Adds(total, table, 0)
    BY DEF Adds
  <2>2. QED
    BY <2>1
<1>4. k \in Nat /\ k - 1 \in Nat /\ k - 1 \notin S
  BY <1>2, <1>3
<1>5. PICK before : Adds(before, table, k - 1)
  BY <1>4
<1> DEFINE total == [n \in 0..k |-> IF n = k THEN before[k - 1] + SizeIn(table, k) ELSE before[n]]
<1>6. ASSUME NEW n \in 0..k
      PROVE  total[n] = IF n = 0 THEN 0 ELSE total[n - 1] + SizeIn(table, n)
  <2>1. CASE n = k
    BY <1>3, <1>4, <2>1
  <2>2. CASE n # k
    <3>1. n \in 0..(k - 1) /\ (n # 0 => n - 1 \in 0..k /\ n - 1 # k)
      BY <1>4, <2>2
    <3>2. before[n] = IF n = 0 THEN 0 ELSE before[n - 1] + SizeIn(table, n)
      BY <1>5, <3>1 DEF Adds
    <3>3. QED
      BY <2>2, <3>1, <3>2
  <2>3. QED
    BY <2>1, <2>2
<1>7. Adds(total, table, k)
  <2>1. total = [n \in 0..k |-> total[n]]
    OBVIOUS
  <2>2. [n \in 0..k |-> total[n]]
          = [n \in 0..k |-> IF n = 0 THEN 0 ELSE total[n - 1] + SizeIn(table, n)]
    BY <1>6
  <2> HIDE DEF total
  <2>3. QED
    BY <2>1, <2>2 DEF Adds
<1>8. QED
  BY <1>2, <1>7

(* What SumOfSizes adds up, one file after the other.                      *)
LEMMA TotalIs ==
  ASSUME NEW table
  PROVE  \E total : Adds(total, table, MaxIds) /\ SumOfSizes(table) = total[MaxIds]
<1> DEFINE t == CHOOSE total : Adds(total, table, MaxIds)
<1>1. Adds(t, table, MaxIds)
  BY PartAdds, BoundsAssumption
<1>2. SumOfSizes(table) = t[MaxIds]
  BY DEF SumOfSizes, Adds
<1>3. QED
  BY <1>1, <1>2

(* Two tables that agree but for the size of one file add up to sums that  *)
(* differ by it.                                                           *)
LEMMA SumsDiffer ==
  ASSUME NEW table \in [Ids -> RowType], NEW more \in [Ids -> RowType],
         NEW i \in Ids, NEW size \in Nat,
         \A j \in Ids : j # i => more[j] = table[j],
         SizeIn(more, i) = SizeIn(table, i) + size
  PROVE  SumOfSizes(table) \in Nat /\ SumOfSizes(more) = SumOfSizes(table) + size
<1>1. PICK s : Adds(s, table, MaxIds) /\ SumOfSizes(table) = s[MaxIds]
  BY TotalIs
<1>2. PICK t : Adds(t, more, MaxIds) /\ SumOfSizes(more) = t[MaxIds]
  BY TotalIs
<1>3. MaxIds \in Nat /\ Ids = 1..MaxIds
  BY BoundsAssumption DEF Ids
<1>4. \A n \in 0..MaxIds : /\ s[n] = IF n = 0 THEN 0 ELSE s[n - 1] + SizeIn(table, n)
                           /\ t[n] = IF n = 0 THEN 0 ELSE t[n - 1] + SizeIn(more, n)
  BY <1>1, <1>2 DEF Adds
<1>5. \A n \in Ids : SizeIn(table, n) \in Nat /\ (n # i => SizeIn(more, n) = SizeIn(table, n))
  BY DEF SizeIn, RowType
<1> DEFINE Good(n) == s[n] \in Nat /\ t[n] = s[n] + IF n < i THEN 0 ELSE size
           S == {n \in 0..MaxIds : ~Good(n)}
<1>6. S = {}
  <2>1. SUFFICES ASSUME S # {} PROVE FALSE
    OBVIOUS
  <2>2. PICK n \in S : \A j \in S : n <= j
    <3>1. S \in SUBSET Nat
      BY <1>3
    <3> HIDE DEF S
    <3>2. QED
      BY <2>1, <3>1, LeastOf
  <2>3. n # 0
    BY <1>3, <1>4, <2>2
  <2>4. n \in Ids /\ n - 1 \in 0..MaxIds /\ n - 1 \notin S
    BY <1>3, <2>2, <2>3
  <2>5. Good(n - 1)
    BY <2>4
  <2>6. s[n] = s[n - 1] + SizeIn(table, n) /\ t[n] = t[n - 1] + SizeIn(more, n)
    BY <1>4, <2>2, <2>3
  <2>7. CASE n = i
    <3>1. n - 1 < i /\ ~(n < i)
      BY <1>3, <2>7
    <3>2. t[n - 1] = s[n - 1] /\ s[n - 1] \in Nat
      BY <2>5, <3>1
    <3>3. SizeIn(table, n) \in Nat /\ SizeIn(more, n) = SizeIn(table, n) + size
      BY <1>5, <2>4, <2>7
    <3>4. Good(n)
      BY <2>6, <3>1, <3>2, <3>3
    <3>5. QED
      BY <2>2, <3>4
  <2>8. CASE n # i
    <3>1. (n < i) = (n - 1 < i)
      BY <1>3, <2>4, <2>8
    <3>2. SizeIn(table, n) \in Nat /\ SizeIn(more, n) = SizeIn(table, n)
      BY <1>5, <2>4, <2>8
    <3>3. Good(n)
      BY <2>5, <2>6, <3>1, <3>2
    <3>4. QED
      BY <2>2, <3>3
  <2>9. QED
    BY <2>7, <2>8
<1>7. Good(MaxIds) /\ ~(MaxIds < i)
  BY <1>3, <1>6
<1>8. QED
  BY <1>1, <1>2, <1>7

LEMMA SumType ==
  ASSUME NEW table \in [Ids -> RowType]
  PROVE  SumOfSizes(table) \in Nat
<1>1. CASE Ids = {}
  <2>1. MaxIds = 0
    BY <1>1, BoundsAssumption DEF Ids
  <2>2. QED
    BY <2>1, TotalIs DEF Adds
<1>2. CASE Ids # {}
  <2>1. PICK i \in Ids : TRUE
    BY <1>2
  <2>2. SizeIn(table, i) = SizeIn(table, i) + 0
    BY <2>1 DEF SizeIn, RowType
  <2>3. QED
    BY <2>1, <2>2, SumsDiffer
<1>3. QED
  BY <1>1, <1>2

(* A table without a file adds up to nothing.                              *)
LEMMA SumOfNone ==
  ASSUME NEW table, \A i \in Ids : ~table[i].there
  PROVE  SumOfSizes(table) = 0
<1>1. PICK s : Adds(s, table, MaxIds) /\ SumOfSizes(table) = s[MaxIds]
  BY TotalIs
<1>2. MaxIds \in Nat /\ \A n \in 0..MaxIds : n # 0 => n \in Ids /\ n - 1 \in 0..MaxIds
  BY BoundsAssumption DEF Ids
<1>3. \A n \in 0..MaxIds : s[n] = IF n = 0 THEN 0 ELSE s[n - 1] + 0
  BY <1>1, <1>2 DEF Adds, SizeIn
<1> DEFINE S == {n \in 0..MaxIds : s[n] # 0}
<1>4. S = {}
  <2>1. SUFFICES ASSUME S # {} PROVE FALSE
    OBVIOUS
  <2>2. PICK n \in S : \A j \in S : n <= j
    <3>1. S \in SUBSET Nat
      BY <1>2
    <3> HIDE DEF S
    <3>2. QED
      BY <2>1, <3>1, LeastOf
  <2>3. n # 0 /\ n - 1 \in 0..MaxIds /\ n - 1 \notin S
    BY <1>2, <1>3, <2>2
  <2>4. QED
    BY <1>3, <2>2, <2>3
<1>5. QED
  BY <1>1, <1>2, <1>4

----------------------------------------------------------------------------
(* What was recorded without a race is within the limit.                   *)

(* A handler past the checks of the limits has room for the file up to the *)
(* end of its chunk, beside the files it has read.                         *)
Admitted(r) ==
  Runs(r) /\ handler[r].pc \in Writing /\ handler[r].id \notin muddled =>
    SumOfSizes(handler[r].recorded) + handler[r].index * ChunkSize
      + ChunkLength(handler[r].file, handler[r].index) <= ShareLimit
AllAdmitted == \A r \in Requests : Admitted(r)
WithinLimit ==
  ~raced /\ (\A i \in Ids : rows[i].there => i \notin muddled) => SumOfSizes(rows) <= ShareLimit
LimitInv == ContentInv /\ AllAdmitted /\ WithinLimit

(* A handler that was admitted and still is.                               *)
Stays(q) ==
  /\ Runs(q) /\ handler[q].pc \in Writing
  /\ handler'[q].file = handler[q].file /\ handler'[q].index = handler[q].index
  /\ handler'[q].id = handler[q].id /\ handler'[q].recorded = handler[q].recorded
  /\ handler[q].id \in muddled => handler[q].id \in muddled'

LEMMA StaysAdmitted ==
  ASSUME AllAdmitted, NEW q \in Requests, Runs(q)' /\ handler'[q].pc \in Writing => Stays(q)
  PROVE  Admitted(q)'
<1> SUFFICES ASSUME Runs(q)', handler'[q].pc \in Writing, handler'[q].id \notin muddled'
             PROVE  SumOfSizes(handler'[q].recorded) + handler'[q].index * ChunkSize
                      + ChunkLength(handler'[q].file, handler'[q].index) <= ShareLimit
  BY DEF Admitted
<1>1. Stays(q)
  OBVIOUS
<1>2. SumOfSizes(handler[q].recorded) + handler[q].index * ChunkSize
        + ChunkLength(handler[q].file, handler[q].index) <= ShareLimit
  BY <1>1 DEF AllAdmitted, Admitted, Stays
<1>3. QED
  BY <1>1, <1>2 DEF Stays

(* A step that admits nobody and records nothing.                          *)
LEMMA LimitFrame ==
  ASSUME LimitInv, UNCHANGED <<rows, raced>>, muddled \subseteq muddled',
         \A q \in Requests : Runs(q)' /\ handler'[q].pc \in Writing => Stays(q)
  PROVE  AllAdmitted' /\ WithinLimit'
<1>1. AllAdmitted'
  BY StaysAdmitted DEF AllAdmitted, LimitInv
<1>2. WithinLimit'
  BY DEF LimitInv, WithinLimit
<1>3. QED
  BY <1>1, <1>2

(* So is a handler that ends.                                              *)
LEMMA LimitAnswer ==
  ASSUME LimitInv, NEW r \in Requests, NEW heard, Answer(r, heard),
         muddled \subseteq muddled'
  PROVE  \A q \in Requests : Runs(q)' /\ handler'[q].pc \in Writing => Stays(q)
BY DEF LimitInv, ContentInv, RecordInv, TypeOK, Answer, Runs, Stays

(* So is a handler that goes on after its append.                          *)
LEMMA LimitAdvance ==
  ASSUME LimitInv, NEW r \in Requests, Runs(r), handler[r].pc \in Writing,
         NEW pc \in Writing, NEW size,
         \/ handler' = [handler EXCEPT ![r].pc = pc]
         \/ handler' = [handler EXCEPT ![r].pc = pc, ![r].size = size],
         muddled \subseteq muddled'
  PROVE  \A q \in Requests : Runs(q)' /\ handler'[q].pc \in Writing => Stays(q)
<1>1. TypeOK /\ handler[r] \in Running
  BY ContentTypes DEF LimitInv
<1>2. /\ handler'[r].file = handler[r].file /\ handler'[r].index = handler[r].index
      /\ handler'[r].id = handler[r].id /\ handler'[r].recorded = handler[r].recorded
      /\ \A q \in Requests : q # r => handler'[q] = handler[q]
  BY <1>1 DEF TypeOK, Running
<1>3. QED
  BY <1>2 DEF Runs, Stays

(* The checks of the limits admit a handler.                               *)
LEMMA StatAdmits ==
  ASSUME LimitInv, NEW r \in Requests, Stat(r)
  PROVE  AllAdmitted' /\ WithinLimit'
<1> DEFINE h == handler[r]
<1>1. /\ Runs(r) /\ h.pc = "stat" /\ UNCHANGED <<rows, raced>>
  BY DEF Stat, Idle, Runs
<1>t. /\ TypeOK /\ h \in Running /\ h.file \in Files /\ h.index \in Nat
  BY <1>1, ContentTypes DEF LimitInv
<1>2. CASE /\ UNCHANGED <<owner, muddled>>
           /\ \/ Fail(r)
              \/ Answer(r, Corrected(h.file, ExpectedIndex(SizeOf(h.id))))
  BY <1>1, <1>2, LimitAnswer, LimitFrame DEF Fail
<1>3. CASE /\ h.index = ExpectedIndex(SizeOf(h.id))
           /\ Fits(h.recorded, SizeOf(h.id), ChunkLength(h.file, h.index))
           /\ \E i \in IF h.id = NoId THEN FirstUnused ELSE {h.id} :
                /\ handler' = [handler EXCEPT ![r].pc = "append", ![r].size = SizeOf(h.id),
                                              ![r].id = i]
                /\ muddled' = IF h.id = NoId THEN muddled \ {i} ELSE muddled
  <2>1. PICK i \in IF h.id = NoId THEN FirstUnused ELSE {h.id} :
                /\ handler' = [handler EXCEPT ![r].pc = "append", ![r].size = SizeOf(h.id),
                                              ![r].id = i]
                /\ muddled' = IF h.id = NoId THEN muddled \ {i} ELSE muddled
    BY <1>3
  <2>2. /\ handler'[r].index = h.index /\ handler'[r].file = h.file /\ handler'[r].id = i
        /\ handler'[r].recorded = h.recorded
        /\ \A q \in Requests : q # r => handler'[q] = handler[q]
    BY <1>t, <2>1 DEF TypeOK, Running
  <2>3. Admitted(r)'
    <3>1. SUFFICES ASSUME i \notin muddled'
                   PROVE  SumOfSizes(h.recorded) + h.index * ChunkSize
                            + ChunkLength(h.file, h.index) <= ShareLimit
      BY <2>2 DEF Admitted
    <3>2. h.id \notin muddled
      BY <1>t, <2>1, <3>1 DEF TypeOK, Ids, NoId
    <3>3. SizeOf(h.id) = h.index * ChunkSize
      BY <1>1, <1>3, <3>2, StatPlaces DEF LimitInv
    <3>4. QED
      BY <1>3, <3>3 DEF Fits
  <2>4. /\ \A j \in muddled : j # i => j \in muddled'
        /\ i \in muddled \ muddled' =>
             ~rows[i].there /\ \A q \in Requests : Runs(q) => handler[q].id # i
    BY <1>t, <2>1 DEF FirstUnused, Unused, Runs
  <2>5. ASSUME NEW q \in Requests, q # r PROVE Admitted(q)'
    <3>1. Runs(q)' /\ handler'[q].pc \in Writing => Stays(q)
      BY <2>2, <2>4, <2>5 DEF Runs, Stays
    <3>2. QED
      BY <3>1, StaysAdmitted DEF LimitInv
  <2>6. WithinLimit'
    BY <1>1, <2>4 DEF LimitInv, WithinLimit
  <2>7. QED
    BY <2>3, <2>5, <2>6 DEF AllAdmitted
<1>4. QED
  BY <1>2, <1>3 DEF Stat

(* A record adds what was admitted to what was read, which is what there   *)
(* is unless another file was recorded meanwhile.                          *)
LEMMA RecordWithin ==
  ASSUME LimitInv, NEW r \in Requests, handler[r].pc = "record", Runs(r),
         ~rows[handler[r].id].there,
         rows' = [rows EXCEPT ![handler[r].id] = [there |-> TRUE, size |-> handler[r].size]],
         raced' = (raced \/ rows # handler[r].recorded), UNCHANGED muddled
  PROVE  WithinLimit'
<1> DEFINE h == handler[r]  i == h.id
<1>1. SUFFICES ASSUME ~raced', \A j \in Ids : rows'[j].there => j \notin muddled
               PROVE  SumOfSizes(rows') <= ShareLimit
  BY DEF WithinLimit
<1>2. /\ h.pc \in Writing /\ h.pc \in Written /\ h.recorded = rows
  BY <1>1 DEF Writing, Written
<1>3. /\ TypeOK /\ h.file \in Files /\ h.index \in Nat /\ h.index < Chunks(h.file)
      /\ i \in Ids /\ h.size \in Nat
  BY <1>2, ContentTypes DEF LimitInv
<1>4. /\ rows'[i] = [there |-> TRUE, size |-> h.size]
      /\ \A j \in Ids : j # i => rows'[j] = rows[j]
      /\ rows' \in [Ids -> RowType] /\ rows \in [Ids -> RowType]
  BY <1>3 DEF TypeOK, RowType
<1>5. i \notin muddled
  BY <1>1, <1>3, <1>4
<1>6. SumOfSizes(rows) + h.index * ChunkSize + ChunkLength(h.file, h.index) <= ShareLimit
  BY <1>2, <1>5 DEF LimitInv, AllAdmitted, Admitted
<1>7. h.index * ChunkSize + ChunkLength(h.file, h.index) = Bytes[h.file]
  <2>1. IsLast(h.file, h.index)
    BY <1>2 DEF LimitInv, ContentInv, Paced, InPace, Runs
  <2>2. QED
    BY <1>3, <2>1, ChunkAdds
<1>8. h.size = Bytes[h.file]
  BY <1>5 DEF LimitInv, ContentInv, Contents, HandlersGood, RecordGood
<1>9. SumOfSizes(rows) \in Nat /\ SumOfSizes(rows') = SumOfSizes(rows) + h.size
  <2>1. SizeIn(rows', i) = SizeIn(rows, i) + h.size
    BY <1>3, <1>4 DEF SizeIn
  <2>2. QED
    <3> DEFINE j == h.id  size == h.size  more == rows'
    <3>1. /\ more \in [Ids -> RowType] /\ rows \in [Ids -> RowType] /\ j \in Ids /\ size \in Nat
          /\ \A k \in Ids : k # j => more[k] = rows[k]
          /\ SizeIn(more, j) = SizeIn(rows, j) + size
      BY <1>3, <1>4, <2>1
    <3> HIDE DEF j, size, more
    <3>2. SumOfSizes(rows) \in Nat /\ SumOfSizes(more) = SumOfSizes(rows) + size
      BY <3>1, SumsDiffer
    <3>3. QED
      BY <3>2 DEF more, size
<1>10. h.index * ChunkSize \in Nat /\ ChunkLength(h.file, h.index) \in Nat /\ ShareLimit \in Nat
  BY <1>3, ChunkAdds, ChunkLengthType, LimitsAssumption
<1>11. QED
  BY <1>6, <1>7, <1>8, <1>9, <1>10

(* Each step keeps to the limit.                                           *)
LEMMA LimitStep == LimitInv /\ [Next]_vars => AllAdmitted' /\ WithinLimit'
<1> SUFFICES ASSUME LimitInv, [Next]_vars PROVE AllAdmitted' /\ WithinLimit'
  OBVIOUS
<1>t. TypeOK
  BY ContentTypes DEF LimitInv
<1>s. ASSUME UNCHANGED <<handler, rows, raced>>, muddled \subseteq muddled'
      PROVE AllAdmitted' /\ WithinLimit'
  <2>1. \A q \in Requests : Runs(q)' /\ handler'[q].pc \in Writing => Stays(q)
    BY <1>s DEF Runs, Stays
  <2>2. QED
    BY <1>s, <2>1, LimitFrame
<1>i. ASSUME \A q \in Requests : handler'[q] = Idle, UNCHANGED <<rows, raced>>,
             muddled \subseteq muddled'
      PROVE AllAdmitted' /\ WithinLimit'
  <2>1. \A q \in Requests : Runs(q)' /\ handler'[q].pc \in Writing => Stays(q)
    BY <1>i DEF Runs
  <2>2. QED
    BY <1>i, <2>1, LimitFrame
<1>1. ASSUME NEW f \in Files, Send(f) PROVE AllAdmitted' /\ WithinLimit'
  <2>1. PICK r \in Requests : handler' = [handler EXCEPT ![r] =
               [pc |-> "read", file |-> f, id |-> client[f].id, index |-> client[f].index,
                live |-> TRUE, recorded |-> [i \in Ids |-> NoRow], size |-> 0]]
    BY <1>1 DEF Send
  <2>2. UNCHANGED <<rows, raced, muddled>>
    BY <1>1 DEF Send, histVars
  <2>3. \A q \in Requests : Runs(q)' /\ handler'[q].pc \in Writing => Stays(q)
    BY <1>t, <2>1, <2>2 DEF Runs, Stays, Writing, TypeOK
  <2>4. QED
    BY <2>2, <2>3, LimitFrame
<1>2. ASSUME NEW r \in Requests, Read(r) PROVE AllAdmitted' /\ WithinLimit'
  <2>1. Runs(r) /\ UNCHANGED <<rows, raced, muddled>>
    BY <1>2 DEF Read, histVars, Runs, Idle
  <2>2. CASE handler' = [handler EXCEPT ![r].pc = "stat", ![r].recorded = rows]
    <3>1. handler[r] \in Running
      BY <2>1, ContentTypes DEF LimitInv
    <3>2. handler'[r].pc = "stat" /\ \A q \in Requests : q # r => handler'[q] = handler[q]
      BY <1>t, <2>2, <3>1 DEF TypeOK, Running
    <3>3. \A q \in Requests : Runs(q)' /\ handler'[q].pc \in Writing => Stays(q)
      BY <2>1, <3>2 DEF Runs, Stays, Writing
    <3>4. QED
      BY <2>1, <3>3, LimitFrame
  <2>3. CASE Fail(r)
    BY <2>1, <2>3, LimitAnswer, LimitFrame DEF Fail
  <2>4. QED
    BY <1>2, <2>2, <2>3 DEF Read
<1>3. ASSUME NEW r \in Requests, Stat(r) PROVE AllAdmitted' /\ WithinLimit'
  BY <1>3, StatAdmits
<1>4. ASSUME NEW r \in Requests, Append(r) PROVE AllAdmitted' /\ WithinLimit'
  <2>1. /\ Runs(r) /\ handler[r].pc \in Writing /\ "move" \in Writing
        /\ UNCHANGED <<rows, raced>> /\ muddled \subseteq muddled'
    BY <1>4 DEF Append, Idle, Runs, Writing
  <2>2. CASE handler' = [handler EXCEPT ![r].pc = "move"]
    BY <2>1, <2>2, LimitAdvance, LimitFrame
  <2>3. CASE Fail(r) \/ Succeed(r)
    BY <2>1, <2>3, LimitAnswer, LimitFrame DEF Fail, Succeed
  <2>4. QED
    BY <1>4, <2>2, <2>3 DEF Append
<1>5. ASSUME NEW r \in Requests, Move(r) PROVE AllAdmitted' /\ WithinLimit'
  <2>1. /\ Runs(r) /\ handler[r].pc \in Writing /\ "check" \in Writing
        /\ UNCHANGED <<rows, raced, muddled>>
    BY <1>5 DEF Move, Idle, Runs, Writing, histVars
  <2>2. CASE handler' = [handler EXCEPT ![r].pc = "check"]
    BY <2>1, <2>2, LimitAdvance, LimitFrame
  <2>3. CASE Fail(r)
    BY <2>1, <2>3, LimitAnswer, LimitFrame DEF Fail
  <2>4. QED
    BY <1>5, <2>2, <2>3 DEF Move
<1>6. ASSUME NEW r \in Requests, Check(r) PROVE AllAdmitted' /\ WithinLimit'
  <2>1. /\ Runs(r) /\ handler[r].pc \in Writing /\ "record" \in Writing
        /\ UNCHANGED <<rows, raced, muddled>>
    BY <1>6 DEF Check, Idle, Runs, Writing, histVars
  <2>2. CASE handler' = [handler EXCEPT ![r].pc = "record", ![r].size = disk[handler[r].id].size]
    BY <2>1, <2>2, LimitAdvance, LimitFrame
  <2>3. CASE Fail(r)
    BY <2>1, <2>3, LimitAnswer, LimitFrame DEF Fail
  <2>4. QED
    BY <1>6, <2>2, <2>3 DEF Check
<1>7. ASSUME NEW r \in Requests, Record(r) PROVE AllAdmitted' /\ WithinLimit'
  <2>1. Runs(r) /\ handler[r].pc = "record" /\ UNCHANGED muddled
    BY <1>7 DEF Record, Idle, Runs
  <2>2. CASE Fail(r) /\ UNCHANGED <<rows, raced>>
    BY <2>1, <2>2, LimitAnswer, LimitFrame DEF Fail
  <2>3. CASE /\ ~rows[handler[r].id].there
             /\ rows' = [rows EXCEPT ![handler[r].id] = [there |-> TRUE, size |-> handler[r].size]]
             /\ raced' = (raced \/ rows # handler[r].recorded)
             /\ Succeed(r)
    <3>1. WithinLimit'
      BY <2>1, <2>3, RecordWithin
    <3>2. \A q \in Requests : Runs(q)' /\ handler'[q].pc \in Writing => Stays(q)
      BY <2>1, <2>3, LimitAnswer DEF Succeed
    <3>3. AllAdmitted'
      BY <3>2, StaysAdmitted DEF AllAdmitted, LimitInv
    <3>4. QED
      BY <3>1, <3>3
  <2>4. QED
    BY <1>7, <2>2, <2>3 DEF Record
<1>8. ASSUME NEW f \in Files, SendFails(f) PROVE AllAdmitted' /\ WithinLimit'
  BY <1>8, <1>s DEF SendFails, histVars
<1>9. ASSUME NEW r \in Requests, LoseAnswer(r) PROVE AllAdmitted' /\ WithinLimit'
  <2>1. /\ Runs(r) /\ handler' = [handler EXCEPT ![r].live = FALSE]
        /\ UNCHANGED <<rows, raced, muddled>>
    BY <1>9 DEF LoseAnswer, Runs
  <2>2. handler[r] \in Running
    BY <2>1, ContentTypes DEF LimitInv
  <2>3. /\ handler'[r].pc = handler[r].pc
        /\ handler'[r].file = handler[r].file /\ handler'[r].index = handler[r].index
        /\ handler'[r].id = handler[r].id /\ handler'[r].recorded = handler[r].recorded
        /\ \A q \in Requests : q # r => handler'[q] = handler[q]
    BY <1>t, <2>1, <2>2 DEF TypeOK, Running
  <2>4. \A q \in Requests : Runs(q)' /\ handler'[q].pc \in Writing => Stays(q)
    BY <2>1, <2>3 DEF Runs, Stays
  <2>5. QED
    BY <2>1, <2>4, LimitFrame
<1>10. ASSUME Restart PROVE AllAdmitted' /\ WithinLimit'
  BY <1>10, <1>i DEF Restart, AllHandlersEnd
<1>11. ASSUME NEW r \in Requests, RestartTears(r) PROVE AllAdmitted' /\ WithinLimit'
  BY <1>11, <1>i DEF RestartTears, AllHandlersEnd
<1>12. ASSUME \/ \E i \in Ids : DeleteTemporary(i)
              \/ Complete \/ RevertComplete \/ RemoveFiles
       PROVE  AllAdmitted' /\ WithinLimit'
  BY <1>12, <1>s DEF DeleteTemporary, Complete, RevertComplete, RemoveFiles, histVars
<1>13. ASSUME RemoveRow PROVE AllAdmitted' /\ WithinLimit'
  <2>1. UNCHANGED <<handler, muddled>> /\ \A i \in Ids : ~rows'[i].there
    BY <1>13 DEF RemoveRow, histVars, NoRow
  <2>2. \A q \in Requests : Runs(q)' /\ handler'[q].pc \in Writing => Stays(q)
    BY <2>1 DEF Runs, Stays
  <2>3. AllAdmitted'
    BY <2>2, StaysAdmitted DEF AllAdmitted, LimitInv
  <2>4. SumOfSizes(rows') = 0
    BY <2>1, SumOfNone
  <2>5. QED
    BY <2>3, <2>4, LimitsAssumption DEF WithinLimit
<1>14. ASSUME UNCHANGED vars PROVE AllAdmitted' /\ WithinLimit'
  BY <1>14, <1>s DEF vars, histVars
<1>15. QED
  BY <1>1, <1>2, <1>3, <1>4, <1>5, <1>6, <1>7, <1>8, <1>9, <1>10, <1>11, <1>12, <1>13, <1>14
  DEF Next, HandlerStep, AllEnded

(* The files of a share exceed its limit only if one was recorded while    *)
(* another handler was between its reading of the sum and its own record,  *)
(* or two handlers appended to one file: one handler by itself never       *)
(* passes the limit, in however many chunks and retries.                   *)
THEOREM LimitPassedOnlyByRaces == Spec => []LimitOnlyRaced
<1>1. Init => LimitInv
  <2> SUFFICES ASSUME Init PROVE LimitInv
    OBVIOUS
  <2>1. SumOfSizes(rows) = 0
    BY SumOfNone DEF Init, NoRow
  <2>2. AllAdmitted /\ WithinLimit
    BY <2>1, LimitsAssumption DEF Init, AllAdmitted, Admitted, Runs, WithinLimit
  <2>3. QED
    BY <2>2, ContentInit DEF LimitInv
<1>2. LimitInv /\ [Next]_vars => LimitInv'
  BY LimitStep, ContentInvStep DEF LimitInv
<1>3. LimitInv => LimitOnlyRaced
  <2> SUFFICES ASSUME LimitInv, ~raced, muddled = {} PROVE ~(SumOfSizes(rows) > ShareLimit)
    BY DEF LimitOnlyRaced
  <2>1. SumOfSizes(rows) <= ShareLimit
    BY DEF LimitInv, WithinLimit
  <2>2. SumOfSizes(rows) \in Nat
    BY SumType, ContentTypes DEF LimitInv, TypeOK
  <2>3. QED
    BY <2>1, <2>2, LimitsAssumption
<1>4. QED
  BY <1>1, <1>2, <1>3, PTL DEF Spec
=============================================================================
