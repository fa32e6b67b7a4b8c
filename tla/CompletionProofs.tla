-------------------------- MODULE CompletionProofs --------------------------
(* Proofs about Completion, for every number of files, calls, events of the  *)
(* owner and failures.                                                       *)
EXTENDS Completion, FiniteSetTheorems, TLAPS

USE FilesAssumption, BoundsAssumption

----------------------------------------------------------------------------
(* Types                                                                    *)

\* A call, with the rule that it has a file exactly in the steps that work on one.
CallOK(q) == q \in CallType /\ ((q.file \in Files) <=> (q.pc \in FilePcs))
ZipOK(q) == q \in ZipType

LEMMA ContentsFacts ==
  /\ Absent \in Contents /\ Uploaded \in Contents /\ Torn \in Contents
  /\ \A content \in Contents : Signed(content) \in Contents
BY DEF Absent, Uploaded, Torn, Contents, Signed

LEMMA EndedOK ==
  ASSUME NEW pc \in CallPcs \ FilePcs
  PROVE  CallOK(EndedCall(pc)) /\ EndedCall(pc).pc = pc
<1>1. IdleCall \in CallType /\ IdleCall.file = NoFile
  BY ContentsFacts DEF IdleCall, CallType, CallPcs
<1>2. EndedCall(pc) \in CallType /\ EndedCall(pc).file = NoFile /\ EndedCall(pc).pc = pc
  BY <1>1 DEF EndedCall, CallType
<1> QED BY <1>2 DEF CallOK

\* Each call becomes one that is in order.
LEMMA CallsTyped ==
  ASSUME TypeOK, NEW new, call' = [c \in Calls |-> new[c]], \A c \in Calls : CallOK(new[c])
  PROVE  /\ call' \in [Calls -> CallType]
         /\ \A c \in Calls : (call'[c].file \in Files) <=> (call'[c].pc \in FilePcs)
BY DEF CallOK

LEMMA CallsAre == ASSUME TypeOK PROVE \A c \in Calls : CallOK(call[c])
  BY DEF TypeOK, CallOK

\* One call becomes another.
LEMMA CallTyped ==
  ASSUME TypeOK, NEW c \in Calls, NEW q, CallOK(q), call' = [call EXCEPT ![c] = q]
  PROVE  /\ call' \in [Calls -> CallType]
         /\ \A d \in Calls : (call'[d].file \in Files) <=> (call'[d].pc \in FilePcs)
<1>1. q \in CallType BY DEF CallOK
<1>2. call' \in [Calls -> CallType] BY <1>1 DEF TypeOK
<1>3. call'[c] = q /\ \A d \in Calls \ {c} : call'[d] = call[d] BY DEF TypeOK
<1> QED BY <1>2, <1>3, CallsAre DEF CallOK

\* The outputs of ffmpeg are renamed or unlinked, and nothing else of the calls changes.
LEMMA OutputsOK ==
  ASSUME TypeOK, NEW f \in Files, NEW place \in {"tmp", "disk"}, NEW c \in Calls
  PROVE  /\ CallOK(Moved(f)[c]) /\ Moved(f)[c].pc = call[c].pc
         /\ Moved(f)[c].file = call[c].file
         /\ CallOK(Unlinked(f, place)[c]) /\ Unlinked(f, place)[c].pc = call[c].pc
         /\ Unlinked(f, place)[c].file = call[c].file
<1>1. CallOK(call[c]) /\ call[c] \in CallType BY CallsAre DEF CallOK
<1>2. \A out \in {"disk", "gone"} :
        LET q == [call[c] EXCEPT !.output = out]
        IN  q \in CallType /\ q.pc = call[c].pc /\ q.file = call[c].file
  BY <1>1 DEF CallType
<1>3. \/ Moved(f)[c] = call[c]
      \/ \E out \in {"disk", "gone"} : Moved(f)[c] = [call[c] EXCEPT !.output = out]
  BY DEF Moved
<1>4. \/ Unlinked(f, place)[c] = call[c]
      \/ Unlinked(f, place)[c] = [call[c] EXCEPT !.output = "gone"]
  BY DEF Unlinked
<1>5. Moved(f)[c] \in CallType /\ Moved(f)[c].pc = call[c].pc /\ Moved(f)[c].file = call[c].file
  BY <1>1, <1>2, <1>3
<1>6. /\ Unlinked(f, place)[c] \in CallType /\ Unlinked(f, place)[c].pc = call[c].pc
      /\ Unlinked(f, place)[c].file = call[c].file
  BY <1>1, <1>2, <1>4
<1> QED BY <1>1, <1>5, <1>6 DEF CallOK

LEMMA PcsAre ==
  /\ FilePcs \subseteq CallPcs
  /\ {"idle", "check", "list", "hash", "count", "lock", "done", "refused", "dead"}
       \subseteq CallPcs \ FilePcs
BY DEF FilePcs, CallPcs

\* A call between the files keeps its list and has no file.
LEMMA GotoOK ==
  ASSUME TypeOK, NEW c \in Calls, NEW pc \in CallPcs, (call[c].pc \in FilePcs) <=> (pc \in FilePcs)
  PROVE  CallOK([call[c] EXCEPT !.pc = pc])
<1>1. CallOK(call[c]) BY CallsAre
<1> QED BY <1>1 DEF CallOK, CallType

LEMMA ListTypes ==
  ASSUME TypeOK, NEW c \in Calls, Read(c) \/ Check(c) \/ List(c) PROVE TypeOK'
<1>1. CASE Read(c)
  <2> DEFINE nothing == (Entries = 0)
             q == [call[c] EXCEPT !.pc = "check", !.nothing = nothing]
  <2>1. CallOK(call[c]) /\ call[c].pc = "idle" BY <1>1, CallsAre DEF Read, At
  <2>2. CallOK(q)
    <3>1. nothing \in BOOLEAN OBVIOUS
    <3> HIDE DEF nothing
    <3> QED BY <2>1, <3>1, PcsAre DEF CallOK, CallType
  <2>3. call' = [call EXCEPT ![c] = q] BY <1>1 DEF Read, TypeOK
  <2>4. crossed' \in BOOLEAN BY <1>1 DEF Read, TypeOK
  <2>5. /\ call' \in [Calls -> CallType]
        /\ \A d \in Calls : (call'[d].file \in Files) <=> (call'[d].pc \in FilePcs)
    BY <2>2, <2>3, CallTyped
  <2> QED BY <1>1, <2>4, <2>5 DEF Read, TypeOK, rowVars, diskVars, ownerVars
<1>2. CASE Check(c)
  <2>1. PICK pc \in {"refused", "list"} : call' = [call EXCEPT ![c] = EndedCall(pc)]
    BY <1>2 DEF Check
  <2>2. CallOK(EndedCall(pc)) BY EndedOK, PcsAre
  <2>3. /\ call' \in [Calls -> CallType]
        /\ \A d \in Calls : (call'[d].file \in Files) <=> (call'[d].pc \in FilePcs)
    BY <2>1, <2>2, CallTyped
  <2>4. crossed' \in BOOLEAN BY <1>2 DEF Check, TypeOK, histVars
  <2> QED BY <1>2, <2>3, <2>4 DEF Check, TypeOK, rowVars, diskVars, ownerVars, histVars
<1>3. CASE List(c)
  <2> DEFINE pc == IF rows = {} THEN "count" ELSE "hash"
             q == [call[c] EXCEPT !.pc = pc, !.todo = rows]
  <2>1. CallOK(call[c]) /\ call[c].pc = "list" BY <1>3, CallsAre DEF List, At
  <2>2. CallOK(q) BY <2>1, PcsAre DEF CallOK, CallType, TypeOK
  <2>3. call' = [call EXCEPT ![c] = q] BY <1>3 DEF List, TypeOK
  <2>4. /\ call' \in [Calls -> CallType]
        /\ \A d \in Calls : (call'[d].file \in Files) <=> (call'[d].pc \in FilePcs)
    BY <2>2, <2>3, CallTyped
  <2>5. crossed' \in BOOLEAN BY <1>3 DEF List, TypeOK, histVars
  <2> QED BY <1>3, <2>4, <2>5 DEF List, TypeOK, rowVars, diskVars, ownerVars, histVars
<1> QED BY <1>1, <1>2, <1>3

LEMMA LeaveTyped ==
  ASSUME TypeOK, NEW c \in Calls, LeaveCertificates(c)
  PROVE  /\ call' \in [Calls -> CallType]
         /\ \A d \in Calls : (call'[d].file \in Files) <=> (call'[d].pc \in FilePcs)
<1>1. CallOK(EndedCall("count")) BY EndedOK, PcsAre
<1> QED BY <1>1, CallTyped DEF LeaveCertificates

LEMMA HashTypes ==
  ASSUME TypeOK, NEW c \in Calls, Hash(c) PROVE TypeOK'
<1>1. PICK f \in call[c].todo :
       IF disk[f] = Absent THEN LeaveCertificates(c) /\ UNCHANGED tmp
       ELSE IF f \notin Videos
       THEN /\ call' = [call EXCEPT ![c].pc = "rehash", ![c].file = f]
            /\ UNCHANGED tmp
       ELSE LET others == WritersTo(f, "tmp") IN
            /\ tmp' = [tmp EXCEPT ![f] = Torn]
            /\ call' = [d \in Calls |->
                 IF d = c THEN [call[c] EXCEPT !.pc = "sign", !.file = f, !.original = disk[f],
                                               !.output = "tmp", !.alone = (others = {})]
                 ELSE IF d \in others THEN [call[d] EXCEPT !.alone = FALSE]
                 ELSE call[d]]
  BY DEF Hash
<1>2. CallOK(call[c]) /\ f \in Files /\ call[c].pc = "hash" /\ disk[f] \in Contents
  BY CallsAre DEF Hash, At, CallOK, CallType, TypeOK
<1>3. /\ tmp' \in [Files -> Contents] /\ call' \in [Calls -> CallType]
      /\ \A d \in Calls : (call'[d].file \in Files) <=> (call'[d].pc \in FilePcs)
  <2>1. CASE disk[f] = Absent BY <1>1, <2>1, LeaveTyped DEF TypeOK
  <2>2. CASE disk[f] # Absent /\ f \notin Videos
    <3> DEFINE q == [call[c] EXCEPT !.pc = "rehash", !.file = f]
    <3>1. CallOK(q) BY <1>2 DEF CallOK, CallType, CallPcs, FilePcs
    <3>2. call' = [call EXCEPT ![c] = q] BY <1>1, <2>2 DEF TypeOK
    <3> QED BY <1>1, <2>2, <3>1, <3>2, CallTyped DEF TypeOK
  <2>3. CASE disk[f] # Absent /\ f \in Videos
    <3> DEFINE others == WritersTo(f, "tmp")
               alone == others = {}
               q == [call[c] EXCEPT !.pc = "sign", !.file = f, !.original = disk[f],
                                    !.output = "tmp", !.alone = alone]
               new == [d \in Calls |->
                        IF d = c THEN q
                        ELSE IF d \in others THEN [call[d] EXCEPT !.alone = FALSE]
                        ELSE call[d]]
    <3>1. tmp' = [tmp EXCEPT ![f] = Torn] /\ call' = new BY <1>1, <2>3
    <3>2. tmp' \in [Files -> Contents] BY <3>1, ContentsFacts DEF TypeOK
    <3>3. CallOK(q)
      <4>1. alone \in BOOLEAN OBVIOUS
      <4> HIDE DEF alone
      <4> QED BY <1>2, <4>1 DEF CallOK, CallType, CallPcs, FilePcs
    <3>4. \A d \in Calls : CallOK([call[d] EXCEPT !.alone = FALSE])
      BY CallsAre DEF CallOK, CallType
    <3> HIDE DEF q, others
    <3>5. \A d \in Calls : CallOK(new[d]) BY <3>3, <3>4, CallsAre
    <3>6. call' = [d \in Calls |-> new[d]] BY <3>1
    <3> HIDE DEF new
    <3> QED BY <3>2, <3>5, <3>6, CallsTyped
  <2> QED BY <2>1, <2>2, <2>3
<1>4. crossed' \in BOOLEAN BY DEF Hash, TypeOK, histVars
<1> QED BY <1>3, <1>4 DEF Hash, TypeOK, rowVars, ownerVars, histVars

LEMMA SignTypes ==
  ASSUME TypeOK, NEW c \in Calls, Sign(c) \/ SignFails(c) PROVE TypeOK'
<1>1. CallOK(call[c]) /\ call[c].pc = "sign" /\ call[c].pc \in FilePcs
  BY CallsAre DEF Sign, SignFails, At, FilePcs
<1>2. call[c].file \in Files /\ call[c] \in CallType BY <1>1 DEF CallOK
<1>3. CASE Sign(c)
  <2>1. PICK content \in {Signed(call[c].original), Torn} :
          /\ tmp' = IF call[c].output = "tmp" THEN [tmp EXCEPT ![call[c].file] = content] ELSE tmp
          /\ disk' = IF call[c].output = "disk" THEN [disk EXCEPT ![call[c].file] = content]
                     ELSE disk
    BY <1>3 DEF Sign
  <2>2. content \in Contents BY <1>2, ContentsFacts DEF CallType
  <2>3. tmp' \in [Files -> Contents] /\ disk' \in [Files -> Contents]
    BY <2>1, <2>2 DEF TypeOK
  <2> DEFINE q == [call[c] EXCEPT !.pc = "stat", !.output = "none", !.alone = TRUE]
  <2>4. CallOK(q) BY <1>1, <1>2 DEF CallOK, CallType, CallPcs, FilePcs
  <2>5. call' = [call EXCEPT ![c] = q] BY <1>3 DEF Sign, TypeOK
  <2>6. /\ call' \in [Calls -> CallType]
        /\ \A d \in Calls : (call'[d].file \in Files) <=> (call'[d].pc \in FilePcs)
    BY <2>4, <2>5, CallTyped
  <2>7. crossed' \in BOOLEAN BY <1>3 DEF Sign, TypeOK, histVars
  <2> QED BY <1>3, <2>3, <2>6, <2>7 DEF Sign, TypeOK, rowVars, ownerVars, histVars
<1>4. CASE SignFails(c)
  <2> DEFINE f == call[c].file
             q == [EndedCall("rehash") EXCEPT !.todo = call[c].todo, !.file = f]
             new == [Unlinked(f, "tmp") EXCEPT ![c] = q]
  <2>1. tmp' = [tmp EXCEPT ![f] = Absent] /\ call' = new BY <1>4 DEF SignFails
  <2>2. tmp' \in [Files -> Contents] BY <2>1, ContentsFacts DEF TypeOK
  <2>3. CallOK(q)
    <3>1. IdleCall \in CallType BY ContentsFacts DEF IdleCall, CallType, CallPcs
    <3>2. EndedCall("rehash") \in CallType /\ EndedCall("rehash").pc = "rehash"
      BY <3>1 DEF EndedCall, CallType, CallPcs
    <3> QED BY <1>2, <3>2 DEF CallOK, CallType, FilePcs
  <2> HIDE DEF q
  <2>4. /\ new = [d \in Calls |-> new[d]]
        /\ \A d \in Calls : new[d] = IF d = c THEN q ELSE Unlinked(f, "tmp")[d]
    BY DEF Unlinked
  <2> HIDE DEF new
  <2>5. \A d \in Calls : CallOK(new[d]) BY <1>2, <2>3, <2>4, OutputsOK
  <2>6. /\ call' \in [Calls -> CallType]
        /\ \A d \in Calls : (call'[d].file \in Files) <=> (call'[d].pc \in FilePcs)
    BY <2>1, <2>4, <2>5, CallsTyped
  <2>7. crossed' \in BOOLEAN BY <1>4 DEF SignFails, TypeOK, histVars
  <2> QED BY <1>4, <2>2, <2>6, <2>7 DEF SignFails, TypeOK, rowVars, ownerVars, histVars
<1> QED BY <1>3, <1>4

LEMMA MoveTypes ==
  ASSUME TypeOK, NEW c \in Calls, Stat(c) \/ Move(c) \/ Record(c) \/ Rehash(c) PROVE TypeOK'
<1>1. CallOK(call[c]) /\ call[c].pc \in FilePcs
  BY CallsAre DEF Stat, Move, Record, Rehash, At, FilePcs
<1>2. call[c].file \in Files /\ call[c] \in CallType BY <1>1 DEF CallOK
<1>3. crossed' \in BOOLEAN BY DEF Stat, Move, Record, Rehash, TypeOK, histVars
<1>4. CASE LeaveCertificates(c)
  <2>1. /\ call' \in [Calls -> CallType]
        /\ \A d \in Calls : (call'[d].file \in Files) <=> (call'[d].pc \in FilePcs)
    BY <1>4, LeaveTyped
  <2>2. /\ disk' \in [Files -> Contents] /\ tmp' \in [Files -> Contents]
        /\ size' \in [Files -> Contents]
    <3>1. CASE Stat(c) BY <3>1 DEF Stat, TypeOK, rowVars, diskVars
    <3>2. CASE Move(c)
      <4>1. /\ disk' = disk \/ disk' = [disk EXCEPT ![call[c].file] = tmp[call[c].file]]
            /\ tmp' = tmp \/ tmp' = [tmp EXCEPT ![call[c].file] = Absent]
            /\ size' = size
        BY <3>2 DEF Move, rowVars
      <4>2. /\ disk \in [Files -> Contents] /\ tmp \in [Files -> Contents]
            /\ size \in [Files -> Contents] /\ Absent \in Contents
        BY ContentsFacts DEF TypeOK
      <4>3. tmp[call[c].file] \in Contents BY <1>2, <4>2
      <4> QED BY <4>1, <4>2, <4>3
    <3>3. CASE Record(c) BY <1>2, <3>3 DEF Record, TypeOK, diskVars, CallType
    <3>4. CASE Rehash(c) BY <3>4 DEF Rehash, TypeOK, rowVars, diskVars
    <3> QED BY <3>1, <3>2, <3>3, <3>4
  <2> QED BY <1>3, <2>1, <2>2
      DEF Stat, Move, Record, Rehash, TypeOK, rowVars, diskVars, ownerVars, histVars
<1>5. CASE Stat(c) /\ ~LeaveCertificates(c)
  <2> DEFINE q == [call[c] EXCEPT !.pc = "move", !.final = tmp[call[c].file]]
  <2>1. call' = [call EXCEPT ![c] = q] BY <1>5 DEF Stat, TypeOK
  <2>2. tmp[call[c].file] \in Contents BY <1>2 DEF TypeOK
  <2>3. CallOK(q) BY <1>1, <1>2, <2>2 DEF CallOK, CallType, CallPcs, FilePcs
  <2>4. /\ call' \in [Calls -> CallType]
        /\ \A d \in Calls : (call'[d].file \in Files) <=> (call'[d].pc \in FilePcs)
    BY <2>1, <2>3, CallTyped
  <2> QED BY <1>3, <1>5, <2>4 DEF Stat, TypeOK, rowVars, diskVars, ownerVars, histVars
<1>6. CASE Move(c) /\ ~LeaveCertificates(c)
  <2> DEFINE f == call[c].file
             q == [Moved(f)[c] EXCEPT !.pc = "record"]
             new == [Moved(f) EXCEPT ![c] = q]
  <2>1. /\ disk' = [disk EXCEPT ![f] = tmp[f]] /\ tmp' = [tmp EXCEPT ![f] = Absent]
        /\ call' = [Moved(f) EXCEPT ![c].pc = "record"]
    BY <1>6 DEF Move
  <2>2. disk' \in [Files -> Contents] /\ tmp' \in [Files -> Contents]
    BY <1>2, <2>1, ContentsFacts DEF TypeOK
  <2>3. \A d \in Calls : CallOK(Moved(f)[d]) /\ Moved(f)[d].pc = call[d].pc BY <1>2, OutputsOK
  <2>4. CallOK(q) BY <1>1, <2>3 DEF CallOK, CallType, CallPcs, FilePcs
  <2>5. call' = new BY <2>1 DEF Moved
  <2>6. /\ new = [d \in Calls |-> new[d]]
        /\ \A d \in Calls : new[d] = IF d = c THEN q ELSE Moved(f)[d]
    BY DEF Moved
  <2> HIDE DEF new, q
  <2>7. \A d \in Calls : CallOK(new[d]) BY <2>3, <2>4, <2>6
  <2>8. /\ call' \in [Calls -> CallType]
        /\ \A d \in Calls : (call'[d].file \in Files) <=> (call'[d].pc \in FilePcs)
    BY <2>5, <2>6, <2>7, CallsTyped
  <2> QED BY <1>3, <1>6, <2>2, <2>8 DEF Move, TypeOK, rowVars, ownerVars, histVars
<1>7. CASE Record(c) /\ ~LeaveCertificates(c)
  <2> DEFINE q == [call[c] EXCEPT !.pc = "pdf"]
  <2>1. call' = [call EXCEPT ![c] = q] BY <1>7 DEF Record, Goto, TypeOK
  <2>2. CallOK(q) BY <1>1, <1>2 DEF CallOK, CallType, CallPcs, FilePcs
  <2>3. /\ call' \in [Calls -> CallType]
        /\ \A d \in Calls : (call'[d].file \in Files) <=> (call'[d].pc \in FilePcs)
    BY <2>1, <2>2, CallTyped
  <2>4. size' \in [Files -> Contents] BY <1>2, <1>7 DEF Record, TypeOK, CallType
  <2> QED BY <1>3, <1>7, <2>3, <2>4 DEF Record, TypeOK, diskVars, ownerVars, histVars
<1>8. CASE Rehash(c) /\ ~LeaveCertificates(c)
  <2> DEFINE content == disk[call[c].file]
             q == [call[c] EXCEPT !.pc = "pdf", !.original = content, !.final = content]
  <2>1. call' = [call EXCEPT ![c] = q] BY <1>8 DEF Rehash, TypeOK
  <2>2. content \in Contents BY <1>2 DEF TypeOK
  <2>3. CallOK(q) BY <1>1, <1>2, <2>2 DEF CallOK, CallType, CallPcs, FilePcs
  <2>4. /\ call' \in [Calls -> CallType]
        /\ \A d \in Calls : (call'[d].file \in Files) <=> (call'[d].pc \in FilePcs)
    BY <2>1, <2>3, CallTyped
  <2> QED BY <1>3, <1>8, <2>4 DEF Rehash, TypeOK, rowVars, diskVars, ownerVars, histVars
<1> QED BY <1>4, <1>5, <1>6, <1>7, <1>8

\* A PDF is opened, and perhaps another call was writing it.
LEMMA OpenPdfTypes ==
  ASSUME TypeOK, NEW c \in Calls, OpenPdf(c) PROVE TypeOK'
<1> DEFINE f == call[c].file
           others == {d \in Calls : At(d, "write") /\ call[d].file = f}
           alone == others = {}
           q == [call[c] EXCEPT !.pc = "write", !.alone = alone]
           new == [d \in Calls |-> IF d = c THEN q
                                   ELSE IF d \in others THEN [call[d] EXCEPT !.alone = FALSE]
                                   ELSE call[d]]
<1>1. CallOK(call[c]) /\ call[c].pc = "pdf" BY CallsAre DEF OpenPdf, At
<1>2. f \in Files BY <1>1 DEF CallOK, FilePcs
<1>3. pdf' = [pdf EXCEPT ![f] = Torn] /\ call' = new BY DEF OpenPdf
<1>4. pdf' \in [Files -> Contents] BY <1>3, ContentsFacts DEF TypeOK
<1>5. CallOK(q)
  <2>1. alone \in BOOLEAN OBVIOUS
  <2> HIDE DEF alone
  <2> QED BY <1>1, <1>2, <2>1 DEF CallOK, CallType, CallPcs, FilePcs
<1>6. \A d \in Calls : CallOK([call[d] EXCEPT !.alone = FALSE])
  BY CallsAre DEF CallOK, CallType
<1> HIDE DEF q, others
<1>7. \A d \in Calls : CallOK(new[d]) BY <1>5, <1>6, CallsAre
<1>8. call' = [d \in Calls |-> new[d]] BY <1>3
<1> HIDE DEF new
<1>9. /\ call' \in [Calls -> CallType]
      /\ \A d \in Calls : (call'[d].file \in Files) <=> (call'[d].pc \in FilePcs)
  BY <1>7, <1>8, CallsTyped
<1>10. crossed' \in BOOLEAN BY DEF OpenPdf, TypeOK, histVars
<1> QED BY <1>4, <1>9, <1>10 DEF OpenPdf, TypeOK, rowVars, ownerVars, histVars

LEMMA CertifyTypes ==
  ASSUME TypeOK, NEW c \in Calls, WritePdf(c) \/ PdfFails(c) \/ Certify(c) PROVE TypeOK'
<1>1. CallOK(call[c]) /\ call[c].pc \in FilePcs
  BY CallsAre DEF WritePdf, Written, PdfFails, Certify, At, FilePcs
<1>2. call[c].file \in Files /\ call[c] \in CallType BY <1>1 DEF CallOK
<1>3. crossed' \in BOOLEAN BY DEF WritePdf, Written, PdfFails, Certify, TypeOK, histVars
<1>4. CASE WritePdf(c)
  <2> DEFINE q == [call[c] EXCEPT !.pc = "certify", !.alone = TRUE]
  <2>1. call' = [call EXCEPT ![c] = q] BY <1>4 DEF WritePdf, Written, TypeOK
  <2>2. CallOK(q) BY <1>1, <1>2 DEF CallOK, CallType, CallPcs, FilePcs
  <2>3. /\ call' \in [Calls -> CallType]
        /\ \A d \in Calls : (call'[d].file \in Files) <=> (call'[d].pc \in FilePcs)
    BY <2>1, <2>2, CallTyped
  <2>4. PICK content \in {call[c].final, Torn} : pdf' = [pdf EXCEPT ![call[c].file] = content]
    BY <1>4 DEF WritePdf, Written
  <2>5. content \in Contents BY <1>2, <2>4, ContentsFacts DEF CallType
  <2>6. pdf' \in [Files -> Contents] BY <2>4, <2>5 DEF TypeOK
  <2> QED BY <1>3, <1>4, <2>3, <2>6 DEF WritePdf, Written, TypeOK, rowVars, ownerVars
<1>6. CASE PdfFails(c)
  <2>1. /\ call' \in [Calls -> CallType]
        /\ \A d \in Calls : (call'[d].file \in Files) <=> (call'[d].pc \in FilePcs)
    BY <1>6, LeaveTyped DEF PdfFails
  <2>2. faults' \in 0..MaxFaults BY <1>6 DEF PdfFails, TypeOK
  <2> QED BY <1>2, <1>3, <1>6, <2>1, <2>2 DEF PdfFails, TypeOK, rowVars, diskVars, ownerVars
<1>5. CASE Certify(c)
  <2> DEFINE left == call[c].todo \ {call[c].file}
             pc == IF left = {} THEN "count" ELSE "hash"
             q == [EndedCall(pc) EXCEPT !.todo = left]
  <2>1. call' = [call EXCEPT ![c] = q] BY <1>5 DEF Certify
  <2>2. CallOK(EndedCall(pc)) /\ EndedCall(pc).pc = pc BY EndedOK, PcsAre
  <2>3. left \subseteq Files BY <1>2 DEF CallType
  <2> HIDE DEF left, pc
  <2>4. CallOK(q) BY <2>2, <2>3 DEF CallOK, CallType
  <2>5. /\ call' \in [Calls -> CallType]
        /\ \A d \in Calls : (call'[d].file \in Files) <=> (call'[d].pc \in FilePcs)
    BY <2>1, <2>4, CallTyped
  <2>6. certs' \in Nat BY <1>5 DEF Certify, TypeOK
  <2> QED BY <1>3, <1>5, <2>5, <2>6 DEF Certify, TypeOK, diskVars, ownerVars, histVars
<1> QED BY <1>4, <1>5, <1>6

LEMMA LockTypes ==
  ASSUME TypeOK, NEW c \in Calls, Count(c) \/ Lock(c) PROVE TypeOK'
<1>1. PICK pc \in {"lock", "done"} : call' = [call EXCEPT ![c].pc = pc]
  BY DEF Count, Lock, Goto
<1>2. call[c].pc \notin FilePcs /\ pc \in CallPcs /\ pc \notin FilePcs
  BY PcsAre DEF Count, Lock, At
<1>3. CallOK([call[c] EXCEPT !.pc = pc]) BY <1>2, GotoOK
<1>4. call' = [call EXCEPT ![c] = [call[c] EXCEPT !.pc = pc]] BY <1>1 DEF TypeOK
<1>5. /\ call' \in [Calls -> CallType]
      /\ \A d \in Calls : (call'[d].file \in Files) <=> (call'[d].pc \in FilePcs)
  BY <1>3, <1>4, CallTyped
<1>6. crossed' \in BOOLEAN BY DEF Count, Lock, TypeOK, histVars
<1>7. zip' \in [Calls -> ZipType]
  <2>1. CASE Count(c)
    <3>1. PICK zpc \in {"list", "none"} : zip' = [zip EXCEPT ![c].pc = zpc] BY <2>1 DEF Count
    <3>2. zip[c] \in ZipType /\ {"list", "none"} \subseteq ZipPcs BY DEF TypeOK, ZipPcs
    <3>3. [zip[c] EXCEPT !.pc = zpc] \in ZipType BY <3>2 DEF ZipType
    <3> QED BY <3>1, <3>3 DEF TypeOK
  <2>2. CASE Lock(c) BY <2>2 DEF Lock, TypeOK
  <2> QED BY <2>1, <2>2
<1>8. share' \in [locked : BOOLEAN, ready : BOOLEAN]
  BY DEF Count, Lock, TypeOK, rowVars
<1> QED
  BY <1>5, <1>6, <1>7, <1>8 DEF Count, Lock, TypeOK, rowVars, diskVars, ownerVars, histVars

LEMMA ZipTyped ==
  ASSUME TypeOK, NEW c \in Calls, NEW q \in ZipType, zip' = [zip EXCEPT ![c] = q]
  PROVE  zip' \in [Calls -> ZipType]
BY DEF TypeOK

LEMMA ZipsAre ==
  /\ \A pc \in ZipPcs : /\ EndedZip(pc) \in ZipType /\ EndedZip(pc).pc = pc
                         /\ [pc |-> pc, listed |-> {}] \in ZipType
  /\ \A listed \in SUBSET Files : [pc |-> "open", listed |-> listed] \in ZipType
<1>1. NoZip \in ZipType BY DEF NoZip, ZipType, ZipPcs
<1>2. \A pc \in ZipPcs : EndedZip(pc) \in ZipType /\ EndedZip(pc).pc = pc
  BY <1>1 DEF EndedZip, ZipType
<1> QED BY <1>2 DEF ZipType, ZipPcs

LEMMA ZipTypes ==
  ASSUME TypeOK, NEW c \in Calls,
         ZipList(c) \/ ZipOpen(c) \/ ZipWrite(c) \/ ZipFails(c) \/ ZipAnnounce(c)
  PROVE TypeOK'
<1>1. crossed' \in BOOLEAN
  BY DEF ZipList, ZipOpen, ZipWrite, ZipFails, ZipAnnounce, TypeOK, histVars
<1>2. {"open", "write", "announce", "failed", "done", "refused"} \subseteq ZipPcs BY DEF ZipPcs
<1>3. zip[c] \in ZipType BY DEF TypeOK
<1>4. CASE ZipList(c)
  <2>1. zip' \in [Calls -> ZipType] BY <1>2, <1>4, ZipsAre, ZipTyped DEF ZipList, TypeOK
  <2> QED BY <1>1, <1>4, <2>1 DEF ZipList, TypeOK, rowVars, diskVars, ownerVars
<1>5. CASE ZipOpen(c)
  <2>1. zip' \in [Calls -> ZipType] BY <1>2, <1>5, ZipsAre, ZipTyped DEF ZipOpen
  <2>2. archive' \in ArchiveType
    <3> DEFINE held == [f \in Files |-> IF f \in zip[c].listed THEN disk[f] ELSE Absent]
               writers == archive.writers \cup {c}
               broken == archive.writers # {}
    <3>1. held \in [Files -> Contents] BY ContentsFacts DEF TypeOK
    <3>2. writers \in SUBSET Calls BY DEF TypeOK, ArchiveType
    <3>3. broken \in BOOLEAN OBVIOUS
    <3>4. archive' = [there |-> TRUE, writers |-> writers, broken |-> broken, held |-> held]
      BY <1>5 DEF ZipOpen
    <3> HIDE DEF held, writers, broken
    <3> QED BY <3>1, <3>2, <3>3, <3>4 DEF ArchiveType
  <2> QED BY <1>1, <1>5, <2>1, <2>2 DEF ZipOpen, TypeOK, rowVars, diskVars, ownerVars, histVars
<1>6. CASE ZipWrite(c)
  <2>1. zip' \in [Calls -> ZipType] BY <1>2, <1>3, <1>6 DEF ZipWrite, TypeOK, ZipType
  <2>2. archive' \in ArchiveType BY <1>6 DEF ZipWrite, TypeOK, ArchiveType
  <2> QED BY <1>1, <1>6, <2>1, <2>2 DEF ZipWrite, TypeOK, rowVars, diskVars, ownerVars, histVars
<1>7. CASE ZipFails(c)
  <2>1. zip' \in [Calls -> ZipType] BY <1>2, <1>7, ZipsAre, ZipTyped DEF ZipFails
  <2>2. archive' \in ArchiveType BY <1>7 DEF ZipFails, TypeOK, ArchiveType
  <2>3. faults' \in 0..MaxFaults BY <1>7 DEF ZipFails, TypeOK
  <2> QED
    BY <1>1, <1>7, <2>1, <2>2, <2>3
       DEF ZipFails, TypeOK, rowVars, diskVars, ownerVars, histVars
<1>8. CASE ZipAnnounce(c)
  <2>1. PICK pc \in {"done", "refused"} : zip' = [zip EXCEPT ![c] = EndedZip(pc)]
    BY <1>8 DEF ZipAnnounce
  <2>2. zip' \in [Calls -> ZipType] BY <1>2, <2>1, ZipsAre, ZipTyped
  <2>3. share' \in [locked : BOOLEAN, ready : BOOLEAN]
    <3>1. ZipAt(c, "announce") \in BOOLEAN BY DEF ZipAt
    <3>2. share' = [share EXCEPT !.ready = ZipAt(c, "announce")] BY <1>8 DEF ZipAnnounce
    <3> QED BY <3>1, <3>2 DEF TypeOK
  <2> QED BY <1>1, <1>8, <2>2, <2>3 DEF ZipAnnounce, TypeOK, diskVars, ownerVars, histVars
<1> QED BY <1>4, <1>5, <1>6, <1>7, <1>8

LEMMA EndsTypes ==
  ASSUME TypeOK, NEW found \in ArchiveType, ProcessEnds(found), faults' \in 0..MaxFaults
  PROVE  TypeOK'
<1> DEFINE newCall == [c \in Calls |-> IF Running(c) THEN EndedCall("dead") ELSE call[c]]
           newZip == [c \in Calls |-> IF Zipping(c) THEN EndedZip("dead") ELSE zip[c]]
<1>1. \A c \in Calls : CallOK(newCall[c]) BY CallsAre, EndedOK, PcsAre
<1>2. call' = [c \in Calls |-> newCall[c]] BY DEF ProcessEnds
<1>3. /\ call' \in [Calls -> CallType]
      /\ \A c \in Calls : (call'[c].file \in Files) <=> (call'[c].pc \in FilePcs)
  <2> HIDE DEF newCall
  <2> QED BY <1>1, <1>2, CallsTyped
<1>4. zip' \in [Calls -> ZipType]
  <2>1. EndedZip("dead") \in ZipType BY DEF EndedZip, NoZip, ZipType, ZipPcs
  <2> QED BY <2>1 DEF ProcessEnds, TypeOK
<1>5. archive' \in ArchiveType
  <2>1. archive' = [found EXCEPT !.writers = {}, !.broken = @ \/ found.writers # {}]
    BY DEF ProcessEnds
  <2>2. (found.broken \/ found.writers # {}) \in BOOLEAN OBVIOUS
  <2> QED BY <2>1, <2>2 DEF ArchiveType
<1>6. severed' \subseteq Files \cup {NoFile} /\ unprinted' \subseteq Files \cup {NoFile}
  BY DEF ProcessEnds, TypeOK, CallType
<1>7. crossed' \in BOOLEAN BY DEF ProcessEnds, TypeOK
<1> QED
  BY <1>3, <1>4, <1>5, <1>6, <1>7 DEF ProcessEnds, TypeOK, rowVars, diskVars

LEMMA OwnerTypes ==
  ASSUME TypeOK, NEW f \in Files, OwnerStep(f) PROVE TypeOK'
<1>1. crossed' \in BOOLEAN
  BY DEF OwnerStep, UploadStart, UploadStore, UploadRecord, RemoveFile, RemoveRow, TypeOK, histVars
<1>2. CASE UploadStart(f)
  <2>1. events' \in 0..MaxEvents BY <1>2 DEF UploadStart, OwnerMay, TypeOK
  <2> QED BY <1>1, <1>2, <2>1 DEF UploadStart, TypeOK, rowVars, diskVars, histVars
<1>3. CASE UploadStore(f)
  <2>1. disk' \in [Files -> Contents] BY <1>3, ContentsFacts DEF UploadStore, TypeOK
  <2> QED BY <1>1, <1>3, <2>1 DEF UploadStore, TypeOK, rowVars, histVars
<1>4. CASE UploadRecord(f)
  <2>1. size' \in [Files -> Contents] BY <1>4, ContentsFacts DEF UploadRecord, TypeOK
  <2>2. rows' \subseteq Files BY <1>4 DEF UploadRecord, TypeOK
  <2> QED BY <1>1, <1>4, <2>1, <2>2 DEF UploadRecord, TypeOK, diskVars
<1>5. CASE RemoveFile(f)
  <2>1. events' \in 0..MaxEvents BY <1>5 DEF RemoveFile, OwnerMay, TypeOK
  <2>2. disk' \in [Files -> Contents] BY <1>5, ContentsFacts DEF RemoveFile, TypeOK
  <2> DEFINE new == Unlinked(f, "disk")
  <2>3. call' = [d \in Calls |-> new[d]] BY <1>5 DEF RemoveFile, Unlinked
  <2>4. \A d \in Calls : CallOK(new[d]) BY OutputsOK
  <2> HIDE DEF new
  <2>5. /\ call' \in [Calls -> CallType]
        /\ \A d \in Calls : (call'[d].file \in Files) <=> (call'[d].pc \in FilePcs)
    BY <2>3, <2>4, CallsTyped
  <2> QED BY <1>1, <1>5, <2>1, <2>2, <2>5 DEF RemoveFile, TypeOK, rowVars
<1>6. CASE RemoveRow(f) BY <1>1, <1>6 DEF RemoveRow, TypeOK, diskVars, histVars
<1> QED BY <1>2, <1>3, <1>4, <1>5, <1>6 DEF OwnerStep

LEMMA TypeInv == ASSUME TypeOK, [Next]_vars PROVE TypeOK'
<1>1. ASSUME NEW c \in Calls, CallStep(c) PROVE TypeOK'
  BY <1>1, ListTypes, HashTypes, SignTypes, MoveTypes, OpenPdfTypes,
     CertifyTypes, LockTypes DEF CallStep
<1>2. ASSUME NEW c \in Calls, ZipStep(c) PROVE TypeOK'
  <2>1. CASE ZipMisses(c)
    <3> DEFINE truncated == [archive EXCEPT !.there = TRUE, !.broken = TRUE]
    <3>1. truncated \in ArchiveType BY DEF TypeOK, ArchiveType
    <3>2. faults' \in 0..MaxFaults BY <2>1 DEF ZipMisses, TypeOK
    <3>3. CASE ProcessEnds(truncated) BY <3>1, <3>2, <3>3, EndsTypes
    <3>4. CASE /\ zip' = [zip EXCEPT ![c] = EndedZip("stuck")] /\ archive' = truncated
               /\ UNCHANGED <<rowVars, diskVars, call, ownerVars, histVars>>
      <4>1. zip' \in [Calls -> ZipType] BY <3>4, ZipsAre, ZipTyped DEF ZipPcs
      <4>2. crossed' \in BOOLEAN BY <3>4 DEF TypeOK, histVars
      <4> HIDE DEF truncated
      <4> QED BY <3>1, <3>2, <3>4, <4>1, <4>2 DEF TypeOK, rowVars, diskVars, ownerVars, histVars
    <3> QED BY <2>1, <3>3, <3>4 DEF ZipMisses
  <2> QED BY <1>2, <2>1, ZipTypes DEF ZipStep
<1>3. CASE Revert
  <2>1. crossed' \in BOOLEAN BY <1>3 DEF Revert, TypeOK
  <2>2. events' \in 0..MaxEvents BY <1>3 DEF Revert, OwnerMay, TypeOK
  <2>3. share' \in [locked : BOOLEAN, ready : BOOLEAN] BY <1>3 DEF Revert
  <2> QED BY <1>3, <2>1, <2>2, <2>3 DEF Revert, TypeOK, diskVars
<1>4. ASSUME NEW f \in Files, OwnerStep(f) PROVE TypeOK' BY <1>4, OwnerTypes
<1>5. CASE Restart
  <2>1. faults' \in 0..MaxFaults /\ archive \in ArchiveType BY <1>5 DEF Restart, TypeOK
  <2> QED BY <1>5, <2>1, EndsTypes DEF Restart
<1>6. CASE UNCHANGED vars
  <2>1. crossed' \in BOOLEAN BY <1>6 DEF vars, histVars, TypeOK
  <2> QED BY <1>6, <2>1 DEF vars, rowVars, diskVars, ownerVars, histVars, TypeOK
<1> QED BY <1>1, <1>2, <1>3, <1>4, <1>5, <1>6 DEF Next

----------------------------------------------------------------------------
(* An archive announced as ready is whole                                   *)

\* The stages of a call: it has found the share open, and has not counted its entries yet.
Early == {"list", "hash", "sign", "stat", "move", "record", "rehash", "pdf", "write", "certify",
          "count"}

\* Who writes the archive is at that step; a zip runs from the count of its call on.
Writing == \A c \in archive.writers : zip[c].pc = "write"
ZipAfter == \A c \in Calls : Zipping(c) => call[c].pc \in {"lock", "done"}

\* One call runs or zips at a time; the share is open and nothing announced until its count,
\* nothing announced until its zip ends, and what is announced is whole.
Alone == \A c, d \in Calls : Busy(c) /\ Busy(d) => c = d
Whole == archive.there /\ archive.writers = {} /\ ~archive.broken
InOrder ==
  /\ Alone
  /\ \A c \in Calls : call[c].pc \in Early => ~share.locked /\ ~share.ready
  /\ \A c \in Calls : Zipping(c) => ~share.ready /\ (call[c].pc = "done" => share.locked)
  /\ share.ready => share.locked \/ \E c \in Calls : call[c].pc = "lock"
  /\ share.ready => Whole
  /\ \A c \in Calls : zip[c].pc = "announce" => Whole
  /\ \A c \in Calls : zip[c].pc = "write" => archive.there /\ ~archive.broken

Inv == TypeOK /\ Writing /\ ZipAfter /\ (~crossed => InOrder)

LEMMA InitInv == Init => Inv
<1> SUFFICES ASSUME Init PROVE Inv OBVIOUS
<1>1. IdleCall.pc = "idle" /\ NoZip.pc = "none" BY DEF IdleCall, NoZip
<1>2. \A c \in Calls : call[c].pc = "idle" /\ zip[c].pc = "none" BY <1>1 DEF Init
<1>3. \A c \in Calls : ~Busy(c) /\ ~Zipping(c) BY <1>2 DEF Busy, Running, Zipping
<1>4. TypeOK
  <2>1. size \in [Files -> Contents] /\ disk \in [Files -> Contents] /\ tmp \in [Files -> Contents]
    BY ContentsFacts DEF Init
  <2>2. pdf \in [Files -> Contents] BY ContentsFacts DEF Init
  <2>3. archive \in ArchiveType BY ContentsFacts DEF Init, ArchiveType
  <2>4. /\ call \in [Calls -> CallType] /\ IdleCall.file = NoFile
        /\ zip \in [Calls -> ZipType]
    <3>1. IdleCall \in CallType /\ IdleCall.file = NoFile
      BY ContentsFacts DEF IdleCall, CallType, CallPcs
    <3>2. NoZip \in ZipType BY DEF NoZip, ZipType, ZipPcs
    <3> QED BY <3>1, <3>2 DEF Init
  <2>5. \A c \in Calls : (call[c].file \in Files) <=> (call[c].pc \in FilePcs)
    BY <1>2, <2>4, PcsAre DEF Init
  <2>6. /\ rows \subseteq Files /\ certs \in Nat
        /\ upload \in [Files -> {"none", "open", "stored", "done", "dead"}]
        /\ removal \in [Files -> {"none", "unlinked"}]
        /\ changed \subseteq Files
        /\ severed \subseteq Files \cup {NoFile} /\ unprinted \subseteq Files \cup {NoFile}
    BY DEF Init
  <2>7. events \in 0..MaxEvents /\ faults \in 0..MaxFaults BY DEF Init
  <2>8. share \in [locked : BOOLEAN, ready : BOOLEAN] /\ crossed \in BOOLEAN BY DEF Init
  <2> QED BY <2>1, <2>2, <2>3, <2>4, <2>5, <2>6, <2>7, <2>8 DEF TypeOK
<1>5. Writing /\ ZipAfter BY <1>3 DEF Init, Writing, ZipAfter
<1>6. InOrder BY <1>2, <1>3 DEF Init, InOrder, Alone, Early
<1> QED BY <1>4, <1>5, <1>6 DEF Inv

\* What the rest of the invariant says, but for the types.
Rest == Writing /\ ZipAfter /\ (~crossed => InOrder)

\* A step at which no call leaves its stage.
LEMMA SameStage ==
  ASSUME Inv, share' = share, zip' = zip, archive' = archive, crossed' = crossed,
         \A d \in Calls : \/ call'[d].pc = call[d].pc
                          \/ call[d].pc \in Early /\ call'[d].pc \in Early
  PROVE  Rest'
<1>1. \A d \in Calls : /\ (call'[d].pc \in Early) = (call[d].pc \in Early)
                       /\ \A pc \in {"idle", "check", "lock", "done", "refused", "dead"} :
                            (call'[d].pc = pc) = (call[d].pc = pc)
  BY DEF Early
<1>2. \A d \in Calls : Busy(d)' = Busy(d) /\ Zipping(d)' = Zipping(d)
  BY <1>1 DEF Busy, Running, Zipping
<1>3. Writing' /\ ZipAfter' BY <1>1, <1>2 DEF Inv, Writing, ZipAfter
<1>4. ~crossed' => InOrder' BY <1>1, <1>2 DEF Inv, InOrder, Alone, Whole
<1> QED BY <1>3, <1>4 DEF Rest

\* The steps of a call between its check and its count.
EarlyCall(c) ==
  \/ List(c) \/ Hash(c) \/ Sign(c) \/ SignFails(c) \/ Stat(c) \/ Move(c) \/ Record(c)
  \/ Rehash(c) \/ OpenPdf(c) \/ WritePdf(c) \/ PdfFails(c) \/ Certify(c)

LEMMA OpenPdfPcs ==
  ASSUME TypeOK, NEW c \in Calls, OpenPdf(c)
  PROVE  /\ call'[c].pc = "write" /\ call'[c].file = call[c].file
         /\ call'[c].original = call[c].original /\ call'[c].final = call[c].final
         /\ \A d \in Calls \ {c} : call'[d].pc = call[d].pc /\ call'[d].file = call[d].file
<1> DEFINE others == {d \in Calls : At(d, "write") /\ call[d].file = call[c].file}
           alone == others = {}
           q == [call[c] EXCEPT !.pc = "write", !.alone = alone]
<1>1. call' = [d \in Calls |-> IF d = c THEN q
                               ELSE IF d \in others THEN [call[d] EXCEPT !.alone = FALSE]
                               ELSE call[d]]
  BY DEF OpenPdf
<1>2. \A d \in Calls : call[d] \in CallType BY DEF TypeOK
<1>3. /\ q.pc = "write" /\ q.file = call[c].file
      /\ q.original = call[c].original /\ q.final = call[c].final
  BY <1>2 DEF CallType
<1>4. \A d \in Calls : /\ [call[d] EXCEPT !.alone = FALSE].pc = call[d].pc
                       /\ [call[d] EXCEPT !.alone = FALSE].file = call[d].file
  BY <1>2 DEF CallType
<1> HIDE DEF q, others
<1> QED BY <1>1, <1>3, <1>4

LEMMA WritePdfPcs ==
  ASSUME TypeOK, NEW c \in Calls, WritePdf(c)
  PROVE  call'[c].pc = "certify" /\ \A d \in Calls \ {c} : call'[d] = call[d]
BY DEF TypeOK, CallType, WritePdf, Written

\* They leave the call in one of its early stages, and the others where they are.
LEMMA EarlyPcs ==
  ASSUME TypeOK, NEW c \in Calls, EarlyCall(c)
  PROVE  /\ call[c].pc \in Early /\ call'[c].pc \in Early
         /\ \A d \in Calls \ {c} : call'[d].pc = call[d].pc
<1> USE DEF EarlyCall
<1>2. TypeOK /\ CallOK(call[c]) BY CallsAre
<1>3. ASSUME LeaveCertificates(c)
      PROVE  call'[c].pc \in Early /\ \A d \in Calls \ {c} : call'[d].pc = call[d].pc
  BY <1>2, <1>3, EndedOK, PcsAre DEF LeaveCertificates, TypeOK, Early
<1>4. ASSUME NEW q, q.pc \in Early, call' = [call EXCEPT ![c] = q]
      PROVE  call'[c].pc \in Early /\ \A d \in Calls \ {c} : call'[d].pc = call[d].pc
  BY <1>2, <1>4 DEF TypeOK
<1>5. call[c].pc \in Early
  BY DEF List, Hash, Sign, SignFails, Stat, Move, Record, Rehash, OpenPdf, WritePdf, Written,
         PdfFails, Certify, At, Early
<1>6. call'[c].pc \in Early /\ \A d \in Calls \ {c} : call'[d].pc = call[d].pc
  <2>1. CASE LeaveCertificates(c) BY <1>3, <2>1
  <2>2. CASE List(c) BY <1>2, <2>2 DEF List, TypeOK, CallType, CallOK, Early
  <2>3. CASE Hash(c) /\ ~LeaveCertificates(c)
    <3>1. PICK f \in call[c].todo :
           IF disk[f] = Absent THEN LeaveCertificates(c) /\ UNCHANGED tmp
           ELSE IF f \notin Videos
           THEN /\ call' = [call EXCEPT ![c].pc = "rehash", ![c].file = f]
                /\ UNCHANGED tmp
           ELSE LET others == WritersTo(f, "tmp") IN
                /\ tmp' = [tmp EXCEPT ![f] = Torn]
                /\ call' = [d \in Calls |->
                     IF d = c THEN [call[c] EXCEPT !.pc = "sign", !.file = f, !.original = disk[f],
                                                   !.output = "tmp", !.alone = (others = {})]
                     ELSE IF d \in others THEN [call[d] EXCEPT !.alone = FALSE]
                     ELSE call[d]]
      BY <2>3 DEF Hash
    <3>2. CASE f \notin Videos
      BY <1>2, <2>3, <3>1, <3>2 DEF TypeOK, CallType, CallOK, Early
    <3>3. CASE f \in Videos
      <4> DEFINE others == WritersTo(f, "tmp")
                 alone == others = {}
                 q == [call[c] EXCEPT !.pc = "sign", !.file = f, !.original = disk[f],
                                      !.output = "tmp", !.alone = alone]
      <4>1. call' = [d \in Calls |->
                       IF d = c THEN q
                       ELSE IF d \in others THEN [call[d] EXCEPT !.alone = FALSE]
                       ELSE call[d]]
        BY <2>3, <3>1, <3>3
      <4>2. q.pc = "sign" BY <1>2 DEF CallOK, CallType
      <4>3. \A d \in Calls : [call[d] EXCEPT !.alone = FALSE].pc = call[d].pc
        BY <1>2 DEF TypeOK, CallType
      <4> HIDE DEF q, others
      <4>4. call'[c].pc = "sign" BY <4>1, <4>2
      <4>5. \A d \in Calls \ {c} : call'[d].pc = call[d].pc BY <4>1, <4>3
      <4> QED BY <4>4, <4>5 DEF Early
    <3> QED BY <3>2, <3>3
  <2>4. CASE Sign(c) BY <1>2, <2>4 DEF Sign, TypeOK, CallType, CallOK, Early
  <2>5. CASE SignFails(c)
    <3> DEFINE f == call[c].file
               q == [EndedCall("rehash") EXCEPT !.todo = call[c].todo, !.file = f]
    <3>1. call' = [Unlinked(f, "tmp") EXCEPT ![c] = q] BY <2>5 DEF SignFails
    <3>2. q.pc = "rehash"
      <4>1. IdleCall \in CallType BY ContentsFacts DEF IdleCall, CallType, CallPcs
      <4> QED BY <4>1 DEF EndedCall, CallType, CallPcs
    <3>3. f \in Files BY <1>2, <2>5 DEF SignFails, At, CallOK, FilePcs
    <3> HIDE DEF q
    <3>4. call'[c] = q /\ \A d \in Calls \ {c} : call'[d] = Unlinked(f, "tmp")[d]
      BY <3>1 DEF Unlinked
    <3> HIDE DEF f
    <3> QED BY <1>2, <3>2, <3>3, <3>4, OutputsOK DEF Early
  <2>6. CASE Stat(c) /\ ~LeaveCertificates(c)
    BY <1>2, <2>6 DEF Stat, TypeOK, CallType, CallOK, Early
  <2>7. CASE Move(c) /\ ~LeaveCertificates(c)
    <3> DEFINE f == call[c].file
    <3>1. call' = [Moved(f) EXCEPT ![c].pc = "record"] BY <2>7 DEF Move
    <3>2. f \in Files BY <1>2, <2>7 DEF Move, At, CallOK, FilePcs
    <3>3. CallOK(Moved(f)[c]) BY <1>2, <3>2, OutputsOK
    <3>4. call'[c] = [Moved(f)[c] EXCEPT !.pc = "record"]
          /\ \A d \in Calls \ {c} : call'[d] = Moved(f)[d]
      BY <3>1 DEF Moved
    <3>5. call'[c].pc = "record" BY <3>3, <3>4 DEF CallOK, CallType
    <3> HIDE DEF f
    <3> QED BY <1>2, <3>2, <3>4, <3>5, OutputsOK DEF Early
  <2>8. CASE (Record(c) \/ Rehash(c)) /\ ~LeaveCertificates(c)
    BY <1>2, <2>8 DEF Record, Rehash, Goto, TypeOK, CallType, CallOK, Early
  <2>10. CASE OpenPdf(c) \/ WritePdf(c)
    BY <1>2, <2>10, OpenPdfPcs, WritePdfPcs DEF Early
  <2>11. CASE PdfFails(c) BY <1>3, <2>11 DEF PdfFails
  <2>9. CASE Certify(c)
    <3>1. PICK pc \in {"count", "hash"}, left \in SUBSET Files :
            call' = [call EXCEPT ![c] = [EndedCall(pc) EXCEPT !.todo = left]]
      <4>1. call[c].todo \ {call[c].file} \in SUBSET Files BY <1>2 DEF CallOK, CallType
      <4> QED BY <2>9, <4>1 DEF Certify
    <3>2. EndedCall(pc) \in CallType /\ EndedCall(pc).pc = pc
      BY EndedOK, PcsAre DEF CallOK
    <3> DEFINE q == [EndedCall(pc) EXCEPT !.todo = left]
    <3>3. q.pc \in Early BY <3>2 DEF CallType, Early
    <3>4. call' = [call EXCEPT ![c] = q] BY <3>1
    <3> HIDE DEF q
    <3> QED BY <1>4, <3>3, <3>4
  <2> QED BY <2>1, <2>2, <2>3, <2>4, <2>5, <2>6, <2>7, <2>8, <2>9, <2>10, <2>11
<1> QED BY <1>5, <1>6

LEMMA EarlySame ==
  ASSUME NEW c \in Calls, EarlyCall(c)
  PROVE  /\ share' = share /\ zip' = zip /\ archive' = archive /\ crossed' = crossed
         /\ rows' = rows /\ changed' = changed /\ upload' = upload
BY DEF EarlyCall, List, Hash, Sign, SignFails, Stat, Move, Record, Rehash, OpenPdf, WritePdf,
       Written, PdfFails, Certify, rowVars, ownerVars, histVars

LEMMA EarlyStep == ASSUME Inv, NEW c \in Calls, EarlyCall(c) PROVE Rest'
BY EarlyPcs, EarlySame, SameStage DEF Inv

LEMMA OwnerSame ==
  ASSUME Inv, NEW f \in Files, OwnerStep(f)
  PROVE  /\ share' = share /\ zip' = zip /\ archive' = archive /\ crossed' = crossed
         /\ \A d \in Calls : call'[d].pc = call[d].pc
<1>1. share' = share /\ zip' = zip /\ archive' = archive /\ crossed' = crossed
  BY DEF OwnerStep, UploadStart, UploadStore, UploadRecord, RemoveFile, RemoveRow, rowVars, histVars
<1>2. call' = call \/ call' = Unlinked(f, "disk")
  BY DEF OwnerStep, UploadStart, UploadStore, UploadRecord, RemoveFile, RemoveRow
<1>3. \A d \in Calls : call'[d].pc = call[d].pc BY <1>2, OutputsOK DEF Inv
<1> QED BY <1>1, <1>3

LEMMA OwnerRest == ASSUME Inv, NEW f \in Files, OwnerStep(f) PROVE Rest'
BY OwnerSame, SameStage

LEMMA OneCall ==
  ASSUME TypeOK, NEW c \in Calls, NEW q, call' = [call EXCEPT ![c] = q]
  PROVE  call'[c].pc = q.pc /\ \A d \in Calls \ {c} : call'[d].pc = call[d].pc
BY DEF TypeOK

LEMMA GotoPc ==
  ASSUME TypeOK, NEW c \in Calls, NEW pc, Goto(c, pc)
  PROVE  call'[c].pc = pc /\ \A d \in Calls \ {c} : call'[d].pc = call[d].pc
BY DEF TypeOK, Goto, CallType

\* A call that comes while another runs is crossed.
LEMMA ReadRest == ASSUME Inv, NEW c \in Calls, Read(c) PROVE Rest'
<1>1. call'[c].pc = "check" /\ \A d \in Calls \ {c} : call'[d].pc = call[d].pc
  <2> DEFINE nothing == (Entries = 0)
             q == [call[c] EXCEPT !.pc = "check", !.nothing = nothing]
  <2>1. q.pc = "check" BY CallsAre DEF Inv, CallOK, CallType
  <2>2. call \in [Calls -> CallType] BY DEF Inv, TypeOK
  <2>3. call' = [call EXCEPT ![c] = q] BY <2>2 DEF Read
  <2> HIDE DEF q
  <2> QED BY <2>1, <2>3, OneCall DEF Inv
<1>2. call[c].pc = "idle" /\ share' = share /\ zip' = zip /\ archive' = archive
  BY DEF Read, At, rowVars
<1>3. ~Zipping(c) BY <1>2 DEF Inv, ZipAfter
<1>4. \A d \in Calls : Zipping(d)' = Zipping(d) BY <1>2 DEF Zipping
<1>5. Writing' /\ ZipAfter' BY <1>1, <1>2, <1>3, <1>4 DEF Inv, Writing, ZipAfter
<1>6. ASSUME ~crossed' PROVE InOrder'
  <2>1. ~crossed /\ \A d \in Calls \ {c} : ~Busy(d) BY <1>6 DEF Read
  <2>2. \A d \in Calls \ {c} : ~Busy(d)' BY <1>1, <1>4, <2>1 DEF Busy, Running
  <2>3. Alone' BY <2>2 DEF Alone
  <2>4. InOrder BY <2>1 DEF Inv
  <2> QED BY <1>1, <1>2, <1>3, <1>4, <2>3, <2>4 DEF InOrder, Early, Whole
<1> QED BY <1>5, <1>6 DEF Rest

\* An open share has nothing announced when a call of its own finds it open.
LEMMA CheckRest == ASSUME Inv, NEW c \in Calls, Check(c) PROVE Rest'
<1>1. PICK pc \in {"refused", "list"} :
        /\ call' = [call EXCEPT ![c] = EndedCall(pc)]
        /\ pc = "list" => ~share.locked
  BY DEF Check
<1>2. EndedCall(pc).pc = pc BY EndedOK, PcsAre
<1>3. call'[c].pc = pc /\ \A d \in Calls \ {c} : call'[d].pc = call[d].pc
  BY <1>1, <1>2, OneCall DEF Inv
<1>4. /\ call[c].pc = "check" /\ share' = share /\ zip' = zip /\ archive' = archive
      /\ crossed' = crossed
  BY DEF Check, At, rowVars, histVars
<1>5. ~Zipping(c) BY <1>4 DEF Inv, ZipAfter
<1>6. \A d \in Calls : Zipping(d)' = Zipping(d) BY <1>4 DEF Zipping
<1>7. Writing' /\ ZipAfter' BY <1>3, <1>4, <1>5, <1>6 DEF Inv, Writing, ZipAfter
<1>8. ASSUME ~crossed' PROVE InOrder'
  <2>1. InOrder BY <1>4, <1>8 DEF Inv
  <2>2. Busy(c) BY <1>4 DEF Busy, Running
  <2>3. \A d \in Calls : Busy(d)' => Busy(d)
    BY <1>3, <1>6, <2>2 DEF Busy, Running
  <2>4. Alone' BY <2>1, <2>3 DEF InOrder, Alone
  <2>5. \A d \in Calls : call[d].pc # "lock"
    BY <1>4, <2>1, <2>2 DEF InOrder, Alone, Busy, Running
  <2>6. share.ready => share.locked BY <2>1, <2>5 DEF InOrder
  <2> QED BY <1>1, <1>3, <1>4, <1>5, <1>6, <2>1, <2>4, <2>5, <2>6 DEF InOrder, Early, Whole
<1> QED BY <1>7, <1>8 DEF Rest

LEMMA CountRest == ASSUME Inv, NEW c \in Calls, Count(c) PROVE Rest'
<1>1. call'[c].pc = "lock" /\ \A d \in Calls \ {c} : call'[d].pc = call[d].pc
  BY GotoPc DEF Inv, Count
<1>2. /\ call[c].pc = "count" /\ share' = share /\ archive' = archive /\ crossed' = crossed
  BY DEF Count, At, rowVars
<1>3. /\ zip'[c].pc \in {"list", "none"}
      /\ \A d \in Calls \ {c} : zip'[d].pc = zip[d].pc
  BY DEF Inv, Count, TypeOK, ZipType
<1>4. ~Zipping(c) BY <1>2 DEF Inv, ZipAfter
<1>5. \A d \in Calls \ {c} : Zipping(d)' = Zipping(d) BY <1>3 DEF Zipping
<1>6. c \notin archive.writers BY <1>2, <1>4 DEF Inv, Writing, Zipping
<1>7. archive.writers \subseteq Calls BY DEF Inv, TypeOK, ArchiveType
<1>8. Writing' /\ ZipAfter'
  BY <1>1, <1>2, <1>3, <1>5, <1>6, <1>7 DEF Inv, Writing, ZipAfter
<1>9. ASSUME ~crossed' PROVE InOrder'
  <2>1. InOrder BY <1>2, <1>9 DEF Inv
  <2>2. Busy(c) BY <1>2 DEF Busy, Running
  <2>3. \A d \in Calls : Busy(d)' => Busy(d)
    BY <1>1, <1>5, <2>2 DEF Busy, Running
  <2>4. Alone' BY <2>1, <2>3 DEF InOrder, Alone
  <2>5. ~share.ready BY <1>2, <2>1 DEF InOrder, Early
  <2> QED BY <1>1, <1>2, <1>3, <1>5, <2>1, <2>4, <2>5 DEF InOrder, Early, Whole
<1> QED BY <1>8, <1>9 DEF Rest

LEMMA EndRest == ASSUME Inv, NEW c \in Calls, Lock(c) PROVE Rest'
<1>1. /\ call[c].pc = "lock" /\ call'[c].pc = "done"
      /\ share'.ready = share.ready /\ share'.locked = TRUE
      /\ \A d \in Calls \ {c} : call'[d].pc = call[d].pc
  BY GotoPc DEF Inv, Lock, At, rowVars, TypeOK
<1>2. zip' = zip /\ archive' = archive /\ crossed' = crossed
  BY DEF Lock, histVars
<1>3. \A d \in Calls : Zipping(d)' = Zipping(d) BY <1>2 DEF Zipping
<1>4. Writing' /\ ZipAfter' BY <1>1, <1>2, <1>3 DEF Inv, Writing, ZipAfter
<1>5. ASSUME ~crossed' PROVE InOrder'
  <2>1. InOrder BY <1>2, <1>5 DEF Inv
  <2>2. Busy(c) BY <1>1 DEF Busy, Running
  <2>3. \A d \in Calls : Busy(d)' => Busy(d)
    BY <1>1, <1>3, <2>2 DEF Busy, Running
  <2>4. Alone' BY <2>1, <2>3 DEF InOrder, Alone
  <2>5. \A d \in Calls : call[d].pc \notin Early
    BY <1>1, <2>1, <2>2 DEF InOrder, Alone, Busy, Running, Early
  <2>6. \A d \in Calls : call'[d].pc \notin Early BY <1>1, <2>5 DEF Early
  <2>7. share'.ready = share.ready /\ (share.locked => share'.locked) BY <1>1
  <2>8. share'.ready => share'.locked \/ \E d \in Calls : call'[d].pc = "lock"
    BY <1>1, <2>1 DEF InOrder
  <2>9. \A d \in Calls : Zipping(d) => ~share'.ready /\ (call'[d].pc = "done" => share'.locked)
    BY <1>1, <2>1, <2>7 DEF InOrder
  <2> QED BY <1>2, <1>3, <2>1, <2>4, <2>6, <2>7, <2>8, <2>9 DEF InOrder, Whole
<1> QED BY <1>4, <1>5 DEF Rest

\* What a step of the zip of one call says of all.
LEMMA OneZip ==
  ASSUME Inv, NEW c \in Calls, NEW q, zip' = [zip EXCEPT ![c] = q]
  PROVE  zip'[c] = q /\ \A d \in Calls \ {c} : zip'[d] = zip[d] /\ (Zipping(d)' <=> Zipping(d))
BY DEF Inv, TypeOK, Zipping

LEMMA ZipPc ==
  ASSUME Inv, NEW c \in Calls, NEW pc, zip' = [zip EXCEPT ![c].pc = pc]
  PROVE  /\ zip'[c].pc = pc
         /\ \A d \in Calls \ {c} : zip'[d] = zip[d] /\ (Zipping(d)' <=> Zipping(d))
BY DEF Inv, TypeOK, ZipType, Zipping

LEMMA Writers == Inv => archive.writers \subseteq Calls
BY DEF Inv, TypeOK, ArchiveType

\* Alone: no other call runs or zips while one zips.
LEMMA Others ==
  ASSUME InOrder, NEW c \in Calls, Zipping(c)
  PROVE  \A d \in Calls \ {c} : ~Running(d) /\ ~Zipping(d)
BY DEF InOrder, Alone, Busy

LEMMA ZipListRest == ASSUME Inv, NEW c \in Calls, ZipList(c) \/ ZipOpen(c) PROVE Rest'
<1>1. CASE ZipList(c)
  <2>1. /\ zip[c].pc = "list" /\ share' = share /\ archive' = archive /\ call' = call
        /\ crossed' = crossed
    BY <1>1 DEF ZipList, ZipAt, rowVars
  <2>2. /\ zip'[c].pc = "open"
        /\ \A d \in Calls \ {c} : zip'[d] = zip[d] /\ (Zipping(d)' <=> Zipping(d))
    <3> DEFINE q == [pc |-> "open", listed |-> rows]
    <3>1. q.pc = "open" /\ zip' = [zip EXCEPT ![c] = q] BY <1>1 DEF ZipList
    <3> HIDE DEF q
    <3> QED BY <3>1, OneZip
  <2>3. Zipping(c) /\ Zipping(c)' BY <2>1, <2>2 DEF Zipping
  <2>4. \A d \in Calls : (Zipping(d)' <=> Zipping(d)) /\ (Busy(d)' <=> Busy(d))
    BY <2>1, <2>2, <2>3 DEF Busy, Running
  <2>5. Writing' /\ ZipAfter' BY <2>1, <2>2, <2>4, Writers DEF Inv, Writing, ZipAfter
  <2>6. ~crossed' => InOrder' BY <2>1, <2>2, <2>4 DEF Inv, InOrder, Alone, Whole
  <2> QED BY <2>5, <2>6 DEF Rest
<1>2. CASE ZipOpen(c)
  <2>1. /\ zip[c].pc = "open" /\ share' = share /\ call' = call /\ crossed' = crossed
        /\ archive'.writers = archive.writers \cup {c} /\ archive'.there
        /\ archive'.broken = (archive.writers # {})
    BY <1>2 DEF ZipOpen, ZipAt, rowVars, histVars
  <2>2. /\ zip'[c].pc = "write"
        /\ \A d \in Calls \ {c} : zip'[d] = zip[d] /\ (Zipping(d)' <=> Zipping(d))
    <3> DEFINE q == [pc |-> "write", listed |-> {}]
    <3>1. q.pc = "write" /\ zip' = [zip EXCEPT ![c] = q] BY <1>2 DEF ZipOpen
    <3> HIDE DEF q
    <3> QED BY <3>1, OneZip
  <2>3. Zipping(c) /\ Zipping(c)' BY <2>1, <2>2 DEF Zipping
  <2>4. \A d \in Calls : (Zipping(d)' <=> Zipping(d)) /\ (Busy(d)' <=> Busy(d))
    BY <2>1, <2>2, <2>3 DEF Busy, Running
  <2>5. Writing' /\ ZipAfter' BY <2>1, <2>2, <2>4, Writers DEF Inv, Writing, ZipAfter
  <2>6. ASSUME ~crossed' PROVE InOrder'
    <3>1. InOrder BY <2>1, <2>6 DEF Inv
    <3>2. \A d \in Calls \ {c} : ~Zipping(d) BY <2>3, <3>1, Others
    <3>3. archive.writers = {} BY <2>1, <3>2, Writers DEF Inv, Writing, Zipping
    <3>4. ~share.ready BY <2>3, <3>1 DEF InOrder
    <3>5. \A d \in Calls : zip'[d].pc # "announce" BY <2>2, <3>2 DEF Zipping
    <3>6. archive'.there /\ ~archive'.broken BY <2>1, <3>3
    <3> QED BY <2>1, <2>4, <3>1, <3>4, <3>5, <3>6 DEF InOrder, Alone
  <2> QED BY <2>5, <2>6 DEF Rest
<1> QED BY <1>1, <1>2

LEMMA ZipWriteRest == ASSUME Inv, NEW c \in Calls, ZipWrite(c) \/ ZipFails(c) PROVE Rest'
<1>1. CASE ZipWrite(c)
  <2>1. /\ zip[c].pc = "write" /\ share' = share /\ call' = call /\ crossed' = crossed
    BY <1>1 DEF ZipWrite, ZipAt, rowVars, histVars
  <2>2. /\ archive'.writers = archive.writers \ {c} /\ archive'.there = archive.there
        /\ archive'.broken = archive.broken
    BY <1>1 DEF ZipWrite, Inv, TypeOK, ArchiveType
  <2>3. /\ zip'[c].pc = "announce"
        /\ \A d \in Calls \ {c} : zip'[d] = zip[d] /\ (Zipping(d)' <=> Zipping(d))
    BY <1>1, ZipPc DEF ZipWrite
  <2>4. Zipping(c) /\ Zipping(c)' BY <2>1, <2>3 DEF Zipping
  <2>5. \A d \in Calls : (Zipping(d)' <=> Zipping(d)) /\ (Busy(d)' <=> Busy(d))
    BY <2>1, <2>3, <2>4 DEF Busy, Running
  <2>6. Writing' /\ ZipAfter' BY <2>1, <2>2, <2>3, <2>5, Writers DEF Inv, Writing, ZipAfter
  <2>7. ASSUME ~crossed' PROVE InOrder'
    <3>1. InOrder BY <2>1, <2>7 DEF Inv
    <3>2. \A d \in Calls \ {c} : ~Zipping(d) BY <2>4, <3>1, Others
    <3>3. archive'.writers = {} BY <2>2, <3>2, Writers DEF Inv, Writing, Zipping
    <3>4. archive.there /\ ~archive.broken BY <2>1, <3>1 DEF InOrder
    <3>5. Whole' BY <2>2, <3>3, <3>4 DEF Whole
    <3>6. \A d \in Calls : zip'[d].pc # "write" BY <2>3, <3>2 DEF Zipping
    <3> QED BY <2>1, <2>5, <3>1, <3>5, <3>6 DEF InOrder, Alone
  <2> QED BY <2>6, <2>7 DEF Rest
<1>2. CASE ZipFails(c)
  <2>1. /\ zip[c].pc \in {"open", "write"} /\ share' = share /\ call' = call
        /\ crossed' = crossed
    BY <1>2 DEF ZipFails, ZipAt, rowVars, histVars
  <2>2. archive'.writers \subseteq archive.writers \ {c}
    <3>1. zip[c].pc # "write" => c \notin archive.writers BY DEF Inv, Writing
    <3> QED BY <1>2, <3>1 DEF ZipFails, ZipAt, Inv, TypeOK, ArchiveType
  <2>3. /\ zip'[c].pc = "failed"
        /\ \A d \in Calls \ {c} : zip'[d] = zip[d] /\ (Zipping(d)' <=> Zipping(d))
    <3> DEFINE q == [pc |-> "failed", listed |-> {}]
    <3>1. q.pc = "failed" /\ zip' = [zip EXCEPT ![c] = q] BY <1>2 DEF ZipFails
    <3> HIDE DEF q
    <3> QED BY <3>1, OneZip
  <2>4. Zipping(c) /\ Zipping(c)' BY <2>1, <2>3 DEF Zipping
  <2>5. \A d \in Calls : (Zipping(d)' <=> Zipping(d)) /\ (Busy(d)' <=> Busy(d))
    BY <2>1, <2>3, <2>4 DEF Busy, Running
  <2>6. Writing' /\ ZipAfter' BY <2>1, <2>2, <2>3, <2>5, Writers DEF Inv, Writing, ZipAfter
  <2>7. ASSUME ~crossed' PROVE InOrder'
    <3>1. InOrder BY <2>1, <2>7 DEF Inv
    <3>2. \A d \in Calls \ {c} : ~Zipping(d) BY <2>4, <3>1, Others
    <3>3. ~share.ready BY <2>4, <3>1 DEF InOrder
    <3>4. \A d \in Calls : zip'[d].pc \notin {"write", "announce"} BY <2>3, <3>2 DEF Zipping
    <3> QED BY <2>1, <2>5, <3>1, <3>3, <3>4 DEF InOrder, Alone
  <2> QED BY <2>6, <2>7 DEF Rest
<1> QED BY <1>1, <1>2

LEMMA AnnounceRest == ASSUME Inv, NEW c \in Calls, ZipAnnounce(c) PROVE Rest'
<1>1. /\ zip[c].pc \in {"announce", "failed"} /\ archive' = archive /\ call' = call
      /\ crossed' = crossed
  BY DEF ZipAnnounce, ZipAt, histVars
<1>2. share'.ready = (zip[c].pc = "announce") /\ share'.locked = share.locked
  <2>1. share \in [locked : BOOLEAN, ready : BOOLEAN] BY DEF Inv, TypeOK
  <2> QED BY <2>1 DEF ZipAnnounce, ZipAt
<1>3. /\ zip'[c].pc \in {"done", "refused"}
      /\ \A d \in Calls \ {c} : zip'[d] = zip[d] /\ (Zipping(d)' <=> Zipping(d))
  <2>1. PICK pc \in {"done", "refused"} : zip' = [zip EXCEPT ![c] = EndedZip(pc)]
    BY DEF ZipAnnounce
  <2>2. EndedZip(pc).pc = pc BY DEF EndedZip, NoZip
  <2> QED BY <2>1, <2>2, OneZip
<1>4. Zipping(c) /\ ~Zipping(c)' BY <1>1, <1>3 DEF Zipping
<1>5. c \notin archive.writers BY <1>1 DEF Inv, Writing
<1>6. Writing' /\ ZipAfter' BY <1>1, <1>3, <1>4, <1>5, Writers DEF Inv, Writing, ZipAfter
<1>7. ASSUME ~crossed' PROVE InOrder'
  <2>1. InOrder BY <1>1, <1>7 DEF Inv
  <2>2. \A d \in Calls \ {c} : ~Running(d) /\ ~Zipping(d) BY <1>4, <2>1, Others
  <2>3. \A d \in Calls : ~Zipping(d)' BY <1>3, <1>4, <2>2
  <2>4. \A d \in Calls \ {c} : ~Busy(d)' BY <1>1, <2>2, <2>3 DEF Busy, Running
  <2>5. call[c].pc \in {"lock", "done"} /\ (call[c].pc = "done" => share.locked)
    BY <1>4, <2>1 DEF Inv, ZipAfter, InOrder
  <2>6. \A d \in Calls : call[d].pc \notin Early BY <2>2, <2>5 DEF Running, Early
  <2>7. share'.ready => Whole BY <1>2, <2>1 DEF InOrder
  <2>8. \A d \in Calls : zip'[d].pc \notin {"write", "announce"} BY <2>3 DEF Zipping
  <2>9. share'.ready => share'.locked \/ \E d \in Calls : call'[d].pc = "lock"
    BY <1>1, <1>2, <2>5
  <2> QED BY <1>1, <2>3, <2>4, <2>6, <2>7, <2>8, <2>9 DEF InOrder, Alone, Whole
<1> QED BY <1>6, <1>7 DEF Rest

\* A reversal that comes while a call or a zip runs is crossed.
LEMMA RevertRest == ASSUME Inv, Revert PROVE Rest'
<1>1. /\ share' = [locked |-> FALSE, ready |-> FALSE] /\ call' = call /\ zip' = zip
      /\ archive' = archive /\ crossed' = (crossed \/ \E c \in Calls : Busy(c))
  BY DEF Revert
<1>2. \A d \in Calls : (Zipping(d)' <=> Zipping(d)) /\ (Running(d)' <=> Running(d))
  BY <1>1 DEF Zipping, Running
<1>3. Writing' /\ ZipAfter' BY <1>1, <1>2 DEF Inv, Writing, ZipAfter
<1>4. ASSUME ~crossed' PROVE InOrder'
  <2>1. InOrder /\ \A d \in Calls : ~Running(d) /\ ~Zipping(d) BY <1>1, <1>4 DEF Inv, Busy
  <2>2. \A d \in Calls : ~Busy(d)' BY <1>2, <2>1 DEF Busy
  <2>3. \A d \in Calls : call[d].pc \notin Early BY <2>1 DEF Running, Early
  <2>4. ~share'.ready BY <1>1
  <2> QED BY <1>1, <1>2, <2>1, <2>2, <2>3, <2>4 DEF InOrder, Alone, Whole
<1> QED BY <1>3, <1>4 DEF Rest

\* After the end of the process nothing runs; what was announced stays as it was.
LEMMA EndsRest ==
  ASSUME Inv, NEW found, found.writers \subseteq Calls, found \in ArchiveType,
         share.ready /\ ~crossed => found.there /\ found.writers = {} /\ ~found.broken,
         ProcessEnds(found)
  PROVE  Rest'
<1>1. \A d \in Calls : ~Running(d)' /\ call'[d].pc \notin {"lock"} \cup Early
  <2>1. EndedCall("dead").pc = "dead" BY EndedOK DEF CallPcs, FilePcs
  <2>2. \A d \in Calls : call'[d].pc = "dead" \/ (~Running(d) /\ call'[d].pc = call[d].pc)
    BY <2>1 DEF ProcessEnds
  <2> QED BY <2>2 DEF Running, Early
<1>2. \A d \in Calls : ~Zipping(d)'
  <2>1. EndedZip("dead").pc = "dead" BY DEF EndedZip, NoZip
  <2>2. \A d \in Calls : zip'[d].pc = "dead" \/ (~Zipping(d) /\ zip'[d].pc = zip[d].pc)
    BY <2>1 DEF ProcessEnds
  <2> QED BY <2>2 DEF Zipping
<1>3. /\ archive'.writers = {} /\ archive'.there = found.there
      /\ archive'.broken = (found.broken \/ found.writers # {})
  BY DEF ProcessEnds, ArchiveType
<1>4. Writing' /\ ZipAfter' BY <1>2, <1>3 DEF Writing, ZipAfter
<1>5. share' = share /\ crossed' = (crossed \/ \E c \in Calls : At(c, "lock"))
  BY DEF ProcessEnds, rowVars
<1>6. ASSUME ~crossed' PROVE InOrder'
  <2>1. ~crossed /\ \A d \in Calls : call[d].pc # "lock"
    BY <1>5, <1>6 DEF At
  <2>2. share.ready => share.locked BY <2>1 DEF Inv, InOrder
  <2>3. share'.ready => Whole' BY <1>3, <1>5, <2>1 DEF Whole
  <2>4. Alone' BY <1>1, <1>2 DEF Alone, Busy
  <2>5. \A d \in Calls : zip'[d].pc \notin {"write", "announce"} BY <1>2 DEF Zipping
  <2> QED BY <1>1, <1>2, <1>5, <2>2, <2>3, <2>4, <2>5 DEF InOrder
<1> QED BY <1>4, <1>6 DEF Rest

LEMMA RestartRest == ASSUME Inv, Restart PROVE Rest'
<1>1. archive \in ArchiveType BY DEF Inv, TypeOK
<1>2. share.ready /\ ~crossed => Whole BY DEF Inv, InOrder
<1> QED BY <1>1, <1>2, Writers, EndsRest DEF Restart, Whole

LEMMA MissesRest == ASSUME Inv, NEW c \in Calls, ZipMisses(c) PROVE Rest'
<1> DEFINE truncated == [archive EXCEPT !.there = TRUE, !.broken = TRUE]
<1>1. archive \in ArchiveType BY DEF Inv, TypeOK
<1>2. truncated \in ArchiveType /\ truncated.writers = archive.writers BY <1>1 DEF ArchiveType
<1>3. zip[c].pc = "open" /\ Zipping(c) BY DEF ZipMisses, ZipAt, Zipping
<1>4. ~crossed => ~share.ready BY <1>3 DEF Inv, InOrder
<1>5. \/ ProcessEnds(truncated)
      \/ /\ zip' = [zip EXCEPT ![c] = EndedZip("stuck")] /\ archive' = truncated
         /\ share' = share /\ call' = call /\ crossed' = crossed
  BY DEF ZipMisses, rowVars, histVars
<1> HIDE DEF truncated
<1>6. CASE ProcessEnds(truncated) BY <1>2, <1>4, <1>6, Writers, EndsRest
<1>7. CASE /\ zip' = [zip EXCEPT ![c] = EndedZip("stuck")] /\ archive' = truncated
           /\ share' = share /\ call' = call /\ crossed' = crossed
  <2>1. EndedZip("stuck").pc = "stuck" BY DEF EndedZip, NoZip
  <2>2. /\ zip'[c].pc = "stuck"
        /\ \A d \in Calls \ {c} : zip'[d] = zip[d] /\ (Zipping(d)' <=> Zipping(d))
    BY <1>7, <2>1, OneZip
  <2>3. ~Zipping(c)' BY <2>2 DEF Zipping
  <2>4. c \notin archive.writers BY <1>3 DEF Inv, Writing
  <2>5. Writing' /\ ZipAfter'
    BY <1>2, <1>7, <2>2, <2>3, <2>4, Writers DEF Inv, Writing, ZipAfter
  <2>6. ASSUME ~crossed' PROVE InOrder'
    <3>1. InOrder BY <1>7, <2>6 DEF Inv
    <3>2. \A d \in Calls \ {c} : ~Running(d) /\ ~Zipping(d) BY <1>3, <3>1, Others
    <3>3. \A d \in Calls : ~Zipping(d)' BY <2>2, <2>3, <3>2
    <3>4. \A d \in Calls \ {c} : ~Busy(d)' BY <1>7, <3>2, <3>3 DEF Busy, Running
    <3>5. \A d \in Calls : zip'[d].pc \notin {"write", "announce"} BY <3>3 DEF Zipping
    <3>6. ~share'.ready BY <1>4, <1>7, <2>6
    <3> QED BY <1>7, <3>1, <3>3, <3>4, <3>5, <3>6 DEF InOrder, Alone
  <2> QED BY <2>5, <2>6 DEF Rest
<1> QED BY <1>5, <1>6, <1>7

LEMMA NextInv == Inv /\ [Next]_vars => Inv'
<1> SUFFICES ASSUME Inv, [Next]_vars PROVE Inv' OBVIOUS
<1>1. TypeOK' BY TypeInv DEF Inv
<1>2. ASSUME NEW c \in Calls, CallStep(c) PROVE Rest'
  BY <1>2, EarlyStep, ReadRest, CheckRest, CountRest, EndRest DEF CallStep, EarlyCall
<1>3. ASSUME NEW c \in Calls, ZipStep(c) PROVE Rest'
  BY <1>3, ZipListRest, ZipWriteRest, AnnounceRest, MissesRest DEF ZipStep
<1>4. ASSUME NEW f \in Files, OwnerStep(f) PROVE Rest' BY <1>4, OwnerRest
<1>5. ASSUME UNCHANGED vars PROVE Rest'
  <2>1. /\ share' = share /\ zip' = zip /\ archive' = archive /\ call' = call
        /\ crossed' = crossed
    BY <1>5 DEF vars, rowVars, histVars
  <2>2. \A d \in Calls : call'[d].pc = call[d].pc BY <2>1
  <2> QED BY <2>1, <2>2, SameStage
<1>6. Rest'
  <2>1. CASE Next
    <3>1. CASE \E c \in Calls : CallStep(c) \/ ZipStep(c) BY <1>2, <1>3, <3>1
    <3>2. CASE \E f \in Files : OwnerStep(f) BY <1>4, <3>2
    <3>3. CASE Revert BY <3>3, RevertRest
    <3>4. CASE Restart BY <3>4, RestartRest
    <3> QED BY <2>1, <3>1, <3>2, <3>3, <3>4 DEF Next
  <2> QED BY <1>5, <2>1
<1> QED BY <1>1, <1>6 DEF Inv, Rest

THEOREM Invariance == Spec => []Inv
BY InitInv, NextInv, PTL DEF Spec

----------------------------------------------------------------------------
(* No zip is forgotten                                                      *)

\* The share is locked, or its call has counted the entries and will lock it.
Settled == share.locked \/ \E c \in Calls : call[c].pc = "lock"
Lost == \E c \in Calls : zip[c].pc \in {"refused", "stuck", "dead"}
\* From the count on, the zip of more than one entry is announced or still being built.
Building == share.ready \/ \E c \in Calls : Zipping(c)
Told == Settled /\ changed = {} /\ Entries > 1 /\ ~Lost => Building

LEMMA CrossedStays == ASSUME [Next]_vars, crossed PROVE crossed'
<1>1. ASSUME NEW c \in Calls, CallStep(c) PROVE crossed'
  BY <1>1 DEF CallStep, Read, Check, List, Hash, Sign, SignFails, Stat, Move, Record, Rehash,
              OpenPdf, WritePdf, Written, PdfFails, Certify, Count, Lock, histVars
<1>2. ASSUME NEW c \in Calls, ZipStep(c) PROVE crossed'
  BY <1>2 DEF ZipStep, ZipList, ZipOpen, ZipMisses, ZipWrite, ZipFails, ZipAnnounce,
              ProcessEnds, histVars
<1>3. ASSUME NEW f \in Files, OwnerStep(f) PROVE crossed'
  BY <1>3 DEF OwnerStep, UploadStart, UploadStore, UploadRecord, RemoveFile, RemoveRow, histVars
<1> QED BY <1>1, <1>2, <1>3 DEF Next, Revert, Restart, ProcessEnds, vars, histVars

\* A step at which the conditions do not come about, and a zip in the making stays, or ends
\* announced or lost.
LEMMA ToldKept ==
  ASSUME Told, Settled' => Settled, changed' = {} => changed = {}, Entries' > 1 => Entries > 1,
         Lost => Lost', Building => Building' \/ Lost'
  PROVE  Told'
BY DEF Told

LEMMA CallTold ==
  ASSUME Inv, ~crossed, ~crossed', Told, NEW c \in Calls, CallStep(c) PROVE Told'
<1>1. InOrder BY DEF Inv
<1>2. CASE EarlyCall(c)
  <2>1. ~share.locked /\ Busy(c) BY <1>1, <1>2, EarlyPcs DEF Inv, InOrder, Busy, Running, Early
  <2>2. \A d \in Calls \ {c} : ~Running(d) BY <1>1, <2>1 DEF InOrder, Alone, Busy
  <2>3. \A d \in Calls : call'[d].pc # "lock"
    BY <1>2, <2>2, EarlyPcs DEF Inv, Running, Early
  <2>4. ~Settled' BY <1>2, <2>1, <2>3, EarlySame DEF Settled
  <2> QED BY <2>4 DEF Told
<1>3. CASE Read(c) \/ Check(c)
  <2>1. /\ share' = share /\ zip' = zip /\ rows' = rows /\ certs' = certs /\ changed' = changed
    BY <1>3 DEF Read, Check, rowVars, histVars
  <2>2. call'[c].pc # "lock" /\ \A d \in Calls \ {c} : call'[d].pc = call[d].pc
    <3>1. CASE Read(c)
      BY <3>1 DEF Read, Inv, TypeOK, CallType
    <3>2. CASE Check(c)
      <4>1. PICK pc \in {"refused", "list"} : call' = [call EXCEPT ![c] = EndedCall(pc)]
        BY <3>2 DEF Check
      <4>2. EndedCall(pc).pc = pc BY EndedOK, PcsAre
      <4> QED BY <4>1, <4>2, OneCall DEF Inv
    <3> QED BY <1>3, <3>1, <3>2
  <2>3. Settled' => Settled BY <2>1, <2>2 DEF Settled
  <2>4. Entries' = Entries BY <2>1 DEF Entries
  <2>5. Lost' = Lost /\ Building' = Building BY <2>1 DEF Lost, Building, Zipping
  <2> QED BY <2>1, <2>3, <2>4, <2>5, ToldKept
<1>4. CASE Count(c)
  <2>1. rows' = rows /\ certs' = certs BY <1>4 DEF Count, rowVars
  <2>2. Entries' = Entries BY <2>1 DEF Entries
  <2>3. Entries > 1 => Zipping(c)'
    <3>1. zip[c] \in ZipType BY DEF Inv, TypeOK
    <3>2. Entries > 1 => zip'[c].pc = "list" BY <1>4, <3>1 DEF Count, Inv, TypeOK, ZipType
    <3> QED BY <3>2 DEF Zipping
  <2> QED BY <2>2, <2>3 DEF Told, Building
<1>5. CASE Lock(c)
  <2>1. /\ zip' = zip /\ rows' = rows /\ certs' = certs /\ changed' = changed
    BY <1>5 DEF Lock, rowVars, histVars
  <2>2. Settled BY <1>5 DEF Settled, Lock, At
  <2>3. share'.ready = share.ready
    BY <1>5 DEF Lock, rowVars, Inv, TypeOK
  <2>4. Entries' = Entries BY <2>1 DEF Entries
  <2>5. Lost' = Lost /\ Building' = Building BY <2>1, <2>3 DEF Lost, Building, Zipping
  <2> QED BY <2>1, <2>2, <2>4, <2>5, ToldKept
<1> QED BY <1>2, <1>3, <1>4, <1>5 DEF CallStep, EarlyCall

LEMMA EndsTold ==
  ASSUME Inv, ~crossed, ~crossed', Told, NEW found, ProcessEnds(found) PROVE Told'
<1>1. /\ share' = share /\ rows' = rows /\ certs' = certs /\ changed' = changed
      /\ \A c \in Calls : call[c].pc # "lock"
  BY DEF ProcessEnds, rowVars, At
<1>2. \A c \in Calls : call'[c].pc # "lock"
  <2>1. EndedCall("dead").pc = "dead" BY EndedOK DEF CallPcs, FilePcs
  <2> QED BY <1>1, <2>1 DEF ProcessEnds
<1>3. Settled' => Settled BY <1>1, <1>2 DEF Settled
<1>4. Entries' = Entries BY <1>1 DEF Entries
<1>5. \A c \in Calls : IF Zipping(c) THEN zip'[c].pc = "dead" ELSE zip'[c] = zip[c]
  BY DEF ProcessEnds, EndedZip, NoZip
<1>6. (Lost => Lost') /\ (Building => Building' \/ Lost')
  BY <1>1, <1>5 DEF Lost, Building, Zipping
<1> QED BY <1>1, <1>3, <1>4, <1>6, ToldKept

LEMMA ZipTold ==
  ASSUME Inv, ~crossed, ~crossed', Told, NEW c \in Calls, ZipStep(c) PROVE Told'
<1>1. CASE ZipMisses(c) /\ \E found : ProcessEnds(found) BY <1>1, EndsTold
<1>2. CASE ~(\E found : ProcessEnds(found))
  <2>1. rows' = rows /\ certs' = certs /\ call' = call /\ share'.locked = share.locked
    BY <1>2 DEF ZipStep, ZipList, ZipOpen, ZipMisses, ZipWrite, ZipFails, ZipAnnounce, rowVars,
                Inv, TypeOK
  <2>2. Zipping(c)
    BY DEF ZipStep, ZipList, ZipOpen, ZipMisses, ZipWrite, ZipFails, ZipAnnounce, ZipAt, Zipping
  <2>3. \A d \in Calls \ {c} : zip'[d] = zip[d]
    BY <1>2 DEF ZipStep, ZipList, ZipOpen, ZipMisses, ZipWrite, ZipFails, ZipAnnounce, Inv, TypeOK
  <2>4. Building' \/ Lost'
    <3>1. CASE ZipList(c) \/ ZipOpen(c) \/ ZipWrite(c) \/ ZipFails(c)
      <4>1. PICK pc \in {"open", "write", "announce", "failed"} : zip'[c].pc = pc
        BY <3>1 DEF ZipList, ZipOpen, ZipWrite, ZipFails, Inv, TypeOK, ZipType
      <4> QED BY <4>1 DEF Building, Zipping
    <3>2. CASE ZipMisses(c)
      <4>1. zip'[c].pc = "stuck"
        BY <1>2, <3>2 DEF ZipMisses, EndedZip, NoZip, Inv, TypeOK
      <4> QED BY <4>1 DEF Lost
    <3>3. CASE ZipAnnounce(c)
      <4>1. CASE ZipAt(c, "announce") BY <3>3, <4>1 DEF ZipAnnounce, Inv, TypeOK, Building
      <4>2. CASE ~ZipAt(c, "announce")
        <5>1. zip'[c].pc = "refused"
          BY <3>3, <4>2 DEF ZipAnnounce, EndedZip, NoZip, Inv, TypeOK
        <5> QED BY <5>1 DEF Lost
      <4> QED BY <4>1, <4>2
    <3> QED BY <3>1, <3>2, <3>3 DEF ZipStep
  <2> QED BY <2>4 DEF Told
<1> QED BY <1>1, <1>2, EndsTold

\* A file less is not an entry more.
LEMMA OwnerTold ==
  ASSUME Inv, ~crossed, ~crossed', Told, NEW f \in Files, OwnerStep(f) PROVE Told'
<1>1. /\ Settled' = Settled /\ Lost' = Lost /\ Building' = Building
  BY OwnerSame DEF Settled, Lost, Building, Zipping
<1>2. CASE UploadStart(f) \/ UploadStore(f)
  <2>1. rows' = rows /\ certs' = certs /\ changed' = changed
    BY <1>2 DEF UploadStart, UploadStore, rowVars, histVars
  <2>2. Entries' = Entries BY <2>1 DEF Entries
  <2> QED BY <1>1, <2>1, <2>2, ToldKept
<1>3. CASE UploadRecord(f) \/ RemoveFile(f)
  BY <1>3 DEF UploadRecord, RemoveFile, Told
<1>4. CASE RemoveRow(f)
  <2>1. rows' = rows \ {f} /\ certs' = certs /\ changed' = changed
    BY <1>4 DEF RemoveRow, histVars
  <2>2. rows \subseteq Files /\ IsFiniteSet(rows) /\ certs \in Nat
    BY FS_Subset DEF Inv, TypeOK
  <2>3. /\ Cardinality(rows') <= Cardinality(rows)
        /\ Cardinality(rows') \in Nat /\ Cardinality(rows) \in Nat
    <3>1. rows' \subseteq rows BY <2>1
    <3>2. IsFiniteSet(rows') BY <2>2, <3>1, FS_Subset
    <3> QED BY <2>2, <3>1, <3>2, FS_Subset, FS_CardinalityType
  <2>4. Entries' > 1 => Entries > 1 BY <2>1, <2>2, <2>3 DEF Entries
  <2> QED BY <1>1, <2>1, <2>4, ToldKept
<1> QED BY <1>2, <1>3, <1>4 DEF OwnerStep

LEMMA ToldInv ==
  ASSUME Inv, [Next]_vars, ~crossed => Told PROVE ~crossed' => Told'
<1> SUFFICES ASSUME ~crossed' PROVE Told' OBVIOUS
<1>1. ~crossed /\ Told BY CrossedStays
<1>2. CASE \E c \in Calls : CallStep(c) \/ ZipStep(c) BY <1>1, <1>2, CallTold, ZipTold
<1>3. CASE \E f \in Files : OwnerStep(f) BY <1>1, <1>3, OwnerTold
<1>4. CASE Revert
  <2>1. \A c \in Calls : ~Running(c) /\ call' = call /\ ~share'.locked
    BY <1>4 DEF Revert, Busy
  <2>2. ~Settled' BY <1>4, <2>1 DEF Settled, Running, Revert
  <2> QED BY <2>2 DEF Told
<1>5. CASE Restart BY <1>1, <1>5, EndsTold DEF Restart
<1>6. CASE UNCHANGED vars
  <2>1. UNCHANGED <<share, rows, certs, changed, call, zip>> BY <1>6 DEF vars, rowVars, histVars
  <2> QED BY <1>1, <2>1 DEF Told, Settled, Entries, Lost, Building, Zipping
<1> QED BY <1>2, <1>3, <1>4, <1>5, <1>6 DEF Next

----------------------------------------------------------------------------
(* The archive holds the files of the share                                 *)

\* A file is in the table, and a call works on it, only after it was uploaded.
Known ==
  /\ \A f \in rows : upload[f] = "done"
  /\ \A c \in Calls : \A f \in call[c].todo : upload[f] = "done"
  /\ \A c \in Calls : call[c].file \in Files => upload[call[c].file] = "done"

\* The outputs of ffmpeg are all that changes of a call when a path is renamed or unlinked.
LEMMA OutputsOnly ==
  ASSUME TypeOK, NEW f, NEW place, NEW c \in Calls,
         NEW q \in {Moved(f)[c], Unlinked(f, place)[c]}
  PROVE  /\ q.pc = call[c].pc /\ q.todo = call[c].todo /\ q.file = call[c].file
         /\ q.original = call[c].original /\ q.final = call[c].final
<1>1. call[c] \in CallType BY DEF TypeOK
<1>2. \/ q = call[c]
      \/ \E out \in {"disk", "gone"} : q = [call[c] EXCEPT !.output = out]
  BY DEF Moved, Unlinked
<1> QED BY <1>1, <1>2 DEF CallType

\* What a call may come to work on.
LEMMA CallWork ==
  ASSUME TypeOK, NEW c \in Calls, CallStep(c), NEW d \in Calls
  PROVE  /\ call'[d].todo \subseteq call[d].todo \cup rows
         /\ call'[d].file \in call[d].todo \cup {call[d].file, NoFile}
<1>1. call[d] \in CallType /\ call[c] \in CallType /\ call \in [Calls -> CallType] BY DEF TypeOK
<1>2. /\ IdleCall.todo = {} /\ IdleCall.file = NoFile
      /\ \A pc : EndedCall(pc).todo = {} /\ EndedCall(pc).file = NoFile
  BY DEF IdleCall, EndedCall
<1>3. CASE LeaveCertificates(c) BY <1>1, <1>2, <1>3 DEF LeaveCertificates
<1>4. CASE Read(c) \/ List(c) BY <1>1, <1>4 DEF Read, List, CallType
<1>5. CASE Check(c) BY <1>1, <1>2, <1>5 DEF Check
<1>6. CASE Hash(c) /\ ~LeaveCertificates(c)
  <2>1. PICK f \in call[c].todo :
       IF disk[f] = Absent THEN LeaveCertificates(c) /\ UNCHANGED tmp
       ELSE IF f \notin Videos
       THEN /\ call' = [call EXCEPT ![c].pc = "rehash", ![c].file = f]
            /\ UNCHANGED tmp
       ELSE LET others == WritersTo(f, "tmp") IN
            /\ tmp' = [tmp EXCEPT ![f] = Torn]
            /\ call' = [e \in Calls |->
                 IF e = c THEN [call[c] EXCEPT !.pc = "sign", !.file = f, !.original = disk[f],
                                               !.output = "tmp", !.alone = (others = {})]
                 ELSE IF e \in others THEN [call[e] EXCEPT !.alone = FALSE]
                 ELSE call[e]]
    BY <1>6 DEF Hash
  <2>2. CASE f \notin Videos BY <1>1, <1>6, <2>1, <2>2 DEF CallType
  <2>3. CASE f \in Videos
    <3> DEFINE others == WritersTo(f, "tmp")
               alone == others = {}
    <3>1. call'[d] = IF d = c THEN [call[c] EXCEPT !.pc = "sign", !.file = f,
                                       !.original = disk[f], !.output = "tmp", !.alone = alone]
                     ELSE IF d \in others THEN [call[d] EXCEPT !.alone = FALSE]
                     ELSE call[d]
      BY <1>6, <2>1, <2>3
    <3> HIDE DEF others, alone
    <3> QED BY <1>1, <3>1 DEF CallType
  <2> QED BY <2>2, <2>3
<1>7. CASE Sign(c) BY <1>1, <1>7 DEF Sign, CallType
<1>8. CASE SignFails(c)
  <2> DEFINE f == call[c].file
             q == [EndedCall("rehash") EXCEPT !.todo = call[c].todo, !.file = f]
  <2>1. call' = [Unlinked(f, "tmp") EXCEPT ![c] = q] BY <1>8 DEF SignFails
  <2>2. q.todo = call[c].todo /\ q.file = f BY DEF EndedCall, IdleCall
  <2> HIDE DEF q, f
  <2>3. call'[d] = IF d = c THEN q ELSE Unlinked(f, "tmp")[d] BY <2>1 DEF Unlinked
  <2>4. d # c => /\ call'[d].todo = call[d].todo /\ call'[d].file = call[d].file
    BY <2>3, OutputsOnly
  <2> QED BY <2>2, <2>3, <2>4 DEF f
<1>9. CASE Move(c) /\ ~LeaveCertificates(c)
  <2> DEFINE f == call[c].file
  <2>1. call' = [Moved(f) EXCEPT ![c].pc = "record"] BY <1>9 DEF Move
  <2> HIDE DEF f
  <2>2. call'[d] = IF d = c THEN [Moved(f)[c] EXCEPT !.pc = "record"] ELSE Moved(f)[d]
    BY <2>1 DEF Moved
  <2>3. call'[d].todo = Moved(f)[d].todo /\ call'[d].file = Moved(f)[d].file
    <3>1. CASE d # c BY <2>2, <3>1
    <3>2. CASE d = c
      <4>1. \/ Moved(f)[c] = call[c]
            \/ \E out \in {"disk", "gone"} : Moved(f)[c] = [call[c] EXCEPT !.output = out]
        BY DEF Moved
      <4>2. Moved(f)[c] \in CallType BY <1>1, <4>1 DEF CallType
      <4> QED BY <2>2, <3>2, <4>2 DEF CallType
    <3> QED BY <3>1, <3>2
  <2> QED BY <2>3, OutputsOnly
<1>10. CASE (Stat(c) \/ Record(c) \/ Rehash(c)) /\ ~LeaveCertificates(c)
  BY <1>1, <1>10 DEF Stat, Record, Rehash, Goto, CallType
<1>11. CASE WritePdf(c) \/ Count(c) \/ Lock(c)
  BY <1>1, <1>11 DEF WritePdf, Written, Count, Lock, Goto, CallType
<1>13. CASE OpenPdf(c)
  <2> DEFINE others == {e \in Calls : At(e, "write") /\ call[e].file = call[c].file}
             alone == others = {}
  <2>1. call'[d] = IF d = c THEN [call[c] EXCEPT !.pc = "write", !.alone = alone]
                   ELSE IF d \in others THEN [call[d] EXCEPT !.alone = FALSE]
                   ELSE call[d]
    BY <1>13 DEF OpenPdf
  <2> HIDE DEF others, alone
  <2> QED BY <1>1, <2>1 DEF CallType
<1>12. CASE Certify(c)
  <2> DEFINE left == call[c].todo \ {call[c].file}
             pc == IF left = {} THEN "count" ELSE "hash"
             q == [EndedCall(pc) EXCEPT !.todo = left]
  <2>1. call' = [call EXCEPT ![c] = q] BY <1>12 DEF Certify
  <2>2. q.todo = left /\ q.file = NoFile BY DEF EndedCall, IdleCall
  <2> HIDE DEF q
  <2> QED BY <1>1, <2>1, <2>2
<1> QED
  BY <1>3, <1>4, <1>5, <1>6, <1>7, <1>8, <1>9, <1>10, <1>11, <1>12, <1>13 DEF CallStep, PdfFails

LEMMA KnownInv == ASSUME TypeOK, Known, [Next]_vars PROVE Known'
<1>1. ASSUME NEW c \in Calls, CallStep(c) PROVE Known'
  <2>1. rows' = rows /\ upload' = upload
    BY <1>1 DEF CallStep, Read, Check, List, Hash, Sign, SignFails, Stat, Move, Record, Rehash,
                OpenPdf, WritePdf, Written, PdfFails, Certify, Count, Lock, rowVars, ownerVars
  <2>2. \A d \in Calls : /\ call'[d].todo \subseteq call[d].todo \cup rows
                         /\ call'[d].file \in call[d].todo \cup {call[d].file, NoFile}
    BY <1>1, CallWork
  <2> QED BY <2>1, <2>2 DEF Known
\* An upload that was done stays so, and a call gets nothing to do from another step.
<1>2. ASSUME \A f \in Files : upload[f] = "done" => upload'[f] = "done",
             \A f \in rows' \ rows : upload'[f] = "done", rows' \subseteq Files,
             \A d \in Calls : /\ call'[d].todo \subseteq call[d].todo
                              /\ call'[d].file \in {call[d].file, NoFile}
      PROVE  Known'
  BY <1>2 DEF Known, TypeOK, CallType
<1>3. ASSUME NEW found, ProcessEnds(found) PROVE Known'
  <2>1. rows' = rows /\ \A f \in Files : upload[f] = "done" => upload'[f] = "done"
    BY <1>3 DEF ProcessEnds, rowVars
  <2>2. EndedCall("dead").todo = {} /\ EndedCall("dead").file = NoFile
    BY DEF EndedCall, IdleCall
  <2>3. \A d \in Calls : call'[d] = call[d] \/ call'[d] = EndedCall("dead")
    BY <1>3 DEF ProcessEnds
  <2>4. \A d \in Calls : /\ call'[d].todo \subseteq call[d].todo
                         /\ call'[d].file \in {call[d].file, NoFile}
    BY <2>2, <2>3
  <2> QED BY <1>2, <2>1, <2>4 DEF TypeOK
<1>4. ASSUME UNCHANGED <<rows, upload, call>> PROVE Known'
  BY <1>4 DEF Known
<1>5. ASSUME NEW c \in Calls, ZipStep(c) PROVE Known'
  <2>1. (\E found : ProcessEnds(found)) \/ UNCHANGED <<rows, upload, call>>
    BY <1>5 DEF ZipStep, ZipList, ZipOpen, ZipMisses, ZipWrite, ZipFails, ZipAnnounce, rowVars,
                ownerVars
  <2> QED BY <1>3, <1>4, <2>1
<1>6. ASSUME NEW f \in Files, OwnerStep(f) PROVE Known'
  <2>1. \A g \in Files : upload[g] = "done" => upload'[g] = "done"
    BY <1>6 DEF OwnerStep, UploadStart, UploadStore, UploadRecord, RemoveFile, RemoveRow, TypeOK
  <2>2. rows' \subseteq Files /\ \A g \in rows' \ rows : upload'[g] = "done"
    BY <1>6 DEF OwnerStep, UploadStart, UploadStore, UploadRecord, RemoveFile, RemoveRow, TypeOK,
                rowVars
  <2>3. call' = call \/ call' = Unlinked(f, "disk")
    BY <1>6 DEF OwnerStep, UploadStart, UploadStore, UploadRecord, RemoveFile, RemoveRow
  <2>4. \A d \in Calls : call'[d].todo = call[d].todo /\ call'[d].file = call[d].file
    BY <2>3, OutputsOnly
  <2> QED BY <1>2, <2>1, <2>2, <2>4
<1>7. CASE Revert BY <1>4, <1>7 DEF Revert
<1>8. CASE Restart BY <1>3, <1>8 DEF Restart
<1>9. CASE UNCHANGED vars BY <1>4, <1>9 DEF vars, rowVars, ownerVars
<1> QED BY <1>1, <1>5, <1>6, <1>7, <1>8, <1>9 DEF Next

\* The list of a zip has every file recorded before it was made, and what the archive holds
\* is what they are now, from its opening until a reversal.
Listed == \A c \in Calls : zip[c].pc = "open" => rows \ changed \subseteq zip[c].listed
Filled == share.ready \/ \E c \in Calls : zip[c].pc \in {"write", "announce"}
Held == Listed /\ (Filled => \A f \in rows \ changed : archive.held[f] = disk[f])

\* Nothing is filled or listed while a call runs, and at its count.
LEMMA CallHeld ==
  ASSUME Inv, ~crossed, Held, NEW c \in Calls, CallStep(c) PROVE Held'
<1>1. InOrder BY DEF Inv
<1>2. CASE EarlyCall(c) \/ Count(c)
  <2>1. call[c].pc \in Early BY <1>2, EarlyPcs DEF Inv, Count, At, Early
  <2>2. ~share.ready /\ Busy(c) BY <1>1, <2>1 DEF InOrder, Busy, Running, Early
  <2>3. \A d \in Calls : ~Zipping(d)
    BY <1>1, <2>1, <2>2 DEF Inv, ZipAfter, InOrder, Alone, Busy, Early
  <2>4. share' = share BY <1>2, EarlySame DEF Count, rowVars
  <2>5. \A d \in Calls : zip'[d].pc \notin {"open", "write", "announce"}
    <3>1. CASE EarlyCall(c) BY <2>3, <3>1, EarlySame DEF Zipping
    <3>2. CASE Count(c) BY <2>3, <3>2 DEF Count, Zipping, Inv, TypeOK, ZipType
    <3> QED BY <1>2, <3>1, <3>2
  <2> QED BY <2>2, <2>4, <2>5 DEF Held, Listed, Filled
<1>3. CASE Read(c) \/ Check(c) \/ Lock(c)
  <2>1. UNCHANGED <<rows, changed, disk, archive, zip>> /\ share'.ready = share.ready
    BY <1>3 DEF Read, Check, Lock, rowVars, diskVars, histVars, Inv, TypeOK
  <2> QED BY <2>1 DEF Held, Listed, Filled
<1> QED BY <1>2, <1>3 DEF CallStep, EarlyCall

LEMMA EndsHeld ==
  ASSUME Held, NEW found \in ArchiveType, share.ready => found.held = archive.held,
         ProcessEnds(found)
  PROVE  Held'
<1>1. \A c \in Calls : zip'[c].pc \notin {"open", "write", "announce"}
  <2>1. \A c \in Calls : zip'[c].pc = "dead" \/ (~Zipping(c) /\ zip'[c] = zip[c])
    BY DEF ProcessEnds, EndedZip, NoZip
  <2> QED BY <2>1 DEF Zipping
<1>2. UNCHANGED <<share, rows, changed, disk>> /\ archive'.held = found.held
  BY DEF ProcessEnds, rowVars, diskVars, ArchiveType
<1> QED BY <1>1, <1>2 DEF Held, Listed, Filled

LEMMA ZipHeld ==
  ASSUME Inv, ~crossed, Held, NEW c \in Calls, ZipStep(c) PROVE Held'
<1>1. InOrder BY DEF Inv
<1>2. Zipping(c)
  BY DEF ZipStep, ZipList, ZipOpen, ZipMisses, ZipWrite, ZipFails, ZipAnnounce, ZipAt, Zipping
<1>3. /\ ~share.ready /\ \A d \in Calls \ {c} : ~Zipping(d)
  BY <1>1, <1>2, Others DEF InOrder
<1>4. \A d \in Calls \ {c} : zip[d].pc \notin {"open", "write", "announce"}
  BY <1>3 DEF Zipping
<1>5. archive \in ArchiveType /\ zip \in [Calls -> ZipType] BY DEF Inv, TypeOK
<1>6. CASE ZipMisses(c) /\ \E found : ProcessEnds(found)
  <2> DEFINE truncated == [archive EXCEPT !.there = TRUE, !.broken = TRUE]
  <2>1. truncated \in ArchiveType BY <1>5 DEF ArchiveType
  <2>2. ProcessEnds(truncated) \/ (zip' = [zip EXCEPT ![c] = EndedZip("stuck")] /\ share' = share)
    BY <1>6 DEF ZipMisses, rowVars
  <2>3. CASE ProcessEnds(truncated) BY <1>3, <2>1, <2>3, EndsHeld
  <2>4. CASE zip' = [zip EXCEPT ![c] = EndedZip("stuck")] /\ share' = share
    <3>1. \A d \in Calls : zip'[d].pc \notin {"open", "write", "announce"}
      BY <1>4, <1>5, <2>4 DEF EndedZip, NoZip
    <3> QED BY <1>3, <2>4, <3>1 DEF Held, Listed, Filled
  <2> QED BY <2>2, <2>3, <2>4
<1>7. CASE ~(ZipMisses(c) /\ \E found : ProcessEnds(found))
  <2>1. UNCHANGED <<rows, disk>> /\ \A d \in Calls \ {c} : zip'[d] = zip[d]
    BY <1>5, <1>7 DEF ZipStep, ZipList, ZipOpen, ZipMisses, ZipWrite, ZipFails, ZipAnnounce,
                      rowVars, diskVars
  <2>2. CASE ZipList(c)
    <3>1. zip'[c] = [pc |-> "open", listed |-> rows] /\ share' = share
      BY <1>5, <2>2 DEF ZipList, rowVars
    <3> QED BY <1>3, <1>4, <2>1, <3>1 DEF Held, Listed, Filled
  <2>3. CASE ZipOpen(c)
    <3> DEFINE held == [f \in Files |-> IF f \in zip[c].listed THEN disk[f] ELSE Absent]
    <3>1. zip'[c].pc = "write" /\ changed' = changed /\ archive'.held = held
      BY <1>5, <2>3 DEF ZipOpen, histVars
    <3>2. rows \ changed \subseteq zip[c].listed /\ rows \subseteq Files
      BY <2>3 DEF ZipOpen, ZipAt, Held, Listed, Inv, TypeOK
    <3>3. \A f \in rows \ changed : held[f] = disk[f] BY <3>2
    <3> HIDE DEF held
    <3> QED BY <1>4, <2>1, <3>1, <3>3 DEF Held, Listed
  <2>4. CASE ZipWrite(c)
    <3>1. zip'[c].pc = "announce" /\ changed' = changed /\ archive'.held = archive.held
      BY <1>5, <2>4 DEF ZipWrite, histVars, ZipType, ArchiveType
    <3>2. Filled BY <2>4 DEF ZipWrite, ZipAt, Filled
    <3> QED BY <1>4, <2>1, <3>1, <3>2 DEF Held, Listed
  <2>5. CASE ZipFails(c) \/ ZipMisses(c)
    <3>1. zip'[c].pc \in {"failed", "stuck"} /\ share' = share
      BY <1>5, <1>7, <2>5 DEF ZipFails, ZipMisses, EndedZip, NoZip, rowVars
    <3> QED BY <1>3, <1>4, <2>1, <3>1 DEF Held, Listed, Filled
  <2>6. CASE ZipAnnounce(c)
    <3>1. zip'[c].pc \in {"done", "refused"} /\ changed' = changed /\ archive' = archive
      BY <1>5, <2>6 DEF ZipAnnounce, EndedZip, NoZip, histVars
    <3>2. share'.ready => zip[c].pc = "announce"
      BY <2>6 DEF ZipAnnounce, ZipAt, Inv, TypeOK
    <3> QED BY <1>4, <2>1, <3>1, <3>2 DEF Held, Listed, Filled
  <2> QED BY <2>2, <2>3, <2>4, <2>5, <2>6 DEF ZipStep
<1> QED BY <1>6, <1>7

LEMMA OwnerHeld ==
  ASSUME Inv, Known, Held, NEW f \in Files, OwnerStep(f) PROVE Held'
<1>1. share' = share /\ zip' = zip /\ archive' = archive BY OwnerSame
<1>2. rows' \ changed' \subseteq rows \ changed
  BY DEF OwnerStep, UploadStart, UploadStore, UploadRecord, RemoveFile, RemoveRow, rowVars,
         histVars
<1>3. \A g \in rows' \ changed' : disk'[g] = disk[g]
  <2>1. CASE UploadStore(f)
    <3>1. upload[f] = "open" /\ rows' = rows BY <2>1 DEF UploadStore, rowVars
    <3>2. f \notin rows' BY <3>1 DEF Known
    <3> QED BY <2>1, <3>1, <3>2 DEF UploadStore, Inv, TypeOK
  <2>2. CASE RemoveFile(f) BY <2>2 DEF RemoveFile, rowVars, Inv, TypeOK
  <2>3. CASE ~UploadStore(f) /\ ~RemoveFile(f)
    BY <2>3 DEF OwnerStep, UploadStart, UploadRecord, RemoveRow, diskVars
  <2> QED BY <2>1, <2>2, <2>3
<1> QED BY <1>1, <1>2, <1>3 DEF Held, Listed, Filled

LEMMA HeldInv ==
  ASSUME Inv, Known, [Next]_vars, ~crossed => Held PROVE ~crossed' => Held'
<1> SUFFICES ASSUME ~crossed' PROVE Held' OBVIOUS
<1>1. ~crossed /\ Held BY CrossedStays
<1>2. CASE \E c \in Calls : CallStep(c) \/ ZipStep(c) BY <1>1, <1>2, CallHeld, ZipHeld
<1>3. CASE \E f \in Files : OwnerStep(f) BY <1>1, <1>3, OwnerHeld
<1>4. CASE Revert
  <2>1. \A c \in Calls : ~Zipping(c) /\ zip' = zip /\ ~share'.ready
    BY <1>4 DEF Revert, Busy
  <2>2. \A c \in Calls : zip'[c].pc \notin {"open", "write", "announce"}
    BY <2>1 DEF Zipping
  <2> QED BY <1>4, <2>1, <2>2 DEF Held, Listed, Filled, Revert
<1>5. CASE Restart
  <2>1. archive \in ArchiveType BY DEF Inv, TypeOK
  <2> QED BY <1>1, <1>5, <2>1, EndsHeld DEF Restart
<1>6. CASE UNCHANGED vars
  <2>1. UNCHANGED <<share, rows, changed, disk, archive, zip>>
    BY <1>6 DEF vars, rowVars, diskVars, histVars
  <2> QED BY <1>1, <2>1 DEF Held, Listed, Filled
<1> QED BY <1>2, <1>3, <1>4, <1>5, <1>6 DEF Next

----------------------------------------------------------------------------
(* The certificates are those of the files                                  *)

\* What the call that is at one of these steps has of its file: while it is alone, nothing
\* comes in between but a removal.
Stage(c) ==
  LET q == call[c]
      f == call[c].file
  IN
  /\ q.pc = "sign" => q.output = "tmp" /\ q.alone /\ q.original \in Nat
  /\ q.pc = "stat" => q.original \in Nat /\ tmp[f] = q.original + 1
  /\ q.pc = "move" => q.original \in Nat /\ q.final = q.original + 1 /\ tmp[f] = q.final
  /\ q.pc = "record" => /\ q.original \in Nat /\ q.final = q.original + 1
                        /\ disk[f] \in {q.final, Absent}
  /\ q.pc = "pdf" => disk[f] \in {q.final, Absent}
  /\ q.pc = "write" => disk[f] \in {q.final, Absent} /\ q.alone

\* No file is torn, and what is being uploaded is what was sent and has no certificate.
Fresh ==
  \A f \in Files : /\ disk[f] # Torn
                   /\ upload[f] = "stored" => disk[f] = Uploaded
                   /\ upload[f] # "done" => pdf[f] = Absent

\* The row has the size of the file, and the certificate its hash.
RowTrue(f) == size[f] = disk[f]
PdfTrue(f) == pdf[f] \in {disk[f], Absent}
Match ==
  \A f \in rows : disk[f] # Absent =>
    /\ f \notin severed /\ (\A c \in Calls : call[c].file = f => ~At(c, "record"))
       => RowTrue(f)
    /\ f \notin unprinted /\ (\A c \in Calls : call[c].file = f => ~Replaced(c))
       => PdfTrue(f)

Certified == (\A c \in Calls : Stage(c)) /\ Fresh /\ Match

\* While one call works on a file, no other does; it is the only one to look at.
Only(c) == \A d \in Calls \ {c} : call[d].pc \notin FilePcs
MatchBut(c) ==
  \A f \in rows : disk[f] # Absent =>
    /\ f \notin severed /\ ~(call[c].file = f /\ At(c, "record")) => RowTrue(f)
    /\ f \notin unprinted /\ ~(call[c].file = f /\ Replaced(c)) => PdfTrue(f)

LEMMA OnlyOne ==
  ASSUME Inv, ~crossed, NEW c \in Calls, EarlyCall(c) PROVE Only(c) /\ Only(c)'
<1>1. call[c].pc \in Early /\ \A d \in Calls \ {c} : call'[d].pc = call[d].pc
  BY EarlyPcs DEF Inv
<1>2. Busy(c) BY <1>1 DEF Busy, Running, Early
<1>3. \A d \in Calls \ {c} : ~Running(d) BY <1>2 DEF Inv, InOrder, Alone, Busy
<1>4. \A d \in Calls \ {c} : call[d].pc \notin FilePcs BY <1>3 DEF Running, FilePcs
<1> QED BY <1>1, <1>4 DEF Only

LEMMA MatchOnly ==
  ASSUME Match, NEW c \in Calls, Only(c) PROVE MatchBut(c)
BY DEF Match, MatchBut, Only, Replaced, At, FilePcs

LEMMA OnlyMatch ==
  ASSUME NEW c \in Calls, Only(c)', Stage(c)', Fresh', MatchBut(c)' PROVE Certified'
<1>1. \A d \in Calls \ {c} : Stage(d)' BY DEF Only, Stage, FilePcs
<1>2. Match' BY DEF Match, MatchBut
<1> QED BY <1>1, <1>2 DEF Certified

\* A step at which the files and their rows stay, and the call comes to a stage that says
\* nothing of its file, or leaves the certificates.
LEMMA QuietStage ==
  ASSUME TypeOK, Certified, NEW c \in Calls, Only(c), Only(c)',
         UNCHANGED <<rows, size, disk, pdf, upload, severed, unprinted>>,
         Stage(c)', call[c].file \in rows => ~Replaced(c)
  PROVE  Certified'
<1>1. MatchBut(c) BY MatchOnly DEF Certified
<1>2. MatchBut(c)' BY <1>1 DEF MatchBut, RowTrue, PdfTrue, Replaced, At
<1>3. Fresh' BY DEF Certified, Fresh
<1> QED BY <1>2, <1>3, OnlyMatch

LEMMA Still == \A c \in Calls : call[c].pc \notin {"record", "pdf", "write"} => ~Replaced(c)
BY DEF Replaced, At

\* Before a file is signed, and where it cannot be.
LEMMA HashCertified ==
  ASSUME Inv, Known, ~crossed, Certified, NEW c \in Calls, List(c) \/ Hash(c) \/ Certify(c)
  PROVE  Certified'
<1>1. TypeOK /\ Only(c) /\ Only(c)' BY OnlyOne DEF Inv, EarlyCall
<1>2. call[c] \in CallType /\ call \in [Calls -> CallType] /\ CallOK(call[c])
  BY <1>1, CallsAre DEF TypeOK
<1>3. call[c].pc \in {"list", "hash", "certify"} BY DEF List, Hash, Certify, At
<1>4. UNCHANGED <<rows, size, disk, pdf, upload, severed, unprinted>>
  BY DEF List, Hash, Certify, rowVars, diskVars, ownerVars, histVars
<1>5. ~Replaced(c) BY <1>3, Still
<1>6. CASE call'[c].pc \notin {"sign", "stat", "move", "record", "pdf", "write"}
  <2>1. Stage(c)' BY <1>6 DEF Stage
  <2> QED BY <1>1, <1>4, <1>5, <2>1, QuietStage
<1>7. CASE call'[c].pc \in {"sign", "stat", "move", "record", "pdf", "write"}
  <2>1. Hash(c)
    <3>1. CASE List(c) BY <1>2, <1>7, <3>1 DEF List, CallType
    <3>2. CASE Certify(c)
      <4>1. PICK pc \in {"count", "hash"}, left \in SUBSET Files :
              call' = [call EXCEPT ![c] = [EndedCall(pc) EXCEPT !.todo = left]]
        <5>1. call[c].todo \ {call[c].file} \in SUBSET Files BY <1>2 DEF CallType
        <5> QED BY <3>2, <5>1 DEF Certify
      <4>2. call'[c].pc = pc BY <1>2, <4>1 DEF EndedCall, IdleCall
      <4> QED BY <1>7, <4>2
    <3> QED BY <3>1, <3>2
  <2>2. PICK f \in call[c].todo :
       IF disk[f] = Absent THEN LeaveCertificates(c) /\ UNCHANGED tmp
       ELSE IF f \notin Videos
       THEN /\ call' = [call EXCEPT ![c].pc = "rehash", ![c].file = f]
            /\ UNCHANGED tmp
       ELSE LET others == WritersTo(f, "tmp") IN
            /\ tmp' = [tmp EXCEPT ![f] = Torn]
            /\ call' = [d \in Calls |->
                 IF d = c THEN [call[c] EXCEPT !.pc = "sign", !.file = f, !.original = disk[f],
                                               !.output = "tmp", !.alone = (others = {})]
                 ELSE IF d \in others THEN [call[d] EXCEPT !.alone = FALSE]
                 ELSE call[d]]
    BY <2>1 DEF Hash
  <2>3. disk[f] # Absent
    <3>1. LeaveCertificates(c) => call'[c].pc = "count"
      BY <1>2 DEF LeaveCertificates, EndedCall, IdleCall
    <3> QED BY <1>7, <2>2, <3>1
  <2>4. f \in Videos
    <3>1. f \notin Videos => call'[c] = [call[c] EXCEPT !.pc = "rehash", !.file = f]
      BY <1>2, <2>2, <2>3
    <3>2. [call[c] EXCEPT !.pc = "rehash", !.file = f].pc = "rehash" BY <1>2 DEF CallType
    <3> QED BY <1>7, <3>1, <3>2
  <2> DEFINE others == WritersTo(f, "tmp")
             alone == others = {}
             q == [call[c] EXCEPT !.pc = "sign", !.file = f, !.original = disk[f],
                                  !.output = "tmp", !.alone = alone]
  <2>5. call'[c] = q BY <2>2, <2>3, <2>4
  <2>6. others = {}
    <3>1. call[c].pc = "hash" BY <2>1 DEF Hash, At
    <3>2. \A d \in Calls : call[d].pc # "sign" BY <1>1, <3>1 DEF Only, FilePcs
    <3> QED BY <3>2 DEF WritersTo, At
  <2>7. alone = TRUE BY <2>6
  <2>8. disk[f] \in Nat
    <3>1. f \in Files BY <1>2 DEF CallType
    <3>2. disk[f] \in Contents /\ disk[f] # Torn
      BY <1>1, <3>1 DEF TypeOK, Certified, Fresh
    <3> QED BY <3>2 DEF Contents
  <2> HIDE DEF alone, others
  <2>9. q.pc = "sign" /\ q.output = "tmp" /\ q.alone /\ q.original \in Nat
    BY <1>2, <2>7, <2>8 DEF CallType
  <2> HIDE DEF q
  <2>10. Stage(c)' BY <2>5, <2>9 DEF Stage
  <2> QED BY <1>1, <1>4, <1>5, <2>10, QuietStage
<1> QED BY <1>6, <1>7

LEMMA SignCertified ==
  ASSUME Inv, Known, ~crossed, Certified, NEW c \in Calls, Sign(c) \/ SignFails(c) \/ Stat(c)
  PROVE  Certified'
<1>1. TypeOK /\ Only(c) /\ Only(c)' BY OnlyOne DEF Inv, EarlyCall
<1>2. call[c] \in CallType /\ call \in [Calls -> CallType] /\ CallOK(call[c])
  BY <1>1, CallsAre DEF TypeOK
<1>3. call[c].pc \in {"sign", "stat"} /\ ~Replaced(c)
  BY Still DEF Sign, SignFails, Stat, At
<1>4. call[c].file \in Files BY <1>2, <1>3 DEF CallOK, FilePcs
<1>5. Stage(c) BY DEF Certified
<1>6. CASE Sign(c)
  <2>1. /\ call[c].pc = "sign" /\ call[c].output = "tmp" /\ call[c].alone
        /\ call[c].original \in Nat
    BY <1>5, <1>6 DEF Sign, At, Stage
  <2>2. Signed(call[c].original) = call[c].original + 1 BY <2>1 DEF Signed, Torn
  <2>3. tmp' = [tmp EXCEPT ![call[c].file] = call[c].original + 1] /\ disk' = disk
    BY <1>6, <2>1, <2>2 DEF Sign
  <2>4. /\ call'[c].pc = "stat" /\ call'[c].original = call[c].original
        /\ call'[c].file = call[c].file
    BY <1>2, <1>6 DEF Sign, CallType
  <2>5. tmp'[call[c].file] = call[c].original + 1 BY <1>1, <1>4, <2>3 DEF TypeOK
  <2>6. Stage(c)' BY <2>1, <2>4, <2>5 DEF Stage
  <2>7. UNCHANGED <<rows, size, disk, pdf, upload, severed, unprinted>>
    BY <1>6, <2>3 DEF Sign, rowVars, ownerVars, histVars
  <2> QED BY <1>1, <1>3, <2>6, <2>7, QuietStage
<1>7. CASE SignFails(c)
  <2> DEFINE f == call[c].file
             q == [EndedCall("rehash") EXCEPT !.todo = call[c].todo, !.file = f]
  <2>1. call' = [Unlinked(f, "tmp") EXCEPT ![c] = q] BY <1>7 DEF SignFails
  <2>2. q.pc = "rehash" BY DEF EndedCall, IdleCall
  <2> HIDE DEF q, f
  <2>3. call'[c].pc = "rehash" BY <2>1, <2>2 DEF Unlinked
  <2>4. Stage(c)' BY <2>3 DEF Stage
  <2>5. UNCHANGED <<rows, size, disk, pdf, upload, severed, unprinted>>
    BY <1>7 DEF SignFails, rowVars, ownerVars, histVars
  <2> QED BY <1>1, <1>3, <2>4, <2>5, QuietStage
<1>8. CASE Stat(c)
  <2>1. UNCHANGED <<rows, size, disk, tmp, pdf, upload, severed, unprinted>>
    BY <1>8 DEF Stat, rowVars, diskVars, ownerVars, histVars
  <2>2. Stage(c)'
    <3>1. CASE LeaveCertificates(c)
      <4>1. call'[c].pc = "count" BY <1>2, <3>1 DEF LeaveCertificates, EndedCall, IdleCall
      <4> QED BY <4>1 DEF Stage
    <3>2. CASE ~LeaveCertificates(c)
      <4>1. /\ call'[c].pc = "move" /\ call'[c].final = tmp[call[c].file]
            /\ call'[c].original = call[c].original /\ call'[c].file = call[c].file
        BY <1>2, <1>8, <3>2 DEF Stat, CallType
      <4>2. call[c].original \in Nat /\ tmp[call[c].file] = call[c].original + 1
        BY <1>5, <1>8 DEF Stage, Stat, At
      <4> QED BY <2>1, <4>1, <4>2 DEF Stage
    <3> QED BY <3>1, <3>2
  <2> QED BY <1>1, <1>3, <2>1, <2>2, QuietStage
<1> QED BY <1>6, <1>7, <1>8

LEMMA MoveCertified ==
  ASSUME Inv, Known, ~crossed, Certified, NEW c \in Calls, Move(c) \/ Record(c)
  PROVE  Certified'
<1> DEFINE f == call[c].file
<1>1. TypeOK /\ Only(c) /\ Only(c)' BY OnlyOne DEF Inv, EarlyCall
<1>2. call[c] \in CallType /\ call \in [Calls -> CallType] /\ CallOK(call[c])
  BY <1>1, CallsAre DEF TypeOK
<1>3. call[c].pc \in {"move", "record"} BY DEF Move, Record, At
<1>4. f \in Files /\ upload[f] = "done" BY <1>2, <1>3 DEF CallOK, FilePcs, Known
<1>5. Stage(c) /\ MatchBut(c) /\ Fresh BY <1>1, MatchOnly DEF Certified
<1>6. CASE LeaveCertificates(c)
  <2>1. call'[c].pc = "count" BY <1>2, <1>6 DEF LeaveCertificates, EndedCall, IdleCall
  <2>2. Stage(c)' BY <2>1 DEF Stage
  <2>3. CASE Move(c)
    <3>1. tmp[f] = Absent
      <4>1. tmp[f] # Absent => call' = [Moved(f) EXCEPT ![c].pc = "record"] BY <2>3 DEF Move
      <4>2. [Moved(f) EXCEPT ![c].pc = "record"][c].pc = "record"
        <5>1. \/ Moved(f)[c] = call[c]
              \/ \E out \in {"disk", "gone"} : Moved(f)[c] = [call[c] EXCEPT !.output = out]
          BY DEF Moved
        <5>2. Moved(f)[c] \in CallType BY <1>2, <5>1 DEF CallType
        <5>3. [Moved(f) EXCEPT ![c].pc = "record"][c] = [Moved(f)[c] EXCEPT !.pc = "record"]
          BY DEF Moved
        <5> QED BY <5>2, <5>3 DEF CallType
      <4> QED BY <2>1, <4>1, <4>2
    <3>2. UNCHANGED <<rows, size, disk, pdf, upload, severed, unprinted>>
      BY <2>3, <3>1 DEF Move, rowVars, ownerVars, histVars
    <3>3. ~Replaced(c) BY <2>3, Still DEF Move, At
    <3> QED BY <1>1, <2>2, <3>2, <3>3, QuietStage DEF Certified
  <2>4. CASE Record(c)
    <3>1. f \notin rows
      <4>1. f \in rows => call'[c].pc = "pdf" BY <1>2, <2>4 DEF Record, Goto, CallType
      <4> QED BY <2>1, <4>1
    <3>2. UNCHANGED <<rows, size, disk, pdf, upload, severed, unprinted>>
      BY <2>4, <3>1 DEF Record, diskVars, ownerVars, histVars
    <3> QED BY <1>1, <2>2, <3>1, <3>2, QuietStage DEF Certified
  <2> QED BY <2>3, <2>4
<1>7. CASE Move(c) /\ ~LeaveCertificates(c)
  <2>1. /\ call' = [Moved(f) EXCEPT ![c].pc = "record"]
        /\ disk' = [disk EXCEPT ![f] = tmp[f]]
        /\ UNCHANGED <<rows, size, pdf, upload, severed, unprinted>>
    BY <1>7 DEF Move, rowVars, ownerVars, histVars
  <2>2. /\ call'[c].pc = "record" /\ call'[c].file = f
        /\ call'[c].original = call[c].original /\ call'[c].final = call[c].final
    <3>1. \/ Moved(f)[c] = call[c]
          \/ \E out \in {"disk", "gone"} : Moved(f)[c] = [call[c] EXCEPT !.output = out]
      BY DEF Moved
    <3>2. Moved(f)[c] \in CallType BY <1>2, <3>1 DEF CallType
    <3>3. call'[c] = [Moved(f)[c] EXCEPT !.pc = "record"] BY <2>1 DEF Moved
    <3>4. /\ Moved(f)[c].file = f /\ Moved(f)[c].original = call[c].original
          /\ Moved(f)[c].final = call[c].final
      BY <1>1, OutputsOnly
    <3> HIDE DEF f
    <3> QED BY <3>2, <3>3, <3>4 DEF CallType
  <2>3. /\ call[c].original \in Nat /\ call[c].final = call[c].original + 1
        /\ tmp[f] = call[c].final
    BY <1>5, <1>7 DEF Move, At, Stage
  <2>4. disk'[f] = call[c].final /\ \A g \in Files \ {f} : disk'[g] = disk[g]
    BY <1>1, <1>4, <2>1, <2>3 DEF TypeOK
  <2>5. Stage(c)' BY <2>2, <2>3, <2>4 DEF Stage
  <2>6. Fresh' BY <1>4, <1>5, <2>1, <2>3, <2>4 DEF Fresh, Torn
  <2>7. Replaced(c)' /\ At(c, "record")' BY <2>2 DEF Replaced, At
  <2>8. ~Replaced(c) /\ ~At(c, "record") BY <1>7, Still DEF Move, At
  <2>9. MatchBut(c)'
    BY <1>1, <1>5, <2>1, <2>2, <2>4, <2>7, <2>8 DEF MatchBut, RowTrue, PdfTrue, TypeOK
  <2> QED BY <1>1, <2>5, <2>6, <2>9, OnlyMatch
<1>8. CASE Record(c) /\ ~LeaveCertificates(c)
  <2>1. /\ call' = [call EXCEPT ![c].pc = "pdf"] /\ size' = [size EXCEPT ![f] = call[c].final]
        /\ severed' = severed \ {f} /\ UNCHANGED <<rows, disk, pdf, upload, unprinted>>
    BY <1>8 DEF Record, Goto, diskVars, ownerVars
  <2>2. /\ call'[c].pc = "pdf" /\ call'[c].file = f
        /\ call'[c].original = call[c].original /\ call'[c].final = call[c].final
    BY <1>2, <2>1 DEF CallType
  <2>3. /\ call[c].original \in Nat /\ call[c].final = call[c].original + 1
        /\ disk[f] \in {call[c].final, Absent}
    BY <1>5, <1>8 DEF Record, At, Stage
  <2>4. size'[f] = call[c].final /\ \A g \in Files \ {f} : size'[g] = size[g]
    BY <1>1, <1>4, <2>1 DEF TypeOK
  <2>5. Stage(c)' BY <2>1, <2>2, <2>3, <2>4 DEF Stage
  <2>6. Fresh' BY <1>5, <2>1 DEF Fresh
  <2>7. Replaced(c)' /\ ~At(c, "record")' BY <2>2, <2>3 DEF Replaced, At
  <2>8. MatchBut(c)'
    <3> SUFFICES ASSUME NEW g \in rows, disk[g] # Absent
                 PROVE  /\ g \notin severed' => size'[g] = disk[g]
                        /\ g \notin unprinted /\ g # f => PdfTrue(g)
      BY <2>1, <2>2, <2>7 DEF MatchBut, RowTrue, PdfTrue
    <3>1. g \in Files BY <1>1 DEF TypeOK
    <3>2. CASE g = f BY <2>3, <2>4, <3>2
    <3>3. CASE g # f BY <1>5, <2>1, <2>4, <3>1, <3>3 DEF MatchBut, RowTrue
    <3> QED BY <3>2, <3>3
  <2> QED BY <1>1, <2>5, <2>6, <2>8, OnlyMatch
<1> QED BY <1>6, <1>7, <1>8

\* A PDF is torn from its opening to its last byte, and stays so when its writing fails.
LEMMA PdfCertified ==
  ASSUME Inv, Known, ~crossed, Certified, NEW c \in Calls,
         Rehash(c) \/ OpenPdf(c) \/ WritePdf(c) \/ PdfFails(c)
  PROVE  Certified'
<1> DEFINE f == call[c].file
<1>1. TypeOK /\ Only(c) /\ Only(c)' BY OnlyOne DEF Inv, EarlyCall
<1>2. call[c] \in CallType /\ call \in [Calls -> CallType] /\ CallOK(call[c])
  BY <1>1, CallsAre DEF TypeOK
<1>3. call[c].pc \in {"rehash", "pdf", "write"}
  BY DEF Rehash, OpenPdf, WritePdf, Written, PdfFails, At
<1>4. f \in Files /\ upload[f] = "done" BY <1>2, <1>3 DEF CallOK, FilePcs, Known
<1>5. Stage(c) /\ MatchBut(c) /\ Fresh BY <1>1, MatchOnly DEF Certified
<1>6. CASE Rehash(c)
  <2>1. UNCHANGED <<rows, size, disk, pdf, upload, severed, unprinted>>
    BY <1>6 DEF Rehash, rowVars, diskVars, ownerVars, histVars
  <2>2. ~Replaced(c) BY <1>6, Still DEF Rehash, At
  <2>3. Stage(c)'
    <3>1. CASE LeaveCertificates(c)
      <4>1. call'[c].pc = "count" BY <1>2, <3>1 DEF LeaveCertificates, EndedCall, IdleCall
      <4> QED BY <4>1 DEF Stage
    <3>2. CASE ~LeaveCertificates(c)
      <4>1. /\ call'[c].pc = "pdf" /\ call'[c].file = f
            /\ call'[c].original = disk[f] /\ call'[c].final = disk[f]
        BY <1>2, <1>6, <3>2 DEF Rehash, CallType
      <4> QED BY <2>1, <4>1 DEF Stage
    <3> QED BY <3>1, <3>2
  <2> QED BY <1>1, <2>1, <2>2, <2>3, QuietStage
<1>7. ASSUME UNCHANGED <<rows, size, disk, upload, severed>>, Stage(c)',
             \A g \in Files \ {f} : pdf'[g] = pdf[g] /\ (g \in unprinted <=> g \in unprinted'),
             f \in unprinted' \/ (call'[c].file = f /\ Replaced(c)')
               \/ (disk[f] # Absent => pdf'[f] \in {disk[f], Absent}),
             ~At(c, "record"), ~At(c, "record")'
      PROVE  Certified'
  <2>1. Fresh' BY <1>4, <1>5, <1>7 DEF Fresh
  <2>2. MatchBut(c)'
    <3> SUFFICES ASSUME NEW g \in rows, disk[g] # Absent
                 PROVE  /\ g \notin severed => RowTrue(g)
                        /\ g \notin unprinted' /\ ~(call'[c].file = g /\ Replaced(c)')
                           => PdfTrue(g)'
      BY <1>7 DEF MatchBut, RowTrue
    <3>1. g \notin severed => RowTrue(g) BY <1>5, <1>7 DEF MatchBut
    <3>2. CASE g = f BY <1>7, <3>1, <3>2 DEF PdfTrue
    <3>3. CASE g # f
      <4>1. g \in Files \ {f} BY <1>1, <3>3 DEF TypeOK
      <4> QED BY <1>5, <1>7, <3>1, <3>3, <4>1 DEF MatchBut, PdfTrue
    <3> QED BY <3>2, <3>3
  <2> QED BY <1>1, <1>7, <2>1, <2>2, OnlyMatch
<1>8. CASE OpenPdf(c)
  <2> DEFINE others == {d \in Calls : At(d, "write") /\ call[d].file = f}
             alone == others = {}
             q == [call[c] EXCEPT !.pc = "write", !.alone = alone]
  <2>1. /\ UNCHANGED <<rows, size, disk, upload, severed, unprinted>>
        /\ pdf' = [pdf EXCEPT ![f] = Torn]
    BY <1>8 DEF OpenPdf, rowVars, ownerVars, histVars
  <2>2. call'[c] = q BY <1>8 DEF OpenPdf
  <2>3. call[c].pc = "pdf" BY <1>8 DEF OpenPdf, At
  <2>4. others = {}
    <3>1. \A d \in Calls : call[d].pc # "write" BY <1>1, <2>3 DEF Only, FilePcs
    <3> QED BY <3>1 DEF At
  <2>5. alone = TRUE BY <2>4
  <2> HIDE DEF others, alone
  <2>6. q.pc = "write" /\ q.alone /\ q.file = f /\ q.final = call[c].final
    BY <1>2, <2>5 DEF CallType
  <2> HIDE DEF q
  <2>7. call'[c].pc = "write" /\ call'[c].file = f BY <2>2, <2>6
  <2>8. Stage(c)' BY <1>5, <2>1, <2>2, <2>3, <2>6 DEF Stage
  <2>9. Replaced(c)' /\ ~At(c, "record") /\ ~At(c, "record")'
    BY <2>3, <2>7 DEF Replaced, At
  <2>10. \A g \in Files \ {f} : pdf'[g] = pdf[g] BY <1>1, <2>1 DEF TypeOK
  <2> QED BY <1>7, <2>1, <2>7, <2>8, <2>9, <2>10
<1>9. CASE WritePdf(c)
  <2>1. call[c].pc = "write" /\ call[c].alone BY <1>5, <1>9 DEF WritePdf, Written, At, Stage
  <2>2. /\ call' = [call EXCEPT ![c].pc = "certify", ![c].alone = TRUE]
        /\ UNCHANGED <<rows, size, disk, upload, severed>>
        /\ pdf' = [pdf EXCEPT ![f] = call[c].final] /\ unprinted' = unprinted \ {f}
    BY <1>9, <2>1 DEF WritePdf, Written, rowVars, ownerVars
  <2>3. call'[c].pc = "certify" BY <1>2, <2>2 DEF CallType
  <2>4. Stage(c)' /\ ~At(c, "record") /\ ~At(c, "record")' BY <2>1, <2>3 DEF Stage, At
  <2>5. disk[f] \in {call[c].final, Absent} BY <1>5, <2>1 DEF Stage
  <2>6. pdf'[f] = call[c].final /\ \A g \in Files \ {f} : pdf'[g] = pdf[g]
    BY <1>1, <1>4, <2>2 DEF TypeOK
  <2>7. disk[f] # Absent => pdf'[f] \in {disk[f], Absent} BY <2>5, <2>6
  <2> QED BY <1>7, <2>2, <2>4, <2>6, <2>7
<1>10. CASE PdfFails(c)
  <2>1. /\ call[c].pc = "write" /\ UNCHANGED <<rows, size, disk, pdf, upload, severed>>
        /\ unprinted' = unprinted \cup {f}
    BY <1>10 DEF PdfFails, At, rowVars, diskVars, ownerVars
  <2>2. call'[c].pc = "count"
    BY <1>2, <1>10 DEF PdfFails, LeaveCertificates, EndedCall, IdleCall
  <2>3. Stage(c)' /\ ~At(c, "record") /\ ~At(c, "record")' BY <2>1, <2>2 DEF Stage, At
  <2> QED BY <1>7, <2>1, <2>3
<1> QED BY <1>6, <1>8, <1>9, <1>10

\* The steps of a call before and after the certificates.
LEMMA AroundCertified ==
  ASSUME Inv, ~crossed, Certified, NEW c \in Calls,
         Read(c) \/ Check(c) \/ Count(c) \/ Lock(c)
  PROVE  Certified'
<1>1. call[c] \in CallType /\ call \in [Calls -> CallType] BY DEF Inv, TypeOK
<1>2. UNCHANGED <<rows, size, disk, tmp, pdf, upload, severed, unprinted>>
  BY DEF Read, Check, Count, Lock, rowVars, diskVars, ownerVars, histVars
<1>3. call[c].pc \notin FilePcs BY DEF Read, Check, Count, Lock, At, FilePcs
<1>4. call'[c].pc \notin FilePcs
  <2>1. CASE Read(c) BY <1>1, <2>1 DEF Read, CallType, FilePcs
  <2>2. CASE Check(c) BY <1>1, <2>2 DEF Check, EndedCall, IdleCall, FilePcs
  <2>3. CASE Count(c) \/ Lock(c)
    BY <1>1, <2>3 DEF Count, Lock, Goto, CallType, FilePcs
  <2> QED BY <2>1, <2>2, <2>3
<1>5. \A d \in Calls \ {c} : call'[d] = call[d]
  BY <1>1 DEF Read, Check, Count, Lock, Goto
<1>6. \A d \in Calls : Stage(d)'
  BY <1>2, <1>4, <1>5 DEF Certified, Stage, FilePcs
<1>7. \A d \in Calls : /\ Replaced(d) => Replaced(d)' /\ call'[d].file = call[d].file
                       /\ At(d, "record") => At(d, "record")'
  BY <1>3, <1>5 DEF Replaced, At, FilePcs
<1>8. Match'
  <2>1. \A d \in Calls : At(d, "record") => Replaced(d) BY DEF Replaced
  <2> QED BY <1>2, <1>7, <2>1 DEF Certified, Match, RowTrue, PdfTrue
<1>9. Fresh' BY <1>2 DEF Certified, Fresh
<1> QED BY <1>6, <1>8, <1>9 DEF Certified

\* A file that is not in the table yet is of no call's concern.
LEMMA UploadCertified ==
  ASSUME Inv, Known, Certified, NEW f \in Files,
         UploadStart(f) \/ UploadStore(f) \/ UploadRecord(f)
  PROVE  Certified'
<1>1. /\ UNCHANGED <<call, tmp, pdf, severed, unprinted>>
      /\ upload[f] # "done" /\ pdf[f] = Absent
  BY DEF UploadStart, UploadStore, UploadRecord, diskVars, histVars, Certified, Fresh
<1>2. f \notin rows /\ \A c \in Calls : call[c].file # f
  BY <1>1 DEF Known
<1>3. /\ \A g \in Files \ {f} : /\ disk'[g] = disk[g] /\ size'[g] = size[g]
                                /\ upload'[g] = upload[g] /\ (g \in rows' <=> g \in rows)
      /\ rows' \subseteq Files
  BY DEF UploadStart, UploadStore, UploadRecord, rowVars, diskVars, Inv, TypeOK
<1>4. \A c \in Calls : call[c].pc \in FilePcs => call[c].file \in Files \ {f}
  BY <1>2, CallsAre DEF Inv, CallOK
<1>5. \A c \in Calls : Stage(c)'
  <2> SUFFICES ASSUME NEW c \in Calls PROVE Stage(c)' OBVIOUS
  <2>1. CASE call[c].pc \in FilePcs
    <3>1. call[c].file \in Files \ {f} BY <1>4, <2>1
    <3>2. disk'[call[c].file] = disk[call[c].file] /\ size'[call[c].file] = size[call[c].file]
      BY <1>3, <3>1
    <3> QED BY <1>1, <3>2 DEF Certified, Stage
  <2>2. CASE call[c].pc \notin FilePcs BY <1>1, <2>2 DEF Stage, FilePcs
  <2> QED BY <2>1, <2>2
<1>6. /\ disk'[f] # Torn /\ (upload'[f] = "stored" => disk'[f] = Uploaded)
      /\ f \in rows' => size'[f] = Uploaded /\ disk'[f] = Uploaded
  <2>1. CASE UploadStart(f)
    BY <1>2, <2>1 DEF UploadStart, rowVars, diskVars, Certified, Fresh, Inv, TypeOK
  <2>2. CASE UploadStore(f)
    BY <1>2, <2>2 DEF UploadStore, rowVars, Inv, TypeOK, Uploaded, Torn
  <2>3. CASE UploadRecord(f)
    BY <2>3 DEF UploadRecord, diskVars, Certified, Fresh, Inv, TypeOK
  <2> QED BY <2>1, <2>2, <2>3
<1>7. Fresh' BY <1>1, <1>3, <1>6 DEF Certified, Fresh
<1>8. Match'
  <2>1. \A c \in Calls : (Replaced(c)' <=> Replaced(c)) /\ (At(c, "record")' <=> At(c, "record"))
    BY <1>1 DEF Replaced, At
  <2> SUFFICES ASSUME NEW g \in rows', disk'[g] # Absent
               PROVE  /\ g \notin severed
                         /\ (\A c \in Calls : call[c].file = g => ~At(c, "record"))
                         => size'[g] = disk'[g]
                      /\ g \notin unprinted
                         /\ (\A c \in Calls : call[c].file = g => ~Replaced(c))
                         => pdf[g] \in {disk'[g], Absent}
    BY <1>1, <2>1 DEF Match, RowTrue, PdfTrue
  <2>2. CASE g = f BY <1>1, <1>6, <2>2
  <2>3. CASE g # f
    <3>1. g \in rows /\ disk'[g] = disk[g] /\ size'[g] = size[g] BY <1>3, <2>3
    <3> QED BY <3>1 DEF Certified, Match, RowTrue, PdfTrue
  <2> QED BY <2>2, <2>3
<1> QED BY <1>5, <1>7, <1>8 DEF Certified

LEMMA RemoveCertified ==
  ASSUME Inv, Known, Certified, NEW f \in Files, RemoveFile(f) \/ RemoveRow(f)
  PROVE  Certified'
<1>1. UNCHANGED <<size, tmp, pdf, upload, severed, unprinted>> /\ rows' \subseteq rows
  BY DEF RemoveFile, RemoveRow, rowVars, diskVars, histVars
<1>2. call' = call
  <2>1. CASE RemoveFile(f)
    <3>1. WritersTo(f, "disk") = {} BY DEF Certified, Stage, WritersTo, At
    <3>2. \A d \in Calls : Unlinked(f, "disk")[d] = call[d] BY <3>1 DEF Unlinked
    <3>3. call' = [d \in Calls |-> call'[d]] BY <2>1 DEF RemoveFile, Unlinked
    <3>4. \A d \in Calls : call'[d] = call[d] BY <2>1, <3>2 DEF RemoveFile
    <3>5. call = [d \in Calls |-> call[d]] BY DEF Inv, TypeOK
    <3> QED BY <3>3, <3>4, <3>5
  <2>2. CASE RemoveRow(f) BY <2>2 DEF RemoveRow
  <2> QED BY <2>1, <2>2
<1>3. \A g \in Files : disk'[g] = disk[g] \/ (g = f /\ f \in rows /\ disk'[g] = Absent)
  BY DEF RemoveFile, RemoveRow, diskVars, Inv, TypeOK
<1>4. \A c \in Calls : call[c].pc \in FilePcs => call[c].file \in Files
  BY CallsAre DEF Inv, CallOK
<1>5. \A c \in Calls : Stage(c)'
  <2> SUFFICES ASSUME NEW c \in Calls PROVE Stage(c)' OBVIOUS
  <2>1. CASE call[c].pc \in FilePcs
    <3>1. disk'[call[c].file] \in {disk[call[c].file], Absent} BY <1>3, <1>4, <2>1
    <3> QED BY <1>1, <1>2, <3>1 DEF Certified, Stage
  <2>2. CASE call[c].pc \notin FilePcs BY <1>2, <2>2 DEF Stage, FilePcs
  <2> QED BY <2>1, <2>2
<1>6. Fresh'
  <2>1. \A g \in Files : disk'[g] = disk[g] \/ (upload[g] = "done" /\ disk'[g] = Absent)
    BY <1>3 DEF Known
  <2> QED BY <1>1, <2>1 DEF Certified, Fresh, Absent, Torn
<1>7. Match'
  <2>1. \A c \in Calls : (Replaced(c)' <=> Replaced(c)) /\ (At(c, "record")' <=> At(c, "record"))
    BY <1>2 DEF Replaced, At
  <2>2. \A g \in rows' : g \in rows /\ (disk'[g] # Absent => disk'[g] = disk[g])
    BY <1>1, <1>3 DEF Inv, TypeOK
  <2> QED BY <1>1, <1>2, <2>1, <2>2 DEF Certified, Match, RowTrue, PdfTrue
<1> QED BY <1>5, <1>6, <1>7 DEF Certified

\* A restart severs the files it leaves without the row or the certificate of their content.
LEMMA EndsCertified ==
  ASSUME Inv, Certified, NEW found, ProcessEnds(found) PROVE Certified'
<1>1. /\ UNCHANGED <<rows, size, disk, pdf>>
      /\ severed' = severed \cup {call[c].file : c \in {d \in Calls : At(d, "record")}}
      /\ unprinted' = unprinted \cup {call[c].file : c \in {d \in Calls : Replaced(d)}}
  BY DEF ProcessEnds, rowVars, diskVars
<1>2. \A c \in Calls : call'[c].pc \notin FilePcs
  <2>1. EndedCall("dead").pc = "dead" BY DEF EndedCall, IdleCall
  <2>2. \A c \in Calls : call'[c].pc = "dead" \/ (~Running(c) /\ call'[c] = call[c])
    BY <2>1 DEF ProcessEnds
  <2> QED BY <2>2 DEF Running, FilePcs
<1>3. \A c \in Calls : Stage(c)' /\ ~Replaced(c)' BY <1>2 DEF Stage, Replaced, At, FilePcs
<1>4. \A f \in Files : /\ upload'[f] = "stored" => upload[f] = "stored"
                       /\ upload'[f] # "done" => upload[f] # "done"
  BY DEF ProcessEnds
<1>5. Fresh' BY <1>1, <1>4 DEF Certified, Fresh
<1>6. Match'
  <2> SUFFICES ASSUME NEW f \in rows, disk[f] # Absent
               PROVE  /\ f \notin severed' => RowTrue(f)
                      /\ f \notin unprinted' => PdfTrue(f)
    BY <1>1 DEF Match, RowTrue, PdfTrue
  <2>1. f \notin severed' => /\ f \notin severed
                            /\ \A c \in Calls : call[c].file = f => ~At(c, "record")
    BY <1>1
  <2>2. f \notin unprinted' => /\ f \notin unprinted
                              /\ \A c \in Calls : call[c].file = f => ~Replaced(c)
    BY <1>1
  <2> QED BY <2>1, <2>2 DEF Certified, Match
<1> QED BY <1>3, <1>5, <1>6 DEF Certified

LEMMA CertifiedInv ==
  ASSUME Inv, Known, [Next]_vars, ~crossed => Certified PROVE ~crossed' => Certified'
<1> SUFFICES ASSUME ~crossed' PROVE Certified' OBVIOUS
<1>1. ~crossed /\ Certified BY CrossedStays
<1>2. ASSUME UNCHANGED <<rows, size, disk, tmp, pdf, call, upload, severed, unprinted>>
      PROVE  Certified'
  BY <1>1, <1>2 DEF Certified, Stage, Fresh, Match, RowTrue, PdfTrue, Replaced, At
<1>3. ASSUME NEW c \in Calls, CallStep(c) PROVE Certified'
  BY <1>1, <1>3, HashCertified, SignCertified, MoveCertified, PdfCertified, AroundCertified
     DEF CallStep
<1>4. ASSUME NEW c \in Calls, ZipStep(c) PROVE Certified'
  <2>1. (\E found : ProcessEnds(found))
        \/ UNCHANGED <<rows, size, disk, tmp, pdf, call, upload, severed, unprinted>>
    BY <1>4 DEF ZipStep, ZipList, ZipOpen, ZipMisses, ZipWrite, ZipFails, ZipAnnounce, rowVars,
                diskVars, ownerVars, histVars
  <2> QED BY <1>1, <1>2, <2>1, EndsCertified
<1>5. ASSUME NEW f \in Files, OwnerStep(f) PROVE Certified'
  BY <1>1, <1>5, UploadCertified, RemoveCertified DEF OwnerStep
<1>6. CASE Revert BY <1>2, <1>6 DEF Revert, diskVars
<1>7. CASE Restart BY <1>1, <1>7, EndsCertified DEF Restart
<1>8. CASE UNCHANGED vars BY <1>2, <1>8 DEF vars, rowVars, diskVars, ownerVars, histVars
<1> QED BY <1>3, <1>4, <1>5, <1>6, <1>7, <1>8 DEF Next

----------------------------------------------------------------------------
(* The invariant of the whole.                                              *)

WholeInv == Inv /\ Known /\ (~crossed => Told /\ Held /\ Certified)

LEMMA InitWhole == Init => WholeInv
<1> SUFFICES ASSUME Init PROVE WholeInv OBVIOUS
<1>1. IdleCall.pc = "idle" /\ IdleCall.todo = {} /\ IdleCall.file = NoFile /\ NoZip.pc = "none"
  BY DEF IdleCall, NoZip
<1>2. \A c \in Calls : /\ call[c].pc = "idle" /\ call[c].todo = {} /\ call[c].file = NoFile
                       /\ zip[c].pc = "none"
  BY <1>1 DEF Init
<1>3. Known BY <1>2 DEF Known, Init
<1>4. Told BY <1>2 DEF Told, Settled, Init
<1>5. Held BY <1>2 DEF Held, Listed, Filled, Init
<1>6. Certified
  <2>1. \A c \in Calls : Stage(c) BY <1>2 DEF Stage
  <2>2. Fresh BY DEF Fresh, Init, Absent, Uploaded, Torn
  <2>3. Match BY DEF Match, RowTrue, PdfTrue, Init
  <2> QED BY <2>1, <2>2, <2>3 DEF Certified
<1> QED BY <1>3, <1>4, <1>5, <1>6, InitInv DEF WholeInv

THEOREM WholeInvariance == Spec => []WholeInv
<1>1. WholeInv /\ [Next]_vars => WholeInv'
  <2> SUFFICES ASSUME WholeInv, [Next]_vars PROVE WholeInv' OBVIOUS
  <2>1. Inv' BY NextInv DEF WholeInv
  <2>2. Known' BY KnownInv DEF WholeInv, Inv
  <2>3. ~crossed' => Told' BY ToldInv DEF WholeInv
  <2>4. ~crossed' => Held' BY HeldInv DEF WholeInv
  <2>5. ~crossed' => Certified' BY CertifiedInv DEF WholeInv
  <2> QED BY <2>1, <2>2, <2>3, <2>4, <2>5 DEF WholeInv
<1> QED BY <1>1, InitWhole, PTL DEF Spec

----------------------------------------------------------------------------
(* The theorems.                                                            *)

\* Every variable keeps to what its place in the code can hold, and exactly the calls in the
\* loop over the files work on one, however the owner's requests interleave with them.
THEOREM TypeCorrect == Spec => []TypeOK
<1>1. Inv => TypeOK BY DEF Inv
<1> QED BY <1>1, Invariance, PTL

\* An archive announced as ready is one whole archive, as long as each call and each reversal
\* comes after the zip before it (complete, createZip, revertComplete).
THEOREM AnnouncedIsWhole == Spec => []ReadyMeansWhole
<1>1. Inv => ReadyMeansWhole BY DEF Inv, InOrder, Whole, ReadyMeansWhole
<1> QED BY <1>1, Invariance, PTL

\* A completed share with more than one entry, none of them recorded or removed since the
\* count, is announced in the end, or its zip has failed, hung or died: at rest none is
\* forgotten between the count, the lock and the end of the zip (complete, createZip).
THEOREM ForgetsNoZip == Spec => []AnnouncedOrLost
<1>1. WholeInv => AnnouncedOrLost
  BY DEF WholeInv, Told, Settled, Lost, Building, Busy, AnnouncedOrLost
<1> QED BY <1>1, WholeInvariance, PTL

\* What "download all" delivers is every file of the share with the bytes it has alone: no
\* step of a call, an upload or a removal changes a file that the archive holds and leaves
\* the archive announced (createZip, embedCertificateInVideo, LocalFileService).
THEOREM ArchiveHoldsAll == Spec => []ReadyHoldsAll
<1>1. WholeInv => ReadyHoldsAll BY DEF WholeInv, Held, Filled, ReadyHoldsAll
<1> QED BY <1>1, WholeInvariance, PTL

\* The hash printed on a certificate and the size in the row are those of the file that is
\* delivered, through any number of signings, failures, removals and restarts, but for the row
\* of a file whose signing a restart cut off before it was told, and for a certificate whose
\* making a restart or a failure cut off (embedCertificateInVideo, generateCertificate).
THEOREM CertificatesAreTrue == Spec => []CertificatesMatch
<1>1. WholeInv => CertificatesMatch
  BY DEF WholeInv, Certified, Match, RowTrue, PdfTrue, CertificatesMatch
<1> QED BY <1>1, WholeInvariance, PTL
=============================================================================
