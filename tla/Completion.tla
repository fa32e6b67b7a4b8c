----------------------------- MODULE Completion -----------------------------
(***************************************************************************)
(* The completion of one share: each call of complete signs the videos on  *)
(* disk, writes and records their certificates, starts the zip in the      *)
(* background, tells the recipients and locks the share. Meanwhile its     *)
(* owner, on another page, reverts, uploads, removes and completes again.  *)
(*                                                                         *)
(* The content of a file is what happened to it: Uploaded, or signed so    *)
(* many times; a hash and a size are those of a content, and the same      *)
(* content signed by the same call or another gives the same content.      *)
(***************************************************************************)
EXTENDS Integers, FiniteSets

CONSTANTS
  Files,      \* the files the owner has for the share
  Videos,     \* those whose extension ffmpeg is called for
  NoFile,     \* not a file: what a call that works on none has
  Calls,      \* the calls of complete; each also stands for its zip
  MaxEvents,  \* bound: reversals, uploads and removals of the owner
  MaxFaults   \* bound: failures of ffmpeg and of the zip, restarts

ASSUME FilesAssumption == IsFiniteSet(Files) /\ Videos \subseteq Files /\ NoFile \notin Files
ASSUME BoundsAssumption == MaxEvents \in Nat /\ MaxFaults \in Nat

VARIABLES
  share,      \* uploadLocked and isZipReady of the row
  rows, size, \* the File table: the files in it, and the content each size is of
  certs,      \* how many rows of the share are of certificates
  disk, tmp,  \* <id> and <id>.signed-tmp in the directory of the share
  pdf,        \* <id>.certificado.pdf: the hash of the file delivered that is printed on it
  archive,    \* archive.zip
  call, zip,  \* the calls of complete, and the archives they left running
  upload, removal, \* the handlers of the owner's other requests
  events, faults,
  \* history, read by no step of the program
  crossed,    \* a call or a reversal came while another call or zip ran, or a restart between
              \* the start of a zip and the lock
  changed,    \* files recorded or removed since the last count, or list for a zip
  severed,    \* files a restart left signed under a row with the size of before
  unprinted   \* files with a certificate that is not whole, or not of the content they have:
              \* a restart or a failure cut its writing off

rowVars == <<share, rows, size, certs>>
diskVars == <<disk, tmp, pdf>>
ownerVars == <<upload, removal, events>>
histVars == <<crossed, changed, severed, unprinted>>
vars == <<rowVars, diskVars, archive, call, zip, ownerVars, faults, histVars>>

----------------------------------------------------------------------------
Absent == 0         \* no such file; also: no hash
Uploaded == 1
Torn == -1          \* an output of ffmpeg, or a PDF, that is not whole
Contents == Nat \cup {Torn}
\* A copy with other metadata: of something that is not whole, neither.
Signed(content) == IF content = Torn THEN Torn ELSE content + 1

CallPcs == {"idle", "check", "list", "hash", "sign", "stat", "move", "record", "rehash",
            "pdf", "write", "certify", "count", "lock", "done", "refused", "dead"}
ZipPcs == {"none", "list", "open", "write", "announce", "failed", "done", "refused", "stuck",
           "dead"}
\* The steps that work on one file of the list.
FilePcs == {"sign", "stat", "move", "record", "rehash", "pdf", "write", "certify"}
CallType == [pc : CallPcs, nothing : BOOLEAN, todo : SUBSET Files, file : Files \cup {NoFile},
             original : Contents, final : Contents,
             output : {"none", "tmp", "disk", "gone"}, alone : BOOLEAN]
ZipType == [pc : ZipPcs, listed : SUBSET Files]
ArchiveType == [there : BOOLEAN, writers : SUBSET Calls, broken : BOOLEAN,
                held : [Files -> Contents]]

IdleCall == [pc |-> "idle", nothing |-> FALSE, todo |-> {}, file |-> NoFile, original |-> Absent,
             final |-> Absent, output |-> "none", alone |-> TRUE]
EndedCall(pc) == [IdleCall EXCEPT !.pc = pc]
NoZip == [pc |-> "none", listed |-> {}]
EndedZip(pc) == [NoZip EXCEPT !.pc = pc]

\* The videos are uploaded, the other files may follow.
Init ==
  /\ share = [locked |-> FALSE, ready |-> FALSE]
  /\ rows = Videos
  /\ size = [f \in Files |-> IF f \in Videos THEN Uploaded ELSE Absent]
  /\ certs = 0
  /\ disk = size
  /\ tmp = [f \in Files |-> Absent]
  /\ pdf = [f \in Files |-> Absent]
  /\ archive = [there |-> FALSE, writers |-> {}, broken |-> FALSE,
                held |-> [f \in Files |-> Absent]]
  /\ call = [c \in Calls |-> IdleCall]
  /\ zip = [c \in Calls |-> NoZip]
  /\ upload = [f \in Files |-> IF f \in Videos THEN "done" ELSE "none"]
  /\ removal = [f \in Files |-> "none"]
  /\ events = 0 /\ faults = 0
  /\ crossed = FALSE /\ changed = {} /\ severed = {} /\ unprinted = {}

----------------------------------------------------------------------------
(* What the steps share.                                                   *)

Running(c) == call[c].pc \notin {"idle", "done", "refused", "dead"}
Zipping(c) == zip[c].pc \in {"list", "open", "write", "announce", "failed"}
Busy(c) == Running(c) \/ Zipping(c)

\* The rows of the share, those of files and those of certificates.
Entries == Cardinality(rows) + certs

At(c, pc) == call[c].pc = pc
Goto(c, pc) == call' = [call EXCEPT ![c].pc = pc]
\* An exception leaves generateCertificates, and is caught and logged.
LeaveCertificates(c) == call' = [call EXCEPT ![c] = EndedCall("count")]

\* The calls whose ffmpeg writes to the path, or to the inode that was there.
WritersTo(f, place) == {c \in Calls : At(c, "sign") /\ call[c].file = f /\ call[c].output = place}
\* Their output when the path is renamed over the file, or unlinked.
Moved(f) ==
  [c \in Calls |->
     IF c \in WritersTo(f, "tmp") THEN [call[c] EXCEPT !.output = "disk"]
     ELSE IF c \in WritersTo(f, "disk") THEN [call[c] EXCEPT !.output = "gone"]
     ELSE call[c]]
Unlinked(f, place) ==
  [c \in Calls |-> IF c \in WritersTo(f, place) THEN [call[c] EXCEPT !.output = "gone"]
                   ELSE call[c]]

----------------------------------------------------------------------------
(* A call of complete.                                                     *)

\* The share is read, with the rows of its files, among them those of certificates.
Read(c) ==
  /\ At(c, "idle")
  /\ call' = [call EXCEPT ![c].pc = "check", ![c].nothing = (Entries = 0)]
  /\ crossed' = (crossed \/ \E d \in Calls \ {c} : Busy(d))
  /\ UNCHANGED <<rowVars, diskVars, archive, zip, ownerVars, faults, changed, severed, unprinted>>

\* isShareCompleted reads the lock again; the files are those read before.
Check(c) ==
  /\ At(c, "check")
  /\ call' = [call EXCEPT ![c] =
                EndedCall(IF share.locked \/ call[c].nothing THEN "refused" ELSE "list")]
  /\ UNCHANGED <<rowVars, diskVars, archive, zip, ownerVars, faults, histVars>>

\* generateCertificates has a list of its own, and skips the certificates on it.
List(c) ==
  /\ At(c, "list")
  /\ call' = [call EXCEPT ![c].pc = IF rows = {} THEN "count" ELSE "hash", ![c].todo = rows]
  /\ UNCHANGED <<rowVars, diskVars, archive, zip, ownerVars, faults, histVars>>

\* The next file is hashed. For a video ffmpeg is started, which opens its output at once
\* and truncates what another one is writing there.
Hash(c) ==
  /\ At(c, "hash")
  /\ \E f \in call[c].todo :
       IF disk[f] = Absent THEN LeaveCertificates(c) /\ UNCHANGED tmp
       ELSE IF f \notin Videos
       THEN /\ call' = [call EXCEPT ![c].pc = "rehash", ![c].file = f]
            /\ UNCHANGED tmp
       ELSE LET others == WritersTo(f, "tmp") IN
            /\ tmp' = [tmp EXCEPT ![f] = Torn]
            /\ call' = [d \in Calls |->
                 IF d = c THEN [call[c] EXCEPT !.pc = "sign", !.file = f, !.original = disk[f],
                                               !.output = "tmp", !.alone = (others = {})]
                 ELSE IF d \in others THEN [call[d] EXCEPT !.alone = FALSE]
                 ELSE call[d]]
  /\ UNCHANGED <<rowVars, disk, pdf, archive, zip, ownerVars, faults, histVars>>

\* ffmpeg ends. What two wrote at once may be whole or not.
Sign(c) ==
  /\ At(c, "sign")
  /\ \E content \in {Signed(call[c].original)} \cup IF call[c].alone THEN {} ELSE {Torn} :
       LET f == call[c].file IN
       /\ tmp' = IF call[c].output = "tmp" THEN [tmp EXCEPT ![f] = content] ELSE tmp
       /\ disk' = IF call[c].output = "disk" THEN [disk EXCEPT ![f] = content] ELSE disk
  /\ call' = [call EXCEPT ![c].pc = "stat", ![c].output = "none", ![c].alone = TRUE]
  /\ UNCHANGED <<rowVars, pdf, archive, zip, ownerVars, faults, histVars>>

\* ffmpeg fails: its output is unlinked, and the file is certified as it is.
SignFails(c) ==
  /\ At(c, "sign") /\ faults < MaxFaults   \* bound
  /\ faults' = faults + 1
  /\ LET f == call[c].file IN
     /\ tmp' = [tmp EXCEPT ![f] = Absent]
     /\ call' = [Unlinked(f, "tmp") EXCEPT ![c] = [EndedCall("rehash") EXCEPT
                                                     !.todo = call[c].todo, !.file = f]]
  /\ UNCHANGED <<rowVars, disk, pdf, archive, zip, ownerVars, histVars>>

\* The size and the hash of the output, read one after the other.
Stat(c) ==
  /\ At(c, "stat")
  /\ LET output == tmp[call[c].file] IN
     IF output = Absent THEN LeaveCertificates(c)
     ELSE call' = [call EXCEPT ![c].pc = "move", ![c].final = output]
  /\ UNCHANGED <<rowVars, diskVars, archive, zip, ownerVars, faults, histVars>>

\* The output is renamed over the file, or over nothing if that is gone.
Move(c) ==
  /\ At(c, "move")
  /\ LET f == call[c].file IN
     IF tmp[f] = Absent THEN LeaveCertificates(c) /\ UNCHANGED <<disk, tmp>>
     ELSE /\ disk' = [disk EXCEPT ![f] = tmp[f]]
          /\ tmp' = [tmp EXCEPT ![f] = Absent]
          /\ call' = [Moved(f) EXCEPT ![c].pc = "record"]
  /\ UNCHANGED <<rowVars, pdf, archive, zip, ownerVars, faults, histVars>>

\* The size is recorded; the update fails when the row is gone.
Record(c) ==
  /\ At(c, "record")
  /\ IF call[c].file \in rows
     THEN /\ size' = [size EXCEPT ![call[c].file] = call[c].final]
          /\ Goto(c, "pdf")
          /\ severed' = severed \ {call[c].file}
     ELSE LeaveCertificates(c) /\ UNCHANGED <<size, severed>>
  /\ UNCHANGED <<share, rows, certs, diskVars, archive, zip, ownerVars, faults, crossed, changed,
                 unprinted>>

\* A file that was not signed is hashed by generateCertificate.
Rehash(c) ==
  /\ At(c, "rehash")
  /\ LET content == disk[call[c].file] IN
     IF content = Absent THEN LeaveCertificates(c)
     ELSE call' = [call EXCEPT ![c].pc = "pdf", ![c].original = content, ![c].final = content]
  /\ UNCHANGED <<rowVars, diskVars, archive, zip, ownerVars, faults, histVars>>

\* The call has replaced the file by a signed version that its certificate is not of yet, or
\* the certificate is being written.
Replaced(c) ==
  At(c, "record") \/ (At(c, "pdf") /\ call[c].final # call[c].original) \/ At(c, "write")

\* The PDF is opened, and truncated if it was there; the pages follow, with awaits between.
OpenPdf(c) ==
  /\ At(c, "pdf")
  /\ LET f == call[c].file
         others == {d \in Calls : At(d, "write") /\ call[d].file = f} IN
     /\ pdf' = [pdf EXCEPT ![f] = Torn]
     /\ call' = [d \in Calls |->
          IF d = c THEN [call[c] EXCEPT !.pc = "write", !.alone = (others = {})]
          ELSE IF d \in others THEN [call[d] EXCEPT !.alone = FALSE]
          ELSE call[d]]
  /\ UNCHANGED <<rowVars, disk, tmp, archive, zip, ownerVars, faults, histVars>>

\* The last byte is written, with the hash of the file delivered. What two wrote at once may
\* be whole or not.
Written(c, hash) ==
  /\ At(c, "write")
  /\ \E content \in {hash} \cup IF call[c].alone THEN {} ELSE {Torn} :
       pdf' = [pdf EXCEPT ![call[c].file] = content]
  /\ call' = [call EXCEPT ![c].pc = "certify", ![c].alone = TRUE]
  /\ unprinted' = unprinted \ {call[c].file}
  /\ UNCHANGED <<rowVars, disk, tmp, archive, zip, ownerVars, faults, crossed, changed, severed>>
\* Mutation: the hash of the original in both places.
WritePdf_Original(c) == Written(c, call[c].original)
WritePdf(c) == Written(c, call[c].final)
\* The QR code or the end of the writing fails; what is there of the PDF stays. (An error of the
\* stream before that has no listener, and ends the process as Restart does.)
PdfFails(c) ==
  /\ At(c, "write") /\ faults < MaxFaults   \* bound
  /\ faults' = faults + 1
  /\ LeaveCertificates(c)
  /\ unprinted' = unprinted \cup {call[c].file}
  /\ UNCHANGED <<rowVars, diskVars, archive, zip, ownerVars, crossed, changed, severed>>

\* The certificate gets a row of its own, and the loop goes on.
Certify(c) ==
  /\ At(c, "certify")
  /\ certs' = certs + 1
  /\ LET left == call[c].todo \ {call[c].file} IN
     call' = [call EXCEPT ![c] = [EndedCall(IF left = {} THEN "count" ELSE "hash") EXCEPT
                                  !.todo = left]]
  /\ UNCHANGED <<share, rows, size, diskVars, archive, zip, ownerVars, faults, histVars>>

\* Mutation: the certificates are not counted.
Count_Files(c) ==
  /\ At(c, "count")
  /\ zip' = [zip EXCEPT ![c].pc = IF Cardinality(rows) > 1 THEN "list" ELSE "none"]
  /\ Goto(c, "lock")
  /\ changed' = {}
  /\ UNCHANGED <<rowVars, diskVars, archive, ownerVars, faults, crossed, severed, unprinted>>
\* The entries are counted again; more than one make a zip.
Count(c) ==
  /\ At(c, "count")
  /\ zip' = [zip EXCEPT ![c].pc = IF Entries > 1 THEN "list" ELSE "none"]
  /\ Goto(c, "lock")
  /\ changed' = {}
  /\ UNCHANGED <<rowVars, diskVars, archive, ownerVars, faults, crossed, severed, unprinted>>

\* When the recipients have been told, or could not be, which is only logged.
Lock(c) ==
  /\ At(c, "lock")
  /\ share' = [share EXCEPT !.locked = TRUE]
  /\ Goto(c, "done")
  /\ UNCHANGED <<rows, size, certs, diskVars, archive, zip, ownerVars, faults, histVars>>

----------------------------------------------------------------------------
(* The zip a call leaves running.                                          *)

ZipAt(c, pc) == zip[c].pc = pc

ZipList(c) ==
  /\ ZipAt(c, "list")
  /\ zip' = [zip EXCEPT ![c] = [pc |-> "open", listed |-> rows]]
  /\ changed' = {}
  /\ UNCHANGED <<rowVars, diskVars, archive, call, ownerVars, faults, crossed, severed, unprinted>>

\* The archive is truncated, and each file opened: what is read from then on is the
\* content the file has now.
ZipOpen(c) ==
  /\ ZipAt(c, "open")
  /\ \A f \in zip[c].listed : disk[f] # Absent
  /\ archive' = [there |-> TRUE, writers |-> archive.writers \cup {c},
                 broken |-> archive.writers # {},
                 held |-> [f \in Files |-> IF f \in zip[c].listed THEN disk[f] ELSE Absent]]
  /\ zip' = [zip EXCEPT ![c] = [pc |-> "write", listed |-> {}]]
  /\ UNCHANGED <<rowVars, diskVars, call, ownerVars, faults, histVars>>

\* Mutation: isZipReady is set before the archive is written.
ZipWrite_Early(c) ==
  /\ ZipAt(c, "write")
  /\ share' = [share EXCEPT !.ready = TRUE]
  /\ zip' = [zip EXCEPT ![c].pc = "announce"]
  /\ UNCHANGED <<rows, size, certs, diskVars, archive, call, ownerVars, faults, histVars>>
\* The last byte is written and the archive closed.
ZipWrite(c) ==
  /\ ZipAt(c, "write")
  /\ archive' = [archive EXCEPT !.writers = @ \ {c}]
  /\ zip' = [zip EXCEPT ![c].pc = "announce"]
  /\ UNCHANGED <<rowVars, diskVars, call, ownerVars, faults, histVars>>

\* A limit is passed before the archive is opened, or the writing fails.
ZipFails(c) ==
  /\ ZipAt(c, "open") \/ ZipAt(c, "write")
  /\ faults < MaxFaults   \* bound
  /\ faults' = faults + 1
  /\ archive' = IF ZipAt(c, "open") THEN archive
                ELSE [archive EXCEPT !.writers = @ \ {c}, !.broken = TRUE]
  /\ zip' = [zip EXCEPT ![c] = [pc |-> "failed", listed |-> {}]]
  /\ UNCHANGED <<rowVars, diskVars, call, ownerVars, histVars>>

ZipAnnounce(c) ==
  /\ ZipAt(c, "announce") \/ ZipAt(c, "failed")
  /\ share' = [share EXCEPT !.ready = ZipAt(c, "announce")]
  /\ zip' = [zip EXCEPT ![c] = EndedZip(IF ZipAt(c, "announce") THEN "done" ELSE "refused")]
  /\ UNCHANGED <<rows, size, certs, diskVars, archive, call, ownerVars, faults, histVars>>

----------------------------------------------------------------------------
(* The owner, on another page or after going back.                         *)

OwnerMay == events < MaxEvents   \* bound

\* Mutation: the zip stays announced.
Revert_KeepReady ==
  /\ OwnerMay /\ events' = events + 1
  /\ share' = [share EXCEPT !.locked = FALSE]
  /\ crossed' = (crossed \/ \E c \in Calls : Busy(c))
  /\ UNCHANGED <<rows, size, certs, diskVars, archive, call, zip, upload, removal, faults,
                 changed, severed, unprinted>>
Revert ==
  /\ OwnerMay /\ events' = events + 1
  /\ share' = [locked |-> FALSE, ready |-> FALSE]
  /\ crossed' = (crossed \/ \E c \in Calls : Busy(c))
  /\ UNCHANGED <<rows, size, certs, diskVars, archive, call, zip, upload, removal, faults,
                 changed, severed, unprinted>>

\* A file is uploaded: the lock is checked, the file stored, its row created.
UploadStart(f) ==
  /\ upload[f] = "none" /\ ~share.locked
  /\ OwnerMay /\ events' = events + 1
  /\ upload' = [upload EXCEPT ![f] = "open"]
  /\ UNCHANGED <<rowVars, diskVars, archive, call, zip, removal, faults, histVars>>
UploadStore(f) ==
  /\ upload[f] = "open"
  /\ disk' = [disk EXCEPT ![f] = Uploaded]
  /\ upload' = [upload EXCEPT ![f] = "stored"]
  /\ UNCHANGED <<rowVars, tmp, pdf, archive, call, zip, removal, events, faults, histVars>>
UploadRecord(f) ==
  /\ upload[f] = "stored"
  /\ rows' = rows \cup {f} /\ size' = [size EXCEPT ![f] = Uploaded]
  /\ upload' = [upload EXCEPT ![f] = "done"]
  /\ changed' = changed \cup {f}
  /\ UNCHANGED <<share, certs, diskVars, archive, call, zip, removal, events, faults,
                 crossed, severed, unprinted>>

\* A file is removed: first from the disk, then from the table.
RemoveFile(f) ==
  /\ f \in rows /\ removal[f] = "none"
  /\ OwnerMay /\ events' = events + 1
  /\ disk' = [disk EXCEPT ![f] = Absent]
  /\ call' = Unlinked(f, "disk")
  /\ removal' = [removal EXCEPT ![f] = "unlinked"]
  /\ changed' = changed \cup {f}
  /\ UNCHANGED <<rowVars, tmp, pdf, archive, zip, upload, faults, crossed, severed, unprinted>>
RemoveRow(f) ==
  /\ removal[f] = "unlinked"
  /\ rows' = rows \ {f}
  /\ removal' = [removal EXCEPT ![f] = "none"]
  /\ UNCHANGED <<share, size, certs, diskVars, archive, call, zip, upload, events, faults,
                 histVars>>

----------------------------------------------------------------------------
(* The end of the process.                                                 *)

\* Every call, zip and handler ends where it is.
ProcessEnds(found) ==
  /\ call' = [c \in Calls |-> IF Running(c) THEN EndedCall("dead") ELSE call[c]]
  /\ zip' = [c \in Calls |-> IF Zipping(c) THEN EndedZip("dead") ELSE zip[c]]
  /\ archive' = [found EXCEPT !.writers = {}, !.broken = @ \/ found.writers # {}]
  /\ upload' = [f \in Files |-> IF upload[f] \in {"open", "stored"} THEN "dead" ELSE upload[f]]
  /\ removal' = [f \in Files |-> "none"]
  /\ severed' = severed \cup {call[c].file : c \in {d \in Calls : At(d, "record")}}
  /\ unprinted' = unprinted \cup {call[c].file : c \in {d \in Calls : Replaced(d)}}
  /\ crossed' = (crossed \/ \E c \in Calls : At(c, "lock"))
  /\ UNCHANGED <<rowVars, diskVars, events, changed>>

Restart ==
  /\ faults < MaxFaults   \* bound
  /\ faults' = faults + 1
  /\ ProcessEnds(archive)

\* A file on the list is gone when it is opened: nobody listens for that error, so that it
\* ends the process; if the archiver swallows it, the zip waits for ever.
ZipMisses(c) ==
  /\ ZipAt(c, "open")
  /\ \E f \in zip[c].listed : disk[f] = Absent
  /\ LET truncated == [archive EXCEPT !.there = TRUE, !.broken = TRUE] IN
     \/ ProcessEnds(truncated)
     \/ /\ zip' = [zip EXCEPT ![c] = EndedZip("stuck")]
        /\ archive' = truncated
        /\ UNCHANGED <<rowVars, diskVars, call, ownerVars, histVars>>
  /\ UNCHANGED faults

----------------------------------------------------------------------------
CallStep(c) ==
  \/ Read(c) \/ Check(c) \/ List(c) \/ Hash(c) \/ Sign(c) \/ SignFails(c) \/ Stat(c)
  \/ Move(c) \/ Record(c) \/ Rehash(c) \/ OpenPdf(c) \/ WritePdf(c) \/ PdfFails(c) \/ Certify(c)
  \/ Count(c) \/ Lock(c)
ZipStep(c) ==
  ZipList(c) \/ ZipOpen(c) \/ ZipMisses(c) \/ ZipWrite(c) \/ ZipFails(c) \/ ZipAnnounce(c)
OwnerStep(f) ==
  UploadStart(f) \/ UploadStore(f) \/ UploadRecord(f) \/ RemoveFile(f) \/ RemoveRow(f)

Next ==
  \/ \E c \in Calls : CallStep(c) \/ ZipStep(c)
  \/ Revert
  \/ \E f \in Files : OwnerStep(f)
  \/ Restart

Spec == Init /\ [][Next]_vars

----------------------------------------------------------------------------
(* Properties.                                                             *)

\* Each variable holds what its place in the code can hold, and exactly the calls in the
\* loop of generateCertificates work on a file.
TypeOK ==
  /\ share \in [locked : BOOLEAN, ready : BOOLEAN]
  /\ rows \subseteq Files /\ size \in [Files -> Contents] /\ certs \in Nat
  /\ disk \in [Files -> Contents] /\ tmp \in [Files -> Contents]
  /\ pdf \in [Files -> Contents]
  /\ archive \in ArchiveType
  /\ call \in [Calls -> CallType] /\ zip \in [Calls -> ZipType]
  /\ \A c \in Calls : (call[c].file \in Files) <=> (call[c].pc \in FilePcs)
  /\ upload \in [Files -> {"none", "open", "stored", "done", "dead"}]
  /\ removal \in [Files -> {"none", "unlinked"}]
  /\ events \in 0..MaxEvents /\ faults \in 0..MaxFaults
  /\ crossed \in BOOLEAN /\ changed \subseteq Files
  /\ severed \subseteq Files \cup {NoFile} /\ unprinted \subseteq Files \cup {NoFile}

\* While each call and each reversal comes after the zip before it, an archive announced as
\* ready is one whole archive (complete, revertComplete, createZip).
ReadyMeansWhole ==
  share.ready /\ ~crossed => archive.there /\ archive.writers = {} /\ ~archive.broken

\* ... and what "download all" delivers of a completed share is every file of it, with the
\* bytes that the file has alone, but for those recorded or removed after the list was read.
ReadyHoldsAll ==
  share.ready /\ share.locked /\ ~crossed => \A f \in rows \ changed : archive.held[f] = disk[f]

\* The size in the row and the hash on the certificate are those of the file delivered, and
\* the certificate is whole, but while a call has replaced the file and not told its row and
\* its certificate yet. Another call in between may break that, and so may a restart, or a
\* PDF that cannot be written, until the next call has got that far with the file.
CertificatesMatch ==
  \A f \in rows : ~crossed /\ disk[f] # Absent =>
    /\ f \notin severed /\ (\A c \in Calls : call[c].file = f => ~At(c, "record"))
       => size[f] = disk[f]
    /\ f \notin unprinted /\ (\A c \in Calls : call[c].file = f => ~Replaced(c))
       => pdf[f] \in {disk[f], Absent}

\* When everything has come to rest, the zip of a completed share with more than one entry
\* has been announced, or its building has failed, hung, or ended with the process.
AnnouncedOrLost ==
  /\ share.locked /\ ~crossed /\ changed = {} /\ Entries > 1
  /\ \A c \in Calls : ~Busy(c) /\ zip[c].pc \notin {"refused", "stuck", "dead"}
  => share.ready
=============================================================================
