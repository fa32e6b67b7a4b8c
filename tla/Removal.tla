------------------------------- MODULE Removal -------------------------------
(***************************************************************************)
(* The beginning and the end of the shares of one identifier, which the    *)
(* owner may choose and take again: creation, expiration, and the four     *)
(* that remove a share, each first the directory and then the row: its     *)
(* owner, the deletion of the account, and the jobs for expired and for    *)
(* unfinished shares, which go by an earlier query. A completion, which    *)
(* makes the directory for its certificates, may run beside them.          *)
(*                                                                         *)
(* Shares are numbered in the order of their creation, for the properties: *)
(* the program knows only the identifier.                                  *)
(***************************************************************************)
EXTENDS Naturals

CONSTANTS
  Makers,      \* requests that create a share with the identifier
  Calls,       \* calls of complete that run at once
  MaxShares,   \* bound: shares created
  MaxChanges,  \* bound: what the owner does to a share
  MaxFaults    \* bound: restarts

ASSUME BoundsAssumption == MaxShares \in Nat /\ MaxChanges \in Nat /\ MaxFaults \in Nat

Jobs == {"expired", "unfinished"}
Removers == Jobs \cup {"owner", "account"}
Shares == 1..MaxShares
NoShare == 0

VARIABLES
  share,     \* the row of the identifier; number NoShare when there is none
  dir,       \* its directory: is it there, and the shares that have files in it
  maker,     \* the requests that create
  remover,   \* those that remove
  call,      \* those that complete, and the share each has read
  changes, faults,
  \* history, read by no step of the program
  made,      \* shares created so far
  cut,       \* shares of which a removal was cut off by a restart, with the files gone
  stray      \* the directory was made again after a removal had deleted it, or by a completion
             \* of a share that is gone, or for a creation that a restart or the deletion of
             \* the account met half way

histVars == <<made, cut, stray>>
vars == <<share, dir, maker, remover, call, changes, faults, histVars>>

----------------------------------------------------------------------------
\* expiration: null, ahead (counting the retention period), or past.
Expirations == {"never", "ahead", "past"}
ShareType == [number : Shares \cup {NoShare}, locked : BOOLEAN, files : BOOLEAN,
              expiration : Expirations,
              stale : BOOLEAN]   \* no update for a day
NoRow == [number |-> NoShare, locked |-> FALSE, files |-> FALSE, expiration |-> "never",
          stale |-> FALSE]
Exists == share.number # NoShare
Resting == [pc |-> "idle", number |-> NoShare]
CallPcs == {"list", "hash", "certify", "record", "lock"}

Init ==
  /\ share = NoRow
  /\ dir = [there |-> FALSE, of |-> {}]
  /\ maker = [m \in Makers |-> "idle"]
  /\ remover = [k \in Removers |-> "idle"]
  /\ call = [c \in Calls |-> Resting]
  /\ changes = 0 /\ faults = 0
  /\ made = 0 /\ cut = {} /\ stray = FALSE

----------------------------------------------------------------------------
(* Creation.                                                               *)

Creating(m) == maker[m] # "idle"
Removing(k) == remover[k] # "idle"
Completing(c) == call[c] # Resting
\* Some removal has deleted the directory, and is about to delete the row.
HalfRemoved == \E k \in Removers : remover[k] = "row"

\* The identifier is free, and the password is hashed, if there is one.
CheckId(m) ==
  /\ maker[m] = "idle" /\ ~Exists
  /\ maker' = [maker EXCEPT ![m] = "checked"]
  /\ UNCHANGED <<share, dir, remover, call, changes, faults, histVars>>

\* The directory is made, or is there already.
MakeDirectory(m) ==
  /\ maker[m] = "checked"
  /\ maker' = [maker EXCEPT ![m] = "made"]
  /\ dir' = [dir EXCEPT !.there = TRUE]
  /\ stray' = (stray \/ HalfRemoved)
  /\ UNCHANGED <<share, remover, call, changes, faults, made, cut>>

\* The row is created, unless the identifier has been taken meanwhile.
CreateRow(m) ==
  /\ maker[m] = "made"
  /\ maker' = [maker EXCEPT ![m] = "idle"]
  /\ IF Exists THEN UNCHANGED <<share, made>>
     ELSE /\ made < MaxShares   \* bound
          /\ made' = made + 1
          /\ \E expiration \in {"never", "ahead"} :
               share' = [NoRow EXCEPT !.number = made + 1, !.expiration = expiration]
  /\ UNCHANGED <<dir, remover, call, changes, faults, cut, stray>>

----------------------------------------------------------------------------
(* What the owner does to a share, and time.                               *)

\* Every update of the row sets updatedAt.
Change(row) ==
  /\ Exists /\ changes < MaxChanges   \* bound
  /\ changes' = changes + 1
  /\ share' = [row EXCEPT !.stale = FALSE]
  /\ UNCHANGED <<maker, remover, call, faults, histVars>>

\* A file is uploaded; without the directory it fails, after the touch.
Upload ==
  /\ ~share.locked
  /\ Change([share EXCEPT !.files = share.files \/ dir.there])
  /\ dir' = IF dir.there THEN [dir EXCEPT !.of = @ \cup {share.number}] ELSE dir
Revert == Change([share EXCEPT !.locked = FALSE]) /\ UNCHANGED dir
\* A new expiration, or the end at once, which then is as long ago as any.
Prolong ==
  \E expiration \in {"never", "ahead"} :
    Change([share EXCEPT !.expiration = expiration]) /\ UNCHANGED dir

TimePasses ==
  /\ share.expiration = "ahead"
  /\ share' = [share EXCEPT !.expiration = "past"]
  /\ UNCHANGED <<dir, maker, remover, call, changes, faults, histVars>>
\* A day goes by; no request takes that long.
GoesStale ==
  /\ Exists /\ ~share.stale
  /\ \A m \in Makers : ~Creating(m)
  /\ \A k \in Removers : ~Removing(k)
  /\ \A c \in Calls : ~Completing(c)
  /\ share' = [share EXCEPT !.stale = TRUE]
  /\ UNCHANGED <<dir, maker, remover, call, changes, faults, histVars>>

----------------------------------------------------------------------------
(* Completion: of a share with one file, of which a certificate is made.   *)

Later(c, pc) == call' = [call EXCEPT ![c].pc = pc]

\* The share has a file and is not completed.
ReadShare(c) ==
  /\ ~Completing(c) /\ Exists /\ share.files /\ ~share.locked
  /\ changes < MaxChanges   \* bound
  /\ changes' = changes + 1
  /\ call' = [call EXCEPT ![c] = [pc |-> "list", number |-> share.number]]
  /\ UNCHANGED <<share, dir, maker, remover, faults, histVars>>
\* generateCertificates reads the share again, and leaves it if it is gone.
ListFiles(c) ==
  /\ call[c].pc = "list"
  /\ call' = [call EXCEPT ![c] = IF Exists /\ share.files
                                 THEN [pc |-> "hash", number |-> share.number]
                                 ELSE [@ EXCEPT !.pc = "lock"]]
  /\ UNCHANGED <<share, dir, maker, remover, changes, faults, histVars>>
\* The file is opened to be hashed. If it is gone, complete catches the error and goes on.
OpenFile(c) ==
  /\ call[c].pc = "hash"
  /\ Later(c, IF call[c].number \in dir.of THEN "certify" ELSE "lock")
  /\ UNCHANGED <<share, dir, maker, remover, changes, faults, histVars>>
\* The file is read to its end, even if it has been deleted by now, a signed video's row is
\* updated, which fails if it is gone; and the directory is made, or is there.
MakeCertificate(c) ==
  /\ call[c].pc = "certify"
  /\ LET own == call[c].number = share.number
     IN \E video \in BOOLEAN :
          IF video /\ ~own THEN Later(c, "lock") /\ UNCHANGED <<dir, stray>>
          ELSE /\ Later(c, "record")
               /\ dir' = [dir EXCEPT !.there = TRUE]
               /\ stray' = (stray \/ HalfRemoved \/ ~own)
  /\ UNCHANGED <<share, maker, remover, changes, faults, made, cut>>
\* The certificate, written meanwhile, gets its row, or the share or the directory is gone and
\* complete catches the error; it goes on. A stream that fails before anybody listens hangs.
RecordCertificate(c) ==
  /\ call[c].pc = "record" /\ Later(c, "lock")
  /\ UNCHANGED <<share, dir, maker, remover, changes, faults, histVars>>
\* By the identifier; without a row it fails.
Lock(c) ==
  /\ call[c].pc = "lock"
  /\ call' = [call EXCEPT ![c] = Resting]
  /\ share' = IF Exists THEN [share EXCEPT !.locked = TRUE, !.stale = FALSE] ELSE share
  /\ UNCHANGED <<dir, maker, remover, changes, faults, histVars>>

----------------------------------------------------------------------------
(* Removal.                                                                *)

\* What each looks for.
Due(k) ==
  CASE k = "expired" -> Exists /\ share.expiration = "past"
    [] k = "unfinished" -> Exists /\ ~share.locked /\ share.stale
    [] k = "owner" -> Exists
    [] k = "account" -> TRUE
\* The row is read; the account's shares may be none, and its own row goes in any case.
Find(k) ==
  /\ remover[k] = "idle" /\ Due(k)
  /\ remover' = [remover EXCEPT ![k] = IF Exists THEN "files" ELSE "row"]
  /\ stray' = (stray \/ (~Exists /\ dir.there))
  /\ UNCHANGED <<share, dir, maker, call, changes, faults, made, cut>>

\* Mutation: a directory that cannot be deleted is left behind.
DeleteFiles_Swallow(k) ==
  /\ remover[k] = "files"
  /\ remover' = [remover EXCEPT ![k] = "row"]
  /\ UNCHANGED <<share, dir, maker, call, changes, faults, histVars>>
\* Mutation: to delete a directory that is not there fails.
DeleteFiles_Strict(k) ==
  /\ remover[k] = "files" /\ dir.there
  /\ remover' = [remover EXCEPT ![k] = "row"]
  /\ dir' = [there |-> FALSE, of |-> {}]
  /\ stray' = FALSE
  /\ UNCHANGED <<share, maker, call, changes, faults, made, cut>>
\* deleteAllFiles; a directory that is not there is none to delete.
DeleteFiles(k) ==
  /\ remover[k] = "files"
  /\ remover' = [remover EXCEPT ![k] = "row"]
  /\ dir' = [there |-> FALSE, of |-> {}]
  /\ stray' = FALSE
  /\ UNCHANGED <<share, maker, call, changes, faults, made, cut>>

\* Mutation: a job looks again before it deletes the row.
DeleteRow_Recheck(k) ==
  /\ remover[k] = "row"
  /\ remover' = [remover EXCEPT ![k] = "idle"]
  /\ share' = IF k \in Jobs /\ ~Due(k) THEN share ELSE NoRow
  /\ UNCHANGED <<dir, maker, call, changes, faults, histVars>>
\* The row is deleted by its identifier, whatever it says by now: delete, deleteMany, or the
\* cascade from the account.
DeleteRow(k) ==
  /\ remover[k] = "row"
  /\ remover' = [remover EXCEPT ![k] = "idle"]
  /\ share' = NoRow
  /\ UNCHANGED <<dir, maker, call, changes, faults, histVars>>

Restart ==
  /\ faults < MaxFaults   \* bound
  /\ faults' = faults + 1
  /\ maker' = [m \in Makers |-> "idle"]
  /\ remover' = [k \in Removers |-> "idle"]
  /\ call' = [c \in Calls |-> Resting]
  /\ cut' = IF Exists /\ HalfRemoved THEN cut \cup {share.number} ELSE cut
  /\ stray' = (stray \/ \E m \in Makers : maker[m] = "made")
  /\ UNCHANGED <<share, dir, changes, made>>

----------------------------------------------------------------------------
OwnerStep == Upload \/ Revert \/ Prolong
CallStep(c) ==
  \/ ReadShare(c) \/ ListFiles(c) \/ OpenFile(c)
  \/ MakeCertificate(c) \/ RecordCertificate(c) \/ Lock(c)
RemoverStep(k) == Find(k) \/ DeleteFiles(k) \/ DeleteRow(k)

Next ==
  \/ \E m \in Makers : CheckId(m) \/ MakeDirectory(m) \/ CreateRow(m)
  \/ OwnerStep
  \/ \E c \in Calls : CallStep(c)
  \/ TimePasses \/ GoesStale
  \/ \E k \in Removers : RemoverStep(k)
  \/ Restart

Spec == Init /\ [][Next]_vars
\* The jobs run again and again (@Cron), and each goes on to its end.
FairSpec == Spec /\ \A k \in Jobs : WF_vars(RemoverStep(k))

----------------------------------------------------------------------------
(* Properties.                                                             *)

\* Each variable holds what its place in the code can hold; a row has a file in it only if
\* one was stored for it.
TypeOK ==
  /\ share \in ShareType /\ share.number <= made
  /\ ~Exists => share = NoRow
  /\ dir \in [there : BOOLEAN, of : SUBSET Shares]
  /\ (~dir.there => dir.of = {}) /\ \A s \in dir.of : s <= made
  /\ maker \in [Makers -> {"idle", "checked", "made"}]
  /\ remover \in [Removers -> {"idle", "files", "row"}]
  /\ call \in [Calls -> [pc : CallPcs, number : Shares] \cup {Resting}]
  /\ changes \in 0..MaxChanges /\ faults \in 0..MaxFaults
  /\ made \in 0..MaxShares
  /\ cut \subseteq Shares /\ \A s \in cut : s <= made
  /\ stray \in BOOLEAN

\* A share that lists files has them on disk, unless a removal has come half way or a
\* restart has stopped one of this share there (remove, deleteExpiredShares).
ListedFilesExist ==
  Exists /\ share.files /\ share.number \notin cut /\ ~HalfRemoved => share.number \in dir.of

\* Nothing is left of a share without a row, unless it is being created, or the directory was
\* made between the two steps of a removal, by a completion that has outlived its share, or
\* for a creation that a restart or the deletion of the account met half way.
NoOrphans == dir.there /\ ~Exists => stray \/ \E m \in Makers : maker[m] = "made"

\* What a job is for does not stay: in spite of restarts it is removed, or its owner has
\* changed it, or a new share has taken its place.
LapsedIsRemoved == \A k \in Jobs : Due(k) ~> ~Due(k)
=============================================================================
