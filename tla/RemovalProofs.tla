--------------------------- MODULE RemovalProofs ---------------------------
(* Proofs about Removal, for every number of requests, shares and restarts. *)
EXTENDS Removal, TLAPS

USE BoundsAssumption

----------------------------------------------------------------------------
(* The inductive invariant                                                  *)

\* Whoever is about to delete the row finds no directory, unless one was made again.
DirectoryGone == HalfRemoved /\ dir.there => stray

Inv == TypeOK /\ DirectoryGone /\ ListedFilesExist /\ NoOrphans

LEMMA InitInv == Init => Inv
<1> SUFFICES ASSUME Init PROVE Inv OBVIOUS
<1>1. share = NoRow /\ ~Exists BY DEF Init, Exists, NoRow, NoShare
<1>2. TypeOK
  <2>1. NoRow \in ShareType BY DEF NoRow, ShareType, Expirations, NoShare
  <2>2. share.number = 0 /\ made = 0 BY <1>1 DEF Init, NoRow, NoShare
  <2>3. 0 \in 0..MaxChanges /\ 0 \in 0..MaxFaults /\ 0 \in 0..MaxShares OBVIOUS
  <2>4. dir.of = {} /\ dir \in [there : BOOLEAN, of : SUBSET Shares] BY DEF Init
  <2>5. /\ maker \in [Makers -> {"idle", "checked", "made"}]
        /\ remover \in [Removers -> {"idle", "files", "row"}]
    BY DEF Init
  <2>6. call \in [Calls -> [pc : CallPcs, number : Shares] \cup {Resting}] BY DEF Init
  <2>7. cut = {} /\ stray \in BOOLEAN /\ changes = 0 /\ faults = 0 BY DEF Init
  <2> QED BY <1>1, <2>1, <2>2, <2>3, <2>4, <2>5, <2>6, <2>7 DEF TypeOK
<1>3. ~dir.there BY DEF Init
<1> QED BY <1>1, <1>2, <1>3 DEF Inv, DirectoryGone, ListedFilesExist, NoOrphans

\* What a step keeps that leaves the row, the directory and the removals alone.
LEMMA AsideInv ==
  ASSUME Inv, TypeOK', UNCHANGED <<share, dir, remover, cut>>, stray => stray',
         dir.there /\ ~Exists => stray' \/ \E m \in Makers : maker'[m] = "made"
  PROVE  Inv'
<1>1. (Exists' <=> Exists) /\ (HalfRemoved' <=> HalfRemoved) BY DEF Exists, HalfRemoved
<1> QED BY <1>1 DEF Inv, DirectoryGone, ListedFilesExist, NoOrphans

----------------------------------------------------------------------------
(* Creation                                                                 *)

LEMMA CheckIdInv == ASSUME Inv, NEW m \in Makers, CheckId(m) PROVE Inv'
<1>1. TypeOK' BY DEF Inv, TypeOK, CheckId, Exists, histVars
<1>2. \A n \in Makers : maker[n] = "made" => maker'[n] = "made" BY DEF Inv, TypeOK, CheckId
<1> QED BY <1>1, <1>2, AsideInv DEF CheckId, Inv, NoOrphans, histVars

LEMMA MakeDirectoryInv == ASSUME Inv, NEW m \in Makers, MakeDirectory(m) PROVE Inv'
<1>1. dir' = [there |-> TRUE, of |-> dir.of] BY DEF Inv, TypeOK, MakeDirectory
<1>2. TypeOK' BY <1>1 DEF Inv, TypeOK, MakeDirectory, Exists
<1>3. (Exists' <=> Exists) /\ (HalfRemoved' <=> HalfRemoved)
  BY DEF MakeDirectory, Exists, HalfRemoved
<1>4. DirectoryGone' BY <1>3 DEF DirectoryGone, MakeDirectory
<1>5. ListedFilesExist' BY <1>1, <1>3 DEF Inv, ListedFilesExist, MakeDirectory
<1>6. NoOrphans'
  <2>1. maker'[m] = "made" BY DEF Inv, TypeOK, MakeDirectory
  <2> QED BY <2>1 DEF NoOrphans
<1> QED BY <1>2, <1>4, <1>5, <1>6 DEF Inv

LEMMA CreateRowInv == ASSUME Inv, NEW m \in Makers, CreateRow(m) PROVE Inv'
<1>1. UNCHANGED <<dir, remover, call, changes, faults, cut, stray>> BY DEF CreateRow
<1>2. DirectoryGone' BY <1>1 DEF Inv, DirectoryGone, HalfRemoved
<1>3. CASE Exists /\ UNCHANGED <<share, made>>
  <2>1. TypeOK' BY <1>1, <1>3 DEF Inv, TypeOK, CreateRow, Exists
  <2>2. ListedFilesExist' /\ NoOrphans'
    BY <1>1, <1>3 DEF Inv, ListedFilesExist, NoOrphans, Exists, HalfRemoved
  <2> QED BY <1>2, <2>1, <2>2 DEF Inv
<1>4. CASE ~Exists
  <2>1. made < MaxShares /\ made' = made + 1 BY <1>4 DEF CreateRow
  <2>2. PICK expiration \in {"never", "ahead"} :
          share' = [NoRow EXCEPT !.number = made + 1, !.expiration = expiration]
    BY <1>4 DEF CreateRow
  <2>3. share' = [number |-> made + 1, locked |-> FALSE, files |-> FALSE,
                  expiration |-> expiration, stale |-> FALSE]
    BY <2>2 DEF NoRow
  <2>4. made + 1 \in Shares /\ made' \in 0..MaxShares
    BY <2>1 DEF Inv, TypeOK, Shares
  <2>5. Exists' BY <2>3, <2>4 DEF Exists, NoShare, Shares
  <2>6. TypeOK'
    <3>1. share' \in ShareType /\ share'.number <= made'
      BY <2>1, <2>3, <2>4 DEF ShareType, Expirations, Shares
    <3>2. \A s \in dir.of \cup cut : s <= made' BY <2>1 DEF Inv, TypeOK, Shares
    <3>3. maker' \in [Makers -> {"idle", "checked", "made"}] BY DEF Inv, TypeOK, CreateRow
    <3> QED BY <1>1, <2>4, <2>5, <3>1, <3>2, <3>3 DEF Inv, TypeOK
  <2>7. ListedFilesExist' BY <2>3 DEF ListedFilesExist
  <2>8. NoOrphans' BY <2>5 DEF NoOrphans
  <2> QED BY <1>2, <2>6, <2>7, <2>8 DEF Inv
<1> QED BY <1>3, <1>4 DEF CreateRow

----------------------------------------------------------------------------
(* The owner, and time                                                      *)

\* The row keeps its number, and is said to have files only if some are stored.
LEMMA RowInv ==
  ASSUME Inv, Exists, share' \in ShareType, share'.number = share.number,
         UNCHANGED <<maker, remover, faults, histVars>>, changes' \in 0..MaxChanges,
         call' \in [Calls -> [pc : CallPcs, number : Shares] \cup {Resting}],
         \/ UNCHANGED dir /\ (share'.files => share.files)
         \/ dir.there /\ dir' = [dir EXCEPT !.of = @ \cup {share.number}]
  PROVE  Inv'
<1>1. Exists' BY DEF Exists
<1>2. share.number \in Shares BY DEF Inv, TypeOK, ShareType, Exists
<1>3. /\ dir' \in [there : BOOLEAN, of : SUBSET Shares] /\ dir'.there = dir.there
      /\ dir.of \subseteq dir'.of /\ dir'.of \subseteq dir.of \cup {share.number}
      /\ dir'.of # dir.of => dir.there
  <2>1. dir \in [there : BOOLEAN, of : SUBSET Shares] BY DEF Inv, TypeOK
  <2> QED BY <1>2, <2>1
<1>4. TypeOK'
  <2>1. (~dir'.there => dir'.of = {}) /\ \A s \in dir'.of : s <= made
    BY <1>3 DEF Inv, TypeOK
  <2> QED BY <1>1, <1>3, <2>1 DEF Inv, TypeOK, histVars
<1>5. HalfRemoved' <=> HalfRemoved BY DEF HalfRemoved
<1>6. DirectoryGone' BY <1>3, <1>5 DEF Inv, DirectoryGone, histVars
<1>7. ListedFilesExist'
  <2> SUFFICES ASSUME share'.files, share.number \notin cut, ~HalfRemoved
               PROVE  share.number \in dir'.of
    BY <1>5 DEF ListedFilesExist, histVars
  <2>1. CASE share.files BY <1>3, <2>1 DEF Inv, ListedFilesExist
  <2>2. CASE dir.there /\ dir' = [dir EXCEPT !.of = @ \cup {share.number}]
    BY <2>2 DEF Inv, TypeOK
  <2> QED BY <2>1, <2>2
<1>8. NoOrphans' BY <1>1 DEF NoOrphans
<1> QED BY <1>4, <1>6, <1>7, <1>8 DEF Inv

LEMMA ChangeInv ==
  ASSUME Inv, NEW row \in ShareType, row.number = share.number, Change(row),
         \/ UNCHANGED dir /\ (row.files => share.files)
         \/ dir.there /\ dir' = [dir EXCEPT !.of = @ \cup {share.number}]
  PROVE  Inv'
<1>1. share' = [row EXCEPT !.stale = FALSE] /\ Exists BY DEF Change
<1>2. share' \in ShareType /\ share'.number = share.number /\ share'.files = row.files
  BY <1>1 DEF ShareType
<1>3. UNCHANGED <<maker, remover, faults, histVars>> /\ changes' \in 0..MaxChanges
  BY DEF Change, Inv, TypeOK
<1>4. call' \in [Calls -> [pc : CallPcs, number : Shares] \cup {Resting}]
  BY DEF Change, Inv, TypeOK
<1> QED BY <1>1, <1>2, <1>3, <1>4, RowInv

LEMMA OwnerInv == ASSUME Inv, OwnerStep PROVE Inv'
<1>1. share \in ShareType BY DEF Inv, TypeOK
<1>2. CASE Upload
  <2> DEFINE row == [share EXCEPT !.files = share.files \/ dir.there]
  <2>1. Change(row) /\ dir' = IF dir.there THEN [dir EXCEPT !.of = @ \cup {share.number}] ELSE dir
    BY <1>2 DEF Upload
  <2>2. row \in ShareType /\ row.number = share.number
        /\ (~dir.there => (row.files => share.files))
    BY <1>1 DEF ShareType, Inv, TypeOK
  <2> HIDE DEF row
  <2>3. CASE dir.there BY <2>1, <2>2, <2>3, ChangeInv
  <2>4. CASE ~dir.there BY <2>1, <2>2, <2>4, ChangeInv
  <2> QED BY <2>3, <2>4
<1>3. CASE Revert
  <2> DEFINE row == [share EXCEPT !.locked = FALSE]
  <2>1. Change(row) /\ UNCHANGED dir BY <1>3 DEF Revert
  <2>2. row \in ShareType /\ row.number = share.number /\ row.files = share.files
    BY <1>1 DEF ShareType
  <2> HIDE DEF row
  <2> QED BY <2>1, <2>2, ChangeInv
<1>4. CASE Prolong
  <2>1. PICK expiration \in {"never", "ahead"} :
          Change([share EXCEPT !.expiration = expiration]) /\ UNCHANGED dir
    BY <1>4 DEF Prolong
  <2> DEFINE row == [share EXCEPT !.expiration = expiration]
  <2>2. Change(row) /\ UNCHANGED dir BY <2>1
  <2>3. row \in ShareType /\ row.number = share.number /\ row.files = share.files
    BY <1>1 DEF ShareType, Expirations
  <2> HIDE DEF row
  <2> QED BY <2>2, <2>3, ChangeInv
<1> QED BY <1>2, <1>3, <1>4 DEF OwnerStep

LEMMA TimeInv == ASSUME Inv, TimePasses \/ GoesStale PROVE Inv'
<1>1. share' \in ShareType /\ share'.number = share.number /\ share'.files = share.files
  BY DEF TimePasses, GoesStale, Inv, TypeOK, ShareType, Expirations
<1>2. UNCHANGED <<dir, maker, remover, call, changes, faults, histVars>>
  BY DEF TimePasses, GoesStale
<1>3. Exists BY DEF TimePasses, GoesStale, Exists, NoRow, Inv, TypeOK
<1>4. /\ changes' \in 0..MaxChanges
      /\ call' \in [Calls -> [pc : CallPcs, number : Shares] \cup {Resting}]
  BY <1>2 DEF Inv, TypeOK
<1> QED BY <1>1, <1>2, <1>3, <1>4, RowInv

----------------------------------------------------------------------------
(* Completion                                                               *)

LEMMA CallTyped ==
  ASSUME TypeOK, NEW c \in Calls, call[c].pc \in CallPcs
  PROVE  call[c] \in [pc : CallPcs, number : Shares]
BY DEF TypeOK, Resting, CallPcs

LEMMA LaterTyped ==
  ASSUME TypeOK, NEW c \in Calls, call[c].pc \in CallPcs, NEW pc \in CallPcs, Later(c, pc)
  PROVE  call' \in [Calls -> [pc : CallPcs, number : Shares] \cup {Resting}]
<1>1. [call[c] EXCEPT !.pc = pc] \in [pc : CallPcs, number : Shares] BY CallTyped
<1> QED BY <1>1 DEF Later, TypeOK

LEMMA CallInv == ASSUME Inv, NEW c \in Calls, CallStep(c) PROVE Inv'
<1>1. {"list", "hash", "certify", "record", "lock"} = CallPcs BY DEF CallPcs
<1>2. CASE ReadShare(c)
  <2>1. /\ share.number \in Shares /\ Exists /\ changes' \in 0..MaxChanges
        /\ UNCHANGED <<share, dir, maker, remover, faults, histVars>>
    BY <1>2 DEF ReadShare, Inv, TypeOK, ShareType, Exists
  <2>2. call' \in [Calls -> [pc : CallPcs, number : Shares] \cup {Resting}]
    BY <1>1, <1>2, <2>1 DEF ReadShare, Inv, TypeOK
  <2> QED BY <2>1, <2>2, RowInv DEF Inv, TypeOK
<1>3. CASE ListFiles(c) \/ OpenFile(c) \/ RecordCertificate(c)
  <2>1. UNCHANGED <<share, dir, maker, remover, changes, faults, histVars>>
    BY <1>3 DEF ListFiles, OpenFile, RecordCertificate
  <2>2. call' \in [Calls -> [pc : CallPcs, number : Shares] \cup {Resting}]
    <3>1. CASE ListFiles(c)
      <4>1. call[c] \in [pc : CallPcs, number : Shares]
        BY <1>1, <3>1, CallTyped DEF ListFiles, Inv
      <4>2. Exists => share.number \in Shares BY DEF Exists, Inv, TypeOK, ShareType
      <4> QED BY <1>1, <3>1, <4>1, <4>2 DEF ListFiles, Inv, TypeOK
    <3>2. CASE OpenFile(c)
      <4>1. call[c].pc \in CallPcs /\ \E pc \in CallPcs : Later(c, pc)
        BY <1>1, <3>2 DEF OpenFile
      <4> QED BY <4>1, LaterTyped DEF Inv
    <3>3. CASE RecordCertificate(c)
      <4>1. call[c].pc \in CallPcs /\ Later(c, "lock") BY <1>1, <3>3 DEF RecordCertificate
      <4> QED BY <1>1, <4>1, LaterTyped DEF Inv
    <3> QED BY <1>3, <3>1, <3>2, <3>3
  <2>3. TypeOK' BY <2>1, <2>2 DEF Inv, TypeOK, histVars, Exists
  <2> QED BY <2>1, <2>3, AsideInv DEF Inv, NoOrphans, histVars
<1>4. CASE MakeCertificate(c)
  <2> DEFINE own == call[c].number = share.number
  <2>1. UNCHANGED <<share, maker, remover, changes, faults, made, cut>>
    BY <1>4 DEF MakeCertificate
  <2>2. \/ UNCHANGED <<dir, stray>>
        \/ dir' = [dir EXCEPT !.there = TRUE] /\ stray' = (stray \/ HalfRemoved \/ ~own)
    BY <1>4 DEF MakeCertificate
  <2>3. call' \in [Calls -> [pc : CallPcs, number : Shares] \cup {Resting}]
    <3>1. call[c].pc \in CallPcs /\ \E pc \in CallPcs : Later(c, pc)
      BY <1>1, <1>4 DEF MakeCertificate
    <3> QED BY <3>1, LaterTyped DEF Inv
  <2>4. (Exists' <=> Exists) /\ (HalfRemoved' <=> HalfRemoved)
    BY <2>1 DEF Exists, HalfRemoved
  <2>5. CASE UNCHANGED <<dir, stray>>
    <3>1. TypeOK' BY <2>1, <2>3, <2>5 DEF Inv, TypeOK, Exists
    <3> QED BY <2>1, <2>5, <3>1, AsideInv DEF Inv, NoOrphans
  <2>6. CASE dir' = [dir EXCEPT !.there = TRUE] /\ stray' = (stray \/ HalfRemoved \/ ~own)
    <3>1. dir' = [there |-> TRUE, of |-> dir.of] BY <2>6 DEF Inv, TypeOK
    <3>2. TypeOK' BY <2>1, <2>3, <2>6, <3>1 DEF Inv, TypeOK, Exists
    <3>3. DirectoryGone' BY <2>4, <2>6 DEF DirectoryGone
    <3>4. ListedFilesExist' BY <2>1, <2>4, <3>1 DEF Inv, ListedFilesExist
    <3>5. own => Exists
      <4>1. call[c].number \in Shares
        BY <1>1, <1>4, CallTyped DEF MakeCertificate, Inv
      <4> QED BY <4>1 DEF Exists, NoShare, Shares
    <3>6. NoOrphans' BY <2>4, <2>6, <3>5 DEF NoOrphans
    <3> QED BY <3>2, <3>3, <3>4, <3>6 DEF Inv
  <2> QED BY <2>2, <2>5, <2>6
<1>5. CASE Lock(c)
  <2>1. call' \in [Calls -> [pc : CallPcs, number : Shares] \cup {Resting}]
    BY <1>5 DEF Lock, Inv, TypeOK
  <2>2. UNCHANGED <<dir, maker, remover, changes, faults, histVars>> BY <1>5 DEF Lock
  <2>3. CASE Exists
    <3>1. share' = [share EXCEPT !.locked = TRUE, !.stale = FALSE] BY <1>5, <2>3 DEF Lock
    <3>2. share' \in ShareType /\ share'.number = share.number /\ share'.files = share.files
      BY <3>1 DEF Inv, TypeOK, ShareType
    <3> QED BY <2>1, <2>2, <2>3, <3>2, RowInv DEF Inv, TypeOK
  <2>4. CASE ~Exists
    <3>1. share' = share BY <1>5, <2>4 DEF Lock
    <3>2. TypeOK' BY <2>1, <2>2, <3>1 DEF Inv, TypeOK, histVars, Exists
    <3> QED BY <2>2, <3>1, <3>2, AsideInv DEF Inv, NoOrphans, histVars
  <2> QED BY <2>3, <2>4
<1> QED BY <1>2, <1>3, <1>4, <1>5 DEF CallStep

----------------------------------------------------------------------------
(* Removal, and restarts                                                    *)

LEMMA FindInv == ASSUME Inv, NEW k \in Removers, Find(k) PROVE Inv'
<1>1. /\ remover' = [remover EXCEPT ![k] = IF Exists THEN "files" ELSE "row"]
      /\ remover[k] = "idle"
      /\ stray' = (stray \/ (~Exists /\ dir.there))
      /\ UNCHANGED <<share, dir, maker, call, changes, faults, made, cut>>
  BY DEF Find
<1>2. Exists' <=> Exists BY <1>1 DEF Exists
<1>3. TypeOK' BY <1>1, <1>2 DEF Inv, TypeOK
<1>4. HalfRemoved' <=> HalfRemoved \/ ~Exists BY <1>1 DEF HalfRemoved, Inv, TypeOK
<1>5. DirectoryGone' BY <1>1, <1>4 DEF Inv, DirectoryGone
<1>6. ListedFilesExist' BY <1>1, <1>2, <1>4 DEF Inv, ListedFilesExist
<1>7. NoOrphans' BY <1>1, <1>2 DEF NoOrphans
<1> QED BY <1>3, <1>5, <1>6, <1>7 DEF Inv

LEMMA DeleteFilesInv == ASSUME Inv, NEW k \in Removers, DeleteFiles(k) PROVE Inv'
<1>1. /\ remover[k] = "files" /\ remover' = [remover EXCEPT ![k] = "row"]
      /\ dir' = [there |-> FALSE, of |-> {}] /\ stray' = FALSE
      /\ UNCHANGED <<share, maker, call, changes, faults, made, cut>>
  BY DEF DeleteFiles
<1>2. Exists' <=> Exists BY <1>1 DEF Exists
<1>3. TypeOK'
  <2>1. dir' \in [there : BOOLEAN, of : SUBSET Shares] BY <1>1
  <2> QED BY <1>1, <1>2, <2>1 DEF Inv, TypeOK
<1>4. HalfRemoved' BY <1>1 DEF HalfRemoved, Inv, TypeOK
<1>5. DirectoryGone' /\ NoOrphans' BY <1>1 DEF DirectoryGone, NoOrphans
<1>6. ListedFilesExist' BY <1>4 DEF ListedFilesExist
<1> QED BY <1>3, <1>5, <1>6 DEF Inv

LEMMA DeleteRowInv == ASSUME Inv, NEW k \in Removers, DeleteRow(k) PROVE Inv'
<1>1. /\ remover[k] = "row" /\ remover' = [remover EXCEPT ![k] = "idle"]
      /\ share' = NoRow
      /\ UNCHANGED <<dir, maker, call, changes, faults, histVars>>
  BY DEF DeleteRow
<1>2. ~Exists' /\ share'.number = 0 /\ ~share'.files
  BY <1>1 DEF Exists, NoRow, NoShare
<1>3. TypeOK'
  <2>1. NoRow \in ShareType BY DEF NoRow, ShareType, Expirations, NoShare
  <2>2. share'.number <= made' BY <1>1, <1>2 DEF Inv, TypeOK, histVars
  <2> QED BY <1>1, <2>1, <2>2 DEF Inv, TypeOK, histVars
<1>4. HalfRemoved /\ (HalfRemoved' => HalfRemoved) BY <1>1 DEF HalfRemoved
<1>5. DirectoryGone' BY <1>1, <1>4 DEF Inv, DirectoryGone, histVars
<1>6. ListedFilesExist' BY <1>2 DEF ListedFilesExist
<1>7. NoOrphans' BY <1>1, <1>4 DEF Inv, DirectoryGone, NoOrphans, histVars
<1> QED BY <1>3, <1>5, <1>6, <1>7 DEF Inv

LEMMA RestartInv == ASSUME Inv, Restart PROVE Inv'
<1>1. /\ maker' = [m \in Makers |-> "idle"] /\ remover' = [k \in Removers |-> "idle"]
      /\ call' = [c \in Calls |-> Resting]
      /\ cut' = IF Exists /\ HalfRemoved THEN cut \cup {share.number} ELSE cut
      /\ stray' = (stray \/ \E m \in Makers : maker[m] = "made")
      /\ UNCHANGED <<share, dir, changes, made>>
  BY DEF Restart
<1>2. Exists' <=> Exists BY <1>1 DEF Exists
<1>3. TypeOK'
  <2>1. faults' \in 0..MaxFaults BY DEF Inv, TypeOK, Restart
  <2>2. Exists => share.number \in Shares /\ share.number <= made
    BY DEF Inv, TypeOK, ShareType, Exists
  <2>3. cut' \subseteq Shares /\ \A s \in cut' : s <= made BY <1>1, <2>2 DEF Inv, TypeOK
  <2>4. /\ maker' \in [Makers -> {"idle", "checked", "made"}]
        /\ remover' \in [Removers -> {"idle", "files", "row"}]
        /\ call' \in [Calls -> [pc : CallPcs, number : Shares] \cup {Resting}]
    BY <1>1
  <2> QED BY <1>1, <1>2, <2>1, <2>3, <2>4 DEF Inv, TypeOK
<1>4. ~HalfRemoved' BY <1>1 DEF HalfRemoved
<1>5. DirectoryGone' BY <1>4 DEF DirectoryGone
<1>6. ListedFilesExist' BY <1>1, <1>2 DEF Inv, ListedFilesExist
<1>7. NoOrphans' BY <1>1, <1>2 DEF Inv, NoOrphans
<1> QED BY <1>3, <1>5, <1>6, <1>7 DEF Inv

LEMMA NextInv == Inv /\ [Next]_vars => Inv'
<1> SUFFICES ASSUME Inv, [Next]_vars PROVE Inv' OBVIOUS
<1>1. ASSUME NEW m \in Makers, CheckId(m) \/ MakeDirectory(m) \/ CreateRow(m) PROVE Inv'
  BY <1>1, CheckIdInv, MakeDirectoryInv, CreateRowInv
<1>2. CASE OwnerStep BY <1>2, OwnerInv
<1>3. CASE TimePasses \/ GoesStale BY <1>3, TimeInv
<1>4. ASSUME NEW c \in Calls, CallStep(c) PROVE Inv' BY <1>4, CallInv
<1>5. ASSUME NEW k \in Removers, RemoverStep(k) PROVE Inv'
  BY <1>5, FindInv, DeleteFilesInv, DeleteRowInv DEF RemoverStep
<1>6. CASE Restart BY <1>6, RestartInv
<1>7. CASE UNCHANGED vars
  <2>1. Exists' = Exists BY <1>7 DEF vars, Exists
  <2> QED BY <1>7, <2>1 DEF vars, histVars, Inv, TypeOK, DirectoryGone, ListedFilesExist,
          NoOrphans, HalfRemoved
<1> QED BY <1>1, <1>2, <1>3, <1>4, <1>5, <1>6, <1>7 DEF Next

----------------------------------------------------------------------------
(* Theorems                                                                 *)

\* Requests, jobs and the row keep to their values, for any number of shares.
THEOREM TypeCorrect == Spec => []TypeOK
<1>1. Inv => TypeOK BY DEF Inv
<1> QED BY InitInv, NextInv, <1>1, PTL DEF Spec

\* A listed file is on disk, whatever jobs, owners and restarts do, except between the
\* deletion of the directory and that of the row (remove, deleteExpiredShares).
THEOREM FilesOutliveRows == Spec => []ListedFilesExist
<1>1. Inv => ListedFilesExist BY DEF Inv
<1> QED BY InitInv, NextInv, <1>1, PTL DEF Spec

\* A directory without a row is one that is being made, or was made again behind a removal that
\* was half done, or for a share that is gone, or was left by a creation that a restart or the
\* deletion of the account met half way (create, complete, remove).
THEOREM OrphansExplained == Spec => []NoOrphans
<1>1. Inv => NoOrphans BY DEF Inv
<1> QED BY InitInv, NextInv, <1>1, PTL DEF Spec
=============================================================================
