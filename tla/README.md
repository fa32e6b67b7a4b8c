# A TLA+ verification of Controle Share Videos

Controle Share Videos distributes videos and other files under links that
expire, are limited in views and downloads and may ask for a password. The
backend is one NestJS process over a SQLite database and a directory per share;
the client is a Next.js application. This directory holds TLA+ models of the
parts of the backend whose correctness depends on the order in which concurrent
requests, background work, restarts and jobs take their steps, with the TLC
runs that check them and TLAPS proofs for every value of the constants.

Read a model with the code beside it: `PROJECT.json` maps each definition to
the lines it translates.

## 1. The system

One Node process runs every request, so the code between two `await`s is
atomic and the code on both sides of one is not: each model's step is such a
stretch of code. SQLite serialises statements and interactive transactions. A restart
loses what is in memory and keeps the database and the disk.

| Component | State | Operations | Interacts with |
|---|---|---|---|
| Share access (`share/guard`, `share/domain`, `file/guard`, part of `share.service`) | `Share.views`, `Share.downloads`, `ShareSecurity`, `ShareToken`, the in-memory streaming sessions | page, stream, download, zip, certificates, `POST token`, `PATCH`, expire, remove | the visitor's cookie; file delivery |
| Share life (`share.service`, `share-archive.service`) | `uploadLocked`, `isZipReady`, the zip and the certificates on disk | create, complete, revert, create the zip in the background, remove | upload, jobs, certificates |
| Upload (`file/local.service`, `frontend/src/pages/upload`) | `<id>.tmp-chunk` on disk, `File` rows | receive a chunk, finish a file, remove a file | the client's retry loop; complete |
| Sessions and credentials (`auth`) | `RefreshToken`, `Session`, `ResetPasswordToken`, `User.password` | sign-in, rotation, validation, reauthentication, change of password, reset, sign-out, revocation | users, administration, jobs |
| Second factor (`auth/authTotp.service`, `recovery-code.service`) | `LoginToken`, `RecoveryCode`, the TOTP secret | sign-in in two steps, enrolment, enable, verify, disable, new codes | sign-in |
| Users and roles (`user`, `admin`, `auth`) | `User` | sign-up, create, update, delete, activation, access review | sessions, audit, jobs |
| Audit trail (`audit`) | `AuditLog`, the NDJSON mirror, the gauge of the broken chain | record, verify | every other component; user deletion |
| Configuration (`config`) | `Config` rows and their copy in memory; the JWT key file and its history | update, reload, rotate | every reader |
| Certificates (`certificate`) | a PDF per file, a video with embedded metadata | generate, embed, verify | complete, download |
| Jobs (`jobs`) | none | delete expired shares, unfinished shares, temporary files, expired tokens | all of the above |
| Download log, notifications, metrics, e-mail, cache, throttler | records, counters, a cooldown map | write-only | – |

### What is hard in it

- **Limits**: a request checks a limit in a guard, another request or a PATCH
  comes in, and the counter is incremented in a third statement, under a limit
  read in a second.
- **Read, await, write**: `updateSecurity`, `getShareToken`, `reauth.guard`,
  `refresh.service` and `updatePassword` act on rows read before an `await`
  (`argon` runs off the main thread, so even a hash is a gap).
- **Chaining**: every audit event is chained to the hash of the last one, with
  concurrent writers; the verification reads a chain that grows.
- **Rows that change behind a hash**: `ON DELETE SET NULL` alters chained rows.
- **Retries**: two tabs rotate one token; a chunk whose answer was lost is sent again.
- **Background work**: the zip and the certificates outlive the request that
  asked for them.
- **Restarts** between a commit and what should follow it: the mirror line, the
  revocation of sessions, the deletion of a row whose files are gone.
- **Two writers, one path**: two completions sign the same video and write the same archive.
- **Counts before writes**: the last administrator, the first user.
- **Reloads that cross**: the configuration in memory may be an older one than the table's.

`PROJECT.json` lists each of these under `hazards`, at the line where it bites,
with the property that watches it or the reason why none does.

### What makes each component correct

- *Share access*: no interleaving grants more views or downloads than some
  limit in force allowed; what was paid for is delivered once; a viewer on the last
  view sees the whole video; a changed password ends old tokens.
- *Audit trail*: one chain, without forks or holes; a valid verdict means that nothing
  read was altered before; the alarm means that something was, or that the verification
  failed; the mirror keeps what the table loses, but for lines that could not be written.
- *Sessions*: one live token per sign-in; a confirmation mark comes from a
  password really given; an old password keeps no session; a reset link works once.
- *Upload*: a finished file is the file the client sent; limits bound the sum; a
  locked share no longer changes; a resumed upload ends.
- *Share life*: `isZipReady` means that the zip on disk is the one of the present
  files; removals and jobs leave no row without files, but where a restart cut one off,
  and end what is due.
- *Accounts*: no request that follows the others takes the last administrator away; a login token works once.
- *Configuration*: the copy in memory is the last committed; a key that has signed
  is kept as long as the history is long enough.

## 2. The plan

The order was: what decides on access and keeps evidence first, then what writes the
disk, then what changes rarely.

| | Module | Models | Proofs |
|---|---|---|---|
| 1 | `ShareAccess`, `Meter` | limits, tokens, PATCH; `Meter` is the abstract specification of a limit | `ShareAccessProofs` |
| 2 | `AuditWorm`, `Trail` | chain, mirror, verification; `Trail` is its abstract specification | `AuditWormProofs` |
| 3 | `AuthSessions` | sessions and credentials | `AuthSessionsProofs` |
| 4 | `Uploads` | the chunk protocol of client and server | `UploadsProofs` |
| 5 | `Completion` | complete, reversal, certificates, the zip in the background | `CompletionProofs` |
| 6 | `Removal` | creation, expiration, the four removals, the jobs on shares | `RemovalProofs` |
| 7 | `SecondFactor` | login tokens, TOTP, recovery codes | `SecondFactorProofs` |
| 8 | `Accounts` | sign-up, roles, activation, deletion, the job on accounts, the user of config.yaml | `AccountsProofs` |
| 9 | `Keys` | configuration in memory, rotation of the JWT secret, attestations | `AuditWormProofs` |

The components meet in the modules: `Uploads` has the completion and the removal of the share as
steps of its environment, `Completion` has uploads and removals of files, `Removal` has uploads and
completions, whose certificates may make a directory again, `ShareAccess` has the removal. Each of
them keeps of the other what its own properties tell apart.

Worth doing next: the session of the browser (one renewal at a time per tab, the CSRF token and
its cookie) as the client of `AuthSessions`.

## 3. The modules

Each model has a module of its own, an `MC` module that names the instances for
TLC, a `.cfg` per run, and a `Proofs` module. Variables under the comment
*history* are read by no step of the program; they only let a property speak of
the past. An operator marked *Mutation* is the same definition with a plausible
bug in it: the specification never uses it, and each checked property is broken by
one of them, so that none holds by the shape of the model.

### ShareAccess

One completed share. A request is a slot `r` whose `pc[r]` walks through

    guard -> check -> count -> countView -> deliver                   (stream)
                   -> reserve -> countDownload -> deliver             (download, zip)
                   -> deliver                                         (page, certificates)
    tokenGuard -> tokenRead -> tokenCreate                            (POST token)

one step per stretch of code between awaits: `GuardRead` and `GuardCheck` are
`ShareSecurityGuard` around its read of the share, `CountRead` and `CountView`
are `countStreamView`, `ReserveRead` and `CountDownload` are
`DownloadLimitGuard`, `TokenRead` and `TokenCreate` are `getShareToken` around
`argon.verify`. `snap[r]` is what the guard's read told the request, `limit[r]`
the limit under which it counts. A PATCH is a slot `p` that goes through
`PatchRead` (the owner guard's read), `PatchRow`, `PatchSecurity`,
`PatchRevoke`, with `current[p]` the security the guard had read. `sessions` is the
Map of `StreamViewCounterService`, lost in a `Restart`. `RemoveFiles` and `RemoveRow`
are `remove`.

Abstracted: a password is its number in the order of setting; a token is a row;
a delivery is one step, and fails when the row or the files are gone; time is a
small clock, on which no expiration is the tick after the last. A limit of 0 is null.

### Meter

What a limit promises, whoever counts: `Sell` adds one to the counter under a limit that is or has
been in force, `Use` delivers one that was sold, `Change` adds a limit. `ShareAccess` implements
it twice: with `views`, the streams delivered (`played`) and the limits of views
(`MetersViews`), and with `downloads`, those delivered under a limit (`fetched`)
and the limits of downloads without 0, under which nothing is counted (`MetersDownloads`).

### AuditWorm

The chain `log`, indexed by `sequenceNumber`, and its writers. `ReadHead` and `Insert`
are the two awaits of `append`; `Conflict` is the UNIQUE index; `InsertFails` is the
retry or the loss, `RecordFails` any other error of the database (among them the foreign
key that fails because the user is gone), which `record` logs and swallows;
`AppendMirror` is the line of the NDJSON file, written from the values of the
insert and not from the table. Its failure is swallowed, too, as each is after a start that could not
make the directory; `unmirrored` are the rows without a line. `VerifyStart`, `VerifyBatch` and `VerifyReport`
are `verifyIntegrity`, one step per batch; its result is recorded as an event of
the chain. `VerifyFails` is its fail-closed branch: the alarm is raised and nothing recorded
(`failed`). `DeleteUser` is `ON DELETE SET NULL`; `Edit` and `Remove` are somebody
with access to the database. `Hash` is a constant: the proofs hold for any
function, the runs take an injective one.

### AuthSessions

One account, active and without a second factor. A refresh token and the session
created with it share a number; `refresh` and `session` are the two tables, with their
cascade in `Delete`. A client may present any token it was ever given. Sign-in, change
of password and rotation end in `NewRefresh` and `NewSession` or in the transaction
`Rotate`; `Validate` and `Touch` are `SessionService.validate` around the
conditional write of `lastActivityAt`; `ReauthGuard` and `ClearReauthenticated`
are the guard around its two statements; `RevokeAll` and `SetPassword` are
`updatePassword`, which revokes first and sets afterwards; `AdminPassword` and
`AdminRevokeAll` are `UserService.update`, which does it the other way round;
`RequestRead`, `RequestTx`, `ResetRead` and `ResetTx` are the reset by e-mail; `Cleanup` is the job. The
history variable `family` says from which sign-in a token descends, `origin` with
which password that sign-in was made and when the password was confirmed since.

Abstracted: the durations are constants (no ceiling of its own for
administrators, no change of configuration meanwhile), database errors do not
occur, and deactivation and change of role, which revoke in the same way as
`adminPassword`, are in `Accounts`.

### Uploads

One share and the files a page uploads to it. `client[f]` is the loop of
`uploadFiles` for one file: the chunk it is at, the identifier the server gave it,
and whether it is about to send, waits, is done or has stopped. `handler[r]` is a
`LocalFileService.create` that runs:

    read -> stat -> append                       (any chunk)
                 -> append -> move -> check -> record   (the last one)

`Read` takes the share and its files, `Stat` the size of the temporary file, which
decides the expected index and, with the files read before, the limits; `Append`,
`Move`, `Check` and `Record` are the four awaits that change the disk and the table.
Each ends in an answer, which the client hears if it still waits: `Carried` (the
next chunk), `Corrected` (the index the server expects) or `StartedOver` (any other
error: chunk 0 after five seconds, with the identifier kept). `LoseAnswer` lets the
handler run on alone, so that a file can have two handlers; `Restart` ends all,
`RestartTears` in the middle of an append; `DeleteTemporary` is the nightly job;
`Complete`, `RevertComplete`, `RemoveFiles` and `RemoveRow` are the share's owner on
another page.

Abstracted: the content of a file is its size and whether it is a prefix of the client's
file; an append is one step unless a restart tears it; a UUID is drawn when it
first leaves a trace; the five seconds are no time at all; the page stays open; at
most three files at once (`promiseLimit`) is no restriction with two; the disk does
not fail except by being full. `complete` is here only its check and its lock.

### Trail

What `AuditWorm` promises, without writers, heads or retries: `Chain` adds one entry that
names the hash of the last, `Copy` copies one to the mirror, `Lose` is somebody outside.
`AuditWorm` maps its table to it with `Links`, `Top` and `Copies`; `ImplementsTrail` says
that each of its behaviours is one of `Trail`.

### Completion

One share and its files. `call[c]` is a `ShareService.complete` that runs:

    idle -> check -> list
      -> hash -> sign -> stat -> move -> record -> pdf -> write -> certify   (for a video)
      -> hash -> rehash -> pdf -> write -> certify                           (for another file)
      -> count -> lock -> done

with one step per await of `complete`, `generateCertificates`, `embedCertificateInVideo` and
`generateCertificate` that something else can come between. `Check` refuses by the rows that `Read`
has found, those of certificates among them: a share whose files are gone but not the rows of their
certificates is completed all the same. `OpenPdf` truncates the certificate, `WritePdf` is its last
byte, `PdfFails` leaves what is there of it, and a restart does, too. An exception inside the loop
is caught by `complete`, which goes on with the count. `zip[c]` is the `createZip` that the call
starts without waiting: `list -> open -> write -> announce`, or `failed`. The owner is another page:
`Revert`, and uploads and removals of a file in the two or three steps that change the disk and the
table. `Moved` and `Unlinked` say where the output of an ffmpeg goes that is still writing when its
path is renamed or deleted. `ZipMisses` is a stream error without a listener: the process ends, or
the promise never settles.

Abstracted: a content is how often it has been signed (or that it is torn), a hash and a
size are those of a content; the text, the layout and the order of the certificates are
left out (`certs` is the number of their rows, of which only "none" and "more than one entry" are
asked; their owner does not remove them). `pdf` is the hash of the file as it is delivered, which is what
the certificate and its QR code are for. Mail that fails is only logged, and changes nothing; it
is part of `Lock`.

A restart between the rename of a signed video and the update of its row leaves a row with the
size of the file before; a second completion whose ffmpeg fails on the same file then
certifies it with the row as it is. `severed` are the files this has befallen, until a
signing has told the row. `unprinted` are those whose certificate is torn or of the content before,
because a restart or a failure cut its writing off, until one has been written.

### Removal

The shares that have one identifier, one after the other. `maker[m]` is a
`ShareService.create` (`CheckId`, `MakeDirectory`, `CreateRow`), `remover[k]` one of the four
that delete the directory first and the row afterwards: the owner, the deletion of the
account (whose cascade takes the row), and the jobs for expired and for unfinished shares,
which go by a query made before. `Change` is any update of the row by the owner's
requests, and sets `updatedAt`. `call[c]` is a `ShareService.complete` of a share with one file,
in the steps that touch the row or the directory: it reads the share twice (`ReadShare`, `ListFiles`),
hashes the file (`OpenFile`), makes the directory and writes the certificate (`MakeCertificate`,
`RecordCertificate`), and locks whatever row has the identifier by then (`Lock`). Shares are numbered
for the properties only.

Two history variables name what the code does leave behind: `cut` are the shares of which a restart
cut off a removal, files gone and row there; `stray` says that the directory was made again when a
removal had deleted it and was about to delete the row, or by a completion of a share that was gone, or
for a creation that a restart or the deletion of the account met half way. The next
removal of the identifier deletes the directory, and `stray` is over.

Abstracted: an expiration is null, ahead or past; `stale` is an `updatedAt` more than a
day old, and no request takes a day; one share stands for the batch of a job.

### SecondFactor

One account. A request is a sign-in (`SignIn`, then `LoginToken` or `PasswordSession`), a
redemption of a login token (`Redeem`, `TotpCode` or `RecoveryCode`, `ConsumeLogin`,
`IssueSession`), or a change of the factor by a user who is signed in or enrols with a
login token (`WriteSecret`, `MarkVerified`, `DeleteCodes`, `CreateCodes`, `TurnOff`,
`ClearCodes`), from await to await. Whether the user is an administrator is for others to
change at any time.

Abstracted: the password is known; a secret is its number, a code is one of a secret, and a
generation of recovery codes is one code.

### Accounts

The rows of `User`. `SignUp` and `Register` are `AuthService.signUp` around its hash, `CreateUser`
and `Insert` the administrator's; `UpdateRead`, `CountDemote`, `CountDeactivate`, `UpdateWrite` and
`DeleteRead`, `CountDelete`, `DeleteRow` are `update` and `delete` with the counts of administrators
in between; `VerifyRead`, `VerifyWrite`, `ResendRead`, `ResendWrite` are the activation by e-mail;
`JobQuery` and `JobDelete` are `deleteUnactivatedUsers`; `shaken` notes, for `AdministratorRemains`,
the changes between whose read and write another step took an administrator away or raised their
user; `Restart` is the start of the process with `migrateInitUser`, which may fail, so that the
process is not `up`.

Abstracted: `role` and `isAdmin` agree; addresses do not collide but for that of config.yaml.

### Keys

`table` and `memory` are the `Config` rows and `configVariables`; `cache` is the pair of keys
`JwtSecretService` keeps. `Save`, `ReadTable` and `Publish` are `ConfigService.update` with its
reload, of which the answer may arrive after that of a later one; `Rotate`, `Prepare` and
`Commit` are `rotate` under its mutex, followed by the same reload; `Certify` signs an
attestation with the key in force.

`Without` filters the history as a recursive function, of which something can be proved. The
names of what every module has (`KeysInit`, `KeysNext`, `KeysSpec`) are the module's own, so that one
proof module can extend it beside `AuditWorm`.

Abstracted: a key is its number; all other variables are one; neither `JWT_SECRET` nor
`config.yaml` is set, which only refuse changes.

## 4. The runs

Fairness is assumed in two runs. In `uploads` (`FairSpec`): weak fairness of each file's next
request, for the loop of an open page always goes on, and of each handler's next step,
for Node runs a handler to its end. In `removal` (`FairSpec`): weak fairness of each
step of the two jobs, for `@Cron` starts them again and again, and each goes on to its
end or is cut off by a restart. No event (a fault, a completion, a change by the owner) is
fair. All other properties are about safety, and hold in every behaviour, scheduled well
or not. Symmetry is used over request slots, calls, tokens, users and writers, which the
modules treat alike and no constant tells apart; in the two runs that check liveness none
is used.

| Run | What it shows | Bounds |
|---|---|---|
| `share_streams` | no view over the limit, no two streams on one view, no viewer cut off; the meter of views is implemented | two requests (each of the visitor or the owner), one PATCH at a time, limits 0, 1, 2, two ticks |
| `share_downloads` | no download over the limit, each download reserved | two requests, limits 0, 1, 2, up to three downloads |
| `share_tokens` | which tokens survive a change of password | one visitor, two tokens, two passwords, two ticks |
| `audit_chain` | one chain, alarms only over an altered chain or a failed verification, a mirror without other gaps than failed appends; the trail is implemented | three writers, three rows, batches of two, one deletion of a user, one edit or removal |
| `auth_window` | marks and activity record what happened | two requests, two tokens, three ticks |
| `auth_password` | one token per sign-in, old passwords, reset links | two requests, three tokens, two reset tokens, two changes of password |
| `uploads` | recorded files are whole, the limit, what the page shows, and that uploads end | a file of two chunks and one of one chunk, two handlers, two events, six identifiers (enough for every draw) |
| `completion` | what is announced is whole and holds the files, certificates match the files, no zip is forgotten | a video and another file, two calls with their zips, two events of the owner, two faults |
| `removal` | no row without its files, no directory without a row but by the named races, and what is due is removed in the end | two makers, one completion, two shares, three changes, one restart |
| `second_factor` | login tokens and recovery codes work once, the factor is proven, codes match it | two requests, two login tokens, two secrets, two generations of codes, one restart |
| `accounts` | the last administrator goes only to requests that overlap, sign-ups make one, the job spares users | two accounts, two requests, any restarts |
| `keys` | keys that signed are retained, memory agrees with the table | three requests, five keys, a history of two, two updates, one restart |

Why the bounds are enough: the hazards are races between *two* requests, or a
request and a PATCH, a job or a restart, each with at most two reads before its
write; two slots that start again without end give every overlap of two such
requests in every order, and three are needed only where the property is
about losing twice, or, in `keys`, about a rotation that waits beside an update. In `uploads`, two
events are enough to lose an answer and have something else happen
to its file, and a chunk of two units is the least that can be torn; the limit of
six lets both files in, and the first of them twice, but not all that two
handlers may record. Limits of 0, 1 and 2 are no limit, a limit that two requests
compete for, and one that a PATCH raises it to. In `completion`, two calls are what a retry or a
reversal between them gives, and of the two files one is signed and one is not; two faults let a
restart cut off a signing, or the writing of a certificate, and the next signing of the same file
fail. In `removal` a second share is what a
job may meet under the identifier of the first. In `keys` five keys push the first out of a history of two. What
depends on the number of actors is proved for any number of them (section 5). Each bound is commented
`\* bound` where it restricts a guard, and none restricts a step under way except the drawing of a secret, a
code, a key or a number of a share: there the request waits, which safety does not see.

Deadlock is checked in the runs of `ShareAccess`, `AuditWorm`, `AuthSessions`, `Uploads` and `Accounts`
(where a process that does not start may be started again). In
those of the other four modules the system does come to rest when nobody asks for anything more:
all calls are done, or the identifier is not taken again.

## 5. The proofs

All proofs are of safety, by an inductive invariant, for any number of requests, writers, calls,
files, accounts, tokens, rows and any bound, from the named assumptions on the constants only (and,
in one theorem, the hypothesis it states). They are written so that each action has a step of its
own.

**ShareAccessProofs**
- `TypeCorrect`: `TypeOK` is inductive as it stands.
- `ViewsStayWithin`, `DownloadsStayWithin`: `ViewsWithinLimits` and `DownloadsWithinLimits`. They
  are not inductive: a request increments under a limit it read earlier. `LimitInv` adds that
  the limit a request holds while it is about to count is one that has been
  in force (a member of the history of limits), so that the increment stays
  below that limit, whatever limit is in force by then.
- `NoFreeStreams`, `NoFreeDownloads`: `StreamsArePaid` and `DownloadsArePaid`, which compare a
  counter with the number of streams and of downloads. `PaidInv` adds which steps belong to which kind of request
  (`StepKinds`) and that the sets counted are finite; each step changes counter and set by the
  same, for which a lemma says how the size of a set changes with one element.
- `NoForgottenTokens`: `StaleTokensOnlyFromRaces`, inductive with the types.
- `PlaybackGoesOn`: `PlaybackNotCutOff`. `PlayInv` adds that the session of a token is as young as the
  last stream that was delivered with it, or than the one about to be (`PlayingOn`,
  `SessionsCover`), unless the gap has gone by since: this is what the sweep of the Map must not break.

- `ViewsMetered`, `DownloadsMetered`: the share implements `Meter` with its views and with its
  downloads. Each action that moves a counter, a delivery or a limit is a step of the
  meter and every other is none. A count is a sale because the limit read before has been in force
  (`LimitInv`); a delivery is of something sold because a request about to deliver was counted and
  is not yet among those delivered (`PaidInv`, `PaidBefore`). The second is
  proved and in no run: with both, the run of the streams would be too long.

**AuditWormProofs**
- `TypeCorrect`, `ChainNeverForks`, `RetryBeatsOneRival`, `NoFalseAlarm`: the four
  follow from one invariant, `Inv`. The chain needs that a writer's `prev` is the hash of
  the row it read as the head, for as long as an insert after it can succeed. A loss
  needs that the head read on the second attempt lies beyond the one that
  caused the first conflict. The alarm needs that what the verification carries
  from batch to batch (`expected`) is the hash of the row under its cursor.
- `MirrorOutlives`: the line a writer is about to mirror is the row it inserted.
- `ValidVouches`: `ValidMeansIntact`. Each row hashes to what was inserted, and what it says
  now is the same but for what was nulled or edited (`Scarred`); the damage there was when the walk
  began is still there, and none of it lies in what the walk has passed (`Vouched`). It needs
  a hypothesis of its own, `CollisionFree`: under one previous hash no two payloads of a row have
  the same hash. SHA-256 is taken to be so, and the injective hash of the run is. The other
  theorems of the module hold for every function.
- `AppendOnly`: every step of `AuditWorm` is a step of `Trail` or a stutter, under `Inv`: an insert
  chains to the top because its `prev` is that of the head it read, and the head is
  still the last row if the number is free.

- `KeysWellTyped`, `KeysStay`, `MemoryAgrees`: of `Keys`, from one invariant (`KeysInv`). Its first part holds
  always: in every list the program holds, in the table, in memory or as the answer of a query, the key that
  signs was drawn after those of the history (`Held`), so that the filter of the history takes nothing
  away (`WithoutNone`) and a rotation pushes each key back by one place; and while a rotation is
  about to write, the other rotations wait (`Ready`). The second holds until a write meets
  an older list: a request that has read the table holds what the table says, memory is the table
  or some reload is on its way, and the history a rotation is about to write was drawn from the table.
  A key that signed is then accepted, or as many keys were drawn after it as push it out
  (`Retained`, with `Positions`), which is what `KeysRetained` says of rotations.

**AuthSessionsProofs**
- `TypeCorrect`: `TypeOK`. That the numbers of tokens, passwords and reset tokens stay within their bounds
  needs a count: what has been created and the requests under way that will still create
  fit together (`Booked`, `Room`), because a request is let in only while there is room beside the others, and
  the step that creates takes the place of its own request (`Takes`).
- `SignInsDoNotSplit` and `MarksComeFromPasswords`: from `FamilyInv`, which adds to the
  two properties that numbers are given out in order (`Numbered`) and that the
  mark a rotation has read is still a confirmed mark of its family as long as its token is live
  (`ReadMarkConfirmed`): it is what makes the carried mark safe across a clear or
  a new confirmation in between.
- `ResetLinksWorkOnce`: a token that has set a password is not in the table any more,
  and numbers are never used again (`ResetInv`).
- `ActivityKeepsUp`: `ActivityOnRecord`. Either the record is within the interval of the last use,
  or some request is about to write and will find the activity as it read it: of several that
  read the same, the first write succeeds, and what it writes is the present (`ActivityInv`).
- `OldPasswordsEnd`: `OldPasswordOnlyFromRaces`. The two orders of a change make two clauses: while
  a password is about to be set every live token is of a sign-in after the revocation, and
  unless an administrator's revocation is due every live token is of the password in
  force or of such a sign-in (`PasswordInv`).

**UploadsProofs**
- `TypeCorrect`: `TypeOK` with `Named` (a handler past `Stat` has an identifier).
- `UploadedIsRecorded`: `DoneIsRecorded`. It needs `Owned`: the identifiers that
  clients and handlers hold belong to their file, so that a draw gives one nobody holds
  and the row a handler records is that of the client it answers.
- `RecordsAreWhole`: `RecordedWhole`. First the arithmetic of chunks: for every size and every
  chunk size the rounded-up quotient is the index of the next chunk after whole ones
  (`ExpectedAfter`), and the chunks add up to the file (`ChunkAdds`). `LoopInv` says of
  handlers and loops who waits for whom, and that only the handler of a last chunk goes on after its append.
  `Contents` says of an identifier that is not muddled that its temporary file is
  a prefix of whole chunks or the file, that a handler appends where its chunk begins, and that
  one that is about to record has the size of the file.
- `GivesUpOnlyUnheard`, `RecordedTwiceOnlyUnheard`: `StoppedOnlyUnheard` and `TwiceOnlyUnheard`, from
  `HeardInv`: of a file whose answers were all heard there is one handler, its temporary file has
  the chunks before the one the loop is at, and a muddled identifier is of a file
  of which an answer was lost. So the server never asks such a loop for a chunk that is not there.
- `LimitPassedOnlyByRaces`: `LimitOnlyRaced`. A handler that has passed the check of the limits has room
  for its file up to the end of its chunk beside the files it read (`Admitted`), and the last
  chunk ends with the file; a record without a race adds the file to just what was read. The sum
  is a recursive function, of which the proof needs how it changes with one row (`SumsDiffer`).

**CompletionProofs**
- `TypeCorrect`: `TypeOK`, with the fact that exactly the steps on one file have a file.
- `AnnouncedIsWhole`: `ReadyMeansWhole`. It needs to know who writes the archive
  (`Writing`: the zips that are past their open), that a call has not started a zip before it has
  counted (`ZipAfter`), and that, as long as nothing has crossed, at most one call with its
  zip is busy and the archive of an announced zip has no other writer (`InOrder`).
- `ForgetsNoZip`, `ArchiveHoldsAll`, `CertificatesAreTrue`: `AnnouncedOrLost`, `ReadyHoldsAll` and
  `CertificatesMatch`, together as `WholeInv`. `Told`: from the count of more than one entry on, the zip is
  announced or still being built, unless one was lost. `Held`: a zip lists every file recorded before it
  was opened, and from its opening until a reversal the archive holds the files as they are; for this a call
  that still changes files must have no zip beside it, which `InOrder` gives. `Certified`: by the step a call is
  at, what disk, `original` and `final` say of its file (`Stage`), and of every other file
  that row and disk agree, and certificate and disk (`Match`). The proof is why `CertificatesMatch` excepts what it excepts:
  an earlier form of it held in the run only because one fault was allowed there.

**RemovalProofs**
- `TypeCorrect`; `FilesOutliveRows` and `OrphansExplained`, which are inductive together with
  one more fact: while a removal is about to delete the row, the directory is gone, unless one was
  made again (`DirectoryGone`).

**SecondFactorProofs**
- `TypeCorrect`; `OneSessionEach`: who has consumed a recovery code is alone with it, and it has
  opened no session yet (`CodesOnce`); the same of login tokens that are not shared (`LoginsOnce`).
- `FactorIsProven` and `OneGeneration`: as long as changes of the factor do not overlap, the one that runs
  knows the secret and the codes by its step (`FactorKnown`, `CodesKnown`).

**AccountsProofs**
- `TypeCorrect`; `AnAdministratorRemains`: a change that its count has let through leaves an
  administrator, and a deactivation an active one, beside its user, as long as nothing shakes it
  (`LetThrough`, `Unshaken`): who counted others, and was not alone, has another.
- `FoundedOnce`: an identifier is drawn once (`DrawnOnce`), and a sign-up that takes itself for the first
  is when no founder has a row (`MeetingsNoted`).
- `SweepsSpareUsers`: what the job holds is no account in use (`LivesTold`).

Recursion over a table is proved with a least counterexample: if the sums of two tables did not differ as they
should, there would be a first place where they do not (`LeastOf`, from the well-foundedness of the
naturals), and the step before it refutes that. That the recursive function exists at all
is shown the same way (`PartAdds`).

**Only model-checked**:
- `UploadsEnd` and `LapsedIsRemoved`: liveness under fairness is outside what the prover can do. Every
  other property of the runs is a theorem.

## 6. Where documents and code differ

The models follow the code. These sentences of comments and documents it does not meet; where a
property excepts such a case by name, the property is given.

- `share.service.ts:607`: "troca de senha invalida todos os share tokens emitidos com a senha
  anterior". `getShareToken` (661-726) creates the token after a password check on a share
  read before, so that one may be created after the revocation (`StaleTokensOnlyFromRaces`).
- `audit-worm.service.ts:22`: the verification "reconstrói exatamente o mesmo payload", and `:274` logs a
  broken chain as possible tampering. The payload includes `userId`, which deleting a
  user nulls (ON DELETE SET NULL), so the program itself raises the alarm
  (`AlarmIsTrue` counts it among the alterations; it also excepts the alarm of a verification that
  failed, which is what the code means to do).
- `refresh.service.ts:22` and `README.md:95`: a refresh token presented again revokes the whole family. The
  rotation deletes the row of the token, so that a later presentation finds nothing and gets
  a plain 401; only two rotations that overlap are detected (`OneTokenPerSignIn`).
- `reauth.guard.ts:22`: one confirmation, one critical operation. The mark is read (47-56) and
  cleared in a later await (57-59): two requests at once both pass.
- `README.md:62`: "Upload chunked multipart com progresso e retomada". When the answer to the last
  chunk is lost, the client starts over with the same identifier, of which the row exists: it
  uploads for ever a file that is recorded (`TwiceOnlyUnheard`, `UploadsEnd`). `Uploads` also
  shows how a file is lost without a word: two handlers append the same chunk after a lost
  answer, a restart tears an append and the rounded-up index skips the rest of it, or the
  server expects a chunk beyond the last one.
- `docs/auditoria/CHANGELOG.md:36`: deactivation never deletes data. `deleteUnactivatedUsers`
  (`jobs.service.ts:226-266`) deletes every account that is not activated and older than a day, so also one that an
  administrator has deactivated, with its shares, within the hour (`SweepsNeverActive`,
  `stopped`). And `resendVerification` (`verification.service.ts:62`) sends an activation link to such an
  account.
- Demotion and deletion count inactive administrators (`user.service.ts:112`, `:230`), so that the
  last active one may go: `AdministratorRemains` promises an active one only of deactivations. With two administrators and `initUser`
  in config.yaml the process does not start (`config.service.ts:161-169`); a deleted
  `initUser` comes back.
- `README.md:508`: one certificate per video. Each edit of a share (reversal, then completion) signs the
  video again, adds another row for its certificate, and prints as the hash of the original
  (`schema.prisma:188`) that of the video signed before (`Completion`, `certs`, `Signed`).
- `access-review.service.ts:170`: an attestation is verifiable offline. `verifyAttestation` (180-203, which no endpoint calls)
  takes only the key in force; after a rotation the intact signature does not verify, although
  the key is in the history (`KeysRetained`).

## 7. What is not modelled

About a sixth of the implementation's lines are behind a definition. The rest is
mostly what a state machine has nothing to say about:

- The client's pages, forms and tables, their translations and styles (about half of
  all lines): presentation, apart from the upload loop and the edit of a share.
- The layout of certificates and e-mails, DTOs, the seed's table of variables, the validation of
  single variables, queries for lists and statistics, metrics, the download log (written and never read back by a
  step), the cooldown of notifications.
- The throttler, the reverse proxy, the containers, the scripts: configuration of other programs.
- The renewal and CSRF handling of the browser (`api.service.ts`): its requests appear in
  `AuthSessions` as those of any client, its own bookkeeping is left for later.
- SQLite, the disk, ffmpeg and `argon` are modelled by what the code relies on: statements and
  transactions are atomic, unique indexes and foreign keys hold, a rename is atomic,
  a copy with the same metadata is the same file, hashes of two settings of a password differ.
