# A TLA+ model of MnemoNAS

MnemoNAS is a self-hosted NAS: a Go control plane (`nasd`), a Rust dataplane that
keeps a content-addressed store (CAS), a web UI and a mobile client. This project
models the parts of it that can lose data or answer untruly: the write path with its
journal and recovery, resumable uploads, the trash, backups, the object store, and the
locks, quotas, sessions and tickets around them. It is checked with TLC on small
instances and, for the properties listed under *Theorems*, proved with TLAPS for every
instance.

## Inventory

| Component | State | Operations | Hard behaviour | What makes it correct |
|---|---|---|---|---|
| Write transactions (`storage/write_transaction_*.go`, `storage.go`) | canonical files, `write-staging`, journal directory, SQLite rows, CAS objects, `fs.mu`, write gate | stage a body, take the mutation lease, three checkpoints, exchange, CAS put, SQLite commit, rollback, roll-forward, startup recovery, staging cleanup | two requests on one path; kill or power loss between any two steps; fsync order; calls that fail after they took effect; recovery interrupted by a crash | a write happens entirely or not at all, on the file it captured; answers tell the truth; no version row without its object; recovery always ends |
| Staging budget (`write_staging_budget.go`) | `used`, `pending`, one reservation per body | reserve, consume, trim, release, reset, start-up scan | bodies growing concurrently; failed removals; restarts; unsigned counters | counters exact, staged bytes covered, free-space floor kept |
| Quota reservations (`api`, `webdav`) | one gate, reservations per scope | reserve, refresh, grow, release around uploads, copies, moves, restores | usage scanned outside the gate; nested scopes; two front doors | no scope grows over its limit |
| Atomic rename probe | probe directories and a journal record | run the probe programs, recover an interrupted probe | killed anywhere, a foreign file in the way | recovery always finds its way, nothing foreign is removed |
| Mutation lease and locks (`storage.go`), retention monitor, daemon | `closeMu`, `writeStagingMu`, `gcMu`, `fs.mu`, `budget.mu`, quota gate, root flocks | every call that takes them, sweeps, settings, shutdown | lock order, polling locks with deadlines, Close | no deadlock; nothing used after Close |
| Trash transfer and purge (`trash_*.go`) | SQLite operation rows, owned containers, participants | delete, restore, purge, participant delivery, startup recovery | several stores updated one by one, redelivery, crash between them | a tree is always somewhere; participants applied exactly once in effect |
| Staged delete (`staged_delete*.go`) | hidden stage, Merkle token | permanent deletion against changes from outside | no conditional unlink exists | only the object that was shown goes; the answer is true |
| Upload sessions (`uploadsession`) | state chain and payload per session, staged-byte total | create, append, commit phases, cancel, expire, recover | state write fails after payload sync; expiry racing an append; publication cut off | every crash loads; answered chunks stay; one publication; bytes accounted |
| Backup (`backup`) | job records, snapshots, restore targets, credential file | run, retention, verify, restore, scheduler, reminders, restart | failing saves, kills, damaged snapshots, clock setbacks, rotated credentials | something restorable is kept; a verdict says what is there |
| WebDAV (`webdav`) | path locks, DAV locks, listing cache, namespace | PUT, MKCOL, DELETE, COPY, MOVE, LOCK, UNLOCK, PROPFIND | lock acquisition over several paths; stale listings | exclusive paths; tokens follow; listings fresh |
| Authentication (`auth`), administrator recovery | sessions and accounts, in memory and on disk, password file | login, refresh, logout, revoke, account changes, recovery tool | saves that fail with a warning; clock setback; restart | a revoked session stays so; an administrator always has a way in |
| Shares (`share`, `api`) | shares, tickets, failed guesses | create, update, hooks, ticket, counted access, password check | owner's change between check and use | a ticket serves only what it was issued for; limits hold |
| Dataplane CAS (`dataplane/src/cas.rs`) | object files, index, counters, hash locks | put, get, delete, list, verify, put_file, rebuild | cut-off calls, power loss, two forms of one object | durable when it answers; counters exact |
| Version rows, retention, garbage collection | SQLite tables, CAS listing | as steps of writes, deletions and purges | concurrent writes that have stored an object and not its row | never delete a referenced object |
| API server, configuration, TLS, logs, alerts, metrics, thumbnails, SMB, clients | - | - | - | handlers appear as actions of the components above; the rest is not modelled |

How they interact: an HTTP, WebDAV or upload-session request passes the quota gate and
calls `FileSystem.WriteFile`, which stages the body in `.mnemonas/write-staging` under
the shared staging lock, takes `gcMu` shared and `fs.mu` exclusively, runs the journaled
transaction against the file tree, the CAS (gRPC) and SQLite, and answers. Deletions move
trees into the trash and tell shares and favorites, the participants, about it.
`storage.New` runs all recoveries before anything else can touch the roots. GC takes
`gcMu` exclusively, staging cleanup takes `writeStagingMu` exclusively.

## Modules

| Module | Role |
|---|---|
| `AtomicWrite` | what the write path promises: compare-and-swap of a file on the one captured, in one step, never undone |
| `WriteTxn`, `WriteTxnRefinement` | the write path, and the mapping under which it implements `AtomicWrite` |
| `StagingBudget`, `QuotaReservations`, `RenameProbe` | what stands before a write |
| `StorageLocks` | everybody who takes a lock of the filesystem, and shutdown |
| `UploadSession` | resumable uploads |
| `TrashTransfer`, `TrashParticipant` | deletion, restore and purge with shares and favorites as participants |
| `StagedDelete`, `DeleteTree` | permanent deletion, and the token of a walked tree |
| `Backup`, `SnapshotTree`, `RemoteCredentials` | jobs and scheduler; the trees of a snapshot; the credential file of a remote job |
| `Restores` | what a restore promises, over `Backup` and `SnapshotTree` together |
| `WebDAVLocks` | the WebDAV handler |
| `AuthSessions`, `AdminRecovery`, `ShareTickets` | the services around the storage |
| `CasStore`, `ChunkStream` | the dataplane |
| `SumOver` | sums of a quantity over a finite set, for the counters of budget and uploads |
| `MCWriteTxn`, `MCWriteLocks`, `MCAdmission`, `MCUploadSession`, `MCDeletion`, `MCTrashTransfer`, `MCBackup`, `MCServices` | TLC instances |
| `WriteTxnProofs` | theorems about `WriteTxn` and its refinement |
| `UploadSessionProofs` | theorems about `UploadSession` |
| `BackupProofs` | theorems about `Backup`, `RemoteCredentials`, `SnapshotTree` and `Restores` |
| `SumProofs`, `AdmissionProofs` | lemmas about `SumOver`, theorems about `StagingBudget` and `WebDAVLocks` |
| `TrashProofs` | theorems about `TrashTransfer` |
| `AccessProofs` | theorems about `ShareTickets` and `AuthSessions` |
| `CasProofs` | theorems about `CasStore` |

An MC module that holds several components has a variable `focus`: one component, or one
concern of it, moves and the others rest in one state. The components of such a run do not
share state; they share a run.

Definitions whose comment begins with "Variant" are deliberate mistakes (a dropped
guard, a swapped order); no specification uses them. Each shows that some property
notices the mistake.

### WriteTxn

State and code:

- `files`, `staging`, `journal` are the directories as processes see them;
  `filesDur`, `stagingDur`, `journalDur` what a power loss is sure to leave. A file is
  the request that staged it (its inode identity) and its content (its BLAKE3 hash).
- `index`, `versions`, `cas` are SQLite and the CAS. SQLite runs with
  `synchronous=FULL` and `cas.rs` syncs file and directory, so both are durable when
  they answer.
- `lock` is `fs.mu` as held by a mutation, `blocked` is `writeMutationBlocked`, `marker`
  a recovery marker file, `dir` the recovery decision in force, `plan` the immutable
  plan in the checkpoints, `req` the request with its captured target (`snap`).
- `decided` is a history variable: whose committed checkpoint became durable.

Actions follow the code in order. `Begin`, `StageBody`, `SealStage` run without the
lock (`writeFileTransaction`, `stageWriteReader`). `BeginMutation` takes it.
`Prepare` revalidates the snapshot. `PublishPrepared`, `PublishPublished`,
`PublishCommitted` each have two steps, the rename of the record and the sync of the
directory. `PublishVisible` exchanges stage and target, `SyncVisibleFirst/Second` sync
the two parents in the order that depends on create or overwrite. `PutCAS` and
`CommitMetadata` follow. `StepFails` is any error or cancellation; a call that took
effect and still failed is its step followed by `StepFails`. `Finish` reads the
journal again and starts recovery in the direction `Decision` gives. A request that fails
before its first checkpoint discards its stage (`Abort`). Where that fails depends on who
discards: the deferred discard of `writeFileTransaction` leaves a marker and closes the gate
(`AbortBlocked`); a discard that fails inside the locked runtime marks the stage retained, the
deferred one then returns nothing, and the stage stays with the gate open (`AbortRetained`,
`storage.go:2092`, `write_transaction_runtime.go:745-757, 839-862`).
`docs/storage-internals.en.md:93` has "Cleanup failure retains the reservation and activates
the write-recovery gate" for both. Recovery
(`Inspect` to `SyncRemoval`) is shared by the request and by startup. `RetainRows` and
`RetainObjects` are the version retention of a committed write. `CollectGarbage`,
`CleanupStaging`, `Kill`, `PowerLoss`, `Restart`, `StartupDone` are the rest.

Abstractions:

- The modification time of an index row is dropped; with equal content before and
  after, the rows are in both states at once, and `MetaBefore` and `MetaAfter` both hold.
- A power loss keeps or drops the unsynced entries of each directory independently,
  except that a rename none of whose parents was synced is kept or dropped whole.
  `CarriedRename` says whether one directory's fsync also persists the other half of a
  rename, as journaling filesystems do; both values are checked.
- An fsync that fails and later succeeds without persisting is not modelled.
- A request whose write condition does not hold leaves no state and is left out; each
  element of `Writers` is one request.
- A plan's created directories are left out: the runtime never creates any.
- The roll-forward physical move is never needed in any reachable state and is kept
  because the code has it.
- Retention picks any set of old rows, in place of count and age limits.

### StagingBudget

`used`, `pending` are the budget's counters modulo `Word`, `reserved`, `unspent` those of
each reservation, `stage`, `orphans`, `free` the bytes on disk. Everything done under
`budget.mu` is one action; the file write between `reserve` and `consume` is another,
so bodies interleave as in the code. `Publish` exchanges a sealed body with the old target, whose
bytes (`captured`) are then in write-staging without a reservation, as
`docs/storage-internals.en.md:91` says; `Settle` ends the write either way, `Halt` leaves it to
recovery, `Retain` is a failed discard, with or without a closed gate. `StageCovered` is therefore
about newly allocated bytes and those found at startup, and about captured targets it says that there is at
most one: the mutation lock admits one publication, and a halted one closes the gate. `MinFree` is
constant. `Restart` recovers the journaled writes, forward or back, before it scans. Marker files'
bytes are not counted.

### StorageLocks

Each caller is a short program of lock, unlock and use steps; an RWMutex prefers a
waiting writer, the polled locks give up with their context. Releases, and the look at
`closed`, are merged with the step before them. A successor process that fails to get the
root flocks is a stutter. Two requests, and two goroutines of the retention loop.
`CleanupStaging` runs only at startup before serving (`main.go:1309`) and is modelled
there: if it ran while serving, an upload waiting for the quota gate and a restore waiting
behind the pending staging writer could wait on each other until a client leaves. A
version restore takes the quota gate before `closeMu` while an upload takes it inside; the
cycle with `Close` is broken because `server.Close` cancels the request contexts before
`fs.Close`. A late settings request may restart the sweep loop after `Stop`; its sweeps then
find the filesystem closed. Callbacks under the read lock of `mu` do not re-enter the
filesystem.

### UploadSession

A session directory is a set of numbered state files and a payload, with what a power loss
is sure to leave beside what processes see. One account, one session per session key; a
chunk is one byte of content; the pending file of a state is merged with its rename; the
capacity check may fail at any time. `MaxRev` bounds the state numbers, with `Room` in the
guards. History variables: `acked`, the chunks answered with success; `unread`, a
session whose offset was written while the reload after a failed write failed as well.

What the properties say with care, because of what the code does:

- a replayed chunk whose first attempt failed at the fsync answers success from the visible
  state without another sync, so `AckedKept` forgets what was acknowledged after a failed
  fsync followed by a power loss;
- recovery at startup syncs the root, and a session directory only when it changed something in
  it (`store.go:1454, 1485, 1602, 2128`), and so does `Restart`. A process killed between the rename of
  a state and the sync of its directory leaves a state that is visible and not durable; a chunk
  repeated after the restart is answered from it, and a power loss then takes the answered chunk
  away. `ReplayChunk` excludes just that answer, by a guard on the durable image that the code does not have;
- `CleanupExpired` that removes the directory and fails to sync the root keeps the bytes
  counted until restart;
- a failed create, an unsynced removal and a power loss may leave two directories of one
  `client_request_id`;
- a session whose publication was recorded but never happened is reconciled to "committed"
  when another upload put the same bytes at the target: the code compares size and BLAKE3
  hash (`upload_sessions.go:1001`). `OutcomeHonest` says what holds: success only of bytes
  that were at the target, and no session that ended without success, or may still be
  retried, is what the target holds.

Bounds (`FewDisturbances`): one session with at most two faults, crashes or outside changes,
or two racing sessions of up to six states with at most one fault or crash, none of which
expires.

### TrashTransfer, TrashParticipant

Every step of a deletion, restore and purge with its checkpoints, SQLite operation rows,
participant receipts, rollback and startup recovery. `risky`, `owed` and `offBy`/`offByDur`
are history variables: whether a deletion was committed on an unsynced capture, the trees
users still count on, and the deletion that disabled a share. `carried` is what a process found
visible and not durable when it started, `stale` whether a power loss took any of that back.

A step syncs the directory it changed an entry of and no other (`Durable`). Recovery does not sync what it
finds in place: `ScanPurges` syncs `.deleting`, and only if it holds a record; that this decides the
moves into and out of `.deleting` assumes that a rename on the medium in one of its directories is
in the other. The ownership marker is written in place, so `CreateBox` may leave a container with a marker
cut short (`Cut`), which startup refuses and `docs/api-reference.en.md:870` leaves to manual
reconciliation; `Recoverable` exempts it. Every operation of the code has stage names of its own; the model has
one, and starts the next operation only when nothing is left under it (`StageFree`).

`Settled` and `Recoverable` do not hold after `stale`, and the code is the reason. Two histories show it:

- the rollback of a deletion renames the source back and the sync fails
  (`restorePreparedDeleteTransferSource`, `trash_transfer_recovery.go:1373-1412`); the process is killed;
  recovery finds the original in place, does not sync it (1397-1403), and removes the replica and
  the journal; a power loss then leaves the tree under its private stage name with no journal, where
  `docs/storage-internals.en.md:201` has one;
- the `completed` checkpoint is renamed into place and the process killed before the sync; recovery takes the
  checkpoint as it finds it and acknowledges the outbox row; a power loss takes the checkpoint
  back, and startup refuses a committed journal without a row
  (`trash_transfer_startup_recovery.go:567-615`).

Bounds (`FewDisturbances`): two items, two paths, two trees, one share, four jobs of which the fourth comes
only while nothing has failed; at most two disturbances, of which two may be crashes, and three around a
single operation without edits. Not modelled: directories a restore creates above its destination, changes from
outside.

### StagedDelete, DeleteTree

A thing is an inode; its stamp is the ctime, moved by every rename and edit. The checks
before and after hashing are merged. The quarantine directory is owner-only. The system has
no conditional unlink, so an edit through an open handle after the last look is exempt
("late"). One request; a folder is only deleted when empty. A failed deletion of version
rows is assumed to have no effect; a failed sync on rollback leaves the index row missing,
which is reported. A killed process leaves the hidden stage and the code has no recovery for
it. In `DeleteTree` SHA-256 is injective; two levels, two names, one change.

### Backup, SnapshotTree, RemoteCredentials

One operation at a time per job, as in the code. `.partial` directories are ignored, a
preview is atomic, a target lock held by another manager is a failure. A removal that fails
or is cut off part-way (`Tear`) makes listings fail until it is cleaned up by hand; restored files are not fsynced;
`NewManager` refuses to start, or only warns, when its recovery save fails. A stale list of
due jobs may run one right after a manual run. A clock set back can make an old verification
count as evidence, which no property excludes. `AddJob` is left out. Bounds (`FewMishaps`): at
most two mishaps, and then at most one operation. The clock reaches 2 and the interval is 2, so
the run sees one scheduled run that is due and every one that would come too early; a second one in its
time is left to the theorem about `ScheduledApart`, which has no bound.

A clock set back by an interval or more also breaks the distance between scheduled runs: a job
listed as due before the setback, whose target lock then fails, is scheduled again from the
earlier time, so it is due before an interval has passed since the work it did last. The run's
bounds do not reach this; the theorem about `ScheduledApart` assumes a clock that does not go
back.

`SnapshotTree`: the source is quiet while it is copied, staging is private, special permission
bits are left out, one change of the snapshot. Below `.mnemonas-restore` subdirectories are not
compared; an unknown restore record beside a data directory of that name with another mode
gives a false warning. `RemoteCredentials`: a binding is abstracted to the credential it
names.

### WebDAVLocks

Path locks with their reference counts, DAV locks with tokens, and the listing cache, for one
generation of the handler. `ListingsFresh` exempts what the code leaves to the 30 s lifetime of a
listing: API uploads do not invalidate listings; a failed COPY whose rollback fails leaves a
stale one; and so does a PUT, or the COPY of a file, that was published and answered with an error
because the storage could not take it back (`WrittenButFailed`: `write_transaction_runtime.go:766-777`, after which
`handler.go:1331-1336` and `1631-1640` return without the invalidation). LOCK's look at the file and
its grant are separate steps; a lock granted on a file that went meanwhile is exempt
(`late`). Exclusivity between DAV locks is not claimed. `handleMove` takes a warning after a
visible mutation for a failure; the rollback of COPY permanently deletes whatever is at the
destination. PROPPATCH, lock refresh, quotas, access rules and preconditions are left out.

### QuotaReservations, RenameProbe

The gate and the reservations of every request of both front doors. One race is real and
exempt (`slipped`): a WebDAV COPY over a file that the ungated API DELETE removes between the two
scans of its refresh is measured too small. Other accounts that add to a home are not held to
its quota (`foreign`), except by a version restore. Rules are constant during a request; claims on
one scope collapse to one. No deletion while two requests are under way (run bound).

`RenameProbe`: directory changes are durable in order; unsynced file data is a prefix after a
power loss; a record's name stands for a validated record; one foreign file, put durably into
the files slot.

### AuthSessions, AdminRecovery, ShareTickets

The one second of clock leeway is below the time unit. Validation merges the parse and the
registry check. A replayed revocation after a save that only warned answers success without a
sync (`undone`); disabling an account, failing to revoke and enabling it again leaves old sessions
valid. Login rate limits, expiry updates and the periodic `CleanupExpiredSessions` are left out (the cleanup
that each call makes is not). Both limits on the number of sessions are there; with the run's one account they
are the same.

`AdminRecovery`: `AdminReachable` has one exemption that takes three accounts to reach, and so lies
outside the run's two. `RequireAuth` looks at an account once; a request of an administrator who has been
deleted or demoted meanwhile still goes on. When such a request resets the password of an
administrator whose recovered password is only in the password file, a kill between the removal of that
file and the save leaves a password nobody knows, and the tool has to be run again. `Mutate` marks
the removal by a deposed administrator (`trust` = "gone"). Names in a directory become durable independently. `createDefaultAdmin` and
`ChangePassword` treat a failed sync of the password file as a warning, `Delete` and the recovery
tool abort; `trust` says whether a change was left behind unconfirmed, and whether a power loss
followed.

`ShareTickets`: the signing key is derived from the server secret, so tickets survive a restart. A
power loss that undoes an unsynced change forgets the tickets issued on it. Archive entries are
opened after the recheck, and only the listing is covered. `RestoreDisabled` overrides an explicit
disable, so no property says otherwise.

### CasStore, ChunkStream

Every object is one byte; unlink and rename are synchronous, so a cut-off call stops only at an
await. An object has up to two files, compressed and plain, and each may be damaged (`casRot`, `casDurRot`).
`PromisesKept` has three exemptions, all of them what the code does. No code syncs the directories above a
shard, so a power loss may take an answered object with a new shard directory. A process killed between rename and
directory sync leaves a visible object that later puts deduplicate against, by existence only
(`casLoose`). A compressed file that is unreadable at start is not indexed (`casUnread`); with compression off a
put of its hash then writes the plain file and answers success, while `get` opens the compressed one first and
fails (`cas.rs:565-570`), so that put promises nothing (`Rotten`). Both forms of one hash may
exist and count twice (`casTwins`). The rollback of
`put_file` can delete a chunk shared with another file; the Go side uses only `PutChunk`. One page of
the index iteration is atomic; a scrub takes the index in any order, as its map yields it; an empty
file is refused, so a layout has chunks; temporary files left by a crash are never removed. FastCDC is
external: content is the function `cutAfter` that says where a boundary would be found.

## Runs

| Run | Instance | Checks |
|---|---|---|
| `write_carried` | 2 requests, 1 path, 2 contents, 2 gate slots, 1 fault, 1 crash, carried renames; 680 000 states | `TypeOK`, `VersionsBacked`, `OnePending`, `SettledState`, `AnswersHonest`, `GateHolds`, `ImplementsAtomicWrite` |
| `write_strict` | 1 request, 2 contents, 2 faults, 3 crashes, renames not carried; and all takers of the storage locks; 630 000 states | `OldContentSafe`, `NewContentSafe`, `JournalClassifies`; `NeverKnotted`, `StorageOrderly` |
| `write_live` | 2 requests, 1 content, 1 fault, 1 crash; 92 000 states | `RequestsEnd`, `RecoveryEnds` |
| `write_racing_sync` | 2 requests, 1 fault, renames not carried | `OldContentSafe` is violated |
| `write_lost_reply` | 1 request, 1 fault, a CAS delete may lose its reply | `VersionsBacked` is violated |
| `admission` | 3 bodies, limit 4, chunks of 2 and 3, old targets of 0 and 3, 7 bytes of disk, floor 1; 2 requests under 2 nested quotas; 2 starts of the probe; 940 000 states | `Accounted`, `StageCovered`, `FloorKept`; `QuotaHeld`; `ProbeRecovers` |
| `upload` | 1 session with 2 faults, crashes or outside changes, or 2 racing sessions; 370 000 states | `CrashLoadable`, `AckedKept`, `Counted`, `OutcomeHonest`, `UndecidedKept` |
| `upload_torn_removal` | 1 session, 1 crash, a removal may be cut off | `CrashLoadable` is violated |
| `trash` | 2 items, 2 paths, 2 trees, 4 jobs, 1 fault, 2 crashes; 2 things with 2 outside and 2 served changes; 1 140 000 states | `NeverLost`, `Recoverable`, `Settled`, `RowsBacked`, `ShareGivenBack`; `ConfirmedDeletion` |
| `trash_torn_rollback` | as `trash`, the removal of a replica may be cut off | `Recoverable` is violated |
| `backup` | a local and a remote job, 1 snapshot kept, 3 operations; trees of 7 paths; 2 credentials; 2 WebDAV requests; 1 100 000 states | `RestorableKept`, `SettledStatus`, `EvidenceHonest`, `ScheduledApart`; `RestoresTrue`; `BoundEvidence`; `DavHonest` |
| `services` | 2 calls of whichever service moves, 1 fault, 1 crash; 770 000 states | `AccountsHonest`, `TicketsHonest`, `DataplaneHonest` |

Why these bounds: two requests on one path give every race between a stale snapshot, a
closing gate and a running transaction; a third adds no new kind of interference, since
the lock admits one. Two contents tell an overwrite that changes the content from one
that does not, and let one request's old content be another's new one. One fault leads
into every rollback and roll-forward; a second one, with three crashes, interrupts
recovery and its repetition, which is a matter of one operation. In the budget, three
bodies of up to four bytes meet the limit, the floor and a short write at once. The same
reasoning gives two sessions, two items, two visitors and two calls elsewhere: one actor
whose step is interrupted, and one that gets in between. The state constraints
(`FewDisturbances`, `FewMishaps`, `FewMeddlers`, `Few`, `LongWhenPlain`) trade faults against
length: a long history runs with few faults and a short one with several. Elements that
are only compared are interchangeable, which justifies the symmetry.

What the violations show:

- `write_racing_sync`: `docs/storage-internals.en.md:109` says the directory-sync order
  protects the authoritative object. It does for one request. The seal of another
  request syncs the same `write-staging` directory without the lock; between a
  rollback's exchange and its sync of the canonical directory this makes the new file
  durable in the one while the other still durably holds the new file, and the old file
  is in neither. Only filesystems without carried renames are concerned, and only for a
  power loss in that window.
- `write_lost_reply`: the comment at `storage.go:4767` expects a failed deletion to
  leave extra history. A deletion that took effect and lost its reply leaves rows
  without an object, since the rows are restored without looking at the object again.
- `trash_torn_rollback`: the rollback of a ready deletion, cut off while it removes the
  replica, leaves a container that every later startup refuses.
- `upload_torn_removal`: the removal of an expired session, cut off part-way, leaves a
  directory the store cannot load, and with it the whole store.

Fairness (`LiveSpec`): weak fairness of each request's and each recovery's steps, since
every call they make has a deadline and the lock is polled every millisecond under a
context; weak fairness of `Restart` and `StartupDone`, since the service manager restarts
`nasd`. No fairness is assumed of new requests, faults, crashes, GC or cleanup.
Deadlock is checked except in `backup` and `services`, whose components rest when their bounded
operations are used up; in `write_carried`, `AllServed` is the only legal end.

## Theorems

All are for every value of the constants that satisfies the named assumptions, without a
bound on requests, paths, contents, sessions, faults or crashes. Each inductive invariant
was checked with TLC before it was proved; step lemmas have one case per action.

### The write path (`WriteTxnProofs`)

From `ConstantsAssumption` and `AbsentAssumption`:

- `TypeCorrect`: `TypeOK`. Not inductive alone: the row an overwrite saves, or recovery
  writes again, must carry a real content, which is `PlanOK` (only an overwrite saves a
  version).
- `AtMostOnePending` and `ClosedGateHolds`: `OnePending` and `GateHolds`. The latter is about a gate that is
  closed; which failures close it is the model's `AbortBlocked`, `FinishBlocked` and recovery. The inductive
  invariant is `LeaseInv`: at most one request is at a locked position (`Exclusive`); while
  the process is up the lease holder is exactly that request and a record outside the lease
  means a closed gate, while it is starting whatever is on record is being recovered, and
  while it is down nobody is admitted (`LeaseOK`); a closed gate means a free lock (`GateOK`);
  no checkpoint is there before the first publication or after the last removal, and until
  recovery starts the durable checkpoints are among the visible ones (`RecordsOK`).
- `VersionsStayBacked`: `VersionsBacked`, under `~LostDeleteReply`; run `write_lost_reply` shows
  why. `BackedOK` adds that the old content is in the CAS from the put to the metadata commit
  and between the two halves of a forward recovery, and that the rows retention has just
  dropped still have their objects when it starts to delete them.
- `AnswersStayHonest`: `AnswersHonest`. `HonestOK` says of each position, recovery
  direction and answer whether the durable decision (`decided`) and the committed record
  are there.
- `RecordsClassify`, `NewContentStays`, `QuietIsSettled`, `OldContentStays`: `JournalClassifies`,
  `NewContentSafe`, `SettledState`, `OldContentSafe`. `JournalClassifies` is about the sets of checkpoint
  records, and `SettledState` about journal, files and index rows; neither says anything of version rows, and
  that recovery gets through every layout of files is `RecoveryEnds`. The argument: the position of the one
  request inside the protocol, or after a crash the journal alone, tells where the old and
  the new file, their durable images and the index row are (`JournalOK`, `DecidedOK`,
  `PlannedOK`, `PlaceOK`, `IndexOK`); `LeaseInv` keeps everybody else away from them; `StepOK`
  ties a path out of step to an unsettled operation. `OldContentStays` assumes
  `CarriedRename`; run `write_racing_sync` shows why.

### The refinement (`WriteTxnProofs`)

- `WritesAreAtomic`: `Spec => ImplementsAtomicWrite`. The mapping is closed into one form per
  case: an undecided operation is pending, a decided one is, or none is. `ViewSync` shows that
  the sync of a journal directory makes at most one write take effect, on the file and the
  rows its plan was made of; every other step is a stutter. It needs `RowsOK` (old rows where
  nothing shows) and `DroppedOK` beyond the invariants above.

### Upload sessions (`UploadSessionProofs`)

From `UploadAssumption` and `AbsentAssumption`, and `~TornRemoval`, for which run
`upload_torn_removal` shows the need:

- `EveryCrashLoads`: `CrashLoadable`. `SessionOK` holds of each session: a gapless chain of valid
  states and a pending record that fits (`DirOK`); either copy of the entries is readable with
  either copy of the payload (`PayloadOK`); the durable state is not ahead of the visible one
  (`Behind`); what a handler in the middle of an operation may find (`OpOK`); a deciding handler
  finds its session committing and nobody else at work on it (`HandOK`). `StateKept` holds
  while a process serves, `Asleep` without one.
- `UndecidedStays`: `UndecidedKept`, that no expiry pass, failed creation or other request
  removes a session whose publication may have begun.
- `AnsweredStays`: `AckedKept`, through `Keeps`: what is acknowledged is reached by the visible
  state, by the durable one unless a sync failed, and an append in flight has not yet
  answered. It rests on the guard of `ReplayChunk` described under *UploadSession*.
- `OutcomesTrue`: `OutcomeHonest`. `Truth`: a session whose payload is at the target has
  recorded the publication, in both copies and with the same bytes (`OwnOK`); the
  publication window is durable before storage can change the target (`StartOK`, `PublishOK`);
  a committed record names bytes that were there (`CommittedOK`). `LeaseOne` lets one session
  at a time decide, and `PubsInv` counts publications of a payload.
- `CountersAddUp`: `Counted`, the staged-byte total is the sum over the sessions, the reservations are the appends
  in flight, and a session at rest counts its durable offset. From
  `SessionsAssumption` (finitely many sessions). `CountsOK` says of each position of a handler which
  bytes are counted already and which still have to be, and `CountInv` adds `SessionOK`.

### Staging budget (`SumProofs`, `AdmissionProofs`)

From `BudgetAssumption` and finitely many bodies, for any number of bodies, sizes, faults and restarts:

- `BudgetAccounted`: `Accounted`, the two counters are exact and never wrap.
- `BudgetCovers`: `StageCovered`, the newly allocated and the left-over bytes are within the counter, the
  counter within the limit, and at most one captured target is in write-staging beyond them.
- `FloorStays`: `FloorKept`, staging alone never takes the disk below the floor, with every byte reserved
  and not yet written still covered.

A sum over a set needs induction over the set, which the provers cannot instantiate. `SumProofs`
goes around it: the sum of `f` over `S` is the cardinality of the set of pairs `<<x, n>>` with `x` in
`S` and `n` in `1..f[x]`, so that changing one summand adds or removes pairs of one element, and the
library's facts about cardinalities give the rest. The inductive invariant is the conjunction of
`Accounted`, `FloorKept`, `BodyFits` (what a body has on disk, has reserved and is about to write
agree at each of its positions); `CaptureInv` says that a captured target belongs to the one write that
is published or halted.

### WebDAV path locks (`AdmissionProofs`)

From `DavAssumption` (the sorted paths are a sequence, finitely many requests), for any namespace, any
number of requests, methods, failures and changes by the API:

- `PathsStayExclusive`: `PathsExclusive`, two requests hold the lock of one path together only to read.
- `SomebodyAlwaysMoves`: `SomebodyMoves`, while requests are under way one of them waits for nothing or may
  take the mutex it waits for. A reader may not where a writer waits too: `sync.RWMutex` lets
  no reader pass a writer that has announced itself.

`PathLock` deletes an entry with its last reference and makes another mutex when the path is asked for
again, so holders exclude each other only if nobody still has the old mutex. `EntriesCounted` says so: an
entry counts the requests that hold or await its mutex, and all of them have the same one.
`RequestsOrdered` says that a request holds paths before the one it waits for, and that one before those it
has still to take, in the order of `slices.Sort`; a request therefore has one reference to a path. The
invariant `PathLockInv` is the two with `PathsExclusive`. No cycle of waiting follows from the order:
whoever waits holds only paths before the one it waits for, so nobody holds the last path anybody waits
for.

### Trash (`TrashProofs`)

From `TrashAssumption`, for any number of items, paths, jobs, faults and crashes:

- `SharesGivenBack`: `ShareGivenBack`, an action property: a step of the trash turns a share on only to undo
  the deletion that turned it off. `ShareInv`: only the operation that turned a share off lays claim to
  it, in the store as it is and as a power loss would leave it (`Claims`); `HonestCall` says what one call
  of an operation may make of the store, redelivered or not.
- `RowsStayBacked`: `RowsBacked`, every version row has its object, also after a purge that a later startup
  finishes. `RowsInv`: what the database, the containers and the journal name has its plan (`Planful`) and
  the operation is at a position of its own kind (`JobFits`).

### Shares and sessions (`AccessProofs`)

From `LockAssumption` and `ShareAssumption`:

- `TicketsStayHonest`: `TicketsHonest`, whole: a ticket serves what it was issued for, the access limit
  holds, guesses are counted. `DatesKept` orders the revisions of a share and the stamps in tickets, so a
  ticket that still compares equal was issued on the share as it is; `DownloadDated` says the same of a
  download between its check and its use; `CountsHeld` counts the tickets and the reservations under way
  against the stored counter; `GuessInv`: the failures an entry has forgotten are a lock duration away
  from those it remembers.

From `AuthAssumption` (durations are numbers, the absent session is no record):

- `SessionsStayHonest`: `SessionsHonest`, the first half of `AccountsHonest`, for any accounts, sessions
  and requests under way, any number of failed or unsynced writes, kills, power losses and changes of
  the wall clock. A restart has nothing but `auth-sessions.json` to go by, so `AuthInv` compares
  everything with that file: no answer was based on a time above the floor in it (`TimeKept`); the record
  it has of a session answers for all tokens of the session, and a session without a record was ended or
  expired below the floor (`SessionsKept`, `TokenKept`); every account in `users.json` is past the
  credentials that were replaced (`CredentialsKept`). While the process runs, memory and files
  agree (`FilesFollow`), and a refresh under way carries the successor of a token that was issued
  (`CallsKept`). Every manager step goes `Forward` in time and may drop a record only once the floor has
  passed its expiry (`Weeded`), which is what a clock set back would otherwise undo. Sessions whose
  rotation the client was not told of (`stranded`) and those of which a power loss undid an unsynced
  write (`undone`) are exempt in `SessionsHonest` itself.

### Backup (`BackupProofs`)

From `BackupAssumption`, for any number of jobs, snapshots, operations, failing saves, kills and
restarts. `BackupTypes` fixes, beside the types, what a task carries at each of its program positions
(`TaskFits`); the others build on it.

- `StatusSettles`: `SettledStatus`, a job nobody works on has no result that still says running.
  `SettledInv` says which of a job's results its task still has to settle.
- `EvidenceStaysHonest`: `EvidenceHonest`, readiness reports no successful backup whose manifest is gone or
  was altered. `EvidenceInv`: a cached verdict that counts was reached on the manifest as it was written.
- `RunsKeepApart`: `ScheduledApart`, an action property, under a clock that does not go back (see
  *Backup* above). `ScheduleInv`: every view of a job's state has a
  scheduled start that is not before the last scheduled run that did work.
- `RestorableStays`: `RestorableKept`, what the states of a job refer to stays restorable over retention,
  failed runs, kills and power losses. `StoreInv`: a job's snapshots have one record per number
  (`Single`), none above the operations so far (`Numbered`); every snapshot a state refers to, in memory
  or in either file, is visible and synced (`NeedsStored`); a task has what it has made or is about to
  record (`TaskHolds`), and what it may remove is needed by no state (`TaskSpares`). `NeededGrows`: a
  save adds only the snapshot of the result it records.
- `RestoresStayFaithful`: `RestoredFaithful`, a target recorded as restored holds the snapshot it was
  restored from. `PlacedInv` says where a restoring task has put it at each position.
- `RestoresStayTrue`: `RestoresTrue`, the run's property, from the last one and `VerdictsAreExact`.

Two definitions were corrected by these proofs. `RestoredFaithful` was false between the installation of a
second restore and its last save, which takes four operations to reach and so was outside the run's
bounds; it now speaks of targets no restore is at work on. A kill that tears a snapshot tears
the record as it is then, and not as it was listed.

- `EvidenceIsBound`: `BoundEvidence`. `CredentialInv`: the accepted copy, and the result counted,
  were made with the credential of the binding, however often the file is rotated.
- `VerdictsAreExact`: `VerdictExact`, a conjunct of the run's `RestoresTrue`, from
  `TreeAssumption`. `TreeInv`: the staging tree is the directories and copied files of the
  manifest whatever happens to the snapshot meanwhile (`StageFaithful`), the target is what was
  staged (`TargetFaithful`), the verdict is about the present target (`VerdictCurrent`).
  `UntouchedAgrees` and `SilenceMeansEqual` are the lemmas about the comparison: an untouched
  target gives no warning, and no warning means equality.

### The object store (`CasProofs`)

From `HashAssumption`, for any number of calls, hashes, faults, cut-off calls, restarts and damage.
Of the conjuncts of the run's `DataplaneHonest`, all of `CasHonest` but `LogicalCovers`:

- `WritersExcluded`: `HashesExclusive`. `LockInv`: a call that waits for, holds or tidies up a
  hash lock has the very Arc the map has for its hash, the holder of that mutex is the call at
  work, and no two hashes share an Arc. `OnlyOne` is why an idle entry can be removed: a count of
  one other reference is the map's own, so nobody waits on the Arc that leaves.
- `PromisesHold`: `PromisesKept`, with the exemptions listed under *CasStore*. `PromiseInv` adds that an indexed object with a file has a synced
  one unless a rebuild took it over (`IndexSynced`), and that a put past its look at the index works
  on a hash the index does not have (`WritersApart`), which keeps deduplication, damage and deletion
  away from its file. It rests on the exclusion.
- `AnswersAreRight`: `AnswersRight`. `ReaderOK` says what each reader counts on: a sure one has only
  promised objects before it, and while it is at the plain name that file is there; a listing has,
  or has ahead of its cursor, everything indexed since its first page (`PageOrder`: what a page
  leaves out comes after all it holds); a scrub's verdicts are still true.
- `ChunksCounted`: `ChunksExact`, the counter neither wraps nor drifts; the word must be wider
  than twice the number of hashes, which 64 bits are.

### Only model-checked

- Liveness (`RequestsEnd`, `RecoveryEnds`): fairness and ENABLED are outside the prover's reach.
- `ConfirmedDeletion`: it rests on the recursive Merkle token of `DeleteTree`, induction over data.
- `LogicalCovers` and `CutsCanonical`, and with them `DataplaneHonest` as a whole: the logical size does
  wrap after enough puts, so the former holds of bounded histories; the latter says what a recursion
  over the content computes.
- `NeverLost`, `Recoverable`, `Settled`: one inductive invariant would have to follow every tree through
  all steps of three operations, their undoing and their recovery. Beyond the run's bounds they were also
  checked, once, with three disturbances in two operations and with four (up to two faults and three
  crashes) around one.
- `NeverKnotted`, `StorageOrderly`: the callers are programs put together from sequences; a proof needs
  the position of each caller as a fact of its own.
- `QuotaHeld`: sums over a tree before and after a part of it is mapped elsewhere.
- `AdminReachable`, the second half of `AccountsHonest`: not attempted. It was also checked, once, in
  instances of three accounts with resets, deletions and demotions, where its exemption is met.
- The rest of `DavHonest`, `LocksFollow`, `ListingsFresh` and that no lock is ignored: they follow the
  namespace through the steps of COPY and MOVE. `ProbeRecovers`: not attempted.

## Plan

1. Write path, its refinement and their proofs - done.
2. What stands before a write; locks; uploads; trash; backup; services; dataplane - modelled and
   checked. Budget, path locks, uploads, backup, shares, sessions, the object store and, of the trash, its rows
   and shares are proved.
3. Next proofs: the DAV locks of `WebDAVLocks`, `ProbeRecovers`, then `StorageLocks` and
   `QuotaHeld`.
4. Still to model: the periodic retention sweep and the paging of garbage collection as actions of
   their own, version references of renames and copies, settings changes; one stage name per
   operation in `TrashTransfer`.

## Not modelled

Presentation and transport (web, mobile, API formatting, TLS, SMB), observation
(activity, alerts, metrics, disk health), derived data (thumbnails), configuration
parsing, platform wrappers (`rootio`, `workspace` path handling) except for the steps that
call them, and what the plan lists as still to come. Paths are opaque: symlinks,
mount points and name normalisation are checks made before the modelled steps.
`PROJECT.json` lists every component with its status.
