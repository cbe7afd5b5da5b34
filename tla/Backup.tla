------------------------------- MODULE Backup -------------------------------
(***************************************************************************)
(* Backup jobs (internal/backup): backup runs with retention, restore      *)
(* drills, restores, restore verification, retention checks, the scheduler,*)
(* reminders, batch restores, Close and restart.  One operation of a job   *)
(* runs at a time; all jobs share the state file.                          *)
(*                                                                         *)
(* memState is Manager.state, fileState the visible state.json, fileKept   *)
(* the one a power loss is sure to leave; snaps and snapsKept likewise for *)
(* the snapshot directories.  Directories with the suffix .partial are     *)
(* ignored by every listing and are left out.                              *)
(***************************************************************************)
EXTENDS Integers, Sequences, FiniteSets

CONSTANTS
    Jobs, RemoteJobs, \* configured jobs; those of type restic or rclone
    MaxSnapshots, MaxAge,  \* retention by count and by age, 0 for none
    Interval, Day, WindowStart, WindowEnd, \* schedule_interval and window
    HistoryLimit,     \* restoreHistoryLimit
    StaleAfter, Cooldown,  \* restore_drill_stale_after, reminder cooldown
    None,
    MaxOps,           \* bound: operations begun
    MaxClock,         \* bound: the clock
    MaxBackupFaults,  \* bound: failing calls
    MaxBackupCrashes, \* bound: kills and power losses
    MaxRot            \* bound: damage to stored snapshots and clock setbacks

ASSUME BackupAssumption ==
    /\ RemoteJobs \subseteq Jobs
    /\ Interval \in Nat \ {0} /\ Day \in Nat \ {0} /\ HistoryLimit \in Nat \ {0}
    /\ WindowStart \in 0..(Day - 1) /\ WindowEnd \in 0..(Day - 1)
    /\ None \notin Int

VARIABLES
    manager,    \* "open", "unsafe" (namespace changed), "closing", "down"
    memState, fileState, fileKept,
    task,       \* the operation that holds each job
    snaps, snapsKept,
    remote,     \* the run each remote repository holds
    target,     \* the run whose content each job's restore target holds
    credDirs,   \* jobs with a private credential snapshot on disk
    dueList,    \* jobs the scheduler found due and has not run
    batch,      \* the batch restore under way
    evidence,   \* readinessManifestCache
    clock,
    lastWork,   \* start of each job's last scheduled run that did work (history)
    ops, budget

stateVars == <<memState, fileState, fileKept>>
storeVars == <<snaps, snapsKept, remote>>
outside == <<target, credDirs>>
planVars == <<dueList, batch, lastWork>>
backupVars == <<manager, stateVars, task, storeVars, outside, planVars,
                evidence, clock, ops, budget>>

-----------------------------------------------------------------------------
(* Records                                                                  *)

Free == [kind |-> "none", at |-> "free"]
NoResult == [st |-> "none", id |-> 0, t |-> 0, snap |-> None]
NoJobState ==
    [run |-> NoResult, ok |-> NoResult, sched |-> None, restore |-> NoResult,
     hist |-> <<>>, drill |-> NoResult, verify |-> NoResult, check |-> NoResult,
     remind |-> None]
NoBatch == [phase |-> "none", todo |-> <<>>, rest |-> <<>>, id |-> 0]

FieldOf(kind) ==
    CASE kind = "backup" -> "run" [] kind = "drill" -> "drill"
      [] kind = "restore" -> "restore" [] kind = "verify" -> "verify"
      [] kind \in {"check", "aftercheck"} -> "check"

\* Contents that are no run's: damaged, lost with the power, half synced.
Rotten == -1
Lost == -2
Mixed == -3

Local(j) == j \notin RemoteJobs
Held(j) == task[j] # Free

\* The result an operation records with status st: of a verification and a
\* retention check only what something reads later.
ResultOf(j, st) ==
    LET kind == task[j].kind
        timed == kind \in {"backup", "drill"}
        kept == kind \in {"backup", "restore"}
    IN  [NoResult EXCEPT !.st = st,
            !.id = IF kept THEN task[j].id ELSE 0,
            !.t = IF timed THEN clock ELSE 0,
            !.snap = IF kept /\ st = "failed" THEN None ELSE task[j].snap]

\* prependRestoreHistory: newest first, at most the limit; an entry's id is its
\* own, so at most one is replaced.
Without(hist, id) ==
    LET same == {i \in 1..Len(hist) : hist[i].id = id}
        at == CHOOSE i \in same : TRUE
    IN  IF same = {} THEN hist
        ELSE SubSeq(hist, 1, at - 1) \o SubSeq(hist, at + 1, Len(hist))
Prepend(hist, r) ==
    LET next == <<r>> \o Without(hist, r.id)
    IN  SubSeq(next, 1, IF Len(next) < HistoryLimit THEN Len(next) ELSE HistoryLimit)

\* What updateLastRun, updateLastRestoreDrill, updateLastRestore,
\* updateLastRestoreVerify and updateLastRetentionCheck record.
UpdatedRun(s, r, sched) ==
    [s EXCEPT !.run = r,
              !.sched = IF sched = None THEN @ ELSE sched,
              !.ok = IF r.st = "completed" THEN r ELSE @]
Updated(s, kind, r) ==
    IF kind = "backup" THEN UpdatedRun(s, r, None)
    ELSE IF kind = "restore" /\ r.st # "running"
    THEN [s EXCEPT !.restore = r, !.hist = Prepend(s.hist, r)]
    ELSE [s EXCEPT ![FieldOf(kind)] = r]

-----------------------------------------------------------------------------
(* Failures                                                                 *)

Spend(what, limit) ==
    budget[what] < limit /\ budget' = [budget EXCEPT ![what] = @ + 1]
Faulty == Spend("faults", MaxBackupFaults)
NoFault == UNCHANGED budget

\* A call that may fail; a scheduled run is also cancelled by Close.
Cancelled(j) == manager = "closing" /\ task[j].trig = "scheduled"
Fails(j) == (Cancelled(j) /\ NoFault) \/ Faulty

-----------------------------------------------------------------------------
(* The state file                                                           *)

\* persistStateCandidateLocked.  "warn": renamed, but the directory sync
\* failed; "hard": nothing replaced; "before" and "after": the state
\* directory is found replaced before or after the write, which closes the
\* manager.  Once it is unsafe every save fails.
SaveOutcome(out) ==
    /\ IF manager = "unsafe" THEN out = "hard" /\ NoFault
       ELSE IF out = "ok" THEN NoFault ELSE Faulty
    /\ out \in {"before", "after"} => manager = "open"
    /\ manager' = IF out \in {"before", "after"} THEN "unsafe" ELSE manager
Applied(out) == out \in {"ok", "warn", "after"}
Outcomes == {"ok", "warn", "hard", "before", "after"}

\* updateJobStateLocked with writeJSONDataInParent; with remember, a failure
\* leaves the result in memory only (recordVolatileLastRun and the others).
SaveJob(j, s, out, remember) ==
    LET cand == [memState EXCEPT ![j] = s] IN
    /\ SaveOutcome(out)
    /\ memState' = IF Applied(out) \/ remember THEN cand ELSE memState
    /\ fileState' = IF Applied(out) THEN cand ELSE fileState
    /\ fileKept' = IF out = "ok" THEN cand ELSE fileKept

-----------------------------------------------------------------------------
(* The steps every operation shares                                         *)

Step(j, at) == task' = [task EXCEPT ![j].at = at]
Fail(j) == task' = [task EXCEPT ![j].at = "finish", ![j].st = "failed"]
Release(j) == task' = [task EXCEPT ![j] = Free]

\* The retention check after a backup returns to the backup.
Leave(j) ==
    IF task[j].kind = "aftercheck"
    THEN task' = [task EXCEPT ![j].kind = "backup", ![j].at = "final", ![j].st = "completed"]
    ELSE Release(j)

\* beginJob: one operation per job, none once the manager is closed.
BeginJob(j, kind, trig) ==
    /\ manager = "open" /\ ~Held(j) /\ ops < MaxOps
    /\ ops' = ops + 1
    /\ task' = [task EXCEPT ![j] =
         [kind |-> kind, trig |-> trig, at |-> "begun",
          id |-> ops + 1, st |-> "running", started |-> clock,
          snap |-> None, todo |-> {}, gone |-> {}]]

\* RunJob, RunRestoreDrill, RunRestore, RunRestoreVerify and
\* RunRetentionCheck, called by the API.
Request(j, kind) ==
    /\ BeginJob(j, kind, "manual")
    /\ UNCHANGED <<manager, stateVars, storeVars, outside, planVars, evidence, clock, budget>>

\* The first save: status running, and the time of a scheduled run.
RunningState(j) ==
    IF task[j].kind = "backup"
    THEN UpdatedRun(memState[j], ResultOf(j, "running"),
                    IF task[j].trig = "scheduled" THEN task[j].started ELSE None)
    ELSE Updated(memState[j], task[j].kind, ResultOf(j, "running"))

\* A first save that is only a warning already ends the operation: the
\* failure is saved over it.
SaveRunning(j) ==
    /\ task[j].at = "begun"
    /\ \E out \in Outcomes :
        /\ SaveJob(j, RunningState(j), out, FALSE)
        /\ IF out = "ok" THEN Step(j, IF task[j].kind = "aftercheck" THEN "work" ELSE "lock")
           ELSE IF Applied(out)
           THEN task' = [task EXCEPT ![j].at = "undo", ![j].st = "failed"]
           ELSE Leave(j)
    /\ UNCHANGED <<storeVars, outside, planVars, evidence, clock, ops>>

\* The failure is saved after a running state that was only a warning.
SaveUndo(j) ==
    /\ task[j].at = "undo"
    /\ \E out \in Outcomes :
        SaveJob(j, Updated(memState[j], task[j].kind, ResultOf(j, "failed")), out, TRUE)
    /\ Leave(j)
    /\ UNCHANGED <<storeVars, outside, planVars, evidence, clock, ops>>

\* acquireJobTargetLock; another manager may hold it.  Remote jobs take none.
LockTarget(j) ==
    /\ task[j].at = "lock"
    /\ \/ Step(j, "work") /\ NoFault
       \/ Local(j) /\ Fails(j) /\ Fail(j)
    /\ lastWork' = IF task[j].trig = "scheduled" /\ task'[j].at = "work"
                   THEN [lastWork EXCEPT ![j] = task[j].started] ELSE lastWork
    /\ UNCHANGED <<manager, stateVars, storeVars, outside, dueList, batch, evidence, clock, ops>>

\* ensureJobConfigEvidenceUnchanged: the job's inputs are as they were.
Recheck(j) ==
    /\ task[j].at = "recheck"
    /\ \/ task' = [task EXCEPT ![j].at = "finish", ![j].st = "completed"] /\ NoFault
       \/ Fails(j) /\ Fail(j)
    /\ UNCHANGED <<manager, stateVars, storeVars, outside, planVars, evidence, clock, ops>>

-----------------------------------------------------------------------------
(* Local backup runs                                                        *)

Snap(j, id) == {s \in snaps : s.job = j /\ s.id = id}
Current(j) == Snap(j, task[j].id)

\* copySourceTree into the partial directory, manifest, structure check and
\* sync of the tree; what fails removes the partial directory.
CopySource(j) ==
    /\ task[j].at = "work" /\ task[j].kind = "backup" /\ Local(j)
    /\ \/ task' = [task EXCEPT ![j].at = "rename", ![j].snap = task[j].id] /\ NoFault
       \/ Fails(j) /\ Fail(j)
    /\ UNCHANGED <<manager, stateVars, storeVars, outside, planVars, evidence, clock, ops>>

\* The partial directory is renamed to the snapshot's name.
FinalizeSnapshot(j) ==
    /\ task[j].at = "rename"
    /\ \/ /\ snaps' = snaps \cup {[job |-> j, id |-> task[j].id, t |-> task[j].started,
                                   rot |-> "none"]}
          /\ Step(j, "sync") /\ NoFault
       \/ Fails(j) /\ Fail(j) /\ UNCHANGED snaps
    /\ UNCHANGED <<manager, stateVars, snapsKept, remote, outside, planVars, evidence,
                   clock, ops>>

\* Variant: a failed sync is logged and the run goes on.
SyncSnapshotLogged(j) ==
    /\ task[j].at = "sync"
    /\ \/ snapsKept' = snapsKept \cup Current(j) /\ NoFault
       \/ Fails(j) /\ UNCHANGED snapsKept
    /\ Step(j, "evidence")
    /\ UNCHANGED <<manager, stateVars, snaps, remote, outside, planVars, evidence, clock, ops>>

\* The sync of the snapshot directory; its failure leaves the snapshot there.
SyncSnapshot(j) ==
    /\ task[j].at = "sync"
    /\ \/ snapsKept' = snapsKept \cup Current(j) /\ Step(j, "evidence") /\ NoFault
       \/ Fails(j) /\ Fail(j) /\ UNCHANGED snapsKept
    /\ UNCHANGED <<manager, stateVars, snaps, remote, outside, planVars, evidence, clock, ops>>

\* A snapshot removed in part is there and cannot be read.
Torn(S) == {[s EXCEPT !.rot = "torn"] : s \in S}
Tear(cut) ==
    /\ snaps' = (snaps \ cut) \cup Torn(cut)
    /\ snapsKept' = (snapsKept \ cut) \cup Torn(cut \cap snapsKept)

\* The manifest is read back; one that differs or cannot be read, for the end
\* of the request too, takes the snapshot with it, as far as the removal gets.
CheckManifest(j) ==
    /\ task[j].at = "evidence"
    /\ \/ /\ Step(j, "recheck") /\ NoFault
          /\ \A s \in Current(j) : s.rot # "manifest"
          /\ UNCHANGED <<snaps, snapsKept>>
       \/ /\ Fail(j)
          /\ ((\E s \in Current(j) : s.rot = "manifest") /\ NoFault) \/ Fails(j)
          /\ snaps' = snaps \ Current(j) /\ snapsKept' = snapsKept \ Current(j)
       \/ /\ Fail(j) /\ Faulty
          /\ \/ \E cut \in {{}, Current(j)} : Tear(cut)
             \/ snaps' = snaps \ Current(j) /\ UNCHANGED snapsKept
    /\ UNCHANGED <<manager, stateVars, remote, outside, planVars, evidence, clock, ops>>

-----------------------------------------------------------------------------
(* Retention                                                                *)

\* listLocalSnapshotsFromRoot: a snapshot that cannot be read fails it.
Listable(j) == \A s \in snaps : s.job = j => s.rot # "torn"
Suspect(j) == \E s \in snaps : s.job = j /\ s.rot # "none"

\* restoreReferencedSnapshotPaths: what completed restores in the history used.
Referenced(st) ==
    LET restores == {st.restore} \cup {st.hist[i] : i \in 1..Len(st.hist)}
    IN  {r.snap : r \in {q \in restores : q.st = "completed" /\ q.snap # None}}

Newer(s, j) == {r \in snaps : r.job = j /\ (r.t > s.t \/ (r.t = s.t /\ r.id > s.id))}

\* applyRetention: by count and age, never the current run's snapshot, the
\* newest one by its time or one a restore refers to.
Doomed(j) ==
    {s \in snaps :
        /\ s.job = j
        /\ s.id # task[j].id /\ Newer(s, j) # {}
        /\ s.id \notin Referenced(memState[j])
        /\ \/ MaxSnapshots > 0 /\ Cardinality(Newer(s, j)) >= MaxSnapshots
           \/ MaxAge > 0 /\ s.t < clock - MaxAge}

AfterRetention(j) ==
    task' = [task EXCEPT ![j].kind = "aftercheck", ![j].at = "begun", ![j].st = "running",
                         ![j].todo = {}, ![j].gone = {}]

\* The listing; a failure is a warning.  A damaged snapshot may or may not
\* show in the listing's structure check.
ListSnapshots(j) ==
    /\ task[j].at = "retention"
    /\ \/ /\ Listable(j) /\ NoFault
          /\ task' = [task EXCEPT ![j].at = "prune", ![j].todo = Doomed(j)]
       \/ (~Listable(j) \/ Suspect(j)) /\ AfterRetention(j) /\ NoFault
       \/ Fails(j) /\ AfterRetention(j)
    /\ UNCHANGED <<manager, stateVars, storeVars, outside, planVars, evidence, clock, ops>>

\* removeLocalBackupSnapshotEntry, oldest first; a failure skips the snapshot,
\* whole or removed in part.
RemoveSnapshot(j) ==
    /\ task[j].at = "prune" /\ task[j].todo # {}
    /\ \E s \in task[j].todo :
        /\ \A r \in task[j].todo : s.t < r.t \/ (s.t = r.t /\ s.id <= r.id)
        /\ \/ /\ snaps' = {x \in snaps : x.job # j \/ x.id # s.id} /\ NoFault
              /\ task' = [task EXCEPT ![j].todo = @ \ {s}, ![j].gone = @ \cup {s.id}]
              /\ UNCHANGED snapsKept
           \/ /\ Faulty /\ \E cut \in {{}, Snap(j, s.id)} : Tear(cut)
              /\ task' = [task EXCEPT ![j].todo = @ \ {s}]
    /\ UNCHANGED <<manager, stateVars, remote, outside, planVars, evidence, clock, ops>>

\* The sync after the removals; a failure is a warning.
SyncRetention(j) ==
    /\ task[j].at = "prune" /\ task[j].todo = {}
    /\ \/ /\ snapsKept' = {x \in snapsKept : x.job # j \/ x.id \notin task[j].gone}
          /\ NoFault
       \/ task[j].gone # {} /\ Faulty /\ UNCHANGED snapsKept
    /\ AfterRetention(j)
    /\ UNCHANGED <<manager, stateVars, snaps, remote, outside, planVars, evidence, clock, ops>>

\* runLocalRetentionCheck and the remote ones: read only.
CheckRetention(j) ==
    /\ task[j].at = "work" /\ task[j].kind \in {"check", "aftercheck"}
    /\ \/ /\ Local(j) => Listable(j)
          /\ task' = [task EXCEPT ![j].at = "finish", ![j].st = "completed"] /\ NoFault
       \/ Local(j) /\ (~Listable(j) \/ Suspect(j)) /\ Fail(j) /\ NoFault
       \/ Fails(j) /\ Fail(j)
    /\ UNCHANGED <<manager, stateVars, storeVars, outside, planVars, evidence, clock, ops>>

-----------------------------------------------------------------------------
(* Drills, restores and verification                                        *)

\* latestManifest and verifyManifestFiles: the snapshot of the last
\* successful run, with the manifest that run recorded and intact files.
Intact(j, r) == \E s \in Snap(j, r.snap) : s.rot = "none"

Trusted(j) == memState[j].ok.st = "completed" /\ Intact(j, memState[j].ok)

\* What copying the trusted snapshot's files yields.
Copied(j) ==
    IF \E s \in Snap(j, memState[j].ok.snap) : s.rot = "data" THEN Rotten
    ELSE memState[j].ok.snap

\* runRestoreDrill: restore into a scratch directory, verify, remove it.
Drill(j) ==
    /\ task[j].at = "work" /\ task[j].kind = "drill" /\ Local(j)
    /\ \/ /\ Trusted(j) /\ NoFault
          /\ task' = [task EXCEPT ![j].at = "recheck", ![j].snap = memState[j].ok.snap]
       \/ ~Trusted(j) /\ Fail(j) /\ NoFault
       \/ Fails(j) /\ Fail(j)
    /\ UNCHANGED <<manager, stateVars, storeVars, outside, planVars, evidence, clock, ops>>

\* runRestorePreflight, then restoreManifestToTarget into a partial sibling.
StageRestore(j) ==
    /\ task[j].at = "work" /\ task[j].kind = "restore" /\ Local(j)
    /\ \/ /\ Trusted(j) /\ target[j] = None /\ NoFault
          /\ task' = [task EXCEPT ![j].at = "install", ![j].snap = Copied(j)]
       \/ ~(Trusted(j) /\ target[j] = None) /\ Fail(j) /\ NoFault
       \/ Fails(j) /\ Fail(j)
    /\ UNCHANGED <<manager, stateVars, storeVars, outside, planVars, evidence, clock, ops>>

\* installRestoreTargetWithFinalMode: the target must be missing or empty; a
\* failure after the rename leaves the tree installed.  Nothing is synced.
Install(j) ==
    /\ task[j].at = "install"
    /\ \/ /\ target[j] = None /\ NoFault
          /\ target' = [target EXCEPT ![j] = task[j].snap] /\ Step(j, "recheck")
       \/ target[j] # None /\ Fail(j) /\ NoFault /\ UNCHANGED target
       \/ /\ Fails(j) /\ Fail(j)
          /\ target' \in {target, [target EXCEPT ![j] = IF @ = None THEN task[j].snap ELSE @]}
    /\ credDirs' = credDirs \ {j}
    /\ UNCHANGED <<manager, stateVars, storeVars, planVars, evidence, clock, ops>>

\* latestCompletedRestoreForTarget: the restore a verification compares with.
LatestRestore(j) ==
    LET hist == memState[j].hist
        done == {i \in 1..Len(hist) : hist[i].st = "completed" /\ hist[i].snap # None}
    IN  IF done = {} THEN memState[j].ok
        ELSE hist[CHOOSE i \in done : \A k \in done : i <= k]

\* runRestoreVerify: differences and an unreadable snapshot are warnings; a
\* result that names a snapshot has none.
VerifyTarget(j) ==
    /\ task[j].at = "work" /\ task[j].kind = "verify"
    /\ \/ /\ target[j] # None /\ NoFault
          /\ task' = [task EXCEPT ![j].at = "recheck",
               ![j].snap = IF /\ Local(j) /\ Intact(j, LatestRestore(j))
                              /\ target[j] = LatestRestore(j).snap
                           THEN target[j] ELSE None]
       \/ target[j] = None /\ Fail(j) /\ NoFault
       \/ Fails(j) /\ Fail(j)
    /\ UNCHANGED <<manager, stateVars, storeVars, outside, planVars, evidence, clock, ops>>

-----------------------------------------------------------------------------
(* Remote jobs                                                              *)

\* withJobCredentialSnapshot: a private copy of the credential file.
CaptureCredentials(j) ==
    /\ task[j].at = "work" /\ task[j].kind \in {"backup", "drill", "restore"} /\ ~Local(j)
    /\ \/ credDirs' = credDirs \cup {j} /\ Step(j, "command") /\ NoFault
       \/ Fails(j) /\ Fail(j) /\ UNCHANGED credDirs
    /\ UNCHANGED <<manager, stateVars, storeVars, target, planVars, evidence, clock, ops>>

\* runResticBackup and runRcloneBackup; a failed sync may leave the remote
\* between two contents.  The credential copy is removed in every case.
RemoteBackup(j) ==
    /\ task[j].at = "command" /\ task[j].kind = "backup"
    /\ \/ remote' = [remote EXCEPT ![j] = task[j].id] /\ Step(j, "recheck") /\ NoFault
       \/ Fails(j) /\ Fail(j) /\ remote' \in {remote, [remote EXCEPT ![j] = Mixed]}
    /\ credDirs' = credDirs \ {j}
    /\ UNCHANGED <<manager, stateVars, snaps, snapsKept, target, planVars, evidence,
                   clock, ops>>

\* restic check; rclone check of the source against the remote.
RemoteDrill(j) ==
    /\ task[j].at = "command" /\ task[j].kind = "drill"
    /\ \/ remote[j] # None /\ Step(j, "recheck") /\ NoFault
       \/ remote[j] \in {None, Mixed} /\ Fail(j) /\ NoFault
       \/ Fails(j) /\ Fail(j)
    /\ credDirs' = credDirs \ {j}
    /\ UNCHANGED <<manager, stateVars, storeVars, target, planVars, evidence, clock, ops>>

\* runResticRestore and runRcloneRestore into a partial sibling.
RemoteRestore(j) ==
    /\ task[j].at = "command" /\ task[j].kind = "restore"
    /\ \/ /\ remote[j] # None /\ target[j] = None /\ NoFault
          /\ task' = [task EXCEPT ![j].at = "install", ![j].snap = remote[j]]
          /\ UNCHANGED credDirs
       \/ ~(remote[j] # None /\ target[j] = None) /\ Fail(j) /\ NoFault /\ credDirs' = credDirs \ {j}
       \/ Fails(j) /\ Fail(j) /\ credDirs' = credDirs \ {j}
    /\ UNCHANGED <<manager, stateVars, storeVars, target, planVars, evidence, clock, ops>>

-----------------------------------------------------------------------------
(* The last saves                                                           *)

Terminal(j) == Updated(memState[j], task[j].kind, ResultOf(j, task[j].st))

\* Variant: a result that cannot be saved is not kept in memory either.
SaveFailedForgotten(j) ==
    /\ task[j].at = "finish" /\ task[j].st = "failed" /\ task[j].kind = "backup"
    /\ \E out \in Outcomes : SaveJob(j, Terminal(j), out, FALSE)
    /\ Release(j)
    /\ UNCHANGED <<storeVars, outside, planVars, evidence, clock, ops>>

\* The failure of a backup run.
SaveFailed(j) ==
    /\ task[j].at = "finish" /\ task[j].st = "failed" /\ task[j].kind = "backup"
    /\ \E out \in Outcomes : SaveJob(j, Terminal(j), out, TRUE)
    /\ Release(j)
    /\ UNCHANGED <<storeVars, outside, planVars, evidence, clock, ops>>

\* The completion of a backup run: only a durable one goes on to retention;
\* one that could not be saved at all is saved as a failure.
SaveCompleted(j) ==
    /\ task[j].at = "finish" /\ task[j].st = "completed" /\ task[j].kind = "backup"
    /\ \E out \in Outcomes :
        /\ SaveJob(j, Terminal(j), out, FALSE)
        /\ IF out = "ok" THEN IF Local(j) THEN Step(j, "retention") ELSE AfterRetention(j)
           ELSE IF Applied(out) THEN Step(j, "again")
           ELSE task' = [task EXCEPT ![j].at = "finish", ![j].st = "failed"]
    /\ UNCHANGED <<storeVars, outside, planVars, evidence, clock, ops>>

\* The run's record again, with the warnings of retention.
SaveFinal(j) ==
    /\ task[j].at = "final"
    /\ \E out \in Outcomes :
        /\ SaveJob(j, Terminal(j), out, FALSE)
        /\ IF out = "ok" THEN Release(j) ELSE Step(j, "again")
    /\ UNCHANGED <<storeVars, outside, planVars, evidence, clock, ops>>

\* The result of a drill, restore, verification or retention check.
SaveResult(j) ==
    /\ task[j].at = "finish" /\ task[j].kind # "backup"
    /\ \E out \in Outcomes :
        /\ SaveJob(j, Terminal(j), out, ~Applied(out))
        /\ IF out \in {"warn", "after"} THEN Step(j, "again") ELSE Leave(j)
    /\ UNCHANGED <<storeVars, outside, planVars, evidence, clock, ops>>

\* The same result with a warning added.
SaveAgain(j) ==
    /\ task[j].at = "again"
    /\ \E out \in Outcomes : SaveJob(j, Terminal(j), out, TRUE)
    /\ Leave(j)
    /\ UNCHANGED <<storeVars, outside, planVars, evidence, clock, ops>>

-----------------------------------------------------------------------------
(* The scheduler                                                            *)

HasWindow == WindowStart # WindowEnd
Within(when) ==
    LET m == when % Day IN
    IF ~HasWindow THEN TRUE
    ELSE IF WindowStart < WindowEnd THEN m >= WindowStart /\ m < WindowEnd
    ELSE m >= WindowStart \/ m < WindowEnd

\* nextScheduleWindowStart
WindowStartAfter(when) ==
    LET m == when % Day
        today == when - m + WindowStart
    IN  IF WindowStart < WindowEnd
        THEN IF m < WindowEnd THEN today ELSE today + Day
        ELSE IF m >= WindowStart \/ m >= WindowEnd THEN today ELSE today - Day

\* adjustNextRunForScheduleWindow
Adjusted(next) ==
    IF ~HasWindow \/ Within(next) THEN next
    ELSE IF next < clock THEN WindowStartAfter(clock) ELSE WindowStartAfter(next)

\* nextRunAtLocked: the interval after the last scheduled start or the last
\* run, whichever is later.
NextRunAt(st) ==
    LET bases == (IF st.sched = None THEN {} ELSE {st.sched})
                 \cup (IF st.run.st = "none" THEN {} ELSE {st.run.t})
    IN  IF bases = {} THEN Adjusted(clock)
        ELSE Adjusted((CHOOSE b \in bases : \A c \in bases : c <= b) + Interval)

\* Variant: the last scheduled start is ignored.
DueFromRuns(j) ==
    LET st == memState[j] IN
    /\ Within(clock) /\ ~Held(j)
    /\ \/ st.run.st \notin {"completed", "running"}
       \/ Adjusted(st.run.t + Interval) <= clock

Due(j) == Within(clock) /\ ~Held(j) /\ NextRunAt(memState[j]) <= clock

\* RunDueJobs lists the due jobs and then runs them one after the other.
ListDue ==
    /\ manager = "open" /\ dueList = {}
    /\ \A j \in Jobs : Held(j) => task[j].trig # "scheduled"
    /\ dueList' = {j \in Jobs : Due(j)} /\ dueList' # {}
    /\ UNCHANGED <<manager, stateVars, task, storeVars, outside, batch, lastWork, evidence,
                   clock, ops, budget>>

\* A listed job is run without looking at its times again; one that is
\* busy, and every job once the manager closes, is passed over.
RunDue(j) ==
    /\ j \in dueList /\ \A k \in Jobs : Held(k) => task[k].trig # "scheduled"
    /\ dueList' = dueList \ {j}
    /\ IF manager = "open" /\ ~Held(j) THEN BeginJob(j, "backup", "scheduled")
       ELSE UNCHANGED <<task, ops>>
    /\ UNCHANGED <<manager, stateVars, storeVars, outside, batch, lastWork, evidence, clock,
                   budget>>

\* restoreDrillReminderEventLocked
ReminderDue(j) ==
    LET st == memState[j] IN
    /\ st.ok.st = "completed"
    /\ st.remind # None => clock - st.remind >= Cooldown
    /\ \/ st.drill.st = "none" /\ clock - st.ok.t > StaleAfter
       \/ st.drill.st = "completed" /\ clock - st.drill.t > StaleAfter

\* SendRestoreDrillReminders: sent first, then recorded.
Remind(j) ==
    /\ manager = "open" /\ ReminderDue(j)
    /\ \E out \in Outcomes :
        SaveJob(j, [memState[j] EXCEPT !.remind = clock], out, FALSE)
    /\ UNCHANGED <<task, storeVars, outside, planVars, evidence, clock, ops>>

-----------------------------------------------------------------------------
(* Batch restores                                                           *)

\* RunBatchRestorePreview, one item: a readable snapshot and a free target.
Previewable(j) ==
    /\ manager = "open" /\ ~Held(j) /\ target[j] = None
    /\ IF Local(j) THEN memState[j].ok.st = "completed" /\ Intact(j, memState[j].ok)
       ELSE remote[j] # None

StartBatch ==
    /\ batch = NoBatch /\ manager = "open" /\ ops < MaxOps
    /\ \E j \in Jobs, k \in Jobs :
        LET items == IF j = k THEN <<j>> ELSE <<j, k>>
        IN  batch' = [phase |-> "preview", todo |-> items, rest |-> items, id |-> 0]
    /\ UNCHANGED <<manager, stateVars, task, storeVars, outside, dueList, lastWork, evidence,
                   clock, ops, budget>>

\* Every item is previewed before any is restored; one failure ends it.
PreviewNext ==
    /\ batch.phase = "preview"
    /\ batch' = IF batch.rest = <<>> THEN [batch EXCEPT !.phase = "restore"]
                ELSE IF Previewable(Head(batch.rest)) THEN [batch EXCEPT !.rest = Tail(@)]
                ELSE NoBatch
    /\ UNCHANGED <<manager, stateVars, task, storeVars, outside, dueList, lastWork, evidence,
                   clock, ops, budget>>

\* The items are restored in order, each then verified; a failed item does
\* not stop the others.
RestoreNext ==
    /\ batch.phase = "restore"
    /\ LET j == Head(batch.todo) IN
       IF batch.todo = <<>> THEN batch' = NoBatch /\ UNCHANGED <<task, ops>>
       ELSE IF manager = "open" /\ ~Held(j) /\ ops < MaxOps
       THEN BeginJob(j, "restore", "batch") /\ batch' = [batch EXCEPT !.phase = "verify", !.id = ops + 1]
       ELSE batch' = [batch EXCEPT !.todo = Tail(@)] /\ UNCHANGED <<task, ops>>
    /\ UNCHANGED <<manager, stateVars, storeVars, outside, dueList, lastWork, evidence, clock,
                   budget>>

VerifyNext ==
    /\ batch.phase = "verify"
    /\ LET j == Head(batch.todo) IN
       /\ Held(j) => task[j].trig # "batch"
       /\ IF /\ memState[j].restore.id = batch.id /\ memState[j].restore.st = "completed"
             /\ manager = "open" /\ ~Held(j) /\ ops < MaxOps
          THEN BeginJob(j, "verify", "batch") ELSE UNCHANGED <<task, ops>>
       /\ batch' = [batch EXCEPT !.phase = "restore", !.todo = Tail(@)]
    /\ UNCHANGED <<manager, stateVars, storeVars, outside, dueList, lastWork, evidence, clock,
                   budget>>

-----------------------------------------------------------------------------
(* Readiness evidence                                                       *)

\* The manifest's file identity as the cache sees it.
Token(j) ==
    IF Snap(j, memState[j].ok.snap) = {} THEN None
    ELSE IF \E s \in Snap(j, memState[j].ok.snap) : s.rot = "manifest" THEN "changed"
    ELSE "written"

\* Variant: the cache does not look at the file's identity.
CachedByRun(j) == evidence[j].id = memState[j].ok.id /\ evidence[j].id # 0
Cached(j) == evidence[j].id = memState[j].ok.id /\ evidence[j].token = Token(j) /\ evidence[j].id # 0

\* readinessSuccessfulRunMatchesJob
HasSuccessfulEvidence(j) ==
    /\ memState[j].ok.st = "completed"
    /\ \/ ~Local(j)
       \/ Token(j) # None /\ IF Cached(j) THEN evidence[j].valid ELSE Token(j) = "written"

\* ReadinessSnapshot fills the cache.
CheckReadiness(j) ==
    /\ manager # "down" /\ Local(j) /\ memState[j].ok.st = "completed"
    /\ evidence' = [evidence EXCEPT ![j] =
         IF Token(j) = None THEN [id |-> 0, token |-> None, valid |-> FALSE]
         ELSE [id |-> memState[j].ok.id, token |-> Token(j), valid |-> HasSuccessfulEvidence(j)]]
    /\ evidence' # evidence
    /\ UNCHANGED <<manager, stateVars, task, storeVars, outside, planVars, clock, ops, budget>>

-----------------------------------------------------------------------------
(* Close, restart, failures and the outside                                 *)

NoEvidence == [j \in Jobs |-> [id |-> 0, token |-> None, valid |-> FALSE]]

\* Close: nothing begins any more; the state lock is released when the last
\* operation and the scheduler have ended.
Close ==
    /\ manager \in {"open", "unsafe"} /\ manager' = "closing"
    /\ UNCHANGED <<stateVars, task, storeVars, outside, planVars, evidence, clock, ops, budget>>

ReleaseStateLock ==
    /\ manager = "closing" /\ dueList = {} /\ \A j \in Jobs : ~Held(j)
    /\ manager' = "down" /\ memState' = [j \in Jobs |-> NoJobState]
    /\ batch' = NoBatch /\ evidence' = NoEvidence
    /\ UNCHANGED <<fileState, fileKept, task, storeVars, outside, dueList, lastWork, clock, ops,
                   budget>>

\* recoverInterruptedJobStates
Interrupted(r, t) == IF r.st = "running" THEN [r EXCEPT !.st = "failed", !.t = t] ELSE r
Recovered(st) ==
    LET restore == Interrupted(st.restore, 0) IN
    [st EXCEPT !.run = Interrupted(@, clock), !.drill = Interrupted(@, clock),
               !.verify = Interrupted(@, 0), !.check = Interrupted(@, 0), !.restore = restore,
               !.hist = IF st.restore.st = "running" THEN Prepend(@, restore) ELSE @]

\* NewManager: an interrupted operation is recorded as failed; a save that
\* fails, or is only a warning, keeps the manager from starting.
Open ==
    /\ manager = "down"
    /\ LET loaded == [j \in Jobs |-> Recovered(fileState[j])] IN
       \/ /\ loaded = fileState /\ memState' = loaded /\ manager' = "open" /\ NoFault
          /\ UNCHANGED <<fileState, fileKept>>
       \/ /\ loaded # fileState /\ NoFault /\ manager' = "open"
          /\ memState' = loaded /\ fileState' = loaded /\ fileKept' = loaded
       \/ /\ loaded # fileState /\ Faulty
          /\ fileState' \in {fileState, loaded}
          /\ UNCHANGED <<manager, memState, fileKept>>
    /\ UNCHANGED <<task, storeVars, outside, planVars, evidence, clock, ops>>

Stopped ==
    /\ manager' = "down" /\ memState' = [j \in Jobs |-> NoJobState]
    /\ task' = [j \in Jobs |-> Free]
    /\ dueList' = {} /\ batch' = NoBatch /\ evidence' = NoEvidence

\* A kill may catch a removal half way.
Kill ==
    /\ manager # "down" /\ Spend("crashes", MaxBackupCrashes) /\ Stopped
    /\ \E cut \in {{}} \cup {Snap(s.job, s.id) :
                            s \in UNION {task[j].todo : j \in {k \in Jobs : Held(k)}}} :
        Tear(cut)
    /\ UNCHANGED <<fileState, fileKept, remote, outside, lastWork, clock, ops>>

\* A power loss also takes what was not synced: a rename is there or not,
\* a removed snapshot may come back, whole or in part.
PowerLoss ==
    /\ Spend("crashes", MaxBackupCrashes) /\ Stopped
    /\ fileState' \in {fileState, fileKept} /\ fileKept' = fileState'
    /\ \E new \in SUBSET (snaps \ snapsKept), back \in SUBSET (snapsKept \ snaps),
          part \in SUBSET (snapsKept \ snaps) :
        /\ back \cap part = {}
        /\ snaps' = (snaps \cap snapsKept) \cup new \cup back \cup Torn(part)
        /\ snapsKept' = snaps'
    /\ target' \in {target, [j \in Jobs |-> IF target[j] = None THEN None ELSE Lost]}
    /\ UNCHANGED <<remote, credDirs, lastWork, clock, ops>>

\* A stored snapshot is damaged: one of its files, or its manifest.
Damage ==
    /\ Spend("rot", MaxRot)
    /\ \E s \in snaps, what \in {"data", "manifest"} :
        /\ s.rot = "none"
        /\ snaps' = (snaps \ {s}) \cup {[s EXCEPT !.rot = what]}
        /\ snapsKept' = IF s \in snapsKept
                        THEN (snapsKept \ {s}) \cup {[s EXCEPT !.rot = what]} ELSE snapsKept
    /\ UNCHANGED <<manager, stateVars, task, remote, outside, planVars, evidence, clock, ops>>

\* The owner takes a restored tree away.
TakeTarget(j) ==
    /\ target[j] # None /\ ops < MaxOps /\ target' = [target EXCEPT ![j] = None]
    /\ UNCHANGED <<manager, stateVars, task, storeVars, credDirs, planVars, evidence,
                   clock, ops, budget>>

\* The wall clock goes on, and may be set back.
Tick ==
    /\ \/ clock < MaxClock /\ clock' = clock + 1 /\ NoFault
       \/ clock > 0 /\ clock' = clock - 1 /\ Spend("rot", MaxRot)
    /\ UNCHANGED <<manager, stateVars, task, storeVars, outside, planVars, evidence, ops>>

-----------------------------------------------------------------------------
BackupInit ==
    /\ manager = "open"
    /\ memState = [j \in Jobs |-> NoJobState]
    /\ fileState = memState /\ fileKept = memState
    /\ task = [j \in Jobs |-> Free]
    /\ snaps = {} /\ snapsKept = {}
    /\ remote = [j \in Jobs |-> None] /\ target = [j \in Jobs |-> None]
    /\ credDirs = {} /\ dueList = {} /\ batch = NoBatch /\ evidence = NoEvidence
    /\ clock = 0 /\ lastWork = [j \in Jobs |-> None] /\ ops = 0
    /\ budget = [faults |-> 0, crashes |-> 0, rot |-> 0]

Operation(j) ==
    \/ SaveRunning(j) \/ SaveUndo(j) \/ LockTarget(j) \/ Recheck(j)
    \/ CopySource(j) \/ FinalizeSnapshot(j) \/ SyncSnapshot(j) \/ CheckManifest(j)
    \/ ListSnapshots(j) \/ RemoveSnapshot(j) \/ SyncRetention(j) \/ CheckRetention(j)
    \/ Drill(j) \/ StageRestore(j) \/ Install(j) \/ VerifyTarget(j)
    \/ CaptureCredentials(j) \/ RemoteBackup(j) \/ RemoteDrill(j) \/ RemoteRestore(j)
    \/ SaveFailed(j) \/ SaveCompleted(j) \/ SaveFinal(j) \/ SaveResult(j) \/ SaveAgain(j)

BackupNext ==
    \/ \E j \in Jobs :
        \/ \E kind \in {"backup", "drill", "restore", "verify", "check"} : Request(j, kind)
        \/ Operation(j) \/ RunDue(j) \/ Remind(j) \/ CheckReadiness(j) \/ TakeTarget(j)
    \/ ListDue \/ StartBatch \/ PreviewNext \/ RestoreNext \/ VerifyNext
    \/ Close \/ ReleaseStateLock \/ Open \/ Kill \/ PowerLoss \/ Damage \/ Tick

BackupSpec == BackupInit /\ [][BackupNext]_backupVars

-----------------------------------------------------------------------------
(* Properties                                                               *)

Stored(S, j, id) == \E s \in S : s.job = j /\ s.id = id /\ s.rot # "torn"
Needed(st) == Referenced(st) \cup (IF st.ok.st = "completed" THEN {st.ok.snap} ELSE {})

\* Whatever retention removed and wherever a kill or a power loss hit, the
\* snapshot of the last successful run and those of the restores on record
\* are there: in memory, in the visible state file, and in the state file and
\* the directory a power loss leaves (applyRetention, runJobWithTrigger).
RestorableKept ==
    \A j \in Jobs \ RemoteJobs :
        /\ \A id \in Needed(memState[j]) \cup Needed(fileState[j]) : Stored(snaps, j, id)
        /\ \A id \in Needed(fileKept[j]) : Stored(snapsKept, j, id)

\* A job nobody works on has no result that still says running, whichever of
\* its saves failed (recordVolatileLastRun, recoverInterruptedJobStates).
SettledStatus ==
    \A j \in Jobs : manager # "down" /\ ~Held(j) =>
        \A f \in {"run", "restore", "drill", "verify", "check"} : memState[j][f].st # "running"

\* Damage to a snapshot never reaches a restored tree, and the restore on
\* record as the latest put there what its backup run captured, unless the
\* tree was taken away or lost with the power, or the next restore is under
\* way (restoreManifestToTarget).
RestoredFaithful ==
    \A j \in Jobs \ RemoteJobs :
        /\ target[j] # Rotten
        /\ LET hist == memState[j].hist IN
           hist # <<>> /\ hist[1].st = "completed" /\ task[j].kind # "restore" =>
               target[j] \in {None, Lost, hist[1].snap}

\* The scheduler finds a job due again only an interval after the start of
\* its last scheduled run, a crash during that run included (nextRunAtLocked,
\* updateLastRunWithScheduledAt).
ScheduledApart ==
    [][\A j \in dueList' \ dueList :
          lastWork[j] = None \/ clock >= lastWork[j] + Interval]_backupVars

\* Readiness never reports a successful backup whose manifest is gone or was
\* altered, however old its cache entry is (readinessSuccessfulRunMatchesJob).
EvidenceHonest ==
    \A j \in Jobs \ RemoteJobs : HasSuccessfulEvidence(j) =>
        \E s \in Snap(j, memState[j].ok.snap) : s.rot # "manifest"
=============================================================================
