---------------------------- MODULE TrashTransfer ----------------------------
(***************************************************************************)
(* Delete-to-Trash, restore-from-Trash and the purge of Trash items        *)
(* (storage/trash_transfer_*.go, trash_purge_*.go, the trash operations of *)
(* versionstore and api/trash_participant.go), with kills, power losses,   *)
(* failing calls and the recovery at startup.                              *)
(*                                                                         *)
(* All of it runs under the storage lock, one operation at a time (`job`), *)
(* as a list of steps; only edits of shares and favorites interleave.  A   *)
(* step has three outcomes: "ok", "fail" (no effect) and "lag" (visible,   *)
(* but the sync of the directory failed).  A kill in the middle of a step  *)
(* is a "lag" or "torn" outcome followed by Kill or PowerLoss.             *)
(***************************************************************************)
EXTENDS TrashParticipant, Sequences, SequencesExt

CONSTANTS
    Ids,         \* trash ids, each used by at most one deletion
    Paths,       \* logical paths
    Trees,       \* trees that can exist; a tree saved as a version is its object
    ShareIds,    \* shares
    NoTree, Stage, NoPlan,
    TornReplica, \* removing the replica of a ready deletion can stop half way
    MaxEdits,    \* bound: edits of shares and favorites
    MaxFaults,   \* bound: steps that fail
    MaxCrashes,  \* bound: kills and power losses
    MaxJobs      \* bound: deletions, restores and purges started

ASSUME TrashAssumption ==
    /\ TornReplica \in BOOLEAN /\ NoTree \notin Trees
    /\ MaxEdits \in Nat /\ MaxFaults \in Nat /\ MaxCrashes \in Nat /\ MaxJobs \in Nat
    /\ Stage \notin Paths \cup Ids

VARIABLES
    files, filesDur,     \* workspace: paths and the operation's private stage
    trash, trashDur,     \* Trash root: items and the operation's private container
    bin, binDur,         \* .deleting: stage and records of each item's purge
    journal, journalDur, \* .transactions: checkpoints of the transfer
    plan,                \* what the checkpoints of the transfer say
    meta,                \* what the Trash row of each item says
    rows, index, oprow,  \* SQLite: Trash rows, file index, the outbox row
    vrows, cas,          \* SQLite: version rows of a path; objects
    hashes,              \* version hashes captured by an item's purge record
    share, shareDur, fav, favDur, \* participant stores: visible, durable
    job,                 \* the operation that holds the lock
    blocked,             \* trashMutationBlocked
    sys,                 \* "up", "starting", "down", "refused" (startup failed by itself)
    owed,                \* trees users still count on: neither overwritten nor purged (history)
    offBy, offByDur,     \* the deletion that disabled a share, until an edit of it (history)
    risky,               \* a deletion was committed on an unsynced capture (history)
    carried,             \* roots that had unsynced changes when the process started (history)
    stale,               \* a power loss took back changes of an earlier process (history)
    edits, faults, crashes, jobs

diskVars == <<files, filesDur, trash, trashDur, bin, binDur, journal, journalDur>>
dbVars == <<meta, rows, index, oprow, vrows, cas, hashes>>
storeVars == <<share, shareDur, fav, favDur>>
runVars == <<job, blocked, sys>>
lossVars == <<risky, carried, stale>>
histVars == <<owed, offBy, offByDur, lossVars>>
bound == <<edits, faults, crashes, jobs>>
vars == <<diskVars, plan, dbVars, storeVars, runVars, histVars, bound>>

-----------------------------------------------------------------------------
(* Trees in places                                                          *)

Val(st, t) == [st |-> st, tree |-> t]
Gone == Val("absent", NoTree)
Marked == Val("marked", NoTree)   \* an owned container with its marker
Cut == Val("cut", NoTree)         \* the same with a marker cut short
Empty == Val("empty", NoTree)     \* the same without a marker
Whole(t) == Val("whole", t)
Part(t) == Val("partial", t)
Idle == [kind |-> "none", at |-> "idle", how |-> "run", rec |-> "none", id |-> NoTree,
         sub |-> 1, try |-> 1, warn |-> FALSE, hard |-> {}]

\* The steps in the order of commitJournaledTrashDeleteLocked, restoreTrashTransferLocked
\* and permanentlyDeleteTrashItem.
DeleteSteps ==
    <<"prepared", "box", "copying", "unmark", "capture", "copy", "ready", "publish", "apply",
      "commit", "committed", "applied", "remove", "completed", "complete", "ack", "clean">>
RestoreSteps ==
    <<"prepared", "box", "copying", "unmark", "copy", "ready", "publish", "commit",
      "committed", "applied", "remove", "completed", "complete", "ack", "clean">>
PurgeSteps ==
    <<"purgePrepared", "purgeMove", "purgeRow", "purgeCommitted", "purgeRemove",
      "purgeVersions", "purgeComplete", "purgeClean">>
Steps == [delete |-> DeleteSteps, restore |-> RestoreSteps, purge |-> PurgeSteps]

Decisions == <<"prepared", "copying", "ready", "committed", "completed">>
Following(k, step) ==
    LET i == CHOOSE n \in 1..Len(Steps[k]) : Steps[k][n] = step
    IN IF i = Len(Steps[k]) THEN "done" ELSE Steps[k][i + 1]

\* Advance to the next step of the job.
Onward == job' = [job EXCEPT !.at = IF @ = "publish" /\ job.how = "start" THEN "committed"
                                   ELSE Following(job.kind, @), 
                                   !.sub = 1, !.try = 1, !.warn = FALSE, !.hard = {}]
At(at) == job.at = at /\ sys \in {"up", "starting"}
Running == job.how = "run"

\* Outcomes of a step, and what they cost.
Outcome(o) == faults' = faults + (IF o = "ok" THEN 0 ELSE 1) /\ faults' <= MaxFaults
Free == sys = "up" /\ job = Idle /\ ~blocked

\* A step syncs the directory it changed an entry of, and no other: what is found done
\* already is not synced again.  The paths and the stage are entries of one directory.
Durable(new, old, oldDur, o) == IF o = "lag" \/ new = old THEN oldDur ELSE new
SetFiles(f, o) == files' = f /\ filesDur' = Durable(f, files, filesDur, o)
SetTrash(t, b, o) ==
    /\ trash' = t /\ bin' = b
    /\ trashDur' = Durable(t, trash, trashDur, o)
    /\ binDur' = Durable(b, bin, binDur, o)
SetJournal(j, o) == journal' = j /\ journalDur' = IF o = "lag" THEN journalDur ELSE j
KeepFiles == UNCHANGED <<files, filesDur>>
KeepTrash == UNCHANGED <<trash, trashDur, bin, binDur>>
KeepJournal == UNCHANGED <<journal, journalDur>>
Keep == UNCHANGED <<plan, owed, lossVars, edits, crashes, jobs>>
KeepStores == UNCHANGED <<storeVars, offBy, offByDur>>
KeepDb == UNCHANGED dbVars

\* blockTrashTransferLocked: the request answers, mutations stop until recovery; an
\* error of the recovery itself ends the process.
Stop(injected) ==
    /\ job' = Idle
    /\ IF Running THEN blocked' = TRUE /\ UNCHANGED sys
       ELSE sys' = (IF injected THEN "down" ELSE "refused") /\ UNCHANGED blocked
\* A request that ends with an error and nothing to recover.
End == job' = Idle /\ UNCHANGED <<blocked, sys>>
RollBack(rec) ==
    job' = [job EXCEPT !.at = "undo", !.rec = rec, !.sub = 1] /\ UNCHANGED <<blocked, sys>>
Go == Onward /\ UNCHANGED <<blocked, sys>>

-----------------------------------------------------------------------------
(* Checkpoints                                                              *)

\* publishTrashTransferJournalRecord: temporary file, rename, sync of the directory.
\* A prepared record that was not published leaves nothing; a copying or ready record
\* that was not published rolls back; every other failure waits for recovery.
PublishRecord(o) ==
    /\ At(job.at) /\ job.at \in Range(Decisions) /\ Outcome(o)
    /\ IF o = "fail" THEN KeepJournal ELSE SetJournal(journal \cup {job.at}, o)
    /\ CASE o = "ok" -> Go
         [] o = "fail" /\ Running /\ job.at = "prepared" -> End
         [] o = "fail" /\ Running /\ job.at = "copying" -> RollBack("prepared")
         [] o = "fail" /\ Running /\ job.at = "ready" -> RollBack("ready")
         [] OTHER -> Stop(TRUE)
    /\ KeepFiles /\ KeepTrash /\ KeepStores /\ KeepDb /\ Keep

\* removeTrashTransferJournalFile: checked removal of one record and sync of its directory.
RemoveJournalFile(d) == SetJournal(journal \ {d}, "ok") /\ UNCHANGED <<job, blocked, sys>>

\* completeTrashTransferJournal: lowest record first, each removal synced; a failure
\* puts the completed record back and waits for recovery.
CleanRecord(o) ==
    LET left == SelectSeq(Decisions, LAMBDA d : d \in journal) IN
    /\ At("clean") /\ left # <<>> /\ Outcome(o)
    /\ CASE o = "ok" -> RemoveJournalFile(left[1])
         [] o = "fail" -> KeepJournal /\ Stop(TRUE)
         [] OTHER -> /\ journal' = (journal \ {left[1]}) \cup {"completed"}
                     /\ journalDur' \in {journalDur, journal'}
                     /\ Stop(TRUE)
    /\ KeepFiles /\ KeepTrash /\ KeepStores /\ KeepDb /\ Keep

\* removeEmptyTrashTransferJournalDir: .transactions goes, and the Trash root is synced.
RemoveJournalDir ==
    trashDur' = trash /\ UNCHANGED <<files, filesDur, trash, bin, binDur, journal, journalDur>>

\* The end of a transfer; a recovery goes on to the next one, of which there is none.
Cleaned ==
    /\ At("clean") /\ journal = {}
    /\ job' = Idle /\ sys' = "up" /\ blocked' = FALSE
    /\ RemoveJournalDir
    /\ UNCHANGED <<plan, dbVars, storeVars, histVars, bound>>

-----------------------------------------------------------------------------
(* Deletion and restore, step by step                                       *)

Present(v) == v # Gone

\* Every operation has private names of its own; the model has one, and starts the next
\* operation only while nothing is left under it.
StageFree == ~Present(files[Stage]) /\ ~Present(trash[Stage])

\* commitJournaledTrashDeleteLocked: capture, participant snapshot, ids, plan.
Delete(i, p) ==
    /\ Free /\ jobs < MaxJobs /\ jobs' = jobs + 1
    /\ meta[i] = NoPlan /\ files[p].st = "whole" /\ StageFree
    /\ plan' = [kind |-> "delete", id |-> i, orig |-> p, dest |-> p, tree |-> files[p].tree,
                had |-> vrows[p] # {}, shares |-> PlanShares(share, p), favs |-> PlanFavorites(fav, p)]
    /\ job' = [Idle EXCEPT !.kind = "delete", !.at = "prepared", !.id = i]
    /\ UNCHANGED <<diskVars, dbVars, storeVars, blocked, sys, histVars, edits, faults, crashes>>

\* validateTrashRestoreDestinationLocked: history moves with an item only if no other
\* path or item could claim it.
RestoreAllowed(m, i, q) ==
    /\ ~Present(files[q])
    /\ (m.had /\ q # m.orig) =>
          /\ ~Present(files[m.orig]) /\ vrows[q] = {}
          /\ \A j \in rows \ {i} : meta[j].had => meta[j].orig \notin {m.orig, q}

Restore(i, q) ==
    /\ Free /\ jobs < MaxJobs /\ jobs' = jobs + 1
    /\ i \in rows /\ RestoreAllowed(meta[i], i, q) /\ trash[i] = Whole(meta[i].tree) /\ StageFree
    /\ plan' = [meta[i] EXCEPT !.kind = "restore", !.dest = q]
    /\ job' = [Idle EXCEPT !.kind = "restore", !.at = "prepared", !.id = i]
    /\ UNCHANGED <<diskVars, dbVars, storeVars, blocked, sys, histVars, edits, faults, crashes>>

\* The owned container: in Trash for a deletion, in the workspace for a restore.
SetBox(v, o) ==
    IF job.kind = "delete" THEN SetTrash([trash EXCEPT ![Stage] = v], bin, o) /\ KeepFiles
    ELSE SetFiles([files EXCEPT ![Stage] = v], o) /\ KeepTrash

\* createPreparedTrashTransferOwnedContainer: the directory, then the marker, written in
\* place; a kill or a failed write can leave the directory with part of it or without it.
CreateBox(o) ==
    /\ At("box") /\ Outcome(o)
    /\ IF o = "fail" THEN KeepFiles /\ KeepTrash
       ELSE \E v \in {Marked, Cut, Empty} : (o = "ok" => v = Marked) /\ SetBox(v, o)
    /\ IF o = "ok" THEN Go ELSE RollBack("prepared")
    /\ KeepJournal /\ KeepStores /\ KeepDb /\ Keep

RemoveMarker(o) ==
    /\ At("unmark") /\ Outcome(o)
    /\ IF o = "fail" THEN KeepFiles /\ KeepTrash ELSE SetBox(Empty, o)
    /\ IF o = "ok" THEN Go ELSE Stop(TRUE)
    /\ KeepJournal /\ KeepStores /\ KeepDb /\ Keep

\* stageDeleteTargetAtLocked: no-replace rename of the tree to the workspace stage; a
\* failed sync of the directories is a warning.
CaptureSource(o) ==
    /\ At("capture") /\ Outcome(o)
    /\ IF o = "fail" THEN KeepFiles /\ RollBack("copying")
       ELSE SetFiles([files EXCEPT ![plan.orig] = Gone, ![Stage] = files[plan.orig]], o) /\ Go
    /\ KeepTrash /\ KeepJournal /\ KeepStores /\ KeepDb /\ Keep

\* The replica is complete and synced, or the copy stops half way.
CopyContent(o) ==
    /\ At("copy") /\ Outcome(o)
    /\ SetBox(IF o = "ok" THEN Whole(plan.tree) ELSE Part(plan.tree), o)
    /\ IF o = "ok" THEN Go ELSE RollBack("copying")
    /\ KeepJournal /\ KeepStores /\ KeepDb /\ Keep

\* publishDeleteTrashTransferItem: the container becomes the Trash item.
PublishItem(o) ==
    /\ At("publish") /\ job.kind = "delete" /\ Outcome(o)
    /\ IF o = "fail" THEN KeepTrash
       ELSE SetTrash([trash EXCEPT ![Stage] = Gone, ![plan.id] = Whole(plan.tree)], bin, o)
    /\ IF o = "ok" THEN Go ELSE RollBack("ready")
    /\ KeepFiles /\ KeepJournal /\ KeepStores /\ KeepDb /\ Keep

\* publishRestoreTrashTransferDestination: content to destination, then the empty
\* container is removed.
PublishDestination(o) ==
    /\ At("publish") /\ job.kind = "restore" /\ Outcome(o)
    /\ IF o = "fail" THEN KeepFiles
       ELSE \E box \in {Gone, Empty} :
              /\ o = "ok" => box = Gone
              /\ SetFiles([files EXCEPT ![Stage] = box, ![plan.dest] = Whole(plan.tree)], o)
    /\ IF o = "ok" THEN Go ELSE IF Running THEN RollBack("ready") ELSE Stop(TRUE)
    /\ KeepTrash /\ KeepJournal /\ KeepStores /\ KeepDb /\ Keep

\* CommitTrashDelete, CommitTrashRestore: one SQLite transaction.
Committed ==
    IF job.kind = "delete"
    THEN /\ rows' = rows \cup {plan.id} /\ meta' = [meta EXCEPT ![plan.id] = plan]
         /\ index' = index \ {plan.orig} /\ UNCHANGED vrows
    ELSE /\ rows' = rows \ {plan.id} /\ index' = index \cup {plan.dest}
         /\ vrows' = IF plan.had /\ plan.dest # plan.orig
                       THEN [vrows EXCEPT ![plan.dest] = vrows[plan.orig], ![plan.orig] = {}]
                       ELSE vrows
         /\ UNCHANGED meta

\* resolveTrashDeleteCommit, resolveTrashRestoreCommit: an error is resolved by reading
\* the outbox row; when that cannot be read either, the outcome is left to recovery.
CommitDb(o) ==
    /\ At("commit") /\ Outcome(o)
    /\ CASE o = "ok" -> Committed /\ oprow' = TRUE /\ Go
         [] o = "fail" -> UNCHANGED <<rows, meta, index, vrows, oprow>> /\ RollBack("ready")
         [] OTHER -> /\ \/ Committed /\ oprow' = TRUE
                        \/ UNCHANGED <<rows, meta, index, vrows, oprow>>
                     /\ Stop(TRUE)
    /\ risky' = (risky \/ files # filesDur)
    /\ UNCHANGED <<cas, hashes, plan, owed, carried, stale, edits, crashes, jobs>>
    /\ KeepFiles /\ KeepTrash /\ KeepJournal /\ KeepStores

\* removeCommittedDeleteTransferSource, removeCommittedRestoreTrashSource: the other
\* copy is verified first; the source may be partly gone already.
SourceRemovable ==
    IF job.kind = "delete" THEN ~Present(files[plan.orig]) /\ trash[plan.id] = Whole(plan.tree)
    ELSE ~Present(files[Stage]) /\ files[plan.dest] = Whole(plan.tree)

RemoveSource(o) ==
    /\ At("remove") /\ Outcome(o)
    /\ o \in {"lag", "torn"} => Present(IF job.kind = "delete" THEN files[Stage] ELSE trash[plan.id])
    /\ IF ~SourceRemovable \/ o = "fail" THEN KeepFiles /\ KeepTrash
       ELSE LET v == IF o = "torn" THEN Part(plan.tree) ELSE Gone
                d == IF o = "ok" THEN "ok" ELSE "lag"
            IN IF job.kind = "delete" THEN SetFiles([files EXCEPT ![Stage] = v], d) /\ KeepTrash
               ELSE SetTrash([trash EXCEPT ![plan.id] = v], bin, d) /\ KeepFiles
    /\ IF SourceRemovable /\ o = "ok" THEN Go ELSE Stop(o # "ok")
    /\ KeepJournal /\ KeepStores /\ KeepDb /\ Keep

\* CompleteTrashOperation: the outbox row goes.
Acknowledge(o) ==
    /\ At("ack") /\ Outcome(o)
    /\ oprow' = (oprow /\ o = "fail")
    /\ IF o = "ok" THEN Go ELSE Stop(TRUE)
    /\ UNCHANGED <<meta, rows, index, vrows, cas, hashes>>
    /\ KeepFiles /\ KeepTrash /\ KeepJournal /\ KeepStores /\ Keep

-----------------------------------------------------------------------------
(* Telling shares and favorites                                             *)

Payload == IF job.kind = "purge" THEN meta[job.id] ELSE plan
Planned(which) == IF which = "share" THEN Payload.shares ELSE Payload.favs

\* Deletions and restores apply shares first; completions take favorites first.
Called ==
    IF job.at \in {"apply", "applied"} THEN <<"share", "fav">>[job.sub] ELSE <<"fav", "share">>[job.sub]

CallShares ==
    CASE job.at \in {"apply", "applied"} /\ job.kind = "delete" ->
            ApplyDeleteShares(share, job.id, plan.shares, job.at = "applied")
      [] job.at = "applied" /\ job.kind = "restore" ->
            ApplyRestoreShares(share, job.id, job.id, plan.shares, plan.dest)
      [] job.at = "complete" /\ job.kind = "delete" -> CompleteDelete(share, job.id)
      [] job.at = "complete" /\ job.kind = "restore" -> CompleteRestore(share, job.id)
      [] OTHER -> PurgeCompleted(share, job.id)

CallFavorites ==
    CASE job.at \in {"apply", "applied"} /\ job.kind = "delete" ->
            ApplyDeleteFavorites(fav, job.id, plan.favs, job.at = "applied")
      [] job.at = "applied" /\ job.kind = "restore" ->
            ApplyRestoreFavorites(fav, job.id, job.id, plan.favs, plan.dest)
      [] job.at = "complete" /\ job.kind = "delete" -> CompleteDeleteFavorites(fav, job.id)
      [] job.at = "complete" /\ job.kind = "restore" -> CompleteRestoreFavorites(fav, job.id)
      [] OTHER -> PurgeCompletedFavorites(fav, job.id)

\* persistSnapshot: memory follows the file; a failed directory sync is a warning.
SaveShares(s, o) ==
    /\ share' = s /\ shareDur' = IF o = "lag" THEN shareDur ELSE s
    /\ offBy' = [x \in ShareIds |->
                   IF s.shares[x] = NoShare \/ s.shares[x].on THEN NoTree
                   ELSE IF share.shares[x] # NoShare /\ share.shares[x].on
                     THEN IF x \in s.del[job.id].blocked THEN NoTree ELSE job.id
                   ELSE IF job.kind = "purge" /\ offBy[x] = job.id THEN NoTree ELSE offBy[x]]
    /\ offByDur' = IF o = "lag" THEN offByDur ELSE offBy'
    /\ UNCHANGED <<fav, favDur>>
SaveFavorites(s, o) ==
    fav' = s /\ favDur' = (IF o = "lag" THEN favDur ELSE s) /\ UNCHANGED <<share, shareDur, offBy, offByDur>>

\* Variant: a warning is taken for success.
DeliveredOnce(j) == IF j.hard # {} THEN Stop("conflict" \notin j.hard) ELSE Go

\* Both stores have been called: deliverTrashParticipantWithDurabilityRetry calls once
\* more after a warning and gives up after a second one.  A precommit tolerates them.
Delivered(j) ==
    IF j.hard # {} THEN Stop("conflict" \notin j.hard)
    ELSE IF ~j.warn \/ j.at = "apply" THEN Go
    ELSE IF j.try = 2 THEN Stop(TRUE)
    ELSE job' = [j EXCEPT !.try = 2, !.sub = 1, !.warn = FALSE] /\ UNCHANGED <<blocked, sys>>

Deliver(o) ==
    /\ At(job.at) /\ job.at \in {"apply", "applied", "complete", "purgeComplete"} /\ job.sub \in {1, 2}
    /\ LET which == Called
           skip == DOMAIN Planned(which) = {}
           res == IF which = "share" THEN CallShares ELSE CallFavorites
           hard == ~skip /\ (res.err \/ o = "fail")
           j == [job EXCEPT !.warn = @ \/ o = "lag",
                            !.hard = @ \cup (IF hard THEN {IF res.err THEN "conflict" ELSE "fault"} ELSE {})]
       IN /\ skip => o = "ok"
          /\ Outcome(o)
          /\ IF skip \/ hard THEN KeepStores
             ELSE IF which = "share" THEN SaveShares(res.st, o) ELSE SaveFavorites(res.st, o)
          /\ CASE hard /\ job.at = "apply" ->
                    IF job.sub = 2 /\ DOMAIN plan.shares # {}
                      THEN job' = [j EXCEPT !.sub = 3] /\ UNCHANGED <<blocked, sys>>
                      ELSE RollBack("ready")
               [] hard /\ job.at = "applied" -> Delivered(j)
               [] job.sub = 1 -> job' = [j EXCEPT !.sub = 2] /\ UNCHANGED <<blocked, sys>>
               [] OTHER -> Delivered(j)
    /\ KeepFiles /\ KeepTrash /\ KeepJournal /\ KeepDb /\ Keep

\* applyDeleteState: favorites refused, so the shares are given back at once.
UndoApply(o) ==
    /\ At("apply") /\ job.sub = 3 /\ Outcome(o)
    /\ LET res == RollbackDeleteShares(share, job.id) IN
       IF res.err \/ o = "fail" THEN KeepStores ELSE SaveShares(res.st, o)
    /\ RollBack("ready")
    /\ KeepFiles /\ KeepTrash /\ KeepJournal /\ KeepDb /\ Keep

-----------------------------------------------------------------------------
(* Rolling a transfer back                                                  *)

Undoing(n) == At("undo") /\ job.sub = n
UndoNext(n) == job' = [job EXCEPT !.sub = n] /\ UNCHANGED <<blocked, sys>>

\* Variant: a container that has lost its marker is foreign.
DeleteUndoableMarkedOnly(d) ==
    /\ Present(files[plan.orig]) # Present(files[Stage])
    /\ Whole(plan.tree) \in {files[plan.orig], files[Stage]}
    /\ ~Present(trash[plan.id]) \/ ~Present(trash[Stage])
    /\ d # "ready" => ~Present(trash[plan.id])
    /\ d = "prepared" => trash[Stage] \in {Gone, Marked}
    /\ d = "ready" => {trash[plan.id], trash[Stage]} \subseteq {Gone, Whole(plan.tree)}

\* preflightPreparedDeleteTrashTransferRollback
DeleteUndoable(d) ==
    /\ Present(files[plan.orig]) # Present(files[Stage])
    /\ Whole(plan.tree) \in {files[plan.orig], files[Stage]}
    /\ ~Present(trash[plan.id]) \/ ~Present(trash[Stage])
    /\ d # "ready" => ~Present(trash[plan.id])
    /\ d = "prepared" => trash[Stage] \in {Gone, Marked, Empty}
    /\ d = "ready" => {trash[plan.id], trash[Stage]} \subseteq {Gone, Whole(plan.tree)}

\* preflightPreparedRestoreTrashTransferRollback
RestoreUndoable(d) ==
    /\ plan.id \in rows /\ trash[plan.id] = Whole(plan.tree)
    /\ d # "ready" => ~Present(files[plan.dest])
    /\ d = "prepared" => files[Stage] \in {Gone, Marked, Empty}
    /\ d = "ready" => files[Stage] \in {Gone, Empty} \/ ~Present(files[plan.dest])

\* restorePreparedDeleteTransferSource after the preflight; a restore has no source to
\* put back and no participant to tell.
UndoSource(o) ==
    LET sane == ~oprow /\ IF job.kind = "delete" THEN DeleteUndoable(job.rec) ELSE RestoreUndoable(job.rec)
        move == job.kind = "delete" /\ Present(files[Stage])
    IN /\ Undoing(1) /\ Outcome(o) /\ (o # "ok" => move /\ sane)
       /\ IF sane /\ move /\ o # "fail"
            THEN SetFiles([files EXCEPT ![plan.orig] = files[Stage], ![Stage] = Gone], o)
            ELSE KeepFiles
       /\ IF sane /\ o = "ok" THEN UndoNext(IF job.kind = "delete" THEN 2 ELSE 4) ELSE Stop(o # "ok")
       /\ KeepTrash /\ KeepJournal /\ KeepStores /\ KeepDb /\ Keep

\* rollbackDeleteState: favorites, then shares; any error or warning stops the rollback.
UndoFavorites(o) ==
    /\ Undoing(2) /\ Outcome(o)
    /\ LET res == RollbackDeleteFavorites(fav, job.id) IN
       /\ IF res.err \/ o = "fail" THEN KeepStores ELSE SaveFavorites(res.st, o)
       /\ job' = [job EXCEPT !.sub = 3, !.hard = IF res.err THEN {"conflict"} ELSE IF o = "ok" THEN {} ELSE {"fault"}]
    /\ UNCHANGED <<blocked, sys>>
    /\ KeepFiles /\ KeepTrash /\ KeepJournal /\ KeepDb /\ Keep

UndoShares(o) ==
    /\ Undoing(3) /\ Outcome(o)
    /\ LET res == RollbackDeleteShares(share, job.id) IN
       /\ IF res.err \/ o = "fail" THEN KeepStores ELSE SaveShares(res.st, o)
       /\ IF ~res.err /\ o = "ok" /\ job.hard = {} THEN UndoNext(4)
          ELSE Stop(~res.err /\ "conflict" \notin job.hard)
    /\ KeepFiles /\ KeepTrash /\ KeepJournal /\ KeepDb /\ Keep

\* removePreparedDeleteTransferReplica and the removals of
\* rollbackPreparedRestoreTrashTransfer.
UndoReplica(o) ==
    LET rest(v) == IF o # "torn" THEN Gone ELSE IF v.tree = NoTree THEN v ELSE Part(plan.tree)
        gone(f, p) == [f EXCEPT ![Stage] = rest(@), ![p] = rest(@)]
        d == IF o = "ok" THEN "ok" ELSE "lag"
    IN /\ Undoing(4) /\ Outcome(o)
       /\ (o = "torn" /\ job.kind = "delete" /\ job.rec = "ready") => TornReplica
       /\ IF o = "fail" THEN KeepFiles /\ KeepTrash
          ELSE IF job.kind = "delete" THEN SetTrash(gone(trash, plan.id), bin, d) /\ KeepFiles
          ELSE SetFiles(gone(files, plan.dest), d) /\ KeepTrash
       /\ IF o = "ok" THEN UndoNext(5) ELSE Stop(TRUE)
       /\ KeepJournal /\ KeepStores /\ KeepDb /\ Keep

\* rollbackTrashTransferJournal: highest record first; a failure puts the prepared
\* record back and waits for recovery.
UndoRecord(o) ==
    LET left == SelectSeq(Reverse(Decisions), LAMBDA d : d \in journal) IN
    /\ Undoing(5) /\ left # <<>> /\ Outcome(o)
    /\ CASE o = "ok" -> RemoveJournalFile(left[1])
         [] o = "fail" -> KeepJournal /\ Stop(TRUE)
         [] OTHER -> /\ journal' = (journal \ {left[1]}) \cup {"prepared"}
                     /\ journalDur' \in {journalDur, journal'}
                     /\ Stop(TRUE)
    /\ KeepFiles /\ KeepTrash /\ KeepStores /\ KeepDb /\ Keep

Undone ==
    /\ Undoing(5) /\ journal = {}
    /\ job' = Idle /\ sys' = "up" /\ blocked' = FALSE
    /\ RemoveJournalDir
    /\ UNCHANGED <<plan, dbVars, storeVars, histVars, bound>>

-----------------------------------------------------------------------------
(* Purging an item                                                          *)

Rec(b, i, recs) == [b EXCEPT ![i].recs = recs]
PurgeFails == job' = [job EXCEPT !.at = "purgeUndo", !.sub = 1] /\ UNCHANGED <<blocked, sys>>

\* DeleteFromTrash, EmptyTrashSelection, CleanupExpiredTrash and ensureTrashCapacityLocked
\* all purge one item after the other; prepareTrashPurge captures the version hashes.
Purge(i) ==
    /\ Free /\ jobs < MaxJobs /\ jobs' = jobs + 1
    /\ i \in rows
    /\ hashes' = [hashes EXCEPT ![i] = IF meta[i].had THEN vrows[meta[i].orig] ELSE {}]
    /\ job' = [Idle EXCEPT !.kind = "purge", !.at = "purgePrepared", !.id = i]
    /\ UNCHANGED <<diskVars, plan, meta, rows, index, oprow, vrows, cas, storeVars, blocked, sys,
                   histVars, edits, faults, crashes>>

PurgePrepared(o) ==
    /\ At("purgePrepared") /\ Outcome(o)
    /\ IF o = "fail" THEN KeepTrash ELSE SetTrash(trash, Rec(bin, job.id, {"prepared"}), o)
    /\ CASE o = "ok" -> Go [] o = "fail" -> End [] OTHER -> Stop(TRUE)
    /\ KeepFiles /\ KeepJournal /\ KeepStores /\ KeepDb /\ Keep

\* executeTrashPurge: item to stage, row, decision, content.
PurgeMove(o) ==
    /\ At("purgeMove") /\ Outcome(o)
    /\ IF o = "fail" THEN KeepTrash
       ELSE SetTrash([trash EXCEPT ![job.id] = Gone], [bin EXCEPT ![job.id].stage = trash[job.id]], o)
    /\ IF o = "ok" THEN Go ELSE PurgeFails
    /\ KeepFiles /\ KeepJournal /\ KeepStores /\ KeepDb /\ Keep

PurgeRow(o) ==
    /\ At("purgeRow") /\ Outcome(o)
    /\ rows' = IF o = "fail" THEN rows ELSE rows \ {job.id}
    /\ IF o = "ok" THEN Go ELSE PurgeFails
    /\ UNCHANGED <<meta, index, oprow, vrows, cas, hashes>>
    /\ KeepFiles /\ KeepTrash /\ KeepJournal /\ KeepStores /\ Keep

\* Variant: a decision that could not be written is taken as written.
PurgeCommittedUnchecked(o) ==
    /\ At("purgeCommitted") /\ Outcome(o)
    /\ IF o = "fail" THEN KeepTrash ELSE SetTrash(trash, Rec(bin, job.id, {"prepared", "committed"}), o)
    /\ owed' = IF o = "ok" THEN owed \ {bin[job.id].stage.tree} ELSE owed
    /\ IF o = "lag" THEN Stop(TRUE) ELSE Go
    /\ UNCHANGED <<plan, lossVars, edits, crashes, jobs>>
    /\ KeepFiles /\ KeepJournal /\ KeepStores /\ KeepDb

PurgeCommitted(o) ==
    /\ At("purgeCommitted") /\ Outcome(o)
    /\ IF o = "fail" THEN KeepTrash ELSE SetTrash(trash, Rec(bin, job.id, {"prepared", "committed"}), o)
    /\ owed' = IF o = "ok" THEN owed \ {bin[job.id].stage.tree} ELSE owed
    /\ CASE o = "ok" -> Go [] o = "fail" -> PurgeFails [] OTHER -> Stop(TRUE)
    /\ UNCHANGED <<plan, lossVars, edits, crashes, jobs>>
    /\ KeepFiles /\ KeepJournal /\ KeepStores /\ KeepDb

\* A failed removal is reported as a warning: the committed record waits for the next
\* startup while other operations go on.
PurgeRemove(o) ==
    LET rest(v) == IF o # "torn" THEN Gone ELSE IF v.tree = NoTree THEN v ELSE Part(v.tree) IN
    /\ At("purgeRemove") /\ Outcome(o) /\ (o # "ok" => Present(bin[job.id].stage))
    /\ IF o = "fail" THEN KeepTrash
       ELSE SetTrash(trash, [bin EXCEPT ![job.id].stage = rest(@)], IF o = "ok" THEN "ok" ELSE "lag")
    /\ IF o = "ok" THEN Go ELSE IF Running THEN End ELSE Stop(TRUE)
    /\ KeepFiles /\ KeepJournal /\ KeepStores /\ KeepDb /\ Keep

\* deleteUnreferencedVersionObjects
Unreferenced(hs, vr) == {h \in hs : \A p \in Paths : h \notin vr[p]}

\* cleanupTrashPurgeVersions: history stays while the path lives or another item with
\* history came from it.
VersionsOrphaned(i) ==
    /\ meta[i].had /\ ~Present(files[meta[i].orig])
    /\ \A j \in rows \ {i} : meta[j].had => meta[j].orig # meta[i].orig

\* Variant: the objects go first.
PurgeVersionsObjectsFirst(o) ==
    /\ At("purgeVersions") /\ Outcome(o)
    /\ (~VersionsOrphaned(job.id) => o = "ok")
    /\ IF VersionsOrphaned(job.id)
         THEN /\ cas' = cas \ hashes[job.id]
              /\ vrows' = IF o = "ok" THEN [vrows EXCEPT ![meta[job.id].orig] = {}] ELSE vrows
         ELSE UNCHANGED <<vrows, cas>>
    /\ IF o = "ok" THEN Go ELSE Stop(TRUE)
    /\ UNCHANGED <<meta, rows, index, oprow, hashes>>
    /\ KeepFiles /\ KeepTrash /\ KeepJournal /\ KeepStores /\ Keep

PurgeVersions(o) ==
    /\ At("purgeVersions") /\ Outcome(o)
    /\ (~VersionsOrphaned(job.id) => o = "ok")
    /\ IF VersionsOrphaned(job.id) /\ o # "fail"
         THEN /\ vrows' = [vrows EXCEPT ![meta[job.id].orig] = {}]
              /\ cas' = IF o = "ok" THEN cas \ Unreferenced(hashes[job.id], vrows') ELSE cas
         ELSE UNCHANGED <<vrows, cas>>
    /\ IF o = "ok" THEN Go ELSE Stop(TRUE)
    /\ UNCHANGED <<meta, rows, index, oprow, hashes>>
    /\ KeepFiles /\ KeepTrash /\ KeepJournal /\ KeepStores /\ Keep

\* completeTrashPurgeJournal: the prepared record first; retainCommittedTrashPurgeJournal
\* puts the committed one back when its removal is in doubt.
PurgeClean(o) ==
    LET recs == bin[job.id].recs
        d == IF "prepared" \in recs THEN "prepared" ELSE "committed"
        kept == Rec(bin, job.id, (recs \ {d}) \cup {"committed"})
    IN /\ At("purgeClean") /\ recs # {} /\ Outcome(o)
       /\ CASE o = "ok" -> SetTrash(trash, Rec(bin, job.id, recs \ {d}), o) /\ UNCHANGED <<job, blocked, sys>>
            [] o = "fail" -> KeepTrash /\ Stop(TRUE)
            [] OTHER -> /\ bin' = kept /\ binDur' \in {binDur, kept} /\ UNCHANGED <<trash, trashDur>>
                        /\ Stop(TRUE)
       /\ KeepFiles /\ KeepJournal /\ KeepStores /\ KeepDb /\ Keep

PurgeDone ==
    /\ (At("purgeClean") \/ At("purgeUndo")) /\ bin[job.id] = [stage |-> Gone, recs |-> {}]
    /\ job' = IF Running THEN Idle ELSE [Idle EXCEPT !.at = "scan", !.how = "start"]
    /\ UNCHANGED <<diskVars, plan, dbVars, storeVars, blocked, sys, histVars, bound>>

\* rollbackPreparedTrashPurge: content back, row back, record away.  The first step syncs
\* the Trash root also when the content is back already.
PurgeUndo(o) ==
    LET here == trash[job.id]
        there == bin[job.id].stage
        t == meta[job.id].tree
        sane == "committed" \notin bin[job.id].recs /\ {here, there} = {Gone, Whole(t)}
    IN /\ At("purgeUndo") /\ bin[job.id].recs # {} /\ Outcome(o)
       /\ o # "ok" => sane
       /\ IF ~sane \/ o = "fail" THEN KeepTrash
          ELSE LET b == [bin EXCEPT ![job.id].stage = Gone]
               IN /\ trash' = [trash EXCEPT ![job.id] = Whole(t)]
                  /\ bin' = IF job.sub = 3 THEN Rec(b, job.id, {}) ELSE b
                  /\ trashDur' = IF o = "ok" /\ job.sub = 1 THEN trash' ELSE trashDur
                  /\ binDur' = Durable(bin', bin, binDur, o)
       /\ rows' = IF sane /\ o = "ok" /\ job.sub = 2 THEN rows \cup {job.id} ELSE rows
       /\ IF sane /\ o = "ok" THEN job' = [job EXCEPT !.sub = IF @ = 3 THEN 3 ELSE @ + 1] /\ UNCHANGED <<blocked, sys>>
          ELSE Stop(o # "ok")
       /\ UNCHANGED <<meta, index, oprow, vrows, cas, hashes>>
       /\ KeepFiles /\ KeepJournal /\ KeepStores /\ Keep

-----------------------------------------------------------------------------
(* Startup                                                                  *)

Unsynced ==
    {r \in {"files", "trash", "journal"} :
        \/ r = "files" /\ files # filesDur
        \/ r = "trash" /\ <<trash, bin>> # <<trashDur, binDur>>
        \/ r = "journal" /\ journal # journalDur}

Restart ==
    /\ sys = "down" /\ sys' = "starting" /\ blocked' = FALSE
    /\ job' = [Idle EXCEPT !.at = "scan", !.how = "start"]
    /\ carried' = Unsynced
    /\ UNCHANGED <<diskVars, plan, dbVars, storeVars, owed, offBy, offByDur, risky, stale, bound>>

\* RecoverTrashDeletions: refuse what has no record, sync .deleting if it holds any record,
\* undo the undecided, finish the decided.  The sync decides the moves into and out of
\* .deleting: a rename that is on the medium in one of its directories is in the other.
ScanPurges(o) ==
    LET stray == {i \in Ids : Present(bin[i].stage) /\ bin[i].recs = {}}
        undecided == {i \in Ids : bin[i].recs = {"prepared"}}
        decided == {i \in Ids : "committed" \in bin[i].recs}
        start(i, at) == job' = [Idle EXCEPT !.kind = "purge", !.at = at, !.id = i, !.how = "start"]
        synced == stray = {} /\ undecided \cup decided # {}
        moved == {i \in Ids : bin[i].stage # binDur[i].stage}
    IN /\ At("scan") /\ Outcome(o) /\ (o = "fail" => synced)
       /\ IF synced /\ o = "ok"
            THEN /\ binDur' = bin
                 /\ trashDur' = [x \in DOMAIN trash |-> IF x \in moved THEN trash[x] ELSE trashDur[x]]
                 /\ owed' = owed \ {bin[i].stage.tree : i \in decided}
            ELSE UNCHANGED <<binDur, trashDur, owed>>
       /\ UNCHANGED <<trash, bin>>
       /\ CASE stray # {} -> Stop(FALSE) /\ UNCHANGED rows
            [] stray = {} /\ o = "fail" -> Stop(TRUE) /\ UNCHANGED rows
            [] stray = {} /\ o = "ok" /\ undecided # {} ->
                 (\E i \in undecided : start(i, "purgeUndo")) /\ UNCHANGED <<rows, blocked, sys>>
            [] stray = {} /\ o = "ok" /\ undecided = {} /\ decided # {} ->
                 \E i \in decided :
                    IF Present(trash[i]) THEN Stop(FALSE) /\ UNCHANGED rows
                    ELSE start(i, "purgeRemove") /\ rows' = rows \ {i} /\ UNCHANGED <<blocked, sys>>
            [] OTHER -> job' = [job EXCEPT !.at = "classify"] /\ UNCHANGED <<rows, blocked, sys>>
       /\ UNCHANGED <<plan, lossVars, edits, crashes, jobs, meta, index, oprow, vrows, cas, hashes>>
       /\ KeepFiles /\ KeepJournal /\ KeepStores

\* validateTrashTransferRecoveryChain
ChainValid ==
    LET pos == {n \in 1..5 : Decisions[n] \in journal} IN
    /\ IF "completed" \in journal THEN \A n \in pos : n..5 \subseteq pos
       ELSE \A n \in pos : 1..n \subseteq pos
    /\ journal \cap {"committed", "completed"} # {} => ~Present(trash[Stage])

\* What rollForwardDelete- and rollForwardRestoreTrashTransfer verify first.
ForwardSane ==
    IF plan.kind = "delete"
    THEN /\ plan.id \in rows /\ plan.orig \notin index /\ trash[plan.id] = Whole(plan.tree)
         /\ "completed" \in journal => ~Present(files[plan.orig]) /\ ~Present(files[Stage])
    ELSE /\ plan.id \notin rows
         /\ IF journal \cap {"committed", "completed"} = {}
              THEN Whole(plan.tree) \in {files[Stage], files[plan.dest]}
              ELSE ~Present(files[Stage]) /\ files[plan.dest] = Whole(plan.tree) /\ plan.dest \in index
         /\ "completed" \in journal => ~Present(trash[plan.id])

\* classifyTrashTransferRecovery: where a transfer is taken up again.
Resume ==
    CASE ~ChainValid -> "refuse"
      [] journal = {} -> IF oprow \/ Present(trash[Stage]) THEN "refuse" ELSE "nothing"
      [] "completed" \in journal -> IF ForwardSane THEN "complete" ELSE "refuse"
      [] "committed" \in journal -> IF oprow /\ ForwardSane THEN "applied" ELSE "refuse"
      [] "ready" \in journal /\ oprow ->
            IF ~ForwardSane THEN "refuse" ELSE IF plan.kind = "delete" THEN "committed" ELSE "publish"
      [] OTHER -> IF oprow THEN "refuse" ELSE "undo"

\* RecoverTrashTransfers
Classify ==
    /\ At("classify")
    /\ CASE Resume = "refuse" -> Stop(FALSE)
         [] Resume = "nothing" -> job' = Idle /\ sys' = "up" /\ UNCHANGED blocked
         [] OTHER -> /\ job' = [Idle EXCEPT !.kind = plan.kind, !.id = plan.id, !.how = "start", !.at = Resume,
                                   !.rec = IF "ready" \in journal THEN "ready"
                                           ELSE IF "copying" \in journal THEN "copying" ELSE "prepared"]
                     /\ UNCHANGED <<blocked, sys>>
    /\ UNCHANGED <<diskVars, plan, dbVars, storeVars, histVars, bound>>

-----------------------------------------------------------------------------
(* Users, kills and power losses                                            *)

Images == {<<files, trash, bin>>, <<filesDur, trashDur, binDur>>}
Fresh(t) ==
    /\ t \notin owed
    /\ \A im \in Images : /\ \A p \in DOMAIN im[1] : im[1][p].tree # t
                          /\ \A p \in DOMAIN im[2] : im[2][p].tree # t
                          /\ \A i \in Ids : im[3][i].stage.tree # t

\* WriteFile seen from here: the old content becomes a version.
WriteFile(p, t) ==
    /\ Free /\ Fresh(t)
    /\ SetFiles([files EXCEPT ![p] = Whole(t)], "ok") /\ index' = index \cup {p}
    /\ IF Present(files[p])
         THEN /\ vrows' = [vrows EXCEPT ![p] = @ \cup {files[p].tree}]
              /\ cas' = cas \cup {files[p].tree}
              /\ owed' = (owed \ {files[p].tree}) \cup {t}
         ELSE owed' = owed \cup {t} /\ UNCHANGED <<vrows, cas>>
    /\ KeepTrash /\ KeepJournal /\ KeepStores
    /\ UNCHANGED <<plan, meta, rows, oprow, hashes, runVars, lossVars, bound>>

EditShare(x, s, o) ==
    /\ sys = "up" /\ edits < MaxEdits /\ edits' = edits + 1 /\ Outcome(o)
    /\ share' = s /\ shareDur' = IF o = "lag" THEN shareDur ELSE s
    /\ offBy' = [offBy EXCEPT ![x] = NoTree] /\ offByDur' = IF o = "lag" THEN offByDur ELSE offBy'
    /\ UNCHANGED <<diskVars, plan, dbVars, fav, favDur, runVars, owed, lossVars, crashes, jobs>>

ShareEdits(o) ==
    \E x \in ShareIds :
        \/ share.shares[x] # NoShare /\ \E on \in BOOLEAN : EditShare(x, UpdateShare(share, x, on), o)
        \/ share.shares[x] # NoShare /\ EditShare(x, DeleteShare(share, x), o)
        \/ share.shares[x] = NoShare /\ \E p \in index : EditShare(x, CreateShare(share, x, p, edits + 2), o)

FavoriteEdits(o) ==
    /\ sys = "up" /\ edits < MaxEdits /\ edits' = edits + 1 /\ Outcome(o)
    /\ \E p \in Paths :
          LET s == IF fav.favs[p] = 0 THEN AddFavorite(fav, p, edits + 2) ELSE RemoveFavorite(fav, p)
          IN fav' = s /\ favDur' = IF o = "lag" THEN favDur ELSE s
    /\ UNCHANGED <<diskVars, plan, dbVars, share, shareDur, runVars, histVars, crashes, jobs>>

Kill ==
    /\ sys \in {"up", "starting"} /\ crashes < MaxCrashes /\ crashes' = crashes + 1
    /\ sys' = "down" /\ job' = Idle /\ blocked' = FALSE
    /\ UNCHANGED <<diskVars, plan, dbVars, storeVars, histVars, edits, faults, jobs>>

\* Every root and every store keeps or loses what was not synced, the changes of an
\* earlier process that recovery took for durable among it.
PowerLoss ==
    /\ sys \in {"up", "starting"} /\ crashes < MaxCrashes /\ crashes' = crashes + 1
    /\ sys' = "down" /\ job' = Idle /\ blocked' = FALSE
    /\ files' \in {files, filesDur} /\ filesDur' = files'
    /\ \/ UNCHANGED <<trash, bin>> /\ trashDur' = trash /\ binDur' = bin
       \/ UNCHANGED <<trashDur, binDur>> /\ trash' = trashDur /\ bin' = binDur
    /\ journal' \in {journal, journalDur} /\ journalDur' = journal'
    /\ \/ UNCHANGED <<share, offBy>> /\ shareDur' = share /\ offByDur' = offBy
       \/ UNCHANGED <<shareDur, offByDur>> /\ share' = shareDur /\ offBy' = offByDur
    /\ fav' \in {fav, favDur} /\ favDur' = fav'
    /\ carried' = {}
    /\ stale' = \/ stale
                \/ "files" \in carried /\ files' # files
                \/ "trash" \in carried /\ <<trash', bin'>> # <<trash, bin>>
                \/ "journal" \in carried /\ journal' # journal
    /\ UNCHANGED <<plan, dbVars, owed, risky, edits, faults, jobs>>

-----------------------------------------------------------------------------

Finished == sys \in {"up", "refused"} /\ job = Idle /\ UNCHANGED vars

TransferStep(o) ==
    \/ PublishRecord(o) \/ CleanRecord(o) \/ CreateBox(o) \/ RemoveMarker(o) \/ CaptureSource(o)
    \/ PublishItem(o) \/ PublishDestination(o) \/ Deliver(o) \/ UndoApply(o) \/ UndoSource(o)
    \/ UndoFavorites(o) \/ UndoShares(o) \/ UndoRecord(o)

PurgeStep(o) ==
    \/ PurgePrepared(o) \/ PurgeMove(o) \/ PurgeRow(o) \/ PurgeCommitted(o) \/ PurgeClean(o) \/ PurgeUndo(o)

Next ==
    \/ \E i \in Ids, p \in Paths : Delete(i, p) \/ Restore(i, p)
    \/ \E i \in Ids : Purge(i)
    \/ \E o \in {"ok", "fail", "lag"} : TransferStep(o) \/ PurgeStep(o)
    \/ \E o \in {"ok", "lag"} : CopyContent(o)
    \/ \E o \in {"ok", "fail", "unread"} : CommitDb(o)
    \/ \E o \in {"ok", "fail", "lag", "torn"} : RemoveSource(o) \/ UndoReplica(o) \/ PurgeRemove(o)
    \/ \E o \in {"ok", "fail", "torn"} : PurgeVersions(o)
    \/ \E o \in {"ok", "fail"} : Acknowledge(o) \/ ScanPurges(o)
    \/ Cleaned \/ Undone \/ PurgeDone \/ Restart \/ Classify
    \/ \E p \in Paths, t \in Trees : WriteFile(p, t)
    \/ \E o \in {"ok", "lag"} : ShareEdits(o) \/ FavoriteEdits(o)
    \/ Kill \/ PowerLoss \/ Finished

\* One tree at one path, shared or not, a favorite or not.
Init ==
    /\ \E p \in Paths, t \in Trees :
          /\ files = [x \in Paths \cup {Stage} |-> IF x = p THEN Whole(t) ELSE Gone]
          /\ index = {p} /\ owed = {t}
          /\ \E one \in {NoShare, [path |-> p, on |-> TRUE, gen |-> 1]} : share =
                [shares |-> [x \in ShareIds |-> one], del |-> <<>>, rest |-> <<>>]
          /\ \E g \in {0, 1} : fav =
                [favs |-> [x \in Paths |-> IF x = p THEN g ELSE 0], del |-> <<>>, rest |-> <<>>]
    /\ trash = [x \in Ids \cup {Stage} |-> Gone]
    /\ bin = [i \in Ids |-> [stage |-> Gone, recs |-> {}]]
    /\ journal = {} /\ plan = NoPlan /\ meta = [i \in Ids |-> NoPlan]
    /\ rows = {} /\ oprow = FALSE /\ vrows = [p \in Paths |-> {}] /\ cas = {}
    /\ hashes = [i \in Ids |-> {}]
    /\ filesDur = files /\ trashDur = trash /\ binDur = bin /\ journalDur = journal
    /\ shareDur = share /\ favDur = fav
    /\ job = Idle /\ blocked = FALSE /\ sys = "up"
    /\ offBy = [x \in ShareIds |-> NoTree] /\ offByDur = offBy
    /\ risky = FALSE /\ carried = {} /\ stale = FALSE
    /\ edits = 0 /\ faults = 0 /\ crashes = 0 /\ jobs = 0

Spec == Init /\ [][Next]_vars

-----------------------------------------------------------------------------
(* Properties                                                               *)

\* A tree nobody overwrote and no durable purge decision gave up is whole in some place,
\* whatever a power loss at this moment leaves of the workspace and of Trash: at each
\* step of a deletion, restore, purge, rollback or recovery.
NeverLost ==
    \A t \in owed, f \in {files, filesDur},
       tb \in {<<trash, bin>>, <<trashDur, binDur>>} :
        \/ \E p \in DOMAIN f : f[p] = Whole(t)
        \/ \E p \in DOMAIN tb[1] : tb[1][p] = Whole(t)
        \/ \E i \in Ids : tb[2][i].stage = Whole(t)

\* Startup recovery never meets a state it refuses by itself, with three exemptions: a
\* deletion was committed although the capture of its source could not be synced; the
\* ownership marker of a container was cut short, which docs/api-reference.en.md:870 leaves
\* to manual reconciliation; a power loss took back what an earlier process had left
\* unsynced and recovery had built on.
Recoverable == sys = "refused" => risky \/ stale \/ Cut \in {files[Stage], trash[Stage]}

\* Between operations nothing is left over: no stage, checkpoint or outbox row, Trash
\* rows and items and index and files agree, every marker belongs to an item in Trash or
\* to a purge that waits for startup, and a share that a deletion disabled and nobody
\* edited since is off only while that item is.  This ends when a power loss takes back
\* changes of an earlier process: recovery does not sync what it finds in place, removes the
\* journal, and the tree may then come back under its stage name.
Settled ==
    Free /\ ~stale =>
        /\ journal = {} /\ ~oprow /\ files[Stage] = Gone /\ trash[Stage] = Gone
        /\ index = {p \in Paths : Present(files[p])}
        /\ rows = {i \in Ids : Present(trash[i])}
        /\ \A i \in rows : trash[i] = Whole(meta[i].tree)
        /\ \A s \in {share, fav} :
              /\ DOMAIN s.rest = {}
              /\ \A o \in DOMAIN s.del : s.del[o].completed /\ (o \in rows \/ "committed" \in bin[o].recs)
        /\ \A x \in ShareIds : offBy[x] # NoTree => offBy[x] \in rows \/ "committed" \in bin[offBy[x]].recs

\* A step of Trash turns a share on only if the deletion it undoes had turned it off and
\* nobody edited the share since.
ShareGivenBack ==
    [][\A x \in ShareIds :
          (/\ share.shares[x] # NoShare /\ ~share.shares[x].on
           /\ share'.shares[x] # NoShare /\ share'.shares[x].on
           /\ edits' = edits /\ crashes' = crashes)
          => offBy[x] = job.id]_vars

\* Every version row has its object, also when a purge finishes at a later startup, after
\* the history it captured moved to another path.
RowsBacked == \A p \in Paths : vrows[p] \subseteq cas

=============================================================================
