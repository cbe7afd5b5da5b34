------------------------------ MODULE WriteTxn ------------------------------
(***************************************************************************)
(* The journaled file write of internal/storage: admission and staging of  *)
(* request bodies, the mutation lock, the prepared/published/committed     *)
(* checkpoints, visible publication by rename or exchange, the CAS object  *)
(* and the SQLite rows, runtime rollback and roll-forward, process kill,   *)
(* power loss and startup recovery.                                        *)
(*                                                                         *)
(* Every directory the protocol fsyncs has two images: what a process sees *)
(* (files, staging, journal) and what a power loss is sure to keep         *)
(* (filesDur, stagingDur, journalDur).  SQLite (synchronous=FULL) and the  *)
(* CAS (file and directory fsync in cas.rs) are durable when they answer.  *)
(***************************************************************************)
EXTENDS Naturals, FiniteSets

CONSTANTS
    Writers,        \* write requests; each names its own stage and journal entry
    Paths,          \* canonical target paths below files/
    Contents,       \* file contents, standing for their BLAKE3 hashes
    Origin,         \* identity of files that existed before the first request
    Absent,         \* no directory entry, no row
    NoWriter,       \* the mutation lock is free
    MaxStages,      \* capacity of writeStageGate
    MaxFaults,      \* bound: injected I/O, RPC and SQLite errors
    MaxCrashes,     \* bound: process kills and power losses
    CarriedRename,  \* one directory fsync also persists the other half of a rename
    LostDeleteReply \* a CAS delete may take effect and still report an error

ASSUME ConstantsAssumption ==
    /\ NoWriter \notin Writers
    /\ Origin \notin Writers
    /\ MaxStages \in Nat /\ MaxFaults \in Nat /\ MaxCrashes \in Nat
    /\ CarriedRename \in BOOLEAN /\ LostDeleteReply \in BOOLEAN

\* A file: its inode identity (the request that staged it) and its content.
Objects == [id : Writers \cup {Origin}, body : Contents]
ASSUME AbsentAssumption == Absent \notin Objects /\ Absent \notin Contents

Checkpoints == {"prepared", "published", "committed"}
Rows == Paths \X Contents        \* versions table: (path, hash)

VARIABLES
    files, filesDur,      \* canonical namespace
    staging, stagingDur,  \* .mnemonas/write-staging, one slot per request
    marker,               \* a recovery marker file in write-staging
    journal, journalDur,  \* final checkpoint files of each operation
    plan,                 \* the immutable plan its checkpoints carry
    index, versions, cas, \* SQLite files and versions tables, CAS objects
    sys,                  \* "up", "down", or "starting" (inside storage.New)
    lock,                 \* fs.mu: the writer holding the mutation lease
    blocked,              \* writeMutationBlocked
    pc, req, cause,       \* each request: position, request, pending error
    dir,                  \* recovery decision in force: "back" or "forward"
    dropped,              \* version rows retention deleted, objects pending
    resp,                 \* answer given to the client
    decided,              \* history: committed checkpoint became durable
    faults, crashes

fsVars == <<files, filesDur, staging, stagingDur, marker>>
jVars == <<journal, journalDur, decided>>
dbVars == <<index, versions, cas>>
reqVars == <<req, plan>>
runVars == <<lock, blocked, cause, dir, dropped, resp>>
bound == <<faults, crashes>>
vars == <<fsVars, jVars, dbVars, reqVars, runVars, pc, sys, bound>>

\* Positions while the request occupies a slot of the stage gate.
Staging == {"begun", "staging", "staged"}
RuntimeSteps == {"planned", "prepared_named", "prepared", "visible", "visible1",
                 "visible2", "stored", "published_named", "published",
                 "metadata", "committed_named"}
RecoverySteps == {"recover", "move", "sync_files", "sync_files2", "sync_stage",
                  "sync_stage2", "settled", "half", "unlink", "unlinked",
                  "clean", "cleaning"}
Locked == {"locked", "finish", "retain", "retain_objects"}
              \cup RuntimeSteps \cup RecoverySteps
Admitted == Staging \cup Locked
Positions == {"idle", "done", "halted", "gone"} \cup Admitted

NoReq == [path |-> Absent, body |-> Absent, snap |-> Absent]
NoPlan == [before |-> Absent, versioned |-> FALSE, rowBefore |-> FALSE,
           indexBefore |-> Absent, created |-> FALSE]

Path(w) == req[w].path
After(w) == [id |-> w, body |-> req[w].body]      \* plan.Target.After
Before(w) == plan[w].before                       \* plan.OldTarget
Creates(w) == Before(w) = Absent                  \* WriteTransactionKindCreate
Row(w) == <<Path(w), Before(w).body>>             \* plan.Metadata version key
Referenced(h) == \E p \in Paths : <<p, h>> \in versions

Init ==
    /\ files \in [Paths -> {Absent} \cup [id : {Origin}, body : Contents]]
    /\ filesDur = files
    /\ staging = [w \in Writers |-> Absent] /\ stagingDur = staging
    /\ marker = FALSE
    /\ journal = [w \in Writers |-> {}] /\ journalDur = journal
    /\ plan = [w \in Writers |-> NoPlan]
    /\ index = [p \in Paths |-> IF files[p] = Absent THEN Absent ELSE files[p].body]
    /\ cas \in SUBSET Contents
    /\ versions \in SUBSET (Paths \X cas)
    /\ sys = "up" /\ lock = NoWriter /\ blocked = FALSE
    /\ pc = [w \in Writers |-> "idle"]
    /\ req = [w \in Writers |-> NoReq]
    /\ cause = [w \in Writers |-> FALSE]
    /\ dir = [w \in Writers |-> "back"]
    /\ dropped = [w \in Writers |-> {}]
    /\ resp = [w \in Writers |-> "none"]
    /\ decided = {}
    /\ faults = 0 /\ crashes = 0

-----------------------------------------------------------------------------
(* Shared pieces                                                           *)

Goto(w, s) == pc' = [pc EXCEPT ![w] = s]
Fault == faults < MaxFaults /\ faults' = faults + 1
Put(d, k, v) == [d EXCEPT ![k] = v]

\* fsync of the canonical parent, of write-staging, of the journal directory.
SyncFiles == /\ filesDur' = files
             /\ stagingDur' = IF CarriedRename THEN staging ELSE stagingDur
SyncStaging == /\ stagingDur' = staging
               /\ filesDur' = IF CarriedRename THEN files ELSE filesDur
SyncJournal == /\ journalDur' = journal
               /\ decided' = decided \cup {w \in Writers : "committed" \in journal[w]}

\* Rename without replacement between stage and target, or exchange of the two.
SwapStage(w) == /\ files' = Put(files, Path(w), staging[w])
                /\ staging' = Put(staging, w, files[Path(w)])

-----------------------------------------------------------------------------
(* Admission and staging, outside the mutation lock                        *)

\* writeStageGate has no free slot.
GateFull == Cardinality({v \in Writers : pc[v] \in Admitted}) >= MaxStages

\* writeFileTransaction up to the body: gate, then the target snapshot.
Begin(w, p, c) ==
    /\ sys = "up" /\ ~blocked /\ ~GateFull /\ pc[w] = "idle"
    /\ req' = Put(req, w, [path |-> p, body |-> c, snap |-> files[p]])
    /\ Goto(w, "begun")
    /\ UNCHANGED <<fsVars, jVars, dbVars, plan, runVars, sys, bound>>

\* A recovery block (currentWriteAdmissionBlock) or ErrWriteBusy, before the body.
Refuse(w) ==
    /\ sys = "up" /\ pc[w] = "idle" /\ (blocked \/ GateFull)
    /\ resp' = Put(resp, w, "error")
    /\ Goto(w, "done")
    /\ UNCHANGED <<fsVars, jVars, dbVars, reqVars, lock, blocked, cause, dir, dropped,
                   sys, bound>>

\* stageWriteReader: the body reaches an owned file in write-staging ...
StageBody(w) ==
    /\ sys = "up" /\ pc[w] = "begun"
    /\ staging' = Put(staging, w, After(w))
    /\ Goto(w, "staging")
    /\ UNCHANGED <<files, filesDur, stagingDur, marker, jVars, dbVars, reqVars,
                   runVars, sys, bound>>

\* ... and is sealed once the file and the staging directory are synced.
SealStage(w) ==
    /\ sys = "up" /\ pc[w] = "staging"
    /\ SyncStaging
    /\ Goto(w, "staged")
    /\ UNCHANGED <<files, staging, marker, jVars, dbVars, reqVars, runVars, sys, bound>>

\* Variant: the gate is read at admission only.
BeginMutationUngated(w) ==
    /\ sys = "up" /\ pc[w] = "staged" /\ lock = NoWriter
    /\ lock' = w
    /\ Goto(w, "locked")
    /\ UNCHANGED <<fsVars, jVars, dbVars, reqVars, blocked, cause, dir, dropped,
                   resp, sys, bound>>

\* beginMutation: refused while the write gate is blocked.
BeginMutation(w) ==
    /\ sys = "up" /\ pc[w] = "staged" /\ lock = NoWriter /\ ~blocked
    /\ lock' = w
    /\ Goto(w, "locked")
    /\ UNCHANGED <<fsVars, jVars, dbVars, reqVars, blocked, cause, dir, dropped,
                   resp, sys, bound>>

\* The request ends with answer r and gives the lock back if it holds it.
Answer(w, r) ==
    /\ resp' = Put(resp, w, r)
    /\ lock' = IF lock = w THEN NoWriter ELSE lock

\* Every failure before the first checkpoint discards the private stage:
\* a refused lock, a target that changed since the snapshot, or an I/O error.
Abort(w) ==
    /\ sys = "up"
    /\ \/ pc[w] \in Staging \cup {"locked"} /\ Fault
       \/ pc[w] = "staged" /\ lock = NoWriter /\ blocked /\ UNCHANGED faults
       \/ pc[w] = "locked" /\ files[Path(w)] # req[w].snap /\ UNCHANGED faults
    /\ staging' = Put(staging, w, Absent)
    /\ Answer(w, "error")
    /\ Goto(w, "done")
    /\ UNCHANGED <<files, filesDur, stagingDur, marker, jVars, dbVars, reqVars,
                   blocked, cause, dir, dropped, sys, crashes>>

\* Variant: the gate is closed without taking the mutation lock.
AbortBlockedUnlocked(w) ==
    /\ sys = "up" /\ Fault
    /\ pc[w] \in {"staging", "staged", "locked"}
    /\ marker' = TRUE /\ blocked' = TRUE
    /\ Answer(w, "error")
    /\ Goto(w, "done")
    /\ UNCHANGED <<files, filesDur, staging, stagingDur, jVars, dbVars, reqVars,
                   cause, dir, dropped, sys, crashes>>

\* The discard itself fails and the stage stays.  The deferred clean-up records
\* it in a marker file and closes the gate, under the mutation lock, when this
\* was the first discard (blockRetainedWriteStages), or when the stage can no
\* longer be told to be the request's own (blockChangedWriteStages).
AbortBlocked(w) ==
    /\ sys = "up" /\ Fault
    /\ \/ pc[w] \in {"staging", "staged", "locked"}
       \/ pc[w] = "finish" /\ journal[w] = {}
    /\ lock \in {NoWriter, w}
    /\ marker' = TRUE /\ blocked' = TRUE
    /\ Answer(w, "error")
    /\ Goto(w, "done")
    /\ UNCHANGED <<files, filesDur, staging, stagingDur, jVars, dbVars, reqVars,
                   cause, dir, dropped, sys, crashes>>

\* The discard fails inside the locked runtime: it marks the stage retained, the
\* deferred discard then reports nothing, and the stage stays with no marker and
\* the gate as it was.  The same of a request the closed gate refused.
AbortRetained(w) ==
    /\ sys = "up" /\ Fault
    /\ \/ pc[w] = "locked"
       \/ pc[w] = "finish" /\ journal[w] = {}
       \/ pc[w] = "staged" /\ lock = NoWriter /\ blocked
    /\ Answer(w, "error")
    /\ Goto(w, "done")
    /\ UNCHANGED <<fsVars, jVars, dbVars, reqVars, blocked, cause, dir, dropped,
                   sys, crashes>>

-----------------------------------------------------------------------------
(* The locked runtime                                                      *)

\* Variant: the plan is built from the current target, not from the captured one.
PrepareUnchecked(w, keep) ==
    /\ sys = "up" /\ pc[w] = "locked"
    /\ LET old == files[Path(w)]
           versioned == keep /\ old # Absent /\ old.body # req[w].body
       IN plan' = Put(plan, w,
            [before |-> old, versioned |-> versioned,
             rowBefore |-> versioned /\ <<Path(w), old.body>> \in versions,
             indexBefore |-> index[Path(w)], created |-> FALSE])
    /\ Goto(w, "planned")
    /\ UNCHANGED <<fsVars, jVars, dbVars, req, runVars, sys, bound>>

\* prepareWriteTransactionRuntime: revalidate the snapshot, build the plan.
\* keep stands for the versioning policy or forceVersion.
Prepare(w, keep) ==
    /\ sys = "up" /\ pc[w] = "locked" /\ files[Path(w)] = req[w].snap
    /\ LET old == files[Path(w)]
           versioned == keep /\ old # Absent /\ old.body # req[w].body
       IN plan' = Put(plan, w,
            [before |-> old, versioned |-> versioned,
             rowBefore |-> versioned /\ <<Path(w), old.body>> \in versions,
             indexBefore |-> index[Path(w)], created |-> FALSE])
    /\ Goto(w, "planned")
    /\ UNCHANGED <<fsVars, jVars, dbVars, req, runVars, sys, bound>>

\* writeRecordLocked: the synced pending record takes its final name ...
NameRecord(w, at, cp, to) ==
    /\ sys = "up" /\ pc[w] = at
    /\ journal' = Put(journal, w, journal[w] \cup {cp})
    /\ Goto(w, to)
    /\ UNCHANGED <<fsVars, journalDur, decided, dbVars, reqVars, runVars, sys, bound>>

\* ... and counts once the journal directory is synced.
SyncRecord(w, at, to) ==
    /\ sys = "up" /\ pc[w] = at
    /\ SyncJournal
    /\ Goto(w, to)
    /\ UNCHANGED <<fsVars, journal, dbVars, reqVars, runVars, sys, bound>>

PublishPrepared(w) == \/ NameRecord(w, "planned", "prepared", "prepared_named")
                      \/ SyncRecord(w, "prepared_named", "prepared")
PublishPublished(w) == \/ NameRecord(w, "stored", "published", "published_named")
                       \/ SyncRecord(w, "published_named", "published")
PublishCommitted(w) == \/ NameRecord(w, "metadata", "committed", "committed_named")
                       \/ SyncRecord(w, "committed_named", "finish")

\* publishWriteTransactionRuntime: create renames the stage onto the free
\* target, overwrite exchanges the two.
PublishVisible(w) ==
    /\ sys = "up" /\ pc[w] = "prepared"
    /\ SwapStage(w)
    /\ Goto(w, "visible")
    /\ UNCHANGED <<filesDur, stagingDur, marker, jVars, dbVars, reqVars, runVars,
                   sys, bound>>

\* Variants: an overwrite syncs the canonical parent first; the second parent is
\* not synced at all.
SyncVisibleTargetFirst(w) ==
    /\ sys = "up" /\ pc[w] = "visible"
    /\ SyncFiles
    /\ Goto(w, "visible1")
    /\ UNCHANGED <<files, staging, marker, jVars, dbVars, reqVars, runVars, sys, bound>>

SyncVisibleOnce(w) ==
    /\ sys = "up" /\ pc[w] = "visible1"
    /\ Goto(w, "visible2")
    /\ UNCHANGED <<fsVars, jVars, dbVars, reqVars, runVars, sys, bound>>

\* Create syncs the target parent first, overwrite the staging directory, which
\* then holds the old object.
SyncVisibleFirst(w) ==
    /\ sys = "up" /\ pc[w] = "visible"
    /\ IF Creates(w) THEN SyncFiles ELSE SyncStaging
    /\ Goto(w, "visible1")
    /\ UNCHANGED <<files, staging, marker, jVars, dbVars, reqVars, runVars, sys, bound>>

SyncVisibleSecond(w) ==
    /\ sys = "up" /\ pc[w] = "visible1"
    /\ IF Creates(w) THEN SyncStaging ELSE SyncFiles
    /\ Goto(w, "visible2")
    /\ UNCHANGED <<files, staging, marker, jVars, dbVars, reqVars, runVars, sys, bound>>

\* publishWriteTransactionRuntimeCAS: store the old content; the outcome says
\* whether this operation created the object.
PutCAS(w) ==
    /\ sys = "up" /\ pc[w] = "visible2"
    /\ IF plan[w].versioned
       THEN /\ cas' = cas \cup {Before(w).body}
            /\ plan' = [plan EXCEPT ![w].created = Before(w).body \notin cas]
       ELSE UNCHANGED <<cas, plan>>
    /\ Goto(w, "stored")
    /\ UNCHANGED <<fsVars, jVars, index, versions, req, runVars, sys, bound>>

\* The rows as the plan's after-state has them, in one SQLite transaction.
RowsAfter(w) ==
    /\ index' = Put(index, Path(w), req[w].body)
    /\ versions' = IF plan[w].versioned THEN versions \cup {Row(w)} ELSE versions

\* ensureWriteTransactionRuntimeMetadata: a commit error whose rows are found in
\* the after-state is carried along as a warning.
CommitMetadata(w) ==
    /\ sys = "up" /\ pc[w] = "published"
    /\ RowsAfter(w)
    /\ \/ UNCHANGED <<cause, faults>>
       \/ Fault /\ cause' = Put(cause, w, TRUE)
    /\ Goto(w, "metadata")
    /\ UNCHANGED <<fsVars, jVars, cas, reqVars, lock, blocked, dir, dropped, resp,
                   sys, crashes>>

\* Any error or cancellation from the first publication attempt on.  A call that
\* took effect and still failed is its step followed by this one.
StepFails(w) ==
    /\ sys = "up" /\ pc[w] \in RuntimeSteps /\ Fault
    /\ cause' = Put(cause, w, TRUE)
    /\ Goto(w, "finish")
    /\ UNCHANGED <<fsVars, jVars, dbVars, reqVars, lock, blocked, dir, dropped,
                   resp, sys, crashes>>

-----------------------------------------------------------------------------
(* Recovery of one operation, by the request itself or by storage.New      *)

\* Variant: the published checkpoint already counts as the decision.
DecisionAtPublished(w) == IF "published" \in journal[w] THEN "forward" ELSE "back"

Decision(w) == IF "committed" \in journal[w] THEN "forward" ELSE "back"

\* finishWriteTransactionRuntime: the journal is synced and read again; an
\* operation that left no checkpoint is discarded, any other is recovered.
Finish(w) ==
    /\ sys = "up" /\ pc[w] = "finish"
    /\ SyncJournal
    /\ dir' = Put(dir, w, Decision(w))
    /\ IF journal[w] = {}
       THEN staging' = Put(staging, w, Absent) /\ Answer(w, "error") /\ Goto(w, "done")
       ELSE Goto(w, "recover") /\ UNCHANGED <<staging, resp, lock>>
    /\ UNCHANGED <<files, filesDur, stagingDur, marker, journal, dbVars, reqVars,
                   blocked, cause, dropped, sys, bound>>

\* blockWriteTransactionRuntimeLocked: the gate closes and all evidence stays.
BlockGate(w, r) ==
    /\ blocked' = TRUE
    /\ Answer(w, r)
    /\ Goto(w, "halted")
    /\ UNCHANGED sys

FinishBlocked(w) ==
    /\ sys = "up" /\ pc[w] = "finish" /\ Fault
    /\ BlockGate(w, "blocked")
    /\ UNCHANGED <<fsVars, jVars, dbVars, reqVars, cause, dir, dropped, crashes>>

\* Variant: a stage that recovery already removed is not expected.
LayoutWithStage(w) ==
    LET t == files[Path(w)]
        s == staging[w]
    IN \/ t = Before(w) /\ s = After(w)
       \/ t = After(w) /\ s = Before(w)

\* inspectWriteTransactionPhysicalLayout accepts the layout.
LayoutKnown(w) ==
    LET t == files[Path(w)]
        s == staging[w]
    IN \/ t = Before(w) /\ s \in {Absent, After(w)}
       \/ t = After(w) /\ s \in {Absent, Before(w)}

\* classifyWriteMetadataSnapshot; both may hold at once.
MetaBefore(w) ==
    /\ index[Path(w)] = plan[w].indexBefore
    /\ plan[w].versioned => ((Row(w) \in versions) = plan[w].rowBefore)
MetaAfter(w) ==
    /\ index[Path(w)] = req[w].body
    /\ plan[w].versioned => Row(w) \in versions

\* What recoverOneWriteTransaction insists on before it changes anything, with
\* the objects the move and the CAS restore will need.
Recoverable(w) ==
    /\ MetaBefore(w) \/ MetaAfter(w)
    /\ LayoutKnown(w)
    /\ dir[w] = "back" /\ files[Path(w)] = After(w) => staging[w] = Before(w)
    /\ dir[w] = "forward" /\ files[Path(w)] # After(w) => staging[w] = After(w)
    /\ dir[w] = "forward" /\ plan[w].versioned /\ Before(w).body \notin cas
         => staging[w] = Before(w) \/ files[Path(w)] = Before(w)

Recovering(w) == sys \in {"up", "starting"} /\ pc[w] \in RecoverySteps

Inspect(w) ==
    /\ Recovering(w) /\ pc[w] = "recover" /\ Recoverable(w)
    /\ Goto(w, "move")
    /\ UNCHANGED <<fsVars, jVars, dbVars, reqVars, runVars, sys, bound>>

\* ensureWriteTransactionPhysicalBefore/After: put the objects in their places.
\* A create rollback that finds the stage already in place only reaffirms it,
\* staging directory first; every other case syncs the canonical parent first.
MoveFirst(w) == IF dir[w] = "back" /\ Creates(w) /\ files[Path(w)] # After(w)
                THEN "sync_stage" ELSE "sync_files"
Misplaced(w) == (files[Path(w)] = After(w)) = (dir[w] = "back")

Move(w) ==
    /\ Recovering(w) /\ pc[w] = "move"
    /\ IF Misplaced(w) THEN SwapStage(w) ELSE UNCHANGED <<files, staging>>
    /\ Goto(w, MoveFirst(w))
    /\ UNCHANGED <<filesDur, stagingDur, marker, jVars, dbVars, reqVars, runVars,
                   sys, bound>>

SyncMovedFiles(w) ==
    /\ Recovering(w) /\ pc[w] \in {"sync_files", "sync_files2"}
    /\ SyncFiles
    /\ Goto(w, IF pc[w] = "sync_files" THEN "sync_stage2" ELSE "settled")
    /\ UNCHANGED <<files, staging, marker, jVars, dbVars, reqVars, runVars, sys, bound>>

SyncMovedStage(w) ==
    /\ Recovering(w) /\ pc[w] \in {"sync_stage", "sync_stage2"}
    /\ SyncStaging
    /\ Goto(w, IF pc[w] = "sync_stage" THEN "sync_files2" ELSE "settled")
    /\ UNCHANGED <<files, staging, marker, jVars, dbVars, reqVars, runVars, sys, bound>>

\* Variant: the before file itself is written where its index row belongs.
RollbackMetadataToObject(w) ==
    /\ Recovering(w) /\ pc[w] = "settled" /\ dir[w] = "back"
    /\ index' = Put(index, Path(w), Before(w))
    /\ versions' = IF plan[w].versioned /\ ~plan[w].rowBefore
                   THEN versions \ {Row(w)} ELSE versions
    /\ Goto(w, "half")
    /\ UNCHANGED <<fsVars, jVars, cas, reqVars, runVars, sys, bound>>

\* RollbackWriteMetadata: exactly the before rows, in one transaction.
RollbackMetadata(w) ==
    /\ Recovering(w) /\ pc[w] = "settled" /\ dir[w] = "back"
    /\ index' = Put(index, Path(w), plan[w].indexBefore)
    /\ versions' = IF plan[w].versioned /\ ~plan[w].rowBefore
                   THEN versions \ {Row(w)} ELSE versions
    /\ Goto(w, "half")
    /\ UNCHANGED <<fsVars, jVars, cas, reqVars, runVars, sys, bound>>

\* rollbackWriteTransactionCAS: only an object the published outcome claims, and
\* only while no version row refers to it.
RollbackCAS(w) ==
    /\ Recovering(w) /\ pc[w] = "half" /\ dir[w] = "back"
    /\ cas' = IF /\ plan[w].versioned /\ "published" \in journal[w]
                 /\ plan[w].created /\ ~Referenced(Before(w).body)
              THEN cas \ {Before(w).body} ELSE cas
    /\ Goto(w, "unlink")
    /\ UNCHANGED <<fsVars, jVars, index, versions, reqVars, runVars, sys, bound>>

\* ensureWriteTransactionCAS: restore a missing object from the old stage.
EnsureCAS(w) ==
    /\ Recovering(w) /\ pc[w] = "settled" /\ dir[w] = "forward"
    /\ cas' = IF plan[w].versioned THEN cas \cup {Before(w).body} ELSE cas
    /\ Goto(w, "half")
    /\ UNCHANGED <<fsVars, jVars, index, versions, reqVars, runVars, sys, bound>>

EnsureMetadata(w) ==
    /\ Recovering(w) /\ pc[w] = "half" /\ dir[w] = "forward"
    /\ RowsAfter(w)
    /\ Goto(w, "unlink")
    /\ UNCHANGED <<fsVars, jVars, cas, reqVars, runVars, sys, bound>>

\* removeWriteTransactionStage, then the syncs of validateWriteTransactionFinalState.
RemoveStage(w) ==
    /\ Recovering(w) /\ pc[w] = "unlink"
    /\ staging' = Put(staging, w, Absent)
    /\ Goto(w, "unlinked")
    /\ UNCHANGED <<files, filesDur, stagingDur, marker, jVars, dbVars, reqVars,
                   runVars, sys, bound>>

ValidateFinal(w) ==
    /\ Recovering(w) /\ pc[w] = "unlinked"
    /\ filesDur' = files /\ stagingDur' = staging
    /\ Goto(w, "clean")
    /\ UNCHANGED <<files, staging, marker, jVars, dbVars, reqVars, runVars, sys, bound>>

\* Variant: both directions remove the oldest checkpoint first.
NextRemovedInOrder(w) ==
    IF "prepared" \in journal[w] THEN "prepared"
    ELSE IF "published" \in journal[w] THEN "published" ELSE "committed"

\* CleanupRollback removes published, then prepared; CleanupRollforward removes
\* prepared, then published, and committed last.
NextRemoved(w) ==
    LET at(s) == s \cap journal[w] # {}
    IN IF dir[w] = "back"
       THEN IF at({"published"}) THEN "published" ELSE "prepared"
       ELSE IF at({"prepared"}) THEN "prepared"
            ELSE IF at({"published"}) THEN "published" ELSE "committed"

RemoveRecord(w) ==
    /\ Recovering(w) /\ pc[w] = "clean"
    /\ journal' = Put(journal, w, journal[w] \ {NextRemoved(w)})
    /\ Goto(w, "cleaning")
    /\ UNCHANGED <<fsVars, journalDur, decided, dbVars, reqVars, runVars, sys, bound>>

\* Variant: cleanup goes on after the last checkpoint is gone.
SyncRemovalEndless(w) ==
    /\ Recovering(w) /\ pc[w] = "cleaning"
    /\ SyncJournal
    /\ Goto(w, "clean")
    /\ UNCHANGED <<fsVars, journal, dbVars, reqVars, runVars, sys, bound>>

SyncRemoval(w) ==
    /\ Recovering(w) /\ pc[w] = "cleaning"
    /\ SyncJournal
    /\ CASE journal[w] # {} -> Goto(w, "clean") /\ UNCHANGED <<resp, lock>>
         [] journal[w] = {} /\ sys = "starting" ->
                Goto(w, "gone") /\ UNCHANGED <<resp, lock>>
         [] journal[w] = {} /\ sys = "up" /\ dir[w] = "back" ->
                Goto(w, "done") /\ Answer(w, "error")
         [] journal[w] = {} /\ sys = "up" /\ dir[w] = "forward" ->
                Goto(w, "retain") /\ UNCHANGED <<resp, lock>>
    /\ UNCHANGED <<fsVars, journal, dbVars, reqVars, blocked, cause, dir, dropped,
                   sys, bound>>

\* Positions of requests whose process died.
Lost == [w \in Writers |-> IF pc[w] \in Admitted \cup {"halted"} THEN "gone" ELSE pc[w]]

\* A recovery step fails, or the evidence is not what the plan allows.  The
\* runtime closes the gate; storage.New returns the error and startup ends.
RecoveryFails(w) ==
    /\ Recovering(w)
    /\ \/ Fault
       \/ pc[w] = "recover" /\ ~Recoverable(w) /\ UNCHANGED faults
    /\ IF sys = "up"
       THEN BlockGate(w, IF dir[w] = "forward" THEN "warning" ELSE "blocked")
       ELSE sys' = "down" /\ pc' = Lost /\ UNCHANGED <<blocked, resp, lock>>
    /\ UNCHANGED <<fsVars, jVars, dbVars, reqVars, cause, dir, dropped, crashes>>

-----------------------------------------------------------------------------
(* Retention after a committed write                                       *)

\* DeleteOldVersionsDetailed: count and age limits pick any set of old rows.
RetainRows(w, old) ==
    /\ sys = "up" /\ pc[w] = "retain"
    /\ versions' = versions \ old
    /\ dropped' = Put(dropped, w, old)
    /\ Goto(w, "retain_objects")
    /\ UNCHANGED <<fsVars, jVars, index, cas, reqVars, lock, blocked, cause, dir,
                   resp, sys, bound>>

\* Hashes of the dropped rows, and those of them no remaining row names.
Dropped(w) == {r[2] : r \in dropped[w]}
Unreferenced(w) == {h \in Dropped(w) : ~Referenced(h)}

\* deleteRetainedVersionObjects: rows of the failed hashes are put back
\* (RestoreVersions).  Rows of the skipped ones are not, and their objects stay: the
\* context ended first, or the row deletion or RestoreVersions itself reported an
\* error.  None of this changes the answer.
RetainObjects(w, failed, skipped) ==
    /\ sys = "up" /\ pc[w] = "retain_objects"
    /\ failed \cup skipped \subseteq Dropped(w) /\ failed \cap skipped = {}
    /\ IF failed \cup skipped = {} THEN UNCHANGED faults ELSE Fault
    /\ \E gone \in {{}} \cup (IF LostDeleteReply THEN {failed \cap Unreferenced(w)} ELSE {}) :
           cas' = cas \ ((Unreferenced(w) \ (failed \cup skipped)) \cup gone)
    /\ versions' = versions \cup {r \in dropped[w] : r[2] \in failed}
    /\ dropped' = Put(dropped, w, {})
    /\ Answer(w, IF cause[w] THEN "warning" ELSE "ok")
    /\ Goto(w, "done")
    /\ UNCHANGED <<fsVars, jVars, index, reqVars, blocked, cause, dir, sys, crashes>>

-----------------------------------------------------------------------------
(* Maintenance, crashes and startup                                        *)

\* Variant: the pass does not exclude mutations.
CollectGarbageUnlocked(dead) ==
    /\ sys = "up"
    /\ dead # {} /\ \A h \in dead : ~Referenced(h)
    /\ cas' = cas \ dead
    /\ UNCHANGED <<fsVars, jVars, index, versions, reqVars, runVars, pc, sys, bound>>

\* A garbage collection pass holds gcMu exclusively from the reference listing to
\* the last deletion; it does not look at the write gate.
CollectGarbage(dead) ==
    /\ sys = "up" /\ lock = NoWriter
    /\ dead # {} /\ \A h \in dead : ~Referenced(h)
    /\ cas' = cas \ dead
    /\ UNCHANGED <<fsVars, jVars, index, versions, reqVars, runVars, pc, sys, bound>>

\* CleanupStaging: excludes every admitted writer (writeStagingMu), scans the
\* journal, and removes orphaned stages unless recovery evidence forbids it.
CleanupStaging ==
    /\ sys = "up" /\ lock = NoWriter /\ ~blocked
    /\ \A w \in Writers : pc[w] \notin Admitted
    /\ \E w \in Writers : staging[w] # Absent
    /\ SyncJournal
    /\ IF marker \/ \E w \in Writers : journal[w] # {}
       THEN blocked' = TRUE /\ UNCHANGED <<staging, stagingDur>>
       ELSE /\ staging' = [w \in Writers |-> Absent]
            /\ stagingDur' = staging'
            /\ UNCHANGED blocked
    /\ UNCHANGED <<files, filesDur, marker, journal, dbVars, reqVars, lock, cause,
                   dir, dropped, resp, pc, sys, bound>>

\* The process dies; its memory goes, every directory keeps its visible state.
Die == /\ sys \in {"up", "starting"} /\ crashes < MaxCrashes
       /\ crashes' = crashes + 1
       /\ sys' = "down" /\ lock' = NoWriter /\ blocked' = FALSE
       /\ pc' = Lost
       /\ dropped' = [w \in Writers |-> {}]
       /\ UNCHANGED <<marker, dbVars, reqVars, cause, dir, resp, faults>>

Kill == Die /\ UNCHANGED <<files, filesDur, staging, stagingDur, jVars>>

\* Unsynced entries survive or not, except that a rename none of whose parents
\* was synced survives as a whole or not at all.
PowerLoss ==
    /\ Die
    /\ \E P \in SUBSET Paths, S \in SUBSET Writers, J \in BOOLEAN :
         /\ \A w \in Writers :
              (/\ journal[w] # {} /\ staging[w] # stagingDur[w]
               /\ files[Path(w)] # filesDur[Path(w)]) => ((w \in S) = (Path(w) \in P))
         /\ files' = [p \in Paths |-> IF p \in P THEN files[p] ELSE filesDur[p]]
         /\ staging' = [w \in Writers |-> IF w \in S THEN staging[w] ELSE stagingDur[w]]
         /\ IF J THEN SyncJournal /\ UNCHANGED journal
            ELSE journal' = journalDur /\ UNCHANGED <<journalDur, decided>>
    /\ filesDur' = files' /\ stagingDur' = staging'

\* classifyWriteTransactionOperation accepts the checkpoints found.
WellFormed(cps) ==
    /\ "published" \in cps => cps \cap {"prepared", "committed"} # {}
    /\ {"prepared", "committed"} \subseteq cps => "published" \in cps

\* Variant: the journal directory is read without being synced first.
RestartWithoutSync ==
    /\ sys = "down" /\ \A w \in Writers : WellFormed(journal[w])
    /\ sys' = "starting"
    /\ pc' = [w \in Writers |-> IF journal[w] # {} THEN "recover" ELSE pc[w]]
    /\ dir' = [w \in Writers |-> Decision(w)]
    /\ UNCHANGED <<fsVars, jVars, dbVars, reqVars, lock, blocked, cause, dropped,
                   resp, bound>>

\* storage.New: opening the journal syncs its directory; a journal that does not
\* classify stops startup, every other operation found in it is recovered.
Restart ==
    /\ sys = "down" /\ \A w \in Writers : WellFormed(journal[w])
    /\ SyncJournal
    /\ sys' = "starting"
    /\ pc' = [w \in Writers |-> IF journal[w] # {} THEN "recover" ELSE pc[w]]
    /\ dir' = [w \in Writers |-> Decision(w)]
    /\ UNCHANGED <<fsVars, journal, dbVars, reqVars, lock, blocked, cause, dropped,
                   resp, bound>>

StartupDone ==
    /\ sys = "starting" /\ \A w \in Writers : pc[w] \notin RecoverySteps
    /\ sys' = "up"
    /\ UNCHANGED <<fsVars, jVars, dbVars, reqVars, runVars, pc, bound>>

\* Every request was answered or died with its process.
AllServed ==
    /\ sys = "up" /\ \A w \in Writers : pc[w] \in {"done", "halted", "gone"}
    /\ UNCHANGED vars

-----------------------------------------------------------------------------
WriterStep(w) ==
    \/ Refuse(w) \/ StageBody(w) \/ SealStage(w) \/ BeginMutation(w)
    \/ Abort(w) \/ AbortBlocked(w) \/ AbortRetained(w)
    \/ \E keep \in BOOLEAN : Prepare(w, keep)
    \/ PublishPrepared(w) \/ PublishVisible(w)
    \/ SyncVisibleFirst(w) \/ SyncVisibleSecond(w)
    \/ PutCAS(w) \/ PublishPublished(w) \/ CommitMetadata(w) \/ PublishCommitted(w)
    \/ StepFails(w) \/ Finish(w) \/ FinishBlocked(w)
    \/ \E old \in SUBSET versions : RetainRows(w, old)
    \/ \E failed, skipped \in SUBSET Contents : RetainObjects(w, failed, skipped)

RecoveryStep(w) ==
    \/ Inspect(w) \/ Move(w) \/ SyncMovedFiles(w) \/ SyncMovedStage(w)
    \/ RollbackMetadata(w) \/ RollbackCAS(w) \/ EnsureCAS(w) \/ EnsureMetadata(w)
    \/ RemoveStage(w) \/ ValidateFinal(w) \/ RemoveRecord(w) \/ SyncRemoval(w)
    \/ RecoveryFails(w)

Next ==
    \/ \E w \in Writers, p \in Paths, c \in Contents : Begin(w, p, c)
    \/ \E w \in Writers : WriterStep(w) \/ RecoveryStep(w)
    \/ \E dead \in SUBSET cas : CollectGarbage(dead)
    \/ CleanupStaging \/ Kill \/ PowerLoss \/ Restart \/ StartupDone \/ AllServed

Spec == Init /\ [][Next]_vars

\* A running request and a running recovery keep going: every call they wait on has
\* a deadline, and the lock is polled.  The service manager starts nasd again.
Fairness == /\ \A w \in Writers : WF_vars(WriterStep(w)) /\ WF_vars(RecoveryStep(w))
            /\ WF_vars(Restart) /\ WF_vars(StartupDone)

LiveSpec == Spec /\ Fairness

-----------------------------------------------------------------------------
(* Properties                                                              *)

FsType ==
    /\ files \in [Paths -> Objects \cup {Absent}]
    /\ filesDur \in [Paths -> Objects \cup {Absent}]
    /\ staging \in [Writers -> Objects \cup {Absent}]
    /\ stagingDur \in [Writers -> Objects \cup {Absent}]
    /\ marker \in BOOLEAN

JournalType ==
    /\ journal \in [Writers -> SUBSET Checkpoints]
    /\ journalDur \in [Writers -> SUBSET Checkpoints]
    /\ decided \in SUBSET Writers

StoreType ==
    /\ index \in [Paths -> Contents \cup {Absent}]
    /\ versions \in SUBSET Rows
    /\ cas \in SUBSET Contents

PlanType ==
    plan \in [Writers -> [before : Objects \cup {Absent}, versioned : BOOLEAN,
                          rowBefore : BOOLEAN, created : BOOLEAN,
                          indexBefore : Contents \cup {Absent}]]

RequestType ==
    /\ pc \in [Writers -> Positions]
    /\ req \in [Writers -> [path : Paths \cup {Absent}, body : Contents \cup {Absent},
                            snap : Objects \cup {Absent}]]
    /\ \A w \in Writers : pc[w] \in Admitted \/ journal[w] \cup journalDur[w] # {}
                           => Path(w) \in Paths /\ req[w].body \in Contents

RuntimeType ==
    /\ sys \in {"up", "down", "starting"}
    /\ lock \in Writers \cup {NoWriter} /\ blocked \in BOOLEAN
    /\ cause \in [Writers -> BOOLEAN]
    /\ dir \in [Writers -> {"back", "forward"}]
    /\ dropped \in [Writers -> SUBSET Rows]
    /\ resp \in [Writers -> {"none", "ok", "warning", "error", "blocked"}]

BoundType == faults \in Nat /\ crashes \in Nat

\* Every variable has its type, and a request that is admitted or on record names
\* the target and the body its stage and its plan are about.
TypeOK == /\ FsType /\ JournalType /\ StoreType /\ PlanType
          /\ RequestType /\ RuntimeType /\ BoundType

Undecided(w) == journalDur[w] # {} /\ "committed" \notin journal[w] \cup journalDur[w]

\* Until the committed checkpoint exists, the file an overwrite replaces survives
\* in the visible namespaces and in what a power loss would leave of them.
OldContentSafe ==
    \A w \in Writers : Undecided(w) /\ ~Creates(w) =>
        /\ Before(w) \in {files[Path(w)], staging[w]}
        /\ Before(w) \in {filesDur[Path(w)], stagingDur[w]}

\* Once the committed checkpoint is durable the new file is in place, durably.
NewContentSafe ==
    \A w \in Writers : "committed" \in journalDur[w] =>
        files[Path(w)] = After(w) /\ filesDur[Path(w)] = After(w)

\* Every row of the versions table names an object the CAS holds.
VersionsBacked == \A r \in versions : r[2] \in cas

\* What a scan finds, now or after a power loss, always classifies.
JournalClassifies ==
    \A w \in Writers : WellFormed(journal[w]) /\ WellFormed(journalDur[w])

\* At most one operation is in the journal: the lock, the gate and startup
\* recovery keep a second one from starting before the first is settled.
OnePending ==
    \A v, w \in Writers :
        journal[v] \cup journalDur[v] # {} /\ journal[w] \cup journalDur[w] # {} => v = w

\* With the lock free and the gate open nothing of any operation is left: the
\* journal is empty, the namespace is durable and the index describes it.
SettledState ==
    sys = "up" /\ lock = NoWriter /\ ~blocked =>
        /\ \A w \in Writers : journal[w] = {} /\ journalDur[w] = {}
        /\ files = filesDur
        /\ \A p \in Paths : index[p] = IF files[p] = Absent THEN Absent ELSE files[p].body

\* A success answer is given only to a durably committed write, a plain error
\* only to one that is not, and never will be, committed.
AnswersHonest ==
    \A w \in Writers :
        /\ resp[w] \in {"ok", "warning"} => w \in decided
        /\ resp[w] = "error" => /\ w \notin decided
                                /\ journal[w] = {} /\ journalDur[w] = {}

\* An admitted request ends: answered, halted at a closed gate, or lost in a crash.
RequestsEnd ==
    \A w \in Writers : pc[w] \in Admitted ~> pc[w] \in {"done", "halted", "gone"}

\* After a crash the service comes up again, with the interrupted write settled.
RecoveryEnds ==
    sys # "up" ~> sys = "up" /\ \A w \in Writers : pc[w] = "gone" => journal[w] = {}

\* While the gate is closed no request changes a file or a row.
GateHolds == [][blocked /\ sys' = "up" => UNCHANGED <<files, index, versions>>]_vars

=============================================================================
