--------------------------- MODULE WriteTxnProofs ---------------------------
(***************************************************************************)
(* Theorems about WriteTxn for every set of requests, paths and contents   *)
(* and every bound.  None of the properties is inductive by itself; the    *)
(* strengthenings below relate the mutation lease, the write gate, the     *)
(* journal and the positions of the requests, and each step lemma has one  *)
(* step per action.                                                        *)
(***************************************************************************)
EXTENDS WriteTxnRefinement, TLAPS

-----------------------------------------------------------------------------
(* The inductive invariants                                                *)

\* A scan now, or after a power loss, finds a checkpoint of the request.
Recorded(w) == journal[w] \cup journalDur[w] # {}

\* Inside the mutation lease, or with a checkpoint a scan could find.
Busy(w) == Recorded(w) \/ pc[w] \in Locked

\* Positions at which no checkpoint of the request can exist.
Clean == {"idle", "done", "locked", "planned", "retain", "retain_objects"} \cup Staging

\* At most one request holds the lease or has a checkpoint.
Exclusive == \A v, w \in Writers : Busy(v) /\ Busy(w) => v = w

\* While the service runs, the lease holder is the one request inside the protocol,
\* and a checkpoint outside the lease means a closed gate.  While it starts, whatever
\* is on record is being recovered; while it is down, nobody is admitted.
LeaseOK ==
    \A w \in Writers :
        /\ sys = "up" => (pc[w] \in Locked <=> lock = w)
        /\ sys = "up" /\ Recorded(w) => lock = w \/ blocked
        /\ sys = "starting" /\ (Recorded(w) \/ pc[w] \in Admitted) => pc[w] \in RecoverySteps
        /\ sys = "down" => pc[w] \notin Admitted

\* A closed gate means a free lock; both are memory of the running process.
GateOK == /\ blocked => lock = NoWriter
          /\ sys # "up" => lock = NoWriter /\ ~blocked

\* No checkpoint before the first publication and after the last removal; before
\* recovery starts the durable checkpoints are among the visible ones.
RecordsOK ==
    \A w \in Writers :
        /\ pc[w] \in Clean => ~Recorded(w)
        /\ pc[w] \in RuntimeSteps \cup {"finish"} => journalDur[w] \subseteq journal[w]

\* Only an overwrite saves a version.
PlanOK == \A w \in Writers : plan[w].versioned => plan[w].before # Absent

\* Rows are backed, and so are the rows a request is about to add or to put back.
BackedOK ==
    /\ VersionsBacked
    /\ \A w \in Writers :
        /\ (\/ pc[w] \in {"stored", "published_named", "published"}
            \/ pc[w] = "half" /\ dir[w] = "forward")
             => (plan[w].versioned => Before(w).body \in cas)
        /\ pc[w] = "retain_objects" => \A r \in dropped[w] : r[2] \in cas

\* Positions a request has before it can have named its committed checkpoint.
Uncommitted == {"idle", "locked"} \cup Staging \cup (RuntimeSteps \ {"committed_named"})

\* What a position, the recovery decision and an answer say of the durable decision.
HonestOK ==
    \A w \in Writers :
        /\ pc[w] \in Uncommitted => w \notin decided /\ "committed" \notin journal[w]
        /\ pc[w] \in {"committed_named", "finish"} /\ w \in decided
             => "committed" \in journal[w]
        /\ sys = "up" /\ pc[w] \in RecoverySteps /\ dir[w] = "forward" => w \in decided
        /\ sys = "up" /\ pc[w] \in RecoverySteps /\ dir[w] = "back"
             => w \notin decided /\ "committed" \notin journal[w]
        /\ pc[w] \in {"retain", "retain_objects"} => w \in decided
        /\ resp[w] \in {"ok", "warning"} => w \in decided
        /\ resp[w] = "error" => pc[w] = "done" /\ w \notin decided

\* The part about mutual exclusion, inductive together with TypeOK.
LeaseInv == Exclusive /\ LeaseOK /\ GateOK /\ RecordsOK

-----------------------------------------------------------------------------
(* Type correctness                                                        *)

\* writeRecordLocked, whichever checkpoint it publishes, keeps every type.
LEMMA RecordTypes ==
    ASSUME TypeOK, NEW w \in Writers, NEW at, NEW cp \in Checkpoints,
           at \in Admitted, NEW to \in Admitted,
           NameRecord(w, at, cp, to) \/ SyncRecord(w, at, to)
    PROVE  TypeOK'
<1>1. JournalType'
  BY DEF NameRecord, SyncRecord, SyncJournal, TypeOK, JournalType, Put
<1>2. RequestType'
  <2>1. pc[w] \in Admitted /\ Goto(w, to) /\ req' = req
    BY DEF NameRecord, SyncRecord, reqVars
  <2>2. pc' \in [Writers -> Positions] /\ req' \in [Writers -> [path : Paths \cup {Absent},
               body : Contents \cup {Absent}, snap : Objects \cup {Absent}]]
    BY <2>1 DEF TypeOK, RequestType, Goto, Positions
  <2>3. ASSUME NEW v \in Writers,
               pc'[v] \in Admitted \/ journal'[v] \cup journalDur'[v] # {}
        PROVE  req[v].path \in Paths /\ req[v].body \in Contents
    <3>1. CASE v = w
      BY <3>1, <2>1 DEF TypeOK, RequestType, Path
    <3>2. CASE v # w
      <4>1. pc'[v] = pc[v]
        BY <3>2, <2>1 DEF TypeOK, RequestType, Goto
      <4>2. journal'[v] \cup journalDur'[v] \subseteq journal[v] \cup journalDur[v]
        BY <3>2 DEF NameRecord, SyncRecord, SyncJournal, Put, TypeOK, JournalType
      <4>3. QED
        BY <4>1, <4>2, <2>3 DEF TypeOK, RequestType, Path
    <3>3. QED
      BY <3>1, <3>2
  <2>4. QED
    BY <2>1, <2>2, <2>3 DEF RequestType, Path
<1>3. FsType' /\ StoreType' /\ PlanType'
  BY DEF NameRecord, SyncRecord, TypeOK, FsType, StoreType, PlanType, fsVars,
         dbVars, reqVars
<1>4. RuntimeType' /\ BoundType'
  BY DEF NameRecord, SyncRecord, TypeOK, RuntimeType, BoundType, runVars, bound
<1>5. QED
  BY <1>1, <1>2, <1>3, <1>4 DEF TypeOK

\* The body a versioned plan saves is a content.
LEMMA SavedBody ==
    ASSUME TypeOK, PlanOK, NEW w \in Writers, plan[w].versioned
    PROVE  Before(w) \in Objects /\ Before(w).body \in Contents
BY DEF TypeOK, PlanType, PlanOK, Before, Objects

\* The CAS outcome recorded in the plan is a Boolean, the object a content.
LEMMA PutCASTypes ==
    ASSUME TypeOK, PlanOK, NEW w \in Writers, PutCAS(w)
    PROVE  TypeOK'
<1>1. StoreType'
  BY SavedBody DEF PutCAS, TypeOK, StoreType
<1>2. PlanType'
  BY ZenonT(60) DEF PutCAS, TypeOK, PlanType
<1>3. RequestType'
  BY DEF PutCAS, TypeOK, RequestType, Path, Goto, Positions, Admitted, Locked,
         RuntimeSteps, jVars
<1>4. FsType' /\ JournalType' /\ RuntimeType' /\ BoundType'
  BY DEF PutCAS, TypeOK, FsType, JournalType, RuntimeType, BoundType, fsVars,
         jVars, runVars, bound
<1>5. QED
  BY <1>1, <1>2, <1>3, <1>4 DEF TypeOK

\* The rows an overwrite commits are rows of the two tables.
LEMMA CommitMetadataTypes ==
    ASSUME TypeOK, PlanOK, NEW w \in Writers, CommitMetadata(w)
    PROVE  TypeOK'
<1>1. Path(w) \in Paths /\ req[w].body \in Contents
  BY DEF CommitMetadata, TypeOK, RequestType, Admitted, Locked, RuntimeSteps
<1>2. StoreType'
  BY <1>1, SavedBody DEF CommitMetadata, RowsAfter, Row, Rows, Put, TypeOK, StoreType
<1>3. RequestType'
  BY DEF CommitMetadata, TypeOK, RequestType, Path, Goto, Positions, Admitted, Locked,
         RuntimeSteps, jVars, reqVars
<1>4. FsType' /\ JournalType' /\ PlanType'
  BY DEF CommitMetadata, TypeOK, FsType, JournalType, PlanType, fsVars, jVars, reqVars
<1>5. RuntimeType'
  BY DEF CommitMetadata, TypeOK, RuntimeType, Put
<1>6. BoundType'
  <2>1. faults' \in {faults, faults + 1} /\ crashes' = crashes
    BY DEF CommitMetadata, Fault
  <2>2. QED
    BY <2>1 DEF TypeOK, BoundType
<1>7. QED
  BY <1>2, <1>3, <1>4, <1>5, <1>6 DEF TypeOK

\* The move of recovery exchanges two objects.
LEMMA MoveTypes ==
    ASSUME TypeOK, NEW w \in Writers, Move(w)
    PROVE  TypeOK'
<1>1. Path(w) \in Paths
  BY DEF Move, TypeOK, RequestType, Admitted, Locked, RecoverySteps
<1>2. FsType'
  BY <1>1 DEF Move, SwapStage, Put, TypeOK, FsType
<1>3. RequestType'
  BY DEF Move, MoveFirst, TypeOK, RequestType, Path, Goto, Positions, Admitted, Locked,
         RecoverySteps, jVars, reqVars
<1>4. JournalType' /\ StoreType' /\ PlanType' /\ RuntimeType' /\ BoundType'
  BY DEF Move, TypeOK, JournalType, StoreType, PlanType, RuntimeType, BoundType,
         jVars, dbVars, reqVars, runVars, bound
<1>5. QED
  BY <1>2, <1>3, <1>4 DEF TypeOK

\* The end of journal cleanup leaves a legal position and answer.
LEMMA SyncRemovalTypes ==
    ASSUME TypeOK, NEW w \in Writers, SyncRemoval(w)
    PROVE  TypeOK'
<1>1. JournalType'
  BY DEF SyncRemoval, SyncJournal, TypeOK, JournalType
<1>2. RequestType'
  <2>1. PICK to \in {"clean", "gone", "done", "retain"} : Goto(w, to)
    BY DEF SyncRemoval, Recovering, TypeOK, RuntimeType
  <2>2. pc[w] \in Admitted
    BY DEF SyncRemoval, Admitted, Locked, RecoverySteps
  <2>3. QED
    BY <2>1, <2>2 DEF SyncRemoval, SyncJournal, TypeOK, RequestType, Path, Goto,
                      Positions, Admitted, Locked, RecoverySteps, reqVars
<1>3. RuntimeType'
  BY DEF SyncRemoval, Recovering, Answer, Put, TypeOK, RuntimeType
<1>4. FsType' /\ StoreType' /\ PlanType' /\ BoundType'
  BY DEF SyncRemoval, TypeOK, FsType, StoreType, PlanType, BoundType, fsVars,
         dbVars, reqVars, bound
<1>5. QED
  BY <1>1, <1>2, <1>3, <1>4 DEF TypeOK

\* A position set by a crash or a failed startup is never an admitted one.
LEMMA LostPositions ==
    ASSUME TypeOK
    PROVE  /\ Lost \in [Writers -> Positions]
           /\ \A w \in Writers : Lost[w] \notin Admitted
           /\ \A w \in Writers : Lost[w] # "gone" => Lost[w] = pc[w]
BY DEF Lost, TypeOK, RequestType, Positions, Admitted, Locked, Staging, RuntimeSteps,
       RecoverySteps

\* A failed recovery closes the gate or ends startup.
LEMMA RecoveryFailsTypes ==
    ASSUME TypeOK, NEW w \in Writers, RecoveryFails(w)
    PROVE  TypeOK'
<1>1. RequestType'
  <2>1. pc' \in [Writers -> Positions] /\ \A v \in Writers : pc'[v] \in Admitted => pc[v] \in Admitted
    <3>1. CASE sys = "up"
      BY <3>1 DEF RecoveryFails, BlockGate, Goto, TypeOK, RequestType, Positions,
         Admitted, Staging, Locked, RuntimeSteps, RecoverySteps
    <3>2. CASE sys # "up"
      BY <3>2, LostPositions DEF RecoveryFails
    <3>3. QED
      BY <3>1, <3>2
  <2>2. QED
    BY <2>1 DEF RecoveryFails, TypeOK, RequestType, Path, jVars, reqVars
<1>2. RuntimeType'
  BY DEF RecoveryFails, BlockGate, Answer, Put, TypeOK, RuntimeType
<1>3. BoundType'
  BY DEF RecoveryFails, Fault, TypeOK, BoundType
<1>4. FsType' /\ JournalType' /\ StoreType' /\ PlanType'
  BY DEF RecoveryFails, TypeOK, FsType, JournalType, StoreType, PlanType, fsVars,
         jVars, dbVars, reqVars
<1>5. QED
  BY <1>1, <1>2, <1>3, <1>4 DEF TypeOK

\* Staging cleanup empties every slot or closes the gate.
LEMMA CleanupStagingTypes ==
    ASSUME TypeOK, CleanupStaging
    PROVE  TypeOK'
<1>1. FsType'
  BY DEF CleanupStaging, TypeOK, FsType
<1>2. JournalType'
  BY DEF CleanupStaging, SyncJournal, TypeOK, JournalType
<1>3. RequestType'
  BY DEF CleanupStaging, SyncJournal, TypeOK, RequestType, Path, reqVars
<1>4. RuntimeType'
  BY DEF CleanupStaging, TypeOK, RuntimeType
<1>5. StoreType' /\ PlanType' /\ BoundType'
  BY DEF CleanupStaging, TypeOK, StoreType, PlanType, BoundType, dbVars, reqVars, bound
<1>6. QED
  BY <1>1, <1>2, <1>3, <1>4, <1>5 DEF TypeOK

\* A crash keeps the tables and resets the memory of the process.
LEMMA DieTypes ==
    ASSUME TypeOK, Die
    PROVE  StoreType' /\ PlanType' /\ RuntimeType' /\ BoundType'
<1>1. StoreType' /\ PlanType'
  BY DEF Die, TypeOK, StoreType, PlanType, dbVars, reqVars
<1>2. RuntimeType'
  BY DEF Die, TypeOK, RuntimeType
<1>3. BoundType'
  BY DEF Die, TypeOK, BoundType
<1>4. QED
  BY <1>1, <1>2, <1>3

\* A power loss leaves, entry by entry, a visible or a durable one.
LEMMA PowerLossTypes ==
    ASSUME TypeOK, PowerLoss
    PROVE  TypeOK'
<1>1. PICK P \in SUBSET Paths, S \in SUBSET Writers, J \in BOOLEAN :
         /\ files' = [p \in Paths |-> IF p \in P THEN files[p] ELSE filesDur[p]]
         /\ staging' = [w \in Writers |-> IF w \in S THEN staging[w] ELSE stagingDur[w]]
         /\ IF J THEN SyncJournal /\ UNCHANGED journal
            ELSE journal' = journalDur /\ UNCHANGED <<journalDur, decided>>
  BY DEF PowerLoss
<1>2. Die /\ filesDur' = files' /\ stagingDur' = staging'
  BY DEF PowerLoss
<1>3. FsType'
  BY <1>1, <1>2 DEF Die, TypeOK, FsType
<1>4. JournalType'
  BY <1>1 DEF SyncJournal, TypeOK, JournalType
<1>5. RequestType'
  BY <1>1, <1>2, LostPositions DEF Die, SyncJournal, TypeOK, RequestType, Path, reqVars
<1>6. QED
  BY <1>2, <1>3, <1>4, <1>5, DieTypes DEF TypeOK

\* A kill leaves every directory as it is.
LEMMA KillTypes ==
    ASSUME TypeOK, Kill
    PROVE  TypeOK'
<1>1. FsType' /\ JournalType'
  BY DEF Kill, Die, TypeOK, FsType, JournalType, jVars
<1>2. RequestType'
  BY LostPositions DEF Kill, Die, TypeOK, RequestType, Path, reqVars, jVars
<1>3. QED
  BY <1>1, <1>2, DieTypes DEF Kill, TypeOK

\* Every step keeps every variable in its type.
LEMMA TypeStep == TypeOK /\ PlanOK /\ [Next]_vars => TypeOK'
<1> SUFFICES ASSUME TypeOK, PlanOK, [Next]_vars PROVE TypeOK'
  OBVIOUS
<1> USE DEF TypeOK, FsType, JournalType, StoreType, PlanType, RequestType, RuntimeType,
            BoundType, Goto, Put, Fault, fsVars, jVars, dbVars, reqVars, runVars, bound,
            Path, Before, Admitted, Staging, Locked, RuntimeSteps, RecoverySteps,
            Positions
<1>1. ASSUME NEW w \in Writers, Refuse(w) PROVE TypeOK'
  BY <1>1 DEF Refuse
<1>2. ASSUME NEW w \in Writers, StageBody(w) PROVE TypeOK'
  BY <1>2 DEF StageBody, After, Objects
<1>3. ASSUME NEW w \in Writers, SealStage(w) PROVE TypeOK'
  BY <1>3 DEF SealStage, SyncStaging
<1>4. ASSUME NEW w \in Writers, BeginMutation(w) PROVE TypeOK'
  BY <1>4 DEF BeginMutation
<1>5. ASSUME NEW w \in Writers, Abort(w) PROVE TypeOK'
  BY <1>5 DEF Abort, Answer
<1>6. ASSUME NEW w \in Writers, AbortBlocked(w) PROVE TypeOK'
  BY <1>6 DEF AbortBlocked, Answer
<1>6a. ASSUME NEW w \in Writers, AbortRetained(w) PROVE TypeOK'
  BY <1>6a DEF AbortRetained, Answer
<1>7. ASSUME NEW w \in Writers, NEW keep \in BOOLEAN, Prepare(w, keep) PROVE TypeOK'
  BY <1>7 DEF Prepare
<1>8. ASSUME NEW w \in Writers, PublishPrepared(w) PROVE TypeOK'
  BY <1>8, RecordTypes DEF PublishPrepared, Checkpoints
<1>9. ASSUME NEW w \in Writers, PublishVisible(w) PROVE TypeOK'
  BY <1>9 DEF PublishVisible, SwapStage
<1>10. ASSUME NEW w \in Writers, SyncVisibleFirst(w) PROVE TypeOK'
  BY <1>10 DEF SyncVisibleFirst, SyncFiles, SyncStaging
<1>11. ASSUME NEW w \in Writers, SyncVisibleSecond(w) PROVE TypeOK'
  BY <1>11 DEF SyncVisibleSecond, SyncFiles, SyncStaging
<1>12. ASSUME NEW w \in Writers, PutCAS(w) PROVE TypeOK'
  BY <1>12, PutCASTypes
<1>13. ASSUME NEW w \in Writers, PublishPublished(w) PROVE TypeOK'
  BY <1>13, RecordTypes DEF PublishPublished, Checkpoints
<1>14. ASSUME NEW w \in Writers, CommitMetadata(w) PROVE TypeOK'
  BY <1>14, CommitMetadataTypes
<1>15. ASSUME NEW w \in Writers, PublishCommitted(w) PROVE TypeOK'
  BY <1>15, RecordTypes DEF PublishCommitted, Checkpoints
<1>16. ASSUME NEW w \in Writers, StepFails(w) PROVE TypeOK'
  BY <1>16 DEF StepFails
<1>17. ASSUME NEW w \in Writers, Finish(w) PROVE TypeOK'
  BY <1>17, ZenonT(60) DEF Finish, SyncJournal, Decision, Answer
<1>18. ASSUME NEW w \in Writers, FinishBlocked(w) PROVE TypeOK'
  BY <1>18 DEF FinishBlocked, BlockGate, Answer
<1>19. ASSUME NEW w \in Writers, NEW old \in SUBSET versions, RetainRows(w, old)
       PROVE  TypeOK'
  BY <1>19 DEF RetainRows
<1>20. ASSUME NEW w \in Writers, NEW failed \in SUBSET Contents,
             NEW skipped \in SUBSET Contents, RetainObjects(w, failed, skipped)
       PROVE  TypeOK'
  BY <1>20 DEF RetainObjects, Answer
<1>21. ASSUME NEW w \in Writers, Inspect(w) PROVE TypeOK'
  BY <1>21 DEF Inspect, Recovering
<1>22. ASSUME NEW w \in Writers, Move(w) PROVE TypeOK'
  BY <1>22, MoveTypes
<1>23. ASSUME NEW w \in Writers, SyncMovedFiles(w) PROVE TypeOK'
  BY <1>23 DEF SyncMovedFiles, Recovering, SyncFiles
<1>24. ASSUME NEW w \in Writers, SyncMovedStage(w) PROVE TypeOK'
  BY <1>24 DEF SyncMovedStage, Recovering, SyncStaging
<1>25. ASSUME NEW w \in Writers, RollbackMetadata(w) PROVE TypeOK'
  BY <1>25 DEF RollbackMetadata, Recovering
<1>26. ASSUME NEW w \in Writers, RollbackCAS(w) PROVE TypeOK'
  BY <1>26 DEF RollbackCAS, Recovering
<1>27. ASSUME NEW w \in Writers, EnsureCAS(w) PROVE TypeOK'
  BY <1>27 DEF EnsureCAS, Recovering, PlanOK, Objects
<1>28. ASSUME NEW w \in Writers, EnsureMetadata(w) PROVE TypeOK'
  BY <1>28 DEF EnsureMetadata, Recovering, RowsAfter, Row, Rows, PlanOK, Objects
<1>29. ASSUME NEW w \in Writers, RemoveStage(w) PROVE TypeOK'
  BY <1>29 DEF RemoveStage, Recovering
<1>30. ASSUME NEW w \in Writers, ValidateFinal(w) PROVE TypeOK'
  BY <1>30 DEF ValidateFinal, Recovering
<1>31. ASSUME NEW w \in Writers, RemoveRecord(w) PROVE TypeOK'
  BY <1>31 DEF RemoveRecord, Recovering
<1>32. ASSUME NEW w \in Writers, SyncRemoval(w) PROVE TypeOK'
  BY <1>32, SyncRemovalTypes
<1>33. ASSUME NEW w \in Writers, RecoveryFails(w) PROVE TypeOK'
  BY <1>33, RecoveryFailsTypes
<1>34. ASSUME NEW w \in Writers, NEW p \in Paths, NEW c \in Contents, Begin(w, p, c)
       PROVE  TypeOK'
  BY <1>34 DEF Begin
<1>35. ASSUME NEW dead \in SUBSET cas, CollectGarbage(dead) PROVE TypeOK'
  BY <1>35 DEF CollectGarbage
<1>36. ASSUME CleanupStaging PROVE TypeOK'
  BY <1>36, CleanupStagingTypes
<1>37. ASSUME Kill PROVE TypeOK'
  BY <1>37, KillTypes
<1>38. ASSUME PowerLoss PROVE TypeOK'
  BY <1>38, PowerLossTypes
<1>39. ASSUME Restart PROVE TypeOK'
  BY <1>39 DEF Restart, SyncJournal, Decision
<1>40. ASSUME StartupDone PROVE TypeOK'
  BY <1>40 DEF StartupDone
<1>41. ASSUME AllServed PROVE TypeOK'
  BY <1>41 DEF AllServed, vars
<1>42. ASSUME UNCHANGED vars PROVE TypeOK'
  BY <1>42 DEF vars
<1>43. QED
  BY <1>1, <1>2, <1>3, <1>4, <1>5, <1>6, <1>6a, <1>7, <1>8, <1>9, <1>10, <1>11, <1>12, <1>13,
     <1>14, <1>15, <1>16, <1>17, <1>18, <1>19, <1>20, <1>21, <1>22, <1>23, <1>24, <1>25,
     <1>26, <1>27, <1>28, <1>29, <1>30, <1>31, <1>32, <1>33, <1>34, <1>35, <1>36, <1>37,
     <1>38, <1>39, <1>40, <1>41, <1>42
     DEF Next, WriterStep, RecoveryStep

\* Every step keeps the plans of versioned writes those of overwrites.
LEMMA PlanStep == TypeOK /\ PlanOK /\ [Next]_vars => PlanOK'
<1> SUFFICES ASSUME TypeOK, PlanOK, [Next]_vars PROVE PlanOK'
  OBVIOUS
<1>1. ASSUME NEW w \in Writers, NEW keep \in BOOLEAN, Prepare(w, keep) PROVE PlanOK'
  BY <1>1 DEF Prepare, Put, PlanOK, TypeOK, PlanType
<1>2. ASSUME NEW w \in Writers, PutCAS(w) PROVE PlanOK'
  BY <1>2 DEF PutCAS, PlanOK, TypeOK, PlanType
<1>3. ASSUME NEW w \in Writers, WriterStep(w),
             ~PutCAS(w), \A keep \in BOOLEAN : ~Prepare(w, keep)
      PROVE  plan' = plan
  BY <1>3 DEF WriterStep, Refuse, StageBody, SealStage, BeginMutation, Abort,
         AbortBlocked, AbortRetained, PublishPrepared, PublishVisible, SyncVisibleFirst,
         SyncVisibleSecond, PublishPublished, CommitMetadata, PublishCommitted,
         StepFails, Finish, FinishBlocked, RetainRows, RetainObjects, NameRecord,
         SyncRecord, BlockGate, reqVars
<1>4. ASSUME NEW w \in Writers, RecoveryStep(w) PROVE plan' = plan
  BY <1>4 DEF RecoveryStep, Inspect, Move, SyncMovedFiles, SyncMovedStage,
         RollbackMetadata, RollbackCAS, EnsureCAS, EnsureMetadata, RemoveStage,
         ValidateFinal, RemoveRecord, SyncRemoval, RecoveryFails, reqVars
<1>5. CASE plan' = plan
  BY <1>5 DEF PlanOK
<1>6. QED
  BY <1>1, <1>2, <1>3, <1>4, <1>5 DEF Next, Begin, CollectGarbage, CleanupStaging, Kill,
     PowerLoss, Die, Restart, StartupDone, AllServed, vars, reqVars

-----------------------------------------------------------------------------
(* The mutation lease, the gate and the journal exclude each other         *)

\* Publishing a checkpoint keeps the lease invariant: only the lease holder does it.
LEMMA RecordLease ==
    ASSUME TypeOK, LeaseInv, NEW w \in Writers, NEW at \in RuntimeSteps,
           NEW cp \in Checkpoints, NEW to \in (RuntimeSteps \ {"planned"}) \cup {"finish"},
           \/ NameRecord(w, at, cp, to)
           \/ SyncRecord(w, at, to) /\ at # "planned"
    PROVE  LeaseInv'
<1>1. /\ sys = "up" /\ sys' = sys /\ lock' = lock /\ blocked' = blocked
      /\ pc[w] = at /\ pc' = [pc EXCEPT ![w] = to]
  BY DEF NameRecord, SyncRecord, Goto, runVars
<1>2. at \in Locked /\ to \in Locked /\ lock = w
  BY <1>1 DEF LeaseInv, LeaseOK, Locked
<1>3. \A v \in Writers \ {w} : ~Recorded(v) /\ pc[v] \notin Locked /\ pc'[v] = pc[v]
  BY <1>1, <1>2 DEF LeaseInv, Exclusive, Busy, TypeOK, RequestType
<1>4. \A v \in Writers \ {w} : ~Recorded(v)'
  BY <1>3 DEF NameRecord, SyncRecord, SyncJournal, Put, Recorded, TypeOK, JournalType
<1>5. pc'[w] = to
  BY <1>1 DEF TypeOK, RequestType
<1>6. to \notin Clean
  BY DEF Clean, RuntimeSteps, Staging
<1>7. journalDur'[w] \subseteq journal'[w]
  BY <1>1 DEF NameRecord, SyncRecord, SyncJournal, Put, LeaseInv, RecordsOK, TypeOK,
              JournalType
<1>8. Exclusive'
  BY <1>3, <1>4 DEF Exclusive, Busy
<1>9. LeaseOK' /\ GateOK'
  BY <1>1, <1>2, <1>3, <1>4, <1>5 DEF LeaseInv, LeaseOK, GateOK
<1>10. RecordsOK'
  BY <1>3, <1>4, <1>5, <1>6, <1>7 DEF LeaseInv, RecordsOK, Recorded, Locked
<1>11. QED
  BY <1>8, <1>9, <1>10 DEF LeaseInv

\* The lease holder gives the lease back with no checkpoint left.
LEMMA ReleaseLease ==
    ASSUME TypeOK, LeaseInv, NEW w \in Writers, pc[w] \in Locked, sys = "up",
           journal[w] = {}, journalDur' = journal, journal' = journal,
           NEW to \in {"done", "retain"}, Goto(w, to), sys' = sys, blocked' = blocked,
           lock' = IF to = "retain" THEN lock ELSE IF lock = w THEN NoWriter ELSE lock
    PROVE  LeaseInv'
<1>1. lock = w /\ ~blocked
  BY ConstantsAssumption DEF LeaseInv, LeaseOK, GateOK
<1>2. \A v \in Writers \ {w} : ~Recorded(v) /\ pc[v] \notin Locked /\ pc'[v] = pc[v]
  BY DEF LeaseInv, Exclusive, Busy, Goto, TypeOK, RequestType
<1>3. \A v \in Writers : ~Recorded(v)'
  BY <1>2 DEF Recorded, TypeOK, JournalType
<1>4. pc'[w] = to
  BY DEF Goto, TypeOK, RequestType
<1>5. "retain" \in Locked /\ "done" \notin Locked
  BY DEF Locked, RuntimeSteps, RecoverySteps
<1>6. Exclusive'
  BY <1>2, <1>3 DEF Exclusive, Busy
<1>7. LeaseOK' /\ GateOK'
  BY <1>1, <1>2, <1>3, <1>4, <1>5, ConstantsAssumption DEF LeaseOK, GateOK
<1>8. RecordsOK'
  BY <1>3 DEF RecordsOK, Recorded
<1>9. QED
  BY <1>6, <1>7, <1>8 DEF LeaseInv

\* The lease holder, or startup recovery, moves on inside the protocol.
LEMMA KeepLease ==
    ASSUME TypeOK, LeaseInv, NEW w \in Writers, pc[w] \in Locked,
           journalDur' = journal, journal' = journal,
           NEW to \in RecoverySteps, Goto(w, to),
           sys' = sys, lock' = lock, blocked' = blocked
    PROVE  LeaseInv'
<1>1. \A v \in Writers \ {w} : ~Recorded(v) /\ pc[v] \notin Locked /\ pc'[v] = pc[v]
  BY DEF LeaseInv, Exclusive, Busy, Goto, TypeOK, RequestType
<1>2. \A v \in Writers \ {w} : ~Recorded(v)'
  BY <1>1 DEF Recorded, TypeOK, JournalType
<1>3. pc'[w] = to /\ to \in Locked /\ to \notin Clean /\ to \notin RuntimeSteps \cup {"finish"}
  BY DEF Goto, TypeOK, RequestType, Locked, Clean, RecoverySteps, RuntimeSteps, Staging
<1>4. Exclusive'
  BY <1>1, <1>2 DEF Exclusive, Busy
<1>5. LeaseOK' /\ GateOK'
  BY <1>1, <1>2, <1>3 DEF LeaseInv, LeaseOK, GateOK, Locked, Admitted
<1>6. RecordsOK'
  BY <1>1, <1>2, <1>3 DEF LeaseInv, RecordsOK, Recorded, Locked
<1>7. QED
  BY <1>4, <1>5, <1>6 DEF LeaseInv

\* finishWriteTransactionRuntime releases the lease or starts recovery under it.
LEMMA FinishLease ==
    ASSUME TypeOK, LeaseInv, NEW w \in Writers, Finish(w)
    PROVE  LeaseInv'
<1>1. pc[w] \in Locked /\ sys = "up" /\ sys' = sys /\ blocked' = blocked
      /\ journalDur' = journal /\ journal' = journal
  BY DEF Finish, SyncJournal, Locked
<1>2. CASE journal[w] = {}
  BY <1>1, <1>2, ReleaseLease DEF Finish, Answer
<1>3. CASE journal[w] # {}
  BY <1>1, <1>3, KeepLease DEF Finish, RecoverySteps
<1>4. QED
  BY <1>2, <1>3

\* Journal cleanup gives the lease back only when the last checkpoint is durably gone.
LEMMA SyncRemovalLease ==
    ASSUME TypeOK, LeaseInv, NEW w \in Writers, SyncRemoval(w)
    PROVE  LeaseInv'
<1>1. pc[w] \in Locked /\ sys' = sys /\ blocked' = blocked
      /\ journalDur' = journal /\ journal' = journal
  BY DEF SyncRemoval, SyncJournal, Locked, RecoverySteps
<1>2. CASE journal[w] # {}
  BY <1>1, <1>2, KeepLease DEF SyncRemoval, RecoverySteps
<1>3. CASE journal[w] = {} /\ sys = "up"
  <2>1. PICK to \in {"done", "retain"} :
            /\ Goto(w, to)
            /\ lock' = IF to = "retain" THEN lock ELSE IF lock = w THEN NoWriter ELSE lock
    BY <1>3 DEF SyncRemoval, Answer, TypeOK, RuntimeType
  <2>2. QED
    BY <1>1, <1>3, <2>1, ReleaseLease
<1>4. CASE journal[w] = {} /\ sys = "starting"
  <2>1. Goto(w, "gone") /\ lock' = lock
    BY <1>4 DEF SyncRemoval
  <2>2. \A v \in Writers \ {w} : ~Recorded(v) /\ pc[v] \notin Locked /\ pc'[v] = pc[v]
    BY <1>1, <2>1 DEF LeaseInv, Exclusive, Busy, Goto, TypeOK, RequestType
  <2>3. \A v \in Writers : ~Recorded(v)'
    BY <1>1, <1>4, <2>2 DEF Recorded, TypeOK, JournalType
  <2>4. pc'[w] \notin Admitted
    BY <2>1 DEF Goto, TypeOK, RequestType, Admitted, Locked, Staging, RuntimeSteps,
           RecoverySteps
  <2>5. Exclusive' /\ RecordsOK'
    BY <2>2, <2>3, <2>4 DEF Exclusive, Busy, Admitted, RecordsOK, Recorded
  <2>6. LeaseOK' /\ GateOK'
    BY <1>1, <1>4, <2>1, <2>2, <2>3, <2>4 DEF LeaseInv, LeaseOK, GateOK
  <2>7. QED
    BY <2>5, <2>6 DEF LeaseInv
<1>5. QED
  BY <1>2, <1>3, <1>4 DEF SyncRemoval, Recovering

\* A failed recovery leaves its checkpoints behind a closed gate, or ends startup.
LEMMA RecoveryFailsLease ==
    ASSUME TypeOK, LeaseInv, NEW w \in Writers, RecoveryFails(w)
    PROVE  LeaseInv'
<1>1. pc[w] \in Locked /\ journal' = journal /\ journalDur' = journalDur
  BY DEF RecoveryFails, Recovering, Locked, jVars
<1>2. CASE sys = "up"
  <2>1. lock' = NoWriter /\ blocked' = TRUE /\ sys' = sys /\ Goto(w, "halted")
    BY <1>1, <1>2 DEF RecoveryFails, BlockGate, Answer, LeaseInv, LeaseOK
  <2>2. \A v \in Writers \ {w} : ~Recorded(v) /\ pc[v] \notin Locked /\ pc'[v] = pc[v]
    BY <1>1, <2>1 DEF LeaseInv, Exclusive, Busy, Goto, TypeOK, RequestType
  <2>3. pc'[w] = "halted" /\ "halted" \notin Admitted \cup Clean
    BY <2>1 DEF Goto, TypeOK, RequestType, Admitted, Clean, Locked, Staging,
           RuntimeSteps,
                RecoverySteps
  <2>4. Exclusive'
    BY <1>1, <2>2, <2>3 DEF Exclusive, Busy, Recorded, Admitted
  <2>5. LeaseOK' /\ GateOK'
    BY <1>2, <2>1, <2>2, <2>3, ConstantsAssumption DEF LeaseOK, GateOK, Admitted
  <2>6. RecordsOK'
    BY <1>1, <2>2, <2>3 DEF LeaseInv, RecordsOK, Recorded, Admitted, Locked
  <2>7. QED
    BY <2>4, <2>5, <2>6 DEF LeaseInv
<1>3. CASE sys = "starting"
  <2>1. sys' = "down" /\ pc' = Lost /\ lock' = lock /\ blocked' = blocked
    BY <1>3 DEF RecoveryFails
  <2>2. \A v \in Writers : pc'[v] \notin Admitted /\ (pc'[v] # "gone" => pc'[v] = pc[v])
    BY <2>1, LostPositions
  <2>3. "gone" \notin Clean
    BY DEF Clean, Staging
  <2>4. Exclusive'
    BY <1>1, <2>2 DEF LeaseInv, Exclusive, Busy, Recorded, Admitted
  <2>5. LeaseOK' /\ GateOK'
    BY <1>3, <2>1, <2>2 DEF LeaseInv, LeaseOK, GateOK
  <2>6. RecordsOK'
    BY <1>1, <2>2, <2>3 DEF LeaseInv, RecordsOK, Recorded, Admitted, Locked
  <2>7. QED
    BY <2>4, <2>5, <2>6 DEF LeaseInv
<1>4. QED
  BY <1>2, <1>3 DEF RecoveryFails, Recovering

\* Every step keeps the lease, the gate and the journal consistent.
LEMMA LeaseStep == TypeOK /\ LeaseInv /\ [Next]_vars => LeaseInv'
<1> SUFFICES ASSUME TypeOK, LeaseInv, [Next]_vars PROVE LeaseInv'
  OBVIOUS
<1> USE DEF LeaseInv, TypeOK, RequestType, RuntimeType, JournalType, Exclusive, LeaseOK,
            GateOK, RecordsOK, Recorded, Busy, Clean, Goto, Put, Fault, fsVars, jVars,
            dbVars, reqVars, runVars, bound, Path, Before, Admitted, Staging, Locked,
            RuntimeSteps, RecoverySteps, Positions
<1>1. ASSUME NEW w \in Writers, Refuse(w) PROVE LeaseInv'
  BY <1>1 DEF Refuse
<1>2. ASSUME NEW w \in Writers, StageBody(w) PROVE LeaseInv'
  BY <1>2 DEF StageBody, After, Objects
<1>3. ASSUME NEW w \in Writers, SealStage(w) PROVE LeaseInv'
  BY <1>3 DEF SealStage, SyncStaging
<1>4. ASSUME NEW w \in Writers, BeginMutation(w) PROVE LeaseInv'
  BY <1>4, ConstantsAssumption DEF BeginMutation
<1>5. ASSUME NEW w \in Writers, Abort(w) PROVE LeaseInv'
  BY <1>5, ConstantsAssumption DEF Abort, Answer
<1>6. ASSUME NEW w \in Writers, AbortBlocked(w) PROVE LeaseInv'
  BY <1>6, ConstantsAssumption DEF AbortBlocked, Answer
<1>6a. ASSUME NEW w \in Writers, AbortRetained(w) PROVE LeaseInv'
  BY <1>6a, ConstantsAssumption DEF AbortRetained, Answer
<1>7. ASSUME NEW w \in Writers, NEW keep \in BOOLEAN, Prepare(w, keep) PROVE LeaseInv'
  BY <1>7 DEF Prepare
<1>8. ASSUME NEW w \in Writers, PublishPrepared(w) PROVE LeaseInv'
  BY <1>8, RecordLease, ZenonT(60) DEF PublishPrepared, Checkpoints
<1>9. ASSUME NEW w \in Writers, PublishVisible(w) PROVE LeaseInv'
  BY <1>9 DEF PublishVisible, SwapStage
<1>10. ASSUME NEW w \in Writers, SyncVisibleFirst(w) PROVE LeaseInv'
  BY <1>10 DEF SyncVisibleFirst, SyncFiles, SyncStaging
<1>11. ASSUME NEW w \in Writers, SyncVisibleSecond(w) PROVE LeaseInv'
  BY <1>11 DEF SyncVisibleSecond, SyncFiles, SyncStaging
<1>12. ASSUME NEW w \in Writers, PutCAS(w) PROVE LeaseInv'
  BY <1>12 DEF PutCAS, PlanOK, Objects
<1>13. ASSUME NEW w \in Writers, PublishPublished(w) PROVE LeaseInv'
  BY <1>13, RecordLease DEF PublishPublished, Checkpoints
<1>14. ASSUME NEW w \in Writers, CommitMetadata(w) PROVE LeaseInv'
  BY <1>14 DEF CommitMetadata, RowsAfter, Row, Rows, PlanOK, Objects
<1>15. ASSUME NEW w \in Writers, PublishCommitted(w) PROVE LeaseInv'
  BY <1>15, RecordLease DEF PublishCommitted, Checkpoints
<1>16. ASSUME NEW w \in Writers, StepFails(w) PROVE LeaseInv'
  BY <1>16 DEF StepFails
<1>17. ASSUME NEW w \in Writers, Finish(w) PROVE LeaseInv'
  BY <1>17, FinishLease
<1>18. ASSUME NEW w \in Writers, FinishBlocked(w) PROVE LeaseInv'
  BY <1>18, ConstantsAssumption DEF FinishBlocked, BlockGate, Answer
<1>19. ASSUME NEW w \in Writers, NEW old \in SUBSET versions, RetainRows(w, old)
       PROVE  LeaseInv'
  BY <1>19 DEF RetainRows
<1>20. ASSUME NEW w \in Writers, NEW failed \in SUBSET Contents,
             NEW skipped \in SUBSET Contents, RetainObjects(w, failed, skipped)
       PROVE  LeaseInv'
  BY <1>20, ConstantsAssumption DEF RetainObjects, Answer
<1>21. ASSUME NEW w \in Writers, Inspect(w) PROVE LeaseInv'
  BY <1>21 DEF Inspect, Recovering
<1>22. ASSUME NEW w \in Writers, Move(w) PROVE LeaseInv'
  BY <1>22 DEF Move, Recovering, SwapStage, MoveFirst
<1>23. ASSUME NEW w \in Writers, SyncMovedFiles(w) PROVE LeaseInv'
  BY <1>23 DEF SyncMovedFiles, Recovering, SyncFiles
<1>24. ASSUME NEW w \in Writers, SyncMovedStage(w) PROVE LeaseInv'
  BY <1>24 DEF SyncMovedStage, Recovering, SyncStaging
<1>25. ASSUME NEW w \in Writers, RollbackMetadata(w) PROVE LeaseInv'
  BY <1>25 DEF RollbackMetadata, Recovering
<1>26. ASSUME NEW w \in Writers, RollbackCAS(w) PROVE LeaseInv'
  BY <1>26 DEF RollbackCAS, Recovering
<1>27. ASSUME NEW w \in Writers, EnsureCAS(w) PROVE LeaseInv'
  BY <1>27 DEF EnsureCAS, Recovering, PlanOK, Objects
<1>28. ASSUME NEW w \in Writers, EnsureMetadata(w) PROVE LeaseInv'
  BY <1>28 DEF EnsureMetadata, Recovering, RowsAfter, Row, Rows, PlanOK, Objects
<1>29. ASSUME NEW w \in Writers, RemoveStage(w) PROVE LeaseInv'
  BY <1>29 DEF RemoveStage, Recovering
<1>30. ASSUME NEW w \in Writers, ValidateFinal(w) PROVE LeaseInv'
  BY <1>30 DEF ValidateFinal, Recovering
<1>31. ASSUME NEW w \in Writers, RemoveRecord(w) PROVE LeaseInv'
  BY <1>31 DEF RemoveRecord, Recovering
<1>32. ASSUME NEW w \in Writers, SyncRemoval(w) PROVE LeaseInv'
  BY <1>32, SyncRemovalLease
<1>33. ASSUME NEW w \in Writers, RecoveryFails(w) PROVE LeaseInv'
  BY <1>33, RecoveryFailsLease
<1>34. ASSUME NEW w \in Writers, NEW p \in Paths, NEW c \in Contents, Begin(w, p, c)
       PROVE  LeaseInv'
  BY <1>34 DEF Begin
<1>35. ASSUME NEW dead \in SUBSET cas, CollectGarbage(dead) PROVE LeaseInv'
  BY <1>35 DEF CollectGarbage
<1>36. ASSUME CleanupStaging PROVE LeaseInv'
  BY <1>36 DEF CleanupStaging, SyncJournal
<1>37. ASSUME Kill PROVE LeaseInv'
  BY <1>37 DEF Kill, Die, Lost
<1>38. ASSUME PowerLoss PROVE LeaseInv'
  BY <1>38, SMTT(60) DEF PowerLoss, Die, Lost, SyncJournal
<1>39. ASSUME Restart PROVE LeaseInv'
  BY <1>39 DEF Restart, SyncJournal, Decision
<1>40. ASSUME StartupDone PROVE LeaseInv'
  BY <1>40, ConstantsAssumption DEF StartupDone
<1>41. ASSUME AllServed PROVE LeaseInv'
  BY <1>41 DEF AllServed, vars
<1>42. ASSUME UNCHANGED vars PROVE LeaseInv'
  BY <1>42 DEF vars
<1> HIDE DEF LeaseInv
<1>43. QED
  BY <1>1, <1>2, <1>3, <1>4, <1>5, <1>6, <1>6a, <1>7, <1>8, <1>9, <1>10, <1>11, <1>12, <1>13,
     <1>14, <1>15, <1>16, <1>17, <1>18, <1>19, <1>20, <1>21, <1>22, <1>23, <1>24, <1>25,
     <1>26, <1>27, <1>28, <1>29, <1>30, <1>31, <1>32, <1>33, <1>34, <1>35, <1>36, <1>37,
     <1>38, <1>39, <1>40, <1>41, <1>42
     DEF Next, WriterStep, RecoveryStep

-----------------------------------------------------------------------------
(* Version rows stay backed by CAS objects                                 *)

\* A set of unreferenced contents holds no content of a version row.
LEMMA UnreferencedRows ==
    ASSUME TypeOK, NEW r \in versions
    PROVE  Referenced(r[2])
<1>1. r \in Paths \X Contents
  BY DEF TypeOK, StoreType, Rows
<1>2. r = <<r[1], r[2]>> /\ r[1] \in Paths
  BY <1>1
<1>3. QED
  BY <1>2 DEF Referenced

\* A pass that deletes unreferenced objects while no request but w has a claim.
LEMMA DeleteUnreferenced ==
    ASSUME TypeOK, BackedOK, NEW dead, \A h \in dead : ~Referenced(h),
           cas' = cas \ dead, versions' = versions
    PROVE  VersionsBacked'
<1>1. SUFFICES ASSUME NEW r \in versions PROVE r[2] \in cas /\ r[2] \notin dead
  BY DEF VersionsBacked
<1>2. QED
  BY UnreferencedRows DEF BackedOK, VersionsBacked

\* Once PutCAS answers, the row to come is backed.
LEMMA PutCASBacked ==
    ASSUME TypeOK, BackedOK, NEW w \in Writers, PutCAS(w)
    PROVE  BackedOK'
<1>1. cas \subseteq cas' /\ versions' = versions /\ dropped' = dropped /\ dir' = dir
  BY DEF PutCAS, runVars
<1>2. /\ \A v \in Writers : plan'[v].versioned = plan[v].versioned
      /\ \A v \in Writers : plan'[v].before = plan[v].before
  BY DEF PutCAS, TypeOK, PlanType
<1>3. plan[w].versioned => plan[w].before.body \in cas'
  BY DEF PutCAS, Before
<1>4. \A v \in Writers \ {w} : pc'[v] = pc[v]
  BY DEF PutCAS, Goto, TypeOK, RequestType
<1>5. pc'[w] = "stored"
  BY DEF PutCAS, Goto, TypeOK, RequestType
<1>6. QED
  BY <1>1, <1>2, <1>3, <1>4, <1>5 DEF BackedOK, VersionsBacked, Before

\* Rows are added for an object that is already stored.
LEMMA RowsAfterBacked ==
    ASSUME BackedOK, NEW w \in Writers, RowsAfter(w), cas' = cas,
           plan[w].versioned => Before(w).body \in cas
    PROVE  VersionsBacked'
BY DEF RowsAfter, Row, BackedOK, VersionsBacked

\* The committed row names the object stored before.
LEMMA CommitMetadataBacked ==
    ASSUME TypeOK, BackedOK, NEW w \in Writers, CommitMetadata(w)
    PROVE  BackedOK'
<1>1. cas' = cas /\ plan' = plan /\ dir' = dir /\ dropped' = dropped
  BY DEF CommitMetadata, reqVars
<1>2. pc[w] = "published" /\ pc'[w] = "metadata"
  BY DEF CommitMetadata, Goto, TypeOK, RequestType
<1>3. \A v \in Writers \ {w} : pc'[v] = pc[v]
  BY DEF CommitMetadata, Goto, TypeOK, RequestType
<1>4. VersionsBacked'
  <2>1. plan[w].versioned => Before(w).body \in cas
    BY <1>2 DEF BackedOK
  <2>2. QED
    BY <1>1, <2>1, RowsAfterBacked DEF CommitMetadata
<1>5. QED
  BY <1>1, <1>2, <1>3, <1>4 DEF BackedOK, Before

\* Retention deletes objects no row names and puts back only rows of kept objects.
LEMMA RetainObjectsBacked ==
    ASSUME ~LostDeleteReply, TypeOK, LeaseInv, BackedOK, NEW w \in Writers,
           NEW failed \in SUBSET Contents,
             NEW skipped \in SUBSET Contents, RetainObjects(w, failed, skipped)
    PROVE  BackedOK'
<1>1. pc[w] = "retain_objects" /\ pc[w] \in Locked
  BY DEF RetainObjects, Locked
<1>2. \A v \in Writers \ {w} : pc[v] \notin Locked /\ pc'[v] = pc[v]
  BY <1>1 DEF LeaseInv, Exclusive, Busy, RetainObjects, Goto, TypeOK, RequestType
<1>3. pc'[w] = "done"
  BY DEF RetainObjects, Goto, TypeOK, RequestType
<1>4. cas' = cas \ (Unreferenced(w) \ (failed \cup skipped))
  BY DEF RetainObjects
<1>5. versions' = versions \cup {r \in dropped[w] : r[2] \in failed}
  BY DEF RetainObjects
<1>6. VersionsBacked'
  <2>1. ASSUME NEW r \in versions PROVE r[2] \in cas'
    BY <1>4, UnreferencedRows DEF BackedOK, VersionsBacked, Unreferenced
  <2>2. ASSUME NEW r \in dropped[w], r[2] \in failed PROVE r[2] \in cas'
    BY <1>1, <1>4, <2>2 DEF BackedOK
  <2>3. QED
    BY <1>5, <2>1, <2>2 DEF VersionsBacked
<1>7. QED
  BY <1>2, <1>3, <1>6 DEF BackedOK, Locked, RuntimeSteps, RecoverySteps

\* Rows retention drops were backed when it dropped them.
LEMMA RetainRowsBacked ==
    ASSUME TypeOK, BackedOK, NEW w \in Writers, NEW old \in SUBSET versions, RetainRows(w, old)
    PROVE  BackedOK'
<1>1. cas' = cas /\ versions' = versions \ old /\ plan' = plan /\ dir' = dir
  BY DEF RetainRows, reqVars
<1>2. dropped'[w] = old /\ pc'[w] = "retain_objects"
  BY DEF RetainRows, Put, Goto, TypeOK, RequestType, RuntimeType
<1>3. \A v \in Writers \ {w} : dropped'[v] = dropped[v] /\ pc'[v] = pc[v]
  BY DEF RetainRows, Put, Goto, TypeOK, RequestType, RuntimeType
<1>4. QED
  BY <1>1, <1>2, <1>3 DEF BackedOK, VersionsBacked, Before

\* Rollback deletes an object only while no row names it.
LEMMA RollbackCASBacked ==
    ASSUME TypeOK, LeaseInv, BackedOK, NEW w \in Writers, RollbackCAS(w)
    PROVE  BackedOK'
<1>1. pc[w] \in Locked
  BY DEF RollbackCAS, Locked, RecoverySteps
<1>2. \A v \in Writers \ {w} : pc[v] \notin Locked /\ pc'[v] = pc[v]
  BY <1>1 DEF LeaseInv, Exclusive, Busy, RollbackCAS, Goto, TypeOK, RequestType
<1>3. pc'[w] = "unlink"
  BY DEF RollbackCAS, Goto, TypeOK, RequestType
<1>4. \A h \in cas \ cas' : ~Referenced(h)
  BY DEF RollbackCAS
<1>5. VersionsBacked'
  <2>1. cas' = cas \ (cas \ cas') /\ versions' = versions
    BY DEF RollbackCAS
  <2>2. QED
    BY <1>4, <2>1, DeleteUnreferenced
<1>6. QED
  BY <1>2, <1>3, <1>5 DEF BackedOK, Locked, RuntimeSteps, RecoverySteps

\* A collection pass runs while nobody is between its CAS object and its row.
LEMMA CollectGarbageBacked ==
    ASSUME TypeOK, LeaseInv, BackedOK, NEW dead \in SUBSET cas, CollectGarbage(dead)
    PROVE  BackedOK'
<1>1. \A v \in Writers : pc'[v] = pc[v] /\ pc[v] \notin Locked
  BY ConstantsAssumption DEF CollectGarbage, LeaseInv, LeaseOK
<1>2. VersionsBacked'
  BY DeleteUnreferenced DEF CollectGarbage
<1>3. QED
  BY <1>1, <1>2 DEF BackedOK, Locked, RuntimeSteps, RecoverySteps

\* Every step keeps the version rows backed, when a CAS delete that reports an error
\* has not taken effect.
LEMMA BackedStep == ~LostDeleteReply /\ TypeOK /\ PlanOK /\ LeaseInv /\ BackedOK /\ [Next]_vars => BackedOK'
<1> SUFFICES ASSUME ~LostDeleteReply, TypeOK, PlanOK, LeaseInv, BackedOK, [Next]_vars
    PROVE  BackedOK'
  OBVIOUS
<1> USE DEF BackedOK, VersionsBacked, Goto, Put, fsVars, jVars, dbVars, reqVars,
            runVars, Before, TypeOK, RequestType
<1>1. ASSUME NEW w \in Writers, Refuse(w) PROVE BackedOK'
  BY <1>1 DEF Refuse
<1>2. ASSUME NEW w \in Writers, StageBody(w) PROVE BackedOK'
  BY <1>2 DEF StageBody, After, Objects
<1>3. ASSUME NEW w \in Writers, SealStage(w) PROVE BackedOK'
  BY <1>3 DEF SealStage, SyncStaging
<1>4. ASSUME NEW w \in Writers, BeginMutation(w) PROVE BackedOK'
  BY <1>4 DEF BeginMutation
<1>5. ASSUME NEW w \in Writers, Abort(w) PROVE BackedOK'
  BY <1>5 DEF Abort, Answer
<1>6. ASSUME NEW w \in Writers, AbortBlocked(w) PROVE BackedOK'
  BY <1>6 DEF AbortBlocked, Answer
<1>6a. ASSUME NEW w \in Writers, AbortRetained(w) PROVE BackedOK'
  BY <1>6a DEF AbortRetained, Answer
<1>7. ASSUME NEW w \in Writers, NEW keep \in BOOLEAN, Prepare(w, keep) PROVE BackedOK'
  BY <1>7 DEF Prepare
<1>8. ASSUME NEW w \in Writers, PublishPrepared(w) PROVE BackedOK'
  BY <1>8 DEF PublishPrepared, NameRecord, SyncRecord, SyncJournal, Checkpoints
<1>9. ASSUME NEW w \in Writers, PublishVisible(w) PROVE BackedOK'
  BY <1>9 DEF PublishVisible, SwapStage
<1>10. ASSUME NEW w \in Writers, SyncVisibleFirst(w) PROVE BackedOK'
  BY <1>10 DEF SyncVisibleFirst, SyncFiles, SyncStaging
<1>11. ASSUME NEW w \in Writers, SyncVisibleSecond(w) PROVE BackedOK'
  BY <1>11 DEF SyncVisibleSecond, SyncFiles, SyncStaging
<1>12. ASSUME NEW w \in Writers, PutCAS(w) PROVE BackedOK'
  BY <1>12, PutCASBacked
<1>13. ASSUME NEW w \in Writers, PublishPublished(w) PROVE BackedOK'
  BY <1>13 DEF PublishPublished, NameRecord, SyncRecord, SyncJournal, Checkpoints
<1>14. ASSUME NEW w \in Writers, CommitMetadata(w) PROVE BackedOK'
  BY <1>14, CommitMetadataBacked
<1>15. ASSUME NEW w \in Writers, PublishCommitted(w) PROVE BackedOK'
  BY <1>15 DEF PublishCommitted, NameRecord, SyncRecord, SyncJournal, Checkpoints
<1>16. ASSUME NEW w \in Writers, StepFails(w) PROVE BackedOK'
  BY <1>16 DEF StepFails
<1>17. ASSUME NEW w \in Writers, Finish(w) PROVE BackedOK'
  BY <1>17 DEF Finish, SyncJournal, Decision, Answer
<1>18. ASSUME NEW w \in Writers, FinishBlocked(w) PROVE BackedOK'
  BY <1>18 DEF FinishBlocked, BlockGate, Answer
<1>19. ASSUME NEW w \in Writers, NEW old \in SUBSET versions, RetainRows(w, old)
       PROVE  BackedOK'
  BY <1>19, RetainRowsBacked
<1>20. ASSUME NEW w \in Writers, NEW failed \in SUBSET Contents,
             NEW skipped \in SUBSET Contents, RetainObjects(w, failed, skipped)
       PROVE  BackedOK'
  BY <1>20, RetainObjectsBacked
<1>21. ASSUME NEW w \in Writers, Inspect(w) PROVE BackedOK'
  BY <1>21 DEF Inspect, Recovering
<1>22. ASSUME NEW w \in Writers, Move(w) PROVE BackedOK'
  BY <1>22 DEF Move, Recovering, SwapStage, MoveFirst
<1>23. ASSUME NEW w \in Writers, SyncMovedFiles(w) PROVE BackedOK'
  BY <1>23 DEF SyncMovedFiles, Recovering, SyncFiles
<1>24. ASSUME NEW w \in Writers, SyncMovedStage(w) PROVE BackedOK'
  BY <1>24 DEF SyncMovedStage, Recovering, SyncStaging
<1>25. ASSUME NEW w \in Writers, RollbackMetadata(w) PROVE BackedOK'
  BY <1>25 DEF RollbackMetadata, Recovering
<1>26. ASSUME NEW w \in Writers, RollbackCAS(w) PROVE BackedOK'
  BY <1>26, RollbackCASBacked
<1>27. ASSUME NEW w \in Writers, EnsureCAS(w) PROVE BackedOK'
  BY <1>27 DEF EnsureCAS, Recovering, PlanOK, Objects
<1>28. ASSUME NEW w \in Writers, EnsureMetadata(w) PROVE BackedOK'
  BY <1>28 DEF EnsureMetadata, Recovering, RowsAfter, Row, Rows, PlanOK, Objects
<1>29. ASSUME NEW w \in Writers, RemoveStage(w) PROVE BackedOK'
  BY <1>29 DEF RemoveStage, Recovering
<1>30. ASSUME NEW w \in Writers, ValidateFinal(w) PROVE BackedOK'
  BY <1>30 DEF ValidateFinal, Recovering
<1>31. ASSUME NEW w \in Writers, RemoveRecord(w) PROVE BackedOK'
  BY <1>31 DEF RemoveRecord, Recovering
<1>32. ASSUME NEW w \in Writers, SyncRemoval(w) PROVE BackedOK'
  BY <1>32, ZenonT(60) DEF SyncRemoval, Recovering, RuntimeType
<1>33. ASSUME NEW w \in Writers, RecoveryFails(w) PROVE BackedOK'
  BY <1>33 DEF RecoveryFails, Recovering, BlockGate, Answer, Lost
<1>34. ASSUME NEW w \in Writers, NEW p \in Paths, NEW c \in Contents, Begin(w, p, c)
       PROVE  BackedOK'
  BY <1>34 DEF Begin
<1>35. ASSUME NEW dead \in SUBSET cas, CollectGarbage(dead) PROVE BackedOK'
  BY <1>35, CollectGarbageBacked
<1>36. ASSUME CleanupStaging PROVE BackedOK'
  BY <1>36 DEF CleanupStaging, SyncJournal
<1>37. ASSUME Kill PROVE BackedOK'
  BY <1>37 DEF Kill, Die, Lost
<1>38. ASSUME PowerLoss PROVE BackedOK'
  BY <1>38 DEF PowerLoss, Die, Lost, SyncJournal
<1>39. ASSUME Restart PROVE BackedOK'
  BY <1>39 DEF Restart, SyncJournal, Decision
<1>40. ASSUME StartupDone PROVE BackedOK'
  BY <1>40 DEF StartupDone
<1>41. ASSUME AllServed PROVE BackedOK'
  BY <1>41 DEF AllServed, vars
<1>42. ASSUME UNCHANGED vars PROVE BackedOK'
  BY <1>42 DEF vars
<1> HIDE DEF BackedOK
<1>43. QED
  BY <1>1, <1>2, <1>3, <1>4, <1>5, <1>6, <1>6a, <1>7, <1>8, <1>9, <1>10, <1>11, <1>12, <1>13,
     <1>14, <1>15, <1>16, <1>17, <1>18, <1>19, <1>20, <1>21, <1>22, <1>23, <1>24, <1>25,
     <1>26, <1>27, <1>28, <1>29, <1>30, <1>31, <1>32, <1>33, <1>34, <1>35, <1>36, <1>37,
     <1>38, <1>39, <1>40, <1>41, <1>42
     DEF Next, WriterStep, RecoveryStep

-----------------------------------------------------------------------------
(* Answers agree with the durable decision                                 *)

\* The answer at the end of cleanup follows the decision the journal recorded.
LEMMA SyncRemovalHonest ==
    ASSUME TypeOK, LeaseInv, HonestOK, NEW w \in Writers, SyncRemoval(w)
    PROVE  HonestOK'
<1>1. /\ pc[w] \in RecoverySteps /\ pc[w] \in Locked
      /\ sys' = sys /\ journal' = journal /\ dir' = dir
      /\ decided' = decided \cup {v \in Writers : "committed" \in journal[v]}
  BY DEF SyncRemoval, SyncJournal, Locked, RecoverySteps
<1>2. ASSUME NEW v \in Writers \ {w}
      PROVE  /\ pc'[v] = pc[v] /\ resp'[v] = resp[v]
             /\ v \in decided' <=> v \in decided
  <2>1. journal[v] = {}
    BY <1>1 DEF LeaseInv, Exclusive, Busy, Recorded
  <2>2. QED
    BY <1>1, <2>1 DEF SyncRemoval, Goto, Answer, Put, Recovering, TypeOK, RequestType,
                      RuntimeType
<1>3. CASE journal[w] # {}
  <2>1. pc'[w] = "clean" /\ resp' = resp
    BY <1>3 DEF SyncRemoval, Goto, TypeOK, RequestType
  <2>2. QED
    BY <1>1, <1>2, <2>1 DEF HonestOK, Uncommitted, Staging, RuntimeSteps, RecoverySteps
<1>4. CASE journal[w] = {} /\ sys = "starting"
  <2>1. pc'[w] = "gone" /\ resp' = resp
    BY <1>4 DEF SyncRemoval, Goto, TypeOK, RequestType
  <2>2. QED
    BY <1>1, <1>2, <1>4, <2>1 DEF HonestOK, Uncommitted, Staging, RuntimeSteps,
           RecoverySteps
<1>5. CASE journal[w] = {} /\ sys = "up" /\ dir[w] = "back"
  <2>1. pc'[w] = "done" /\ resp'[w] = "error"
    BY <1>5 DEF SyncRemoval, Goto, Answer, Put, TypeOK, RequestType, RuntimeType
  <2>2. QED
    BY <1>1, <1>2, <1>5, <2>1 DEF HonestOK, Uncommitted, Staging, RuntimeSteps,
           RecoverySteps
<1>6. CASE journal[w] = {} /\ sys = "up" /\ dir[w] = "forward"
  <2>1. pc'[w] = "retain" /\ resp' = resp
    BY <1>6 DEF SyncRemoval, Goto, TypeOK, RequestType
  <2>2. QED
    BY <1>1, <1>2, <1>6, <2>1 DEF HonestOK, Uncommitted, Staging, RuntimeSteps,
           RecoverySteps
<1>7. QED
  BY <1>3, <1>4, <1>5, <1>6 DEF SyncRemoval, Recovering, TypeOK, RuntimeType

\* Every step keeps answers and positions in line with the durable decision.
LEMMA HonestStep == TypeOK /\ LeaseInv /\ HonestOK /\ [Next]_vars => HonestOK'
<1> SUFFICES ASSUME TypeOK, LeaseInv, HonestOK, [Next]_vars PROVE HonestOK'
  OBVIOUS
<1> USE DEF HonestOK, LeaseInv, RecordsOK, LeaseOK, Recorded, Clean, Uncommitted,
            TypeOK, RequestType, RuntimeType, JournalType, Goto, Put, Fault, fsVars,
            jVars, dbVars, reqVars, runVars, bound, Path, Before, Admitted, Staging,
            Locked, RuntimeSteps, RecoverySteps, Positions
<1>1. ASSUME NEW w \in Writers, Refuse(w) PROVE HonestOK'
  BY <1>1 DEF Refuse
<1>2. ASSUME NEW w \in Writers, StageBody(w) PROVE HonestOK'
  BY <1>2 DEF StageBody, After, Objects
<1>3. ASSUME NEW w \in Writers, SealStage(w) PROVE HonestOK'
  BY <1>3 DEF SealStage, SyncStaging
<1>4. ASSUME NEW w \in Writers, BeginMutation(w) PROVE HonestOK'
  BY <1>4 DEF BeginMutation
<1>5. ASSUME NEW w \in Writers, Abort(w) PROVE HonestOK'
  BY <1>5 DEF Abort, Answer
<1>6. ASSUME NEW w \in Writers, AbortBlocked(w) PROVE HonestOK'
  BY <1>6 DEF AbortBlocked, Answer
<1>6a. ASSUME NEW w \in Writers, AbortRetained(w) PROVE HonestOK'
  BY <1>6a DEF AbortRetained, Answer
<1>7. ASSUME NEW w \in Writers, NEW keep \in BOOLEAN, Prepare(w, keep) PROVE HonestOK'
  BY <1>7 DEF Prepare
<1>8. ASSUME NEW w \in Writers, PublishPrepared(w) PROVE HonestOK'
  BY <1>8 DEF PublishPrepared, NameRecord, SyncRecord, SyncJournal, Checkpoints
<1>9. ASSUME NEW w \in Writers, PublishVisible(w) PROVE HonestOK'
  BY <1>9 DEF PublishVisible, SwapStage
<1>10. ASSUME NEW w \in Writers, SyncVisibleFirst(w) PROVE HonestOK'
  BY <1>10 DEF SyncVisibleFirst, SyncFiles, SyncStaging
<1>11. ASSUME NEW w \in Writers, SyncVisibleSecond(w) PROVE HonestOK'
  BY <1>11 DEF SyncVisibleSecond, SyncFiles, SyncStaging
<1>12. ASSUME NEW w \in Writers, PutCAS(w) PROVE HonestOK'
  BY <1>12 DEF PutCAS, PlanOK, Objects
<1>13. ASSUME NEW w \in Writers, PublishPublished(w) PROVE HonestOK'
  BY <1>13 DEF PublishPublished, NameRecord, SyncRecord, SyncJournal, Checkpoints
<1>14. ASSUME NEW w \in Writers, CommitMetadata(w) PROVE HonestOK'
  BY <1>14 DEF CommitMetadata, RowsAfter, Row, Rows, PlanOK, Objects
<1>15. ASSUME NEW w \in Writers, PublishCommitted(w) PROVE HonestOK'
  BY <1>15 DEF PublishCommitted, NameRecord, SyncRecord, SyncJournal, Checkpoints
<1>16. ASSUME NEW w \in Writers, StepFails(w) PROVE HonestOK'
  BY <1>16 DEF StepFails
<1>17. ASSUME NEW w \in Writers, Finish(w) PROVE HonestOK'
  BY <1>17 DEF Finish, SyncJournal, Decision, Answer
<1>18. ASSUME NEW w \in Writers, FinishBlocked(w) PROVE HonestOK'
  BY <1>18 DEF FinishBlocked, BlockGate, Answer
<1>19. ASSUME NEW w \in Writers, NEW old \in SUBSET versions, RetainRows(w, old)
       PROVE  HonestOK'
  BY <1>19 DEF RetainRows
<1>20. ASSUME NEW w \in Writers, NEW failed \in SUBSET Contents,
             NEW skipped \in SUBSET Contents, RetainObjects(w, failed, skipped)
       PROVE  HonestOK'
  BY <1>20 DEF RetainObjects, Answer
<1>21. ASSUME NEW w \in Writers, Inspect(w) PROVE HonestOK'
  BY <1>21 DEF Inspect, Recovering
<1>22. ASSUME NEW w \in Writers, Move(w) PROVE HonestOK'
  BY <1>22 DEF Move, Recovering, SwapStage, MoveFirst
<1>23. ASSUME NEW w \in Writers, SyncMovedFiles(w) PROVE HonestOK'
  BY <1>23 DEF SyncMovedFiles, Recovering, SyncFiles
<1>24. ASSUME NEW w \in Writers, SyncMovedStage(w) PROVE HonestOK'
  BY <1>24 DEF SyncMovedStage, Recovering, SyncStaging
<1>25. ASSUME NEW w \in Writers, RollbackMetadata(w) PROVE HonestOK'
  BY <1>25 DEF RollbackMetadata, Recovering
<1>26. ASSUME NEW w \in Writers, RollbackCAS(w) PROVE HonestOK'
  BY <1>26 DEF RollbackCAS, Recovering
<1>27. ASSUME NEW w \in Writers, EnsureCAS(w) PROVE HonestOK'
  BY <1>27 DEF EnsureCAS, Recovering, PlanOK, Objects
<1>28. ASSUME NEW w \in Writers, EnsureMetadata(w) PROVE HonestOK'
  BY <1>28 DEF EnsureMetadata, Recovering, RowsAfter, Row, Rows, PlanOK, Objects
<1>29. ASSUME NEW w \in Writers, RemoveStage(w) PROVE HonestOK'
  BY <1>29 DEF RemoveStage, Recovering
<1>30. ASSUME NEW w \in Writers, ValidateFinal(w) PROVE HonestOK'
  BY <1>30 DEF ValidateFinal, Recovering
<1>31. ASSUME NEW w \in Writers, RemoveRecord(w) PROVE HonestOK'
  BY <1>31 DEF RemoveRecord, Recovering
<1> HIDE DEF HonestOK, LeaseInv, TypeOK
<1>32. ASSUME NEW w \in Writers, SyncRemoval(w) PROVE HonestOK'
  BY <1>32, SyncRemovalHonest
<1> USE DEF HonestOK, LeaseInv, TypeOK
<1>33. ASSUME NEW w \in Writers, RecoveryFails(w) PROVE HonestOK'
  BY <1>33 DEF RecoveryFails, Recovering, BlockGate, Answer, Lost
<1>34. ASSUME NEW w \in Writers, NEW p \in Paths, NEW c \in Contents, Begin(w, p, c)
       PROVE  HonestOK'
  BY <1>34 DEF Begin
<1>35. ASSUME NEW dead \in SUBSET cas, CollectGarbage(dead) PROVE HonestOK'
  BY <1>35 DEF CollectGarbage
<1>36. ASSUME CleanupStaging PROVE HonestOK'
  BY <1>36 DEF CleanupStaging, SyncJournal
<1>37. ASSUME Kill PROVE HonestOK'
  BY <1>37 DEF Kill, Die, Lost
<1>38. ASSUME PowerLoss PROVE HonestOK'
  BY <1>38 DEF PowerLoss, Die, Lost, SyncJournal
<1>39. ASSUME Restart PROVE HonestOK'
  BY <1>39 DEF Restart, SyncJournal, Decision
<1>40. ASSUME StartupDone PROVE HonestOK'
  BY <1>40 DEF StartupDone
<1>41. ASSUME AllServed PROVE HonestOK'
  BY <1>41 DEF AllServed, vars
<1>42. ASSUME UNCHANGED vars PROVE HonestOK'
  BY <1>42 DEF vars
<1> HIDE DEF HonestOK, LeaseInv
<1>43. QED
  BY <1>1, <1>2, <1>3, <1>4, <1>5, <1>6, <1>6a, <1>7, <1>8, <1>9, <1>10, <1>11, <1>12, <1>13,
     <1>14, <1>15, <1>16, <1>17, <1>18, <1>19, <1>20, <1>21, <1>22, <1>23, <1>24, <1>25,
     <1>26, <1>27, <1>28, <1>29, <1>30, <1>31, <1>32, <1>33, <1>34, <1>35, <1>36, <1>37,
     <1>38, <1>39, <1>40, <1>41, <1>42
     DEF Next, WriterStep, RecoveryStep

-----------------------------------------------------------------------------
(* The theorems                                                            *)

\* The invariants hold initially.
LEMMA InitInv == Init => TypeOK /\ PlanOK /\ LeaseInv /\ BackedOK /\ HonestOK
<1> SUFFICES ASSUME Init PROVE TypeOK /\ PlanOK /\ LeaseInv /\ BackedOK /\ HonestOK
  OBVIOUS
<1>1. FsType /\ JournalType /\ StoreType
  BY DEF Init, FsType, JournalType, StoreType, Objects, Rows
<1>2. PlanType /\ PlanOK
  BY DEF Init, PlanType, PlanOK, NoPlan
<1>3. RequestType
  BY DEF Init, RequestType, NoReq, Positions, Admitted, Locked, Staging, RuntimeSteps,
         RecoverySteps
<1>4. RuntimeType /\ BoundType
  BY DEF Init, RuntimeType, BoundType
<1>5. LeaseInv
  BY ConstantsAssumption DEF Init, LeaseInv, Exclusive, LeaseOK, GateOK, RecordsOK,
         Recorded, Busy,
     Admitted, Locked, Staging, RuntimeSteps, RecoverySteps
<1>6. BackedOK
  BY DEF Init, BackedOK, VersionsBacked
<1>7. HonestOK
  BY DEF Init, HonestOK, RecoverySteps
<1>8. QED
  BY <1>1, <1>2, <1>3, <1>4, <1>5, <1>6, <1>7 DEF TypeOK

\* Every reachable state of the write path is well typed: checkpoints, plans, rows and
\* objects always are what the record codecs, the SQLite schema and the CAS accept.
THEOREM TypeCorrect == Spec => []TypeOK
<1>1. Init => TypeOK /\ PlanOK
  BY InitInv
<1>2. TypeOK /\ PlanOK /\ [Next]_vars => TypeOK' /\ PlanOK'
  BY TypeStep, PlanStep
<1>3. QED
  BY <1>1, <1>2, PTL DEF Spec

\* The exclusion invariant of every behaviour.
LEMMA LeaseInvariant == Spec => [](TypeOK /\ LeaseInv)
<1>1. Init => LeaseInv
  BY InitInv
<1>2. TypeOK /\ LeaseInv /\ [Next]_vars => LeaseInv'
  BY LeaseStep
<1>3. QED
  BY <1>1, <1>2, TypeCorrect, PTL DEF Spec

\* beginMutation, the write gate and startup recovery keep at most one operation in
\* the journal, in memory and on disk, whatever crashes and failures happen.
THEOREM AtMostOnePending == Spec => []OnePending
<1>1. LeaseInv => OnePending
  BY DEF LeaseInv, Exclusive, Busy, Recorded, OnePending
<1>2. QED
  BY <1>1, LeaseInvariant, PTL

\* Once blockWriteTransactionRuntimeLocked or a retained stage closes the gate, no
\* request and no recovery changes a file, an index row or a version row.
THEOREM ClosedGateHolds == Spec => GateHolds
<1>1. TypeOK /\ LeaseInv /\ [Next]_vars
        => [blocked /\ sys' = "up" => UNCHANGED <<files, index, versions>>]_vars
  <2> SUFFICES ASSUME TypeOK, LeaseInv, [Next]_vars, blocked, sys' = "up"
               PROVE  UNCHANGED <<files, index, versions>>
    OBVIOUS
  <2>1. sys = "up" /\ \A w \in Writers : pc[w] \notin Locked
    BY ConstantsAssumption DEF LeaseInv, LeaseOK, GateOK
  <2>2. \A w \in Writers : ~RecoveryStep(w)
    BY <2>1, ZenonT(60) DEF RecoveryStep, Inspect, Move, SyncMovedFiles, SyncMovedStage,
           RollbackMetadata, RollbackCAS, EnsureCAS, EnsureMetadata, RemoveStage,
           ValidateFinal, RemoveRecord, SyncRemoval, RecoveryFails, Recovering, Locked,
           RecoverySteps
  <2>3. ASSUME NEW w \in Writers, WriterStep(w)
        PROVE  UNCHANGED <<files, index, versions>>
    BY <2>1, <2>3 DEF WriterStep, Refuse, StageBody, SealStage, BeginMutation, Abort,
           AbortBlocked, AbortRetained, Prepare, PublishPrepared, PublishVisible, SyncVisibleFirst,
           SyncVisibleSecond, PutCAS, PublishPublished, CommitMetadata,
           PublishCommitted, StepFails, Finish, FinishBlocked, RetainRows,
           RetainObjects, NameRecord, SyncRecord, BlockGate, Locked, RuntimeSteps,
           fsVars, dbVars
  <2>4. QED
    BY <2>1, <2>2, <2>3 DEF Next, Begin, CollectGarbage, CleanupStaging, Kill,
           PowerLoss,
       Die, Restart, StartupDone, AllServed, vars, fsVars, dbVars
<1>2. QED
  BY <1>1, LeaseInvariant, PTL DEF Spec, GateHolds

\* Whatever writes, rollbacks, retention and garbage collection do, a version row always
\* names a stored object, provided a CAS delete that reports an error left its object.
THEOREM VersionsStayBacked ==
    ASSUME ~LostDeleteReply
    PROVE  Spec => []VersionsBacked
<1>1. Init => TypeOK /\ PlanOK /\ LeaseInv /\ BackedOK
  BY InitInv
<1>2. /\ TypeOK /\ PlanOK /\ LeaseInv /\ BackedOK /\ [Next]_vars
      => TypeOK' /\ PlanOK' /\ LeaseInv' /\ BackedOK'
  BY TypeStep, PlanStep, LeaseStep, BackedStep
<1>3. BackedOK => VersionsBacked
  BY DEF BackedOK
<1>4. QED
  BY <1>1, <1>2, <1>3, PTL DEF Spec

\* Success is only ever answered for a write whose committed checkpoint is durable, a
\* plain error only for one that has no checkpoint left and was never committed.
THEOREM AnswersStayHonest == Spec => []AnswersHonest
<1>1. Init => HonestOK
  BY InitInv
<1>2. TypeOK /\ LeaseInv /\ HonestOK /\ [Next]_vars => HonestOK'
  BY HonestStep
<1>3. LeaseInv /\ HonestOK => AnswersHonest
  BY DEF LeaseInv, RecordsOK, Recorded, Clean, HonestOK, AnswersHonest
<1>4. QED
  BY <1>1, <1>2, <1>3, LeaseInvariant, PTL DEF Spec

-----------------------------------------------------------------------------
(***************************************************************************)
(* What a crash can find of a write, proved for every instance of WriteTxn:*)
(* the checkpoints, the two places of the old and of the new file with     *)
(* their durable images, and the index row.  Each invariant below says     *)
(* what a position of the one request inside the protocol, or the journal  *)
(* alone, tells of them; LeaseInv keeps everybody else away meanwhile.     *)
(***************************************************************************)

(* The inductive invariants                                                *)

\* Positions from the first publication of the new file to the last checkpoint.
Shown == {"visible", "visible1", "visible2", "stored", "published_named", "published",
          "metadata", "committed_named"}

\* Positions of a recovery that has put the files in their places.
Placed == RecoverySteps \ {"recover", "move"}

\* The request is between its plan and the end of its records.
Planned(w) == pc[w] \in RuntimeSteps \/ Recorded(w)

\* The records a position leaves in the journal, and how they go away: a recovery
\* works on records that are all durable and removes the one that decided last.
JournalOK ==
    \A w \in Writers :
        /\ WellFormed(journal[w]) /\ WellFormed(journalDur[w])
        /\ pc[w] \in {"prepared_named", "prepared", "visible", "visible1", "visible2",
                      "stored"} => journal[w] = {"prepared"}
        /\ pc[w] \in {"published_named", "published", "metadata"}
             => journal[w] = {"prepared", "published"}
        /\ pc[w] = "committed_named" => journal[w] = Checkpoints
        /\ pc[w] \in RuntimeSteps \ {"planned", "prepared_named"} => journalDur[w] # {}
        /\ pc[w] \in RecoverySteps \ {"cleaning"}
             => /\ journalDur[w] = journal[w] /\ journal[w] # {}
                /\ dir[w] = "forward" <=> "committed" \in journal[w]
        /\ pc[w] = "cleaning" /\ dir[w] = "back"
             => "committed" \notin journal[w] \cup journalDur[w]
        /\ pc[w] = "cleaning" /\ dir[w] = "forward"
             => /\ "committed" \in journalDur[w]
                /\ journal[w] # {} => "committed" \in journal[w]

\* A durable committed record is the decision, and no other record outlives it.
DecidedOK ==
    \A w \in Writers :
        /\ "committed" \in journalDur[w] => w \in decided
        /\ w \in decided
             => \A j \in {journal[w], journalDur[w]} : j # {} => "committed" \in j

\* The content the index should have for a file.
BodyOf(o) == IF o = Absent THEN Absent ELSE o.body

\* The plan was made of the file the request captured and of its index row.
PlannedOK ==
    \A w \in Writers : Planned(w) =>
        /\ Before(w) = req[w].snap
        /\ plan[w].indexBefore = BodyOf(Before(w))

\* Where the old and the new file are.
PlaceAt(w) ==
    /\ pc[w] \in {"staging", "staged", "locked", "planned", "prepared_named", "prepared"}
         => staging[w] = After(w)
    /\ pc[w] \in {"planned", "prepared_named", "prepared"} => files[Path(w)] = Before(w)
    /\ pc[w] \in Shown => files[Path(w)] = After(w) /\ staging[w] = Before(w)
    /\ (\/ pc[w] \in Shown \ {"visible", "visible1"}
        \/ pc[w] = "visible1" /\ Creates(w)) => filesDur[Path(w)] = After(w)
    /\ "committed" \in journal[w] \cup journalDur[w]
         => files[Path(w)] = After(w) /\ filesDur[Path(w)] = After(w)
    /\ pc[w] = "move" /\ dir[w] = "back"
         => \/ files[Path(w)] = After(w) /\ staging[w] = Before(w)
            \/ files[Path(w)] = Before(w) /\ files[Path(w)] # After(w)
    /\ pc[w] \in Placed /\ dir[w] = "back" => files[Path(w)] = Before(w)
    /\ journal[w] = {} /\ journalDur[w] # {} /\ w \notin decided
         => files[Path(w)] = Before(w)
PlaceOK == \A w \in Writers : PlaceAt(w)

\* The index row of a recovery that has restored or repeated the rows.
IndexOK ==
    \A w \in Writers :
        /\ pc[w] \in {"half", "unlink", "unlinked"} /\ dir[w] = "back"
             => index[Path(w)] = plan[w].indexBefore
        /\ pc[w] \in {"unlink", "unlinked"} /\ dir[w] = "forward"
             => index[Path(w)] = req[w].body

\* The file of a path is durable and the index describes it.
InStep(p) == files[p] = filesDur[p] /\ index[p] = BodyOf(files[p])

\* A scan finds the operation, now and after a power loss, and its recovery has not
\* reached the removal of its records.
Unsettled(w) == /\ journal[w] # {} /\ journalDur[w] # {}
                /\ pc[w] \notin {"clean", "cleaning"}

\* A path out of step belongs to an unsettled operation.
StepOK == \A p \in Paths : InStep(p) \/ \E w \in Writers : Unsettled(w) /\ Path(w) = p

\* Until the decision is durable, the file an overwrite replaces is in one of its two
\* places, in what processes see and in what a power loss leaves.
OldOK ==
    \A w \in Writers : Planned(w) /\ "committed" \notin journalDur[w] /\ ~Creates(w) =>
        /\ Before(w) \in {files[Path(w)], staging[w]}
        /\ Before(w) \in {filesDur[Path(w)], stagingDur[w]}

-----------------------------------------------------------------------------
(* The records                                                              *)

\* Where a synced removal leaves the request, and that nobody else is touched.
LEMMA SyncRemovalEffect ==
    ASSUME TypeOK, LeaseInv, NEW w \in Writers, SyncRemoval(w)
    PROVE  /\ pc[w] = "cleaning" /\ pc'[w] \in {"clean", "gone", "done", "retain"}
           /\ pc'[w] = "clean" <=> journal[w] # {}
           /\ \A v \in Writers \ {w} :
                 journal[v] = {} /\ journalDur[v] = {} /\ pc'[v] = pc[v]
<1>1. pc[w] = "cleaning" /\ pc[w] \in Locked
  BY DEF SyncRemoval, Locked, RecoverySteps
<1>2. \A v \in Writers \ {w} : journal[v] = {} /\ journalDur[v] = {}
  BY <1>1 DEF LeaseInv, Exclusive, Busy, Recorded
<1>3. PICK to \in {"clean", "gone", "done", "retain"} :
          Goto(w, to) /\ (to = "clean" <=> journal[w] # {})
  <2>1. CASE journal[w] # {}
    BY <2>1 DEF SyncRemoval
  <2>2. CASE journal[w] = {} /\ sys = "starting"
    BY <2>2 DEF SyncRemoval
  <2>3. CASE journal[w] = {} /\ sys = "up"
    BY <2>3 DEF SyncRemoval, TypeOK, RuntimeType
  <2>4. QED
    BY <2>1, <2>2, <2>3 DEF SyncRemoval, Recovering
<1>4. QED
  BY <1>1, <1>2, <1>3 DEF Goto, TypeOK, RequestType

\* Every step leaves records that classify, and a recovery works on durable ones.
LEMMA JournalStep ==
    TypeOK /\ LeaseInv /\ HonestOK /\ JournalOK /\ [Next]_vars => JournalOK'
<1> SUFFICES ASSUME TypeOK, LeaseInv, HonestOK, JournalOK, [Next]_vars PROVE JournalOK'
  OBVIOUS
<1> USE DEF JournalOK, WellFormed, Checkpoints, HonestOK, Uncommitted, LeaseInv,
            Exclusive, Busy, LeaseOK, RecordsOK, Recorded, Clean, TypeOK, RequestType,
            RuntimeType, JournalType, Goto, Put, Fault, fsVars, jVars, dbVars,
            reqVars, runVars, bound, Path, Before, Admitted, Staging, Locked,
            RuntimeSteps, RecoverySteps, Positions
<1>1. ASSUME NEW w \in Writers, Refuse(w) PROVE JournalOK'
  BY <1>1 DEF Refuse
<1>2. ASSUME NEW w \in Writers, StageBody(w) PROVE JournalOK'
  BY <1>2 DEF StageBody
<1>3. ASSUME NEW w \in Writers, SealStage(w) PROVE JournalOK'
  BY <1>3 DEF SealStage, SyncStaging
<1>4. ASSUME NEW w \in Writers, BeginMutation(w) PROVE JournalOK'
  BY <1>4 DEF BeginMutation
<1>5. ASSUME NEW w \in Writers, Abort(w) PROVE JournalOK'
  BY <1>5 DEF Abort, Answer
<1>6. ASSUME NEW w \in Writers, AbortBlocked(w) PROVE JournalOK'
  BY <1>6 DEF AbortBlocked, Answer
<1>6a. ASSUME NEW w \in Writers, AbortRetained(w) PROVE JournalOK'
  BY <1>6a DEF AbortRetained, Answer
<1>7. ASSUME NEW w \in Writers, NEW keep \in BOOLEAN, Prepare(w, keep) PROVE JournalOK'
  BY <1>7 DEF Prepare
<1>8. ASSUME NEW w \in Writers, PublishPrepared(w) PROVE JournalOK'
  <2>1. CASE NameRecord(w, "planned", "prepared", "prepared_named")
    BY <2>1 DEF NameRecord
  <2>2. CASE SyncRecord(w, "prepared_named", "prepared")
    <3>1. journal' = journal /\ journalDur' = journal /\ dir' = dir
      BY <2>2 DEF SyncRecord, SyncJournal
    <3>2. \A v \in Writers \ {w} : journal[v] = {} /\ journalDur[v] = {} /\ pc'[v] = pc[v]
      BY <2>2 DEF SyncRecord
    <3>3. journal[w] = {"prepared"} /\ pc'[w] = "prepared"
      BY <2>2 DEF SyncRecord
    <3>4. QED
      BY <3>1, <3>2, <3>3
  <2>3. QED
    BY <1>8, <2>1, <2>2 DEF PublishPrepared
<1>9. ASSUME NEW w \in Writers, PublishVisible(w) PROVE JournalOK'
  BY <1>9 DEF PublishVisible, SwapStage
<1>10. ASSUME NEW w \in Writers, SyncVisibleFirst(w) PROVE JournalOK'
  BY <1>10 DEF SyncVisibleFirst, SyncFiles, SyncStaging
<1>11. ASSUME NEW w \in Writers, SyncVisibleSecond(w) PROVE JournalOK'
  BY <1>11 DEF SyncVisibleSecond, SyncFiles, SyncStaging
<1>12. ASSUME NEW w \in Writers, PutCAS(w) PROVE JournalOK'
  BY <1>12 DEF PutCAS
<1>13. ASSUME NEW w \in Writers, PublishPublished(w) PROVE JournalOK'
  BY <1>13 DEF PublishPublished, NameRecord, SyncRecord, SyncJournal
<1>14. ASSUME NEW w \in Writers, CommitMetadata(w) PROVE JournalOK'
  BY <1>14 DEF CommitMetadata, RowsAfter
<1>15. ASSUME NEW w \in Writers, PublishCommitted(w) PROVE JournalOK'
  BY <1>15 DEF PublishCommitted, NameRecord, SyncRecord, SyncJournal
<1>16. ASSUME NEW w \in Writers, StepFails(w) PROVE JournalOK'
  BY <1>16 DEF StepFails
<1>17. ASSUME NEW w \in Writers, Finish(w) PROVE JournalOK'
  BY <1>17 DEF Finish, SyncJournal, Decision, Answer
<1>18. ASSUME NEW w \in Writers, FinishBlocked(w) PROVE JournalOK'
  BY <1>18 DEF FinishBlocked, BlockGate, Answer
<1>19. ASSUME NEW w \in Writers, NEW old \in SUBSET versions, RetainRows(w, old)
       PROVE  JournalOK'
  BY <1>19 DEF RetainRows
<1>20. ASSUME NEW w \in Writers, NEW failed \in SUBSET Contents,
             NEW skipped \in SUBSET Contents, RetainObjects(w, failed, skipped)
       PROVE  JournalOK'
  BY <1>20 DEF RetainObjects, Answer
<1>21. ASSUME NEW w \in Writers, Inspect(w) PROVE JournalOK'
  BY <1>21 DEF Inspect, Recovering
<1>22. ASSUME NEW w \in Writers, Move(w) PROVE JournalOK'
  BY <1>22 DEF Move, Recovering, SwapStage, MoveFirst, Misplaced
<1>23. ASSUME NEW w \in Writers, SyncMovedFiles(w) PROVE JournalOK'
  BY <1>23 DEF SyncMovedFiles, Recovering, SyncFiles
<1>24. ASSUME NEW w \in Writers, SyncMovedStage(w) PROVE JournalOK'
  BY <1>24 DEF SyncMovedStage, Recovering, SyncStaging
<1>25. ASSUME NEW w \in Writers, RollbackMetadata(w) PROVE JournalOK'
  BY <1>25 DEF RollbackMetadata, Recovering
<1>26. ASSUME NEW w \in Writers, RollbackCAS(w) PROVE JournalOK'
  BY <1>26 DEF RollbackCAS, Recovering
<1>27. ASSUME NEW w \in Writers, EnsureCAS(w) PROVE JournalOK'
  BY <1>27 DEF EnsureCAS, Recovering
<1>28. ASSUME NEW w \in Writers, EnsureMetadata(w) PROVE JournalOK'
  BY <1>28 DEF EnsureMetadata, Recovering, RowsAfter
<1>29. ASSUME NEW w \in Writers, RemoveStage(w) PROVE JournalOK'
  BY <1>29 DEF RemoveStage, Recovering
<1>30. ASSUME NEW w \in Writers, ValidateFinal(w) PROVE JournalOK'
  BY <1>30 DEF ValidateFinal, Recovering
<1>31. ASSUME NEW w \in Writers, RemoveRecord(w) PROVE JournalOK'
  BY <1>31 DEF RemoveRecord, Recovering, NextRemoved
<1>32. ASSUME NEW w \in Writers, SyncRemoval(w) PROVE JournalOK'
  <2>1. /\ pc[w] = "cleaning" /\ pc'[w] \in {"clean", "gone", "done", "retain"}
        /\ pc'[w] = "clean" <=> journal[w] # {}
        /\ \A v \in Writers \ {w} : journal[v] = {} /\ journalDur[v] = {} /\ pc'[v] = pc[v]
    <3> HIDE DEF TypeOK, LeaseInv, JournalOK, HonestOK
    <3> QED  BY <1>32, SyncRemovalEffect
  <2>2. journal' = journal /\ journalDur' = journal /\ dir' = dir
    BY <1>32 DEF SyncRemoval, SyncJournal
  <2>3. QED
    BY <2>1, <2>2
<1>33. ASSUME NEW w \in Writers, RecoveryFails(w) PROVE JournalOK'
  BY <1>33 DEF RecoveryFails, Recovering, BlockGate, Answer, Lost
<1>34. ASSUME NEW w \in Writers, NEW p \in Paths, NEW c \in Contents, Begin(w, p, c)
       PROVE  JournalOK'
  BY <1>34 DEF Begin
<1>35. ASSUME NEW dead \in SUBSET cas, CollectGarbage(dead) PROVE JournalOK'
  BY <1>35 DEF CollectGarbage
<1>36. ASSUME CleanupStaging PROVE JournalOK'
  BY <1>36 DEF CleanupStaging, SyncJournal
<1>37. ASSUME Kill PROVE JournalOK'
  BY <1>37 DEF Kill, Die, Lost
<1>38. ASSUME PowerLoss PROVE JournalOK'
  BY <1>38 DEF PowerLoss, Die, Lost, SyncJournal
<1>39. ASSUME Restart PROVE JournalOK'
  BY <1>39 DEF Restart, SyncJournal, Decision
<1>40. ASSUME StartupDone PROVE JournalOK'
  BY <1>40 DEF StartupDone
<1>41. ASSUME AllServed PROVE JournalOK'
  BY <1>41 DEF AllServed, vars
<1>42. ASSUME UNCHANGED vars PROVE JournalOK'
  BY <1>42 DEF vars
<1> HIDE DEF TypeOK, LeaseInv, HonestOK, JournalOK
<1>43. QED
  BY <1>1, <1>2, <1>3, <1>4, <1>5, <1>6, <1>6a, <1>7, <1>8, <1>9, <1>10, <1>11, <1>12,
     <1>13, <1>14, <1>15, <1>16, <1>17, <1>18, <1>19, <1>20, <1>21, <1>22, <1>23,
     <1>24, <1>25, <1>26, <1>27, <1>28, <1>29, <1>30, <1>31, <1>32, <1>33, <1>34,
     <1>35, <1>36, <1>37, <1>38, <1>39, <1>40, <1>41, <1>42 DEF Next, WriterStep,
     RecoveryStep

\* Every step keeps the decision and its record together.
LEMMA DecidedStep ==
    TypeOK /\ LeaseInv /\ HonestOK /\ JournalOK /\ DecidedOK /\ [Next]_vars =>
      DecidedOK'
<1> SUFFICES ASSUME TypeOK, LeaseInv, HonestOK, JournalOK, DecidedOK, [Next]_vars
             PROVE  DecidedOK'
  OBVIOUS
<1> USE DEF JournalOK, DecidedOK, WellFormed, Checkpoints, HonestOK, Uncommitted,
            LeaseInv, Exclusive, Busy, LeaseOK, RecordsOK, Recorded, Clean, TypeOK,
            RequestType, RuntimeType, JournalType, Goto, Put, Fault, fsVars, jVars,
            dbVars, reqVars, runVars, bound, Path, Before, Admitted, Staging, Locked,
            RuntimeSteps, RecoverySteps, Positions
<1>1. ASSUME NEW w \in Writers, Refuse(w) PROVE DecidedOK'
  BY <1>1 DEF Refuse
<1>2. ASSUME NEW w \in Writers, StageBody(w) PROVE DecidedOK'
  BY <1>2 DEF StageBody
<1>3. ASSUME NEW w \in Writers, SealStage(w) PROVE DecidedOK'
  BY <1>3 DEF SealStage, SyncStaging
<1>4. ASSUME NEW w \in Writers, BeginMutation(w) PROVE DecidedOK'
  BY <1>4 DEF BeginMutation
<1>5. ASSUME NEW w \in Writers, Abort(w) PROVE DecidedOK'
  BY <1>5 DEF Abort, Answer
<1>6. ASSUME NEW w \in Writers, AbortBlocked(w) PROVE DecidedOK'
  BY <1>6 DEF AbortBlocked, Answer
<1>6a. ASSUME NEW w \in Writers, AbortRetained(w) PROVE DecidedOK'
  BY <1>6a DEF AbortRetained, Answer
<1>7. ASSUME NEW w \in Writers, NEW keep \in BOOLEAN, Prepare(w, keep) PROVE DecidedOK'
  BY <1>7 DEF Prepare
<1>8. ASSUME NEW w \in Writers, PublishPrepared(w) PROVE DecidedOK'
  BY <1>8 DEF PublishPrepared, NameRecord, SyncRecord, SyncJournal
<1>9. ASSUME NEW w \in Writers, PublishVisible(w) PROVE DecidedOK'
  BY <1>9 DEF PublishVisible, SwapStage
<1>10. ASSUME NEW w \in Writers, SyncVisibleFirst(w) PROVE DecidedOK'
  BY <1>10 DEF SyncVisibleFirst, SyncFiles, SyncStaging
<1>11. ASSUME NEW w \in Writers, SyncVisibleSecond(w) PROVE DecidedOK'
  BY <1>11 DEF SyncVisibleSecond, SyncFiles, SyncStaging
<1>12. ASSUME NEW w \in Writers, PutCAS(w) PROVE DecidedOK'
  BY <1>12 DEF PutCAS
<1>13. ASSUME NEW w \in Writers, PublishPublished(w) PROVE DecidedOK'
  BY <1>13 DEF PublishPublished, NameRecord, SyncRecord, SyncJournal
<1>14. ASSUME NEW w \in Writers, CommitMetadata(w) PROVE DecidedOK'
  BY <1>14 DEF CommitMetadata, RowsAfter
<1>15. ASSUME NEW w \in Writers, PublishCommitted(w) PROVE DecidedOK'
  BY <1>15 DEF PublishCommitted, NameRecord, SyncRecord, SyncJournal
<1>16. ASSUME NEW w \in Writers, StepFails(w) PROVE DecidedOK'
  BY <1>16 DEF StepFails
<1>17. ASSUME NEW w \in Writers, Finish(w) PROVE DecidedOK'
  BY <1>17 DEF Finish, SyncJournal, Decision, Answer
<1>18. ASSUME NEW w \in Writers, FinishBlocked(w) PROVE DecidedOK'
  BY <1>18 DEF FinishBlocked, BlockGate, Answer
<1>19. ASSUME NEW w \in Writers, NEW old \in SUBSET versions, RetainRows(w, old)
       PROVE  DecidedOK'
  BY <1>19 DEF RetainRows
<1>20. ASSUME NEW w \in Writers, NEW failed \in SUBSET Contents,
             NEW skipped \in SUBSET Contents, RetainObjects(w, failed, skipped)
       PROVE  DecidedOK'
  BY <1>20 DEF RetainObjects, Answer
<1>21. ASSUME NEW w \in Writers, Inspect(w) PROVE DecidedOK'
  BY <1>21 DEF Inspect, Recovering
<1>22. ASSUME NEW w \in Writers, Move(w) PROVE DecidedOK'
  BY <1>22 DEF Move, Recovering, SwapStage, MoveFirst, Misplaced
<1>23. ASSUME NEW w \in Writers, SyncMovedFiles(w) PROVE DecidedOK'
  BY <1>23 DEF SyncMovedFiles, Recovering, SyncFiles
<1>24. ASSUME NEW w \in Writers, SyncMovedStage(w) PROVE DecidedOK'
  BY <1>24 DEF SyncMovedStage, Recovering, SyncStaging
<1>25. ASSUME NEW w \in Writers, RollbackMetadata(w) PROVE DecidedOK'
  BY <1>25 DEF RollbackMetadata, Recovering
<1>26. ASSUME NEW w \in Writers, RollbackCAS(w) PROVE DecidedOK'
  BY <1>26 DEF RollbackCAS, Recovering
<1>27. ASSUME NEW w \in Writers, EnsureCAS(w) PROVE DecidedOK'
  BY <1>27 DEF EnsureCAS, Recovering
<1>28. ASSUME NEW w \in Writers, EnsureMetadata(w) PROVE DecidedOK'
  BY <1>28 DEF EnsureMetadata, Recovering, RowsAfter
<1>29. ASSUME NEW w \in Writers, RemoveStage(w) PROVE DecidedOK'
  BY <1>29 DEF RemoveStage, Recovering
<1>30. ASSUME NEW w \in Writers, ValidateFinal(w) PROVE DecidedOK'
  BY <1>30 DEF ValidateFinal, Recovering
<1>31. ASSUME NEW w \in Writers, RemoveRecord(w) PROVE DecidedOK'
  BY <1>31 DEF RemoveRecord, Recovering, NextRemoved
<1>32. ASSUME NEW w \in Writers, SyncRemoval(w) PROVE DecidedOK'
  BY <1>32 DEF SyncRemoval, Recovering, SyncJournal, Answer
<1>33. ASSUME NEW w \in Writers, RecoveryFails(w) PROVE DecidedOK'
  BY <1>33 DEF RecoveryFails, Recovering, BlockGate, Answer, Lost
<1>34. ASSUME NEW w \in Writers, NEW p \in Paths, NEW c \in Contents, Begin(w, p, c)
       PROVE  DecidedOK'
  BY <1>34 DEF Begin
<1>35. ASSUME NEW dead \in SUBSET cas, CollectGarbage(dead) PROVE DecidedOK'
  BY <1>35 DEF CollectGarbage
<1>36. ASSUME CleanupStaging PROVE DecidedOK'
  BY <1>36 DEF CleanupStaging, SyncJournal
<1>37. ASSUME Kill PROVE DecidedOK'
  BY <1>37 DEF Kill, Die, Lost
<1>38. ASSUME PowerLoss PROVE DecidedOK'
  BY <1>38 DEF PowerLoss, Die, Lost, SyncJournal
<1>39. ASSUME Restart PROVE DecidedOK'
  BY <1>39 DEF Restart, SyncJournal, Decision
<1>40. ASSUME StartupDone PROVE DecidedOK'
  BY <1>40 DEF StartupDone
<1>41. ASSUME AllServed PROVE DecidedOK'
  BY <1>41 DEF AllServed, vars
<1>42. ASSUME UNCHANGED vars PROVE DecidedOK'
  BY <1>42 DEF vars
<1> HIDE DEF TypeOK, LeaseInv, HonestOK, JournalOK, DecidedOK
<1>43. QED
  BY <1>1, <1>2, <1>3, <1>4, <1>5, <1>6, <1>6a, <1>7, <1>8, <1>9, <1>10, <1>11, <1>12,
     <1>13, <1>14, <1>15, <1>16, <1>17, <1>18, <1>19, <1>20, <1>21, <1>22, <1>23,
     <1>24, <1>25, <1>26, <1>27, <1>28, <1>29, <1>30, <1>31, <1>32, <1>33, <1>34,
     <1>35, <1>36, <1>37, <1>38, <1>39, <1>40, <1>41, <1>42 DEF Next, WriterStep,
     RecoveryStep

-----------------------------------------------------------------------------
(* The plan and the files                                                   *)

\* Every step keeps the plan about the captured file.
LEMMA PlannedStep ==
    TypeOK /\ LeaseInv /\ StepOK /\ PlannedOK /\ [Next]_vars => PlannedOK'
<1> SUFFICES ASSUME TypeOK, LeaseInv, StepOK, PlannedOK, [Next]_vars PROVE PlannedOK'
  OBVIOUS
<1> USE DEF PlannedOK, Planned, LeaseInv, Exclusive, Busy, LeaseOK, RecordsOK,
            Recorded, Clean, FsType, StoreType, PlanType, Objects, TypeOK,
            RequestType, RuntimeType, JournalType, Goto, Put, Fault, fsVars, jVars,
            dbVars, reqVars, runVars, bound, Path, Before, Admitted, Staging, Locked,
            RuntimeSteps, RecoverySteps, Positions
<1>1. ASSUME NEW w \in Writers, Refuse(w) PROVE PlannedOK'
  BY <1>1 DEF Refuse
<1>2. ASSUME NEW w \in Writers, StageBody(w) PROVE PlannedOK'
  BY <1>2 DEF StageBody
<1>3. ASSUME NEW w \in Writers, SealStage(w) PROVE PlannedOK'
  BY <1>3 DEF SealStage, SyncStaging
<1>4. ASSUME NEW w \in Writers, BeginMutation(w) PROVE PlannedOK'
  BY <1>4 DEF BeginMutation
<1>5. ASSUME NEW w \in Writers, Abort(w) PROVE PlannedOK'
  BY <1>5 DEF Abort, Answer
<1>6. ASSUME NEW w \in Writers, AbortBlocked(w) PROVE PlannedOK'
  BY <1>6 DEF AbortBlocked, Answer
<1>6a. ASSUME NEW w \in Writers, AbortRetained(w) PROVE PlannedOK'
  BY <1>6a DEF AbortRetained, Answer
<1>7. ASSUME NEW w \in Writers, NEW keep \in BOOLEAN, Prepare(w, keep) PROVE PlannedOK'
  BY <1>7, SMTT(30) DEF Prepare, StepOK, Unsettled, InStep, BodyOf
<1>8. ASSUME NEW w \in Writers, PublishPrepared(w) PROVE PlannedOK'
  <2>1. \A v \in Writers : Planned(v)' => Planned(v)
    BY <1>8 DEF PublishPrepared, NameRecord, SyncRecord, SyncJournal
  <2>2. QED
    BY <1>8, <2>1 DEF PublishPrepared, NameRecord, SyncRecord
<1>9. ASSUME NEW w \in Writers, PublishVisible(w) PROVE PlannedOK'
  BY <1>9 DEF PublishVisible, SwapStage
<1>10. ASSUME NEW w \in Writers, SyncVisibleFirst(w) PROVE PlannedOK'
  BY <1>10 DEF SyncVisibleFirst, SyncFiles, SyncStaging
<1>11. ASSUME NEW w \in Writers, SyncVisibleSecond(w) PROVE PlannedOK'
  BY <1>11 DEF SyncVisibleSecond, SyncFiles, SyncStaging
<1>12. ASSUME NEW w \in Writers, PutCAS(w) PROVE PlannedOK'
  BY <1>12 DEF PutCAS
<1>13. ASSUME NEW w \in Writers, PublishPublished(w) PROVE PlannedOK'
  BY <1>13 DEF PublishPublished, NameRecord, SyncRecord, SyncJournal
<1>14. ASSUME NEW w \in Writers, CommitMetadata(w) PROVE PlannedOK'
  BY <1>14 DEF CommitMetadata, RowsAfter
<1>15. ASSUME NEW w \in Writers, PublishCommitted(w) PROVE PlannedOK'
  BY <1>15 DEF PublishCommitted, NameRecord, SyncRecord, SyncJournal
<1>16. ASSUME NEW w \in Writers, StepFails(w) PROVE PlannedOK'
  BY <1>16 DEF StepFails
<1>17. ASSUME NEW w \in Writers, Finish(w) PROVE PlannedOK'
  BY <1>17 DEF Finish, SyncJournal, Decision, Answer
<1>18. ASSUME NEW w \in Writers, FinishBlocked(w) PROVE PlannedOK'
  BY <1>18 DEF FinishBlocked, BlockGate, Answer
<1>19. ASSUME NEW w \in Writers, NEW old \in SUBSET versions, RetainRows(w, old)
       PROVE  PlannedOK'
  BY <1>19 DEF RetainRows
<1>20. ASSUME NEW w \in Writers, NEW failed \in SUBSET Contents,
             NEW skipped \in SUBSET Contents, RetainObjects(w, failed, skipped)
       PROVE  PlannedOK'
  BY <1>20 DEF RetainObjects, Answer
<1>21. ASSUME NEW w \in Writers, Inspect(w) PROVE PlannedOK'
  BY <1>21 DEF Inspect, Recovering
<1>22. ASSUME NEW w \in Writers, Move(w) PROVE PlannedOK'
  BY <1>22 DEF Move, Recovering, SwapStage, MoveFirst, Misplaced
<1>23. ASSUME NEW w \in Writers, SyncMovedFiles(w) PROVE PlannedOK'
  BY <1>23 DEF SyncMovedFiles, Recovering, SyncFiles
<1>24. ASSUME NEW w \in Writers, SyncMovedStage(w) PROVE PlannedOK'
  BY <1>24 DEF SyncMovedStage, Recovering, SyncStaging
<1>25. ASSUME NEW w \in Writers, RollbackMetadata(w) PROVE PlannedOK'
  BY <1>25 DEF RollbackMetadata, Recovering
<1>26. ASSUME NEW w \in Writers, RollbackCAS(w) PROVE PlannedOK'
  BY <1>26 DEF RollbackCAS, Recovering
<1>27. ASSUME NEW w \in Writers, EnsureCAS(w) PROVE PlannedOK'
  BY <1>27 DEF EnsureCAS, Recovering
<1>28. ASSUME NEW w \in Writers, EnsureMetadata(w) PROVE PlannedOK'
  BY <1>28 DEF EnsureMetadata, Recovering, RowsAfter
<1>29. ASSUME NEW w \in Writers, RemoveStage(w) PROVE PlannedOK'
  BY <1>29 DEF RemoveStage, Recovering
<1>30. ASSUME NEW w \in Writers, ValidateFinal(w) PROVE PlannedOK'
  BY <1>30 DEF ValidateFinal, Recovering
<1>31. ASSUME NEW w \in Writers, RemoveRecord(w) PROVE PlannedOK'
  BY <1>31 DEF RemoveRecord, Recovering, NextRemoved
<1>32. ASSUME NEW w \in Writers, SyncRemoval(w) PROVE PlannedOK'
  <2>1. /\ pc[w] = "cleaning" /\ pc'[w] \in {"clean", "gone", "done", "retain"}
        /\ pc'[w] = "clean" <=> journal[w] # {}
        /\ \A v \in Writers \ {w} : journal[v] = {} /\ journalDur[v] = {} /\ pc'[v] = pc[v]
    <3> HIDE DEF TypeOK, LeaseInv, PlannedOK
    <3> QED  BY <1>32, SyncRemovalEffect
  <2>2. QED
    BY <1>32, <2>1 DEF SyncRemoval, SyncJournal
<1>33. ASSUME NEW w \in Writers, RecoveryFails(w) PROVE PlannedOK'
  BY <1>33 DEF RecoveryFails, Recovering, BlockGate, Answer, Lost
<1>34. ASSUME NEW w \in Writers, NEW p \in Paths, NEW c \in Contents, Begin(w, p, c)
       PROVE  PlannedOK'
  BY <1>34 DEF Begin
<1>35. ASSUME NEW dead \in SUBSET cas, CollectGarbage(dead) PROVE PlannedOK'
  BY <1>35 DEF CollectGarbage
<1>36. ASSUME CleanupStaging PROVE PlannedOK'
  BY <1>36 DEF CleanupStaging, SyncJournal
<1>37. ASSUME Kill PROVE PlannedOK'
  BY <1>37 DEF Kill, Die, Lost
<1>38. ASSUME PowerLoss PROVE PlannedOK'
  BY <1>38 DEF PowerLoss, Die, Lost, SyncJournal
<1>39. ASSUME Restart PROVE PlannedOK'
  BY <1>39 DEF Restart, SyncJournal, Decision
<1>40. ASSUME StartupDone PROVE PlannedOK'
  BY <1>40 DEF StartupDone
<1>41. ASSUME AllServed PROVE PlannedOK'
  BY <1>41 DEF AllServed, vars
<1>42. ASSUME UNCHANGED vars PROVE PlannedOK'
  BY <1>42 DEF vars
<1> HIDE DEF TypeOK, LeaseInv, StepOK, PlannedOK
<1>43. QED
  BY <1>1, <1>2, <1>3, <1>4, <1>5, <1>6, <1>6a, <1>7, <1>8, <1>9, <1>10, <1>11, <1>12,
     <1>13, <1>14, <1>15, <1>16, <1>17, <1>18, <1>19, <1>20, <1>21, <1>22, <1>23,
     <1>24, <1>25, <1>26, <1>27, <1>28, <1>29, <1>30, <1>31, <1>32, <1>33, <1>34,
     <1>35, <1>36, <1>37, <1>38, <1>39, <1>40, <1>41, <1>42 DEF Next, WriterStep,
     RecoveryStep

\* A request that does not move, or moves to a position that says nothing of the files,
\* keeps its places while the files, its plan and its records stay.
Silent == {"idle", "done", "halted", "gone", "begun", "finish", "recover", "retain",
           "retain_objects"}
LEMMA PlaceKept ==
    ASSUME NEW v \in Writers, PlaceAt(v), files' = files, filesDur' = filesDur,
           req'[v] = req[v], plan'[v] = plan[v], dir'[v] = dir[v],
           journal'[v] = journal[v], journalDur'[v] = journalDur[v], decided' = decided,
           \/ pc'[v] = pc[v] /\ staging'[v] = staging[v]
           \/ pc'[v] \in Silent
    PROVE  PlaceAt(v)'
BY DEF PlaceAt, Silent, Shown, Placed, RecoverySteps, Path, After, Before, Creates

\* Every step keeps the old and the new file in their places.
LEMMA PlaceStep ==
    TypeOK /\ LeaseInv /\ JournalOK /\ DecidedOK /\ PlannedOK /\ StepOK /\ PlaceOK /\
      [Next]_vars => PlaceOK'
<1> SUFFICES ASSUME TypeOK, LeaseInv, JournalOK, DecidedOK, PlannedOK, StepOK,
                    PlaceOK, [Next]_vars
             PROVE  PlaceOK'
  OBVIOUS
<1> USE DEF PlaceOK, PlaceAt, Shown, Placed, Creates, After, JournalOK, DecidedOK,
            Checkpoints, LeaseInv, Exclusive, Busy, LeaseOK, RecordsOK, Recorded,
            Clean, FsType, StoreType, PlanType, Objects, TypeOK, RequestType,
            RuntimeType, JournalType, Goto, Put, Fault, fsVars, jVars, dbVars,
            reqVars, runVars, bound, Path, Before, Admitted, Staging, Locked,
            RuntimeSteps, RecoverySteps, Positions
<1>1. ASSUME NEW w \in Writers, Refuse(w) PROVE PlaceOK'
  <2> HIDE DEF PlaceOK, PlaceAt
  <2>1. \A v \in Writers : \/ pc'[v] = pc[v] /\ staging'[v] = staging[v]
                           \/ pc'[v] \in Silent
    BY <1>1 DEF Refuse, Silent
  <2>2. QED
    BY <1>1, <2>1, PlaceKept DEF Refuse, PlaceOK
<1>2. ASSUME NEW w \in Writers, StageBody(w) PROVE PlaceOK'
  <2> HIDE DEF PlaceOK, PlaceAt
  <2>1. PlaceAt(w)'
    BY <1>2 DEF StageBody, PlaceOK, PlaceAt
  <2>2. \A v \in Writers \ {w} : pc'[v] = pc[v] /\ staging'[v] = staging[v]
    BY <1>2 DEF StageBody
  <2>3. QED
    BY <1>2, <2>1, <2>2, PlaceKept DEF StageBody, PlaceOK
<1>3. ASSUME NEW w \in Writers, SealStage(w) PROVE PlaceOK'
  BY <1>3, SMTT(30) DEF SealStage, SyncStaging
<1>4. ASSUME NEW w \in Writers, BeginMutation(w) PROVE PlaceOK'
  BY <1>4 DEF BeginMutation
<1>5. ASSUME NEW w \in Writers, Abort(w) PROVE PlaceOK'
  <2> HIDE DEF PlaceOK, PlaceAt
  <2>1. \A v \in Writers : \/ pc'[v] = pc[v] /\ staging'[v] = staging[v]
                           \/ pc'[v] \in Silent
    BY <1>5 DEF Abort, Answer, Silent
  <2>2. QED
    BY <1>5, <2>1, PlaceKept DEF Abort, Answer, PlaceOK
<1>6. ASSUME NEW w \in Writers, AbortBlocked(w) PROVE PlaceOK'
  <2> HIDE DEF PlaceOK, PlaceAt
  <2>1. \A v \in Writers : \/ pc'[v] = pc[v] /\ staging'[v] = staging[v]
                           \/ pc'[v] \in Silent
    BY <1>6 DEF AbortBlocked, Answer, Silent
  <2>2. QED
    BY <1>6, <2>1, PlaceKept DEF AbortBlocked, Answer, PlaceOK
<1>6a. ASSUME NEW w \in Writers, AbortRetained(w) PROVE PlaceOK'
  <2> HIDE DEF PlaceOK, PlaceAt
  <2>1. \A v \in Writers : \/ pc'[v] = pc[v] /\ staging'[v] = staging[v]
                           \/ pc'[v] \in Silent
    BY <1>6a DEF AbortRetained, Answer, Silent
  <2>2. QED
    BY <1>6a, <2>1, PlaceKept DEF AbortRetained, Answer, PlaceOK
<1>7. ASSUME NEW w \in Writers, NEW keep \in BOOLEAN, Prepare(w, keep) PROVE PlaceOK'
  BY <1>7 DEF Prepare, StepOK, InStep
<1>8. ASSUME NEW w \in Writers, PublishPrepared(w) PROVE PlaceOK'
  BY <1>8, SMTT(30) DEF PublishPrepared, NameRecord, SyncRecord, SyncJournal
<1>9. ASSUME NEW w \in Writers, PublishVisible(w) PROVE PlaceOK'
  BY <1>9 DEF PublishVisible, SwapStage
<1>10. ASSUME NEW w \in Writers, SyncVisibleFirst(w) PROVE PlaceOK'
  BY <1>10 DEF SyncVisibleFirst, SyncFiles, SyncStaging
<1>11. ASSUME NEW w \in Writers, SyncVisibleSecond(w) PROVE PlaceOK'
  BY <1>11 DEF SyncVisibleSecond, SyncFiles, SyncStaging
<1>12. ASSUME NEW w \in Writers, PutCAS(w) PROVE PlaceOK'
  BY <1>12 DEF PutCAS
<1>13. ASSUME NEW w \in Writers, PublishPublished(w) PROVE PlaceOK'
  <2> HIDE DEF PlaceOK, PlaceAt
  <2>1. /\ pc[w] \in {"stored", "published_named"}
        /\ pc'[w] \in {"published_named", "published"}
        /\ "committed" \notin journal[w] \cup journal'[w] /\ journal'[w] # {}
        /\ files' = files /\ filesDur' = filesDur /\ staging' = staging
        /\ req' = req /\ plan' = plan /\ dir' = dir
        /\ journalDur'[w] \subseteq journal'[w]
    BY <1>13, SMTT(30) DEF PublishPublished, NameRecord, SyncRecord, SyncJournal, PlaceOK, PlaceAt
  <2>2. \A v \in Writers \ {w} :
            /\ pc'[v] = pc[v]
            /\ journal[v] = {} /\ journalDur[v] = {}
            /\ journal'[v] = {} /\ journalDur'[v] = {}
    <3>1. \A v \in Writers \ {w} : journal[v] = {} /\ journalDur[v] = {}
      BY <2>1
    <3>2. QED
      BY <1>13, <3>1 DEF PublishPublished, NameRecord, SyncRecord, SyncJournal
  <2>3. decided' = decided
    <3> HIDE DEF TypeOK, LeaseInv, JournalOK, DecidedOK
    <3>1. decided' \in {decided, decided \cup {v \in Writers : "committed" \in journal[v]}}
      BY <1>13 DEF PublishPublished, NameRecord, SyncRecord, SyncJournal
    <3>2. \A v \in Writers : "committed" \notin journal[v]
      BY <2>1, <2>2
    <3>3. {v \in Writers : "committed" \in journal[v]} = {}
      BY <3>2
    <3>4. QED
      BY <3>1, <3>3
  <2>4. PlaceAt(w)'
    BY <2>1 DEF PlaceOK, PlaceAt
  <2>5. \A v \in Writers \ {w} : PlaceAt(v)'
    <3> HIDE DEF TypeOK, LeaseInv, JournalOK, DecidedOK
    <3>1. TAKE v \in Writers \ {w}
    <3>2. PlaceAt(v)
      BY DEF PlaceOK
    <3>3. /\ files' = files /\ filesDur' = filesDur /\ staging'[v] = staging[v]
          /\ req'[v] = req[v] /\ plan'[v] = plan[v] /\ dir'[v] = dir[v]
          /\ pc'[v] = pc[v] /\ journal'[v] = journal[v] /\ journalDur'[v] = journalDur[v]
      BY <2>1, <2>2
    <3>4. QED
      BY <2>3, <3>2, <3>3, PlaceKept
  <2>6. QED
    BY <2>4, <2>5 DEF PlaceOK
<1>14. ASSUME NEW w \in Writers, CommitMetadata(w) PROVE PlaceOK'
  BY <1>14 DEF CommitMetadata, RowsAfter
<1>15. ASSUME NEW w \in Writers, PublishCommitted(w) PROVE PlaceOK'
  BY <1>15, SMTT(30) DEF PublishCommitted, NameRecord, SyncRecord, SyncJournal
<1>16. ASSUME NEW w \in Writers, StepFails(w) PROVE PlaceOK'
  BY <1>16 DEF StepFails
<1>17. ASSUME NEW w \in Writers, Finish(w) PROVE PlaceOK'
  BY <1>17 DEF Finish, SyncJournal, Decision, Answer
<1>18. ASSUME NEW w \in Writers, FinishBlocked(w) PROVE PlaceOK'
  BY <1>18 DEF FinishBlocked, BlockGate, Answer
<1>19. ASSUME NEW w \in Writers, NEW old \in SUBSET versions, RetainRows(w, old)
       PROVE  PlaceOK'
  BY <1>19 DEF RetainRows
<1>20. ASSUME NEW w \in Writers, NEW failed \in SUBSET Contents,
             NEW skipped \in SUBSET Contents, RetainObjects(w, failed, skipped)
       PROVE  PlaceOK'
  BY <1>20 DEF RetainObjects, Answer
<1>21. ASSUME NEW w \in Writers, Inspect(w) PROVE PlaceOK'
  BY <1>21 DEF Inspect, Recovering, Recoverable, LayoutKnown
<1>22. ASSUME NEW w \in Writers, Move(w) PROVE PlaceOK'
  BY <1>22 DEF Move, Recovering, SwapStage, MoveFirst, Misplaced
<1>23. ASSUME NEW w \in Writers, SyncMovedFiles(w) PROVE PlaceOK'
  BY <1>23 DEF SyncMovedFiles, Recovering, SyncFiles
<1>24. ASSUME NEW w \in Writers, SyncMovedStage(w) PROVE PlaceOK'
  BY <1>24 DEF SyncMovedStage, Recovering, SyncStaging
<1>25. ASSUME NEW w \in Writers, RollbackMetadata(w) PROVE PlaceOK'
  BY <1>25 DEF RollbackMetadata, Recovering
<1>26. ASSUME NEW w \in Writers, RollbackCAS(w) PROVE PlaceOK'
  BY <1>26 DEF RollbackCAS, Recovering
<1>27. ASSUME NEW w \in Writers, EnsureCAS(w) PROVE PlaceOK'
  BY <1>27 DEF EnsureCAS, Recovering
<1>28. ASSUME NEW w \in Writers, EnsureMetadata(w) PROVE PlaceOK'
  BY <1>28 DEF EnsureMetadata, Recovering, RowsAfter
<1>29. ASSUME NEW w \in Writers, RemoveStage(w) PROVE PlaceOK'
  BY <1>29 DEF RemoveStage, Recovering
<1>30. ASSUME NEW w \in Writers, ValidateFinal(w) PROVE PlaceOK'
  BY <1>30 DEF ValidateFinal, Recovering
<1>31. ASSUME NEW w \in Writers, RemoveRecord(w) PROVE PlaceOK'
  BY <1>31 DEF RemoveRecord, Recovering, NextRemoved
<1>32. ASSUME NEW w \in Writers, SyncRemoval(w) PROVE PlaceOK'
  <2>1. /\ pc[w] = "cleaning" /\ pc'[w] \in {"clean", "gone", "done", "retain"}
        /\ pc'[w] = "clean" <=> journal[w] # {}
        /\ \A v \in Writers \ {w} : journal[v] = {} /\ journalDur[v] = {} /\ pc'[v] = pc[v]
    <3> HIDE DEF TypeOK, LeaseInv, PlaceOK, JournalOK, DecidedOK
    <3> QED  BY <1>32, SyncRemovalEffect
  <2>2. QED
    BY <1>32, <2>1 DEF SyncRemoval, SyncJournal
<1>33. ASSUME NEW w \in Writers, RecoveryFails(w) PROVE PlaceOK'
  BY <1>33 DEF RecoveryFails, Recovering, BlockGate, Answer, Lost
<1>34. ASSUME NEW w \in Writers, NEW p \in Paths, NEW c \in Contents, Begin(w, p, c)
       PROVE  PlaceOK'
  BY <1>34 DEF Begin
<1>35. ASSUME NEW dead \in SUBSET cas, CollectGarbage(dead) PROVE PlaceOK'
  <2> HIDE DEF TypeOK, LeaseInv, JournalOK, DecidedOK, PlannedOK, StepOK, PlaceOK, PlaceAt
  <2>1. \A v \in Writers : pc'[v] = pc[v] /\ staging'[v] = staging[v]
    BY <1>35 DEF CollectGarbage
  <2>2. QED
    BY <1>35, <2>1, PlaceKept DEF CollectGarbage, PlaceOK
<1>36. ASSUME CleanupStaging PROVE PlaceOK'
  BY <1>36 DEF CleanupStaging, SyncJournal
<1>37. ASSUME Kill PROVE PlaceOK'
  BY <1>37, ZenonT(60) DEF Kill, Die, Lost
<1>38. ASSUME PowerLoss PROVE PlaceOK'
  BY <1>38 DEF PowerLoss, Die, Lost, SyncJournal
<1>39. ASSUME Restart PROVE PlaceOK'
  BY <1>39 DEF Restart, SyncJournal, Decision
<1>40. ASSUME StartupDone PROVE PlaceOK'
  <2> HIDE DEF TypeOK, LeaseInv, JournalOK, DecidedOK, PlannedOK, StepOK, PlaceOK, PlaceAt
  <2>1. \A v \in Writers : pc'[v] = pc[v] /\ staging'[v] = staging[v]
    BY <1>40 DEF StartupDone
  <2>2. QED
    BY <1>40, <2>1, PlaceKept DEF StartupDone, PlaceOK
<1>41. ASSUME AllServed PROVE PlaceOK'
  <2> HIDE DEF TypeOK, LeaseInv, JournalOK, DecidedOK, PlannedOK, StepOK, PlaceOK, PlaceAt
  <2>1. \A v \in Writers : pc'[v] = pc[v] /\ staging'[v] = staging[v]
    BY <1>41 DEF AllServed, vars
  <2>2. QED
    BY <1>41, <2>1, PlaceKept DEF AllServed, vars, PlaceOK
<1>42. ASSUME UNCHANGED vars PROVE PlaceOK'
  <2> HIDE DEF TypeOK, LeaseInv, JournalOK, DecidedOK, PlannedOK, StepOK, PlaceOK, PlaceAt
  <2>1. \A v \in Writers : pc'[v] = pc[v] /\ staging'[v] = staging[v]
    BY <1>42 DEF vars
  <2>2. QED
    BY <1>42, <2>1, PlaceKept DEF vars, PlaceOK
<1> HIDE DEF TypeOK, LeaseInv, JournalOK, DecidedOK, PlannedOK, StepOK, PlaceOK
<1>43. QED
  BY <1>1, <1>2, <1>3, <1>4, <1>5, <1>6, <1>6a, <1>7, <1>8, <1>9, <1>10, <1>11, <1>12,
     <1>13, <1>14, <1>15, <1>16, <1>17, <1>18, <1>19, <1>20, <1>21, <1>22, <1>23,
     <1>24, <1>25, <1>26, <1>27, <1>28, <1>29, <1>30, <1>31, <1>32, <1>33, <1>34,
     <1>35, <1>36, <1>37, <1>38, <1>39, <1>40, <1>41, <1>42 DEF Next, WriterStep,
     RecoveryStep

\* Every step keeps the row a recovery has written.
LEMMA IndexStep == TypeOK /\ LeaseInv /\ IndexOK /\ [Next]_vars => IndexOK'
<1> SUFFICES ASSUME TypeOK, LeaseInv, IndexOK, [Next]_vars PROVE IndexOK'
  OBVIOUS
<1> USE DEF IndexOK, LeaseInv, Exclusive, Busy, LeaseOK, RecordsOK, Recorded, Clean,
            FsType, StoreType, PlanType, Objects, TypeOK, RequestType, RuntimeType,
            JournalType, Goto, Put, Fault, fsVars, jVars, dbVars, reqVars, runVars,
            bound, Path, Before, Admitted, Staging, Locked, RuntimeSteps,
            RecoverySteps, Positions
<1>1. ASSUME NEW w \in Writers, Refuse(w) PROVE IndexOK'
  BY <1>1 DEF Refuse
<1>2. ASSUME NEW w \in Writers, StageBody(w) PROVE IndexOK'
  BY <1>2 DEF StageBody
<1>3. ASSUME NEW w \in Writers, SealStage(w) PROVE IndexOK'
  BY <1>3 DEF SealStage, SyncStaging
<1>4. ASSUME NEW w \in Writers, BeginMutation(w) PROVE IndexOK'
  BY <1>4 DEF BeginMutation
<1>5. ASSUME NEW w \in Writers, Abort(w) PROVE IndexOK'
  BY <1>5 DEF Abort, Answer
<1>6. ASSUME NEW w \in Writers, AbortBlocked(w) PROVE IndexOK'
  BY <1>6 DEF AbortBlocked, Answer
<1>6a. ASSUME NEW w \in Writers, AbortRetained(w) PROVE IndexOK'
  BY <1>6a DEF AbortRetained, Answer
<1>7. ASSUME NEW w \in Writers, NEW keep \in BOOLEAN, Prepare(w, keep) PROVE IndexOK'
  BY <1>7 DEF Prepare
<1>8. ASSUME NEW w \in Writers, PublishPrepared(w) PROVE IndexOK'
  BY <1>8 DEF PublishPrepared, NameRecord, SyncRecord, SyncJournal
<1>9. ASSUME NEW w \in Writers, PublishVisible(w) PROVE IndexOK'
  BY <1>9 DEF PublishVisible, SwapStage
<1>10. ASSUME NEW w \in Writers, SyncVisibleFirst(w) PROVE IndexOK'
  BY <1>10 DEF SyncVisibleFirst, SyncFiles, SyncStaging
<1>11. ASSUME NEW w \in Writers, SyncVisibleSecond(w) PROVE IndexOK'
  BY <1>11 DEF SyncVisibleSecond, SyncFiles, SyncStaging
<1>12. ASSUME NEW w \in Writers, PutCAS(w) PROVE IndexOK'
  BY <1>12 DEF PutCAS
<1>13. ASSUME NEW w \in Writers, PublishPublished(w) PROVE IndexOK'
  BY <1>13 DEF PublishPublished, NameRecord, SyncRecord, SyncJournal
<1>14. ASSUME NEW w \in Writers, CommitMetadata(w) PROVE IndexOK'
  BY <1>14 DEF CommitMetadata, RowsAfter
<1>15. ASSUME NEW w \in Writers, PublishCommitted(w) PROVE IndexOK'
  BY <1>15 DEF PublishCommitted, NameRecord, SyncRecord, SyncJournal
<1>16. ASSUME NEW w \in Writers, StepFails(w) PROVE IndexOK'
  BY <1>16 DEF StepFails
<1>17. ASSUME NEW w \in Writers, Finish(w) PROVE IndexOK'
  BY <1>17 DEF Finish, SyncJournal, Decision, Answer
<1>18. ASSUME NEW w \in Writers, FinishBlocked(w) PROVE IndexOK'
  BY <1>18 DEF FinishBlocked, BlockGate, Answer
<1>19. ASSUME NEW w \in Writers, NEW old \in SUBSET versions, RetainRows(w, old)
       PROVE  IndexOK'
  BY <1>19 DEF RetainRows
<1>20. ASSUME NEW w \in Writers, NEW failed \in SUBSET Contents,
             NEW skipped \in SUBSET Contents, RetainObjects(w, failed, skipped)
       PROVE  IndexOK'
  BY <1>20 DEF RetainObjects, Answer
<1>21. ASSUME NEW w \in Writers, Inspect(w) PROVE IndexOK'
  BY <1>21 DEF Inspect, Recovering
<1>22. ASSUME NEW w \in Writers, Move(w) PROVE IndexOK'
  BY <1>22 DEF Move, Recovering, SwapStage, MoveFirst, Misplaced
<1>23. ASSUME NEW w \in Writers, SyncMovedFiles(w) PROVE IndexOK'
  BY <1>23 DEF SyncMovedFiles, Recovering, SyncFiles
<1>24. ASSUME NEW w \in Writers, SyncMovedStage(w) PROVE IndexOK'
  BY <1>24 DEF SyncMovedStage, Recovering, SyncStaging
<1>25. ASSUME NEW w \in Writers, RollbackMetadata(w) PROVE IndexOK'
  BY <1>25 DEF RollbackMetadata, Recovering
<1>26. ASSUME NEW w \in Writers, RollbackCAS(w) PROVE IndexOK'
  BY <1>26 DEF RollbackCAS, Recovering
<1>27. ASSUME NEW w \in Writers, EnsureCAS(w) PROVE IndexOK'
  BY <1>27 DEF EnsureCAS, Recovering
<1>28. ASSUME NEW w \in Writers, EnsureMetadata(w) PROVE IndexOK'
  BY <1>28 DEF EnsureMetadata, Recovering, RowsAfter
<1>29. ASSUME NEW w \in Writers, RemoveStage(w) PROVE IndexOK'
  BY <1>29 DEF RemoveStage, Recovering
<1>30. ASSUME NEW w \in Writers, ValidateFinal(w) PROVE IndexOK'
  BY <1>30 DEF ValidateFinal, Recovering
<1>31. ASSUME NEW w \in Writers, RemoveRecord(w) PROVE IndexOK'
  BY <1>31 DEF RemoveRecord, Recovering, NextRemoved
<1>32. ASSUME NEW w \in Writers, SyncRemoval(w) PROVE IndexOK'
  <2>1. /\ pc[w] = "cleaning" /\ pc'[w] \in {"clean", "gone", "done", "retain"}
        /\ pc'[w] = "clean" <=> journal[w] # {}
        /\ \A v \in Writers \ {w} : journal[v] = {} /\ journalDur[v] = {} /\ pc'[v] = pc[v]
    <3> HIDE DEF TypeOK, LeaseInv, IndexOK
    <3> QED  BY <1>32, SyncRemovalEffect
  <2>2. QED
    BY <1>32, <2>1 DEF SyncRemoval, SyncJournal
<1>33. ASSUME NEW w \in Writers, RecoveryFails(w) PROVE IndexOK'
  BY <1>33 DEF RecoveryFails, Recovering, BlockGate, Answer, Lost
<1>34. ASSUME NEW w \in Writers, NEW p \in Paths, NEW c \in Contents, Begin(w, p, c)
       PROVE  IndexOK'
  BY <1>34 DEF Begin
<1>35. ASSUME NEW dead \in SUBSET cas, CollectGarbage(dead) PROVE IndexOK'
  BY <1>35 DEF CollectGarbage
<1>36. ASSUME CleanupStaging PROVE IndexOK'
  BY <1>36 DEF CleanupStaging, SyncJournal
<1>37. ASSUME Kill PROVE IndexOK'
  BY <1>37 DEF Kill, Die, Lost
<1>38. ASSUME PowerLoss PROVE IndexOK'
  BY <1>38 DEF PowerLoss, Die, Lost, SyncJournal
<1>39. ASSUME Restart PROVE IndexOK'
  BY <1>39 DEF Restart, SyncJournal, Decision
<1>40. ASSUME StartupDone PROVE IndexOK'
  BY <1>40 DEF StartupDone
<1>41. ASSUME AllServed PROVE IndexOK'
  BY <1>41 DEF AllServed, vars
<1>42. ASSUME UNCHANGED vars PROVE IndexOK'
  BY <1>42 DEF vars
<1> HIDE DEF TypeOK, LeaseInv, IndexOK
<1>43. QED
  BY <1>1, <1>2, <1>3, <1>4, <1>5, <1>6, <1>6a, <1>7, <1>8, <1>9, <1>10, <1>11, <1>12,
     <1>13, <1>14, <1>15, <1>16, <1>17, <1>18, <1>19, <1>20, <1>21, <1>22, <1>23,
     <1>24, <1>25, <1>26, <1>27, <1>28, <1>29, <1>30, <1>31, <1>32, <1>33, <1>34,
     <1>35, <1>36, <1>37, <1>38, <1>39, <1>40, <1>41, <1>42 DEF Next, WriterStep,
     RecoveryStep

-----------------------------------------------------------------------------
(* Paths in step and the replaced file                                      *)

\* Unsettled operations stay so, and a path gets out of step only by one of them.
LEMMA StepKeeps ==
    ASSUME StepOK,
           \A w \in Writers : Unsettled(w) => Unsettled(w)' /\ Path(w)' = Path(w),
           \A p \in Paths : InStep(p) =>
              InStep(p)' \/ \E w \in Writers : Unsettled(w)' /\ Path(w)' = p
    PROVE  StepOK'
BY DEF StepOK

\* Every step leaves a path in step or its operation unsettled.
LEMMA StepStep ==
    TypeOK /\ LeaseInv /\ JournalOK /\ PlannedOK /\ PlaceOK /\ IndexOK /\ StepOK /\
      [Next]_vars => StepOK'
<1> SUFFICES ASSUME TypeOK, LeaseInv, JournalOK, PlannedOK, PlaceOK, IndexOK, StepOK,
                    [Next]_vars
             PROVE  StepOK'
  OBVIOUS
<1> USE DEF LeaseInv, Exclusive, Busy, LeaseOK, RecordsOK, Recorded, Clean, FsType,
            StoreType, PlanType, Objects, TypeOK, RequestType, RuntimeType,
            JournalType, Goto, Put, Fault, fsVars, jVars, dbVars, reqVars, runVars,
            bound, Path, Before, Admitted, Staging, Locked, RuntimeSteps,
            RecoverySteps, Positions
<1>1. ASSUME NEW w \in Writers, Refuse(w) PROVE StepOK'
  <2>1. \A v \in Writers : Unsettled(v) => Unsettled(v)' /\ Path(v)' = Path(v)
    BY <1>1 DEF Refuse, Unsettled
  <2>2. \A q \in Paths : InStep(q) => InStep(q)'
    BY <1>1 DEF Refuse, InStep
  <2>3. QED
    BY <2>1, <2>2, StepKeeps
<1>2. ASSUME NEW w \in Writers, StageBody(w) PROVE StepOK'
  <2>1. \A v \in Writers : Unsettled(v) => Unsettled(v)' /\ Path(v)' = Path(v)
    BY <1>2 DEF StageBody, Unsettled
  <2>2. \A q \in Paths : InStep(q) => InStep(q)'
    BY <1>2 DEF StageBody, InStep
  <2>3. QED
    BY <2>1, <2>2, StepKeeps
<1>3. ASSUME NEW w \in Writers, SealStage(w) PROVE StepOK'
  <2>1. \A v \in Writers : Unsettled(v) => Unsettled(v)' /\ Path(v)' = Path(v)
    BY <1>3 DEF SealStage, SyncStaging, Unsettled
  <2>2. \A q \in Paths : InStep(q) => InStep(q)'
    BY <1>3 DEF SealStage, SyncStaging, InStep
  <2>3. QED
    BY <2>1, <2>2, StepKeeps
<1>4. ASSUME NEW w \in Writers, BeginMutation(w) PROVE StepOK'
  <2>1. \A v \in Writers : Unsettled(v) => Unsettled(v)' /\ Path(v)' = Path(v)
    BY <1>4 DEF BeginMutation, Unsettled
  <2>2. \A q \in Paths : InStep(q) => InStep(q)'
    BY <1>4 DEF BeginMutation, InStep
  <2>3. QED
    BY <2>1, <2>2, StepKeeps
<1>5. ASSUME NEW w \in Writers, Abort(w) PROVE StepOK'
  <2>1. \A v \in Writers : Unsettled(v) => Unsettled(v)' /\ Path(v)' = Path(v)
    BY <1>5 DEF Abort, Answer, Unsettled
  <2>2. \A q \in Paths : InStep(q) => InStep(q)'
    BY <1>5 DEF Abort, Answer, InStep
  <2>3. QED
    BY <2>1, <2>2, StepKeeps
<1>6. ASSUME NEW w \in Writers, AbortBlocked(w) PROVE StepOK'
  <2>1. \A v \in Writers : Unsettled(v) => Unsettled(v)' /\ Path(v)' = Path(v)
    BY <1>6 DEF AbortBlocked, Answer, Unsettled
  <2>2. \A q \in Paths : InStep(q) => InStep(q)'
    BY <1>6 DEF AbortBlocked, Answer, InStep
  <2>3. QED
    BY <2>1, <2>2, StepKeeps
<1>6a. ASSUME NEW w \in Writers, AbortRetained(w) PROVE StepOK'
  <2>1. \A v \in Writers : Unsettled(v) => Unsettled(v)' /\ Path(v)' = Path(v)
    BY <1>6a DEF AbortRetained, Answer, Unsettled
  <2>2. \A q \in Paths : InStep(q) => InStep(q)'
    BY <1>6a DEF AbortRetained, Answer, InStep
  <2>3. QED
    BY <2>1, <2>2, StepKeeps
<1>7. ASSUME NEW w \in Writers, NEW keep \in BOOLEAN, Prepare(w, keep) PROVE StepOK'
  <2>1. \A v \in Writers : Unsettled(v) => Unsettled(v)' /\ Path(v)' = Path(v)
    BY <1>7 DEF Prepare, Unsettled
  <2>2. \A q \in Paths : InStep(q) => InStep(q)'
    BY <1>7 DEF Prepare, InStep
  <2>3. QED
    BY <2>1, <2>2, StepKeeps
<1>8. ASSUME NEW w \in Writers, PublishPrepared(w) PROVE StepOK'
  <2>1. \A v \in Writers : Unsettled(v) => Unsettled(v)' /\ Path(v)' = Path(v)
    BY <1>8 DEF PublishPrepared, NameRecord, SyncRecord, SyncJournal, Unsettled, JournalOK
  <2>2. \A q \in Paths : InStep(q) => InStep(q)'
    BY <1>8 DEF PublishPrepared, NameRecord, SyncRecord, SyncJournal, InStep, JournalOK
  <2>3. QED
    BY <2>1, <2>2, StepKeeps
<1>9. ASSUME NEW w \in Writers, PublishVisible(w) PROVE StepOK'
  <2>1. \A v \in Writers : Unsettled(v) => Unsettled(v)' /\ Path(v)' = Path(v)
    BY <1>9 DEF PublishVisible, SwapStage, Unsettled
  <2>2. Unsettled(w)' /\ Path(w)' = Path(w)
    BY <1>9, SMTT(30) DEF PublishVisible, SwapStage, Unsettled, JournalOK
  <2>3. \A q \in Paths \ {Path(w)} : InStep(q) => InStep(q)'
    BY <1>9 DEF PublishVisible, SwapStage, InStep
  <2>4. QED
    BY <2>1, <2>2, <2>3, StepKeeps
<1>10. ASSUME NEW w \in Writers, SyncVisibleFirst(w) PROVE StepOK'
  <2>1. \A v \in Writers : Unsettled(v) => Unsettled(v)' /\ Path(v)' = Path(v)
    BY <1>10 DEF SyncVisibleFirst, SyncFiles, SyncStaging, Unsettled
  <2>2. \A q \in Paths : InStep(q) => InStep(q)'
    BY <1>10 DEF SyncVisibleFirst, SyncFiles, SyncStaging, InStep
  <2>3. QED
    BY <2>1, <2>2, StepKeeps
<1>11. ASSUME NEW w \in Writers, SyncVisibleSecond(w) PROVE StepOK'
  <2>1. \A v \in Writers : Unsettled(v) => Unsettled(v)' /\ Path(v)' = Path(v)
    BY <1>11 DEF SyncVisibleSecond, SyncFiles, SyncStaging, Unsettled
  <2>2. \A q \in Paths : InStep(q) => InStep(q)'
    BY <1>11 DEF SyncVisibleSecond, SyncFiles, SyncStaging, InStep
  <2>3. QED
    BY <2>1, <2>2, StepKeeps
<1>12. ASSUME NEW w \in Writers, PutCAS(w) PROVE StepOK'
  <2>1. \A v \in Writers : Unsettled(v) => Unsettled(v)' /\ Path(v)' = Path(v)
    BY <1>12 DEF PutCAS, Unsettled
  <2>2. \A q \in Paths : InStep(q) => InStep(q)'
    BY <1>12 DEF PutCAS, InStep
  <2>3. QED
    BY <2>1, <2>2, StepKeeps
<1>13. ASSUME NEW w \in Writers, PublishPublished(w) PROVE StepOK'
  <2>1. \A v \in Writers : Unsettled(v) => Unsettled(v)' /\ Path(v)' = Path(v)
    BY <1>13 DEF PublishPublished, NameRecord, SyncRecord, SyncJournal, Unsettled, JournalOK
  <2>2. \A q \in Paths : InStep(q) => InStep(q)'
    BY <1>13 DEF PublishPublished, NameRecord, SyncRecord, SyncJournal, InStep, JournalOK
  <2>3. QED
    BY <2>1, <2>2, StepKeeps
<1>14. ASSUME NEW w \in Writers, CommitMetadata(w) PROVE StepOK'
  <2>1. \A v \in Writers : Unsettled(v) => Unsettled(v)' /\ Path(v)' = Path(v)
    BY <1>14 DEF CommitMetadata, RowsAfter, Unsettled
  <2>2. Unsettled(w)' /\ Path(w)' = Path(w)
    BY <1>14, SMTT(30) DEF CommitMetadata, RowsAfter, Unsettled, JournalOK
  <2>3. \A q \in Paths \ {Path(w)} : InStep(q) => InStep(q)'
    BY <1>14 DEF CommitMetadata, RowsAfter, InStep
  <2>4. QED
    BY <2>1, <2>2, <2>3, StepKeeps
<1>15. ASSUME NEW w \in Writers, PublishCommitted(w) PROVE StepOK'
  <2>1. \A v \in Writers : Unsettled(v) => Unsettled(v)' /\ Path(v)' = Path(v)
    BY <1>15 DEF PublishCommitted, NameRecord, SyncRecord, SyncJournal, Unsettled, JournalOK
  <2>2. \A q \in Paths : InStep(q) => InStep(q)'
    BY <1>15 DEF PublishCommitted, NameRecord, SyncRecord, SyncJournal, InStep, JournalOK
  <2>3. QED
    BY <2>1, <2>2, StepKeeps
<1>16. ASSUME NEW w \in Writers, StepFails(w) PROVE StepOK'
  <2>1. \A v \in Writers : Unsettled(v) => Unsettled(v)' /\ Path(v)' = Path(v)
    BY <1>16 DEF StepFails, Unsettled
  <2>2. \A q \in Paths : InStep(q) => InStep(q)'
    BY <1>16 DEF StepFails, InStep
  <2>3. QED
    BY <2>1, <2>2, StepKeeps
<1>17. ASSUME NEW w \in Writers, Finish(w) PROVE StepOK'
  <2>1. \A v \in Writers : Unsettled(v) => Unsettled(v)' /\ Path(v)' = Path(v)
    BY <1>17 DEF Finish, SyncJournal, Decision, Answer, Unsettled
  <2>2. \A q \in Paths : InStep(q) => InStep(q)'
    BY <1>17 DEF Finish, SyncJournal, Decision, Answer, InStep
  <2>3. QED
    BY <2>1, <2>2, StepKeeps
<1>18. ASSUME NEW w \in Writers, FinishBlocked(w) PROVE StepOK'
  <2>1. \A v \in Writers : Unsettled(v) => Unsettled(v)' /\ Path(v)' = Path(v)
    BY <1>18 DEF FinishBlocked, BlockGate, Answer, Unsettled
  <2>2. \A q \in Paths : InStep(q) => InStep(q)'
    BY <1>18 DEF FinishBlocked, BlockGate, Answer, InStep
  <2>3. QED
    BY <2>1, <2>2, StepKeeps
<1>19. ASSUME NEW w \in Writers, NEW old \in SUBSET versions, RetainRows(w, old)
       PROVE  StepOK'
  <2>1. \A v \in Writers : Unsettled(v) => Unsettled(v)' /\ Path(v)' = Path(v)
    BY <1>19 DEF RetainRows, Unsettled
  <2>2. \A q \in Paths : InStep(q) => InStep(q)'
    BY <1>19 DEF RetainRows, InStep
  <2>3. QED
    BY <2>1, <2>2, StepKeeps
<1>20. ASSUME NEW w \in Writers, NEW failed \in SUBSET Contents,
             NEW skipped \in SUBSET Contents, RetainObjects(w, failed, skipped)
       PROVE  StepOK'
  <2>1. \A v \in Writers : Unsettled(v) => Unsettled(v)' /\ Path(v)' = Path(v)
    BY <1>20 DEF RetainObjects, Answer, Unsettled
  <2>2. \A q \in Paths : InStep(q) => InStep(q)'
    BY <1>20 DEF RetainObjects, Answer, InStep
  <2>3. QED
    BY <2>1, <2>2, StepKeeps
<1>21. ASSUME NEW w \in Writers, Inspect(w) PROVE StepOK'
  <2>1. \A v \in Writers : Unsettled(v) => Unsettled(v)' /\ Path(v)' = Path(v)
    BY <1>21 DEF Inspect, Recovering, Unsettled
  <2>2. \A q \in Paths : InStep(q) => InStep(q)'
    BY <1>21 DEF Inspect, Recovering, InStep
  <2>3. QED
    BY <2>1, <2>2, StepKeeps
<1>22. ASSUME NEW w \in Writers, Move(w) PROVE StepOK'
  <2>1. \A v \in Writers : Unsettled(v) => Unsettled(v)' /\ Path(v)' = Path(v)
    BY <1>22 DEF Move, Recovering, SwapStage, MoveFirst, Misplaced, Unsettled
  <2>2. Unsettled(w)' /\ Path(w)' = Path(w)
    BY <1>22, SMTT(30) DEF Move, Recovering, SwapStage, MoveFirst, Misplaced, Unsettled, JournalOK
  <2>3. \A q \in Paths \ {Path(w)} : InStep(q) => InStep(q)'
    BY <1>22 DEF Move, Recovering, SwapStage, MoveFirst, Misplaced, InStep
  <2>4. QED
    BY <2>1, <2>2, <2>3, StepKeeps
<1>23. ASSUME NEW w \in Writers, SyncMovedFiles(w) PROVE StepOK'
  <2>1. \A v \in Writers : Unsettled(v) => Unsettled(v)' /\ Path(v)' = Path(v)
    BY <1>23 DEF SyncMovedFiles, Recovering, SyncFiles, Unsettled
  <2>2. \A q \in Paths : InStep(q) => InStep(q)'
    BY <1>23 DEF SyncMovedFiles, Recovering, SyncFiles, InStep
  <2>3. QED
    BY <2>1, <2>2, StepKeeps
<1>24. ASSUME NEW w \in Writers, SyncMovedStage(w) PROVE StepOK'
  <2>1. \A v \in Writers : Unsettled(v) => Unsettled(v)' /\ Path(v)' = Path(v)
    BY <1>24 DEF SyncMovedStage, Recovering, SyncStaging, Unsettled
  <2>2. \A q \in Paths : InStep(q) => InStep(q)'
    BY <1>24 DEF SyncMovedStage, Recovering, SyncStaging, InStep
  <2>3. QED
    BY <2>1, <2>2, StepKeeps
<1>25. ASSUME NEW w \in Writers, RollbackMetadata(w) PROVE StepOK'
  <2>1. \A v \in Writers : Unsettled(v) => Unsettled(v)' /\ Path(v)' = Path(v)
    BY <1>25 DEF RollbackMetadata, Recovering, Unsettled
  <2>2. Unsettled(w)' /\ Path(w)' = Path(w)
    BY <1>25, SMTT(30) DEF RollbackMetadata, Recovering, Unsettled, JournalOK
  <2>3. \A q \in Paths \ {Path(w)} : InStep(q) => InStep(q)'
    BY <1>25 DEF RollbackMetadata, Recovering, InStep
  <2>4. QED
    BY <2>1, <2>2, <2>3, StepKeeps
<1>26. ASSUME NEW w \in Writers, RollbackCAS(w) PROVE StepOK'
  <2>1. \A v \in Writers : Unsettled(v) => Unsettled(v)' /\ Path(v)' = Path(v)
    BY <1>26 DEF RollbackCAS, Recovering, Unsettled
  <2>2. \A q \in Paths : InStep(q) => InStep(q)'
    BY <1>26 DEF RollbackCAS, Recovering, InStep
  <2>3. QED
    BY <2>1, <2>2, StepKeeps
<1>27. ASSUME NEW w \in Writers, EnsureCAS(w) PROVE StepOK'
  <2>1. \A v \in Writers : Unsettled(v) => Unsettled(v)' /\ Path(v)' = Path(v)
    BY <1>27 DEF EnsureCAS, Recovering, Unsettled
  <2>2. \A q \in Paths : InStep(q) => InStep(q)'
    BY <1>27 DEF EnsureCAS, Recovering, InStep
  <2>3. QED
    BY <2>1, <2>2, StepKeeps
<1>28. ASSUME NEW w \in Writers, EnsureMetadata(w) PROVE StepOK'
  <2>1. \A v \in Writers : Unsettled(v) => Unsettled(v)' /\ Path(v)' = Path(v)
    BY <1>28 DEF EnsureMetadata, Recovering, RowsAfter, Unsettled
  <2>2. Unsettled(w)' /\ Path(w)' = Path(w)
    BY <1>28, SMTT(30) DEF EnsureMetadata, Recovering, RowsAfter, Unsettled, JournalOK
  <2>3. \A q \in Paths \ {Path(w)} : InStep(q) => InStep(q)'
    BY <1>28 DEF EnsureMetadata, Recovering, RowsAfter, InStep
  <2>4. QED
    BY <2>1, <2>2, <2>3, StepKeeps
<1>29. ASSUME NEW w \in Writers, RemoveStage(w) PROVE StepOK'
  <2>1. \A v \in Writers : Unsettled(v) => Unsettled(v)' /\ Path(v)' = Path(v)
    BY <1>29 DEF RemoveStage, Recovering, Unsettled
  <2>2. \A q \in Paths : InStep(q) => InStep(q)'
    BY <1>29 DEF RemoveStage, Recovering, InStep
  <2>3. QED
    BY <2>1, <2>2, StepKeeps
<1>30. ASSUME NEW w \in Writers, ValidateFinal(w) PROVE StepOK'
  <2>1. /\ Path(w) \in Paths /\ pc[w] = "unlinked"
        /\ files' = files /\ filesDur' = files /\ index' = index
    BY <1>30 DEF ValidateFinal, Recovering
  <2>2. \A p \in Paths \ {Path(w)} : InStep(p)
    BY <2>1 DEF StepOK, Unsettled
  <2>3. index[Path(w)] = BodyOf(files[Path(w)])
    <3>1. CASE dir[w] = "back"
      <4>1. files[Path(w)] = Before(w)
        BY <2>1, <3>1 DEF PlaceOK, PlaceAt, Placed
      <4>2. index[Path(w)] = plan[w].indexBefore
        BY <2>1, <3>1 DEF IndexOK
      <4>3. Planned(w)
        BY <2>1, SMTT(30) DEF Planned, JournalOK
      <4>4. QED
        BY <4>1, <4>2, <4>3 DEF PlannedOK
    <3>2. CASE dir[w] = "forward"
      <4>1. files[Path(w)] = After(w) /\ index[Path(w)] = req[w].body
        BY <2>1, <3>2 DEF IndexOK, PlaceOK, PlaceAt, JournalOK
      <4>2. After(w) # Absent
        BY <2>1, AbsentAssumption DEF After
      <4>3. QED
        BY <4>1, <4>2 DEF BodyOf, After
    <3>3. QED
      BY <3>1, <3>2
  <2>4. QED
    BY <2>1, <2>2, <2>3 DEF StepOK, InStep
<1>31. ASSUME NEW w \in Writers, RemoveRecord(w) PROVE StepOK'
  BY <1>31 DEF RemoveRecord, Recovering, NextRemoved, StepOK, Unsettled, InStep
<1>32. ASSUME NEW w \in Writers, SyncRemoval(w) PROVE StepOK'
  BY <1>32, SMTT(30) DEF SyncRemoval, Recovering, SyncJournal, Answer, StepOK, Unsettled,
     InStep
<1>33. ASSUME NEW w \in Writers, RecoveryFails(w) PROVE StepOK'
  BY <1>33, SMTT(30) DEF RecoveryFails, Recovering, BlockGate, Answer, Lost, StepOK,
     Unsettled, InStep
<1>34. ASSUME NEW w \in Writers, NEW p \in Paths, NEW c \in Contents, Begin(w, p, c)
       PROVE  StepOK'
  <2>1. \A v \in Writers : Unsettled(v) => Unsettled(v)' /\ Path(v)' = Path(v)
    BY <1>34 DEF Begin, Unsettled
  <2>2. \A q \in Paths : InStep(q) => InStep(q)'
    BY <1>34 DEF Begin, InStep
  <2>3. QED
    BY <2>1, <2>2, StepKeeps
<1>35. ASSUME NEW dead \in SUBSET cas, CollectGarbage(dead) PROVE StepOK'
  <2>1. \A v \in Writers : Unsettled(v) => Unsettled(v)' /\ Path(v)' = Path(v)
    BY <1>35 DEF CollectGarbage, Unsettled
  <2>2. \A q \in Paths : InStep(q) => InStep(q)'
    BY <1>35 DEF CollectGarbage, InStep
  <2>3. QED
    BY <2>1, <2>2, StepKeeps
<1>36. ASSUME CleanupStaging PROVE StepOK'
  BY <1>36 DEF CleanupStaging, SyncJournal, StepOK, Unsettled, InStep
<1>37. ASSUME Kill PROVE StepOK'
  <2>1. \A v \in Writers : Unsettled(v) => Unsettled(v)' /\ Path(v)' = Path(v)
    BY <1>37 DEF Kill, Die, Lost, Unsettled
  <2>2. \A q \in Paths : InStep(q) => InStep(q)'
    BY <1>37 DEF Kill, Die, Lost, InStep
  <2>3. QED
    BY <2>1, <2>2, StepKeeps
<1>38. ASSUME PowerLoss PROVE StepOK'
  <2>1. \A v \in Writers : Unsettled(v) => Unsettled(v)' /\ Path(v)' = Path(v)
    BY <1>38 DEF PowerLoss, Die, Lost, SyncJournal, Unsettled
  <2>2. \A q \in Paths : InStep(q) => InStep(q)'
    BY <1>38 DEF PowerLoss, Die, Lost, SyncJournal, InStep
  <2>3. QED
    BY <2>1, <2>2, StepKeeps
<1>39. ASSUME Restart PROVE StepOK'
  <2>1. \A v \in Writers : Unsettled(v) => Unsettled(v)' /\ Path(v)' = Path(v)
    BY <1>39 DEF Restart, SyncJournal, Decision, Unsettled
  <2>2. \A q \in Paths : InStep(q) => InStep(q)'
    BY <1>39 DEF Restart, SyncJournal, Decision, InStep
  <2>3. QED
    BY <2>1, <2>2, StepKeeps
<1>40. ASSUME StartupDone PROVE StepOK'
  <2>1. \A v \in Writers : Unsettled(v) => Unsettled(v)' /\ Path(v)' = Path(v)
    BY <1>40 DEF StartupDone, Unsettled
  <2>2. \A q \in Paths : InStep(q) => InStep(q)'
    BY <1>40 DEF StartupDone, InStep
  <2>3. QED
    BY <2>1, <2>2, StepKeeps
<1>41. ASSUME AllServed PROVE StepOK'
  BY <1>41 DEF AllServed, vars, StepOK, Unsettled, InStep
<1>42. ASSUME UNCHANGED vars PROVE StepOK'
  BY <1>42 DEF vars, StepOK, Unsettled, InStep
<1> HIDE DEF TypeOK, LeaseInv, JournalOK, PlannedOK, PlaceOK, IndexOK, StepOK
<1>43. QED
  BY <1>1, <1>2, <1>3, <1>4, <1>5, <1>6, <1>6a, <1>7, <1>8, <1>9, <1>10, <1>11, <1>12,
     <1>13, <1>14, <1>15, <1>16, <1>17, <1>18, <1>19, <1>20, <1>21, <1>22, <1>23,
     <1>24, <1>25, <1>26, <1>27, <1>28, <1>29, <1>30, <1>31, <1>32, <1>33, <1>34,
     <1>35, <1>36, <1>37, <1>38, <1>39, <1>40, <1>41, <1>42 DEF Next, WriterStep,
     RecoveryStep

\* Every step keeps the replaced file in one of its places.
LEMMA OldStep ==
    CarriedRename /\ TypeOK /\ LeaseInv /\ JournalOK /\ DecidedOK /\ StepOK /\ PlaceOK
      /\ OldOK /\ [Next]_vars => OldOK'
<1> SUFFICES ASSUME CarriedRename, TypeOK, LeaseInv, JournalOK, DecidedOK, StepOK,
                    PlaceOK, OldOK, [Next]_vars
             PROVE  OldOK'
  OBVIOUS
<1> USE DEF OldOK, Planned, Creates, LeaseInv, Exclusive, Busy, LeaseOK, RecordsOK,
            Recorded, Clean, FsType, StoreType, PlanType, Objects, TypeOK,
            RequestType, RuntimeType, JournalType, Goto, Put, Fault, fsVars, jVars,
            dbVars, reqVars, runVars, bound, Path, Before, Admitted, Staging, Locked,
            RuntimeSteps, RecoverySteps, Positions
<1>1. ASSUME NEW w \in Writers, Refuse(w) PROVE OldOK'
  BY <1>1 DEF Refuse
<1>2. ASSUME NEW w \in Writers, StageBody(w) PROVE OldOK'
  BY <1>2 DEF StageBody
<1>3. ASSUME NEW w \in Writers, SealStage(w) PROVE OldOK'
  BY <1>3 DEF SealStage, SyncStaging
<1>4. ASSUME NEW w \in Writers, BeginMutation(w) PROVE OldOK'
  BY <1>4 DEF BeginMutation
<1>5. ASSUME NEW w \in Writers, Abort(w) PROVE OldOK'
  BY <1>5 DEF Abort, Answer
<1>6. ASSUME NEW w \in Writers, AbortBlocked(w) PROVE OldOK'
  BY <1>6 DEF AbortBlocked, Answer
<1>6a. ASSUME NEW w \in Writers, AbortRetained(w) PROVE OldOK'
  BY <1>6a DEF AbortRetained, Answer
<1>7. ASSUME NEW w \in Writers, NEW keep \in BOOLEAN, Prepare(w, keep) PROVE OldOK'
  <2>1. Path(w) \in Paths /\ InStep(Path(w))
    BY <1>7 DEF Prepare, StepOK, Unsettled
  <2>2. files[Path(w)] = filesDur[Path(w)]
    BY <2>1 DEF InStep
  <2>3. \A v \in Writers \ {w} : ~Planned(v)'
    BY <1>7 DEF Prepare
  <2>4. Before(w)' = files[Path(w)]
    BY <1>7 DEF Prepare
  <2>5. QED
    BY <1>7, <2>2, <2>3, <2>4 DEF Prepare
<1>8. ASSUME NEW w \in Writers, PublishPrepared(w) PROVE OldOK'
  BY <1>8 DEF PublishPrepared, NameRecord, SyncRecord, SyncJournal
<1>9. ASSUME NEW w \in Writers, PublishVisible(w) PROVE OldOK'
  BY <1>9 DEF PublishVisible, SwapStage
<1>10. ASSUME NEW w \in Writers, SyncVisibleFirst(w) PROVE OldOK'
  BY <1>10 DEF SyncVisibleFirst, SyncFiles, SyncStaging
<1>11. ASSUME NEW w \in Writers, SyncVisibleSecond(w) PROVE OldOK'
  BY <1>11 DEF SyncVisibleSecond, SyncFiles, SyncStaging
<1>12. ASSUME NEW w \in Writers, PutCAS(w) PROVE OldOK'
  BY <1>12 DEF PutCAS
<1>13. ASSUME NEW w \in Writers, PublishPublished(w) PROVE OldOK'
  BY <1>13 DEF PublishPublished, NameRecord, SyncRecord, SyncJournal
<1>14. ASSUME NEW w \in Writers, CommitMetadata(w) PROVE OldOK'
  BY <1>14 DEF CommitMetadata, RowsAfter
<1>15. ASSUME NEW w \in Writers, PublishCommitted(w) PROVE OldOK'
  BY <1>15 DEF PublishCommitted, NameRecord, SyncRecord, SyncJournal
<1>16. ASSUME NEW w \in Writers, StepFails(w) PROVE OldOK'
  BY <1>16 DEF StepFails
<1>17. ASSUME NEW w \in Writers, Finish(w) PROVE OldOK'
  BY <1>17 DEF Finish, SyncJournal, Decision, Answer
<1>18. ASSUME NEW w \in Writers, FinishBlocked(w) PROVE OldOK'
  BY <1>18 DEF FinishBlocked, BlockGate, Answer
<1>19. ASSUME NEW w \in Writers, NEW old \in SUBSET versions, RetainRows(w, old)
       PROVE  OldOK'
  BY <1>19 DEF RetainRows
<1>20. ASSUME NEW w \in Writers, NEW failed \in SUBSET Contents,
             NEW skipped \in SUBSET Contents, RetainObjects(w, failed, skipped)
       PROVE  OldOK'
  BY <1>20 DEF RetainObjects, Answer
<1>21. ASSUME NEW w \in Writers, Inspect(w) PROVE OldOK'
  BY <1>21 DEF Inspect, Recovering
<1>22. ASSUME NEW w \in Writers, Move(w) PROVE OldOK'
  BY <1>22 DEF Move, Recovering, SwapStage, MoveFirst, Misplaced
<1>23. ASSUME NEW w \in Writers, SyncMovedFiles(w) PROVE OldOK'
  BY <1>23 DEF SyncMovedFiles, Recovering, SyncFiles
<1>24. ASSUME NEW w \in Writers, SyncMovedStage(w) PROVE OldOK'
  BY <1>24 DEF SyncMovedStage, Recovering, SyncStaging
<1>25. ASSUME NEW w \in Writers, RollbackMetadata(w) PROVE OldOK'
  BY <1>25 DEF RollbackMetadata, Recovering
<1>26. ASSUME NEW w \in Writers, RollbackCAS(w) PROVE OldOK'
  BY <1>26 DEF RollbackCAS, Recovering
<1>27. ASSUME NEW w \in Writers, EnsureCAS(w) PROVE OldOK'
  BY <1>27 DEF EnsureCAS, Recovering
<1>28. ASSUME NEW w \in Writers, EnsureMetadata(w) PROVE OldOK'
  BY <1>28 DEF EnsureMetadata, Recovering, RowsAfter
<1>29. ASSUME NEW w \in Writers, RemoveStage(w) PROVE OldOK'
  <2>1. \A v \in Writers \ {w} : ~Planned(v)'
    BY <1>29 DEF RemoveStage, Recovering
  <2>2. pc[w] = "unlink"
    BY <1>29 DEF RemoveStage
  <2>3. dir[w] = "back" => files[Path(w)] = Before(w)
    BY <2>2 DEF PlaceOK, PlaceAt, Placed
  <2>4. dir[w] = "forward" => "committed" \in journalDur[w]
    BY <2>2 DEF JournalOK
  <2>5. QED
    BY <1>29, <2>1, <2>3, <2>4 DEF RemoveStage
<1>30. ASSUME NEW w \in Writers, ValidateFinal(w) PROVE OldOK'
  BY <1>30 DEF ValidateFinal, Recovering
<1>31. ASSUME NEW w \in Writers, RemoveRecord(w) PROVE OldOK'
  BY <1>31 DEF RemoveRecord, Recovering, NextRemoved
<1>32. ASSUME NEW w \in Writers, SyncRemoval(w) PROVE OldOK'
  <2>1. /\ pc[w] = "cleaning" /\ pc'[w] \in {"clean", "gone", "done", "retain"}
        /\ pc'[w] = "clean" <=> journal[w] # {}
        /\ \A v \in Writers \ {w} : journal[v] = {} /\ journalDur[v] = {} /\ pc'[v] = pc[v]
    <3> HIDE DEF TypeOK, LeaseInv, OldOK
    <3> QED  BY <1>32, SyncRemovalEffect
  <2>2. \A v \in Writers : Planned(v)' /\ "committed" \notin journalDur'[v]
                              => Planned(v) /\ "committed" \notin journalDur[v]
    BY <1>32, <2>1 DEF SyncRemoval, SyncJournal, DecidedOK
  <2>3. QED
    BY <1>32, <2>2 DEF SyncRemoval
<1>33. ASSUME NEW w \in Writers, RecoveryFails(w) PROVE OldOK'
  BY <1>33 DEF RecoveryFails, Recovering, BlockGate, Answer, Lost
<1>34. ASSUME NEW w \in Writers, NEW p \in Paths, NEW c \in Contents, Begin(w, p, c)
       PROVE  OldOK'
  BY <1>34 DEF Begin
<1>35. ASSUME NEW dead \in SUBSET cas, CollectGarbage(dead) PROVE OldOK'
  BY <1>35 DEF CollectGarbage
<1>36. ASSUME CleanupStaging PROVE OldOK'
  BY <1>36 DEF CleanupStaging, SyncJournal
<1>37. ASSUME Kill PROVE OldOK'
  BY <1>37 DEF Kill, Die, Lost
<1>38. ASSUME PowerLoss PROVE OldOK'
  <2>1. PICK P \in SUBSET Paths, S \in SUBSET Writers, J \in BOOLEAN :
          /\ \A w \in Writers :
               (/\ journal[w] # {} /\ staging[w] # stagingDur[w]
                /\ files[Path(w)] # filesDur[Path(w)]) => ((w \in S) = (Path(w) \in P))
          /\ files' = [p \in Paths |-> IF p \in P THEN files[p] ELSE filesDur[p]]
          /\ staging' = [w \in Writers |-> IF w \in S THEN staging[w] ELSE stagingDur[w]]
          /\ IF J THEN SyncJournal /\ UNCHANGED journal
             ELSE journal' = journalDur /\ UNCHANGED <<journalDur, decided>>
    BY <1>38 DEF PowerLoss
  <2>2. /\ filesDur' = files' /\ stagingDur' = staging' /\ req' = req /\ plan' = plan
        /\ pc' = Lost /\ journalDur' = journal' /\ journal' \in {journal, journalDur}
    BY <1>38, <2>1 DEF PowerLoss, Die, SyncJournal
  <2>3. SUFFICES ASSUME NEW w \in Writers, Planned(w)', "committed" \notin journalDur'[w],
                        ~Creates(w)'
                 PROVE  Before(w) \in {files'[Path(w)], staging'[w]}
    BY <2>2 DEF OldOK
  <2>4. /\ journal'[w] # {} /\ ~Creates(w) /\ Planned(w) /\ Path(w) \in Paths
        /\ "committed" \notin journalDur[w]
    <3>1. pc'[w] \notin RuntimeSteps
      BY <2>2 DEF Lost
    <3>2. journal'[w] # {} /\ Recorded(w)
      BY <2>2, <2>3, <3>1 DEF Planned
    <3>3. QED
      BY <2>2, <2>3, <3>2 DEF Planned, DecidedOK, Creates
  <2>5. /\ Before(w) \in {files[Path(w)], staging[w]}
        /\ Before(w) \in {filesDur[Path(w)], stagingDur[w]}
    BY <2>4 DEF OldOK
  <2>6. CASE journal[w] # {}
    BY <2>1, <2>4, <2>5, <2>6
  <2>7. CASE journal[w] = {}
    <3>1. files[Path(w)] = Before(w)
      BY <2>2, <2>4, <2>7, ZenonT(60) DEF PlaceOK, PlaceAt, DecidedOK
    <3>2. InStep(Path(w))
      <4>1. \A v \in Writers : journal[v] # {} => v = w
        BY <2>4
      <4>2. QED
        BY <2>4, <2>7, <4>1, SMTT(30) DEF StepOK, Unsettled
    <3>3. QED
      BY <2>1, <2>4, <3>1, <3>2 DEF InStep
  <2>8. QED
    BY <2>6, <2>7
<1>39. ASSUME Restart PROVE OldOK'
  <2>1. \A v \in Writers : Planned(v)' /\ "committed" \notin journalDur'[v]
                              => Planned(v) /\ "committed" \notin journalDur[v]
    BY <1>39 DEF Restart, SyncJournal, DecidedOK
  <2>2. QED
    BY <1>39, <2>1 DEF Restart
<1>40. ASSUME StartupDone PROVE OldOK'
  BY <1>40 DEF StartupDone
<1>41. ASSUME AllServed PROVE OldOK'
  BY <1>41 DEF AllServed, vars
<1>42. ASSUME UNCHANGED vars PROVE OldOK'
  BY <1>42 DEF vars
<1> HIDE DEF TypeOK, LeaseInv, JournalOK, DecidedOK, StepOK, PlaceOK, OldOK
<1>43. QED
  BY <1>1, <1>2, <1>3, <1>4, <1>5, <1>6, <1>6a, <1>7, <1>8, <1>9, <1>10, <1>11, <1>12,
     <1>13, <1>14, <1>15, <1>16, <1>17, <1>18, <1>19, <1>20, <1>21, <1>22, <1>23,
     <1>24, <1>25, <1>26, <1>27, <1>28, <1>29, <1>30, <1>31, <1>32, <1>33, <1>34,
     <1>35, <1>36, <1>37, <1>38, <1>39, <1>40, <1>41, <1>42 DEF Next, WriterStep,
     RecoveryStep

-----------------------------------------------------------------------------
(* The theorems                                                             *)

\* The invariants hold initially.
LEMMA SafetyInit ==
    Init => /\ JournalOK /\ DecidedOK /\ PlannedOK /\ PlaceOK /\ IndexOK /\ StepOK
            /\ OldOK
<1> SUFFICES ASSUME Init
             PROVE  /\ JournalOK /\ DecidedOK /\ PlannedOK /\ PlaceOK /\ IndexOK /\ StepOK
                    /\ OldOK
  OBVIOUS
<1>1. /\ \A w \in Writers : pc[w] = "idle" /\ journal[w] = {} /\ journalDur[w] = {}
      /\ decided = {} /\ files = filesDur
  BY DEF Init
<1>2. JournalOK /\ DecidedOK
  BY <1>1 DEF JournalOK, DecidedOK, WellFormed, RuntimeSteps, RecoverySteps
<1>3. \A w \in Writers : ~Planned(w)
  BY <1>1 DEF Planned, Recorded, RuntimeSteps
<1>4. PlannedOK /\ OldOK
  BY <1>3 DEF PlannedOK, OldOK
<1>5. PlaceOK /\ IndexOK
  BY <1>1 DEF PlaceOK, PlaceAt, IndexOK, Shown, Placed, RecoverySteps
<1>6. StepOK
  BY <1>1 DEF Init, StepOK, InStep, BodyOf
<1>7. QED
  BY <1>2, <1>4, <1>5, <1>6

\* What every state of every behaviour satisfies.
SafeInv == /\ TypeOK /\ LeaseInv /\ HonestOK
           /\ JournalOK /\ DecidedOK /\ PlannedOK /\ PlaceOK /\ IndexOK /\ StepOK

\* Each part is kept by every step that starts where all of them hold.
LEMMA SafetyInvariant == Spec => []SafeInv
<1>1. Init => SafeInv
  BY InitInv, SafetyInit DEF SafeInv
<1>2. SafeInv /\ TypeOK' /\ [Next]_vars => SafeInv'
  BY LeaseStep, HonestStep, JournalStep, DecidedStep, PlannedStep, PlaceStep,
     IndexStep, StepStep DEF SafeInv
<1>3. QED
  BY <1>1, <1>2, TypeCorrect, PTL DEF Spec

\* Whatever records a kill, a power loss or an interrupted cleanup leaves,
\* classifyWriteTransactionOperation accepts them, so startup is never refused.
THEOREM RecordsClassify == Spec => []JournalClassifies
<1>1. SafeInv => JournalClassifies
  BY DEF SafeInv, JournalOK, JournalClassifies
<1>2. QED
  BY <1>1, SafetyInvariant, PTL

\* From the sync of the committed checkpoint to the removal of its last record the new
\* file is at its path, also after a power loss.
THEOREM NewContentStays == Spec => []NewContentSafe
<1>1. SafeInv => NewContentSafe
  BY DEF SafeInv, PlaceOK, PlaceAt, NewContentSafe
<1>2. QED
  BY <1>1, SafetyInvariant, PTL

\* Whenever the lock is free and the gate open, every earlier write is settled: no
\* record is left, the namespace is durable and the files table describes it.
THEOREM QuietIsSettled == Spec => []SettledState
<1>1. SafeInv => SettledState
  <2> SUFFICES ASSUME SafeInv, sys = "up", lock = NoWriter, ~blocked
               PROVE  /\ \A w \in Writers : journal[w] = {} /\ journalDur[w] = {}
                      /\ files = filesDur
                      /\ \A p \in Paths :
                            index[p] = IF files[p] = Absent THEN Absent ELSE files[p].body
    BY DEF SettledState
  <2>1. \A w \in Writers : journal[w] = {} /\ journalDur[w] = {}
    BY ConstantsAssumption DEF SafeInv, LeaseInv, LeaseOK, Recorded
  <2>2. \A p \in Paths : InStep(p)
    BY <2>1 DEF SafeInv, StepOK, Unsettled
  <2>3. files = filesDur
    BY <2>2 DEF InStep, SafeInv, TypeOK, FsType
  <2>4. QED
    BY <2>1, <2>2, <2>3 DEF InStep, BodyOf
<1>2. QED
  BY <1>1, SafetyInvariant, PTL

\* Where one directory fsync persists both halves of a rename, no order of syncs, kills
\* and power losses loses the file an undecided overwrite replaces.
THEOREM OldContentStays ==
    ASSUME CarriedRename
    PROVE  Spec => []OldContentSafe
<1>1. Init => OldOK
  BY SafetyInit
<1>2. SafeInv /\ OldOK /\ [Next]_vars => OldOK'
  BY OldStep DEF SafeInv
<1>3. OldOK => OldContentSafe
  BY DEF OldOK, OldContentSafe, Undecided, Planned, Recorded
<1>4. QED
  BY <1>1, <1>2, <1>3, SafetyInvariant, PTL DEF Spec

-----------------------------------------------------------------------------
(***************************************************************************)
(* WriteTxn implements AtomicWrite, step by step and for every instance.   *)
(* The mapping reads the committed files and rows off the durable journal; *)
(* it is closed here into one form per case, and each step of the write    *)
(* path is shown to be a step of the atomic store or none.                 *)
(***************************************************************************)


-----------------------------------------------------------------------------
(* What the mapping needs besides SafeInv                                  *)

\* Nothing of the operation shows yet, or any longer: its plan has no durable record, or
\* a rollback has removed the records.
Hidden(w) ==
    \/ pc[w] \in {"planned", "prepared_named"}
    \/ Recorded(w) /\ w \notin decided /\ (journal[w] = {} \/ journalDur[w] = {})

\* Positions of a rollback that has put the rows back.
RowsBack == {"half", "unlink", "unlinked", "clean", "cleaning"}

\* The old file and the old rows are there where nothing shows, and the version row a
\* plan found stays until the decision.
RowsAt(w) ==
    /\ Hidden(w) => files[Path(w)] = Before(w)
    /\ Hidden(w) \/ (pc[w] \in RowsBack /\ dir[w] = "back")
         => (plan[w].versioned /\ ~plan[w].rowBefore => Row(w) \notin versions)
    /\ pc[w] \in RuntimeSteps /\ plan[w].rowBefore => Row(w) \in versions
    /\ plan[w].rowBefore => plan[w].versioned
    /\ journalDur[w] = {} => "committed" \notin journal[w]
RowsOK == \A w \in Writers : RowsAt(w)

\* Rows wait for their objects only while retention of their request runs.
DroppedOK == \A w \in Writers : dropped[w] # {} => pc[w] = "retain_objects"

-----------------------------------------------------------------------------
(* The steps keep them                                                     *)

\* A request that does not move, or moves to a position that says nothing of the rows,
\* keeps what it knows of them while they, its plan and its records stay.
LEMMA RowsKept ==
    ASSUME NEW v \in Writers, RowsAt(v), files' = files, versions' = versions,
           req'[v] = req[v], plan'[v] = plan[v], dir'[v] = dir[v],
           journal'[v] = journal[v], journalDur'[v] = journalDur[v], decided' = decided,
           pc'[v] = pc[v] \/ pc'[v] \notin RuntimeSteps \cup RowsBack
    PROVE  RowsAt(v)'
BY DEF RowsAt, Hidden, RowsBack, RuntimeSteps, Recorded, Path, Before, Row

\* Every step keeps the old file and the old rows where nothing of the write shows.
LEMMA RowsStep ==
    TypeOK /\ LeaseInv /\ HonestOK /\ JournalOK /\ DecidedOK /\ PlaceOK /\ RowsOK /\
      [Next]_vars => RowsOK'
<1> SUFFICES ASSUME TypeOK, LeaseInv, HonestOK, JournalOK, DecidedOK, PlaceOK, RowsOK,
                    [Next]_vars
             PROVE  RowsOK'
  OBVIOUS
<1> USE DEF RowsOK, RowsAt, Hidden, RowsBack, Row, JournalOK, DecidedOK, Checkpoints,
            HonestOK, Uncommitted, LeaseInv, Exclusive, Busy, LeaseOK, RecordsOK,
            Recorded, Clean, FsType, StoreType, PlanType, Objects, TypeOK,
            RequestType, RuntimeType, JournalType, Goto, Put, Fault, fsVars, jVars,
            dbVars, reqVars, runVars, bound, Path, Before, Admitted, Staging, Locked,
            RuntimeSteps, RecoverySteps, Positions
<1>1. ASSUME NEW w \in Writers, Refuse(w) PROVE RowsOK'
  <2> HIDE DEF RowsOK, RowsAt, JournalOK, DecidedOK, HonestOK, LeaseInv
  <2>1. \A v \in Writers : pc'[v] = pc[v] \/ pc'[v] \notin RuntimeSteps \cup RowsBack
    BY <1>1 DEF Refuse
  <2>2. QED
    BY <1>1, <2>1, RowsKept DEF Refuse, RowsOK
<1>2. ASSUME NEW w \in Writers, StageBody(w) PROVE RowsOK'
  <2> HIDE DEF RowsOK, RowsAt, JournalOK, DecidedOK, HonestOK, LeaseInv
  <2>1. \A v \in Writers : pc'[v] = pc[v] \/ pc'[v] \notin RuntimeSteps \cup RowsBack
    BY <1>2 DEF StageBody
  <2>2. QED
    BY <1>2, <2>1, RowsKept DEF StageBody, RowsOK
<1>3. ASSUME NEW w \in Writers, SealStage(w) PROVE RowsOK'
  <2> HIDE DEF RowsOK, RowsAt, JournalOK, DecidedOK, HonestOK, LeaseInv
  <2>1. \A v \in Writers : pc'[v] = pc[v] \/ pc'[v] \notin RuntimeSteps \cup RowsBack
    BY <1>3 DEF SealStage, SyncStaging
  <2>2. QED
    BY <1>3, <2>1, RowsKept DEF SealStage, SyncStaging, RowsOK
<1>4. ASSUME NEW w \in Writers, BeginMutation(w) PROVE RowsOK'
  <2> HIDE DEF RowsOK, RowsAt, JournalOK, DecidedOK, HonestOK, LeaseInv
  <2>1. \A v \in Writers : pc'[v] = pc[v] \/ pc'[v] \notin RuntimeSteps \cup RowsBack
    BY <1>4 DEF BeginMutation
  <2>2. QED
    BY <1>4, <2>1, RowsKept DEF BeginMutation, RowsOK
<1>5. ASSUME NEW w \in Writers, Abort(w) PROVE RowsOK'
  <2> HIDE DEF RowsOK, RowsAt, JournalOK, DecidedOK, HonestOK, LeaseInv
  <2>1. \A v \in Writers : pc'[v] = pc[v] \/ pc'[v] \notin RuntimeSteps \cup RowsBack
    BY <1>5 DEF Abort, Answer
  <2>2. QED
    BY <1>5, <2>1, RowsKept DEF Abort, Answer, RowsOK
<1>6. ASSUME NEW w \in Writers, AbortBlocked(w) PROVE RowsOK'
  <2> HIDE DEF RowsOK, RowsAt, JournalOK, DecidedOK, HonestOK, LeaseInv
  <2>1. \A v \in Writers : pc'[v] = pc[v] \/ pc'[v] \notin RuntimeSteps \cup RowsBack
    BY <1>6 DEF AbortBlocked, Answer
  <2>2. QED
    BY <1>6, <2>1, RowsKept DEF AbortBlocked, Answer, RowsOK
<1>6a. ASSUME NEW w \in Writers, AbortRetained(w) PROVE RowsOK'
  <2> HIDE DEF RowsOK, RowsAt, JournalOK, DecidedOK, HonestOK, LeaseInv
  <2>1. \A v \in Writers : pc'[v] = pc[v] \/ pc'[v] \notin RuntimeSteps \cup RowsBack
    BY <1>6a DEF AbortRetained, Answer
  <2>2. QED
    BY <1>6a, <2>1, RowsKept DEF AbortRetained, Answer, RowsOK
<1>7. ASSUME NEW w \in Writers, NEW keep \in BOOLEAN, Prepare(w, keep) PROVE RowsOK'
  <2>1. RowsAt(w)'
    <3>1. /\ pc[w] = "locked" /\ pc'[w] = "planned" /\ files' = files
          /\ versions' = versions /\ journal' = journal /\ journalDur' = journalDur
          /\ Path(w)' = Path(w)
      BY <1>7 DEF Prepare
    <3>2. Before(w)' = files[Path(w)]
      BY <1>7 DEF Prepare
    <3>3. /\ plan'[w].rowBefore => /\ plan'[w].versioned
                                  /\ <<Path(w), files[Path(w)].body>> \in versions
          /\ plan'[w].versioned /\ ~plan'[w].rowBefore
               => <<Path(w), files[Path(w)].body>> \notin versions
      <4> HIDE DEF RowsOK, RowsAt, JournalOK, DecidedOK, HonestOK, LeaseInv
      <4> DEFINE old == files[Path(w)]
                 ver == keep /\ old # Absent /\ old.body # req[w].body
      <4>1. plan'[w] = [before |-> old, versioned |-> ver,
                        rowBefore |-> ver /\ <<Path(w), old.body>> \in versions,
                        indexBefore |-> index[Path(w)], created |-> FALSE]
        BY <1>7 DEF Prepare
      <4> HIDE DEF old, ver
      <4>2. /\ plan'[w].versioned = ver
            /\ plan'[w].rowBefore = (ver /\ <<Path(w), old.body>> \in versions)
        BY ONLY <4>1
      <4>3. QED
        BY <4>2 DEF old
    <3>4. Row(w)' = <<Path(w), files[Path(w)].body>>
      BY <3>1, <3>2
    <3>5. QED
      BY <3>1, <3>2, <3>3, <3>4
  <2>2. \A v \in Writers \ {w} : RowsAt(v)'
    <3> HIDE DEF RowsOK, RowsAt, JournalOK, DecidedOK, HonestOK, LeaseInv
    <3> QED  BY <1>7, RowsKept DEF Prepare, RowsOK
  <2>3. QED
    <3> HIDE DEF RowsAt
    <3> QED  BY <2>1, <2>2 DEF RowsOK
<1>8. ASSUME NEW w \in Writers, PublishPrepared(w) PROVE RowsOK'
  BY <1>8 DEF PublishPrepared, NameRecord, SyncRecord, SyncJournal
<1>9. ASSUME NEW w \in Writers, PublishVisible(w) PROVE RowsOK'
  BY <1>9 DEF PublishVisible, SwapStage
<1>10. ASSUME NEW w \in Writers, SyncVisibleFirst(w) PROVE RowsOK'
  BY <1>10 DEF SyncVisibleFirst, SyncFiles, SyncStaging
<1>11. ASSUME NEW w \in Writers, SyncVisibleSecond(w) PROVE RowsOK'
  BY <1>11 DEF SyncVisibleSecond, SyncFiles, SyncStaging
<1>12. ASSUME NEW w \in Writers, PutCAS(w) PROVE RowsOK'
  <2>1. RowsAt(w)'
    <3>1. /\ pc[w] = "visible2" /\ pc'[w] = "stored" /\ req' = req /\ versions' = versions
          /\ journal' = journal /\ journalDur' = journalDur
          /\ journal[w] # {} /\ journalDur[w] # {}
      BY <1>12 DEF PutCAS
    <3>2. /\ plan'[w].before = plan[w].before /\ plan'[w].versioned = plan[w].versioned
          /\ plan'[w].rowBefore = plan[w].rowBefore
      BY <1>12 DEF PutCAS
    <3>3. QED
      BY <3>1, <3>2
  <2>2. \A v \in Writers \ {w} : RowsAt(v)'
    <3> HIDE DEF RowsOK, RowsAt, JournalOK, DecidedOK, HonestOK, LeaseInv
    <3> QED  BY <1>12, RowsKept DEF PutCAS, RowsOK
  <2>3. QED
    <3> HIDE DEF RowsAt
    <3> QED  BY <2>1, <2>2 DEF RowsOK
<1>13. ASSUME NEW w \in Writers, PublishPublished(w) PROVE RowsOK'
  BY <1>13, SMTT(30) DEF PublishPublished, NameRecord, SyncRecord, SyncJournal
<1>14. ASSUME NEW w \in Writers, CommitMetadata(w) PROVE RowsOK'
  BY <1>14 DEF CommitMetadata, RowsAfter
<1>15. ASSUME NEW w \in Writers, PublishCommitted(w) PROVE RowsOK'
  <2>1. CASE NameRecord(w, "metadata", "committed", "committed_named")
    <3>1. RowsAt(w)'
      BY <2>1 DEF NameRecord
    <3>2. \A v \in Writers \ {w} : RowsAt(v)'
      <4> HIDE DEF RowsOK, RowsAt, JournalOK, DecidedOK, HonestOK, LeaseInv
      <4> QED  BY <2>1, RowsKept DEF NameRecord, RowsOK
    <3>3. QED
      <4> HIDE DEF RowsAt
      <4> QED  BY <3>1, <3>2 DEF RowsOK
  <2>2. CASE SyncRecord(w, "committed_named", "finish")
    BY <2>2 DEF SyncRecord, SyncJournal
  <2>3. QED
    BY <1>15, <2>1, <2>2 DEF PublishCommitted
<1>16. ASSUME NEW w \in Writers, StepFails(w) PROVE RowsOK'
  BY <1>16 DEF StepFails
<1>17. ASSUME NEW w \in Writers, Finish(w) PROVE RowsOK'
  BY <1>17 DEF Finish, SyncJournal, Decision, Answer
<1>18. ASSUME NEW w \in Writers, FinishBlocked(w) PROVE RowsOK'
  BY <1>18, SMTT(30) DEF FinishBlocked, BlockGate, Answer
<1>19. ASSUME NEW w \in Writers, NEW old \in SUBSET versions, RetainRows(w, old)
       PROVE  RowsOK'
  BY <1>19 DEF RetainRows
<1>20. ASSUME NEW w \in Writers, NEW failed \in SUBSET Contents,
             NEW skipped \in SUBSET Contents, RetainObjects(w, failed, skipped)
       PROVE  RowsOK'
  BY <1>20 DEF RetainObjects, Answer
<1>21. ASSUME NEW w \in Writers, Inspect(w) PROVE RowsOK'
  BY <1>21 DEF Inspect, Recovering
<1>22. ASSUME NEW w \in Writers, Move(w) PROVE RowsOK'
  BY <1>22 DEF Move, Recovering, SwapStage, MoveFirst, Misplaced
<1>23. ASSUME NEW w \in Writers, SyncMovedFiles(w) PROVE RowsOK'
  BY <1>23 DEF SyncMovedFiles, Recovering, SyncFiles
<1>24. ASSUME NEW w \in Writers, SyncMovedStage(w) PROVE RowsOK'
  BY <1>24 DEF SyncMovedStage, Recovering, SyncStaging
<1>25. ASSUME NEW w \in Writers, RollbackMetadata(w) PROVE RowsOK'
  BY <1>25 DEF RollbackMetadata, Recovering
<1>26. ASSUME NEW w \in Writers, RollbackCAS(w) PROVE RowsOK'
  BY <1>26 DEF RollbackCAS, Recovering
<1>27. ASSUME NEW w \in Writers, EnsureCAS(w) PROVE RowsOK'
  BY <1>27 DEF EnsureCAS, Recovering
<1>28. ASSUME NEW w \in Writers, EnsureMetadata(w) PROVE RowsOK'
  BY <1>28 DEF EnsureMetadata, Recovering, RowsAfter
<1>29. ASSUME NEW w \in Writers, RemoveStage(w) PROVE RowsOK'
  BY <1>29 DEF RemoveStage, Recovering
<1>30. ASSUME NEW w \in Writers, ValidateFinal(w) PROVE RowsOK'
  BY <1>30 DEF ValidateFinal, Recovering
<1>31. ASSUME NEW w \in Writers, RemoveRecord(w) PROVE RowsOK'
  <2>1. RowsAt(w)'
    <3>1. /\ pc[w] = "clean" /\ pc'[w] = "cleaning" /\ req' = req /\ plan' = plan
          /\ versions' = versions /\ files' = files /\ dir' = dir /\ decided' = decided
          /\ journalDur' = journalDur /\ journal'[w] \subseteq journal[w]
          /\ journalDur[w] = journal[w] /\ journal[w] # {}
      BY <1>31 DEF RemoveRecord, Recovering
    <3>2. CASE dir[w] = "back"
      <4>1. files[Path(w)] = Before(w)
        BY <3>1, <3>2 DEF PlaceOK, PlaceAt, Placed
      <4>2. QED
        BY <3>1, <3>2, <4>1
    <3>3. CASE dir[w] = "forward"
      BY <3>1, <3>3
    <3>4. QED
      BY <3>2, <3>3
  <2>2. \A v \in Writers \ {w} : RowsAt(v)'
    <3> HIDE DEF RowsOK, RowsAt, JournalOK, DecidedOK, HonestOK, LeaseInv
    <3> QED  BY <1>31, RowsKept DEF RemoveRecord, Recovering, RowsOK
  <2>3. QED
    <3> HIDE DEF RowsAt
    <3> QED  BY <2>1, <2>2 DEF RowsOK
<1>32. ASSUME NEW w \in Writers, SyncRemoval(w) PROVE RowsOK'
  <2>1. /\ pc[w] = "cleaning" /\ pc'[w] \in {"clean", "gone", "done", "retain"}
        /\ pc'[w] = "clean" <=> journal[w] # {}
        /\ \A v \in Writers \ {w} : journal[v] = {} /\ journalDur[v] = {} /\ pc'[v] = pc[v]
    <3> HIDE DEF TypeOK, LeaseInv, RowsOK, JournalOK, DecidedOK, HonestOK
    <3> QED  BY <1>32, SyncRemovalEffect
  <2>2. QED
    BY <1>32, <2>1 DEF SyncRemoval, SyncJournal
<1>33. ASSUME NEW w \in Writers, RecoveryFails(w) PROVE RowsOK'
  BY <1>33, SMTT(30) DEF RecoveryFails, Recovering, BlockGate, Answer, Lost
<1>34. ASSUME NEW w \in Writers, NEW p \in Paths, NEW c \in Contents, Begin(w, p, c)
       PROVE  RowsOK'
  <2>1. RowsAt(w)'
    <3>1. /\ pc[w] = "idle" /\ pc'[w] = "begun" /\ ~Recorded(w)
          /\ journal' = journal /\ journalDur' = journalDur /\ plan' = plan
      BY <1>34 DEF Begin
    <3>2. ~Hidden(w)' /\ plan[w].rowBefore => plan[w].versioned
      BY <3>1
    <3>3. QED
      BY <3>1, <3>2
  <2>2. \A v \in Writers \ {w} : RowsAt(v)'
    <3> HIDE DEF RowsOK, RowsAt, JournalOK, DecidedOK, HonestOK, LeaseInv
    <3> QED  BY <1>34, RowsKept DEF Begin, RowsOK
  <2>3. QED
    <3> HIDE DEF RowsAt
    <3> QED  BY <2>1, <2>2 DEF RowsOK
<1>35. ASSUME NEW dead \in SUBSET cas, CollectGarbage(dead) PROVE RowsOK'
  BY <1>35 DEF CollectGarbage
<1>36. ASSUME CleanupStaging PROVE RowsOK'
  BY <1>36 DEF CleanupStaging, SyncJournal
<1>37. ASSUME Kill PROVE RowsOK'
  BY <1>37 DEF Kill, Die, Lost
<1>38. ASSUME PowerLoss PROVE RowsOK'
  BY <1>38 DEF PowerLoss, Die, Lost, SyncJournal
<1>39. ASSUME Restart PROVE RowsOK'
  BY <1>39 DEF Restart, SyncJournal, Decision
<1>40. ASSUME StartupDone PROVE RowsOK'
  BY <1>40 DEF StartupDone
<1>41. ASSUME AllServed PROVE RowsOK'
  BY <1>41, ZenonT(60) DEF AllServed, vars
<1>42. ASSUME UNCHANGED vars PROVE RowsOK'
  BY <1>42, ZenonT(60) DEF vars
<1> HIDE DEF TypeOK, LeaseInv, HonestOK, JournalOK, DecidedOK, PlaceOK, RowsOK
<1>43. QED
  BY <1>1, <1>2, <1>3, <1>4, <1>5, <1>6, <1>6a, <1>7, <1>8, <1>9, <1>10, <1>11, <1>12,
     <1>13, <1>14, <1>15, <1>16, <1>17, <1>18, <1>19, <1>20, <1>21, <1>22, <1>23,
     <1>24, <1>25, <1>26, <1>27, <1>28, <1>29, <1>30, <1>31, <1>32, <1>33, <1>34,
     <1>35, <1>36, <1>37, <1>38, <1>39, <1>40, <1>41, <1>42 DEF Next, WriterStep,
     RecoveryStep

\* Every step leaves no dropped row behind its retention pass.
LEMMA DroppedStep == TypeOK /\ LeaseInv /\ DroppedOK /\ [Next]_vars => DroppedOK'
<1> SUFFICES ASSUME TypeOK, LeaseInv, DroppedOK, [Next]_vars PROVE DroppedOK'
  OBVIOUS
<1> USE DEF DroppedOK, LeaseInv, LeaseOK, Recorded, TypeOK, RequestType, RuntimeType,
            JournalType, Goto, Put, Fault, fsVars, jVars, dbVars, reqVars, runVars,
            bound, Path, Before, Admitted, Staging, Locked, RuntimeSteps,
            RecoverySteps, Positions
<1>1. ASSUME NEW w \in Writers, Refuse(w) PROVE DroppedOK'
  BY <1>1 DEF Refuse
<1>2. ASSUME NEW w \in Writers, StageBody(w) PROVE DroppedOK'
  BY <1>2 DEF StageBody
<1>3. ASSUME NEW w \in Writers, SealStage(w) PROVE DroppedOK'
  BY <1>3 DEF SealStage, SyncStaging
<1>4. ASSUME NEW w \in Writers, BeginMutation(w) PROVE DroppedOK'
  BY <1>4 DEF BeginMutation
<1>5. ASSUME NEW w \in Writers, Abort(w) PROVE DroppedOK'
  BY <1>5 DEF Abort, Answer
<1>6. ASSUME NEW w \in Writers, AbortBlocked(w) PROVE DroppedOK'
  BY <1>6 DEF AbortBlocked, Answer
<1>6a. ASSUME NEW w \in Writers, AbortRetained(w) PROVE DroppedOK'
  BY <1>6a DEF AbortRetained, Answer
<1>7. ASSUME NEW w \in Writers, NEW keep \in BOOLEAN, Prepare(w, keep) PROVE DroppedOK'
  BY <1>7 DEF Prepare
<1>8. ASSUME NEW w \in Writers, PublishPrepared(w) PROVE DroppedOK'
  BY <1>8 DEF PublishPrepared, NameRecord, SyncRecord, SyncJournal
<1>9. ASSUME NEW w \in Writers, PublishVisible(w) PROVE DroppedOK'
  BY <1>9 DEF PublishVisible, SwapStage
<1>10. ASSUME NEW w \in Writers, SyncVisibleFirst(w) PROVE DroppedOK'
  BY <1>10 DEF SyncVisibleFirst, SyncFiles, SyncStaging
<1>11. ASSUME NEW w \in Writers, SyncVisibleSecond(w) PROVE DroppedOK'
  BY <1>11 DEF SyncVisibleSecond, SyncFiles, SyncStaging
<1>12. ASSUME NEW w \in Writers, PutCAS(w) PROVE DroppedOK'
  BY <1>12 DEF PutCAS
<1>13. ASSUME NEW w \in Writers, PublishPublished(w) PROVE DroppedOK'
  BY <1>13 DEF PublishPublished, NameRecord, SyncRecord, SyncJournal
<1>14. ASSUME NEW w \in Writers, CommitMetadata(w) PROVE DroppedOK'
  BY <1>14 DEF CommitMetadata, RowsAfter
<1>15. ASSUME NEW w \in Writers, PublishCommitted(w) PROVE DroppedOK'
  BY <1>15 DEF PublishCommitted, NameRecord, SyncRecord, SyncJournal
<1>16. ASSUME NEW w \in Writers, StepFails(w) PROVE DroppedOK'
  BY <1>16 DEF StepFails
<1>17. ASSUME NEW w \in Writers, Finish(w) PROVE DroppedOK'
  BY <1>17 DEF Finish, SyncJournal, Decision, Answer
<1>18. ASSUME NEW w \in Writers, FinishBlocked(w) PROVE DroppedOK'
  BY <1>18 DEF FinishBlocked, BlockGate, Answer
<1>19. ASSUME NEW w \in Writers, NEW old \in SUBSET versions, RetainRows(w, old)
       PROVE  DroppedOK'
  BY <1>19 DEF RetainRows
<1>20. ASSUME NEW w \in Writers, NEW failed \in SUBSET Contents,
             NEW skipped \in SUBSET Contents, RetainObjects(w, failed, skipped)
       PROVE  DroppedOK'
  BY <1>20 DEF RetainObjects, Answer
<1>21. ASSUME NEW w \in Writers, Inspect(w) PROVE DroppedOK'
  BY <1>21 DEF Inspect, Recovering
<1>22. ASSUME NEW w \in Writers, Move(w) PROVE DroppedOK'
  BY <1>22 DEF Move, Recovering, SwapStage, MoveFirst, Misplaced
<1>23. ASSUME NEW w \in Writers, SyncMovedFiles(w) PROVE DroppedOK'
  BY <1>23 DEF SyncMovedFiles, Recovering, SyncFiles
<1>24. ASSUME NEW w \in Writers, SyncMovedStage(w) PROVE DroppedOK'
  BY <1>24 DEF SyncMovedStage, Recovering, SyncStaging
<1>25. ASSUME NEW w \in Writers, RollbackMetadata(w) PROVE DroppedOK'
  BY <1>25 DEF RollbackMetadata, Recovering
<1>26. ASSUME NEW w \in Writers, RollbackCAS(w) PROVE DroppedOK'
  BY <1>26 DEF RollbackCAS, Recovering
<1>27. ASSUME NEW w \in Writers, EnsureCAS(w) PROVE DroppedOK'
  BY <1>27 DEF EnsureCAS, Recovering
<1>28. ASSUME NEW w \in Writers, EnsureMetadata(w) PROVE DroppedOK'
  BY <1>28 DEF EnsureMetadata, Recovering, RowsAfter
<1>29. ASSUME NEW w \in Writers, RemoveStage(w) PROVE DroppedOK'
  BY <1>29 DEF RemoveStage, Recovering
<1>30. ASSUME NEW w \in Writers, ValidateFinal(w) PROVE DroppedOK'
  BY <1>30 DEF ValidateFinal, Recovering
<1>31. ASSUME NEW w \in Writers, RemoveRecord(w) PROVE DroppedOK'
  BY <1>31 DEF RemoveRecord, Recovering, NextRemoved
<1>32. ASSUME NEW w \in Writers, SyncRemoval(w) PROVE DroppedOK'
  BY <1>32 DEF SyncRemoval, Recovering, SyncJournal, Answer
<1>33. ASSUME NEW w \in Writers, RecoveryFails(w) PROVE DroppedOK'
  BY <1>33 DEF RecoveryFails, Recovering, BlockGate, Answer, Lost
<1>34. ASSUME NEW w \in Writers, NEW p \in Paths, NEW c \in Contents, Begin(w, p, c)
       PROVE  DroppedOK'
  BY <1>34 DEF Begin
<1>35. ASSUME NEW dead \in SUBSET cas, CollectGarbage(dead) PROVE DroppedOK'
  BY <1>35 DEF CollectGarbage
<1>36. ASSUME CleanupStaging PROVE DroppedOK'
  BY <1>36 DEF CleanupStaging, SyncJournal
<1>37. ASSUME Kill PROVE DroppedOK'
  BY <1>37 DEF Kill, Die, Lost
<1>38. ASSUME PowerLoss PROVE DroppedOK'
  BY <1>38 DEF PowerLoss, Die, Lost, SyncJournal
<1>39. ASSUME Restart PROVE DroppedOK'
  BY <1>39 DEF Restart, SyncJournal, Decision
<1>40. ASSUME StartupDone PROVE DroppedOK'
  BY <1>40 DEF StartupDone
<1>41. ASSUME AllServed PROVE DroppedOK'
  BY <1>41 DEF AllServed, vars
<1>42. ASSUME UNCHANGED vars PROVE DroppedOK'
  BY <1>42 DEF vars
<1> HIDE DEF TypeOK, LeaseInv, DroppedOK
<1>43. QED
  BY <1>1, <1>2, <1>3, <1>4, <1>5, <1>6, <1>6a, <1>7, <1>8, <1>9, <1>10, <1>11, <1>12,
     <1>13, <1>14, <1>15, <1>16, <1>17, <1>18, <1>19, <1>20, <1>21, <1>22, <1>23,
     <1>24, <1>25, <1>26, <1>27, <1>28, <1>29, <1>30, <1>31, <1>32, <1>33, <1>34,
     <1>35, <1>36, <1>37, <1>38, <1>39, <1>40, <1>41, <1>42 DEF Next, WriterStep,
     RecoveryStep

\* Everything the mapping rests on.
RefInv == SafeInv /\ PlanOK /\ RowsOK /\ DroppedOK

-----------------------------------------------------------------------------
(* The mapping in closed form                                              *)

\* The row an undecided operation may have added, and the one a decided one owes.
Early(w) == IF plan[w].versioned /\ ~plan[w].rowBefore THEN {Row(w)} ELSE {}
Owed(w) == IF plan[w].versioned THEN {Row(w)} ELSE {}

\* The one operation with a durable record decides what its path and its row stand for.
LEMMA ViewPending ==
    RefInv => \A v \in Writers : journalDur[v] # {} =>
        /\ v \notin decided => /\ AbsContent = [files EXCEPT ![Path(v)] = Before(v)]
                               /\ AbsHistory = versions \ Early(v)
        /\ v \in decided => AbsContent = files /\ AbsHistory = versions \cup Owed(v)
<1> SUFFICES ASSUME RefInv, NEW w \in Writers, journalDur[w] # {}
             PROVE  /\ w \notin decided
                         => /\ AbsContent = [files EXCEPT ![Path(w)] = Before(w)]
                            /\ AbsHistory = versions \ Early(w)
                    /\ w \in decided
                         => AbsContent = files /\ AbsHistory = versions \cup Owed(w)
  OBVIOUS
<1>1. \A v \in Writers : Pending(v) <=> v = w
  BY DEF RefInv, SafeInv, LeaseInv, Exclusive, Busy, Recorded, Pending
<1>2. Path(w) \in Paths /\ files \in [Paths -> Objects \cup {Absent}]
  BY DEF RefInv, SafeInv, TypeOK, RequestType, FsType
<1>3. w \in decided => files[Path(w)] = After(w)
  BY DEF RefInv, SafeInv, DecidedOK, PlaceOK, PlaceAt
<1>4. ASSUME NEW p \in Paths
      PROVE  AbsContent[p] = IF p = Path(w)
                             THEN IF w \in decided THEN After(w) ELSE Before(w)
                             ELSE files[p]
  <2>1. CASE p = Path(w)
    <3>1. (CHOOSE v \in Writers : Pending(v) /\ Path(v) = p) = w
      BY <1>1, <2>1
    <3>2. \E v \in Writers : Pending(v) /\ Path(v) = p
      BY <1>1, <2>1
    <3>3. QED
      BY <2>1, <3>1, <3>2 DEF AbsContent
  <2>2. CASE p # Path(w)
    BY <1>1, <2>2 DEF AbsContent
  <2>3. QED
    BY <2>1, <2>2
<1>5. w \notin decided => AbsContent = [files EXCEPT ![Path(w)] = Before(w)]
  BY <1>2, <1>4 DEF AbsContent
<1>6. w \in decided => AbsContent = files
  BY <1>2, <1>3, <1>4 DEF AbsContent
<1>7. \A v \in Writers : dropped[v] = {}
  BY DEF RefInv, SafeInv, DroppedOK, LeaseInv, Exclusive, Busy, Recorded, RecordsOK,
         Clean, Locked
<1>8. UNION {dropped[v] : v \in Writers} = {}
  BY <1>7
<1>9. {Row(v) : v \in {u \in Writers : Pending(u) /\ plan[u].versioned /\ u \in decided}}
        = IF w \in decided THEN Owed(w) ELSE {}
  BY <1>1 DEF Owed
<1>10. {Row(v) : v \in {u \in Writers : Pending(u) /\ plan[u].versioned
                                         /\ u \notin decided /\ ~plan[u].rowBefore}}
        = IF w \in decided THEN {} ELSE Early(w)
  BY <1>1 DEF Early
<1>11. /\ w \notin decided => AbsHistory = versions \ Early(w)
       /\ w \in decided => AbsHistory = versions \cup Owed(w)
  BY <1>8, <1>9, <1>10 DEF AbsHistory
<1>12. QED
  BY <1>5, <1>6, <1>11

\* Without a durable record the files and the rows stand for themselves.
LEMMA ViewSettled ==
    RefInv /\ (\A v \in Writers : journalDur[v] = {}) =>
        /\ AbsContent = files
        /\ AbsHistory = versions \cup UNION {dropped[v] : v \in Writers}
<1> SUFFICES ASSUME RefInv, \A w \in Writers : journalDur[w] = {}
             PROVE  /\ AbsContent = files
                    /\ AbsHistory = versions \cup UNION {dropped[w] : w \in Writers}
  OBVIOUS
<1>1. \A w \in Writers : ~Pending(w)
  BY DEF Pending
<1>2. AbsContent = files
  BY <1>1 DEF AbsContent, RefInv, SafeInv, TypeOK, FsType
<1>3. {u \in Writers : Pending(u) /\ plan[u].versioned /\ u \in decided} = {}
  BY <1>1
<1>4. {u \in Writers : Pending(u) /\ plan[u].versioned
                        /\ u \notin decided /\ ~plan[u].rowBefore} = {}
  BY <1>1
<1>5. QED
  BY <1>2, <1>3, <1>4 DEF AbsHistory

\* The same in the next state.
LEMMA ViewPendingNext ==
    (RefInv => \A v \in Writers : journalDur[v] # {} =>
        /\ v \notin decided => /\ AbsContent = [files EXCEPT ![Path(v)] = Before(v)]
                               /\ AbsHistory = versions \ Early(v)
        /\ v \in decided => AbsContent = files /\ AbsHistory = versions \cup Owed(v))'
BY ViewPending, PTL

LEMMA ViewSettledNext ==
    (RefInv /\ (\A v \in Writers : journalDur[v] = {}) =>
        /\ AbsContent = files
        /\ AbsHistory = versions \cup UNION {dropped[v] : v \in Writers})'
BY ViewSettled, PTL

\* A step that changes no row, no file outside an unsettled operation, and of the
\* durable records at most makes the visible ones durable.
Syncs ==
    /\ \A v \in Writers : Recorded(v) =>
          /\ req'[v] = req[v] /\ plan'[v].before = plan[v].before
          /\ plan'[v].versioned = plan[v].versioned
          /\ plan'[v].rowBefore = plan[v].rowBefore
    /\ versions' = versions
    /\ \A p \in Paths : \/ files'[p] = files[p]
                        \/ \E v \in Writers : Unsettled(v) /\ Path(v) = p
    /\ journalDur' \in {journal, journalDur}
    /\ decided' = decided \cup {v \in Writers : "committed" \in journalDur'[v]}
    /\ dropped' \in {dropped, [v \in Writers |-> {}]}

\* One request's write takes effect in the view.
Decides(w) ==
    /\ w \notin decided /\ Recorded(w) /\ decided' = decided \cup {w}
    /\ AbsContent[Path(w)] = Before(w)
    /\ AbsContent' = [AbsContent EXCEPT ![Path(w)] = After(w)]
    /\ AbsHistory' = AbsHistory \cup Owed(w)

\* Nothing takes effect; rows may go.
Settles ==
    /\ decided' = decided /\ AbsContent' = AbsContent /\ AbsHistory' \subseteq AbsHistory
    /\ (/\ dropped' = dropped
        /\ \A v \in decided : journalDur[v] # {} => journalDur'[v] # {})
         => AbsHistory' = AbsHistory

\* Whatever such a step makes durable, at most one write takes effect, and it does so on
\* the file and the rows its plan was made of.
LEMMA ViewSync ==
    ASSUME RefInv, RefInv', Syncs
    PROVE  Settles \/ \E w \in Writers : Decides(w)
<1>1. \A v \in Writers : journalDur'[v] # {} =>
        /\ v \notin decided' => /\ AbsContent' = [files' EXCEPT ![Path(v)'] = Before(v)']
                                /\ AbsHistory' = versions' \ Early(v)'
        /\ v \in decided' => AbsContent' = files' /\ AbsHistory' = versions' \cup Owed(v)'
  BY ViewPendingNext
<1>2. (\A v \in Writers : journalDur'[v] = {}) =>
        /\ AbsContent' = files'
        /\ AbsHistory' = versions' \cup UNION {dropped'[v] : v \in Writers}
  BY ViewSettledNext
<1>3. /\ files \in [Paths -> Objects \cup {Absent}] /\ decided \in SUBSET Writers
      /\ files' \in [Paths -> Objects \cup {Absent}] /\ decided' \in SUBSET Writers
      /\ journal \in [Writers -> SUBSET Checkpoints]
      /\ journalDur \in [Writers -> SUBSET Checkpoints]
      /\ dropped \in [Writers -> SUBSET Rows] /\ dropped' \in [Writers -> SUBSET Rows]
  BY DEF RefInv, SafeInv, TypeOK, FsType, JournalType, RuntimeType
<1>4. \A v \in Writers :
          v \in decided' <=> v \in decided \/ "committed" \in journalDur'[v]
  BY <1>3 DEF Syncs
<1>5. \A v \in Writers : ~Recorded(v) => journalDur[v] = {} /\ journalDur'[v] = {}
  BY DEF Syncs, Recorded
<1>6. CASE \A v \in Writers : ~Recorded(v)
  <2>1. files' = files
    BY <1>3, <1>5, <1>6 DEF Syncs, Unsettled
  <2>2. decided' = decided
    BY <1>3, <1>4, <1>5, <1>6
  <2>3. /\ AbsContent' = files' /\ AbsContent = files
        /\ AbsHistory = versions \cup UNION {dropped[w] : w \in Writers}
        /\ AbsHistory' = versions' \cup UNION {dropped'[w] : w \in Writers}
    BY <1>2, <1>5, <1>6, ViewSettled
  <2>4. UNION {dropped'[w] : w \in Writers} \subseteq UNION {dropped[w] : w \in Writers}
    BY DEF Syncs
  <2>5. QED
    BY <2>1, <2>2, <2>3, <2>4 DEF Settles, Syncs
<1>7. ASSUME NEW w \in Writers, Recorded(w)
      PROVE  Settles \/ Decides(w)
  <2>1. \A v \in Writers \ {w} : ~Recorded(v)
    BY <1>7 DEF RefInv, SafeInv, LeaseInv, Exclusive, Busy
  <2>2. \A v \in Writers : dropped[v] = {} /\ dropped'[v] = {}
    <3>1. \A v \in Writers : dropped[v] = {}
      BY <1>7 DEF RefInv, SafeInv, DroppedOK, LeaseInv, Exclusive, Busy, Recorded,
                  RecordsOK, Clean, Locked
    <3>2. QED
      BY <1>3, <3>1 DEF Syncs
  <2>3. /\ UNION {dropped[v] : v \in Writers} = {}
        /\ UNION {dropped'[v] : v \in Writers} = {}
    BY <2>2
  <2>4. /\ Path(w)' = Path(w) /\ Before(w)' = Before(w) /\ After(w)' = After(w)
        /\ Early(w)' = Early(w) /\ Owed(w)' = Owed(w) /\ Path(w) \in Paths
    BY <1>7 DEF Syncs, Path, Before, After, Early, Owed, Row, RefInv, SafeInv, TypeOK,
                RequestType, Recorded
  <2>5. \A p \in Paths : p # Path(w) \/ ~Unsettled(w) => files'[p] = files[p]
    BY <2>1 DEF Syncs, Unsettled, Recorded
  <2>6. \A v \in Writers \ {w} : v \in decided' <=> v \in decided
    BY <1>4, <1>5, <2>1
  <2>7. CASE journalDur[w] = {} /\ journalDur'[w] = {}
    <3>1. files' = files /\ decided' = decided
      BY <1>3, <1>4, <2>5, <2>6, <2>7 DEF Unsettled
    <3>2. \A v \in Writers : journalDur[v] = {} /\ journalDur'[v] = {}
      BY <1>5, <2>1, <2>7
    <3>3. AbsContent' = files' /\ AbsContent = files
      BY <1>2, <3>2, ViewSettled
    <3>4. AbsHistory = versions /\ AbsHistory' = versions
      BY <1>2, <2>3, <3>2, ViewSettled DEF Syncs
    <3>5. QED
      BY <3>1, <3>3, <3>4 DEF Settles
  <2>8. CASE journalDur[w] = {} /\ journalDur'[w] # {}
    <3>1. journalDur'[w] = journal[w] /\ journal[w] # {} /\ "committed" \notin journal[w]
      BY <2>8 DEF Syncs, RefInv, RowsOK, RowsAt
    <3>2. w \notin decided /\ decided' = decided
      BY <1>3, <1>4, <2>6, <3>1 DEF RefInv, SafeInv, DecidedOK
    <3>3. Hidden(w)
      BY <1>7, <2>8, <3>2 DEF Hidden
    <3>4. files[Path(w)] = Before(w) /\ Early(w) \cap versions = {}
      BY <3>3 DEF RefInv, RowsOK, RowsAt, Early
    <3>5. files' = files
      BY <1>3, <2>5, <2>8 DEF Unsettled
    <3>6. /\ AbsContent' = [files' EXCEPT ![Path(w)] = Before(w)]
          /\ AbsHistory' = versions \ Early(w)
      BY <1>1, <2>4, <2>8, <3>2 DEF Syncs
    <3>7. \A v \in Writers : journalDur[v] = {}
      BY <1>5, <2>1, <2>8
    <3>8. AbsContent = files /\ AbsHistory = versions
      BY <2>3, <3>7, ViewSettled
    <3>9. AbsContent' = AbsContent
      BY <1>3, <3>4, <3>5, <3>6, <3>8
    <3>10. AbsHistory' = AbsHistory
      BY <3>4, <3>6, <3>8
    <3>11. QED
      BY <3>2, <3>9, <3>10 DEF Settles
  <2>9. CASE journalDur[w] # {} /\ journalDur'[w] = {}
    <3>1. files' = files /\ decided' = decided
      BY <1>3, <1>4, <2>5, <2>6, <2>9 DEF Unsettled, Syncs
    <3>2. \A v \in Writers : journalDur'[v] = {}
      BY <1>5, <2>1, <2>9
    <3>3. AbsContent' = files /\ AbsHistory' = versions
      BY <1>2, <2>3, <3>1, <3>2 DEF Syncs
    <3>4. CASE w \in decided
      <4>1. AbsContent = files /\ AbsHistory = versions \cup Owed(w)
        BY <2>9, <3>4, ViewPending
      <4>2. QED
        BY <2>9, <3>1, <3>3, <3>4, <4>1 DEF Settles
    <3>5. CASE w \notin decided
      <4>1. Hidden(w)
        BY <1>7, <2>9, <3>5 DEF Hidden, Syncs
      <4>2. files[Path(w)] = Before(w) /\ Early(w) \cap versions = {}
        BY <4>1 DEF RefInv, RowsOK, RowsAt, Early
      <4>3. AbsContent = [files EXCEPT ![Path(w)] = Before(w)]
             /\ AbsHistory = versions \ Early(w)
        BY <2>9, <3>5, ViewPending
      <4>4. AbsContent' = AbsContent
        BY <1>3, <3>3, <4>2, <4>3
      <4>5. AbsHistory' = AbsHistory
        BY <3>3, <4>2, <4>3
      <4>6. QED
        BY <3>1, <4>4, <4>5 DEF Settles
    <3>6. QED
      BY <3>4, <3>5
  <2>10. CASE journalDur[w] # {} /\ journalDur'[w] # {}
    <3>1. CASE w \in decided
      <4>1. w \in decided' /\ decided' = decided
        BY <1>3, <1>4, <2>6, <3>1
      <4>2. files[Path(w)] = After(w) /\ files'[Path(w)] = After(w)
        BY <2>4, <2>10, <3>1, <4>1 DEF RefInv, SafeInv, DecidedOK, PlaceOK, PlaceAt
      <4>3. files' = files
        BY <1>3, <2>5, <4>2
      <4>4. AbsContent = files /\ AbsHistory = versions \cup Owed(w)
        BY <2>10, <3>1, ViewPending
      <4>5. AbsContent' = files' /\ AbsHistory' = versions \cup Owed(w)
        BY <1>1, <2>4, <2>10, <4>1 DEF Syncs
      <4>6. QED
        BY <4>1, <4>3, <4>4, <4>5 DEF Settles
    <3>2. CASE w \notin decided
      <4>1. AbsContent = [files EXCEPT ![Path(w)] = Before(w)]
             /\ AbsHistory = versions \ Early(w)
        BY <2>10, <3>2, ViewPending
      <4>2. CASE w \notin decided'
        <5>1. decided' = decided
          BY <1>3, <2>6, <3>2, <4>2
        <5>2. AbsContent' = [files' EXCEPT ![Path(w)] = Before(w)]
               /\ AbsHistory' = versions \ Early(w)
          BY <1>1, <2>4, <2>10, <4>2 DEF Syncs
        <5>3. AbsContent' = AbsContent
          BY <1>3, <2>5, <4>1, <5>2
        <5>4. QED
          BY <4>1, <5>1, <5>2, <5>3 DEF Settles
      <4>3. CASE w \in decided'
        <5>1. decided' = decided \cup {w}
          BY <1>3, <2>6, <4>3
        <5>2. files'[Path(w)] = After(w)
          BY <2>4, <2>10, <4>3 DEF RefInv, SafeInv, DecidedOK, PlaceOK, PlaceAt
        <5>3. AbsContent' = files' /\ AbsHistory' = versions \cup Owed(w)
          BY <1>1, <2>4, <2>10, <4>3 DEF Syncs
        <5>4. AbsContent[Path(w)] = Before(w)
          BY <1>3, <2>4, <4>1
        <5>5. AbsContent' = [AbsContent EXCEPT ![Path(w)] = After(w)]
          BY <1>3, <2>4, <2>5, <4>1, <5>2, <5>3
        <5>6. Early(w) \subseteq Owed(w)
          BY DEF Early, Owed
        <5>7. AbsHistory' = AbsHistory \cup Owed(w)
          BY <4>1, <5>3, <5>6
        <5>8. QED
          BY <1>7, <3>2, <5>1, <5>4, <5>5, <5>7 DEF Decides
      <4>4. QED
        BY <4>2, <4>3
    <3>3. QED
      BY <3>1, <3>2
  <2>11. QED
    BY <2>7, <2>8, <2>9, <2>10
<1>8. QED
  BY <1>6, <1>7

-----------------------------------------------------------------------------
(* From the view to the atomic store                                       *)

\* A step that leaves the requests and their errors alone and syncs at most the journal
\* commits one write or lets rows expire.
LEMMA SyncedStep ==
    ASSUME RefInv, RefInv', Syncs, req' = req,
           \A v \in Writers : /\ pc'[v] = "idle" <=> pc[v] = "idle"
                              /\ resp'[v] = "error" <=> resp[v] = "error"
    PROVE  Abstract!Next
<1>1. CASE Settles
  <2>1. AbsStatus' = AbsStatus
    BY <1>1 DEF Settles, AbsStatus
  <2>2. Abstract!Expire
    BY <1>1, <2>1 DEF Settles, Abstract!Expire
  <2>3. QED
    BY <2>2 DEF Abstract!Next
<1>2. ASSUME NEW w \in Writers, Decides(w) PROVE Abstract!Next
  <2>1. pc[w] # "idle" /\ resp[w] # "error"
    BY <1>2 DEF Decides, RefInv, SafeInv, LeaseInv, RecordsOK, HonestOK, Clean
  <2>2. /\ Before(w) = req[w].snap
        /\ Owed(w) # {} => Owed(w) = {Row(w)} /\ Before(w) # Absent
    BY <1>2 DEF Decides, Owed, RefInv, SafeInv, PlannedOK, Planned, PlanOK, Before
  <2>3. AbsStatus[w] = "open"
    BY <1>2, <2>1 DEF Decides, AbsStatus
  <2>4. AbsStatus' = [AbsStatus EXCEPT ![w] = "committed"]
    BY <1>2 DEF Decides, AbsStatus
  <2>5. AbsHistory' = AbsHistory
        \/ (/\ req[w].snap # Absent
            /\ AbsHistory' = AbsHistory \cup {<<req[w].path, req[w].snap.body>>})
    BY <1>2, <2>2 DEF Decides, Row, Path
  <2>6. Abstract!Commit(w)
    BY <1>2, <2>2, <2>3, <2>4, <2>5 DEF Decides, Abstract!Commit, Path, After
  <2>7. QED
    BY <2>6 DEF Abstract!Next
<1>3. QED
  BY <1>1, <1>2, ViewSync

\* An error answer to an undecided request is its failure in the atomic store.
LEMMA FailedStep ==
    ASSUME RefInv, RefInv', Syncs, NEW w \in Writers, req' = req, dropped' = dropped,
           decided' = decided, w \notin decided, resp[w] # "error", resp'[w] = "error",
           \A v \in decided : journalDur[v] # {} => journalDur'[v] # {},
           \A v \in Writers \ {w} : /\ pc'[v] = "idle" <=> pc[v] = "idle"
                                    /\ resp'[v] = "error" <=> resp[v] = "error"
    PROVE  Abstract!Next
<1>1. Settles
  BY ViewSync DEF Decides
<1>2. AbsContent' = AbsContent /\ AbsHistory' = AbsHistory
  BY <1>1 DEF Settles
<1>3. AbsStatus[w] \in {"new", "open"}
  BY DEF AbsStatus
<1>4. AbsStatus' = [AbsStatus EXCEPT ![w] = "failed"]
  BY DEF AbsStatus
<1>5. Abstract!Fail(w)
  BY <1>2, <1>3, <1>4 DEF Abstract!Fail
<1>6. QED
  BY <1>5 DEF Abstract!Next

\* A change of rows that the view of the one pending operation hides.
LEMMA RowsHidden ==
    ASSUME RefInv, RefInv', NEW w \in Writers, journalDur[w] # {},
           files' = files, journalDur' = journalDur, decided' = decided,
           req' = req, plan' = plan, pc[w] # "idle", pc'[w] # "idle", resp' = resp,
           \A v \in Writers \ {w} : pc'[v] = pc[v],
           w \notin decided => versions' \ Early(w) = versions \ Early(w),
           w \in decided => versions' \cup Owed(w) = versions \cup Owed(w)
    PROVE  Abstract!Next
<1>1. \A v \in Writers : journalDur'[v] # {} =>
        /\ v \notin decided' => /\ AbsContent' = [files' EXCEPT ![Path(v)'] = Before(v)']
                                /\ AbsHistory' = versions' \ Early(v)'
        /\ v \in decided' => AbsContent' = files' /\ AbsHistory' = versions' \cup Owed(v)'
  BY ViewPendingNext
<1>2. /\ Path(w)' = Path(w) /\ Before(w)' = Before(w)
      /\ Early(w)' = Early(w) /\ Owed(w)' = Owed(w)
  BY DEF Path, Before, Early, Owed, Row
<1>3. AbsContent' = AbsContent /\ AbsHistory' = AbsHistory
  BY <1>1, <1>2, ViewPending
<1>4. AbsStatus' = AbsStatus
  BY DEF AbsStatus
<1>5. Abstract!Expire
  BY <1>3, <1>4 DEF Abstract!Expire
<1>6. QED
  BY <1>5 DEF Abstract!Next

\* Retention works while no operation is on record; the rows it has dropped and not
\* yet given up still count.
LEMMA RetainedStep ==
    ASSUME RefInv, RefInv', NEW w \in Writers, pc[w] \in {"retain", "retain_objects"},
           files' = files, journalDur' = journalDur, decided' = decided, req' = req,
           pc'[w] # "idle", \A v \in Writers \ {w} : pc'[v] = pc[v] /\ resp'[v] = resp[v],
           versions' \cup UNION {dropped'[v] : v \in Writers}
             \subseteq versions \cup UNION {dropped[v] : v \in Writers}
    PROVE  Abstract!Next
<1>1. (\A v \in Writers : journalDur'[v] = {}) =>
        /\ AbsContent' = files'
        /\ AbsHistory' = versions' \cup UNION {dropped'[v] : v \in Writers}
  BY ViewSettledNext
<1>2. \A v \in Writers : journalDur[v] = {}
  BY DEF RefInv, SafeInv, LeaseInv, Exclusive, Busy, Recorded, RecordsOK, Clean, Locked
<1>3. AbsContent' = AbsContent /\ AbsHistory' \subseteq AbsHistory
  BY <1>1, <1>2, ViewSettled
<1>4. w \in decided
  BY DEF RefInv, SafeInv, HonestOK
<1>5. AbsStatus' = AbsStatus
  BY <1>4 DEF AbsStatus
<1>6. Abstract!Expire
  BY <1>3, <1>5 DEF Abstract!Expire
<1>7. QED
  BY <1>6 DEF Abstract!Next

\* A step that leaves files, rows and durable records alone.
LEMMA StillSyncs ==
    ASSUME RefInv, versions' = versions, files' = files, journalDur' = journalDur,
           decided' = decided, dropped' \in {dropped, [v \in Writers |-> {}]},
           \A v \in Writers : Recorded(v) =>
              /\ req'[v] = req[v] /\ plan'[v].before = plan[v].before
              /\ plan'[v].versioned = plan[v].versioned
              /\ plan'[v].rowBefore = plan[v].rowBefore
    PROVE  Syncs
<1>1. {v \in Writers : "committed" \in journalDur[v]} \subseteq decided
  BY DEF RefInv, SafeInv, DecidedOK
<1>2. QED
  BY <1>1 DEF Syncs

\* Naming a record changes nothing yet; syncing it may decide.
LEMMA NamedStep ==
    ASSUME RefInv, RefInv', NEW w \in Writers, NEW at, NEW cp, NEW to,
           NameRecord(w, at, cp, to), at # "idle", to # "idle"
    PROVE  Abstract!Next
<1>1. Syncs
  BY StillSyncs DEF NameRecord, fsVars, dbVars, reqVars, runVars
<1>2. /\ req' = req
      /\ \A v \in Writers : /\ pc'[v] = "idle" <=> pc[v] = "idle"
                            /\ resp'[v] = "error" <=> resp[v] = "error"
  BY DEF NameRecord, Goto, reqVars, runVars, RefInv, SafeInv, TypeOK, RequestType
<1>3. QED
  BY <1>1, <1>2, SyncedStep

LEMMA RecordedStep ==
    ASSUME RefInv, RefInv', NEW w \in Writers, NEW at, NEW to,
           SyncRecord(w, at, to), at # "idle", to # "idle"
    PROVE  Abstract!Next
<1>1. Syncs
  BY DEF SyncRecord, SyncJournal, Syncs, fsVars, dbVars, reqVars, runVars
<1>2. /\ req' = req
      /\ \A v \in Writers : /\ pc'[v] = "idle" <=> pc[v] = "idle"
                            /\ resp'[v] = "error" <=> resp[v] = "error"
  BY DEF SyncRecord, Goto, reqVars, runVars, RefInv, SafeInv, TypeOK, RequestType
<1>3. QED
  BY <1>1, <1>2, SyncedStep

\* Every step of the write path is a step of the atomic store, or none of its steps.
LEMMA RefinesStep == RefInv /\ RefInv' /\ [Next]_vars => Abstract!Next
<1> SUFFICES ASSUME RefInv, RefInv', [Next]_vars PROVE Abstract!Next
  OBVIOUS
<1> /\ TypeOK /\ LeaseInv /\ HonestOK /\ JournalOK /\ DecidedOK /\ StepOK /\ RowsOK
  BY DEF RefInv, SafeInv
<1> USE DEF FsType, TypeOK, RequestType, RuntimeType, JournalType, Goto, Put, Fault,
            fsVars, jVars, dbVars, reqVars, runVars, bound, Path, Before, Admitted,
            Staging, Locked, RuntimeSteps, RecoverySteps, Positions
<1>1. ASSUME NEW w \in Writers, Refuse(w) PROVE Abstract!Next
  <2>1. Syncs
    BY <1>1, StillSyncs DEF Refuse
  <2>2. /\ req' = req /\ dropped' = dropped /\ decided' = decided
        /\ w \notin decided /\ resp[w] # "error" /\ resp'[w] = "error"
        /\ journalDur' = journalDur
        /\ \A v \in Writers \ {w} : /\ pc'[v] = "idle" <=> pc[v] = "idle"
                                    /\ resp'[v] = "error" <=> resp[v] = "error"
    BY <1>1 DEF Refuse, HonestOK, Uncommitted
  <2>3. QED
    BY <2>1, <2>2, FailedStep
<1>2. ASSUME NEW w \in Writers, StageBody(w) PROVE Abstract!Next
  <2>1. Syncs
    BY <1>2, StillSyncs DEF StageBody
  <2>2. /\ req' = req
        /\ \A v \in Writers : /\ pc'[v] = "idle" <=> pc[v] = "idle"
                              /\ resp'[v] = "error" <=> resp[v] = "error"
    BY <1>2 DEF StageBody
  <2>3. QED
    BY <2>1, <2>2, SyncedStep
<1>3. ASSUME NEW w \in Writers, SealStage(w) PROVE Abstract!Next
  <2>1. Syncs
    BY <1>3, StillSyncs DEF SealStage, SyncStaging
  <2>2. /\ req' = req
        /\ \A v \in Writers : /\ pc'[v] = "idle" <=> pc[v] = "idle"
                              /\ resp'[v] = "error" <=> resp[v] = "error"
    BY <1>3 DEF SealStage, SyncStaging
  <2>3. QED
    BY <2>1, <2>2, SyncedStep
<1>4. ASSUME NEW w \in Writers, BeginMutation(w) PROVE Abstract!Next
  <2>1. Syncs
    BY <1>4, StillSyncs DEF BeginMutation
  <2>2. /\ req' = req
        /\ \A v \in Writers : /\ pc'[v] = "idle" <=> pc[v] = "idle"
                              /\ resp'[v] = "error" <=> resp[v] = "error"
    BY <1>4 DEF BeginMutation
  <2>3. QED
    BY <2>1, <2>2, SyncedStep
<1>5. ASSUME NEW w \in Writers, Abort(w) PROVE Abstract!Next
  <2>1. Syncs
    BY <1>5, StillSyncs DEF Abort, Answer
  <2>2. /\ req' = req /\ dropped' = dropped /\ decided' = decided
        /\ w \notin decided /\ resp[w] # "error" /\ resp'[w] = "error"
        /\ journalDur' = journalDur
        /\ \A v \in Writers \ {w} : /\ pc'[v] = "idle" <=> pc[v] = "idle"
                                    /\ resp'[v] = "error" <=> resp[v] = "error"
    BY <1>5 DEF Abort, Answer, HonestOK, Uncommitted
  <2>3. QED
    BY <2>1, <2>2, FailedStep
<1>6. ASSUME NEW w \in Writers, AbortBlocked(w) PROVE Abstract!Next
  <2>1. Syncs
    BY <1>6, StillSyncs DEF AbortBlocked, Answer
  <2>2. /\ req' = req /\ dropped' = dropped /\ decided' = decided
        /\ w \notin decided /\ resp[w] # "error" /\ resp'[w] = "error"
        /\ journalDur' = journalDur
        /\ \A v \in Writers \ {w} : /\ pc'[v] = "idle" <=> pc[v] = "idle"
                                    /\ resp'[v] = "error" <=> resp[v] = "error"
    BY <1>6 DEF AbortBlocked, Answer, HonestOK, Uncommitted
  <2>3. QED
    BY <2>1, <2>2, FailedStep
<1>6a. ASSUME NEW w \in Writers, AbortRetained(w) PROVE Abstract!Next
  <2>1. Syncs
    BY <1>6a, StillSyncs DEF AbortRetained, Answer
  <2>2. /\ req' = req /\ dropped' = dropped /\ decided' = decided
        /\ w \notin decided /\ resp[w] # "error" /\ resp'[w] = "error"
        /\ journalDur' = journalDur
        /\ \A v \in Writers \ {w} : /\ pc'[v] = "idle" <=> pc[v] = "idle"
                                    /\ resp'[v] = "error" <=> resp[v] = "error"
    BY <1>6a DEF AbortRetained, Answer, HonestOK, Uncommitted
  <2>3. QED
    BY <2>1, <2>2, FailedStep
<1>7. ASSUME NEW w \in Writers, NEW keep \in BOOLEAN, Prepare(w, keep)
       PROVE  Abstract!Next
  <2>1. Syncs
    BY <1>7, StillSyncs DEF LeaseInv, RecordsOK, Clean, Prepare
  <2>2. /\ req' = req
        /\ \A v \in Writers : /\ pc'[v] = "idle" <=> pc[v] = "idle"
                              /\ resp'[v] = "error" <=> resp[v] = "error"
    BY <1>7 DEF Prepare
  <2>3. QED
    BY <2>1, <2>2, SyncedStep
<1>8. ASSUME NEW w \in Writers, PublishPrepared(w) PROVE Abstract!Next
  <2>1. CASE NameRecord(w, "planned", "prepared", "prepared_named")
    BY <2>1, NamedStep
  <2>2. CASE SyncRecord(w, "prepared_named", "prepared")
    BY <2>2, RecordedStep
  <2>3. QED
    BY <1>8, <2>1, <2>2 DEF PublishPrepared
<1>9. ASSUME NEW w \in Writers, PublishVisible(w) PROVE Abstract!Next
  <2>1. Syncs
    <3>1. Unsettled(w)
      BY <1>9, ZenonT(60) DEF PublishVisible, SwapStage, Unsettled, JournalOK
    <3>2. \A p \in Paths : p # Path(w) => files'[p] = files[p]
      BY <1>9 DEF PublishVisible, SwapStage
    <3>3. {v \in Writers : "committed" \in journalDur[v]} \subseteq decided
      BY DEF DecidedOK
    <3>4. QED
      BY <1>9, <3>1, <3>2, <3>3 DEF PublishVisible, SwapStage, Syncs
  <2>2. /\ req' = req
        /\ \A v \in Writers : /\ pc'[v] = "idle" <=> pc[v] = "idle"
                              /\ resp'[v] = "error" <=> resp[v] = "error"
    BY <1>9 DEF PublishVisible, SwapStage
  <2>3. QED
    BY <2>1, <2>2, SyncedStep
<1>10. ASSUME NEW w \in Writers, SyncVisibleFirst(w) PROVE Abstract!Next
  <2>1. Syncs
    BY <1>10, StillSyncs DEF SyncVisibleFirst, SyncFiles, SyncStaging
  <2>2. /\ req' = req
        /\ \A v \in Writers : /\ pc'[v] = "idle" <=> pc[v] = "idle"
                              /\ resp'[v] = "error" <=> resp[v] = "error"
    BY <1>10 DEF SyncVisibleFirst, SyncFiles, SyncStaging
  <2>3. QED
    BY <2>1, <2>2, SyncedStep
<1>11. ASSUME NEW w \in Writers, SyncVisibleSecond(w) PROVE Abstract!Next
  <2>1. Syncs
    BY <1>11, StillSyncs DEF SyncVisibleSecond, SyncFiles, SyncStaging
  <2>2. /\ req' = req
        /\ \A v \in Writers : /\ pc'[v] = "idle" <=> pc[v] = "idle"
                              /\ resp'[v] = "error" <=> resp[v] = "error"
    BY <1>11 DEF SyncVisibleSecond, SyncFiles, SyncStaging
  <2>3. QED
    BY <2>1, <2>2, SyncedStep
<1>12. ASSUME NEW w \in Writers, PutCAS(w) PROVE Abstract!Next
  <2>1. Syncs
    <3>1. /\ plan'[w].before = plan[w].before /\ plan'[w].versioned = plan[w].versioned
          /\ plan'[w].rowBefore = plan[w].rowBefore
          /\ \A v \in Writers \ {w} : plan'[v] = plan[v]
      BY <1>12 DEF PutCAS, PlanType
    <3>2. QED
      BY <1>12, <3>1, StillSyncs DEF PutCAS
  <2>2. /\ req' = req
        /\ \A v \in Writers : /\ pc'[v] = "idle" <=> pc[v] = "idle"
                              /\ resp'[v] = "error" <=> resp[v] = "error"
    BY <1>12 DEF PutCAS
  <2>3. QED
    BY <2>1, <2>2, SyncedStep
<1>13. ASSUME NEW w \in Writers, PublishPublished(w) PROVE Abstract!Next
  <2>1. CASE NameRecord(w, "stored", "published", "published_named")
    BY <2>1, NamedStep
  <2>2. CASE SyncRecord(w, "published_named", "published")
    BY <2>2, RecordedStep
  <2>3. QED
    BY <1>13, <2>1, <2>2 DEF PublishPublished
<1>14. ASSUME NEW w \in Writers, CommitMetadata(w) PROVE Abstract!Next
  <2>1. /\ journalDur[w] # {} /\ files' = files /\ journalDur' = journalDur
        /\ decided' = decided /\ req' = req /\ plan' = plan /\ resp' = resp
        /\ pc[w] # "idle" /\ pc'[w] # "idle"
        /\ \A v \in Writers \ {w} : pc'[v] = pc[v]
    BY <1>14 DEF CommitMetadata, RowsAfter, JournalOK
  <2>2. w \notin decided => versions' \ Early(w) = versions \ Early(w)
    BY <1>14 DEF CommitMetadata, RowsAfter, Early, RowsOK, RowsAt, JournalOK, DecidedOK
  <2>3. w \in decided => versions' \cup Owed(w) = versions \cup Owed(w)
    BY <1>14 DEF CommitMetadata, RowsAfter, Owed, HonestOK, Uncommitted, DecidedOK,
       JournalOK
  <2>4. QED
    BY <2>1, <2>2, <2>3, RowsHidden
<1>15. ASSUME NEW w \in Writers, PublishCommitted(w) PROVE Abstract!Next
  <2>1. CASE NameRecord(w, "metadata", "committed", "committed_named")
    BY <2>1, NamedStep
  <2>2. CASE SyncRecord(w, "committed_named", "finish")
    BY <2>2, RecordedStep
  <2>3. QED
    BY <1>15, <2>1, <2>2 DEF PublishCommitted
<1>16. ASSUME NEW w \in Writers, StepFails(w) PROVE Abstract!Next
  <2>1. Syncs
    BY <1>16, StillSyncs DEF StepFails
  <2>2. /\ req' = req
        /\ \A v \in Writers : /\ pc'[v] = "idle" <=> pc[v] = "idle"
                              /\ resp'[v] = "error" <=> resp[v] = "error"
    BY <1>16 DEF StepFails
  <2>3. QED
    BY <2>1, <2>2, SyncedStep
<1>17. ASSUME NEW w \in Writers, Finish(w) PROVE Abstract!Next
  <2>1. Syncs
    BY <1>17 DEF Finish, SyncJournal, Syncs
  <2>2. CASE journal[w] # {}
    <3>1. /\ req' = req
          /\ \A v \in Writers : /\ pc'[v] = "idle" <=> pc[v] = "idle"
                                /\ resp'[v] = "error" <=> resp[v] = "error"
      BY <1>17, <2>2 DEF Finish
    <3>2. QED
      BY <2>1, <3>1, SyncedStep
  <2>3. CASE journal[w] = {}
    <3>1. \A v \in Writers : journal[v] = {} /\ journalDur[v] = {}
      BY <1>17, <2>3 DEF Finish, LeaseInv, Exclusive, Busy, Recorded, RecordsOK
    <3>2. journalDur' = journalDur /\ decided' = decided
      <4>1. {v \in Writers : "committed" \in journal[v]} = {}
        BY <3>1
      <4>2. /\ journal \in [Writers -> SUBSET Checkpoints]
            /\ journalDur \in [Writers -> SUBSET Checkpoints]
        OBVIOUS
      <4>3. journalDur = journal
        BY ONLY <3>1, <4>2
      <4>4. QED
        BY <1>17, <4>1, <4>3 DEF Finish, SyncJournal
    <3>3. w \notin decided /\ resp[w] # "error"
      BY <1>17, <2>3 DEF Finish, HonestOK
    <3>4. /\ req' = req /\ dropped' = dropped /\ resp'[w] = "error"
          /\ \A v \in Writers \ {w} : /\ pc'[v] = "idle" <=> pc[v] = "idle"
                                      /\ resp'[v] = "error" <=> resp[v] = "error"
      BY <1>17, <2>3 DEF Finish, Answer
    <3>5. QED
      BY <2>1, <3>2, <3>3, <3>4, FailedStep
  <2>4. QED
    BY <2>2, <2>3
<1>18. ASSUME NEW w \in Writers, FinishBlocked(w) PROVE Abstract!Next
  <2>1. Syncs
    BY <1>18, StillSyncs DEF FinishBlocked, BlockGate, Answer
  <2>2. /\ req' = req
        /\ \A v \in Writers : /\ pc'[v] = "idle" <=> pc[v] = "idle"
                              /\ resp'[v] = "error" <=> resp[v] = "error"
    BY <1>18 DEF FinishBlocked, BlockGate, Answer, HonestOK
  <2>3. QED
    BY <2>1, <2>2, SyncedStep
<1>19. ASSUME NEW w \in Writers, NEW old \in SUBSET versions, RetainRows(w, old)
       PROVE  Abstract!Next
  <2>1. /\ pc[w] = "retain" /\ files' = files /\ journalDur' = journalDur
        /\ decided' = decided /\ req' = req /\ pc'[w] # "idle" /\ resp' = resp
        /\ \A v \in Writers \ {w} : pc'[v] = pc[v]
    BY <1>19 DEF RetainRows
  <2>2. /\ dropped'[w] \subseteq versions
        /\ \A v \in Writers \ {w} : dropped'[v] = dropped[v]
    BY <1>19 DEF RetainRows
  <2>3. versions' \subseteq versions
    BY <1>19 DEF RetainRows
  <2>4. versions' \cup UNION {dropped'[v] : v \in Writers}
          \subseteq versions \cup UNION {dropped[v] : v \in Writers}
    BY <2>2, <2>3
  <2>5. QED
    BY <2>1, <2>4, RetainedStep
<1>20. ASSUME NEW w \in Writers, NEW failed \in SUBSET Contents,
             NEW skipped \in SUBSET Contents, RetainObjects(w, failed, skipped)
       PROVE  Abstract!Next
  <2>1. /\ pc[w] = "retain_objects" /\ files' = files /\ journalDur' = journalDur
        /\ decided' = decided /\ req' = req /\ pc'[w] # "idle"
        /\ \A v \in Writers \ {w} : pc'[v] = pc[v] /\ resp'[v] = resp[v]
    BY <1>20 DEF RetainObjects, Answer
  <2>2. dropped'[w] = {} /\ \A v \in Writers \ {w} : dropped'[v] = dropped[v]
    BY <1>20 DEF RetainObjects
  <2>3. versions' \subseteq versions \cup dropped[w]
    BY <1>20 DEF RetainObjects
  <2>4. versions' \cup UNION {dropped'[v] : v \in Writers}
          \subseteq versions \cup UNION {dropped[v] : v \in Writers}
    BY <2>2, <2>3, SMTT(30)
  <2>5. QED
    BY <2>1, <2>4, RetainedStep
<1>21. ASSUME NEW w \in Writers, Inspect(w) PROVE Abstract!Next
  <2>1. Syncs
    BY <1>21, StillSyncs DEF Inspect, Recovering
  <2>2. /\ req' = req
        /\ \A v \in Writers : /\ pc'[v] = "idle" <=> pc[v] = "idle"
                              /\ resp'[v] = "error" <=> resp[v] = "error"
    BY <1>21 DEF Inspect, Recovering
  <2>3. QED
    BY <2>1, <2>2, SyncedStep
<1>22. ASSUME NEW w \in Writers, Move(w) PROVE Abstract!Next
  <2>1. Syncs
    <3>1. Unsettled(w)
      BY <1>22 DEF Move, Recovering, SwapStage, MoveFirst, Misplaced, Unsettled,
         JournalOK
    <3>2. \A p \in Paths : p # Path(w) => files'[p] = files[p]
      BY <1>22 DEF Move, Recovering, SwapStage, MoveFirst, Misplaced
    <3>3. {v \in Writers : "committed" \in journalDur[v]} \subseteq decided
      BY DEF DecidedOK
    <3>4. QED
      BY <1>22, <3>1, <3>2, <3>3 DEF Move, Recovering, SwapStage, MoveFirst,
         Misplaced, Syncs
  <2>2. /\ req' = req
        /\ \A v \in Writers : /\ pc'[v] = "idle" <=> pc[v] = "idle"
                              /\ resp'[v] = "error" <=> resp[v] = "error"
    BY <1>22 DEF Move, Recovering, SwapStage, MoveFirst, Misplaced
  <2>3. QED
    BY <2>1, <2>2, SyncedStep
<1>23. ASSUME NEW w \in Writers, SyncMovedFiles(w) PROVE Abstract!Next
  <2>1. Syncs
    BY <1>23, StillSyncs DEF SyncMovedFiles, Recovering, SyncFiles
  <2>2. /\ req' = req
        /\ \A v \in Writers : /\ pc'[v] = "idle" <=> pc[v] = "idle"
                              /\ resp'[v] = "error" <=> resp[v] = "error"
    BY <1>23 DEF SyncMovedFiles, Recovering, SyncFiles
  <2>3. QED
    BY <2>1, <2>2, SyncedStep
<1>24. ASSUME NEW w \in Writers, SyncMovedStage(w) PROVE Abstract!Next
  <2>1. Syncs
    BY <1>24, StillSyncs DEF SyncMovedStage, Recovering, SyncStaging
  <2>2. /\ req' = req
        /\ \A v \in Writers : /\ pc'[v] = "idle" <=> pc[v] = "idle"
                              /\ resp'[v] = "error" <=> resp[v] = "error"
    BY <1>24 DEF SyncMovedStage, Recovering, SyncStaging
  <2>3. QED
    BY <2>1, <2>2, SyncedStep
<1>25. ASSUME NEW w \in Writers, RollbackMetadata(w) PROVE Abstract!Next
  <2>1. /\ journalDur[w] # {} /\ files' = files /\ journalDur' = journalDur
        /\ decided' = decided /\ req' = req /\ plan' = plan /\ resp' = resp
        /\ pc[w] # "idle" /\ pc'[w] # "idle"
        /\ \A v \in Writers \ {w} : pc'[v] = pc[v]
    BY <1>25, SMTT(30) DEF RollbackMetadata, Recovering, JournalOK
  <2>2. w \notin decided => versions' \ Early(w) = versions \ Early(w)
    BY <1>25 DEF RollbackMetadata, Recovering, Early, RowsOK, RowsAt, JournalOK,
       DecidedOK
  <2>3. w \in decided => versions' \cup Owed(w) = versions \cup Owed(w)
    BY <1>25 DEF RollbackMetadata, Recovering, Owed, HonestOK, Uncommitted, DecidedOK,
       JournalOK
  <2>4. QED
    BY <2>1, <2>2, <2>3, RowsHidden
<1>26. ASSUME NEW w \in Writers, RollbackCAS(w) PROVE Abstract!Next
  <2>1. Syncs
    BY <1>26, StillSyncs DEF RollbackCAS, Recovering
  <2>2. /\ req' = req
        /\ \A v \in Writers : /\ pc'[v] = "idle" <=> pc[v] = "idle"
                              /\ resp'[v] = "error" <=> resp[v] = "error"
    BY <1>26 DEF RollbackCAS, Recovering
  <2>3. QED
    BY <2>1, <2>2, SyncedStep
<1>27. ASSUME NEW w \in Writers, EnsureCAS(w) PROVE Abstract!Next
  <2>1. Syncs
    BY <1>27, StillSyncs DEF EnsureCAS, Recovering
  <2>2. /\ req' = req
        /\ \A v \in Writers : /\ pc'[v] = "idle" <=> pc[v] = "idle"
                              /\ resp'[v] = "error" <=> resp[v] = "error"
    BY <1>27 DEF EnsureCAS, Recovering
  <2>3. QED
    BY <2>1, <2>2, SyncedStep
<1>28. ASSUME NEW w \in Writers, EnsureMetadata(w) PROVE Abstract!Next
  <2>1. /\ journalDur[w] # {} /\ files' = files /\ journalDur' = journalDur
        /\ decided' = decided /\ req' = req /\ plan' = plan /\ resp' = resp
        /\ pc[w] # "idle" /\ pc'[w] # "idle"
        /\ \A v \in Writers \ {w} : pc'[v] = pc[v]
    BY <1>28 DEF EnsureMetadata, Recovering, RowsAfter, JournalOK
  <2>2. w \notin decided => versions' \ Early(w) = versions \ Early(w)
    BY <1>28 DEF EnsureMetadata, Recovering, RowsAfter, Early, RowsOK, RowsAt,
       JournalOK, DecidedOK
  <2>3. w \in decided => versions' \cup Owed(w) = versions \cup Owed(w)
    BY <1>28 DEF EnsureMetadata, Recovering, RowsAfter, Owed, HonestOK, Uncommitted,
       DecidedOK, JournalOK
  <2>4. QED
    BY <2>1, <2>2, <2>3, RowsHidden
<1>29. ASSUME NEW w \in Writers, RemoveStage(w) PROVE Abstract!Next
  <2>1. Syncs
    BY <1>29, StillSyncs DEF RemoveStage, Recovering
  <2>2. /\ req' = req
        /\ \A v \in Writers : /\ pc'[v] = "idle" <=> pc[v] = "idle"
                              /\ resp'[v] = "error" <=> resp[v] = "error"
    BY <1>29 DEF RemoveStage, Recovering
  <2>3. QED
    BY <2>1, <2>2, SyncedStep
<1>30. ASSUME NEW w \in Writers, ValidateFinal(w) PROVE Abstract!Next
  <2>1. Syncs
    BY <1>30, StillSyncs DEF ValidateFinal, Recovering
  <2>2. /\ req' = req
        /\ \A v \in Writers : /\ pc'[v] = "idle" <=> pc[v] = "idle"
                              /\ resp'[v] = "error" <=> resp[v] = "error"
    BY <1>30 DEF ValidateFinal, Recovering
  <2>3. QED
    BY <2>1, <2>2, SyncedStep
<1>31. ASSUME NEW w \in Writers, RemoveRecord(w) PROVE Abstract!Next
  <2>1. Syncs
    BY <1>31, StillSyncs DEF RemoveRecord, Recovering, NextRemoved
  <2>2. /\ req' = req
        /\ \A v \in Writers : /\ pc'[v] = "idle" <=> pc[v] = "idle"
                              /\ resp'[v] = "error" <=> resp[v] = "error"
    BY <1>31 DEF RemoveRecord, Recovering, NextRemoved
  <2>3. QED
    BY <2>1, <2>2, SyncedStep
<1>32. ASSUME NEW w \in Writers, SyncRemoval(w) PROVE Abstract!Next
  <2>1. Syncs
    BY <1>32 DEF SyncRemoval, SyncJournal, Syncs
  <2>2. /\ pc[w] = "cleaning" /\ pc'[w] \in {"clean", "gone", "done", "retain"}
        /\ \A v \in Writers \ {w} :
              journal[v] = {} /\ journalDur[v] = {} /\ pc'[v] = pc[v]
    <3> HIDE DEF TypeOK
    <3> QED  BY <1>32, SyncRemovalEffect
  <2>3. req' = req /\ dropped' = dropped /\ journalDur' = journal
    BY <1>32 DEF SyncRemoval, SyncJournal
  <2>4. CASE journal[w] = {} /\ sys = "up" /\ dir[w] = "back"
    <3>1. resp' = Put(resp, w, "error")
      BY <1>32, <2>4 DEF SyncRemoval, Answer
    <3>2. w \notin decided /\ resp[w] # "error"
      BY <2>2, <2>4 DEF HonestOK
    <3>3. \A v \in Writers : "committed" \notin journal[v]
      BY <2>2, <2>4
    <3>4. decided' = decided
      BY <1>32, <3>3 DEF SyncRemoval, SyncJournal
    <3>5. \A v \in decided : journalDur[v] = {}
      BY <2>2, <3>2
    <3>6. QED
      BY <2>1, <2>2, <2>3, <3>1, <3>2, <3>4, <3>5, FailedStep
  <2>5. CASE ~(journal[w] = {} /\ sys = "up" /\ dir[w] = "back")
    <3>1. resp' = resp
      <4>1. CASE journal[w] # {}
        BY <1>32, <4>1 DEF SyncRemoval
      <4>2. CASE journal[w] = {} /\ sys = "starting"
        BY <1>32, <4>2 DEF SyncRemoval
      <4>3. CASE journal[w] = {} /\ sys = "up" /\ dir[w] = "forward"
        BY <1>32, <4>3 DEF SyncRemoval
      <4>4. QED
        BY <1>32, <2>5, <4>1, <4>2, <4>3 DEF SyncRemoval, Recovering
    <3>2. QED
      BY <2>1, <2>2, <2>3, <3>1, SyncedStep
  <2>6. QED
    BY <2>4, <2>5
<1>33. ASSUME NEW w \in Writers, RecoveryFails(w) PROVE Abstract!Next
  <2>1. Syncs
    BY <1>33, StillSyncs DEF RecoveryFails, Recovering, BlockGate, Answer, Lost
  <2>2. /\ req' = req
        /\ \A v \in Writers : /\ pc'[v] = "idle" <=> pc[v] = "idle"
                              /\ resp'[v] = "error" <=> resp[v] = "error"
    BY <1>33 DEF RecoveryFails, Recovering, BlockGate, Answer, Lost, HonestOK
  <2>3. QED
    BY <2>1, <2>2, SyncedStep
<1>34. ASSUME NEW w \in Writers, NEW p \in Paths, NEW c \in Contents, Begin(w, p, c)
       PROVE  Abstract!Next
  <2>1. /\ pc[w] = "idle" /\ pc'[w] = "begun" /\ ~Recorded(w)
        /\ w \notin decided /\ resp[w] # "error"
    BY <1>34 DEF Begin, LeaseInv, RecordsOK, Clean, HonestOK, Uncommitted
  <2>2. /\ req' = [req EXCEPT ![w] = [path |-> p, body |-> c, snap |-> files[p]]]
        /\ plan' = plan /\ dropped' = dropped /\ decided' = decided /\ resp' = resp
        /\ journalDur' = journalDur /\ \A v \in Writers \ {w} : pc'[v] = pc[v]
    BY <1>34 DEF Begin
  <2>3. Syncs
    BY <1>34, <2>1, <2>2, StillSyncs DEF Begin
  <2>4. AbsContent' = AbsContent /\ AbsHistory' = AbsHistory
    BY <2>2, <2>3, ViewSync DEF Settles, Decides
  <2>5. AbsStatus[w] = "new" /\ AbsStatus' = [AbsStatus EXCEPT ![w] = "open"]
    BY <2>1, <2>2 DEF AbsStatus
  <2>6. [path |-> p, body |-> c, snap |-> files[p]] \in Abstract!Calls
    BY DEF Abstract!Calls
  <2>7. Abstract!Call(w)
    BY <2>2, <2>4, <2>5, <2>6 DEF Abstract!Call
  <2>8. QED
    BY <2>7 DEF Abstract!Next
<1>35. ASSUME NEW dead \in SUBSET cas, CollectGarbage(dead) PROVE Abstract!Next
  <2>1. Syncs
    BY <1>35, StillSyncs DEF CollectGarbage
  <2>2. /\ req' = req
        /\ \A v \in Writers : /\ pc'[v] = "idle" <=> pc[v] = "idle"
                              /\ resp'[v] = "error" <=> resp[v] = "error"
    BY <1>35 DEF CollectGarbage
  <2>3. QED
    BY <2>1, <2>2, SyncedStep
<1>36. ASSUME CleanupStaging PROVE Abstract!Next
  <2>1. Syncs
    BY <1>36 DEF Syncs, CleanupStaging, SyncJournal
  <2>2. /\ req' = req
        /\ \A v \in Writers : /\ pc'[v] = "idle" <=> pc[v] = "idle"
                              /\ resp'[v] = "error" <=> resp[v] = "error"
    BY <1>36 DEF CleanupStaging, SyncJournal
  <2>3. QED
    BY <2>1, <2>2, SyncedStep
<1>37. ASSUME Kill PROVE Abstract!Next
  <2>1. Syncs
    BY <1>37, StillSyncs DEF Kill, Die, Lost
  <2>2. /\ req' = req
        /\ \A v \in Writers : /\ pc'[v] = "idle" <=> pc[v] = "idle"
                              /\ resp'[v] = "error" <=> resp[v] = "error"
    BY <1>37 DEF Kill, Die, Lost
  <2>3. QED
    BY <2>1, <2>2, SyncedStep
<1>38. ASSUME PowerLoss PROVE Abstract!Next
  <2>1. PICK P \in SUBSET Paths, S \in SUBSET Writers, J \in BOOLEAN :
          /\ files' = [p \in Paths |-> IF p \in P THEN files[p] ELSE filesDur[p]]
          /\ IF J THEN SyncJournal /\ UNCHANGED journal
             ELSE journal' = journalDur /\ UNCHANGED <<journalDur, decided>>
    BY <1>38 DEF PowerLoss
  <2>2. \A p \in Paths : \/ files'[p] = files[p]
                         \/ \E v \in Writers : Unsettled(v) /\ Path(v) = p
    BY <2>1 DEF StepOK, InStep
  <2>3. /\ journalDur' \in {journal, journalDur}
        /\ decided' = decided \cup {v \in Writers : "committed" \in journalDur'[v]}
    <3>1. {v \in Writers : "committed" \in journalDur[v]} \subseteq decided
      BY DEF DecidedOK
    <3>2. QED
      BY <2>1, <3>1 DEF SyncJournal
  <2>4. /\ req' = req /\ plan' = plan /\ versions' = versions
        /\ dropped' = [v \in Writers |-> {}] /\ resp' = resp /\ pc' = Lost
    BY <1>38 DEF PowerLoss, Die
  <2>5. Syncs
    BY <2>2, <2>3, <2>4 DEF Syncs
  <2>6. \A v \in Writers : pc'[v] = "idle" <=> pc[v] = "idle"
    BY <2>4 DEF Lost
  <2>7. QED
    BY <2>4, <2>5, <2>6, SyncedStep
<1>39. ASSUME Restart PROVE Abstract!Next
  <2>1. Syncs
    BY <1>39 DEF Syncs, Restart, SyncJournal, Decision
  <2>2. /\ req' = req
        /\ \A v \in Writers : /\ pc'[v] = "idle" <=> pc[v] = "idle"
                              /\ resp'[v] = "error" <=> resp[v] = "error"
    BY <1>39 DEF Restart, SyncJournal, Decision, LeaseInv, RecordsOK, Clean, Recorded
  <2>3. QED
    BY <2>1, <2>2, SyncedStep
<1>40. ASSUME StartupDone PROVE Abstract!Next
  <2>1. Syncs
    BY <1>40, StillSyncs DEF StartupDone
  <2>2. /\ req' = req
        /\ \A v \in Writers : /\ pc'[v] = "idle" <=> pc[v] = "idle"
                              /\ resp'[v] = "error" <=> resp[v] = "error"
    BY <1>40 DEF StartupDone
  <2>3. QED
    BY <2>1, <2>2, SyncedStep
<1>41. ASSUME AllServed PROVE Abstract!Next
  <2>1. Syncs
    BY <1>41, StillSyncs DEF AllServed, vars
  <2>2. /\ req' = req
        /\ \A v \in Writers : /\ pc'[v] = "idle" <=> pc[v] = "idle"
                              /\ resp'[v] = "error" <=> resp[v] = "error"
    BY <1>41 DEF AllServed, vars
  <2>3. QED
    BY <2>1, <2>2, SyncedStep
<1>42. ASSUME UNCHANGED vars PROVE Abstract!Next
  <2>1. Syncs
    BY <1>42, StillSyncs DEF vars
  <2>2. /\ req' = req
        /\ \A v \in Writers : /\ pc'[v] = "idle" <=> pc[v] = "idle"
                              /\ resp'[v] = "error" <=> resp[v] = "error"
    BY <1>42 DEF vars
  <2>3. QED
    BY <2>1, <2>2, SyncedStep
<1> HIDE DEF TypeOK
<1>43. QED
  BY <1>1, <1>2, <1>3, <1>4, <1>5, <1>6, <1>6a, <1>7, <1>8, <1>9, <1>10, <1>11, <1>12,
     <1>13, <1>14, <1>15, <1>16, <1>17, <1>18, <1>19, <1>20, <1>21, <1>22, <1>23,
     <1>24, <1>25, <1>26, <1>27, <1>28, <1>29, <1>30, <1>31, <1>32, <1>33, <1>34,
     <1>35, <1>36, <1>37, <1>38, <1>39, <1>40, <1>41, <1>42 DEF Next, WriterStep,
     RecoveryStep

-----------------------------------------------------------------------------
(* The theorem                                                             *)

\* The mapping's invariants hold initially and in every later state.
LEMMA RefInvInit == Init => RefInv
<1> SUFFICES ASSUME Init PROVE RefInv
  OBVIOUS
<1>1. \A w \in Writers : /\ pc[w] = "idle" /\ journal[w] = {} /\ journalDur[w] = {}
                         /\ plan[w] = NoPlan /\ dropped[w] = {}
  BY DEF Init
<1>2. RowsOK
  BY <1>1 DEF RowsOK, RowsAt, Hidden, RowsBack, Recorded, RuntimeSteps, NoPlan
<1>3. QED
  BY <1>1, <1>2, InitInv, SafetyInit DEF DroppedOK, RefInv, SafeInv

LEMMA RefInvariant == Spec => []RefInv
<1>1. Init => PlanOK /\ RowsOK /\ DroppedOK
  BY RefInvInit DEF RefInv
<1>2. SafeInv /\ PlanOK /\ RowsOK /\ DroppedOK /\ [Next]_vars
        => PlanOK' /\ RowsOK' /\ DroppedOK'
  BY PlanStep, RowsStep, DroppedStep DEF SafeInv
<1>3. QED
  BY <1>1, <1>2, SafetyInvariant, PTL DEF Spec, RefInv

\* The write path implements the atomic store, for every number of requests, faults,
\* kills, power losses and recoveries: a write takes effect in one step, the sync of its
\* committed record, on the very file its request captured, and no later step undoes it.
THEOREM WritesAreAtomic == Spec => ImplementsAtomicWrite
<1>1. Init => Abstract!Init
  <2> SUFFICES ASSUME Init PROVE Abstract!Init
    OBVIOUS
  <2>1. /\ AbsContent = files
        /\ AbsHistory = versions \cup UNION {dropped[w] : w \in Writers}
    BY ViewSettled, RefInvInit DEF Init
  <2>2. UNION {dropped[w] : w \in Writers} = {}
    BY DEF Init
  <2>3. /\ files \in [Paths -> Objects \cup {Absent}]
        /\ versions \in SUBSET (Paths \X Contents)
    BY InitInv DEF TypeOK, FsType, StoreType, Rows
  <2>4. AbsStatus = [w \in Writers |-> "new"]
    BY DEF Init, AbsStatus
  <2>5. QED
    BY <2>1, <2>2, <2>3, <2>4 DEF Abstract!Init
<1>2. RefInv /\ RefInv' /\ [Next]_vars => [Abstract!Next]_(Abstract!vars)
  BY RefinesStep
<1>3. QED
  BY <1>1, <1>2, RefInvariant, PTL DEF Spec, ImplementsAtomicWrite, Abstract!Spec

=============================================================================
