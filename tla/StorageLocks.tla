----------------------------- MODULE StorageLocks ----------------------------
(***************************************************************************)
(* The locks of one FileSystem and everybody who takes them: requests,     *)
(* the garbage collection, the retention loop, settings changes, and the   *)
(* main goroutine, which cleans up, serves, drains, stops the loop and     *)
(* closes.  A call is the sequence of what it does to locks and to the     *)
(* open handles; an error unwinds it, its defers releasing what it holds.  *)
(*                                                                         *)
(* The RWMutexes are Go's: a writer that waits keeps new readers out, and  *)
(* TryRLock and TryLock fail then.  "gate" is the quota mutation gate and  *)
(* "lifecycle" the retention monitor's mutex, both exclusive; "files" and  *)
(* "internal" stand for the flocks on the storage roots.                   *)
(***************************************************************************)
EXTENDS Integers, Sequences, FiniteSets

CONSTANTS
    Requests,    \* goroutines of requests, one call each
    Loops,       \* goroutines of the retention monitor
    Nobody

ASSUME LockActorsAssumption ==
    /\ {"main", "next"} \cap (Requests \cup Loops) = {} /\ Requests \cap Loops = {}
    /\ Nobody \notin Requests \cup Loops \cup {"main", "next"}

VARIABLES
    routine,    \* of each goroutine: what it runs and how far it is
    taken,      \* of each goroutine: the locks it holds, in the order it took them
    waiting,    \* of each lock: the writer whose turn it is, that waits for readers to leave
    cancelled,  \* goroutines whose context is cancelled
    phase,      \* of the process: "starting", "serving", "draining"
    alive,      \* goroutines of the retention monitor that have not returned
    closed,     \* fs.closed
    handles     \* the database, the journal and the root handles are open

lockVars == <<routine, taken, waiting, cancelled, phase, alive, closed, handles>>

Goroutines == Requests \cup Loops \cup {"main", "next"}
Locks == {"close", "staging", "gc", "mu", "budget", "gate", "lifecycle",
          "files", "internal"}

-----------------------------------------------------------------------------
(* What calls are made of.                                                 *)
Do(act, on) == <<[act |-> act, on |-> on]>>
RLock(l)    == Do("rlock", l)
Lock(l)     == Do("lock", l)
Unlock(l)   == Do("unlock", l)
TryRLock(l) == Do("tryrlock", l)     \* acquireContextLock: until it works or the context ends
TryLock(l)  == Do("trylock", l)
Flock(l)    == Do("flock", l)        \* non-blocking: taken at once or an error
Check       == Do("check", "none")   \* ensureOpenLocked, validateOpenLocked
Use         == Do("use", "none")     \* of handles, to read or to stage
ChangeFiles == Do("mutate", "none")  \* of handles, to change files, rows or journal

\* Reading a policy field under the lock alone.
Sample == RLock("mu") \o Unlock("mu")

beginMutation == TryRLock("gc") \o TryLock("mu") \o Check
endMutation == Unlock("mu") \o Unlock("gc")
beginRecoveryMutation == RLock("gc") \o Lock("mu")

stat == TryRLock("mu") \o Check \o Use \o Unlock("mu")

OpenFileSnapshotMetadata == RLock("mu") \o Check \o Use \o Unlock("mu") \o Sample

\* Variant: the walk does not keep the filesystem open.
SearchUnjoined == RLock("mu") \o Check \o Unlock("mu") \o Use

\* search, GetFileCount: the tree is walked outside mu, under closeMu.
search ==
    RLock("close") \o RLock("mu") \o Check \o Unlock("mu") \o Use \o Unlock("close")

\* Two optimistic walks that a mutation overtook, then one under the lock.
prepareDeleteIntents ==
    LET look == RLock("mu") \o Check
        walk == look \o Unlock("mu") \o Use \o look \o Unlock("mu")
    IN RLock("close") \o walk \o look \o Use \o Unlock("mu") \o Unlock("close")

currentWriteAdmissionBlock == RLock("mu") \o Check \o Unlock("mu")

\* Variant: the minimum free space is sampled inside budget.mu.
ReserveInside == Lock("budget") \o Sample \o Unlock("budget")

reserve == Sample \o Lock("budget") \o Unlock("budget")
release == Lock("budget") \o Unlock("budget")

blockRetainedWriteStages == beginRecoveryMutation \o ChangeFiles \o endMutation

\* atEnd: what the body's reader does when the body ends; commit: how it goes on.
writeFileTransaction(atEnd, commit) ==
    RLock("close") \o currentWriteAdmissionBlock
    \o currentWriteAdmissionBlock \o RLock("staging") \o currentWriteAdmissionBlock
    \o Use \o reserve \o Use \o atEnd \o commit
    \o Unlock("staging") \o Unlock("close")

\* The publication releases the bytes it staged while it holds the mutation.
runWriteTransactionRuntimeLocked ==
    beginMutation \o ChangeFiles \o release \o endMutation

\* An upload whose body passes quotaMutationCommitReader: the gate is taken
\* at its end, inside the write, and given back after it.
Upload ==
    writeFileTransaction(TryLock("gate"), runWriteTransactionRuntimeLocked) \o Unlock("gate")

\* A write whose stage cannot be cleaned up blocks further mutations.
FailedWrite ==
    writeFileTransaction(TryLock("gate"), release \o blockRetainedWriteStages)
    \o Unlock("gate")

\* The gate first, the quotas again, the old version, then the write.
RestoreVersion ==
    TryLock("gate") \o stat \o RLock("mu") \o Check \o Use \o Unlock("mu")
    \o writeFileTransaction(<<>>, runWriteTransactionRuntimeLocked) \o Unlock("gate")

\* Mkdir, Rename, Copy, Delete and the lease of shares, favorites and uploads.
AcquireMutationLease == beginMutation \o ChangeFiles \o endMutation

\* The list of hashes is read under mu; the pass goes on under gcMu alone.
AcquireGCLock ==
    Lock("gc") \o RLock("mu") \o Check \o Use \o Unlock("mu")
    \o Do("collect", "none") \o Unlock("gc")

UpdateRuntimePolicySettings == Lock("mu") \o Unlock("mu")

restartLocked(publish) ==
    Do("stoploop", "none") \o Do("awaitloop", "none") \o publish \o Do("startloop", "none")

UpdateConfigAndRuntimePolicy ==
    Lock("lifecycle") \o restartLocked(UpdateRuntimePolicySettings) \o Unlock("lifecycle")

StopMonitor ==
    Lock("lifecycle") \o Do("stoploop", "none") \o Do("awaitloop", "none")
    \o Unlock("lifecycle")

RunRetentionSweep == beginMutation \o ChangeFiles \o endMutation

CleanupStagingCall ==
    Lock("staging") \o beginMutation \o ChangeFiles \o release \o endMutation
    \o Unlock("staging")

acquireStorageRootLifecycleLock == Flock("files") \o Flock("internal")
CloseRoots == Unlock("internal") \o Unlock("files")

Close ==
    Lock("close") \o Lock("staging") \o Lock("gc") \o Lock("mu")
    \o Do("seal", "none") \o Do("closehandles", "none") \o CloseRoots
    \o Unlock("mu") \o Unlock("gc") \o Unlock("staging") \o Unlock("close")

\* The main goroutine from its own New to the end of its defers.
Main ==
    acquireStorageRootLifecycleLock \o Do("open", "none")
    \o CleanupStagingCall \o UpdateConfigAndRuntimePolicy
    \o Do("serve", "none") \o Do("drain", "none") \o StopMonitor \o Close

\* Another process that is started on the same roots.
Successor == acquireStorageRootLifecycleLock

Program == [
    stat      |-> stat,
    open      |-> OpenFileSnapshotMetadata,
    search    |-> search,
    intents   |-> prepareDeleteIntents,
    upload    |-> Upload,
    failed    |-> FailedWrite,
    restore   |-> RestoreVersion,
    mutation  |-> AcquireMutationLease,
    gc        |-> AcquireGCLock,
    settings  |-> UpdateConfigAndRuntimePolicy,
    sweep     |-> RunRetentionSweep,
    main      |-> Main,
    successor |-> Successor]

RequestKinds ==
    {"stat", "open", "search", "intents", "upload", "failed", "restore",
     "mutation", "gc", "settings"}

-----------------------------------------------------------------------------
(* Locks and contexts.                                                     *)
Holds(g, mode, l) == \E i \in 1..Len(taken[g]) : taken[g][i] = <<mode, l>>
ReadersOf(l) == {g \in Goroutines : Holds(g, "r", l)}
WritersOf(l) == {g \in Goroutines : Holds(g, "w", l)}

Untouched(l) == waiting[l] = Nobody /\ WritersOf(l) = {}
Unheld(l) == Untouched(l) /\ ReadersOf(l) = {}

Running(g) == routine[g].state = "running"
Now(g) == Program[routine[g].kind][routine[g].at]
At(g, act) == Running(g) /\ Now(g).act = act

\* The locks given back right after position i of a program, and what follows.
Given(program, i) ==
    {j \in (i + 1)..Len(program) : \A k \in (i + 1)..j : program[k].act = "unlock"}

\* An error is returned: the defers give everything back.
Unwind(g) ==
    /\ routine' = [routine EXCEPT ![g].state = "over"]
    /\ taken' = [taken EXCEPT ![g] = <<>>]

\* g goes on, now holding the locks of now.  What blocks nobody and waits for
\* nobody goes with the step before: the look at closed under the lock just
\* taken, which Close needs too, and giving locks back.
Advance(g, now) ==
    LET program == Program[routine[g].kind]
        here == routine[g].at
        checked == here < Len(program) /\ program[here + 1].act = "check"
        from == IF checked THEN here + 1 ELSE here
        given == Given(program, from)
        next == from + Cardinality(given) + 1
    IN IF checked /\ closed THEN Unwind(g)
       ELSE /\ taken' = [taken EXCEPT ![g] =
                 SelectSeq(now, LAMBDA t : \A j \in given : program[j].on # t[2])]
            /\ routine' = [routine EXCEPT ![g] =
                 IF next > Len(program) THEN [@ EXCEPT !.state = "over"]
                 ELSE [@ EXCEPT !.at = next]]

With(g, mode) == Append(taken[g], <<mode, Now(g).on>>)

-----------------------------------------------------------------------------
(* One step of one call.                                                   *)
StepRLock(g) ==
    /\ At(g, "rlock") /\ Untouched(Now(g).on)
    /\ Advance(g, With(g, "r"))
    /\ UNCHANGED <<waiting, cancelled, phase, alive, closed, handles>>

\* Lock first shuts the door to new readers, then waits for the others.
Announce(g) ==
    /\ At(g, "lock") /\ Untouched(Now(g).on) /\ ReadersOf(Now(g).on) # {}
    /\ waiting' = [waiting EXCEPT ![Now(g).on] = g]
    /\ UNCHANGED <<routine, taken, cancelled, phase, alive, closed, handles>>

Turn(g) == Untouched(Now(g).on) \/ waiting[Now(g).on] = g

StepLock(g) ==
    /\ At(g, "lock") /\ Turn(g) /\ ReadersOf(Now(g).on) = {}
    /\ waiting' = [waiting EXCEPT ![Now(g).on] = Nobody]
    /\ Advance(g, With(g, "w"))
    /\ UNCHANGED <<cancelled, phase, alive, closed, handles>>

acquireContextLock(g) ==
    /\ Running(g) /\ g \notin cancelled
    /\ \/ Now(g).act = "tryrlock" /\ Untouched(Now(g).on) /\ Advance(g, With(g, "r"))
       \/ Now(g).act = "trylock" /\ Unheld(Now(g).on) /\ Advance(g, With(g, "w"))
    /\ UNCHANGED <<waiting, cancelled, phase, alive, closed, handles>>

\* The context is over: by others, or because the client went away.
ContextEnds(g) ==
    /\ Running(g) /\ Now(g).act \in {"tryrlock", "trylock"}
    /\ g \in cancelled \cup Requests
    /\ Unwind(g)
    /\ UNCHANGED <<waiting, cancelled, phase, alive, closed, handles>>

tryLockStorageRootDirectory(g) ==
    /\ At(g, "flock")
    /\ IF Unheld(Now(g).on) THEN Advance(g, With(g, "w")) ELSE Unwind(g)
    /\ UNCHANGED <<waiting, cancelled, phase, alive, closed, handles>>

\* Work with the handles takes its time; a body may also break off.
Work(g) ==
    /\ Running(g) /\ Now(g).act \in {"use", "mutate", "collect"}
    /\ Advance(g, taken[g]) \/ (Now(g).act = "use" /\ Unwind(g))
    /\ UNCHANGED <<waiting, cancelled, phase, alive, closed, handles>>

(* The retention monitor.                                                  *)
stopLoopLocked(g) ==
    /\ At(g, "stoploop")
    /\ cancelled' = cancelled \cup alive
    /\ Advance(g, taken[g])
    /\ UNCHANGED <<waiting, phase, alive, closed, handles>>

\* wg.Wait
AwaitLoop(g) ==
    /\ At(g, "awaitloop") /\ alive = {}
    /\ Advance(g, taken[g])
    /\ UNCHANGED <<waiting, cancelled, phase, alive, closed, handles>>

StartLoop(g) ==
    /\ At(g, "startloop")
    /\ Loops \ alive # {}
    /\ LET l == CHOOSE l \in Loops \ alive : TRUE
       IN alive' = alive \cup {l} /\ cancelled' = cancelled \ {l}
    /\ Advance(g, taken[g])
    /\ UNCHANGED <<waiting, phase, closed, handles>>

\* The ticker fires between two sweeps.
Tick(l) ==
    /\ l \in alive \ cancelled /\ ~Running(l)
    /\ routine' = [routine EXCEPT ![l] = [kind |-> "sweep", at |-> 1, state |-> "running"]]
    /\ UNCHANGED <<taken, waiting, cancelled, phase, alive, closed, handles>>

\* The loop sees its context cancelled between two sweeps.
LoopEnds(l) ==
    /\ l \in alive \cap cancelled /\ ~Running(l)
    /\ alive' = alive \ {l}
    /\ UNCHANGED <<routine, taken, waiting, cancelled, phase, closed, handles>>

(* The process.                                                            *)
OpenHandles ==
    /\ At("main", "open") /\ handles' = TRUE /\ Advance("main", taken["main"])
    /\ UNCHANGED <<waiting, cancelled, phase, alive, closed>>

StartServing ==
    /\ At("main", "serve") /\ phase' = "serving" /\ Advance("main", taken["main"])
    /\ UNCHANGED <<waiting, cancelled, alive, closed, handles>>

\* Shutdown: no new requests, and those under way may end.
BeginShutdown ==
    /\ At("main", "drain") /\ phase = "serving" /\ phase' = "draining"
    /\ UNCHANGED <<routine, taken, waiting, cancelled, alive, closed, handles>>

Drained ==
    /\ At("main", "drain") /\ phase = "draining"
    /\ \A r \in Requests : ~Running(r)
    /\ Advance("main", taken["main"])
    /\ UNCHANGED <<waiting, cancelled, phase, alive, closed, handles>>

\* Not in time: server.Close ends the connections, and with them the
\* contexts of the requests, which go on beside what main does next.
DrainTimeout ==
    /\ At("main", "drain") /\ phase = "draining"
    /\ \E r \in Requests : Running(r)
    /\ cancelled' = cancelled \cup Requests
    /\ Advance("main", taken["main"])
    /\ UNCHANGED <<waiting, phase, alive, closed, handles>>

Seal ==
    /\ At("main", "seal") /\ closed' = TRUE /\ Advance("main", taken["main"])
    /\ UNCHANGED <<waiting, cancelled, phase, alive, handles>>

CloseHandles ==
    /\ At("main", "closehandles") /\ handles' = FALSE /\ Advance("main", taken["main"])
    /\ UNCHANGED <<waiting, cancelled, phase, alive, closed>>

(* Requests and processes come.                                            *)
Arrive(r, kind) ==
    /\ phase = "serving" /\ routine[r].state = "off"
    /\ routine' = [routine EXCEPT ![r] = [kind |-> kind, at |-> 1, state |-> "running"]]
    /\ UNCHANGED <<taken, waiting, cancelled, phase, alive, closed, handles>>

\* Another process is started; before a root is free it fails and leaves nothing.
TrySuccessor ==
    /\ routine["next"].state = "off" /\ phase # "starting" /\ Unheld("files")
    /\ routine' = [routine EXCEPT !["next"].state = "running"]
    /\ UNCHANGED <<taken, waiting, cancelled, phase, alive, closed, handles>>

LockStep(g) ==
    \/ StepRLock(g) \/ Announce(g) \/ StepLock(g) \/ acquireContextLock(g)
    \/ ContextEnds(g) \/ tryLockStorageRootDirectory(g) \/ Work(g)
    \/ stopLoopLocked(g) \/ AwaitLoop(g) \/ StartLoop(g)

MainStep == OpenHandles \/ StartServing \/ BeginShutdown \/ Drained \/ DrainTimeout
            \/ Seal \/ CloseHandles

\* Nothing is under way any more.
ProcessOver ==
    /\ routine["main"].state = "over" /\ \A g \in Goroutines : ~Running(g)
    /\ UNCHANGED lockVars

LocksInit ==
    /\ routine = [g \in Goroutines |->
                 [kind |-> IF g = "main" THEN "main"
                           ELSE IF g = "next" THEN "successor"
                           ELSE IF g \in Loops THEN "sweep" ELSE "stat",
                  at |-> 1,
                  state |-> IF g = "main" THEN "running" ELSE "off"]]
    /\ taken = [g \in Goroutines |-> <<>>]
    /\ waiting = [l \in Locks |-> Nobody]
    /\ cancelled = {} /\ phase = "starting"
    /\ alive = {} /\ closed = FALSE /\ handles = FALSE

LocksNext ==
    \/ \E g \in Goroutines : LockStep(g)
    \/ MainStep \/ TrySuccessor \/ ProcessOver
    \/ \E l \in Loops : Tick(l) \/ LoopEnds(l)
    \/ \E r \in Requests : \E k \in RequestKinds : Arrive(r, k)

LocksSpec == LocksInit /\ [][LocksNext]_lockVars
-----------------------------------------------------------------------------
(* Who waits and who does not.  A retry of a TryLock that cannot succeed    *)
(* yet waits, and so does main for a signal or for requests to end: neither *)
(* a timeout nor a client that leaves is counted on.                        *)
CanMove(g) ==
    \/ g \in alive \cap cancelled /\ ~Running(g)
    \/ Running(g) /\
         LET o == Now(g)
         IN /\ o.act = "rlock" => Untouched(o.on)
            /\ o.act = "lock" => Turn(g) /\ (waiting[o.on] = g => ReadersOf(o.on) = {})
            /\ o.act = "tryrlock" => g \in cancelled \/ Untouched(o.on)
            /\ o.act = "trylock" => g \in cancelled \/ Unheld(o.on)
            /\ o.act = "awaitloop" => alive = {}
            /\ o.act = "startloop" => alive # Loops
            /\ o.act = "drain" => \A r \in Requests : ~Running(r)

(* The calls of a filesystem never all wait for each other: whatever       *)
(* requests, sweeps, collections, settings changes, stages that cannot be  *)
(* cleaned up and a shutdown do to closeMu, writeStagingMu, gcMu, mu,      *)
(* budget.mu, the quota gate and the monitor's mutex, while a call is      *)
(* under way one of them can go on.                                        *)
NeverKnotted ==
    (\E g \in Goroutines : Running(g)) => \E g \in Goroutines : CanMove(g)

\* Nothing reaches for a handle that Close closed.
ClosedUnused ==
    \A g \in Goroutines : (At(g, "use") \/ At(g, "mutate")) => handles

\* Another process gets the roots only once nothing here can touch them.
RootsAlone ==
    Holds("next", "w", "files") =>
        ~handles /\ \A g \in Goroutines : ~At(g, "use") /\ ~At(g, "mutate")

\* A settings change never leaves two sweeps, and a collection that has
\* listed the referenced hashes sees no mutation until it is over.
Alone ==
    /\ \A l, m \in Loops : Running(l) /\ Running(m) => l = m
    /\ \A g \in Goroutines : At(g, "mutate") =>
          \A h \in Goroutines : ~At(h, "collect") /\ (At(h, "mutate") => g = h)

(* A filesystem that is closed beside requests which did not end in time   *)
(* and beside sweeps a late settings change started again is not used any  *)
(* more, its roots change hands only then, and until then mutations,       *)
(* sweeps and collections keep apart.                                      *)
StorageOrderly == ClosedUnused /\ RootsAlone /\ Alone
=============================================================================
