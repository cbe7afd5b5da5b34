---------------------------- MODULE RenameProbe -----------------------------
(***************************************************************************)
(* The journaled probe a storage root runs at startup to learn whether its *)
(* filesystem renames without replacing and exchanges atomically           *)
(* (internal/storage/write_atomic_rename_probe_journal.go).  Two probe     *)
(* files, source and peer, are created in the journal directory, moved     *)
(* through the write staging directory and the user's files tree, and      *)
(* removed; every step is announced in the journal first, so that the next *)
(* start finds each file again after a crash at any point.                 *)
(*                                                                         *)
(* A name of the journal is a pair <<kind, number>>; it stands for a record*)
(* that passes the validation of its kind.  Directory changes              *)
(* become durable in the order they were made: `back' holds the directory  *)
(* states a power loss may still return to.                                *)
(***************************************************************************)
EXTENDS Integers, Sequences, FiniteSets

CONSTANTS
    MaxProbeStarts,   \* bound: starts of the daemon
    MaxProbeFaults,   \* bound: calls that fail
    MaxStrangers      \* bound: files someone else puts at the probe's place in the files tree

VARIABLES
    probeDisk,        \* the probe's directories, as the process sees them
    back,             \* earlier directory states a power loss may return to
    probe,            \* the probe under way
    probeBound        \* starts, faults and strangers so far

probeVars == <<probeDisk, back, probe, probeBound>>

Places == {"source", "peer", "files", "source_isolation", "peer_isolation"}
Empty == 0
SourceObject == 1
PeerObject == 2
Stranger == 3                                         \* a file that is not the probe's
Objects == {SourceObject, PeerObject}
Isolation == <<"source_isolation", "peer_isolation">>

Setup == <<"setup", 0>>
Bound(o) == <<"bound", o>>
Manifest == <<"operation", 0>>
Phase(i) == <<"phase", i>>
Recovery == <<"recovery", 0>>
RecoveryPhase(i) == <<"recovery", i>>
CleanupRecord == <<"cleanup", 0>>
Object(o) == <<"object", o>>
NoName == <<"none", 0>>
NoPending == [name |-> NoName, whole |-> FALSE]

\* Step k of the probe: what it does, and between which places.
Moves == <<<<"move", "source_isolation", "source">>, <<"move", "peer_isolation", "peer">>,
           <<"move", "peer", "files">>, <<"reject", "source", "files">>,
           <<"reject", "files", "source">>, <<"move", "files", "peer">>,
           <<"move", "peer", "files">>, <<"exchange", "source", "files">>,
           <<"exchange", "files", "source">>, <<"move", "files", "peer">>>>

\* Where source and peer are after k steps.  Phase 2k is written after step k,
\* phase 2k + 1 announces step k + 1.
Layouts == <<<<"source_isolation", "peer_isolation">>, <<"source", "peer_isolation">>,
             <<"source", "peer">>, <<"source", "files">>, <<"source", "files">>, <<"source", "files">>,
             <<"source", "peer">>, <<"source", "files">>, <<"files", "source">>, <<"source", "files">>,
             <<"source", "peer">>>>
LastPhase == 2 * Len(Moves)
Current(i) == Layouts[(i \div 2) + 1]
Announced(i) == Layouts[((i + 1) \div 2) + 1]

\* Alphabetical order, in which cleanup removes what it finds.
RemovalOrder ==
    <<Manifest, Bound(PeerObject)>> \o [i \in 1..LastPhase + 1 |-> Phase(i - 1)]
    \o [i \in 1..4 |-> RecoveryPhase(i)] \o <<Recovery, Setup, Bound(SourceObject), CleanupRecord>>

-----------------------------------------------------------------------------
(* The probe, and the ways to recover one, as programs of steps.            *)

\* Variant: a probe file is made before the setup record names it.
BeginProgramUnnamed ==
    <<<<"write", Object(1)>>, <<"write", Setup>>, <<"write", Bound(1)>>,
      <<"write", Object(2)>>, <<"write", Bound(2)>>, <<"write", Manifest>>, <<"write", Phase(0)>>>>

BeginProgram ==
    <<<<"write", Setup>>, <<"write", Object(1)>>, <<"write", Bound(1)>>,
      <<"write", Object(2)>>, <<"write", Bound(2)>>, <<"write", Manifest>>, <<"write", Phase(0)>>>>

RunStep(i) ==
    <<<<"write", Phase(i)>>, <<"rename", Phase(i)>>, <<"verify", Phase(i)>>, <<"write", Phase(i + 1)>>>>

RunProgram == [k \in 1..4 * Len(Moves) |-> RunStep(2 * ((k - 1) \div 4) + 1)[((k - 1) % 4) + 1]]

RecoverProgram ==
    <<<<"write", Recovery>>,
      <<"observe", Object(1)>>, <<"isolate", Object(1)>>, <<"write", RecoveryPhase(1)>>,
      <<"remove", Object(1)>>, <<"write", RecoveryPhase(2)>>,
      <<"observe", Object(2)>>, <<"isolate", Object(2)>>, <<"write", RecoveryPhase(3)>>,
      <<"remove", Object(2)>>, <<"write", RecoveryPhase(4)>>,
      <<"gone", NoName>>, <<"write", CleanupRecord>>>>

\* Where recovery goes on, by the number of recovery phases it finds.
ResumeAt(r) == <<2, 5, 7, 10, 12>>[r + 1]

UndoProgram ==
    <<<<"erase", Bound(2)>>, <<"discard", Object(2)>>, <<"erase", Bound(1)>>,
      <<"discard", Object(1)>>, <<"erase", Setup>>>>

CleanupProgram == [k \in 1..Len(RemovalOrder) |-> <<"erase", RemovalOrder[k]>>]

Program(mode) ==
    CASE mode = "begin"   -> BeginProgram
      [] mode = "run"     -> RunProgram
      [] mode = "recover" -> RecoverProgram
      [] mode = "undo"    -> UndoProgram
      [] mode = "cleanup" -> CleanupProgram
Modes == {"begin", "run", "recover", "undo", "cleanup"}

-----------------------------------------------------------------------------
(* What recovery reads from the directories.                                *)

Has(n) == n \in probeDisk.records
PhaseNames == {n \in probeDisk.records : n[1] = "phase"}
RecoveryNames == {n \in probeDisk.records : n[1] = "recovery" /\ n[2] > 0}
FromOn(ns, first) == {n[2] : n \in ns} = first..(first + Cardinality(ns) - 1)

At(o) == IF \E p \in Places : probeDisk.slot[p] = o
         THEN CHOOSE p \in Places : probeDisk.slot[p] = o ELSE "missing"
Layout == <<At(SourceObject), At(PeerObject)>>
Nowhere == <<"missing", "missing">>

\* inspectLayout: every file at a place of the probe is one of its two.
Inspected == \A p \in Places : probeDisk.slot[p] # Stranger

\* The pending record has its predecessors, and nothing that comes after it.
SetupOrder == <<Setup, Object(1), Bound(1), Object(2), Bound(2), Manifest>>
InJournal == probeDisk.records \cup {Object(o) : o \in {x \in Objects : probeDisk.slot[Isolation[x]] # Empty}}
Placed(n) ==
    LET opening == {Setup, Bound(1), Bound(2), Manifest}
        later == probeDisk.records \cup {n}
        tail == (later \ opening) \ PhaseNames
    IN  \/ \E k \in 1..Len(SetupOrder) :
              SetupOrder[k] = n /\ InJournal \cup {n} = {SetupOrder[j] : j \in 1..k}
        \/ opening \subseteq later /\ n[1] = "phase" /\ later \ opening = {Phase(i) : i \in 0..n[2]}
        \/ opening \subseteq later /\ n[1] = "recovery" /\ tail = {RecoveryPhase(i) : i \in 0..n[2]}
        \/ opening \subseteq later /\ n = CleanupRecord /\ tail = {RecoveryPhase(i) : i \in 0..4} \cup {CleanupRecord}

\* A setup without a manifest is a prefix of the order it is made in, with
\* nothing outside the journal directory.
SetupPrefix ==
    /\ Has(Setup) /\ PhaseNames = {} /\ ~Has(Recovery) /\ RecoveryNames = {}
    /\ \A o \in Objects : Has(Bound(o)) => probeDisk.slot[Isolation[o]] = o
    /\ ~Has(Bound(1)) => ~Has(Bound(2)) /\ probeDisk.slot[Isolation[2]] = Empty
    /\ \A p \in Places : probeDisk.slot[p] # Empty => \E o \in Objects : p = Isolation[o] /\ probeDisk.slot[p] = o

\* The layout is the one of the last phase or the one that phase announces.
PhaseLayout ==
    LET i == Cardinality(PhaseNames) - 1
    IN  Layout \in IF i < 0 THEN {Current(0)} ELSE {Current(i), Announced(i)}

\* The layout agrees with the recovery record and the last recovery phase.
RecoveryLayout ==
    LET r == Cardinality(RecoveryNames)
    IN  /\ At(SourceObject) \in
              CASE r = 0 -> {probeDisk.from[SourceObject], "source_isolation"}
                [] r = 1 -> {"source_isolation", "missing"}
                [] OTHER -> {"missing"}
        /\ At(PeerObject) \in
              CASE r < 2 -> {probeDisk.from[PeerObject]}
                [] r = 2 -> {probeDisk.from[PeerObject], "peer_isolation"}
                [] r = 3 -> {"peer_isolation", "missing"}
                [] OTHER -> {"missing"}

ActiveJournal ==
    /\ {Setup, Bound(1), Bound(2), Manifest} \subseteq probeDisk.records
    /\ FromOn(PhaseNames, 0) /\ FromOn(RecoveryNames, 1)
    /\ RecoveryNames # {} => Has(Recovery)
    /\ Inspected

-----------------------------------------------------------------------------
(* Steps.                                                                   *)

Change(d) == probeDisk' = d /\ back' = back \cup {probeDisk}
SettleMoves == back' = {} /\ UNCHANGED probeDisk
Untouched == UNCHANGED <<probeDisk, back>>
Running == probe.mode \in Modes /\ probe.pos <= Len(Program(probe.mode))
AtStep == Program(probe.mode)[probe.pos]
Doing(op) == Running /\ AtStep[1] = op
Advance == probe' = [probe EXCEPT !.pos = @ + 1, !.dirty = FALSE]
Made == probe' = [probe EXCEPT !.dirty = TRUE]
Enter(mode, k) == probe' = [probe EXCEPT !.mode = mode, !.pos = k, !.dirty = FALSE]

\* An error of the probe starts recovery; one of recovery fails the start.
Broken ==
    IF probe.mode \in {"begin", "run"}
    THEN probe' = [probe EXCEPT !.mode = "open", !.dirty = FALSE, !.first = FALSE, !.failed = TRUE]
    ELSE Enter("failed", 1)
\* The journal or the layout is not what the probe can have left.
Refuse == Enter("refused", 1)
Unbounded == UNCHANGED probeBound
Faulting == /\ probeBound.faults < MaxProbeFaults
            /\ probeBound' = [probeBound EXCEPT !.faults = @ + 1]

\* writeJournalJSON and createBoundObject: the file is made under a pending
\* name, filled and synced, renamed, and the directory synced.
Present(n) == IF n[1] = "object" THEN probeDisk.slot[Isolation[n[2]]] = n[2] ELSE Has(n)

CreatePending ==
    /\ Doing("write") /\ ~Present(AtStep[2]) /\ probeDisk.pending = NoPending
    /\ Change([probeDisk EXCEPT !.pending = [name |-> AtStep[2], whole |-> FALSE],
                           !.from = IF AtStep[2] = Recovery THEN Layout ELSE @])
    /\ UNCHANGED probe /\ Unbounded

FillPending ==
    /\ Doing("write") /\ probeDisk.pending.name = AtStep[2] /\ ~probeDisk.pending.whole
    /\ Change([probeDisk EXCEPT !.pending.whole = TRUE])
    /\ UNCHANGED probe /\ Unbounded

Published ==
    LET n == probeDisk.pending.name
        d == [probeDisk EXCEPT !.pending = NoPending]
    IN  IF n[1] = "object" THEN [d EXCEPT !.slot[Isolation[n[2]]] = n[2]]
        ELSE [d EXCEPT !.records = @ \cup {n}]

PublishPending ==
    /\ Doing("write") /\ probeDisk.pending = [name |-> AtStep[2], whole |-> TRUE]
    /\ Change(Published) /\ Made /\ Unbounded

SyncPublished ==
    /\ Doing("write") /\ Present(AtStep[2])
    /\ SettleMoves /\ Advance /\ Unbounded

\* A rename moves whatever file is at the place, and fails when there is none
\* or, without replacing, when the target exists.
Moved(kind, a, b) ==
    IF kind = "exchange" THEN [probeDisk EXCEPT !.slot = [@ EXCEPT ![a] = probeDisk.slot[b], ![b] = probeDisk.slot[a]]]
    ELSE [probeDisk EXCEPT !.slot = [@ EXCEPT ![a] = Empty, ![b] = probeDisk.slot[a]]]
Movable(kind, a, b) ==
    probeDisk.slot[a] # Empty /\ (kind = "move" <=> probeDisk.slot[b] = Empty)

Rename ==
    /\ Doing("rename") /\ ~probe.dirty
    /\ LET m == Moves[(AtStep[2][2] + 1) \div 2]
       IN  IF ~Movable(m[1], m[2], m[3]) THEN Untouched /\ Broken
           ELSE IF m[1] = "reject" THEN Untouched /\ Advance
           ELSE Change(Moved(m[1], m[2], m[3])) /\ Made
    /\ Unbounded

\* verifyExpectedLayout, before the step is recorded as done.
VerifyStep ==
    /\ Doing("verify")
    /\ IF Inspected /\ Layout = Announced(AtStep[2][2]) THEN Advance ELSE Broken
    /\ Untouched /\ Unbounded

\* Recovery observes where the file is, then moves it into isolation.
Observe ==
    /\ Doing("observe")
    /\ IF Inspected
       THEN probe' = [probe EXCEPT !.pos = @ + 1, !.seen = At(AtStep[2][2])]
       ELSE Refuse
    /\ Untouched /\ Unbounded

Isolate ==
    /\ Doing("isolate") /\ ~probe.dirty
    /\ LET home == Isolation[AtStep[2][2]]
       IN  IF probe.seen \in {"missing", home} THEN Untouched /\ Advance
           ELSE IF ~Movable("move", probe.seen, home) THEN Untouched /\ Broken
           ELSE Change(Moved("move", probe.seen, home)) /\ Made
    /\ Unbounded

\* The directories of a rename are synced before the next step.
SyncMoved ==
    /\ (Doing("rename") \/ Doing("isolate") \/ Doing("remove") \/ Doing("discard") \/ Doing("erase"))
    /\ probe.dirty
    /\ SettleMoves /\ Advance /\ Unbounded

\* removeIsolatedObject: only a file proved to be the probe's is removed.
RemoveIsolated ==
    /\ Doing("remove") /\ ~probe.dirty
    /\ LET o == AtStep[2][2]
       IN  IF ~Inspected \/ At(o) \notin {"missing", Isolation[o]} THEN Untouched /\ Refuse
           ELSE IF At(o) = "missing" THEN Untouched /\ Advance
           ELSE Change([probeDisk EXCEPT !.slot[Isolation[o]] = Empty]) /\ Made
    /\ Unbounded

CheckGone ==
    /\ Doing("gone")
    /\ IF Inspected /\ Layout = Nowhere THEN Advance ELSE Refuse
    /\ Untouched /\ Unbounded

\* recoverIncompleteSetup removes what it found, last made first.
Discard ==
    /\ Doing("discard") /\ ~probe.dirty
    /\ LET place == Isolation[AtStep[2][2]]
       IN  IF probeDisk.slot[place] = Empty THEN Untouched /\ Advance
           ELSE Change([probeDisk EXCEPT !.slot[place] = Empty]) /\ Made
    /\ Unbounded

Erase ==
    /\ Doing("erase") /\ ~probe.dirty
    /\ IF Has(AtStep[2]) THEN Change([probeDisk EXCEPT !.records = @ \ {AtStep[2]}]) /\ Made
       ELSE Untouched /\ Advance
    /\ Unbounded

-----------------------------------------------------------------------------
(* Recovery of whatever the journal holds.                                  *)

\* A pending file that is whole is given its name, a partial one is removed;
\* a record must fit the others, a probe file must come after its setup.
WholeRecord == probeDisk.pending.whole
WholeObject == probeDisk.pending.whole
Dropped == [probeDisk EXCEPT !.pending = NoPending]

RecoverPendingRecord ==
    /\ probe.mode = "open" /\ probeDisk.pending # NoPending /\ probeDisk.pending.name[1] # "object"
    /\ IF ~Placed(probeDisk.pending.name) THEN Untouched /\ Refuse
       ELSE Change(IF WholeRecord THEN Published ELSE Dropped) /\ Made
    /\ Unbounded

RecoverPendingObject ==
    /\ probe.mode = "open" /\ probeDisk.pending.name[1] = "object"
    /\ IF ~SetupPrefix \/ Present(probeDisk.pending.name) \/ Has(Bound(probeDisk.pending.name[2]))
       THEN Untouched /\ Refuse
       ELSE Change(IF WholeObject THEN Published ELSE Dropped) /\ Made
    /\ Unbounded

SyncPending ==
    /\ probe.mode = "open" /\ probe.dirty
    /\ SettleMoves /\ probe' = [probe EXCEPT !.dirty = FALSE] /\ Unbounded

\* recoverExistingOperation, once nothing is pending.
Classify ==
    /\ probe.mode = "open" /\ probeDisk.pending = NoPending /\ ~probe.dirty
    /\ Untouched /\ Unbounded
    /\ \/ /\ InJournal = {}
          /\ Enter(IF probe.first THEN "begin" ELSE IF probe.failed THEN "failed" ELSE "usable", 1)
       \/ /\ Has(CleanupRecord)
          /\ IF Inspected /\ Layout = Nowhere THEN Enter("cleanup", 1) ELSE Refuse
       \/ /\ ~Has(CleanupRecord) /\ Has(Setup) /\ ~Has(Manifest)
          /\ IF SetupPrefix THEN Enter("undo", 1) ELSE Refuse
       \/ /\ InJournal # {} /\ ~Has(CleanupRecord) /\ ~(Has(Setup) /\ ~Has(Manifest))
          /\ IF ~ActiveJournal \/ ~(IF Has(Recovery) THEN RecoveryLayout ELSE PhaseLayout) THEN Refuse
             ELSE Enter("recover", IF Has(Recovery) THEN ResumeAt(Cardinality(RecoveryNames)) ELSE 1)

\* The end of each program.
EndProgram ==
    /\ probe.mode \in Modes /\ probe.pos > Len(Program(probe.mode))
    /\ CASE probe.mode = "begin"   -> Enter("run", 1)
         [] probe.mode = "run"     -> probe' = [probe EXCEPT !.mode = "open", !.first = FALSE]
         [] probe.mode = "recover" -> IF Inspected /\ Layout = Nowhere THEN Enter("cleanup", 1) ELSE Refuse
         [] OTHER                  -> Enter("open", 1)
    /\ Untouched /\ Unbounded

-----------------------------------------------------------------------------
(* Failures.                                                                *)

ProbeCallFails ==
    /\ Running \/ probe.mode = "open"
    /\ Faulting /\ Untouched /\ Broken

\* The process ends, with or without the power, and starts again.
ProbeStart == [mode |-> "open", pos |-> 1, dirty |-> FALSE, first |-> TRUE, failed |-> FALSE,
               seen |-> "missing"]
ProbeRestart ==
    /\ probeBound.starts < MaxProbeStarts
    /\ probeBound' = [probeBound EXCEPT !.starts = @ + 1]
    /\ \/ Untouched
       \/ probeDisk' \in back /\ back' = {}
    /\ probe' = ProbeStart

\* Someone else puts a file where the probe has its place in the files tree.
PutStranger ==
    /\ probeBound.strangers < MaxStrangers
    /\ probeBound' = [probeBound EXCEPT !.strangers = @ + 1]
    /\ probeDisk' = [probeDisk EXCEPT !.slot["files"] = Stranger]
    /\ back' = {[d EXCEPT !.slot["files"] = Stranger] : d \in back}
    /\ UNCHANGED probe

-----------------------------------------------------------------------------

ProbeInit ==
    /\ probeDisk = [records |-> {}, pending |-> NoPending, slot |-> [p \in Places |-> Empty], from |-> Nowhere]
    /\ back = {}
    /\ probe = ProbeStart
    /\ probeBound = [starts |-> 0, faults |-> 0, strangers |-> 0]

ProbeNext ==
    \/ CreatePending \/ FillPending \/ PublishPending \/ SyncPublished
    \/ Rename \/ VerifyStep \/ Observe \/ Isolate \/ SyncMoved \/ RemoveIsolated \/ CheckGone
    \/ Discard \/ Erase \/ RecoverPendingRecord \/ RecoverPendingObject \/ SyncPending \/ Classify \/ EndProgram
    \/ ProbeCallFails \/ ProbeRestart \/ PutStranger

ProbeSpec == ProbeInit /\ [][ProbeNext]_probeVars

-----------------------------------------------------------------------------

\* However often the probe is cut short by a crash, a power loss or a call that
\* fails, the next start takes what it finds: it never refuses its own
\* journal or its own layout, and when the probe is over neither a probe file
\* nor a record is left behind.  A file of someone else that came to stand at
\* the probe's place is never removed.
ProbeRecovers ==
    /\ probe.mode = "refused" => probeBound.strangers > 0
    /\ probe.mode = "usable" =>
          InJournal = {} /\ probeDisk.pending = NoPending /\ Layout = Nowhere
    /\ probeBound.strangers > 0 => \E p \in Places : probeDisk.slot[p] = Stranger
=============================================================================
