---------------------------- MODULE UploadSession ----------------------------
(***************************************************************************)
(* Resumable uploads: the session store (uploadsession/store.go) and the   *)
(* API's commit, cancel, reconcile and expiry jobs (api/upload_sessions.go)*)
(* against one target file.  A session directory holds a payload and a     *)
(* chain of numbered state files; `disk` is what processes see of it,      *)
(* `kept` what a power loss is sure to leave.                              *)
(*                                                                         *)
(* Every store operation starts by loading the directory under the         *)
(* session's lock.  Load is an action of its own here, and operations wait *)
(* for a directory that loading would not change.                          *)
(***************************************************************************)
EXTENDS Integers, Sequences, FiniteSets, FiniteSetsExt, SumOver, TLC

CONSTANTS
    Sessions,    \* (owner, client_request_id) pairs, one upload each
    Chunks,      \* chunk bodies with their ids, one byte each
    Total,       \* TotalBytes of an upload
    MaxStaged,   \* MaxStagedBytes
    MaxSessions, \* MaxSessions
    NoFile, NoRec, Absent,
    TornRemoval, \* a kill can hit the middle of RemoveAll
    MaxRev,      \* bound: revisions of a session's state
    MaxOther,    \* bound: changes of the target by others
    MaxFaults,   \* bound: failing system calls
    MaxCrashes   \* bound: kills and power losses

ASSUME UploadAssumption ==
    /\ Total \in Nat \ {0} /\ MaxStaged \in Nat /\ MaxSessions \in Nat
    /\ MaxRev \in Nat /\ MaxOther \in Nat /\ MaxFaults \in Nat /\ MaxCrashes \in Nat
    /\ TornRemoval \in BOOLEAN /\ NoRec \notin Chunks
ASSUME SessionsAssumption == IsFiniteSet(Sessions)

VARIABLES
    disk, kept,         \* session directories: visible, durable
    snap,               \* Store.sessions: the last published snapshot
    staged, total, reserved, \* stagedBySession, stagedBytes, physicalReservedBytes
    op,                 \* the operation that holds the session's lock
    hand,               \* the handler or job that holds the session's commit lock
    late,               \* revisions up to this one have expired
    listed,             \* sessions an expiry pass has listed and not visited
    target, orig,       \* the target file; OriginalCondition of each session
    gate,               \* storage requires recovery: AcquireMutationLease fails
    sys,                \* "up", "starting", "down", "refused" (startup failed)
    acked,              \* chunks whose append was answered with success (history)
    pubs,               \* publications of each session's payload (history)
    unread,             \* sessions whose failed append could not be read again (history)
    syncFailed,         \* some fsync of a session directory failed (history)
    other, faults, crashes

dirVars == <<disk, kept>>
memVars == <<snap, staged, total, reserved>>
jobVars == <<op, hand, listed>>
fileVars == <<target, orig, gate>>
histVars == <<acked, pubs, unread, syncFailed>>
bound == <<other, faults, crashes>>
vars == <<dirVars, memVars, jobVars, late, fileVars, sys, histVars, bound>>

-----------------------------------------------------------------------------
(* Session directories                                                      *)

Active == {"uploading", "ready", "committing"}
Terminal == {"committed", "conflict", "cancelled"}
NoDir == [chain |-> <<>>, payload |-> NoFile, pending |-> NoRec]
NoOp == [at |-> "idle", kind |-> "none", next |-> NoRec]
NoHand == [at |-> "free", ev |-> Absent]

\* A file somebody else put at the target; gen is its identity token.
UserFile(n) == [by |-> Absent, gen |-> n, body |-> <<>>]

\* A state file, a payload, a target file.
Recs == [rev : Nat \ {0}, st : Active \cup Terminal, off : 0..Total,
         last : [at : Nat, chunk : Chunks] \cup {NoRec}, started : BOOLEAN]
Payloads == Seq(Chunks)
Files == [by : Sessions \cup {Absent}, gen : Nat, body : Payloads]
ASSUME AbsentAssumption ==
    /\ NoRec \notin Recs \cup Files \cup {Absent} /\ NoFile \notin Payloads
    /\ Absent \notin Files \cup Sessions

Put(f, s, v) == [f EXCEPT ![s] = v]
WithState(chain, r) == [i \in DOMAIN chain \cup {r.rev} |-> IF i = r.rev THEN r ELSE chain[i]]

\* The newest state of a directory that has one.
Latest(d) == d.chain[Max(DOMAIN d.chain)]
HasState(d) == DOMAIN d.chain # {}

\* recoverPendingStates: a readable pending state becomes the next state file.
Promote(d) ==
    IF d.pending = NoRec THEN d
    ELSE [chain |-> WithState(d.chain, d.pending), payload |-> d.payload, pending |-> NoRec]

\* validateDiskState: what a state file must say whatever came before it.
ValidRec(r) ==
    /\ r.off \in 0..Total
    /\ r.st = "uploading" => r.off < Total
    /\ r.st \notin {"uploading", "cancelled"} => r.off = Total
    /\ r.started => r.st \in {"committing", "committed", "conflict"}
    /\ r.last # NoRec => r.last.at + 1 = r.off

\* A gapless tail of the chain, and the payload the newest state needs.
Loadable(d) ==
    LET p == Promote(d) IN
    HasState(p) =>
        /\ DOMAIN p.chain = Min(DOMAIN p.chain)..Max(DOMAIN p.chain)
        /\ \A i \in DOMAIN p.chain : p.chain[i].rev = i /\ ValidRec(p.chain[i])
        /\ IF Latest(p).st \in Active
             THEN p.payload # NoFile /\ Len(p.payload) >= Latest(p).off
             ELSE p.payload # NoFile => Len(p.payload) = Latest(p).off

\* loadSession: promote, drop the payload of a terminal session, cut bytes beyond the
\* durable offset, keep the last two state files.
Loaded(d) ==
    LET p == Promote(d)
        r == Latest(p)
        keep == {i \in DOMAIN p.chain : i >= r.rev - 1}
    IN IF ~HasState(p) THEN NoDir
       ELSE [chain |-> [i \in keep |-> p.chain[i]],
             payload |-> IF r.st \in Terminal THEN NoFile ELSE SubSeq(p.payload, 1, r.off),
             pending |-> NoRec]

\* What a power loss can leave: the directory's entries as seen or as last synced, and
\* the payload's bytes as seen or as last synced.
Outcomes(s) ==
    {[chain |-> e.chain, pending |-> e.pending,
      payload |-> IF e.payload = NoFile \/ p = NoFile THEN e.payload ELSE p] :
        e \in {disk[s], kept[s]}, p \in {disk[s].payload, kept[s].payload}}

Clean(s) == HasState(disk[s]) /\ Loadable(disk[s]) /\ Loaded(disk[s]) = disk[s]
Rec(s) == Latest(disk[s])
Expired(s, r) == r.st # "committing" /\ r.rev <= late[s]

Idle(s) == op[s].at = "idle"
Serving == sys = "up"
\* loadOwnedSession: known, readable and not expired.
Open(s) == Idle(s) /\ snap[s] # NoRec /\ Clean(s) /\ ~Expired(s, Rec(s))
Fault == faults < MaxFaults /\ faults' = faults + 1
NoFault == faults' = faults

Init ==
    /\ disk = [s \in Sessions |-> NoDir] /\ kept = disk
    /\ snap = [s \in Sessions |-> NoRec]
    /\ staged = [s \in Sessions |-> 0] /\ total = 0 /\ reserved = 0
    /\ op = [s \in Sessions |-> NoOp] /\ hand = [s \in Sessions |-> NoHand]
    /\ late = [s \in Sessions |-> 0] /\ listed = {}
    /\ target \in {Absent, UserFile(0)}
    /\ orig = [s \in Sessions |-> NoRec] /\ gate = FALSE /\ sys = "up"
    /\ acked = [s \in Sessions |-> <<>>] /\ pubs = [s \in Sessions |-> 0]
    /\ unread = {} /\ syncFailed = FALSE
    /\ other = 0 /\ faults = 0 /\ crashes = 0

-----------------------------------------------------------------------------
(* Publishing a state file                                                  *)

\* writeNextState begins: the operation holds the lock and writes this record next.
StartWrite(s, kind, next) ==
    op' = Put(op, s, [at |-> "write", kind |-> kind, next |-> next])

\* The record of the next revision: another status, or one more chunk.
Turned(r, st, started) ==
    [rev |-> r.rev + 1, st |-> st, off |-> r.off, last |-> r.last, started |-> started]
Grown(r, c) ==
    [rev |-> r.rev + 1, st |-> IF r.off + 1 = Total THEN "ready" ELSE "uploading",
     off |-> r.off + 1, last |-> [at |-> r.off, chunk |-> c], started |-> r.started]

\* releaseSessionStaging
Released(s) == staged' = Put(staged, s, 0) /\ total' = total - staged[s]

\* The handler that asked for a transition goes on after it: to opening the payload, to
\* publishing, or to its answer.
After == [begin |-> "open", start |-> "publish"]
HandOn(s) ==
    hand' = IF hand[s].at \in DOMAIN After
              THEN Put(hand, s, [hand[s] EXCEPT !.at = After[@]])
              ELSE IF op[s].kind \in {"create", "append"} THEN hand ELSE Put(hand, s, NoHand)

\* A failed publication marker fails the write it guards; any other failure is answered.
HandFails(s) ==
    hand' = Put(hand, s, IF hand[s].at = "start" THEN [NoHand EXCEPT !.at = "failed"] ELSE NoHand)

\* Variant: the directory is not synced after the rename.
NameStateUnsynced(s) ==
    /\ op[s].at = "write"
    /\ disk' = Put(disk, s, [disk[s] EXCEPT !.chain = WithState(@, op[s].next)])
    /\ op' = Put(op, s, [op[s] EXCEPT !.at = "compact"])
    /\ UNCHANGED <<kept, memVars, hand, listed, late, fileVars, sys, histVars, bound>>

\* publishStateFile up to the rename.
NameState(s) ==
    /\ op[s].at = "write"
    /\ disk' = Put(disk, s, [disk[s] EXCEPT !.chain = WithState(@, op[s].next)])
    /\ op' = Put(op, s, [op[s] EXCEPT !.at = "named"])
    /\ UNCHANGED <<kept, memVars, hand, listed, late, fileVars, sys, histVars, bound>>

\* The directory sync after the rename, and after each removal of a stale state.
SyncState(s) ==
    /\ op[s].at \in {"named", "unlinked"}
    /\ kept' = Put(kept, s, disk[s])
    /\ op' = Put(op, s, [op[s] EXCEPT !.at = "compact"])
    /\ UNCHANGED <<disk, memVars, hand, listed, late, fileVars, sys, histVars, bound>>

\* compactStateFiles: oldest first.
Stale(s) == {i \in DOMAIN disk[s].chain : i < op[s].next.rev - 1}
NextStale(s) == Min(Stale(s))
Compact(s) ==
    /\ op[s].at = "compact"
    /\ IF Stale(s) = {}
         THEN /\ op' = Put(op, s, [op[s] EXCEPT !.at = "written"])
              /\ UNCHANGED disk
         ELSE /\ disk' = Put(disk, s, [disk[s] EXCEPT
                    !.chain = [j \in DOMAIN @ \ {NextStale(s)} |-> @[j]]])
              /\ op' = Put(op, s, [op[s] EXCEPT !.at = "unlinked"])
    /\ UNCHANGED <<kept, memVars, hand, listed, late, fileVars, sys, histVars, bound>>

\* The state is published: the snapshot follows, an append is answered, a reservation
\* ends, a terminal session goes on to lose its payload.
Done(s) ==
    /\ op[s].at = "written"
    /\ LET r == op[s].next IN
        /\ snap' = Put(snap, s, r)
        /\ acked' = IF op[s].kind = "append" THEN Put(acked, s, disk[s].payload) ELSE acked
        /\ reserved' = IF op[s].kind = "append" THEN reserved - 1 ELSE reserved
        /\ IF r.st \in Terminal
             THEN op' = Put(op, s, [op[s] EXCEPT !.at = "purge"]) /\ UNCHANGED hand
             ELSE op' = Put(op, s, NoOp) /\ HandOn(s)
    /\ UNCHANGED <<dirVars, staged, total, listed, late, fileVars, sys, pubs, unread,
                   syncFailed, bound>>

\* removeTerminalPayload: unlink, sync the directory, release the bytes.
PurgePayload(s) ==
    /\ op[s].at = "purge"
    /\ disk' = Put(disk, s, [disk[s] EXCEPT !.payload = NoFile])
    /\ op' = Put(op, s, [op[s] EXCEPT !.at = "purged"])
    /\ UNCHANGED <<kept, memVars, hand, listed, late, fileVars, sys, histVars, bound>>

SyncPurge(s) ==
    /\ op[s].at = "purged"
    /\ kept' = Put(kept, s, disk[s])
    /\ Released(s)
    /\ op' = Put(op, s, NoOp) /\ HandOn(s)
    /\ UNCHANGED <<disk, snap, reserved, listed, late, fileVars, sys, histVars, bound>>

\* A system call of the state write fails.  Before the rename the pending file is removed
\* or, if that fails too, left behind; after it the new state stays visible.
StateWriteFails(s) ==
    /\ op[s].at \in {"write", "named", "compact", "unlinked", "purge", "purged"}
    /\ Fault
    /\ \/ op[s].at # "write" /\ UNCHANGED disk
       \/ op[s].at = "write" /\ \E left \in {NoRec, op[s].next} :
            disk' = Put(disk, s, [disk[s] EXCEPT !.pending = left])
    /\ syncFailed' = (syncFailed \/ op[s].at \in {"named", "unlinked", "purged"})
    /\ CASE op[s].kind = "create" -> op' = Put(op, s, [NoOp EXCEPT !.at = "uncreate"])
                                     /\ UNCHANGED hand
         [] op[s].kind = "append" -> op' = Put(op, s, [op[s] EXCEPT !.at = "reload"])
                                     /\ UNCHANGED hand
         [] OTHER -> op' = Put(op, s, NoOp) /\ HandFails(s)
    /\ UNCHANGED <<kept, memVars, listed, late, fileVars, sys, acked, pubs, unread,
                   other, crashes>>

-----------------------------------------------------------------------------
(* Store operations                                                         *)

\* loadSession, as every operation does first: recovery of the directory, synced, and
\* the release of a terminal session's bytes.  Only some callers publish the snapshot.
Load(s) ==
    /\ sys \in {"up", "starting"} /\ Idle(s) /\ snap[s] # NoRec
    /\ HasState(Promote(disk[s])) /\ Loadable(disk[s])
    /\ LET d == Loaded(disk[s]) IN
        /\ d # disk[s] \/ snap[s] # Latest(d)
        /\ disk' = Put(disk, s, d)
        /\ kept' = IF d = disk[s] THEN kept ELSE Put(kept, s, d)
        /\ IF Latest(d).st \in Terminal THEN Released(s) ELSE UNCHANGED <<staged, total>>
        /\ \E published \in BOOLEAN :
            /\ published \/ d # disk[s]
            /\ snap' = IF published THEN Put(snap, s, Latest(d)) ELSE snap
    /\ UNCHANGED <<reserved, jobVars, late, fileVars, sys, histVars, bound>>

\* handleCreateUploadSession and Create: the target's condition is captured, the
\* directory and an empty payload are made, the first state is written.
Create(s) ==
    /\ Serving /\ Idle(s) /\ snap[s] = NoRec /\ disk[s] = NoDir /\ kept[s] = NoDir
    /\ orig[s] = NoRec
    /\ Cardinality({t \in Sessions : snap[t] # NoRec}) < MaxSessions
    /\ \A t \in Sessions : op[t].kind # "create"
    /\ Total <= MaxStaged
    /\ orig' = Put(orig, s, target)
    /\ disk' = Put(disk, s, [NoDir EXCEPT !.payload = <<>>])
    /\ kept' = Put(kept, s, disk'[s])
    /\ StartWrite(s, "create", [rev |-> 1, st |-> "uploading", off |-> 0,
                                last |-> NoRec, started |-> FALSE])
    /\ UNCHANGED <<memVars, hand, listed, late, target, gate, sys, histVars, bound>>

\* Create failed: the directory is removed, the outcome of that is ignored.
UndoCreate(s) ==
    /\ op[s].at = "uncreate"
    /\ disk' = Put(disk, s, NoDir)
    /\ kept' \in {kept, Put(kept, s, NoDir)}
    /\ op' = Put(op, s, NoOp)
    /\ UNCHANGED <<memVars, hand, listed, late, fileVars, sys, histVars, bound>>

\* AppendChunk up to the reservation: the offset is the durable one, the chunk fits,
\* the session's bytes agree with it and the limit allows one more.
AppendChunk(s) ==
    /\ Serving /\ Open(s) /\ Rec(s).st = "uploading"
    /\ staged[s] = Rec(s).off /\ total + 1 <= MaxStaged
    /\ staged' = Put(staged, s, staged[s] + 1)
    /\ total' = total + 1 /\ reserved' = reserved + 1
    /\ op' = Put(op, s, [at |-> "reserved", kind |-> "append", next |-> Rec(s)])
    /\ UNCHANGED <<dirVars, snap, hand, listed, late, fileVars, sys, histVars, bound>>

\* The body is copied to the payload.  It may replay an id for another place (refused
\* before anything is written, as is a chunk the capacity check rejects).
WriteChunk(s, c) ==
    /\ op[s].at = "reserved"
    /\ op[s].next.last # NoRec => op[s].next.last.chunk # c
    /\ disk' = Put(disk, s, [disk[s] EXCEPT !.payload = Append(@, c)])
    /\ op' = Put(op, s, [op[s] EXCEPT !.at = "copied"])
    /\ UNCHANGED <<kept, memVars, hand, listed, late, fileVars, sys, histVars, bound>>

\* releaseStagedReservation
GiveBack(s) ==
    staged' = Put(staged, s, staged[s] - 1) /\ total' = total - 1 /\ reserved' = reserved - 1

\* The chunk is refused: the capacity check fails, or length or digest are wrong and the
\* payload is cut back; a failing cut leaves the extra bytes to the next load.
RejectChunk(s) ==
    /\ op[s].at \in {"reserved", "copied"}
    /\ LET cut == SubSeq(disk[s].payload, 1, op[s].next.off) IN
       \/ /\ disk' = Put(disk, s, [disk[s] EXCEPT !.payload = cut])
          /\ kept' = Put(kept, s, [kept[s] EXCEPT !.payload = cut]) /\ NoFault
       \/ /\ op[s].at = "copied" /\ Fault
          /\ disk' \in {disk, Put(disk, s, [disk[s] EXCEPT !.payload = cut])}
          /\ UNCHANGED kept
    /\ GiveBack(s)
    /\ op' = Put(op, s, NoOp)
    /\ UNCHANGED <<snap, hand, listed, late, fileVars, sys, histVars, other, crashes>>

\* Variant: the payload is not synced before the state that counts it.
SyncChunkSkipped(s) ==
    /\ op[s].at = "copied"
    /\ StartWrite(s, "append", Grown(op[s].next, disk[s].payload[op[s].next.off + 1]))
    /\ UNCHANGED <<dirVars, memVars, hand, listed, late, fileVars, sys, histVars, bound>>

\* payload.Sync, then the next state is prepared; the last chunk makes the session ready.
SyncChunk(s) ==
    /\ op[s].at = "copied"
    /\ kept' = Put(kept, s, [kept[s] EXCEPT !.payload = disk[s].payload])
    /\ StartWrite(s, "append", Grown(op[s].next, disk[s].payload[op[s].next.off + 1]))
    /\ UNCHANGED <<disk, memVars, hand, listed, late, fileVars, sys, histVars, bound>>

\* Variant: a failed state write always gives the reservation back.
ReloadForgotten(s) ==
    /\ op[s].at = "reload"
    /\ op' = Put(op, s, NoOp)
    /\ GiveBack(s)
    /\ UNCHANGED <<dirVars, snap, hand, listed, late, fileVars, sys, histVars, bound>>

\* After a failed state write the session is read again.  If it shows the new state the
\* reservation stands, otherwise, or if it cannot be read, it is given back.
Reload(s) ==
    /\ op[s].at = "reload"
    /\ op' = Put(op, s, NoOp)
    /\ LET d == Loaded(disk[s]) IN
       \/ /\ Loadable(disk[s]) /\ NoFault
          /\ disk' = Put(disk, s, d)
          /\ kept' = IF d = disk[s] THEN kept ELSE Put(kept, s, d)
          /\ IF Latest(d) = op[s].next
               THEN /\ reserved' = reserved - 1 /\ snap' = Put(snap, s, Latest(d))
                    /\ UNCHANGED <<staged, total>>
               ELSE GiveBack(s) /\ UNCHANGED snap
          /\ UNCHANGED unread
       \/ /\ Fault /\ GiveBack(s)
          /\ unread' = unread \cup {s}
          /\ UNCHANGED <<dirVars, snap>>
    /\ UNCHANGED <<hand, listed, late, fileVars, sys, acked, pubs, syncFailed, other, crashes>>

\* AppendChunk of the chunk the state names as last: verified against the payload and
\* answered with success.  A replay syncs nothing: one answered from a directory that a
\* killed process had not synced may be lost with the power, and acked leaves it out.
ReplayChunk(s) ==
    /\ Serving /\ Open(s) /\ Rec(s).last # NoRec /\ Rec(s).st \in Active
    /\ syncFailed \/ kept[s] = disk[s]
    /\ acked' = Put(acked, s, SubSeq(disk[s].payload, 1, Rec(s).off))
    /\ acked' # acked
    /\ UNCHANGED <<dirVars, memVars, jobVars, late, fileVars, sys, pubs, unread, syncFailed, bound>>

-----------------------------------------------------------------------------
(* Commit, cancel and reconciliation (api/upload_sessions.go)               *)

\* The quota mutation lease is held from before these positions to their end; with the
\* storage lease of "settle" nobody else changes the target.
LeaseSteps == {"start", "publish", "ok", "failed", "conflict", "probe", "settle"}
LeaseFree == \A t \in Sessions : hand[t].at \notin LeaseSteps

\* The conditions are equal: uploadConditionsEqual, matchesOriginal.
Original(s, file) == file = orig[s]
\* contentMatches: size and BLAKE3 of the target are those of the payload.
ContentMatches(s, file) == file # Absent /\ file.body = disk[s].payload

\* Bound: a commit that starts has the revisions it needs to end.
Room(s) == Rec(s).rev + 4 <= MaxRev

\* handleCommitUploadSession up to BeginCommit, for a ready session.
Commit(s) ==
    /\ Serving /\ hand[s].at = "free" /\ Open(s) /\ Rec(s).st = "ready" /\ Room(s)
    /\ StartWrite(s, "begin", Turned(Rec(s), "committing", FALSE))
    /\ hand' = Put(hand, s, [NoHand EXCEPT !.at = "begin"])
    /\ UNCHANGED <<dirVars, memVars, listed, late, fileVars, sys, histVars, bound>>

\* OpenPayload, quota admission and the first look at the target's condition.
Admit(s) ==
    /\ hand[s].at = "open" /\ Idle(s)
    /\ \E to \in {"rollback", IF Original(s, target) THEN "opened" ELSE "resolve"} :
        hand' = Put(hand, s, [NoHand EXCEPT !.at = to])
    /\ UNCHANGED <<dirVars, memVars, op, listed, late, fileVars, sys, histVars, bound>>

\* The transition a decision asks for, written while the leases are held.
Resolve(s, st) ==
    /\ Idle(s) /\ Clean(s)
    /\ StartWrite(s, st, Turned(Rec(s), st, Rec(s).started /\ st # "ready"))
    /\ hand' = Put(hand, s, [hand[s] EXCEPT !.at = "settle"])

\* rollbackUploadSessionCommit after a refused admission, and
\* resolvePrePublicationUploadSessionChange after a changed condition.
Withdraw(s) ==
    /\ hand[s].at \in {"rollback", "resolve"} /\ LeaseFree
    /\ Resolve(s, IF hand[s].at = "rollback" \/ Original(s, target) THEN "ready" ELSE "conflict")
    /\ UNCHANGED <<dirVars, memVars, listed, late, fileVars, sys, histVars, bound>>

\* Variant: the publication window is not recorded.
StartPublicationUnrecorded(s) ==
    /\ hand[s].at = "opened" /\ LeaseFree /\ Idle(s) /\ Clean(s)
    /\ hand' = Put(hand, s, [NoHand EXCEPT !.at = "publish"])
    /\ UNCHANGED <<dirVars, memVars, op, listed, late, fileVars, sys, histVars, bound>>

\* The body has been read: the mutation lease is taken and the publication window
\* recorded before storage can change the target.
StartPublication(s) ==
    /\ hand[s].at = "opened" /\ LeaseFree /\ Idle(s) /\ Clean(s)
    /\ StartWrite(s, "start", Turned(Rec(s), Rec(s).st, TRUE))
    /\ hand' = Put(hand, s, [NoHand EXCEPT !.at = "start"])
    /\ UNCHANGED <<dirVars, memVars, listed, late, fileVars, sys, histVars, bound>>

\* WriteFileIfUnchanged, as AtomicWrite promises it: published, refused as a conflict,
\* failed without effect, or left to storage recovery, which settles on either side.
Mine(s) == [by |-> s, gen |-> pubs[s], body |-> disk[s].payload]
Publish(s) ==
    /\ hand[s].at = "publish" /\ Idle(s)
    /\ \E to \in {"ok", "failed", "conflict", "free"} :
        /\ to = "conflict" <=> ~gate /\ ~Original(s, target)
        /\ gate => to = "free"
        /\ to \in {"failed", "free"} => gate \/ faults < MaxFaults
        /\ faults' = IF to \in {"failed", "free"} /\ ~gate THEN faults + 1 ELSE faults
        /\ hand' = Put(hand, s, [NoHand EXCEPT !.at = to])
        /\ gate' = (gate \/ to = "free")
        /\ \E published \in BOOLEAN :
            /\ published => to = "ok" \/ (to = "free" /\ ~gate)
            /\ to = "ok" => published
            /\ IF published
                 THEN target' = Mine(s) /\ pubs' = Put(pubs, s, pubs[s] + 1)
                 ELSE UNCHANGED <<target, pubs>>
    /\ UNCHANGED <<dirVars, memVars, op, listed, late, orig, sys, acked, unread, syncFailed,
                   other, crashes>>

\* The decision after the write: committed once the activity entry is there, conflict,
\* or by the evidence of the target after a failure.
Decide(s) ==
    \/ /\ hand[s].at = "ok"
       /\ \/ Resolve(s, "committed") /\ NoFault
          \/ hand' = Put(hand, s, NoHand) /\ Fault /\ UNCHANGED op   \* LogOnce fails
       /\ UNCHANGED <<dirVars, memVars, listed, late, fileVars, sys, histVars, other, crashes>>
    \/ /\ hand[s].at \in {"conflict", "failed"}
       /\ Resolve(s, IF hand[s].at = "failed" /\ Original(s, target) THEN "ready" ELSE "conflict")
       /\ UNCHANGED <<dirVars, memVars, listed, late, fileVars, sys, histVars, bound>>

\* reconcileCommittingUploadSession, by startup, by the periodic job or by a repeated
\* commit: the target is looked at without the storage lease.
Reconcile(s) ==
    /\ sys \in {"up", "starting"} /\ hand[s].at = "free"
    /\ Open(s) /\ Rec(s).st = "committing" /\ LeaseFree /\ ~gate
    /\ hand' = Put(hand, s, [at |-> "probe", ev |-> target])
    /\ UNCHANGED <<dirVars, memVars, op, listed, late, fileVars, sys, histVars, bound>>

\* The outcome reconciliation reads off the evidence.
Verdict(s, file) ==
    IF Original(s, file) THEN "ready"
    ELSE IF Rec(s).started /\ ContentMatches(s, file) THEN "committed"
    ELSE "conflict"

\* Under the storage lease the evidence is compared again; a drifted target is left to
\* the next attempt.
Settle(s) ==
    /\ hand[s].at = "probe" /\ Idle(s)
    /\ \/ /\ ~gate /\ target = hand[s].ev /\ Resolve(s, Verdict(s, hand[s].ev))
       \/ /\ gate \/ target # hand[s].ev
          /\ hand' = Put(hand, s, NoHand) /\ UNCHANGED op
    /\ UNCHANGED <<dirVars, memVars, listed, late, fileVars, sys, histVars, bound>>

\* handleCancelUploadSession
Cancel(s) ==
    /\ Serving /\ hand[s].at = "free" /\ Open(s) /\ Rec(s).st \in {"uploading", "ready"}
    /\ StartWrite(s, "cancelled", Turned(Rec(s), "cancelled", Rec(s).started))
    /\ hand' = Put(hand, s, [NoHand EXCEPT !.at = "cancel"])
    /\ UNCHANGED <<dirVars, memVars, listed, late, fileVars, sys, histVars, bound>>

-----------------------------------------------------------------------------
(* Expiry                                                                   *)

\* 72 hours pass since the session's newest state.
TimePasses(s) ==
    /\ HasState(disk[s]) /\ late[s] < Rec(s).rev
    /\ late' = Put(late, s, Rec(s).rev)
    /\ UNCHANGED <<dirVars, memVars, jobVars, fileVars, sys, histVars, bound>>

\* CleanupExpired lists candidates from the snapshots under the store's read lock.
ListExpired ==
    /\ Serving /\ listed = {}
    /\ listed' = {s \in Sessions : snap[s] # NoRec /\ Expired(s, snap[s])}
    /\ listed' # {}
    /\ UNCHANGED <<dirVars, memVars, op, hand, late, fileVars, sys, histVars, bound>>

\* Variant: the listing is trusted.
StillExpiredAsListed(s) == TRUE

\* It then takes each session's lock and looks at the directory again.
StillExpired(s) == Expired(s, Rec(s))
VisitListed(s) ==
    /\ s \in listed /\ Idle(s)
    /\ Clean(s) \/ ~HasState(Promote(disk[s])) \/ ~Loadable(disk[s])
    /\ listed' = listed \ {s}
    /\ IF Clean(s) /\ StillExpired(s)
         THEN op' = Put(op, s, [at |-> "remove", kind |-> "expire", next |-> NoRec])
         ELSE UNCHANGED op
    /\ UNCHANGED <<dirVars, memVars, hand, late, fileVars, sys, histVars, bound>>

\* removeSessionDirUnchecked: RemoveAll takes the entries in any order.
Remnants(d) ==
    IF ~TornRemoval THEN {NoDir}
    ELSE {[chain |-> [i \in left |-> d.chain[i]], payload |-> p, pending |-> NoRec] :
            left \in SUBSET DOMAIN d.chain, p \in {d.payload, NoFile}}
RemoveDir(s) ==
    /\ op[s].at = "remove" /\ disk[s] # NoDir
    /\ disk' \in {Put(disk, s, d) : d \in Remnants(disk[s]) \ {disk[s]}}
    /\ UNCHANGED <<kept, memVars, jobVars, late, fileVars, sys, histVars, bound>>

\* The root is synced, the bytes released and the snapshot dropped; if the sync fails
\* neither is done.
SyncRemoval(s) ==
    /\ op[s].at = "remove" /\ disk[s] = NoDir
    /\ op' = Put(op, s, NoOp)
    /\ \/ /\ kept' = Put(kept, s, NoDir) /\ Released(s)
          /\ snap' = Put(snap, s, NoRec) /\ NoFault
       \/ Fault /\ UNCHANGED <<kept, staged, total, snap>>
    /\ UNCHANGED <<disk, reserved, hand, listed, late, fileVars, sys, histVars, other, crashes>>

-----------------------------------------------------------------------------
(* Others, crashes, startup                                                 *)

\* Another request replaces or deletes the target.  Requests that change files take the
\* mutation lease or wait for the storage lease.
OtherChanges ==
    /\ Serving /\ other < MaxOther /\ ~gate
    /\ \A s \in Sessions : hand[s].at \notin LeaseSteps \ {"probe"}
    /\ other' = other + 1
    /\ target' \in {Absent, UserFile(other')} \ {target}
    /\ UNCHANGED <<dirVars, memVars, jobVars, late, orig, gate, sys, histVars, faults, crashes>>

\* The memory of the process is gone; a publication under way ends on either side.
Die ==
    /\ sys \in {"up", "starting"} /\ crashes < MaxCrashes
    /\ crashes' = crashes + 1 /\ sys' = "down"
    /\ snap' = [s \in Sessions |-> NoRec]
    /\ staged' = [s \in Sessions |-> 0] /\ total' = 0 /\ reserved' = 0
    /\ op' = [s \in Sessions |-> NoOp] /\ hand' = [s \in Sessions |-> NoHand]
    /\ listed' = {} /\ gate' = FALSE /\ unread' = {}
    /\ \/ UNCHANGED <<target, pubs>>
       \/ \E s \in Sessions :
            /\ hand[s].at = "publish" /\ Idle(s) /\ Original(s, target) /\ ~gate
            /\ target' = Mine(s) /\ pubs' = Put(pubs, s, pubs[s] + 1)
    /\ UNCHANGED <<late, orig, syncFailed, other, faults>>

Kill == Die /\ UNCHANGED <<dirVars, acked>>

\* After a failed fsync a power loss may take what was answered; acked forgets it.
PowerLoss ==
    /\ Die
    /\ acked' = IF syncFailed THEN [s \in Sessions |-> <<>>] ELSE acked
    /\ disk' \in [Sessions -> UNION {Outcomes(s) : s \in Sessions}]
    /\ \A s \in Sessions : disk'[s] \in Outcomes(s)
    /\ kept' = disk'

\* Open and recoverAll: every directory is loaded, or startup fails.  Open syncs the
\* root; a session directory is synced only if loading it changed something.
Restart ==
    /\ sys = "down"
    /\ IF \A s \in Sessions : Loadable(disk[s])
         THEN LET d == [s \in Sessions |-> Loaded(disk[s])]
                  live == {s \in Sessions : HasState(d[s])}
              IN /\ disk' = d
                 /\ kept' = [s \in Sessions |->
                        IF d[s] = disk[s] /\ d[s] # NoDir THEN kept[s] ELSE d[s]]
                 /\ snap' = [s \in Sessions |-> IF s \in live THEN Latest(d[s]) ELSE NoRec]
                 /\ staged' = [s \in Sessions |->
                        IF s \in live /\ Latest(d[s]).st \in Active THEN Latest(d[s]).off ELSE 0]
                 /\ total' = SumOver(staged', Sessions)
                 /\ sys' = "starting"
         ELSE sys' = "refused" /\ UNCHANGED <<dirVars, snap, staged, total>>
    /\ UNCHANGED <<reserved, jobVars, late, fileVars, histVars, bound>>

\* Routes open once no session is left committing.
Serve ==
    /\ sys = "starting" /\ \A s \in Sessions : Idle(s) /\ hand[s].at = "free"
    /\ \A s \in Sessions : HasState(disk[s]) => Rec(s).st # "committing"
    /\ sys' = "up"
    /\ UNCHANGED <<dirVars, memVars, jobVars, late, fileVars, histVars, bound>>

\* Reconciliation at startup failed: the process ends and is started again.
GiveUp ==
    /\ sys = "starting" /\ \A s \in Sessions : Idle(s) /\ hand[s].at = "free"
    /\ \E s \in Sessions : HasState(disk[s]) /\ Rec(s).st = "committing"
    /\ sys' = "down"
    /\ UNCHANGED <<dirVars, memVars, jobVars, late, fileVars, histVars, bound>>

\* Nobody asks for anything more.
AllQuiet ==
    /\ Serving /\ listed = {} /\ \A s \in Sessions : Idle(s) /\ hand[s].at = "free"
    /\ UNCHANGED vars

Step(s) ==
    \/ NameState(s) \/ SyncState(s) \/ Compact(s) \/ Done(s) \/ PurgePayload(s) \/ SyncPurge(s)
    \/ Reload(s) \/ UndoCreate(s) \/ SyncChunk(s) \/ RemoveDir(s) \/ SyncRemoval(s)
    \/ Admit(s) \/ Withdraw(s) \/ StartPublication(s) \/ Publish(s) \/ Decide(s) \/ Settle(s)
Request(s) ==
    \/ Create(s) \/ AppendChunk(s) \/ (\E c \in Chunks : WriteChunk(s, c)) \/ RejectChunk(s)
    \/ ReplayChunk(s) \/ Commit(s) \/ Cancel(s) \/ Load(s) \/ Reconcile(s)
Next ==
    \/ \E s \in Sessions : Step(s) \/ Request(s) \/ StateWriteFails(s) \/ TimePasses(s)
                           \/ VisitListed(s)
    \/ ListExpired \/ OtherChanges \/ Kill \/ PowerLoss \/ Restart \/ Serve \/ GiveUp \/ AllQuiet

Spec == Init /\ [][Next]_vars

-----------------------------------------------------------------------------
(* Properties                                                               *)

\* Whenever the process dies and whatever the filesystem keeps, every session directory
\* can be loaded again, so the store opens (recoverAll refuses startup otherwise).
CrashLoadable == \A s \in Sessions : \A d \in Outcomes(s) : Loadable(d)

\* A chunk answered with success is in the payload under the durable offset for as long
\* as the session is active, over kills and, unless an fsync failed, over power losses.
\* Not so a repeated chunk that was answered before anything of it was synced: see
\* ReplayChunk.
AckedKept ==
    \A s \in Sessions : \A d \in (IF syncFailed THEN {disk[s]} ELSE Outcomes(s)) :
        acked[s] # <<>> =>
            IF HasState(Promote(d))
              THEN LET r == Latest(Promote(d)) IN
                   r.st \in Active => /\ r.off >= Len(acked[s])
                                      /\ SubSeq(d.payload, 1, Len(acked[s])) = acked[s]
              ELSE late[s] > 0

\* The byte counters add up, and the bytes counted for an active session are those of
\* its durable offset, unless a failed append could not be read again.
Counted ==
    /\ total = SumOver(staged, Sessions)
    /\ reserved = Cardinality({s \in Sessions : op[s].kind = "append"})
    /\ \A s \in Sessions :
        sys \in {"up", "starting"} /\ Idle(s) /\ s \notin unread /\ HasState(Promote(disk[s]))
        /\ snap[s] # NoRec
        => LET r == Latest(Promote(disk[s])) IN r.st \in Active => staged[s] = r.off

\* The session's state never lies about the target: a session that may still be committed
\* or that ended without success is not what the target holds, in every state a crash can
\* leave; "committed" is recorded only while the target holds the session's content (put
\* there by it or by an upload of the same content: reconciliation compares the bytes);
\* and a payload that replaces an existing file is published at most once, whatever
\* crashes, repeated commits and reconciliations follow.
OutcomeHonest ==
    \A s \in Sessions :
        /\ \A d \in Outcomes(s) :
            HasState(Promote(d)) /\ Latest(Promote(d)).st \notin {"committing", "committed"}
            => target = Absent \/ target.by # s
        /\ op[s].kind = "committed" =>
            target # Absent /\ disk[s].payload \in {target.body, NoFile}
        /\ orig[s] \notin {NoRec, Absent} => pubs[s] <= 1

\* Nothing removes a session whose publication may have begun: no expiry pass, failed
\* creation or other request, and no power loss once any state of it is durable, which
\* one is before storage is called.
UndecidedKept ==
    [][\A s \in Sessions :
        HasState(disk[s]) /\ Rec(s).st = "committing" /\ HasState(kept[s])
        => HasState(disk'[s])]_vars

=============================================================================
