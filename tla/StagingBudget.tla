--------------------------- MODULE StagingBudget ----------------------------
(***************************************************************************)
(* The byte budget of write staging (write_staging_budget.go): concurrent  *)
(* bodies reserve space chunk by chunk against a limit and against the     *)
(* free space of the filesystem, write, consume what they wrote, trim the  *)
(* rest and release when their stage is gone.  Publication brings the old  *)
(* target into write-staging without a reservation.  Counters are unsigned *)
(* words and wrap.  The statements a body runs outside budget.mu           *)
(* interleave.                                                             *)
(***************************************************************************)
EXTENDS Integers, FiniteSets, SumOver

CONSTANTS
    Writers,    \* request bodies being staged
    Limit,      \* maxWriteStagingBytes, also the largest body
    Chunks,     \* lengths of the buffers io.Copy hands over
    OldSizes,   \* sizes of the targets replaced, 0 for a file that is new
    Disk,       \* free bytes of the staging filesystem at the start
    MinFree,    \* config.MinFreeSpace
    MaxOther,   \* bound: bytes others may take from the filesystem
    MaxFaults,  \* bound: short writes, statfs and removal errors
    MaxRestarts,\* bound: restarts
    Word        \* 2^64, scaled down

ASSUME BudgetAssumption ==
    /\ Limit \in Nat /\ Disk \in Nat /\ MinFree \in Nat /\ Word \in Nat
    /\ MaxOther \in Nat /\ MaxFaults \in Nat /\ MaxRestarts \in Nat
    /\ Chunks \subseteq Nat \ {0} /\ OldSizes \subseteq Nat /\ Limit < Word /\ Disk < Word
    /\ IsFiniteSet(Writers)

VARIABLES
    used, pending,     \* writeStagingBudget
    reserved, unspent, \* each reservation: reserved and pending bytes
    stage,             \* bytes of each body, until it is canonical or removed
    captured,          \* bytes of its old target, captured in write-staging
    orphans,           \* bytes left in write-staging by earlier processes
    base,              \* part of used that belongs to no reservation
    free, other,       \* free bytes; bytes others took so far
    pc, chunk,         \* position; buffer in flight: length, request, written
    blocked, marker,   \* write gate; recovery evidence in write-staging
    faults, restarts

budget == <<used, pending, reserved, unspent, base>>
disk == <<stage, captured, orphans, free, other>>
gate == <<blocked, marker>>
bound == <<faults, restarts>>
vars == <<budget, disk, pc, chunk, gate, bound>>

NoChunk == [len |-> 0, request |-> 0, wrote |-> 0]
InFlight == {"copy", "reserve", "write", "consume", "ended", "sealed", "failed",
             "published"}
LockFree == \A w \in Writers : pc[w] # "published"       \* the mutation lease
Plus(a, b) == (a + b) % Word
Minus(a, b) == (a - b) % Word
Total(f) == SumOver(f, Writers)
Goto(w, s) == pc' = [pc EXCEPT ![w] = s]
Fault == faults < MaxFaults /\ faults' = faults + 1

Init ==
    /\ used = 0 /\ pending = 0 /\ base = 0
    /\ reserved = [w \in Writers |-> 0] /\ unspent = reserved
    /\ stage = reserved /\ captured = reserved /\ orphans = 0
    /\ free = Disk /\ other = 0
    /\ pc = [w \in Writers |-> "idle"]
    /\ chunk = [w \in Writers |-> NoChunk]
    /\ blocked = FALSE /\ marker = FALSE
    /\ faults = 0 /\ restarts = 0

-----------------------------------------------------------------------------
(* One body                                                                *)

\* stageWriteReader: an empty stage and a fresh reservation, under the shared
\* staging lock.
Open(w) ==
    /\ pc[w] = "idle" /\ ~blocked
    /\ Goto(w, "copy")
    /\ UNCHANGED <<budget, disk, chunk, gate, bound>>

\* Write: cut the buffer to what the body may still hold; reserve only what the
\* reservation lacks.
Write(w, n) ==
    /\ pc[w] = "copy" /\ stage[w] + n <= Limit + 1
    /\ LET request == IF n > Limit - stage[w] THEN Limit - stage[w] ELSE n
       IN /\ chunk' = [chunk EXCEPT ![w] = [len |-> n, request |-> request, wrote |-> 0]]
          /\ Goto(w, IF request = 0 THEN "ended"
                     ELSE IF unspent[w] < request THEN "reserve" ELSE "write")
    /\ UNCHANGED <<budget, disk, gate, bound>>

Grow(w) == chunk[w].request - unspent[w]

\* Variant: bytes other bodies have reserved and not yet written are not counted.
AdmitsIgnoringPending(n) ==
    /\ n <= Word - 1 - used /\ used + n <= Limit
    /\ free >= MinFree + n

\* reserve's checks, made with budget.mu held over a fresh statfs sample.
Admits(n) ==
    /\ n <= Word - 1 - used /\ n <= Word - 1 - pending
    /\ used + n <= Limit
    /\ free >= MinFree + pending + n

Reserve(w) ==
    /\ pc[w] = "reserve"
    /\ \/ /\ Admits(Grow(w))
          /\ used' = Plus(used, Grow(w)) /\ pending' = Plus(pending, Grow(w))
          /\ reserved' = [reserved EXCEPT ![w] = Plus(@, Grow(w))]
          /\ unspent' = [unspent EXCEPT ![w] = Plus(@, Grow(w))]
          /\ Goto(w, "write")
          /\ UNCHANGED <<base, faults>>
       \/ /\ (~Admits(Grow(w)) /\ UNCHANGED faults) \/ Fault
          /\ Goto(w, "ended")
          /\ UNCHANGED budget
    /\ UNCHANGED <<disk, chunk, gate, restarts>>

\* The file takes n bytes of the request; fewer is a short write or ENOSPC.
WriteStage(w, n) ==
    /\ pc[w] = "write" /\ n <= chunk[w].request /\ n <= free
    /\ IF n = chunk[w].request \/ n = free THEN UNCHANGED faults ELSE Fault
    /\ stage' = [stage EXCEPT ![w] = @ + n]
    /\ free' = free - n
    /\ chunk' = [chunk EXCEPT ![w].wrote = n]
    /\ Goto(w, IF n = 0 THEN "ended" ELSE "consume")
    /\ UNCHANGED <<budget, captured, orphans, other, gate, restarts>>

\* consume: what was written is no longer pending; a buffer that was cut or
\* written short ends the copy with an error.
Consume(w) ==
    /\ pc[w] = "consume" /\ chunk[w].wrote <= unspent[w] /\ chunk[w].wrote <= pending
    /\ unspent' = [unspent EXCEPT ![w] = Minus(@, chunk[w].wrote)]
    /\ pending' = Minus(pending, chunk[w].wrote)
    /\ Goto(w, IF chunk[w].wrote = chunk[w].len THEN "copy" ELSE "ended")
    /\ chunk' = [chunk EXCEPT ![w].wrote = 0]
    /\ UNCHANGED <<used, reserved, base, disk, gate, bound>>

\* trimPending gives back what the copy did not use, in the return path of io.Copy.
TrimPending(w) ==
    /\ unspent' = [unspent EXCEPT ![w] = 0]
    /\ reserved' = [reserved EXCEPT ![w] = Minus(@, unspent[w])]
    /\ pending' = Minus(pending, unspent[w])
    /\ used' = Minus(used, unspent[w])

EndCopy(w) ==
    /\ pc[w] \in {"copy", "ended"}
    /\ TrimPending(w)
    /\ Goto(w, IF pc[w] = "copy" THEN "sealed" ELSE "failed")
    /\ chunk' = [chunk EXCEPT ![w] = NoChunk]
    /\ UNCHANGED <<base, disk, gate, bound>>

\* release: everything the reservation still holds.
Release(w) ==
    /\ used' = Minus(used, reserved[w]) /\ pending' = Minus(pending, unspent[w])
    /\ reserved' = [reserved EXCEPT ![w] = 0] /\ unspent' = [unspent EXCEPT ![w] = 0]
    /\ UNCHANGED base

\* The journaled publication, under the mutation lock: from its first checkpoint
\* on the journal says what becomes of the write.  The exchange puts the old
\* target, n bytes, under the stage's name; no reservation is made for it.
Publish(w, n) ==
    /\ pc[w] = "sealed" /\ LockFree /\ ~blocked
    /\ captured' = [captured EXCEPT ![w] = n]
    /\ Goto(w, "published")
    /\ UNCHANGED <<budget, stage, orphans, free, other, chunk, gate, bound>>

\* The write committed or rolled back and nothing of it is left in write-staging:
\* on commit the body is the target and the captured file is removed, otherwise
\* the body is.
Settle(w, kept) ==
    /\ pc[w] \in {"sealed", "failed", "published"} /\ (kept => pc[w] = "published")
    /\ Release(w)
    /\ free' = free + (IF kept THEN captured[w] ELSE stage[w])
    /\ stage' = [stage EXCEPT ![w] = 0]
    /\ captured' = [captured EXCEPT ![w] = 0]
    /\ Goto(w, "done")
    /\ UNCHANGED <<orphans, other, chunk, gate, bound>>

\* Variant: the reservation is released although its stage stays.
RetainReleased(w) ==
    /\ pc[w] \in {"sealed", "failed"} /\ LockFree /\ Fault
    /\ Release(w)
    /\ blocked' = TRUE /\ marker' = TRUE
    /\ Goto(w, "retained")
    /\ UNCHANGED <<disk, chunk, restarts>>

\* discard could not remove the stage: stage and reservation stay.  Only the
\* deferred discard leaves a marker and closes the gate; one that failed in the
\* locked runtime, or after a closed gate refused the lock, goes unmarked.
Retain(w) ==
    /\ pc[w] \in {"sealed", "failed"} /\ LockFree /\ Fault
    /\ \/ blocked' = TRUE /\ marker' = TRUE
       \/ pc[w] = "sealed" /\ UNCHANGED gate
    /\ Goto(w, "retained")
    /\ UNCHANGED <<budget, disk, chunk, restarts>>

\* blockWriteTransactionRuntimeLocked: the write could not be recovered; body,
\* captured target and reservation stay, and the journal is the evidence.
Halt(w) ==
    /\ pc[w] = "published" /\ Fault
    /\ blocked' = TRUE
    /\ Goto(w, "halted")
    /\ UNCHANGED <<budget, disk, chunk, marker, restarts>>

-----------------------------------------------------------------------------
(* The rest of the system                                                  *)

\* Other files on the same filesystem.
OtherTakes == /\ other < MaxOther /\ free > 0
              /\ other' = other + 1 /\ free' = free - 1
              /\ UNCHANGED <<budget, stage, captured, orphans, pc, chunk, gate, bound>>

\* Variant: bodies in flight are not excluded.
CleanupUnlocked ==
    /\ ~blocked /\ ~marker
    /\ orphans + Total(stage) > 0
    /\ used' = 0 /\ pending' = 0 /\ base' = 0
    /\ free' = free + orphans /\ orphans' = 0
    /\ UNCHANGED <<reserved, unspent, stage, captured, other, pc, chunk, gate, bound>>

\* CleanupStaging under the exclusive staging lock: evidence closes the gate,
\* otherwise the directory is emptied, of retained stages too, and the budget
\* reset.
Cleanup ==
    /\ ~blocked /\ orphans + Total(stage) > 0
    /\ \A w \in Writers : pc[w] \notin InFlight
    /\ IF marker
       THEN blocked' = TRUE /\ UNCHANGED <<budget, stage, free, orphans>>
       ELSE /\ used' = 0 /\ pending' = 0 /\ base' = 0
            /\ reserved' = [w \in Writers |-> 0] /\ unspent' = reserved'
            /\ free' = free + orphans + Total(stage)
            /\ orphans' = 0 /\ stage' = reserved'
            /\ UNCHANGED blocked
    /\ UNCHANGED <<captured, other, pc, chunk, marker, bound>>

\* The writes the journal knows of, and bytes of the others.
Journaled == {w \in Writers : pc[w] \in {"published", "halted"}}
Unknown == [w \in Writers |-> IF w \in Journaled THEN 0 ELSE stage[w]]
\* What recovering the journaled ones, forward or back, removes.
Recovered(forward) ==
    [w \in Writers |-> IF w \notin Journaled THEN 0
                       ELSE IF forward THEN captured[w] ELSE stage[w]]

\* Restart: the journal is recovered first; then newWriteStagingBudget starts from
\* the bytes found in write-staging, or from the limit when they cannot be listed.
Restart(listed, forward) ==
    /\ restarts < MaxRestarts /\ restarts' = restarts + 1
    /\ orphans' = orphans + Total(Unknown)
    /\ free' = free + Total(Recovered(forward))
    /\ base' = IF listed /\ orphans' < Limit THEN orphans' ELSE Limit
    /\ used' = base' /\ pending' = 0
    /\ reserved' = [w \in Writers |-> 0] /\ unspent' = reserved'
    /\ stage' = reserved' /\ captured' = reserved'
    /\ pc' = [w \in Writers |-> IF pc[w] = "idle" THEN "idle" ELSE "done"]
    /\ chunk' = [w \in Writers |-> NoChunk]
    /\ blocked' = FALSE
    /\ UNCHANGED <<other, marker, faults>>

AllServed == /\ \A w \in Writers : \/ pc[w] \in {"done", "retained", "halted"}
                                   \/ pc[w] = "idle" /\ blocked
             /\ UNCHANGED vars

Next ==
    \/ \E w \in Writers :
         \/ Open(w) \/ Reserve(w) \/ Consume(w) \/ EndCopy(w) \/ Retain(w) \/ Halt(w)
         \/ \E n \in Chunks : Write(w, n)
         \/ \E n \in 0..Limit : WriteStage(w, n)
         \/ \E n \in OldSizes : Publish(w, n)
         \/ \E kept \in BOOLEAN : Settle(w, kept)
    \/ OtherTakes \/ Cleanup \/ AllServed
    \/ \E listed, forward \in BOOLEAN : Restart(listed, forward)

Spec == Init /\ [][Next]_vars

-----------------------------------------------------------------------------
(* Properties                                                              *)

\* The two counters are exactly what the reservations hold, retained ones included,
\* on top of what was found at startup: no release, trim or reset is lost, doubled
\* or wraps a counter around.
Accounted ==
    /\ used = base + Total(reserved)
    /\ pending = Total(unspent)

\* Every byte newly allocated for a body, until it is canonical or removed, and
\* every byte found at startup is covered by the budget, which stays within its
\* limit, also across failed removals, failed recoveries, restarts and cleanups.
\* Captured targets have no reservation: they can take write-staging over the
\* limit, but by one target at a time.
StageCovered ==
    /\ orphans + Total(stage) <= used /\ used <= Limit
    /\ \A v, w \in Writers : captured[v] > 0 /\ captured[w] > 0 => v = w

\* Staging alone never takes the filesystem below the configured minimum, with
\* several bodies growing at the same time: the free bytes, without what others took,
\* still cover the minimum and every byte reserved but not yet written.
FloorKept ==
    Disk >= MinFree =>
        free + other >= MinFree + Total(unspent) - Total([w \in Writers |-> chunk[w].wrote])

=============================================================================
