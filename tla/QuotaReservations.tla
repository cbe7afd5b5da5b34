------------------------- MODULE QuotaReservations -------------------------
(***************************************************************************)
(* Byte quotas of user homes and directories                               *)
(* (src/internal/quota/reservation.go, src/internal/api/quota.go and the   *)
(* quota half of src/internal/webdav/handler.go).                          *)
(*                                                                         *)
(* The coordinator keeps, per scope, the bytes that requests in flight     *)
(* were promised, and one mutation gate.  Reserve measures what a request  *)
(* needs, scans what the scope uses and registers the promise, all under   *)
(* the gate.  An upload then reads its body without the gate and takes it  *)
(* again for the commit; the commit is conditional on the target the       *)
(* snapshot saw.  COPY, MOVE and the restores take the gate again, measure *)
(* and scan afresh, replace their promise and only then change the tree.   *)
(* Deletions take no gate at all.                                          *)
(*                                                                         *)
(* A path is a sequence of names; only files are recorded, a directory is  *)
(* a prefix of one.  What a request measures and what it scans are two     *)
(* steps, because a deletion may come between them.                        *)
(***************************************************************************)
EXTENDS Naturals, Sequences, FiniteSets, FiniteSetsExt, SequencesExt

CONSTANTS
  QuotaFiles,       \* the paths a file may be at
  QuotaTrees,       \* the paths requests name: files and directories
  QuotaScopes,      \* the limited scopes: <<"user", home>> or <<"directory", path>>
  ScopeLimit,       \* the bytes each scope may use
  QuotaCalls,       \* the requests in flight
  FirstSizes,       \* the sizes files may have at the start (0: no file)
  NoCall, NoFile,
  MaxFileBytes,     \* the upload limit
  GrowthChunk,      \* what a body of unknown length asks for at a time
  MaxQuotaOps,      \* requests started, in all
  MaxQuotaDeletes,  \* deletions, in all
  MaxQuotaFaults    \* storage failures, in all

ASSUME LimitAssumption == ScopeLimit \in [QuotaScopes -> Nat]

VARIABLES
  stored,           \* the file at each path, or NoFile
  binned,           \* the one item in the trash, or NoFile
  quotaCall,        \* the requests
  promised,         \* Coordinator.reserved
  mutationGate,     \* who holds the mutation gate, or NoCall
  quotaBound,       \* counters of the bounds and of the identities given out
  quotaHist         \* what the property leaves out of its promise

quotaVars == <<stored, binned, quotaCall, promised, mutationGate, quotaBound, quotaHist>>

----------------------------------------------------------------------------
(* Sizes and scopes. *)

PathWithin(root, p) == IsPrefix(root, p)
PathNames == UNION {Prefixes(f) : f \in QuotaFiles}
FilesBelow == [p \in PathNames |-> {f \in QuotaFiles : PathWithin(p, f)}]
FilesIn(tree, p) == IF p \in PathNames THEN {f \in FilesBelow[p] : tree[f] # NoFile} ELSE {}
SizeIn(tree, p) == MapThenSumSet(LAMBDA f : tree[f].size, FilesIn(tree, p))
FilesUnder(p) == FilesIn(stored, p)
LogicalSize(p) == SizeIn(stored, p)
Monus(a, b) == IF a > b THEN a - b ELSE 0
NoBytes == [s \in QuotaScopes |-> 0]

\* Where the part of the tree at root that will be at or below the limited
\* path q is found today, once the tree is seen at mapped.
MappedTreePath(root, mapped, q) ==
  IF PathWithin(q, mapped) THEN root
  ELSE root \o SubSeq(q, Len(mapped) + 1, Len(q))

MappedTreeSize(root, mapped, q) ==
  IF PathWithin(q, mapped) \/ PathWithin(mapped, q)
  THEN LogicalSize(MappedTreePath(root, mapped, q)) ELSE 0

Remapped(src, dst, f) == dst \o SubSeq(f, Len(src) + 1, Len(f))

IdleCall == [at |-> "idle"]
Uploading(c) == c.kind \in {"put", "stream"}
InQuota(r) == quotaCall[r].at # "idle"

\* The scopes whose limit a request is held to: every directory rule, and the
\* home quota of the account that asks (of every account, for a version).
RulesFor(c) ==
  {s \in QuotaScopes : s[1] = "directory" \/ c.kind = "version" \/ c.actor = "user"}

----------------------------------------------------------------------------
(* What a request needs, per scope. *)

CopyRequired(c) ==
  Monus(LogicalSize(c.src), IF c.over THEN LogicalSize(c.dst) ELSE 0)

UploadNeeds(c, s) ==
  IF PathWithin(s[2], c.dst) THEN Monus(c.len, c.cond.size) ELSE 0

CopyNeeds(c, s) ==
  IF PathWithin(s[2], c.dst) THEN CopyRequired(c)
  ELSE IF s[1] = "user" THEN 0 ELSE MappedTreeSize(c.src, c.dst, s[2])

MoveNeeds(c, s) ==
  IF s[1] = "user"
  THEN IF PathWithin(s[2], c.dst) /\ ~PathWithin(s[2], c.src) THEN LogicalSize(c.src) ELSE 0
  ELSE Monus(MappedTreeSize(c.src, c.dst, s[2]), MappedTreeSize(c.src, c.src, s[2]))

\* The trash item's files, counted where they will come back to.
TrashRestoreNeeds(c, s) ==
  IF binned = NoFile \/ binned.tag # c.item THEN 0
  ELSE MapThenSumSet(LAMBDA f : binned.files[f].size,
         {f \in DOMAIN binned.files :
            IF s[1] = "user" THEN PathWithin(s[2], c.dst)
            ELSE PathWithin(s[2], Remapped(binned.origin, c.dst, f))})

VersionNeeds(c, s) ==
  IF PathWithin(s[2], c.dst) /\ stored[c.dst] # NoFile
  THEN Monus(c.len, stored[c.dst].size) ELSE 0

Needs(c) ==
  [s \in QuotaScopes |->
     IF s \notin RulesFor(c) THEN 0
     ELSE CASE c.kind = "put"     -> UploadNeeds(c, s)
            [] c.kind = "stream"  -> 0
            [] c.kind = "copy"    -> CopyNeeds(c, s)
            [] c.kind = "move"    -> MoveNeeds(c, s)
            [] c.kind = "trash"   -> TrashRestoreNeeds(c, s)
            [] c.kind = "version" -> VersionNeeds(c, s)]

Unseen == [exists |-> FALSE, id |-> 0, size |-> 0]

\* The target as the upload's condition sees it: absent, or one identity.
Snapshot(p) ==
  IF stored[p] = NoFile THEN Unseen
  ELSE [exists |-> TRUE, id |-> stored[p].id, size |-> stored[p].size]

StillAsSeen(c) == Snapshot(c.dst) = c.cond

\* What prepare refuses before any byte is counted.
Measurable(c) ==
  CASE c.kind = "put" \/ c.kind = "stream" -> c.front = "dav" => StillAsSeen(c)
    [] c.kind = "copy" \/ c.kind = "move"  -> FilesUnder(c.src) # {}
    [] c.kind = "trash"                    -> binned # NoFile /\ binned.tag = c.item
    [] c.kind = "version"                  -> stored[c.dst] # NoFile

----------------------------------------------------------------------------
(* The coordinator. *)

\* Variant of QuotaAvailable that forgets the bytes other requests were promised.
QuotaAvailableUnreserved(s, view) == Monus(ScopeLimit[s], LogicalSize(s[2]))

QuotaAvailable(s, view) == Monus(Monus(ScopeLimit[s], LogicalSize(s[2])), view[s])

\* prepareLocked: a batch is admitted only when every scope has room for it.
\* A scope that needs nothing is never refused.
QuotaAdmits(need, view) ==
  \A s \in QuotaScopes : need[s] > 0 => need[s] <= QuotaAvailable(s, view)

SubtractReserved(view, gone) == [s \in QuotaScopes |-> Monus(view[s], gone[s])]
AddReserved(view, more) == [s \in QuotaScopes |-> view[s] + more[s]]

GoCall(r, c) == quotaCall' = [quotaCall EXCEPT ![r] = c]
CallAt(r, label) == quotaCall[r].at = label
TakeGate(r) == mutationGate = NoCall /\ mutationGate' = r
KeepTree == UNCHANGED <<stored, binned>>
KeepBounds == UNCHANGED <<quotaBound, quotaHist>>

\* The API takes an upload's snapshot inside the reservation, WebDAV before it.
UploadSeen(c) ==
  IF Uploading(c) /\ c.front = "api" THEN [c EXCEPT !.cond = Snapshot(c.dst)] ELSE c

\* Reserve, first half: the gate is taken and the request measured.
MeasureNeed(r) ==
  LET c == quotaCall[r]
      seen == UploadSeen(c)
  IN /\ CallAt(r, "wait")
     /\ mutationGate = NoCall
     /\ IF Measurable(c)
        THEN /\ mutationGate' = r
             /\ GoCall(r, [seen EXCEPT !.need = Needs(seen), !.at = "measured"])
        ELSE /\ GoCall(r, IdleCall)
             /\ UNCHANGED mutationGate
     /\ UNCHANGED promised /\ KeepTree /\ KeepBounds

\* Reserve, second half: the scopes are scanned, the batch is registered or
\* refused as a whole, and the gate is given back.
RegisterNeed(r) ==
  LET c == quotaCall[r] IN
  /\ CallAt(r, "measured")
  /\ mutationGate' = NoCall
  /\ IF QuotaAdmits(c.need, promised)
     THEN /\ promised' = AddReserved(promised, c.need)
          /\ GoCall(r, [c EXCEPT !.mine = c.need,
                                 !.allowed = IF c.kind = "put" THEN c.len ELSE c.cond.size,
                                 !.at = IF Uploading(c) THEN "body" ELSE "commit"])
     ELSE GoCall(r, IdleCall) /\ UNCHANGED promised
  /\ KeepTree /\ KeepBounds

\* Acquiring the gate gives up when the client is gone; so does reading a body.
\* Whatever was promised is returned.
GiveUp(r) ==
  LET c == quotaCall[r] IN
  /\ c.at \in {"wait", "body", "grow", "commit"}
  /\ promised' = SubtractReserved(promised, c.mine)
  /\ GoCall(r, IdleCall)
  /\ UNCHANGED mutationGate /\ KeepTree /\ KeepBounds

----------------------------------------------------------------------------
(* Bodies. *)

\* quotaLimitedReader.Read: within what is allowed, the next byte or the end.
\* A body of known length that ends early is an error and is given up.
ReadBody(r) ==
  LET c == quotaCall[r] IN
  /\ CallAt(r, "body")
  /\ \/ /\ c.kind = "put"
        /\ GoCall(r, [c EXCEPT !.got = c.len, !.at = "commit"])
     \/ /\ c.kind = "stream" /\ c.got < c.allowed
        /\ \/ GoCall(r, [c EXCEPT !.got = @ + 1])
           \/ GoCall(r, [c EXCEPT !.at = "commit"])
     \/ /\ c.kind = "stream" /\ c.got = c.allowed
        /\ GoCall(r, [c EXCEPT !.at = "grow"])
  /\ UNCHANGED <<promised, mutationGate>> /\ KeepTree /\ KeepBounds

HeldTo(c) == {s \in RulesFor(c) : PathWithin(s[2], c.dst)}
Asked(c) == Min({GrowthChunk, MaxFileBytes - c.allowed})

\* One more chunk, or what the tightest scope has left.
Granted(c) == Min({Asked(c)} \cup {QuotaAvailable(s, promised) : s \in HeldTo(c)})

\* grow: the chunk is one more reservation; with nothing left the next read
\* tells whether the body ended right there.
GrowUpload(r) ==
  LET c == quotaCall[r]
      more == [s \in QuotaScopes |-> IF s \in HeldTo(c) THEN Granted(c) ELSE 0]
  IN /\ CallAt(r, "grow")
     /\ mutationGate = NoCall
     /\ \/ /\ StillAsSeen(c) /\ Granted(c) > 0
           /\ promised' = AddReserved(promised, more)
           /\ GoCall(r, [c EXCEPT !.mine = AddReserved(@, more),
                                  !.allowed = @ + Granted(c), !.at = "body"])
        \/ /\ StillAsSeen(c) \/ Asked(c) = 0
           /\ Granted(c) = 0
           /\ GoCall(r, [c EXCEPT !.at = "commit"])
           /\ UNCHANGED promised
     /\ UNCHANGED mutationGate /\ KeepTree /\ KeepBounds

----------------------------------------------------------------------------
(* Commits. *)

\* AcquireMutation before the change: at the end of an upload's body, and after
\* the reservation of every other request.
EnterCommit(r) ==
  LET c == quotaCall[r] IN
  /\ CallAt(r, "commit") /\ TakeGate(r)
  /\ GoCall(r, [c EXCEPT !.at = IF Uploading(c) THEN "mutate" ELSE "refresh"])
  /\ UNCHANGED promised /\ KeepTree /\ KeepBounds

\* Refresh, first half: the request is measured again, under the gate it keeps.
MeasureAgain(r) ==
  LET c == quotaCall[r] IN
  /\ CallAt(r, "refresh")
  /\ GoCall(r, IF Measurable(c) THEN [c EXCEPT !.need = Needs(c), !.at = "rescan"]
               ELSE [c EXCEPT !.at = "release"])
  /\ UNCHANGED <<promised, mutationGate>> /\ KeepTree /\ KeepBounds

\* Refresh, second half: the new batch replaces the old one if the scopes admit
\* it beside what the others were promised; otherwise the old one stays until
\* the request ends.  A COPY that counted on bytes of a destination which was
\* deleted since is noted: it is measured too small.
RefreshNeed(r) ==
  LET c == quotaCall[r]
      others == SubtractReserved(promised, c.mine)
  IN /\ CallAt(r, "rescan")
     /\ IF QuotaAdmits(c.need, others)
        THEN /\ promised' = AddReserved(others, c.need)
             /\ GoCall(r, [c EXCEPT !.mine = c.need, !.at = "mutate"])
        ELSE GoCall(r, [c EXCEPT !.at = "release"]) /\ UNCHANGED promised
     /\ quotaHist' = [quotaHist EXCEPT !.slipped = @ \/
          (c.kind = "copy" /\ c.over /\ \E s \in QuotaScopes : Needs(c)[s] > c.need[s])]
     /\ UNCHANGED <<mutationGate, quotaBound>> /\ KeepTree

NewFile(bytes) == [size |-> bytes, id |-> quotaBound.born + 1]
Landing(files, src, dst) ==
  [f \in {Remapped(src, dst, g) : g \in DOMAIN files} |->
     files[CHOOSE g \in DOMAIN files : Remapped(src, dst, g) = f]]
Erased(tree, p) == [f \in QuotaFiles |-> IF PathWithin(p, f) THEN NoFile ELSE tree[f]]

\* What storage does with the request: uploads are conditional, a copy may
\* overwrite only a file that was there when the request began, a move over
\* something first puts that aside, restores need the place to be free.
Permitted(c) ==
  LET vacant == FilesUnder(c.dst) = {} IN
  CASE Uploading(c)       -> StillAsSeen(c)
    [] c.kind = "copy"    -> FilesUnder(c.src) # {} /\ (c.over \/ vacant)
    [] c.kind = "move"    -> FilesUnder(c.src) # {} /\ c.over # vacant
    [] c.kind = "trash"   -> vacant /\ binned # NoFile /\ binned.tag = c.item
    [] c.kind = "version" -> ~vacant

AfterChange(c) ==
  LET from == [f \in FilesUnder(c.src) |-> stored[f]] IN
  CASE Uploading(c)       -> [stored EXCEPT ![c.dst] = NewFile(c.got)]
    [] c.kind = "copy"    -> Landing([f \in DOMAIN from |-> NewFile(from[f].size)], c.src, c.dst) @@ stored
    [] c.kind = "move"    -> Landing(from, c.src, c.dst) @@ Erased(Erased(stored, c.src), c.dst)
    [] c.kind = "trash"   -> Landing(binned.files, binned.origin, c.dst) @@ stored
    [] c.kind = "version" -> [stored EXCEPT ![c.dst] = NewFile(c.len)]

\* The change itself, or a failure that leaves the tree alone; a directory
\* copied in part may stay in part.
Mutate(r) ==
  LET c == quotaCall[r]
      homes == {s \in QuotaScopes : s[1] = "user"}
  IN /\ CallAt(r, "mutate")
     /\ \/ /\ Permitted(c)
           /\ stored' = AfterChange(c)
           /\ binned' = IF c.kind = "trash" THEN NoFile ELSE binned
           /\ quotaBound' = [quotaBound EXCEPT !.born = @ + 1]
        \/ /\ ~Permitted(c)
           /\ UNCHANGED <<stored, binned, quotaBound>>
        \/ /\ Permitted(c) /\ quotaBound.faults < MaxQuotaFaults
           /\ \E kept \in SUBSET QuotaFiles :
                /\ c.kind = "copy" \/ kept = {}
                /\ stored' = [f \in QuotaFiles |->
                               IF f \in kept THEN AfterChange(c)[f] ELSE stored[f]]
           /\ quotaBound' = [quotaBound EXCEPT !.born = @ + 1, !.faults = @ + 1]
           /\ UNCHANGED binned
     /\ quotaHist' = [quotaHist EXCEPT !.foreign = @ \/
          (c.actor = "admin" /\ c.kind # "version"
             /\ \E s \in homes : SizeIn(stored', s[2]) > SizeIn(stored, s[2]))]
     /\ GoCall(r, [c EXCEPT !.at = "release"])
     /\ UNCHANGED <<promised, mutationGate>>

\* The promise is returned while the gate is still held, then the gate.
ReleasePromise(r) ==
  LET c == quotaCall[r] IN
  /\ CallAt(r, "release")
  /\ promised' = SubtractReserved(promised, c.mine)
  /\ GoCall(r, [c EXCEPT !.mine = NoBytes, !.at = "ungate"])
  /\ UNCHANGED mutationGate /\ KeepTree /\ KeepBounds

ReleaseGate(r) ==
  /\ CallAt(r, "ungate")
  /\ mutationGate' = NoCall
  /\ GoCall(r, IdleCall)
  /\ UNCHANGED promised /\ KeepTree /\ KeepBounds

----------------------------------------------------------------------------
(* Requests. *)

\* A request reaches its reservation: its kind, who asks and at which door,
\* and what it names.
StartCall(r, kind, actor, front, src, dst, len, over, item) ==
  /\ CallAt(r, "idle")
  /\ quotaBound.ops < MaxQuotaOps
  /\ GoCall(r, [at |-> "wait", kind |-> kind, actor |-> actor, front |-> front,
                src |-> src, dst |-> dst, len |-> len, over |-> over, item |-> item,
                cond |-> IF kind \in {"put", "stream"} THEN Snapshot(dst) ELSE Unseen,
                need |-> NoBytes, mine |-> NoBytes, got |-> 0, allowed |-> 0])
  /\ quotaBound' = [quotaBound EXCEPT !.ops = @ + 1]
  /\ UNCHANGED <<promised, mutationGate, quotaHist>> /\ KeepTree

Actors == {"user", "admin"}
Fronts == {"api", "dav"}

StartUpload(r) ==
  \E actor \in Actors, front \in Fronts, dst \in QuotaFiles :
    \/ \E len \in 1..MaxFileBytes : StartCall(r, "put", actor, front, dst, dst, len, FALSE, 0)
    \/ StartCall(r, "stream", actor, front, dst, dst, 0, FALSE, 0)

\* Where every file of one tree has its place in the other, and neither is
\* inside the other.
Transferable(src, dst) ==
  /\ ~PathWithin(src, dst) /\ ~PathWithin(dst, src)
  /\ \A f \in QuotaFiles : PathWithin(src, f) => Remapped(src, dst, f) \in QuotaFiles

\* COPY and MOVE: only WebDAV replaces what is at the destination, a copy only
\* a file by a file.
Door(over) == IF over THEN "dav" ELSE "api"

StartCopy(r) ==
  /\ CallAt(r, "idle")
  /\ \E actor \in Actors, src \in QuotaTrees, dst \in QuotaTrees :
     LET over == FilesUnder(dst) # {} IN
     /\ Transferable(src, dst) /\ FilesUnder(src) # {} /\ (over => src \in QuotaFiles)
     /\ StartCall(r, "copy", actor, Door(over), src, dst, 0, over, 0)

StartMove(r) ==
  /\ CallAt(r, "idle")
  /\ \E actor \in Actors, src \in QuotaTrees, dst \in QuotaTrees :
     LET over == FilesUnder(dst) # {} IN
     /\ Transferable(src, dst) /\ FilesUnder(src) # {}
     /\ StartCall(r, "move", actor, Door(over), src, dst, 0, over, 0)

StartTrashRestore(r) ==
  /\ binned # NoFile
  /\ \E actor \in Actors, dst \in QuotaTrees :
       /\ dst = binned.origin \/ Transferable(binned.origin, dst)
       /\ FilesUnder(dst) = {}
       /\ StartCall(r, "trash", actor, "api", dst, dst, 0, FALSE, binned.tag)

\* Only an administrator restores a version, of whatever size it was.
StartVersionRestore(r) ==
  \E dst \in QuotaFiles, len \in 1..MaxFileBytes :
    stored[dst] # NoFile /\ StartCall(r, "version", "admin", "api", dst, dst, len, FALSE, 0)

\* A deletion, into the trash or for good: no gate and no reservation.
DeleteUngated ==
  \E p \in QuotaTrees :
    /\ FilesUnder(p) # {} /\ quotaBound.deletes < MaxQuotaDeletes
    /\ stored' = Erased(stored, p)
    /\ \/ /\ binned = NoFile
          /\ binned' = [origin |-> p, files |-> [f \in FilesUnder(p) |-> stored[f]],
                        tag |-> quotaBound.born + 1]
       \/ UNCHANGED binned
    /\ quotaBound' = [quotaBound EXCEPT !.deletes = @ + 1, !.born = @ + 1]
    /\ UNCHANGED <<quotaCall, promised, mutationGate, quotaHist>>

QuotaInit ==
  /\ \E sizes \in FirstSizes :
       stored = [f \in QuotaFiles |->
                  IF sizes[f] = 0 THEN NoFile ELSE [size |-> sizes[f], id |-> 0]]
  /\ binned = NoFile
  /\ quotaCall = [r \in QuotaCalls |-> IdleCall]
  /\ promised = NoBytes
  /\ mutationGate = NoCall
  /\ quotaBound = [ops |-> 0, deletes |-> 0, faults |-> 0, born |-> 0]
  /\ quotaHist = [slipped |-> FALSE, foreign |-> FALSE]

QuotaStart(r) ==
  StartUpload(r) \/ StartCopy(r) \/ StartMove(r) \/ StartTrashRestore(r) \/ StartVersionRestore(r)
QuotaStep(r) ==
  \/ MeasureNeed(r) \/ RegisterNeed(r) \/ GiveUp(r) \/ ReadBody(r) \/ GrowUpload(r)
  \/ EnterCommit(r) \/ MeasureAgain(r) \/ RefreshNeed(r) \/ Mutate(r)
  \/ ReleasePromise(r) \/ ReleaseGate(r)

QuotaNext == DeleteUngated \/ \E r \in QuotaCalls : QuotaStart(r) \/ QuotaStep(r)

----------------------------------------------------------------------------
(* The property. *)

ScopesHeld ==
  ~quotaHist.slipped =>
    \A s \in QuotaScopes :
      (s[1] = "directory" \/ ~quotaHist.foreign) => LogicalSize(s[2]) <= ScopeLimit[s]

LedgerExact ==
  \A s \in QuotaScopes :
    promised[s] = MapThenSumSet(LAMBDA r : quotaCall[r].mine[s], {r \in QuotaCalls : InQuota(r)})

\* No interleaving of uploads, copies, moves, restores and ungated deletions
\* takes a limited directory, or a home only its own account adds to, past its
\* limit (src/internal/quota/reservation.go:280); and the coordinator's ledger
\* is at all times the sum of what the requests in flight hold, so nothing
\* stays promised once they are gone.  Left out: a WebDAV COPY over a file that
\* is deleted between the two scans of its refresh.
QuotaHeld == ScopesHeld /\ LedgerExact
=============================================================================
