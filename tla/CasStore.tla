------------------------------ MODULE CasStore ------------------------------
(***************************************************************************)
(* The content-addressed object store of the Rust dataplane: CasStore      *)
(* (cas.rs) and the handlers that change it (service.rs).                  *)
(*                                                                         *)
(* An object is named by the hash of its content and lives in one file,    *)
(* compressed ("zst") or not ("plain").  The memory index is rebuilt from  *)
(* the files at start.  Writers and deleters of one hash exclude each      *)
(* other with a mutex behind an Arc; the Arc sits in a map and its entry   *)
(* is removed again when nobody else refers to it.  Readers take no lock.  *)
(*                                                                         *)
(* Calls are cut off at any await when their client goes away, writes and  *)
(* syncs fail, the process is restarted (with or without compression) and  *)
(* the power fails.  Every object counts as one byte.                      *)
(***************************************************************************)
EXTENDS Naturals, FiniteSets, Sequences, SequencesExt, FiniteSetsExt, ChunkStream

CONSTANTS CasCalls,        \* gRPC calls that may be under way together
          NobodyHolds,     \* the holder of a free mutex
          Hashes,          \* content hashes, numbers for their order
          Compressible,    \* those whose content is smaller compressed
          FileLayouts,     \* streamed files: [chunks, manifest]
          ListLimit,       \* entries of one listing page
          CasWord,         \* the counters are unsigned, modulo this
          MaxCasOps,       \* calls of one behaviour
          MaxCasFaults,    \* I/O failures
          MaxCasCuts,      \* calls cut off by their client
          MaxCasRestarts,  \* restarts, with or without power loss
          MaxCasDamage     \* objects damaged or removed from outside

ASSUME HashAssumption ==
    /\ Hashes \subseteq Nat \ {0} /\ IsFiniteSet(Hashes)
    /\ \A f \in FileLayouts : /\ f.chunks \in Seq(Hashes) \ {<<>>}
                              /\ f.manifest \in Hashes
    /\ ListLimit \in Nat \ {0}
    /\ IsFiniteSet(CasCalls) /\ NobodyHolds \notin CasCalls
    /\ CasWord \in Nat /\ 2 * Cardinality(Hashes) < CasWord

VARIABLES casSeen,     \* forms under which an object's file is visible
          casDur,      \* forms whose directory entry is on the medium
          casDirs,     \* the object's shard directories
          casRot,      \* forms whose file no longer has the content
          casDurRot,   \* the same of the files on the medium
          casIndex,    \* CasStore.index
          casStats,    \* CasStats: chunks, logical
          casZip,      \* config.compression_enabled
          casArc,      \* CasStore.write_locks: the Arc of a hash, 0 if none
          casHolder,   \* who holds the mutex of an Arc
          casCall,     \* the calls under way
          casPromise,  \* objects whose put succeeded and nobody removed
          casUnread,   \* objects the last rebuild could not read
          casLoose,    \* objects it took over with changes never synced
          casTwins,    \* files the last rebuild counted beyond the hashes
          casWrong,    \* what an answer got wrong
          casBound

casFiles == <<casSeen, casDur, casDirs, casRot, casDurRot>>
casMemory == <<casIndex, casStats, casZip, casUnread, casLoose,
               casTwins>>
casLocks == <<casArc, casHolder>>
casVars == <<casFiles, casMemory, casLocks, casCall, casPromise, casWrong,
             casBound>>

Forms == {"plain", "zst"}
Arcs == 1..(Cardinality(CasCalls) + Cardinality(Hashes))

\* No call: what the fields of a call mean is said where they are set.
Unused == [op |-> "idle", mode |-> "put", at |-> "ask", hash |-> 0,
           todo |-> <<>>, arc |-> 0, result |-> "none", made |-> <<>>,
           added |-> 0, sure |-> FALSE, got |-> {}, through |-> {},
           known |-> {}]

Spend(what) == /\ casBound[what] > 0
               /\ casBound' = [casBound EXCEPT ![what] = @ - 1]

\* fetch_sub on an AtomicU64 wraps around.
Minus(n, k) == (n + CasWord - (k % CasWord)) % CasWord

(***************************************************************************)
(* The mutex of a hash                                                     *)
(***************************************************************************)

\* Arc::strong_count without the caller's own reference.
OtherRefs(c, a) == Cardinality({d \in CasCalls \ {c} : casCall[d].arc = a})
                   + Cardinality({h \in Hashes : casArc[h] = a})

\* lock_for_hash: the Arc of the map, made if there is none.
LockForHash(c) ==
    LET h == casCall[c].hash
        a == IF casArc[h] # 0 THEN casArc[h]
             ELSE CHOOSE b \in Arcs : OtherRefs(c, b) = 0
    IN /\ casCall[c].op # "idle" /\ casCall[c].at = "ask"
       /\ casArc' = [casArc EXCEPT ![h] = a]
       /\ casCall' = [casCall EXCEPT ![c].arc = a, ![c].at = "wait"]
       /\ UNCHANGED <<casFiles, casMemory, casHolder, casPromise, casWrong,
                      casBound>>

\* write_lock.lock().await
AcquireHash(c) ==
    /\ casCall[c].at = "wait" /\ casHolder[casCall[c].arc] = NobodyHolds
    /\ casHolder' = [casHolder EXCEPT ![casCall[c].arc] = c]
    /\ casCall' = [casCall EXCEPT ![c].at = "look"]
    /\ UNCHANGED <<casFiles, casMemory, casArc, casPromise, casWrong, casBound>>

\* The guard goes out of scope with the result of the locked operation.
ReleaseHash(c) ==
    /\ casCall[c].at = "free"
    /\ casHolder' = [casHolder EXCEPT ![casCall[c].arc] = NobodyHolds]
    /\ casCall' = [casCall EXCEPT ![c].at = "tidy"]
    /\ UNCHANGED <<casFiles, casMemory, casArc, casPromise, casWrong, casBound>>

\* Variant: the entry is taken out whenever it is still the caller's Arc.
RemoveHashLockAlways(c) ==
    LET h == casCall[c].hash
    IN /\ casCall[c].at = "tidy"
       /\ casArc' = [casArc EXCEPT ![h] = IF @ = casCall[c].arc THEN 0 ELSE @]
       /\ casCall' = [casCall EXCEPT ![c].at = "end"]
       /\ UNCHANGED <<casFiles, casMemory, casHolder, casPromise, casWrong,
                      casBound>>

\* remove_hash_lock_if_idle: only when the map and the caller alone refer
\* to the Arc; the entry stays when another call does.
RemoveHashLockIfIdle(c) ==
    LET h == casCall[c].hash
        a == casCall[c].arc
        idle == casArc[h] = a /\ OtherRefs(c, a) = 1
    IN /\ casCall[c].at = "tidy"
       /\ casArc' = [casArc EXCEPT ![h] = IF idle THEN 0 ELSE @]
       /\ casCall' = [casCall EXCEPT ![c].at = "end"]
       /\ UNCHANGED <<casFiles, casMemory, casHolder, casPromise, casWrong,
                      casBound>>

(***************************************************************************)
(* Storing one object                                                      *)
(***************************************************************************)

\* The operation of c on its hash is over with result r.
Result(c, r) == casCall' = [casCall EXCEPT ![c].at = "free", ![c].result = r]

Putting(c, step) == casCall[c].at = step /\ casCall[c].mode = "put"
Deleting(c, step) == casCall[c].at = step /\ casCall[c].mode = "delete"

\* The file a read opens when these are there: get tries the compressed name
\* first, whichever put wrote last.
First(forms) == IF "zst" \in forms THEN "zst" ELSE "plain"

\* Objects that cannot be read because the file in front is damaged.
Rotten == {h \in Hashes : First(casSeen[h]) \in casRot[h]}

\* Readers and listings under way can no longer count on h.
Doubted(calls, h) ==
    [d \in CasCalls |->
        [calls[d] EXCEPT !.sure = @ /\ h # calls[d].hash
                                    /\ h \notin ToSet(calls[d].todo),
                         !.through = @ \ {h}]]

\* prepare_write_target: compressed when that is allowed and smaller.
WriteTarget(h) == IF casZip /\ h \in Compressible THEN "zst" ELSE "plain"

\* An indexed object with a file under either name is not written again.
\* Nothing is promised for one that is damaged, or that a rebuild indexed
\* after a process had died between a rename or unlink and the directory sync.
PutDeduplicated(c) ==
    LET h == casCall[c].hash
    IN /\ Putting(c, "look") /\ h \in casIndex /\ casSeen[h] # {}
       /\ casStats' = [casStats EXCEPT !.logical = (@ + 1) % CasWord]
       /\ casPromise' = casPromise \cup ({h} \ (Rotten \cup casLoose))
       /\ Result(c, "known")
       /\ UNCHANGED <<casFiles, casIndex, casZip, casUnread, casLoose,
                      casTwins,
                      casLocks, casWrong, casBound>>

\* An index entry whose file is gone is dropped, with its share of the
\* counters, and the object is written as if it had never been there.
PutLooks(c) ==
    LET h == casCall[c].hash
        stale == h \in casIndex
    IN /\ Putting(c, "look") /\ (h \in casIndex => casSeen[h] = {})
       /\ casIndex' = casIndex \ {h}
       /\ casStats' = [casStats EXCEPT !.chunks = IF stale THEN Minus(@, 1)
                                                           ELSE @]
       /\ casCall' = [Doubted(casCall, IF stale THEN h ELSE 0)
                        EXCEPT ![c].at = "write"]
       /\ UNCHANGED <<casFiles, casZip, casUnread, casLoose,
                      casTwins, casLocks,
                      casPromise, casWrong, casBound>>

\* The shard directories, the temporary file, its sync and the rename.  A
\* file under the other name stays as it is.
PutWrites(c) ==
    LET h == casCall[c].hash
    IN /\ Putting(c, "write")
       /\ casDirs' = [casDirs EXCEPT ![h] = IF @ = "none" THEN "made" ELSE @]
       /\ casSeen' = [casSeen EXCEPT ![h] = @ \cup {WriteTarget(h)}]
       /\ casRot' = [casRot EXCEPT ![h] = @ \ {WriteTarget(h)}]
       /\ casCall' = [casCall EXCEPT ![c].at = "sync"]
       /\ UNCHANGED <<casDur, casDurRot, casMemory, casLocks, casPromise,
                      casWrong, casBound>>

\* Anything up to the rename fails: the temporary file is removed.
PutWriteFails(c) ==
    LET h == casCall[c].hash
    IN /\ Putting(c, "write") /\ Spend("faults")
       /\ \E d \in {casDirs[h], "made"} :
             casDirs' = [casDirs EXCEPT ![h] = IF @ = "none" THEN d ELSE @]
       /\ Result(c, "error")
       /\ UNCHANGED <<casSeen, casDur, casRot, casDurRot, casMemory, casLocks,
                      casPromise, casWrong>>

\* The directory is synced; only now is the object indexed and answered.  The
\* answer is a success even when a damaged compressed file, which the last
\* rebuild passed over, is still in front of the plain file just written;
\* that put is no promise.
PutSynced(c) ==
    LET h == casCall[c].hash
    IN /\ Putting(c, "sync")
       /\ casDur' = [casDur EXCEPT ![h] = casSeen[h]]
       /\ casDurRot' = [casDurRot EXCEPT ![h] = casRot[h]]
       /\ casIndex' = casIndex \cup {h}
       /\ casStats' = [chunks |-> (casStats.chunks + 1) % CasWord,
                       logical |-> (casStats.logical + 1) % CasWord]
       /\ casPromise' = casPromise \cup ({h} \ Rotten)
       /\ Result(c, "new")
       /\ UNCHANGED <<casSeen, casDirs, casRot, casZip, casUnread, casLoose,
                      casTwins,
                      casLocks, casWrong, casBound>>

\* sync_parent_dir fails: the file stays, the index does not know it; or
\* the removal stands and the caller is told of an error.
SyncParentFails(c) ==
    /\ casCall[c].at = "sync" /\ Spend("faults")
    /\ Result(c, "error")
    /\ UNCHANGED <<casFiles, casMemory, casLocks, casPromise, casWrong>>

(***************************************************************************)
(* Removing one object                                                     *)
(***************************************************************************)

\* delete_locked of a hash that is not indexed, or whose files cannot be
\* unlinked: false, and the index stays as it is.
DeleteFindsNothing(c) ==
    LET h == casCall[c].hash
    IN /\ Deleting(c, "look")
       /\ \/ (h \notin casIndex \/ casSeen[h] = {}) /\ UNCHANGED casBound
          \/ h \in casIndex /\ casSeen[h] # {} /\ Spend("faults")
       /\ Result(c, "absent")
       /\ UNCHANGED <<casFiles, casMemory, casLocks, casPromise, casWrong>>

\* Both names are tried; one removal is enough to forget the object.
DeleteUnlinks(c) ==
    LET h == casCall[c].hash
    IN /\ Deleting(c, "look") /\ h \in casIndex
       /\ \E gone \in SUBSET casSeen[h] \ {{}} :
             /\ casSeen' = [casSeen EXCEPT ![h] = @ \ gone]
             /\ casRot' = [casRot EXCEPT ![h] = @ \ gone]
             /\ IF gone = casSeen[h] THEN UNCHANGED casBound ELSE Spend("faults")
       /\ casIndex' = casIndex \ {h}
       /\ casStats' = [casStats EXCEPT !.chunks = Minus(@, 1)]
       /\ casPromise' = casPromise \ {h}
       /\ casCall' = [Doubted(casCall, h) EXCEPT ![c].at = "sync"]
       /\ UNCHANGED <<casDur, casDirs, casDurRot, casZip, casUnread, casLoose,
                      casTwins,
                      casLocks, casWrong>>

DeleteSynced(c) ==
    LET h == casCall[c].hash
    IN /\ Deleting(c, "sync")
       /\ casDur' = [casDur EXCEPT ![h] = casSeen[h]]
       /\ casDurRot' = [casDurRot EXCEPT ![h] = casRot[h]]
       /\ Result(c, "gone")
       /\ UNCHANGED <<casSeen, casDirs, casRot, casMemory, casLocks,
                      casPromise, casWrong, casBound>>

(***************************************************************************)
(* The handlers                                                            *)
(***************************************************************************)

StartCas(c, this) ==
    /\ casCall[c].op = "idle" /\ Spend("ops")
    /\ casCall' = [casCall EXCEPT ![c] = this]
    /\ UNCHANGED <<casFiles, casMemory, casLocks, casPromise, casWrong>>

\* put_chunk, once the expected hash, if any, has been compared.
PutChunk(c) == \E h \in Hashes :
    StartCas(c, [Unused EXCEPT !.op = "chunk", !.hash = h])

DeleteChunk(c) == \E h \in Hashes :
    StartCas(c, [Unused EXCEPT !.op = "chunk", !.mode = "delete", !.hash = h])

\* put_file: the chunks one after the other as the stream yields them, the
\* manifest last.  made and added are created_hashes and logical_size_added.
PutFile(c) == \E f \in FileLayouts :
    StartCas(c, [Unused EXCEPT !.op = "file", !.hash = Head(f.chunks),
                               !.todo = Tail(f.chunks) \o <<f.manifest>>])

\* rollback_put_file_failure: the logical size is given back, then every
\* object this call created is deleted, the last one first.
RolledBack(this) ==
    IF this.made = <<>> THEN Unused
    ELSE [this EXCEPT !.mode = "delete", !.at = "ask", !.arc = 0,
                      !.hash = this.made[Len(this.made)],
                      !.made = SubSeq(this.made, 1, Len(this.made) - 1)]

\* store_uploaded_chunk, and the put of the manifest, which is not counted.
Stored1(this) ==
    IF this.todo = <<>> THEN Unused
    ELSE [this EXCEPT !.added = @ + 1,
                      !.made = IF this.result = "new" THEN Append(@, this.hash)
                                                      ELSE @,
                      !.at = "ask", !.arc = 0, !.hash = Head(this.todo),
                      !.todo = Tail(@)]

GivenBack(n) == casStats' = [casStats EXCEPT !.logical = Minus(@, n)]

\* The Arc is dropped and the handler goes on.
HandlerGoesOn(c) ==
    LET this == casCall[c]
        fails == this.op = "file" /\ this.mode = "put" /\ this.result = "error"
    IN /\ this.at = "end"
       /\ IF fails THEN GivenBack(this.added) ELSE UNCHANGED casStats
       /\ casCall' = [casCall EXCEPT ![c] =
            IF this.op = "chunk" THEN Unused
            ELSE IF fails \/ this.mode = "delete" THEN RolledBack(this)
            ELSE Stored1(this)]
       /\ UNCHANGED <<casFiles, casIndex, casZip, casUnread, casLoose,
                      casTwins,
                      casLocks, casPromise, casWrong, casBound>>

\* The stream of a file breaks off, or what it carries is refused.
StreamFails(c) ==
    LET this == casCall[c]
    IN /\ this.op = "file" /\ this.mode = "put" /\ this.at = "ask"
       /\ Spend("faults")
       /\ GivenBack(this.added)
       /\ casCall' = [casCall EXCEPT ![c] = RolledBack(this)]
       /\ UNCHANGED <<casFiles, casIndex, casZip, casUnread, casLoose,
                      casTwins,
                      casLocks, casPromise, casWrong>>

\* The client goes away: the handler's future is dropped at an await.  The
\* guard and the Arc go with it; no rollback, no cleanup of the lock map.
CutOff(c) ==
    LET this == casCall[c]
    IN /\ this.op # "idle" /\ this.at \notin {"free", "tidy", "end"}
       /\ Spend("cuts")
       /\ casHolder' = [a \in Arcs |-> IF casHolder[a] = c THEN NobodyHolds
                                                          ELSE casHolder[a]]
       /\ casCall' = [casCall EXCEPT ![c] = Unused]
       /\ UNCHANGED <<casFiles, casMemory, casArc, casPromise, casWrong>>

\* get_chunk, and get_file: the manifest and then its chunks.  sure: every
\* object asked for was promised and nobody removes one meanwhile.
GetObjects(c) ==
    \E s \in {<<h>> : h \in Hashes}
                \cup {<<f.manifest>> \o f.chunks : f \in FileLayouts} :
       StartCas(c, [Unused EXCEPT !.op = "get", !.at = "zst", !.hash = Head(s),
                                  !.todo = Tail(s),
                                  !.sure = ToSet(s) \subseteq casPromise])

\* list_objects: the hashes in order, those after the cursor, a page at a
\* time.  through: the objects indexed from the first page to the last.
ListObjects(c) ==
    StartCas(c, [Unused EXCEPT !.op = "list", !.at = "page",
                               !.through = casIndex])

\* scrub of every indexed object, in whatever order the index yields them;
\* known: what was damaged before it began.
Scrub(c) ==
    /\ casIndex # {}
    /\ \E s \in SetToSeqs(casIndex) :
          StartCas(c, [Unused EXCEPT !.op = "scrub", !.at = "zst",
                         !.hash = Head(s), !.todo = Tail(s),
                         !.through = casIndex, !.known = Rotten])

\* What a read of c's object came to; the next object, or the end.
ReadEnds(c, outcome) ==
    LET this == casCall[c]
        bad == this.got \cup (IF outcome = "data" THEN {} ELSE {this.hash})
        over == this.todo = <<>> \/ (this.op = "get" /\ outcome # "data")
        missed == this.op = "get" /\ this.sure /\ outcome # "data"
        misjudged == \E h \in this.through \cap casIndex :
                        \/ h \in this.known /\ h \notin bad
                        \/ h \in bad /\ h \notin Rotten /\ casSeen[h] # {}
    IN /\ casCall' = [casCall EXCEPT ![c] =
            IF over THEN Unused
            ELSE [this EXCEPT !.at = "zst", !.hash = Head(this.todo),
                              !.todo = Tail(@), !.got = bad]]
       /\ casWrong' = casWrong \cup (IF missed THEN {"missed"} ELSE {})
                       \cup (IF this.op = "scrub" /\ over /\ misjudged
                             THEN {"misjudged"} ELSE {})
       /\ UNCHANGED <<casFiles, casMemory, casLocks, casPromise, casBound>>

Read(c, form) ==
    LET h == casCall[c].hash
    IN IF form \in casSeen[h]
       THEN ReadEnds(c, IF form \in casRot[h] THEN "mismatch" ELSE "data")
       ELSE IF form = "plain" THEN ReadEnds(c, "missing")
       ELSE /\ casCall' = [casCall EXCEPT ![c].at = "plain"]
            /\ UNCHANGED <<casFiles, casMemory, casLocks, casPromise,
                           casWrong, casBound>>

\* get: the compressed name first, then the plain one, without a lock; the
\* hash of what was read is compared.
ReadObject(c) == \E form \in Forms : casCall[c].at = form /\ Read(c, form)

\* One page; got collects what the pages held, hash is the cursor.
ListPage(c) ==
    LET this == casCall[c]
        rest == {h \in casIndex : h > this.hash}
        page == {h \in rest : Cardinality({g \in rest : g < h}) < ListLimit}
        got == this.got \cup page
    IN /\ this.at = "page"
       /\ casCall' = [casCall EXCEPT ![c] =
            IF page = rest THEN Unused
            ELSE [this EXCEPT !.got = got, !.hash = Max(page)]]
       /\ casWrong' = casWrong \cup
            (IF page = rest /\ ~(this.through \subseteq got)
             THEN {"unlisted"} ELSE {})
       /\ UNCHANGED <<casFiles, casMemory, casLocks, casPromise, casBound>>

(***************************************************************************)
(* Restart, power loss and damage                                          *)
(***************************************************************************)

\* rebuild_index: every object file is indexed and counted, temporary files
\* are passed over, a compressed file that cannot be read is skipped.
RebuildIndex(scanned, unread) ==
    LET found == {h \in Hashes : scanned[h] # {} /\ h \notin unread}
        files == {p \in found \X Forms : p[2] \in scanned[p[1]]}
    IN /\ casIndex' = found
       /\ casLoose' = {h \in found : \/ scanned[h] # casDur'[h]
                                     \/ casRot'[h] # casDurRot'[h]}
       /\ casStats' = [chunks |-> Cardinality(files),
                       logical |-> Cardinality(files)]
       /\ casTwins' = Cardinality(files) - Cardinality(found)
       /\ casUnread' = unread

\* What may be on the medium after a power loss: synced entries, and any of
\* the entries made or removed since, unless their directory was lost.
AfterLoss(h, dirs) ==
    IF dirs[h] = "none" THEN {{}}
    ELSE {s \in SUBSET (casSeen[h] \cup casDur[h]) :
              casSeen[h] \cap casDur[h] \subseteq s}

\* CasStore::new in a new process.
RestartCas ==
    /\ \E zip \in BOOLEAN : casZip' = zip
    /\ \E unread \in {{}} \cup {{h} : h \in {g \in Hashes : casSeen'[g] = {"zst"}}} :
          RebuildIndex(casSeen', unread)
    /\ casArc' = [h \in Hashes |-> 0]
    /\ casHolder' = [a \in Arcs |-> NobodyHolds]
    /\ casCall' = [c \in CasCalls |-> Unused]
    /\ UNCHANGED casWrong

\* The process ends and is started again.
RestartProcess ==
    /\ Spend("restarts")
    /\ UNCHANGED <<casFiles, casPromise>>
    /\ RestartCas

\* A file that is there after a power loss is the visible or the durable one.
RotAfterLoss(h, seen, rot) ==
    /\ rot \subseteq seen
    /\ \A f \in seen : \/ f \in casSeen[h] /\ (f \in rot <=> f \in casRot[h])
                       \/ f \in casDur[h] /\ (f \in rot <=> f \in casDurRot[h])

\* The power fails.  No code syncs the directories above the shard of an
\* object, so shard directories made since may be lost with all they hold:
\* objects in them are promised no longer, although their put was answered.
LosePower ==
    /\ Spend("restarts")
    /\ casDirs' \in {d \in [Hashes -> {"none", "durable"}] :
                       \A h \in Hashes : casDirs[h] # "made" => d[h] = casDirs[h]}
    /\ casSeen' \in {s \in [Hashes -> SUBSET Forms] :
                       \A h \in Hashes : s[h] \in AfterLoss(h, casDirs')}
    /\ casDur' = casSeen'
    /\ casRot' \in {r \in [Hashes -> SUBSET Forms] :
                      \A h \in Hashes : RotAfterLoss(h, casSeen'[h], r[h])}
    /\ casDurRot' = casRot'
    /\ casPromise' = {h \in casPromise : casDirs'[h] # "none"}
    /\ RestartCas

\* A file at rest is damaged, or removed, by something else.
Damage(h) ==
    /\ h \in casIndex /\ casSeen[h] # {} /\ Spend("damage")
    /\ \/ /\ \E f \in casSeen[h] :
                /\ casRot' = [casRot EXCEPT ![h] = @ \cup {f}]
                /\ casDurRot' = [casDurRot EXCEPT ![h] = @ \cup ({f} \cap casDur[h])]
          /\ UNCHANGED <<casSeen, casDur>>
       \/ /\ casSeen' = [casSeen EXCEPT ![h] = {}]
          /\ casDur' = [casDur EXCEPT ![h] = {}]
          /\ casRot' = [casRot EXCEPT ![h] = {}]
          /\ casDurRot' = [casDurRot EXCEPT ![h] = {}]
    /\ casPromise' = casPromise \ {h}
    /\ casCall' = Doubted(casCall, h)
    /\ UNCHANGED <<casDirs, casMemory, casLocks, casWrong>>

CasInit ==
    /\ casSeen \in {s \in [Hashes -> SUBSET Forms] :
                       \A h \in Hashes : Cardinality(s[h]) <= 1}
    /\ casDur = casSeen
    /\ casDirs = [h \in Hashes |-> IF casSeen[h] = {} THEN "none" ELSE "durable"]
    /\ casRot = [h \in Hashes |-> {}] /\ casDurRot = casRot
    /\ casIndex = {h \in Hashes : casSeen[h] # {}}
    /\ casStats = [chunks |-> Cardinality(casIndex),
                   logical |-> Cardinality(casIndex)]
    /\ casZip \in BOOLEAN
    /\ casArc = [h \in Hashes |-> 0]
    /\ casHolder = [a \in Arcs |-> NobodyHolds]
    /\ casCall = [c \in CasCalls |-> Unused]
    /\ casPromise = casIndex /\ casUnread = {} /\ casLoose = {} /\ casTwins = 0
    /\ casWrong = {}
    /\ casBound = [ops |-> MaxCasOps, faults |-> MaxCasFaults,
                   cuts |-> MaxCasCuts, restarts |-> MaxCasRestarts,
                   damage |-> MaxCasDamage]

CasStart(c) == \/ PutChunk(c) \/ DeleteChunk(c) \/ PutFile(c)
               \/ GetObjects(c) \/ ListObjects(c) \/ Scrub(c)

CasStep(c) == \/ LockForHash(c) \/ AcquireHash(c) \/ PutDeduplicated(c)
              \/ PutLooks(c) \/ PutWrites(c) \/ PutWriteFails(c)
              \/ PutSynced(c) \/ SyncParentFails(c) \/ DeleteFindsNothing(c)
              \/ DeleteUnlinks(c) \/ DeleteSynced(c) \/ ReleaseHash(c)
              \/ RemoveHashLockIfIdle(c) \/ HandlerGoesOn(c) \/ StreamFails(c)
              \/ CutOff(c) \/ ReadObject(c) \/ ListPage(c)

CasNext == \/ \E c \in CasCalls : CasStart(c) \/ CasStep(c)
           \/ RestartProcess \/ LosePower
           \/ \E h \in Hashes : Damage(h)

CasSpec == CasInit /\ [][CasNext]_casVars

(***************************************************************************)
(* Properties                                                              *)
(***************************************************************************)

\* Two calls never work on the files and the index entry of one hash at
\* the same time, whatever entries of the lock map come and go.
HashesExclusive ==
    \A c, d \in CasCalls :
       /\ c # d /\ casCall[c].hash = casCall[d].hash
       /\ casCall[c].op # "idle" /\ casCall[d].op # "idle"
       => ~({casCall[c].at, casCall[d].at} \subseteq {"look", "write", "sync"})

\* The file a read opens is whole, and it is the one a read opens after a
\* power loss.
Whole(h) ==
    LET f == First(casSeen[h])
    IN /\ f \in casSeen[h] \cap casDur[h] /\ f = First(casDur[h])
       /\ f \notin casRot[h] \cup casDurRot[h]

\* An object whose put succeeded, and that nobody removed or damaged since,
\* can be read now and after a power loss, and is indexed unless its file
\* could not be read at the last start.  Three puts promise nothing: behind a
\* damaged compressed file (PutSynced), on changes a killed process left
\* unsynced (PutDeduplicated), and in a shard directory lost with the power.
PromisesKept ==
    \A h \in casPromise : Whole(h) /\ h \in casIndex \cup casUnread

\* The chunk counter agrees with the index, whatever was written twice,
\* dropped as stale or rebuilt.
ChunksExact == casStats.chunks = Cardinality(casIndex) + casTwins

\* The bytes a running file upload would give back are still in the logical
\* size.
LogicalCovers ==
    \A c \in CasCalls : casCall[c].mode = "put" /\ casCall[c].op = "file"
                           => casCall[c].added <= casStats.logical

\* A read of promised objects finds them, a listing misses no object that
\* was there all along and a scrub judges each object as it was.
AnswersRight == casWrong = {}

\* What the object store promises the rest of the system: exclusive writers
\* per hash, objects that survive once answered, exact counters and right
\* answers (CasStore in cas.rs).
CasHonest == /\ HashesExclusive /\ PromisesKept /\ ChunksExact /\ LogicalCovers
             /\ AnswersRight

\* The dataplane service as a whole (service.rs): an honest object store,
\* fed with chunks that depend on a file's content alone.
DataplaneHonest == CasHonest /\ CutsCanonical
=============================================================================
