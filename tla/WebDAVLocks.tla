----------------------------- MODULE WebDAVLocks -----------------------------
(***************************************************************************)
(* The WebDAV handler (internal/webdav): requests that serialize through   *)
(* reference-counted path locks, DAV locks a client holds on resources,    *)
(* the listings kept for PROPFIND, and the hooks through which renames and *)
(* deletes made elsewhere move the DAV locks along.                        *)
(*                                                                         *)
(* A path is the sequence of its names.  A node's id is the file or        *)
(* directory, its rev the content (the storage's identity token).  Quotas  *)
(* and access rules only make a request fail, which any request may.       *)
(***************************************************************************)
EXTENDS Naturals, Sequences, FiniteSets, Functions

CONSTANTS
    PathOrder,          \* the paths, in the order slices.Sort puts them
    Targets,            \* the paths requests are about
    BackupName,         \* the name a MOVE gives what it overwrites, until it is done
    DavRequests, LockTokens,
    NoNode, NoLock, NoToken,
    MaxDavOps, MaxDavFaults, MaxApiOps, DavBudget, MaxGrants, MaxListings

DavPaths == Range(PathOrder)

\* The order is a sequence of paths; requests are served by finitely many goroutines.
ASSUME DavAssumption == PathOrder \in Seq(DavPaths) /\ IsFiniteSet(DavRequests)

VARIABLES
    tree,               \* path -> node
    storing,            \* the request whose delete holds the storage lock
    pathLocks,          \* PathLock: per path the mutex entry and its reference count
    davLocks,           \* path -> DAV lock
    req,                \* requests under way
    locking,            \* a LOCK or UNLOCK between its Stat and the lock table
    listing, listings,  \* a PROPFIND under way; the listings kept
    patchy,             \* history: paths changed without an invalidation afterwards
    promised,           \* history: locks granted and not given up or expired
    broken,             \* history: somebody's lock was ignored
    davBound            \* requests, failures, changes by the API, nodes made

namespaceVars == <<tree, storing>>
cacheVars == <<listing, listings, patchy>>
history == <<promised, broken>>
davVars == <<namespaceVars, pathLocks, davLocks, req, locking, cacheVars, history, davBound>>

Root == <<>>
ParentOf(p) == SubSeq(p, 1, Len(p) - 1)
IsDescendant(root, p) == Len(root) < Len(p) /\ SubSeq(p, 1, Len(root)) = root
AtOrBelow(root, p) == root = p \/ IsDescendant(root, p)
Rebase(from, to, p) == to \o SubSeq(p, Len(from) + 1, Len(p))

Exists(p) == tree[p] # NoNode
IsDir(p) == Exists(p) /\ tree[p].dir
IsFile(p) == Exists(p) /\ ~tree[p].dir

NoRequest == [at |-> "idle"]
DavActive == {r \in DavRequests : req[r].at # "idle"}
NoEntry == [obj |-> 0, refs |-> 0]

-----------------------------------------------------------------------------
(* The path locks.                                                          *)

\* lockHierarchy and the merge of acquireHierarchyLocks: a path asked for twice
\* is written if either asks to write.
Hierarchy(p) == {SubSeq(p, 1, n) : n \in 0..Len(p)}
LockPlan(specs) ==
    {[path |-> p, write |-> \E s \in specs : s.write /\ p \in Hierarchy(s.path)] :
        p \in {x \in DavPaths : \E s \in specs : x \in Hierarchy(s.path)}}

\* The locks of a plan are taken in the order of their paths.
Rank(p) == CHOOSE i \in DOMAIN PathOrder : PathOrder[i] = p
Foremost(w, plan) == \A v \in plan : Rank(w.path) <= Rank(v.path)

FreshMutex(p) ==
    CHOOSE o \in 1..(Cardinality(DavRequests) + 1) :
        \A r \in DavActive : \A g \in req[r].got \cup req[r].wait : g.path = p => g.obj # o

\* PathLock.acquire.
Acquire(e, o) == IF e.refs = 0 THEN [obj |-> o, refs |-> 1] ELSE [e EXCEPT !.refs = @ + 1]

\* Variant: the entry goes with whoever unlocks first.
UnlockForgetful(e) == NoEntry

\* PathLock.Unlock and RUnlock: the entry is dropped with its last reference.
Unlock(e) == IF e.refs <= 1 THEN NoEntry ELSE [e EXCEPT !.refs = @ - 1]

\* The release function of acquireHierarchyLocks.
Released(r) ==
    [p \in DavPaths |-> IF \E g \in req[r].got : g.path = p THEN Unlock(pathLocks[p])
                        ELSE pathLocks[p]]

\* A mutex is taken when nobody else holds it, or everybody reads.
Grabs(r) ==
    \A w \in req[r].wait, q \in DavActive \ {r} :
        \A g \in req[q].got : g.path = w.path /\ g.obj = w.obj => ~g.write /\ ~w.write

\* acquire, and then the wait for the mutex of the entry.
RefPath(r) ==
    /\ req[r].at = "lock" /\ req[r].wait = {}
    /\ \E w \in req[r].todo :
        /\ Foremost(w, req[r].todo)
        /\ LET e == Acquire(pathLocks[w.path], FreshMutex(w.path))
           IN  /\ pathLocks' = [pathLocks EXCEPT ![w.path] = e]
               /\ req' = [req EXCEPT ![r].wait = {[path |-> w.path, obj |-> e.obj, write |-> w.write]},
                                     ![r].todo = @ \ {w}]
    /\ UNCHANGED <<namespaceVars, davLocks, locking, cacheVars, history, davBound>>

GrabPath(r) ==
    /\ req[r].at = "lock" /\ req[r].wait # {} /\ Grabs(r)
    /\ req' = [req EXCEPT ![r].got = @ \cup req[r].wait, ![r].wait = {},
                          ![r].at = IF req[r].todo = {} THEN req[r].then ELSE @]
    /\ UNCHANGED <<namespaceVars, pathLocks, davLocks, locking, cacheVars, history, davBound>>

-----------------------------------------------------------------------------
(* DAV locks.                                                               *)

\* lockCoversResourcePath and lockCoversNamespacePath.
Covers(path, p) == path = p \/ (davLocks[path].deep /\ IsDescendant(path, p))

\* lockAffectsRequest.
Affects(path, resources, namespaces, roots) ==
    \/ \E p \in resources \cup namespaces : Covers(path, p)
    \/ \E root \in roots : AtOrBelow(root, path)

\* taggedLockScopeContainsPath, lockScopeContainsPath.
TaggedScope(path, deep, p) ==
    \/ p = path
    \/ IF deep THEN IsDescendant(path, p) ELSE p # Root /\ ParentOf(p) = path
PlainScope(path, deep, p) == TaggedScope(path, deep, p) \/ AtOrBelow(p, path)

HasMatchingToken(given, path) ==
    /\ given.token = davLocks[path].token
    /\ IF given.tagged THEN TaggedScope(path, davLocks[path].deep, given.path)
       ELSE PlainScope(path, davLocks[path].deep, given.path)

Locked(p) == davLocks[p] # NoLock
WriteLockAuthorized(given, resources, namespaces, roots) ==
    \A path \in DavPaths : Locked(path) /\ Affects(path, resources, namespaces, roots)
        => HasMatchingToken(given, path)

NamespacesOf(ps) == {ParentOf(p) : p \in ps \ {Root}}

\* What each method asks authorizeWriteLockWithScope about.
Authorized(q) ==
    CASE q.kind = "put" -> WriteLockAuthorized(q.given, q.resources, q.namespaces, {})
      [] q.kind = "delete" ->
            WriteLockAuthorized(q.given, {q.src}, NamespacesOf({q.src}), {q.src})
      [] q.kind = "mkcol" -> WriteLockAuthorized(q.given, {q.src}, NamespacesOf({q.src}), {})
      [] q.kind = "copy" -> WriteLockAuthorized(q.given, {q.dst}, NamespacesOf({q.dst}), {})
      [] q.kind = "move" ->
            WriteLockAuthorized(q.given, {q.src, q.dst}, NamespacesOf({q.src, q.dst}),
                                {q.src, q.dst})

\* The locks a request's last check looked at, and may rely on from then on.
LocksSeen == {<<p, davLocks[p]>> : p \in {x \in DavPaths : Locked(x)}}

\* clearLocksUnderPath, restoreLocks, moveLocksUnderPath.
ClearLocks(ls, root) == [p \in DavPaths |-> IF AtOrBelow(root, p) THEN NoLock ELSE ls[p]]
RestoreLocks(ls, removed) == [p \in DavPaths |-> IF ls[p] = NoLock THEN removed[p] ELSE ls[p]]
MoveLocks(ls, from, to) ==
    [p \in DavPaths |->
        IF AtOrBelow(to, p)
        THEN IF Rebase(to, from, p) \in DavPaths THEN ls[Rebase(to, from, p)] ELSE NoLock
        ELSE IF AtOrBelow(from, p) THEN NoLock ELSE ls[p]]

\* handleLock: the Stat and the lock table are two steps.
LockStat ==
    /\ locking.at = "idle" /\ storing = NoToken /\ davBound.grants < MaxGrants
    /\ \E p \in Targets, deep \in BOOLEAN :
        /\ Exists(p)
        /\ locking' = [at |-> "lock", path |-> p, node |-> tree[p], deep |-> deep]
    /\ UNCHANGED <<namespaceVars, pathLocks, davLocks, req, cacheVars, history, davBound>>

LockConflicts(p, dir, deep) ==
    \E path \in DavPaths : Locked(path) /\ (Covers(path, p) \/ (dir /\ deep /\ AtOrBelow(p, path)))

LockGrant ==
    /\ locking.at = "lock"
    /\ IF LockConflicts(locking.path, locking.node.dir, locking.deep)
       THEN UNCHANGED <<davLocks, promised>>
       ELSE \E k \in LockTokens :
                /\ \A p \in DavPaths : Locked(p) => davLocks[p].token # k
                /\ davLocks' = [davLocks EXCEPT ![locking.path] =
                        [token |-> k, deep |-> locking.deep, id |-> locking.node.id,
                         late |-> ~Exists(locking.path) \/ tree[locking.path].id # locking.node.id]]
                /\ promised' = IF davLocks'[locking.path].late THEN promised
                               ELSE promised \cup {[token |-> k, id |-> locking.node.id]}
    /\ locking' = NoRequest
    /\ davBound' = [davBound EXCEPT !.grants = @ + 1]
    /\ UNCHANGED <<namespaceVars, pathLocks, req, cacheVars, broken>>

\* handleUnlock by whoever has the token, and the loop that drops expired locks.
UnlockOrExpire ==
    /\ \E p \in DavPaths :
        /\ Locked(p)
        /\ davLocks' = [davLocks EXCEPT ![p] = NoLock]
        /\ promised' = {h \in promised : h.token # davLocks[p].token}
    /\ UNCHANGED <<namespaceVars, pathLocks, req, locking, cacheVars, broken, davBound>>

-----------------------------------------------------------------------------
(* PROPFIND and its listings.                                               *)

View(p) == [self |-> tree[p],
            kids |-> {<<c, tree[c]>> : c \in {x \in DavPaths \ {Root} : ParentOf(x) = p /\ Exists(x)}}]

\* affectsCachedPropfind.
AffectsListing(changed, p) == AtOrBelow(changed, p) \/ IsDescendant(p, changed)

\* invalidatePropCache: the generation moves, so that no listing read before is kept.
Invalidated(ls, paths) == {l \in ls : \A p \in paths : ~AffectsListing(p, l.path)}
Unsettled(l) == IF l.at = "idle" THEN l ELSE [l EXCEPT !.clean = FALSE]
Invalidate(paths) ==
    /\ listings' = Invalidated(listings, paths)
    /\ listing' = Unsettled(listing)

PropfindStart ==
    /\ listing.at = "idle" /\ davBound.listings < MaxListings
    /\ \E p \in Targets \cup {Root} :
        /\ \A l \in listings : l.path # p
        /\ listing' = [at |-> "stat", path |-> p, clean |-> TRUE, self |-> NoNode]
    /\ davBound' = [davBound EXCEPT !.listings = @ + 1]
    /\ UNCHANGED <<namespaceVars, pathLocks, davLocks, req, locking, listings, patchy, history>>

PropfindStat ==
    /\ listing.at = "stat" /\ storing = NoToken
    /\ listing' = IF Exists(listing.path)
                  THEN [listing EXCEPT !.at = "children", !.self = tree[listing.path]]
                  ELSE NoRequest
    /\ UNCHANGED <<namespaceVars, pathLocks, davLocks, req, locking, listings, patchy, history,
                   davBound>>

PropfindChildren ==
    /\ listing.at = "children" /\ storing = NoToken
    /\ listing' = [at |-> "keep", path |-> listing.path, clean |-> listing.clean,
                   view |-> [View(listing.path) EXCEPT !.self = listing.self]]
    /\ UNCHANGED <<namespaceVars, pathLocks, davLocks, req, locking, listings, patchy, history,
                   davBound>>

\* SetIfUnchanged.
PropfindKeep ==
    /\ listing.at = "keep"
    /\ listings' = IF listing.clean
                   THEN {l \in listings : l.path # listing.path}
                            \cup {[path |-> listing.path, view |-> listing.view]}
                   ELSE listings
    /\ listing' = NoRequest
    /\ UNCHANGED <<namespaceVars, pathLocks, davLocks, req, locking, patchy, history, davBound>>

-----------------------------------------------------------------------------
(* What the storage does, with the hooks it calls under its lock.           *)

Subtree(t, p) == {x \in DavPaths : AtOrBelow(p, x) /\ t[x] # NoNode}
Removed(t, p) == [x \in DavPaths |-> IF AtOrBelow(p, x) THEN NoNode ELSE t[x]]
Moved(t, from, to) ==
    [p \in DavPaths |->
        IF AtOrBelow(to, p)
        THEN IF Rebase(to, from, p) \in DavPaths THEN t[Rebase(to, from, p)] ELSE NoNode
        ELSE IF AtOrBelow(from, p) THEN NoNode ELSE t[p]]

\* The storage refuses to rename over something, and every name must have one of
\* this model's paths to move to.
Renames(from, to) ==
    /\ Exists(from) /\ ~Exists(to) /\ to # Root /\ IsDir(ParentOf(to)) /\ ~AtOrBelow(from, to)
    /\ \A p \in Subtree(tree, from) : Rebase(from, to, p) \in DavPaths
AffectedBy(paths) == paths \cup NamespacesOf(paths)

\* handlePathRenamed, up to OnPathRenamed.
RenameHook(from, to) ==
    /\ tree' = Moved(tree, from, to)
    /\ davLocks' = MoveLocks(davLocks, from, to)
    /\ Invalidate(AffectedBy({from, to}))

\* Requests, changes through the API and failures share one budget.
InBudget == davBound.ops + davBound.api + davBound.faults < DavBudget

NewNode(dir) == [id |-> davBound.made + 1, rev |-> davBound.made + 1, dir |-> dir]
\* The file at p is made, or gets new content.
FileWritten(p) ==
    [tree EXCEPT ![p] = IF @ = NoNode THEN NewNode(FALSE) ELSE [@ EXCEPT !.rev = davBound.made + 1]]

Created == davBound' = [davBound EXCEPT !.made = @ + 1]

DavFaulty(o) ==
    /\ o # "ok" => davBound.faults < MaxDavFaults /\ InBudget
    /\ davBound' = [davBound EXCEPT !.faults = @ + (IF o = "ok" THEN 0 ELSE 1)]

\* Through the API: a rename, a delete, and an upload, which tells no listing.
ApiSteps == davBound.api < MaxApiOps /\ InBudget /\ storing = NoToken
ApiRename ==
    /\ ApiSteps
    /\ \E from, to \in Targets : Renames(from, to) /\ RenameHook(from, to)
    /\ davBound' = [davBound EXCEPT !.api = @ + 1]
    /\ UNCHANGED <<storing, pathLocks, req, locking, patchy, history>>

ApiDelete ==
    /\ ApiSteps
    /\ \E p \in Targets :
        /\ Exists(p)
        /\ tree' = Removed(tree, p)
        /\ davLocks' = ClearLocks(davLocks, p)
        /\ Invalidate(AffectedBy({p}))
    /\ davBound' = [davBound EXCEPT !.api = @ + 1]
    /\ UNCHANGED <<storing, pathLocks, req, locking, patchy, history>>

ApiUpload ==
    /\ ApiSteps
    /\ \E p \in Targets :
        /\ IsDir(ParentOf(p)) /\ ~IsDir(p)
        /\ tree' = FileWritten(p)
        /\ patchy' = patchy \cup {p}
    /\ davBound' = [davBound EXCEPT !.api = @ + 1, !.made = @ + 1]
    /\ UNCHANGED <<storing, pathLocks, davLocks, req, locking, listing, listings, history>>

-----------------------------------------------------------------------------
(* The methods.                                                             *)

GoReq(r, at) == req' = [req EXCEPT ![r].at = at]
EndReq(r) ==
    /\ req' = [req EXCEPT ![r] = NoRequest]
    /\ pathLocks' = Released(r)

\* A lock is ignored by a step that changes what it protects, when the lock was
\* there at the request's last check and the request does not hold its token.
Protects(path, t) ==
    \E p \in DavPaths \ {Root} :
        \/ (p = path \/ (davLocks[path].deep /\ IsDescendant(path, p))) /\ t[p] # tree[p]
        \/ ParentOf(p) = path /\ (t[p] = NoNode) # (tree[p] = NoNode)
Ignores(r, t) ==
    \E path \in DavPaths :
        /\ Locked(path) /\ ~davLocks[path].late
        /\ <<path, davLocks[path]>> \in req[r].seen
        /\ davLocks[path].token # req[r].given.token
        /\ Protects(path, t)
Changes1(r, t) == tree' = t /\ broken' = (broken \/ Ignores(r, t)) /\ UNCHANGED promised

GivenBy(src) ==
    {[token |-> NoToken, tagged |-> FALSE, path |-> src]}
        \cup {[token |-> davLocks[p].token, tagged |-> FALSE, path |-> src] :
                p \in {x \in DavPaths : Locked(x)}}
        \cup {[token |-> davLocks[p].token, tagged |-> TRUE, path |-> p] :
                p \in {x \in DavPaths : Locked(x)}}

Backup(p) == Append(ParentOf(p), BackupName)

Methods(src) ==
    {[kind |-> k, src |-> src, dst |-> src, specs |-> {[path |-> src, write |-> k # "get"]}] :
        k \in {"get", "put", "delete", "mkcol"}}
    \cup {[kind |-> "copy", src |-> src, dst |-> d,
           specs |-> {[path |-> src, write |-> FALSE], [path |-> d, write |-> TRUE]}] :
            d \in Targets \ {src}}
    \cup {[kind |-> "move", src |-> src, dst |-> d,
           specs |-> {[path |-> src, write |-> TRUE], [path |-> d, write |-> TRUE]}] :
            d \in Targets \ {src}}

Arrive(r) ==
    /\ req[r].at = "idle" /\ davBound.ops < MaxDavOps /\ InBudget
    /\ \E src \in Targets : \E m \in Methods(src), given \in GivenBy(src) :
        /\ m.kind = "get" => given.token = NoToken
        /\ req' = [req EXCEPT ![r] =
                [at |-> "lock", then |-> "check", kind |-> m.kind, src |-> src, dst |-> m.dst,
                 given |-> given, todo |-> LockPlan(m.specs), wait |-> {}, got |-> {},
                 seen |-> {}, resources |-> {}, namespaces |-> {}, node |-> NoNode,
                 lost |-> NoLock, gone |-> NoNode]]
    /\ davBound' = [davBound EXCEPT !.ops = @ + 1]
    /\ UNCHANGED <<namespaceVars, pathLocks, davLocks, locking, cacheVars, history>>

\* What PUT authorizes: the file, or the directory it is going to be made in.
PutScope(q) ==
    IF Exists(q.src) THEN [q EXCEPT !.resources = {q.src}, !.node = tree[q.src]]
    ELSE [q EXCEPT !.namespaces = NamespacesOf({q.src})]

\* What must hold of the resources before the method goes on.
Acceptable(q) ==
    CASE q.kind = "put" -> IsDir(ParentOf(q.src))
      [] q.kind = "delete" -> TRUE
      [] q.kind = "mkcol" -> ~Exists(q.src) /\ IsDir(ParentOf(q.src))
      [] q.kind = "copy" -> /\ Exists(q.src) /\ IsDir(ParentOf(q.dst))
                            /\ ~(IsDir(q.src) /\ (IsDescendant(q.src, q.dst) \/ Exists(q.dst)))
      [] q.kind = "move" -> /\ Exists(q.src) /\ IsDir(ParentOf(q.dst))
                            /\ Exists(q.dst) => IsDir(q.src) = IsDir(q.dst)
                            /\ ~(IsDir(q.src) /\ IsDescendant(q.src, q.dst))
Changed1(q) == IF q.kind = "move" THEN {q.src, q.dst} ELSE {q.dst}

\* The checks each method makes under its path locks, up to the first invalidation.
Check(r) ==
    /\ req[r].at = "check" /\ storing = NoToken
    /\ LET q == IF req[r].kind = "put" THEN PutScope(req[r]) ELSE req[r]
       IN  IF q.kind = "get"
           THEN GoReq(r, "serve") /\ UNCHANGED <<pathLocks, listing, listings>>
           ELSE IF ~Authorized(q) \/ ~Acceptable(q)
           THEN EndReq(r) /\ UNCHANGED <<listing, listings>>
           ELSE /\ Invalidate(AffectedBy(Changed1(q)))
                /\ IF q.kind = "put"
                   THEN /\ req' = [req EXCEPT ![r] = [q EXCEPT !.at = "body", !.got = {}]]
                        /\ pathLocks' = Released(r)
                   ELSE /\ req' = [req EXCEPT ![r] = [q EXCEPT !.at = "commit", !.seen = LocksSeen,
                                                               !.node = tree[q.dst]]]
                        /\ UNCHANGED pathLocks
    /\ UNCHANGED <<namespaceVars, davLocks, locking, patchy, history, davBound>>

ServeGet(r) ==
    /\ req[r].at = "serve"
    /\ EndReq(r)
    /\ UNCHANGED <<namespaceVars, davLocks, locking, cacheVars, history, davBound>>

\* A PUT's body is read without path locks; at its end they are taken again,
\* unless the client went away.
PutBody(r) ==
    /\ req[r].at = "body"
    /\ \/ req' = [req EXCEPT ![r].at = "lock", ![r].then = "boundary",
                             ![r].todo = LockPlan({[path |-> req[r].src, write |-> TRUE]})]
          /\ UNCHANGED pathLocks
       \/ EndReq(r)
    /\ UNCHANGED <<namespaceVars, davLocks, locking, cacheVars, history, davBound>>

\* validatePutCommitBoundary.
PutBoundary(r) ==
    /\ req[r].at = "boundary" /\ storing = NoToken
    /\ IF IsDir(ParentOf(req[r].src)) /\ Authorized(req[r])
       THEN req' = [req EXCEPT ![r].at = "commit", ![r].seen = LocksSeen] /\ UNCHANGED pathLocks
       ELSE EndReq(r)
    /\ UNCHANGED <<namespaceVars, davLocks, locking, cacheVars, history, davBound>>

Committing(r, kind) == req[r].at = "commit" /\ req[r].kind = kind /\ storing = NoToken
DavFails(r) ==
    /\ EndReq(r)
    /\ UNCHANGED <<tree, storing, davLocks, cacheVars, history, davBound>>

\* The storage published the file, could not take it back and answers with an
\* error: the handler returns without telling the listings.
WrittenButFailed(r, p) ==
    /\ Changes1(r, FileWritten(p))
    /\ patchy' = patchy \cup {p}
    /\ davBound.faults < MaxDavFaults /\ InBudget
    /\ davBound' = [davBound EXCEPT !.faults = @ + 1, !.made = @ + 1]
    /\ EndReq(r)
    /\ UNCHANGED <<storing, davLocks, listing, listings>>

\* WriteFileIfUnchanged: what the PUT saw must still be there.  The path locks
\* go before the listings are invalidated once more.
CommitPut(r) ==
    /\ Committing(r, "put")
    /\ \/ /\ tree[req[r].src] = req[r].node /\ ~IsDir(req[r].src)
          /\ \/ /\ Changes1(r, FileWritten(req[r].src))
                /\ Created
                /\ req' = [req EXCEPT ![r].at = "tell", ![r].got = {}]
                /\ pathLocks' = Released(r)
                /\ UNCHANGED <<storing, davLocks, cacheVars>>
             \/ WrittenButFailed(r, req[r].src)
       \/ DavFails(r)
    /\ UNCHANGED locking

CommitMkcol(r) ==
    /\ Committing(r, "mkcol")
    /\ \/ /\ ~Exists(req[r].src) /\ IsDir(ParentOf(req[r].src))
          /\ Changes1(r, [tree EXCEPT ![req[r].src] = NewNode(TRUE)])
          /\ Created
          /\ GoReq(r, "tell")
          /\ UNCHANGED <<storing, pathLocks, davLocks, cacheVars>>
       \/ DavFails(r)
    /\ UNCHANGED locking

\* A delete takes the tree away and tells the hook, which clears the DAV locks;
\* a permanent delete that fails after that puts both back.
CommitDelete(r) ==
    /\ Committing(r, "delete")
    /\ \/ /\ Exists(req[r].src)
          /\ Changes1(r, Removed(tree, req[r].src))
          /\ davLocks' = ClearLocks(davLocks, req[r].src)
          /\ Invalidate(AffectedBy({req[r].src}))
          /\ storing' = r
          /\ req' = [req EXCEPT ![r].at = "deleted", ![r].gone = tree,
                        ![r].lost = [p \in DavPaths |->
                            IF AtOrBelow(req[r].src, p) THEN davLocks[p] ELSE NoLock]]
          /\ UNCHANGED <<pathLocks, patchy, davBound>>
       \/ DavFails(r)
    /\ UNCHANGED locking

DeleteEnds(r, o) ==
    /\ req[r].at = "deleted"
    /\ storing' = NoToken
    /\ DavFaulty(o)
    /\ IF o = "ok"
       THEN GoReq(r, "tell") /\ UNCHANGED <<tree, pathLocks, davLocks>>
       ELSE /\ tree' = req[r].gone
            /\ davLocks' = RestoreLocks(davLocks, req[r].lost)
            /\ EndReq(r)
    /\ UNCHANGED <<locking, cacheVars, history>>

\* copyResource: a file, onto a file too; a directory first as an empty one.
CommitCopy(r) ==
    /\ Committing(r, "copy")
    /\ LET q == req[r]
       IN  \/ /\ IsFile(q.src) /\ IsDir(ParentOf(q.dst))
              /\ IF q.node = NoNode THEN ~Exists(q.dst) ELSE ~IsDir(q.dst)
              /\ \/ /\ Changes1(r, FileWritten(q.dst))
                    /\ Created
                    /\ GoReq(r, "tell")
                    /\ UNCHANGED <<storing, pathLocks, davLocks, cacheVars>>
                 \/ WrittenButFailed(r, q.dst)
           \/ /\ IsDir(q.src) /\ ~Exists(q.dst) /\ IsDir(ParentOf(q.dst))
              /\ Changes1(r, [tree EXCEPT ![q.dst] = NewNode(TRUE)])
              /\ Created
              /\ \E at \in {"children", "tell"} : GoReq(r, at)      \* "Depth: 0" stops here
              /\ UNCHANGED <<storing, pathLocks, davLocks, cacheVars>>
           \/ DavFails(r)
    /\ UNCHANGED locking

\* The children follow.  When one does not, the copy is deleted again for good,
\* which may fail too and leaves a partial copy.
CopyChildren(r) ==
    LET q == req[r]
        kids == {p \in DavPaths : IsDescendant(q.src, p) /\ IsFile(p)}
        to(p) == Rebase(q.src, q.dst, p)
    IN  /\ q.at = "children" /\ storing = NoToken
        /\ \/ /\ \A p \in kids : to(p) \in DavPaths /\ ~Exists(to(p)) /\ IsDir(ParentOf(to(p)))
              /\ Changes1(r, [x \in DavPaths |->
                    IF \E p \in kids : to(p) = x THEN NewNode(FALSE) ELSE tree[x]])
              /\ Created
              /\ GoReq(r, "tell")
              /\ UNCHANGED <<storing, pathLocks, davLocks, cacheVars>>
           \/ /\ tree' = Removed(tree, q.dst)
              /\ davLocks' = ClearLocks(davLocks, q.dst)
              /\ Invalidate(AffectedBy({q.dst}))
              /\ DavFaulty("fail")
              /\ EndReq(r)
              /\ UNCHANGED <<storing, patchy, history>>
           \/ /\ patchy' = patchy \cup {q.dst}
              /\ DavFaulty("fail")
              /\ EndReq(r)
              /\ UNCHANGED <<tree, storing, davLocks, listing, listings, history>>
        /\ UNCHANGED locking

\* One rename of a MOVE: done, done but with a warning the handler takes for a
\* failure, or not done.
MoveStep(r, from, to, o, done, notDone) ==
    /\ DavFaulty(o)
    /\ IF o = "fail" \/ ~Renames(from, to)
       THEN /\ notDone
            /\ UNCHANGED <<tree, davLocks, listing, listings, history>>
       ELSE /\ RenameHook(from, to)
            /\ broken' = (broken \/ Ignores(r, Moved(tree, from, to))) /\ UNCHANGED promised
            /\ IF o = "ok" THEN done ELSE notDone
    /\ UNCHANGED <<storing, locking, patchy>>

On(r, at) == GoReq(r, at) /\ UNCHANGED pathLocks

CommitMove(r, o) ==
    /\ Committing(r, "move")
    /\ IF req[r].node = NoNode
       THEN MoveStep(r, req[r].src, req[r].dst, o, On(r, "tell"), EndReq(r))
       ELSE /\ Backup(req[r].dst) \in DavPaths /\ ~Exists(Backup(req[r].dst))
            /\ MoveStep(r, req[r].dst, Backup(req[r].dst), o, On(r, "displaced"), EndReq(r))

MoveOver(r, o) ==
    /\ req[r].at = "displaced" /\ storing = NoToken
    /\ MoveStep(r, req[r].src, req[r].dst, o, On(r, "cleanup"), On(r, "putback"))

MovePutBack(r, o) ==
    /\ req[r].at = "putback" /\ storing = NoToken
    /\ MoveStep(r, Backup(req[r].dst), req[r].dst, o, EndReq(r), EndReq(r))

\* removeCopiedTree deletes what was overwritten.
MoveCleanup(r, o) ==
    /\ req[r].at = "cleanup" /\ storing = NoToken
    /\ DavFaulty(o)
    /\ IF o = "ok"
       THEN /\ tree' = Removed(tree, Backup(req[r].dst))
            /\ davLocks' = ClearLocks(davLocks, Backup(req[r].dst))
            /\ Invalidate(AffectedBy({Backup(req[r].dst)}))
            /\ On(r, "tell")
       ELSE EndReq(r) /\ UNCHANGED <<tree, davLocks, listing, listings>>
    /\ UNCHANGED <<storing, locking, patchy, history>>

\* The second invalidation, after which the path locks go.
Tell(r) ==
    /\ req[r].at = "tell"
    /\ Invalidate(AffectedBy(Changed1(req[r])))
    /\ EndReq(r)
    /\ UNCHANGED <<namespaceVars, davLocks, locking, patchy, history, davBound>>

-----------------------------------------------------------------------------

DavInit ==
    /\ tree \in {[p \in DavPaths |->
            CASE p = Root -> [id |-> 0, rev |-> 0, dir |-> TRUE]
              [] p = <<"d">> -> [id |-> 1, rev |-> 1, dir |-> TRUE]
              [] p = <<"d", "f">> -> [id |-> 2, rev |-> 2, dir |-> FALSE]
              [] p = <<"e">> -> e
              [] OTHER -> NoNode] : e \in {NoNode, [id |-> 3, rev |-> 3, dir |-> FALSE]}}
    /\ storing = NoToken
    /\ pathLocks = [p \in DavPaths |-> NoEntry]
    /\ davLocks = [p \in DavPaths |-> NoLock]
    /\ req = [r \in DavRequests |-> NoRequest]
    /\ locking = NoRequest /\ listing = NoRequest
    /\ listings = {} /\ patchy = {} /\ promised = {} /\ broken = FALSE
    /\ davBound = [ops |-> 0, faults |-> 0, api |-> 0, made |-> 3, grants |-> 0, listings |-> 0]

LockSide == LockStat \/ LockGrant \/ UnlockOrExpire
PropfindSide == PropfindStart \/ PropfindStat \/ PropfindChildren \/ PropfindKeep
ApiSide == ApiRename \/ ApiDelete \/ ApiUpload
RequestSide ==
    \E r \in DavRequests :
        \/ Arrive(r) \/ RefPath(r) \/ GrabPath(r) \/ Check(r) \/ ServeGet(r)
        \/ PutBody(r) \/ PutBoundary(r)
        \/ CommitPut(r) \/ CommitMkcol(r) \/ CommitDelete(r) \/ CommitCopy(r) \/ CopyChildren(r)
        \/ \E o \in {"ok", "fail"} : DeleteEnds(r, o) \/ MoveCleanup(r, o)
        \/ \E o \in {"ok", "warn", "fail"} : CommitMove(r, o) \/ MoveOver(r, o) \/ MovePutBack(r, o)
        \/ Tell(r)

DavNext == LockSide \/ PropfindSide \/ ApiSide \/ RequestSide

DavSpec == DavInit /\ [][DavNext]_davVars

-----------------------------------------------------------------------------

\* A path locked for writing has no other holder (internal/webdav/pathlock.go).
PathsExclusive ==
    \A r \in DavActive : \A q \in DavActive \ {r} :
        \A g \in req[r].got, h \in req[q].got : g.path = h.path => ~g.write /\ ~h.write

\* However requests wait for each other's path locks, one of them can go on: it
\* waits for no mutex, or its mutex is free for it and, when it only reads, no
\* writer has announced itself there (sync.RWMutex lets no reader pass).
ReadsFreely(r) ==
    \A w \in req[r].wait, q \in DavActive \ {r} :
        \A v \in req[q].wait : v.path = w.path /\ v.write => w.write
SomebodyMoves == DavActive # {} => \E r \in DavActive : Grabs(r) /\ ReadsFreely(r)

\* A lock follows the file or directory it was granted on, over renames, a MOVE
\* that is put back and a delete that is undone, and is not lost on the way.
LocksFollow ==
    /\ \A p \in DavPaths : Locked(p) /\ ~davLocks[p].late =>
            Exists(p) /\ tree[p].id = davLocks[p].id
    /\ \A h \in promised, p \in DavPaths :
            Exists(p) /\ tree[p].id = h.id => Locked(p) /\ (davLocks[p].late \/ davLocks[p].token = h.token)

\* A kept listing shows the directory as it is, but for a change still to be told
\* of and for the changes nobody tells of: an upload through the API, a directory
\* copy left in part, and a file the storage published and then failed on.
ListingsFresh ==
    \A l \in listings :
        \/ l.view = View(l.path)
        \/ \E r \in DavRequests : req[r].at \in {"tell", "children", "displaced", "putback", "cleanup"}
        \/ \E p \in patchy : AffectsListing(p, l.path)

\* What a WebDAV client may rely on (internal/webdav/handler.go, acquireHierarchyLocks,
\* writeLockAuthorized, moveLocksUnderPath, invalidatePropCache): requests on a path
\* exclude each other and never all wait, nobody changes what somebody else had
\* locked, locks stay with their resource, and kept listings are true.
DavHonest == PathsExclusive /\ SomebodyMoves /\ ~broken /\ LocksFollow /\ ListingsFresh
=============================================================================
