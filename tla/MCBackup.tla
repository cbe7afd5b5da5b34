------------------------------ MODULE MCBackup ------------------------------
(***************************************************************************)
(* The instance explores the manager one concern at a time: retention over *)
(* restarts, the scheduler, drills and restores from damaged snapshots, and*)
(* a remote job beside a local one; the trees of one snapshot; and the     *)
(* credential file of a remote job.  The WebDAV handler is explored beside *)
(* them: its path locks alone, with DAV locks, and with the listing cache. *)
(* focus says which concern moves; the other modules rest in one state.    *)
(***************************************************************************)
EXTENDS Restores, RemoteCredentials, WebDAVLocks, TLC

CONSTANTS Here, Away    \* a local and a remote job

\* A file, a directory with a file, an excluded file, the reserved directory.
TreePathsMC == {<<>>, <<"a">>, <<"d">>, <<"d", "a">>, <<"r">>, <<"r", "c">>, <<"x">>}
ExcludedMC == {<<"x">>}

\* Two directories with a file each, and the backup name of a MOVE.
PathOrderMC == <<<<>>, <<"b">>, <<"d">>, <<"d", "f">>, <<"e">>, <<"e", "f">>>>
TargetsMC == {<<"d">>, <<"d", "f">>, <<"e">>}

VARIABLE focus

Mishaps == budget.faults + budget.crashes + budget.rot
FewMishaps ==
    /\ Mishaps <= 2
    /\ Mishaps = 2 => ops <= 1
    /\ Mishaps = 1 /\ focus \in {"schedule", "remote"} => ops <= 2

\* Two DAV requests with DAV locks or listings only when one is a plain PUT.
PlainPut(r) == /\ req[r].kind = "put" /\ req[r].src = <<"d", "f">>
               /\ req[r].given.token = NoToken
FewDav ==
    /\ focus = "locks" => (locking.at # "idle" => Cardinality(DavActive) <= 1)
    /\ focus = "paths" => davBound.faults = 0
    /\ focus # "paths" => /\ \A r \in DavActive : req[r].kind # "get"
                          /\ \A r, q \in DavActive :
                                r # q => PlainPut(r) \/ PlainPut(q)
    /\ Cardinality(DavActive) = 2 =>
         /\ focus = "locks" => davBound.grants = 1
         /\ focus = "cache" => davBound.listings = 1

Few == FewMishaps /\ FewDav
Symmetry == Permutations(DavRequests)

\* The clock moves between operations and while one works.
QuietTick == (\A j \in Jobs : task[j].at \in {"free", "work"}) /\ Tick
Crash == Kill \/ PowerLoss \/ Open

Retention ==
    \/ \E kind \in {"backup", "restore"} : Request(Here, kind)
    \/ Operation(Here) \/ TakeTarget(Here) \/ QuietTick \/ Crash
Schedule ==
    \/ Request(Here, "backup") \/ ListDue \/ RunDue(Here) \/ Operation(Here) \/ Remind(Here)
    \/ Close \/ ReleaseStateLock \/ QuietTick \/ Crash
Evidence ==
    \/ \E kind \in {"backup", "drill", "restore", "verify", "check"} : Request(Here, kind)
    \/ Operation(Here) \/ Damage \/ CheckReadiness(Here) \/ TakeTarget(Here)
    \/ StartBatch \/ PreviewNext \/ RestoreNext \/ VerifyNext \/ Crash
Remote ==
    \/ Request(Here, "backup")
    \/ \E kind \in {"backup", "drill", "restore"} : Request(Away, kind)
    \/ \E j \in Jobs : Operation(j)
    \/ Close \/ ReleaseStateLock \/ Crash

FileNode(c) == [k |-> "file", c |-> c, m |-> Private]
LinkNode == [k |-> "link", c |-> 0, m |-> Private]
EmptySource == [tree |-> EmptyTree, conf |-> Absent]
Sources ==
    {[tree |-> t, conf |-> c] :
        t \in {x \in [TreePaths -> {Absent, DirNode(Private), DirNode(5), FileNode(1), LinkNode}] :
                /\ IsTree(x) /\ Cardinality({p \in TreePaths : x[p] # Absent}) <= 4
                /\ x[<<>>] = DirNode(5)},
        c \in {Absent, FileNode(2)}}

Foci == {"retention", "schedule", "evidence", "remote"}
DavFoci == {"paths", "locks", "cache"}
DavAtRest == DavInit /\ tree[<<"e">>] = NoNode

MCInit ==
    /\ focus \in Foci \cup DavFoci \cup {"credential", "tree"}
    /\ BackupInit /\ CredentialInit
    /\ TreeInit(IF focus = "tree" THEN Sources ELSE {EmptySource})
    /\ IF focus \in DavFoci THEN DavInit ELSE DavAtRest
MCNext ==
    /\ UNCHANGED focus
    /\ IF focus = "tree" THEN TreeNext ELSE UNCHANGED treeVars
    /\ IF focus = "credential" THEN CredentialNext ELSE UNCHANGED credentialVars
    /\ IF focus \notin Foci THEN UNCHANGED backupVars ELSE
       \/ focus = "retention" /\ Retention
       \/ focus = "schedule" /\ Schedule
       \/ focus = "evidence" /\ Evidence
       \/ focus = "remote" /\ Remote
    /\ IF focus \notin DavFoci THEN UNCHANGED davVars ELSE
       \/ RequestSide
       \/ focus = "locks" /\ (LockSide \/ ApiSide)
       \/ focus = "cache" /\ (PropfindSide \/ ApiSide)
MCSpec == MCInit /\ [][MCNext]_<<backupVars, treeVars, credentialVars, davVars,
                                 focus>>
=============================================================================
