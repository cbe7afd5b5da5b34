---------------------------- MODULE SnapshotTree ----------------------------
(***************************************************************************)
(* What a local backup stores of a tree, and what a restore and its        *)
(* verification make of it (internal/backup/manager.go): copySourceTree,   *)
(* the manifest, the checks of a stored snapshot, restoreManifestToTarget  *)
(* file by file, the installation and the comparison of the target with    *)
(* the snapshot.  Somebody else may change the stored snapshot and the     *)
(* installed target at any time; the staging directory is private.         *)
(*                                                                         *)
(* A tree is a function from paths to nodes.  A file's content and digest  *)
(* are one value, special permission bits are left out.                    *)
(***************************************************************************)
EXTENDS Integers, Sequences, FiniteSets

CONSTANTS
    TreePaths,    \* the paths of a tree, sequences of names; <<>> is its root
    ConfigDir,    \* the name .mnemonas-restore
    ConfigName,   \* the name config.toml
    Contents, Modes,
    Private,      \* the mode 0700
    Excluded,     \* the job's exclude list
    MaxTampering  \* bound: changes made by somebody else

ASSUME TreeAssumption ==
    /\ <<>> \in TreePaths
    /\ \A p \in TreePaths : p # <<>> => SubSeq(p, 1, Len(p) - 1) \in TreePaths
    /\ <<ConfigDir, ConfigName>> \in TreePaths /\ Private \in Modes

VARIABLES
    source,     \* the tree to back up and its configuration file
    stored,     \* the snapshot directory: data, conf, and whether the manifest is as written
    manifest,   \* the manifest the run's evidence vouches for
    stage,      \* the staging directory of a restore: what is there, files to copy, options
    installed,  \* the restore target, with a flag for changes by somebody else
    verdict,    \* what the last verification said: the comparison warned or not
    tampering

treeVars == <<source, stored, manifest, stage, installed, verdict, tampering>>

-----------------------------------------------------------------------------
Absent == [k |-> "none", c |-> 0, m |-> Private]
DirNode(m) == [k |-> "dir", c |-> 0, m |-> m]
Nodes ==
    {Absent} \cup {DirNode(m) : m \in Modes}
    \cup {[k |-> "file", c |-> c, m |-> m] : c \in Contents, m \in Modes}
    \cup {[k |-> "link", c |-> 0, m |-> Private]}

Parent(p) == SubSeq(p, 1, Len(p) - 1)
Above(p) == {SubSeq(p, 1, i) : i \in 0..(Len(p) - 1)}
IsTree(t) ==
    /\ t[<<>>].k = "dir"
    /\ \A p \in TreePaths \ {<<>>} : t[p].k # "none" => t[Parent(p)].k = "dir"
Files(t) == {p \in TreePaths : t[p].k = "file"}
Dirs(t) == {p \in TreePaths : t[p].k = "dir"}
EmptyTree == [p \in TreePaths |-> IF p = <<>> THEN DirNode(Private) ELSE Absent]

Nothing == [k |-> "nothing"]
ConfigPath == <<ConfigDir, ConfigName>>
Reserved(p) == p # <<>> /\ p[1] = ConfigDir

-----------------------------------------------------------------------------
(* Backup                                                                   *)

\* copySourceTreeEntry looks at a path unless a directory above is excluded.
Visited(t) == {p \in TreePaths : t[p].k # "none" /\ Above(p) \cap Excluded = {}}
Captured(t) == Visited(t) \ Excluded

\* A symlink fails the run even where it is excluded itself.
Copyable(t) == \A p \in Visited(t) : t[p].k # "link"

\* copySourceTree, copyConfigFile and the manifest of what was copied.
CaptureTree ==
    /\ stored = Nothing /\ Copyable(source.tree)
    /\ LET data == [p \in TreePaths |-> IF p \in Captured(source.tree) THEN source.tree[p] ELSE Absent]
       IN  /\ manifest' = [tree |-> data, conf |-> source.conf]
           /\ stored' = [tree |-> data, conf |-> source.conf, honest |-> TRUE]
    /\ UNCHANGED <<source, stage, installed, verdict, tampering>>

-----------------------------------------------------------------------------
(* The checks of a stored snapshot                                          *)

\* validateManifestEntries: every file and directory lies in a listed
\* directory, the data directory itself is listed.
ManifestValid(man) ==
    /\ <<>> \in Dirs(man.tree)
    /\ \A p \in (Dirs(man.tree) \cup Files(man.tree)) \ {<<>>} : Parent(p) \in Dirs(man.tree)

\* verifyManifestTreeEntry and the two sets it fills: no symlink, no entry
\* the manifest does not list, every listed one there, directory modes equal.
TreeMatches(t, want) ==
    /\ \A p \in TreePaths : t[p].k # "link"
    /\ \A p \in Dirs(t) : p \in Dirs(want) /\ t[p].m = want[p].m
    /\ Files(t) \subseteq Files(want)
    /\ Files(want) \subseteq Files(t) /\ Dirs(want) \subseteq Dirs(t)

\* hashFile against a manifest entry: content and mode.
Hashes(node, want) == node.k = "file" /\ node = want

\* verifyManifestFiles
SnapshotVerifies(snap, man) ==
    /\ snap.honest /\ ManifestValid(man)
    /\ TreeMatches(snap.tree, man.tree)
    /\ \A p \in Files(man.tree) : Hashes(snap.tree[p], man.tree[p])
    /\ snap.conf = man.conf

-----------------------------------------------------------------------------
(* Restore                                                                  *)

\* validateExplicitConfigRestoreNamespace
NamespaceFree(man, withConfig) ==
    withConfig /\ man.conf # Absent => \A p \in TreePaths : Reserved(p) => man.tree[p].k = "none"

\* The whole snapshot is verified, then the directories are created.
BeginRestore(withConfig) ==
    /\ stored # Nothing /\ stage = Nothing /\ installed = Nothing
    /\ SnapshotVerifies(stored, manifest) /\ NamespaceFree(manifest, withConfig)
    /\ stage' = [k |-> "copying", withConfig |-> withConfig,
                 todo |-> Files(manifest.tree),
                 tree |-> [p \in TreePaths |->
                             IF p = <<>> THEN DirNode(Private)
                             ELSE IF p \in Dirs(manifest.tree) THEN manifest.tree[p] ELSE Absent]]
    /\ UNCHANGED <<source, stored, manifest, installed, verdict, tampering>>

\* Variant: the copy is not hashed again, the check of the snapshot is enough.
CopyUnverified(node, want) == node.k = "file"

\* One file is copied and its copy hashed; the first that differs ends the
\* restore and removes the staging directory.
CopyVerified(node, want) == Hashes(node, want)
RestoreFile ==
    /\ stage # Nothing /\ stage.k = "copying" /\ stage.todo # {}
    /\ \E p \in stage.todo :
        stage' = IF CopyVerified(stored.tree[p], manifest.tree[p])
                 THEN [stage EXCEPT !.todo = @ \ {p}, !.tree[p] = stored.tree[p]]
                 ELSE Nothing
    /\ UNCHANGED <<source, stored, manifest, installed, verdict, tampering>>

ConfigRestored == stage.withConfig /\ manifest.conf # Absent

\* The configuration file goes below the reserved directory.
RestoreConfig ==
    /\ stage # Nothing /\ stage.k = "copying" /\ stage.todo = {}
    /\ stage' = IF ~ConfigRestored THEN [stage EXCEPT !.k = "copied"]
                ELSE IF Hashes(stored.conf, manifest.conf)
                THEN [stage EXCEPT !.k = "copied", !.tree[<<ConfigDir>>] = DirNode(Private),
                                   !.tree[ConfigPath] = stored.conf]
                ELSE Nothing
    /\ UNCHANGED <<source, stored, manifest, installed, verdict, tampering>>

\* What verifyExplicitRestoreTreeContents expects of the staging directory.
Expected(man, withConfig) ==
    [p \in TreePaths |->
        IF withConfig /\ man.conf # Absent /\ p = <<ConfigDir>> THEN DirNode(Private)
        ELSE IF withConfig /\ man.conf # Absent /\ p = ConfigPath THEN man.conf
        ELSE man.tree[p]]

\* The structure is checked with a private root; the root gets its own mode
\* once the staging directory has become the target.
InstallTree ==
    /\ stage # Nothing /\ stage.k = "copied"
    /\ TreeMatches(stage.tree,
                   [Expected(manifest, stage.withConfig) EXCEPT ![<<>>] = DirNode(Private)])
    /\ installed' = [tree |-> [stage.tree EXCEPT ![<<>>] = manifest.tree[<<>>]],
                     config |-> ConfigRestored, touched |-> FALSE]
    /\ stage' = Nothing
    /\ UNCHANGED <<source, stored, manifest, verdict, tampering>>

-----------------------------------------------------------------------------
(* Verification of a restore target                                         *)

\* appendRestoreDirectoryComparisonWarnings; below a reserved directory the
\* snapshot does not list, directories are not looked at.
DirectoriesDiffer(t, man, compare) ==
    \/ \E p \in Dirs(man.tree) : t[p] # man.tree[p]
    \/ compare /\ t[<<ConfigDir>>] \notin {Absent, DirNode(Private)}
    \/ \E p \in Dirs(t) \ Dirs(man.tree) :
        /\ p # <<>>
        /\ ~(compare /\ Reserved(p) /\ man.tree[<<ConfigDir>>].k # "dir")

\* appendRestoreConfigComparisonWarnings
ConfigDiffers(t, man, required) ==
    IF t[ConfigPath].k = "none" THEN required
    ELSE ~Hashes(t[ConfigPath], man.conf)

\* appendRestoreFileComparisonWarnings
FilesDiffer(t, man, compare, required) ==
    \/ compare /\ ConfigDiffers(t, man, required)
    \/ \E p \in Files(man.tree) : ~Hashes(t[p], man.tree[p])
    \/ \E p \in TreePaths :
        /\ t[p].k \in {"file", "link"} /\ p \notin Files(man.tree)
        /\ ~(compare /\ p = ConfigPath)

\* The restore's own record says whether the configuration was restored;
\* without one the latest snapshot is compared and the configuration is
\* looked at where it exists.
\* runRestoreVerify with appendLocalRestoreSnapshotWarnings: a snapshot that
\* does not verify is a warning of its own.  summarizeRestoreVerificationTree
\* warns of every symlink.
Differs(t, known) ==
    LET compare == IF known THEN installed.config ELSE TRUE
        required == known /\ installed.config
    IN  \/ \E p \in TreePaths : t[p].k = "link"
        \/ ~SnapshotVerifies(stored, manifest)
        \/ DirectoriesDiffer(t, manifest, compare)
        \/ FilesDiffer(t, manifest, compare, required)

VerifyTree(known) ==
    /\ installed # Nothing
    /\ verdict' = [k |-> "verified", known |-> known, warned |-> Differs(installed.tree, known)]
    /\ UNCHANGED <<source, stored, manifest, stage, installed, tampering>>

-----------------------------------------------------------------------------
(* Somebody else                                                            *)

Changed(t, t2) == IsTree(t2) /\ Cardinality({p \in TreePaths : t[p] # t2[p]}) = 1

TamperSnapshot ==
    /\ stored # Nothing /\ tampering < MaxTampering /\ tampering' = tampering + 1
    /\ \/ \E p \in TreePaths, n \in Nodes :
            /\ Changed(stored.tree, [stored.tree EXCEPT ![p] = n])
            /\ stored' = [stored EXCEPT !.tree[p] = n]
       \/ \E n \in Nodes : stored' = [stored EXCEPT !.conf = n] /\ stored' # stored
       \/ stored.honest /\ stored' = [stored EXCEPT !.honest = FALSE]
    /\ verdict' = Nothing
    /\ UNCHANGED <<source, manifest, stage, installed>>

TamperTarget ==
    /\ installed # Nothing /\ tampering < MaxTampering /\ tampering' = tampering + 1
    /\ \E p \in TreePaths, n \in Nodes :
        /\ Changed(installed.tree, [installed.tree EXCEPT ![p] = n])
        /\ installed' = [installed EXCEPT !.tree[p] = n, !.touched = TRUE]
    /\ verdict' = Nothing
    /\ UNCHANGED <<source, stored, manifest, stage>>

-----------------------------------------------------------------------------
TreeInit(sources) ==
    /\ source \in sources
    /\ stored = Nothing /\ manifest = Nothing /\ stage = Nothing /\ installed = Nothing
    /\ verdict = Nothing /\ tampering = 0

TreeNext ==
    \/ CaptureTree \/ \E b \in BOOLEAN : BeginRestore(b) \/ VerifyTree(b)
    \/ RestoreFile \/ RestoreConfig \/ InstallTree \/ TamperSnapshot \/ TamperTarget

TreeSpec(sources) == TreeInit(sources) /\ [][TreeNext]_treeVars

-----------------------------------------------------------------------------
\* A restore whose target nobody touched holds exactly what the manifest
\* lists, whatever was done to the snapshot while it was copied; its
\* verification then warns only of the snapshot itself.  A verification
\* without warnings means that the target equals the snapshot, outside the
\* reserved configuration directory (restoreManifestToTarget,
\* appendLocalRestoreSnapshotWarnings).
VerdictExact ==
    installed # Nothing =>
        /\ ~installed.touched => installed.tree = Expected(manifest, installed.config)
        /\ verdict # Nothing =>
            /\ verdict.known /\ ~installed.touched =>
                (verdict.warned <=> ~SnapshotVerifies(stored, manifest))
            /\ ~verdict.warned =>
                /\ \A p \in TreePaths : ~Reserved(p) => installed.tree[p] = manifest.tree[p]
                /\ verdict.known /\ installed.config => installed.tree[ConfigPath] = manifest.conf
                /\ verdict.known /\ ~installed.config => installed.tree = manifest.tree
=============================================================================
