---------------------------- MODULE BackupProofs ----------------------------
(***************************************************************************)
(* The backup manager, proved for every instance: the credential a remote  *)
(* result is bound to (RemoteCredentials); the trees of a snapshot, its    *)
(* restore and the verification of the restored target (SnapshotTree); and *)
(* the jobs, their state file, retention, scheduler and restores (Backup). *)
(*                                                                         *)
(* CredentialInv: an accepted copy is the credential the run was bound to, *)
(* so the command and the recorded result used that one.  TreeInv: the     *)
(* staging tree consists of the manifest's directories and of the files    *)
(* copied so far, whatever somebody does to the snapshot meanwhile; an     *)
(* untouched target is what the manifest lists; and a verdict is about the *)
(* target and the snapshot as they are.                                    *)
(*                                                                         *)
(* For the manager, BackupTypes with the program positions (TaskFits), and *)
(* one invariant per promise: SettledInv (who may show as running),        *)
(* EvidenceInv (what a cached verdict was made of), ScheduleInv (the last  *)
(* scheduled start is on record in every state that can be loaded),        *)
(* StoreInv (every snapshot a state refers to is visible and synced, and   *)
(* what an operation may remove no state refers to) and PlacedInv (what    *)
(* the target holds).                                                      *)
(***************************************************************************)
EXTENDS Restores, RemoteCredentials, SequenceTheorems, TLAPS

-----------------------------------------------------------------------------
(* The credential of a remote job                                           *)

\* What a file, a copy or a binding can be; an empty Credentials is not excluded.
Readable == Credentials \cup {Mangled, NoBinding, CHOOSE c \in Credentials : TRUE}
ActiveRuns == [at : {"begun", "copying", "ready", "ran"}, binding : Readable, copy : Readable,
               token : Nat, used : Readable]

CredentialTypes ==
    /\ credential \in [c : Readable, t : Nat]
    /\ remoteRun = NotRunning \/ remoteRun \in ActiveRuns
    /\ lastResult \in [binding : Readable, used : Readable]

\* Once the copy is accepted it is the credential the run was bound to; the
\* command and a recorded result used that credential.
RunBound ==
    /\ remoteRun.at = "ready" => remoteRun.copy = remoteRun.binding
    /\ remoteRun.at = "ran" => remoteRun.used = remoteRun.binding

ResultBound == lastResult.used = lastResult.binding

CredentialInv == CredentialTypes /\ RunBound /\ ResultBound

\* Every step of a remote run and every rotation of the credential.
LEMMA CredentialStep == CredentialInv /\ [CredentialNext]_credentialVars => CredentialInv'
<1> SUFFICES ASSUME CredentialInv, [CredentialNext]_credentialVars PROVE CredentialInv'
  OBVIOUS
<1> USE DEF CredentialInv, CredentialTypes, RunBound, ResultBound, NotRunning, ActiveRuns
<1>1. CASE BeginRemote
  BY <1>1 DEF BeginRemote, BindingNow, Readable
<1>2. CASE OpenCredential
  <2>1. remoteRun \in ActiveRuns
    BY <1>2 DEF OpenCredential
  <2>2. remoteRun' = NotRunning \/ remoteRun' \in ActiveRuns
    BY <1>2, <2>1 DEF OpenCredential
  <2>3. RunBound'
    BY <1>2, <2>1 DEF OpenCredential
  <2> QED BY <1>2, <2>2, <2>3 DEF OpenCredential
<1>3. CASE CopyCredential
  <2>1. remoteRun \in ActiveRuns
    BY <1>3 DEF CopyCredential
  <2>2. remoteRun' = NotRunning \/ remoteRun' \in ActiveRuns
    BY <1>3, <2>1 DEF CopyCredential, CopyAccepted, Readable
  <2>3. RunBound'
    BY <1>3, <2>1 DEF CopyCredential, CopyAccepted, Readable
  <2> QED BY <1>3, <2>2, <2>3 DEF CopyCredential
<1>4. CASE RunCommand
  <2>1. remoteRun \in ActiveRuns
    BY <1>4 DEF RunCommand
  <2>2. remoteRun' = NotRunning \/ remoteRun' \in ActiveRuns
    BY <1>4, <2>1 DEF RunCommand
  <2>3. RunBound'
    <3>1. CASE remoteRun' = NotRunning
      BY <3>1
    <3>2. CASE remoteRun' = [remoteRun EXCEPT !.at = "ran", !.used = remoteRun.copy]
      <4>1. /\ remoteRun'.at = "ran" /\ remoteRun'.used = remoteRun.copy
            /\ remoteRun'.binding = remoteRun.binding
        BY <3>2, <2>1
      <4> QED BY <1>4, <4>1 DEF RunCommand
    <3> QED BY <1>4, <3>1, <3>2 DEF RunCommand
  <2> QED BY <1>4, <2>2, <2>3 DEF RunCommand
<1>5. CASE FinishRemote
  BY <1>5 DEF FinishRemote
<1>6. CASE Rotate
  BY <1>6 DEF Rotate, Readable
<1>7. CASE UNCHANGED credentialVars
  BY <1>7 DEF credentialVars
<1> QED BY <1>1, <1>2, <1>3, <1>4, <1>5, <1>6, <1>7 DEF CredentialNext

\* BoundEvidence for every set of credentials and any number of rotations: a result that
\* counts as a backup was made with the credential its binding names.
THEOREM EvidenceIsBound == CredentialSpec => []BoundEvidence
<1>1. CredentialInit => CredentialInv
  BY DEF CredentialInit, CredentialInv, CredentialTypes, RunBound, ResultBound, NotRunning, NoRun,
         Readable
<1>2. CredentialInv => BoundEvidence
  BY DEF CredentialInv, ResultBound, BoundEvidence, CountsAsBackup, BindingNow
<1> QED BY <1>1, <1>2, CredentialStep, PTL DEF CredentialSpec

-----------------------------------------------------------------------------
(* The trees of a snapshot and of a restore                                 *)

\* The sources a backup job can be pointed at: a tree, and a configuration
\* file or none.
ConfigNodes == {Absent} \cup {[k |-> "file", c |-> c, m |-> m] : c \in Contents, m \in Modes}
SourceTrees == {s \in [tree : [TreePaths -> Nodes], conf : ConfigNodes] : IsTree(s.tree)}

Snapshots == [tree : [TreePaths -> Nodes], conf : Nodes, honest : BOOLEAN]
Manifests == [tree : [TreePaths -> Nodes], conf : ConfigNodes]
Stages == [k : {"copying", "copied"}, withConfig : BOOLEAN, todo : SUBSET TreePaths,
           tree : [TreePaths -> Nodes]]
RestoreTargets == [tree : [TreePaths -> Nodes], config : BOOLEAN, touched : BOOLEAN]
Verdicts == [k : {"verified"}, known : BOOLEAN, warned : BOOLEAN]

TreeTypes ==
    /\ source \in SourceTrees
    /\ \/ stored = Nothing /\ stage = Nothing /\ installed = Nothing
       \/ stored \in Snapshots /\ manifest \in Manifests
    /\ stage = Nothing \/ (stage \in Stages /\ installed = Nothing)
    /\ installed = Nothing \/ installed \in RestoreTargets
    /\ verdict = Nothing \/ verdict \in Verdicts

\* A manifest lists files and directories only.
ManifestPlain ==
    stored # Nothing => \A p \in TreePaths : manifest.tree[p].k # "link"

\* The directories and the files copied so far are those of the manifest, whatever
\* happens to the snapshot meanwhile; the root stays private.
StageFaithful ==
    stage # Nothing =>
        /\ ManifestValid(manifest) /\ NamespaceFree(manifest, stage.withConfig)
        /\ stage.tree[<<>>] = DirNode(Private)
        /\ stage.k = "copying" =>
             \A p \in TreePaths \ {<<>>} :
                stage.tree[p] = IF p \in Dirs(manifest.tree) \cup (Files(manifest.tree) \ stage.todo)
                                THEN manifest.tree[p] ELSE Absent
        /\ stage.k = "copied" =>
             \A p \in TreePaths \ {<<>>} : stage.tree[p] = Expected(manifest, stage.withConfig)[p]

TargetFaithful ==
    installed # Nothing =>
        /\ ManifestValid(manifest) /\ NamespaceFree(manifest, installed.config)
        /\ installed.config => manifest.conf # Absent
        /\ ~installed.touched => installed.tree = Expected(manifest, installed.config)

\* The verdict is about the target and the snapshot as they are.
VerdictCurrent ==
    verdict # Nothing =>
        installed # Nothing /\ verdict.warned = Differs(installed.tree, verdict.known)

TreeInv == TreeTypes /\ ManifestPlain /\ StageFaithful /\ TargetFaithful /\ VerdictCurrent

\* A missing snapshot, stage, target or verdict is told from one that is there.
LEMMA NothingElse ==
    Nothing \notin Snapshots \cup Stages \cup RestoreTargets \cup Verdicts
<1>1. Nothing \notin Snapshots
  BY DEF Nothing, Snapshots
<1>2. Nothing \notin Stages
  BY DEF Nothing, Stages
<1>3. Nothing \notin RestoreTargets
  BY DEF Nothing, RestoreTargets
<1>4. Nothing \notin Verdicts
  BY DEF Nothing, Verdicts
<1> QED BY <1>1, <1>2, <1>3, <1>4

\* The configuration of a restore goes below the reserved directory.
LEMMA ConfigPaths ==
    /\ <<>> \in TreePaths /\ <<ConfigDir>> \in TreePaths /\ ConfigPath \in TreePaths
    /\ <<ConfigDir>> # <<>> /\ ConfigPath # <<>> /\ <<ConfigDir>> # ConfigPath
    /\ Reserved(<<ConfigDir>>) /\ Reserved(ConfigPath)
<1>1. ConfigPath \in TreePaths /\ ConfigPath # <<>>
  BY TreeAssumption DEF ConfigPath
<1>2. SubSeq(ConfigPath, 1, Len(ConfigPath) - 1) = <<ConfigDir>>
  <2> DEFINE S == {ConfigDir, ConfigName}
             up == SubSeq(ConfigPath, 1, 1)
  <2>1. ConfigPath \in Seq(S) /\ Len(ConfigPath) = 2 /\ ConfigPath[1] = ConfigDir
    BY DEF ConfigPath
  <2>2. up \in Seq(S) /\ Len(up) = 1 /\ up[1] = ConfigPath[1]
    <3> HIDE DEF S
    <3> QED BY <2>1, SubSeqProperties
  <2>3. <<ConfigDir>> \in Seq(S) /\ Len(<<ConfigDir>>) = 1
    OBVIOUS
  <2> HIDE DEF S, up
  <2>4. up = <<ConfigDir>>
    BY <2>1, <2>2, <2>3, SeqEqual
  <2> QED BY <2>1, <2>4 DEF up
<1> QED BY <1>1, <1>2, TreeAssumption DEF ConfigPath, Reserved

\* What a node can be.
LEMMA NodeKinds ==
    \A n \in Nodes :
        /\ n.k \in {"none", "dir", "file", "link"}
        /\ n.k = "none" <=> n = Absent
<1> QED BY DEF Nodes, Absent, DirNode

\* The nodes a capture and a restore write.
LEMMA NodeSets ==
    /\ Absent \in Nodes /\ DirNode(Private) \in Nodes /\ ConfigNodes \subseteq Nodes
    /\ DirNode(Private).k = "dir" /\ Absent.k = "none"
    /\ \A n \in ConfigNodes : n # Absent => n.k = "file"
<1> QED BY TreeAssumption DEF Nodes, ConfigNodes, Absent, DirNode

\* The copy of a captured tree has no link, since Copyable refuses one that is visited.
LEMMA CaptureStep ==
    ASSUME TreeInv, CaptureTree PROVE TreeInv'
<1> USE DEF TreeInv
<1>1. /\ stored = Nothing /\ stage = Nothing /\ installed = Nothing /\ verdict = Nothing
      /\ UNCHANGED <<source, stage, installed, verdict>>
  BY NothingElse DEF CaptureTree, TreeTypes, VerdictCurrent
<1> DEFINE data == [p \in TreePaths |-> IF p \in Captured(source.tree) THEN source.tree[p] ELSE Absent]
<1>2. /\ source.tree \in [TreePaths -> Nodes] /\ source.conf \in ConfigNodes
  BY DEF TreeTypes, SourceTrees
<1>3. data \in [TreePaths -> Nodes]
  BY <1>2, NodeSets
<1>4. \A p \in TreePaths : data[p].k # "link"
  BY NodeSets DEF CaptureTree, Copyable, Captured
<1>5. /\ manifest' = [tree |-> data, conf |-> source.conf]
      /\ stored' = [tree |-> data, conf |-> source.conf, honest |-> TRUE]
  BY DEF CaptureTree
<1> HIDE DEF data
<1>6. manifest' \in Manifests /\ stored' \in Snapshots /\ manifest'.tree = data
  BY <1>2, <1>3, <1>5, NodeSets DEF Manifests, Snapshots
<1>7. TreeTypes'
  BY <1>1, <1>6 DEF TreeTypes
<1>8. ManifestPlain'
  BY <1>4, <1>6 DEF ManifestPlain
<1> QED BY <1>1, <1>7, <1>8 DEF StageFaithful, TargetFaithful, VerdictCurrent

\* restoreManifestToTarget: the snapshot is verified and the directories are made.
LEMMA BeginRestoreStep ==
    ASSUME TreeInv, NEW b \in BOOLEAN, BeginRestore(b) PROVE TreeInv'
<1> USE DEF TreeInv
<1>1. /\ stored \in Snapshots /\ manifest \in Manifests /\ installed = Nothing
      /\ UNCHANGED <<source, stored, manifest, installed, verdict>>
      /\ ManifestValid(manifest) /\ NamespaceFree(manifest, b)
  BY DEF BeginRestore, TreeTypes, SnapshotVerifies
<1> DEFINE t == [p \in TreePaths |->
                    IF p = <<>> THEN DirNode(Private)
                    ELSE IF p \in Dirs(manifest.tree) THEN manifest.tree[p] ELSE Absent]
<1>2. t \in [TreePaths -> Nodes]
  BY <1>1, NodeSets DEF Manifests
<1>3. stage' = [k |-> "copying", withConfig |-> b, todo |-> Files(manifest.tree), tree |-> t]
  BY DEF BeginRestore
<1>4. /\ t[<<>>] = DirNode(Private)
      /\ \A p \in TreePaths \ {<<>>} :
            t[p] = IF p \in Dirs(manifest.tree) \cup (Files(manifest.tree) \ Files(manifest.tree))
                   THEN manifest.tree[p] ELSE Absent
  BY ConfigPaths
<1> HIDE DEF t
<1>5. /\ stage' \in Stages /\ stage'.k = "copying" /\ stage'.withConfig = b
      /\ stage'.todo = Files(manifest.tree) /\ stage'.tree = t
  BY <1>2, <1>3 DEF Stages, Files
<1>6. TreeTypes'
  BY <1>1, <1>5 DEF TreeTypes
<1>7. StageFaithful'
  BY <1>1, <1>4, <1>5 DEF StageFaithful
<1>8. ManifestPlain' /\ TargetFaithful' /\ VerdictCurrent'
  BY <1>1 DEF ManifestPlain, TargetFaithful, VerdictCurrent
<1> QED BY <1>6, <1>7, <1>8

\* One verified copy moves one file from todo to the staging tree.
LEMMA RestoreFileStep ==
    ASSUME TreeInv, RestoreFile PROVE TreeInv'
<1> USE DEF TreeInv
<1>1. /\ stored \in Snapshots /\ manifest \in Manifests /\ stage \in Stages
      /\ stage # Nothing /\ stage.k = "copying"
      /\ UNCHANGED <<source, stored, manifest, installed, verdict>>
  BY DEF RestoreFile, TreeTypes
<1>2. ManifestPlain' /\ TargetFaithful'
  BY <1>1 DEF ManifestPlain, TargetFaithful
<1>3. VerdictCurrent'
  BY <1>1 DEF VerdictCurrent, Differs
<1>4. CASE stage' = Nothing
  BY <1>1, <1>2, <1>3, <1>4 DEF TreeTypes, StageFaithful
<1>5. ASSUME NEW p \in stage.todo, Hashes(stored.tree[p], manifest.tree[p]),
             stage' = [stage EXCEPT !.todo = @ \ {p}, !.tree[p] = stored.tree[p]]
      PROVE  TreeInv'
  <2>1. p \in TreePaths /\ stored.tree[p] = manifest.tree[p] /\ manifest.tree[p].k = "file"
    BY <1>1, <1>5 DEF Stages, Hashes
  <2>2. p # <<>> /\ p \notin Dirs(manifest.tree) /\ p \in Files(manifest.tree)
    BY <2>1, <1>1 DEF StageFaithful, ManifestValid, Dirs, Files
  <2>3. /\ stage'.k = "copying" /\ stage'.withConfig = stage.withConfig
        /\ stage'.todo = stage.todo \ {p} /\ stage' \in Stages
        /\ stage'.tree = [stage.tree EXCEPT ![p] = manifest.tree[p]]
    BY <1>1, <1>5, <2>1 DEF Stages, Manifests
  <2>4. \A q \in TreePaths : stage'.tree[q] = IF q = p THEN manifest.tree[p] ELSE stage.tree[q]
    BY <1>1, <2>1, <2>3 DEF Stages
  <2>5. StageFaithful'
    BY <1>1, <2>1, <2>2, <2>3, <2>4, ConfigPaths DEF StageFaithful
  <2>6. TreeTypes'
    BY <1>1, <2>3 DEF TreeTypes
  <2> QED BY <1>2, <1>3, <2>5, <2>6
<1> QED BY <1>4, <1>5 DEF RestoreFile, CopyVerified

\* Below the reserved names the snapshot has nothing, so the configuration file is
\* the only difference between the staging tree and the manifest.
LEMMA RestoreConfigStep ==
    ASSUME TreeInv, RestoreConfig PROVE TreeInv'
<1> USE DEF TreeInv
<1>1. /\ stored \in Snapshots /\ manifest \in Manifests /\ stage \in Stages
      /\ stage # Nothing /\ stage.k = "copying" /\ stage.todo = {}
      /\ UNCHANGED <<source, stored, manifest, installed, verdict>>
  BY DEF RestoreConfig, TreeTypes
<1>2. ManifestPlain' /\ TargetFaithful'
  BY <1>1 DEF ManifestPlain, TargetFaithful
<1>3. VerdictCurrent'
  BY <1>1 DEF VerdictCurrent, Differs
<1>4. \A p \in TreePaths \ {<<>>} : stage.tree[p] = manifest.tree[p]
  <2> SUFFICES ASSUME NEW p \in TreePaths \ {<<>>} PROVE stage.tree[p] = manifest.tree[p]
    OBVIOUS
  <2>1. manifest.tree[p] \in Nodes /\ manifest.tree[p].k # "link"
    BY <1>1, NothingElse DEF Manifests, ManifestPlain
  <2>2. p \in Dirs(manifest.tree) \cup Files(manifest.tree) \/ manifest.tree[p] = Absent
    BY <2>1, NodeKinds DEF Dirs, Files
  <2> QED BY <1>1, <2>2 DEF StageFaithful
<1>5. CASE stage' = Nothing
  BY <1>1, <1>2, <1>3, <1>5 DEF TreeTypes, StageFaithful
<1>6. CASE ~ConfigRestored /\ stage' = [stage EXCEPT !.k = "copied"]
  <2>1. /\ stage' \in Stages /\ stage'.k = "copied" /\ stage'.withConfig = stage.withConfig
        /\ stage'.tree = stage.tree
    BY <1>1, <1>6 DEF Stages
  <2>2. \A p \in TreePaths : Expected(manifest, stage.withConfig)[p] = manifest.tree[p]
    BY <1>6 DEF Expected, ConfigRestored
  <2>3. StageFaithful'
    BY <1>1, <1>4, <2>1, <2>2 DEF StageFaithful
  <2>4. TreeTypes'
    BY <1>1, <2>1 DEF TreeTypes
  <2> QED BY <1>2, <1>3, <2>3, <2>4
<1>7. CASE /\ ConfigRestored /\ Hashes(stored.conf, manifest.conf)
           /\ stage' = [stage EXCEPT !.k = "copied", !.tree[<<ConfigDir>>] = DirNode(Private),
                                     !.tree[ConfigPath] = stored.conf]
  <2>1. /\ stored.conf = manifest.conf /\ manifest.conf \in Nodes
    BY <1>1, <1>7, NodeSets DEF Hashes, Manifests
  <2>2. /\ stage' \in Stages /\ stage'.k = "copied" /\ stage'.withConfig = stage.withConfig
        /\ stage'.tree = [[stage.tree EXCEPT ![<<ConfigDir>>] = DirNode(Private)]
                                      EXCEPT ![ConfigPath] = manifest.conf]
    BY <1>1, <1>7, <2>1, ConfigPaths, NodeSets DEF Stages
  <2>3. \A p \in TreePaths :
          stage'.tree[p] = IF p = ConfigPath THEN manifest.conf
                           ELSE IF p = <<ConfigDir>> THEN DirNode(Private) ELSE stage.tree[p]
    BY <1>1, <2>2, ConfigPaths DEF Stages
  <2>4. \A p \in TreePaths \ {<<>>} : stage'.tree[p] = Expected(manifest, stage.withConfig)[p]
    BY <1>4, <1>7, <2>3, ConfigPaths DEF Expected, ConfigRestored
  <2>5. StageFaithful'
    BY <1>1, <2>2, <2>3, <2>4, ConfigPaths DEF StageFaithful
  <2>6. TreeTypes'
    BY <1>1, <2>2 DEF TreeTypes
  <2> QED BY <1>2, <1>3, <2>5, <2>6
<1> QED BY <1>5, <1>6, <1>7 DEF RestoreConfig

\* The staging directory becomes the target and its root gets its own mode.
LEMMA InstallStep ==
    ASSUME TreeInv, InstallTree PROVE TreeInv'
<1> USE DEF TreeInv
<1>1. /\ stored \in Snapshots /\ manifest \in Manifests /\ stage \in Stages
      /\ stage # Nothing /\ stage.k = "copied" /\ stage' = Nothing
      /\ UNCHANGED <<source, stored, manifest, verdict>>
  BY DEF InstallTree, TreeTypes
<1>2. installed = Nothing /\ verdict = Nothing
  BY <1>1 DEF TreeTypes, VerdictCurrent
<1> DEFINE t == [stage.tree EXCEPT ![<<>>] = manifest.tree[<<>>]]
<1>3. installed' = [tree |-> t, config |-> ConfigRestored, touched |-> FALSE]
  BY DEF InstallTree
<1>4. t \in [TreePaths -> Nodes]
  BY <1>1, ConfigPaths DEF Stages, Manifests
<1>5. t = Expected(manifest, ConfigRestored)
  <2>1. \A p \in TreePaths : t[p] = IF p = <<>> THEN manifest.tree[<<>>] ELSE stage.tree[p]
    BY <1>1, ConfigPaths DEF Stages
  <2>2. \A p \in TreePaths : t[p] = Expected(manifest, stage.withConfig)[p]
    BY <1>1, <2>1, ConfigPaths DEF StageFaithful, Expected
  <2>3. Expected(manifest, stage.withConfig) = Expected(manifest, ConfigRestored)
    BY <1>1 DEF Expected, ConfigRestored, Stages
  <2>4. t \in [TreePaths -> Nodes] /\ DOMAIN Expected(manifest, stage.withConfig) = TreePaths
    BY <1>4 DEF Expected
  <2>5. Expected(manifest, stage.withConfig)
          = [p \in TreePaths |-> Expected(manifest, stage.withConfig)[p]]
    BY DEF Expected
  <2> HIDE DEF t
  <2> QED BY <2>2, <2>3, <2>4, <2>5
<1> HIDE DEF t
<1>6. ConfigRestored \in BOOLEAN
  BY <1>1 DEF ConfigRestored, Stages
<1>7. /\ installed' \in RestoreTargets /\ installed'.tree = t /\ installed'.config = ConfigRestored
  BY <1>3, <1>4, <1>6 DEF RestoreTargets
<1>8. TreeTypes'
  BY <1>1, <1>2, <1>7 DEF TreeTypes
<1>9. TargetFaithful'
  BY <1>1, <1>5, <1>7 DEF TargetFaithful, StageFaithful, NamespaceFree, ConfigRestored
<1> QED BY <1>1, <1>2, <1>8, <1>9 DEF ManifestPlain, StageFaithful, VerdictCurrent

\* runRestoreVerify records what it found.
LEMMA VerifyStep ==
    ASSUME TreeInv, NEW b \in BOOLEAN, VerifyTree(b) PROVE TreeInv'
<1> USE DEF TreeInv
<1>1. /\ installed # Nothing /\ UNCHANGED <<source, stored, manifest, stage, installed>>
      /\ verdict' = [k |-> "verified", known |-> b, warned |-> Differs(installed.tree, b)]
  BY DEF VerifyTree
<1>2. Differs(installed.tree, b) \in BOOLEAN
  BY DEF Differs
<1>3. /\ verdict' \in Verdicts /\ verdict'.known = b
      /\ verdict'.warned = Differs(installed.tree, b)
  BY <1>1, <1>2 DEF Verdicts
<1>4. VerdictCurrent'
  BY <1>1, <1>3 DEF VerdictCurrent, Differs
<1> QED BY <1>1, <1>3, <1>4 DEF TreeTypes, ManifestPlain, StageFaithful, TargetFaithful

\* A change of the snapshot leaves the staging tree and the target alone.
LEMMA TamperSnapshotStep ==
    ASSUME TreeInv, TamperSnapshot PROVE TreeInv'
<1> USE DEF TreeInv
<1>1. /\ stored \in Snapshots /\ manifest \in Manifests /\ stored # Nothing
      /\ verdict' = Nothing /\ UNCHANGED <<source, manifest, stage, installed>>
  BY DEF TamperSnapshot, TreeTypes
<1>2. stored' \in Snapshots
  <2>1. ASSUME NEW p \in TreePaths, NEW n \in Nodes, stored' = [stored EXCEPT !.tree[p] = n]
        PROVE  stored' \in Snapshots
    BY <1>1, <2>1 DEF Snapshots
  <2>2. ASSUME NEW n \in Nodes, stored' = [stored EXCEPT !.conf = n]
        PROVE  stored' \in Snapshots
    BY <1>1, <2>2 DEF Snapshots
  <2>3. ASSUME stored' = [stored EXCEPT !.honest = FALSE]
        PROVE  stored' \in Snapshots
    BY <1>1, <2>3 DEF Snapshots
  <2> QED BY <2>1, <2>2, <2>3 DEF TamperSnapshot
<1> QED BY <1>1, <1>2
        DEF TreeTypes, ManifestPlain, StageFaithful, TargetFaithful, VerdictCurrent

\* A change of the target is marked, and the verdict forgotten.
LEMMA TamperTargetStep ==
    ASSUME TreeInv, TamperTarget PROVE TreeInv'
<1> USE DEF TreeInv
<1>1. /\ installed \in RestoreTargets /\ installed # Nothing
      /\ verdict' = Nothing /\ UNCHANGED <<source, stored, manifest, stage>>
  BY DEF TamperTarget, TreeTypes
<1>2. PICK p \in TreePaths, n \in Nodes :
        installed' = [installed EXCEPT !.tree[p] = n, !.touched = TRUE]
  BY DEF TamperTarget
<1>3. installed' \in RestoreTargets /\ installed'.touched /\ installed'.config = installed.config
  BY <1>1, <1>2 DEF RestoreTargets
<1> QED BY <1>1, <1>3, NothingElse
        DEF TreeTypes, ManifestPlain, StageFaithful, TargetFaithful, VerdictCurrent

\* A verification of a target nobody touched has nothing to say of it.
LEMMA UntouchedAgrees ==
    ASSUME TreeInv, installed # Nothing, ~installed.touched
    PROVE  Differs(installed.tree, TRUE) <=> ~SnapshotVerifies(stored, manifest)
<1> USE DEF TreeInv
<1> DEFINE t == installed.tree
           c == installed.config
<1>1. /\ installed \in RestoreTargets /\ stored # Nothing /\ manifest \in Manifests
      /\ t = Expected(manifest, c) /\ ManifestValid(manifest) /\ c \in BOOLEAN
      /\ c => manifest.conf # Absent
      /\ c => \A p \in TreePaths : Reserved(p) => manifest.tree[p].k = "none"
  BY NothingElse DEF TreeTypes, TargetFaithful, RestoreTargets, NamespaceFree
<1>2. \A p \in TreePaths :
        t[p] = IF c /\ p = <<ConfigDir>> THEN DirNode(Private)
               ELSE IF c /\ p = ConfigPath THEN manifest.conf ELSE manifest.tree[p]
  BY <1>1 DEF Expected
<1>3. /\ \A p \in TreePaths : manifest.tree[p].k # "link" /\ manifest.tree[p] \in Nodes
      /\ c => manifest.conf.k = "file"
  BY <1>1, NodeSets DEF ManifestPlain, Manifests
<1> HIDE DEF t, c
<1>4. \A p \in TreePaths : t[p].k # "link"
  BY <1>2, <1>3, NodeSets
<1>5. ~DirectoriesDiffer(t, manifest, c)
  <2>1. \A p \in Dirs(manifest.tree) : t[p] = manifest.tree[p]
    BY <1>1, <1>2, ConfigPaths DEF Dirs
  <2>2. c => t[<<ConfigDir>>] = DirNode(Private) /\ manifest.tree[<<ConfigDir>>].k # "dir"
    BY <1>1, <1>2, ConfigPaths
  <2>3. \A p \in Dirs(t) \ Dirs(manifest.tree) : c /\ p = <<ConfigDir>>
    BY <1>2, <1>3 DEF Dirs
  <2> QED BY <2>1, <2>2, <2>3, ConfigPaths DEF DirectoriesDiffer
<1>6. ~FilesDiffer(t, manifest, c, c)
  <2>1. \A p \in Files(manifest.tree) : Hashes(t[p], manifest.tree[p])
    BY <1>1, <1>2, ConfigPaths DEF Files, Hashes
  <2>2. c => ~ConfigDiffers(t, manifest, c)
    BY <1>2, <1>3, ConfigPaths DEF ConfigDiffers, Hashes
  <2>3. \A p \in TreePaths : t[p].k = "file" /\ p \notin Files(manifest.tree) => c /\ p = ConfigPath
    BY <1>2, <1>3, NodeSets DEF Files
  <2> QED BY <1>4, <2>1, <2>2, <2>3 DEF FilesDiffer
<1> QED BY <1>1, <1>4, <1>5, <1>6 DEF Differs, t, c

\* A verification without warnings means equality.
LEMMA SilenceMeansEqual ==
    ASSUME TreeInv, installed # Nothing, NEW known \in BOOLEAN, ~Differs(installed.tree, known)
    PROVE  /\ \A p \in TreePaths : ~Reserved(p) => installed.tree[p] = manifest.tree[p]
           /\ known /\ installed.config => installed.tree[ConfigPath] = manifest.conf
           /\ known /\ ~installed.config => installed.tree = manifest.tree
<1> USE DEF TreeInv
<1> DEFINE t == installed.tree
           compare == IF known THEN installed.config ELSE TRUE
<1>1. /\ installed \in RestoreTargets /\ stored # Nothing /\ manifest \in Manifests
      /\ t \in [TreePaths -> Nodes] /\ manifest.tree \in [TreePaths -> Nodes]
      /\ ManifestValid(manifest) /\ installed.config \in BOOLEAN
      /\ \A p \in TreePaths : manifest.tree[p].k # "link"
  BY NothingElse DEF TreeTypes, TargetFaithful, RestoreTargets, Manifests, ManifestPlain
<1>2. /\ \A p \in TreePaths : t[p].k # "link"
      /\ ~DirectoriesDiffer(t, manifest, compare)
      /\ ~FilesDiffer(t, manifest, compare, known /\ installed.config)
  BY DEF Differs
<1> HIDE DEF t, compare
<1>3. ASSUME NEW p \in TreePaths, compare => ~Reserved(p) PROVE t[p] = manifest.tree[p]
  <2>1. CASE p \in Dirs(manifest.tree)
    BY <1>2, <2>1 DEF DirectoriesDiffer
  <2>2. CASE p \in Files(manifest.tree)
    BY <1>2, <2>2 DEF FilesDiffer, Hashes
  <2>3. CASE p \notin Dirs(manifest.tree) \cup Files(manifest.tree)
    <3>1. manifest.tree[p] = Absent
      BY <1>1, <2>3, NodeKinds DEF Dirs, Files
    <3>2. p # <<>>
      BY <1>1, <2>3 DEF ManifestValid
    <3>3. t[p].k # "dir"
      BY <1>2, <1>3, <2>3, <3>2 DEF DirectoriesDiffer, Dirs
    <3>4. t[p].k # "file"
      BY <1>2, <1>3, <2>3, ConfigPaths DEF FilesDiffer
    <3> QED BY <1>1, <1>2, <3>1, <3>3, <3>4, NodeKinds
  <2> QED BY <2>1, <2>2, <2>3
<1>4. ASSUME known, installed.config PROVE t[ConfigPath] = manifest.conf
  BY <1>2, <1>4 DEF FilesDiffer, ConfigDiffers, Hashes, compare
<1>5. ASSUME known, ~installed.config PROVE t = manifest.tree
  BY <1>1, <1>3, <1>5 DEF compare
<1> QED BY <1>3, <1>4, <1>5 DEF t

\* The invariant implies the property.
LEMMA TreeInvExact == TreeInv => VerdictExact
<1> SUFFICES ASSUME TreeInv, installed # Nothing PROVE VerdictExact
  BY DEF VerdictExact
<1>1. ~installed.touched => installed.tree = Expected(manifest, installed.config)
  BY DEF TreeInv, TargetFaithful
<1>2. ASSUME verdict # Nothing
      PROVE  /\ verdict.known /\ ~installed.touched =>
                   (verdict.warned <=> ~SnapshotVerifies(stored, manifest))
             /\ ~verdict.warned =>
                  /\ \A p \in TreePaths : ~Reserved(p) => installed.tree[p] = manifest.tree[p]
                  /\ verdict.known /\ installed.config => installed.tree[ConfigPath] = manifest.conf
                  /\ verdict.known /\ ~installed.config => installed.tree = manifest.tree
  <2>1. verdict.known \in BOOLEAN /\ verdict.warned = Differs(installed.tree, verdict.known)
    BY <1>2 DEF TreeInv, TreeTypes, VerdictCurrent, Verdicts
  <2>2. verdict.known => verdict.known = TRUE
    BY <2>1
  <2> QED BY <2>1, <2>2, UntouchedAgrees, SilenceMeansEqual
<1> QED BY <1>1, <1>2 DEF VerdictExact

\* VerdictExact for all trees, contents, modes, exclude lists and any number of outside
\* changes: an untouched target holds what the manifest lists, its verification warns only
\* of the snapshot itself, and a verification without warnings means equality.
THEOREM VerdictsAreExact ==
    ASSUME NEW CONSTANT sources, sources \subseteq SourceTrees
    PROVE  TreeSpec(sources) => []VerdictExact
<1>1. TreeInit(sources) => TreeInv
  BY DEF TreeInit, TreeInv, TreeTypes, ManifestPlain, StageFaithful, TargetFaithful, VerdictCurrent
<1>2. TreeInv /\ [TreeNext]_treeVars => TreeInv'
  <2> SUFFICES ASSUME TreeInv, [TreeNext]_treeVars PROVE TreeInv'
    OBVIOUS
  <2>1. CASE UNCHANGED treeVars
    BY <2>1 DEF treeVars, TreeInv, TreeTypes, ManifestPlain, StageFaithful, TargetFaithful,
                VerdictCurrent, Differs
  <2> QED BY <2>1, CaptureStep, BeginRestoreStep, RestoreFileStep, RestoreConfigStep, InstallStep,
             VerifyStep, TamperSnapshotStep, TamperTargetStep DEF TreeNext
<1> QED BY <1>1, <1>2, TreeInvExact, PTL DEF TreeSpec

-----------------------------------------------------------------------------
(* The manager: types and program positions                                 *)

Kinds == {"backup", "drill", "restore", "verify", "check", "aftercheck"}
StatusFields == {"run", "restore", "drill", "verify", "check"}
Marks == Int \cup {None}
Results == [st : {"none", "running", "completed", "failed"}, id : Nat, t : Int, snap : Marks]
JobStates == [run : Results, ok : Results, sched : Marks, restore : Results,
              hist : Seq(Results), drill : Results, verify : Results, check : Results,
              remind : Marks]
SnapRecords == [job : Jobs, id : Nat, t : Int, rot : {"none", "data", "manifest", "torn"}]
Positions == {"begun", "undo", "lock", "work", "recheck", "rename", "sync", "evidence",
              "retention", "prune", "install", "command", "finish", "again", "final"}
Tasks == [kind : Kinds, trig : {"manual", "scheduled", "batch"}, at : Positions, id : Nat,
          st : {"running", "completed", "failed"}, started : Nat, snap : Marks,
          todo : SUBSET SnapRecords, gone : SUBSET Nat]
Batches == [phase : {"none", "preview", "restore", "verify"}, todo : Seq(Jobs),
            rest : Seq(Jobs), id : Nat]

StatesTyped ==
    /\ memState \in [Jobs -> JobStates]
    /\ fileState \in [Jobs -> JobStates]
    /\ fileKept \in [Jobs -> JobStates]
StoresTyped ==
    /\ snaps \subseteq SnapRecords /\ snapsKept \subseteq SnapRecords
    /\ remote \in [Jobs -> Marks] /\ target \in [Jobs -> Marks]
PlansTyped ==
    /\ dueList \subseteq Jobs /\ batch \in Batches
    /\ lastWork \in [Jobs -> Nat \cup {None}]
    /\ batch.phase = "verify" => batch.todo # <<>>
    /\ clock \in Nat /\ ops \in Nat

\* Where an operation of job j can be, and what is decided there.
TaskFits(j, t) ==
    /\ t.id <= ops
    /\ t.at \in {"finish", "again"} => t.st # "running"
    /\ t.at = "final" => t.kind = "backup" /\ t.st = "completed"
    /\ t.at = "again" /\ t.kind = "backup" => t.st = "completed"
    /\ t.at \in {"rename", "sync", "evidence", "retention", "prune"} =>
         t.kind = "backup" /\ Local(j)
    /\ t.at = "install" => t.kind = "restore"
    /\ t.at = "command" => ~Local(j)
    /\ t.kind = "aftercheck" => t.at \in {"begun", "undo", "work", "finish", "again"}
    /\ t.trig = "scheduled" => t.kind \in {"backup", "aftercheck"}
    /\ t.todo # {} \/ t.gone # {} => t.at = "prune"
    /\ \A s \in t.todo : s.job = j

TasksTyped ==
    /\ task \in [Jobs -> Tasks \cup {Free}]
    /\ \A j \in Jobs : task[j] \in Tasks => TaskFits(j, task[j])
    /\ manager = "down" => \A j \in Jobs : task[j] = Free

BackupTypes == StatesTyped /\ StoresTyped /\ PlansTyped /\ TasksTyped

LEMMA FreeIsNoTask == Free \notin Tasks /\ Free.at = "free" /\ Free.kind = "none"
  BY DEF Free, Tasks

LEMMA FieldNames ==
    /\ FieldOf("backup") = "run" /\ FieldOf("drill") = "drill"
    /\ FieldOf("restore") = "restore" /\ FieldOf("verify") = "verify"
    /\ FieldOf("check") = "check" /\ FieldOf("aftercheck") = "check"
  BY Zenon DEF FieldOf

LEMMA FieldsAreFields == \A kind \in Kinds : FieldOf(kind) \in StatusFields
  BY FieldNames DEF Kinds, StatusFields

LEMMA NoResultTyped == NoResult \in Results /\ NoResult.st = "none"
  BY DEF NoResult, Results, Marks

LEMMA NoJobStateTyped ==
    /\ NoJobState \in JobStates /\ NoJobState.hist = <<>>
    /\ NoJobState.ok.st = "none" /\ NoJobState.restore.st = "none"
    /\ \A f \in StatusFields : NoJobState[f].st = "none"
<1>1. NoJobState \in JobStates
  BY NoResultTyped DEF NoJobState, JobStates, Marks
<1>2. /\ NoJobState.hist = <<>> /\ NoJobState.ok = NoResult /\ NoJobState.restore = NoResult
      /\ NoJobState.run = NoResult /\ NoJobState.drill = NoResult /\ NoJobState.verify = NoResult
      /\ NoJobState.check = NoResult
  BY DEF NoJobState
<1> QED BY <1>1, <1>2, NoResultTyped DEF StatusFields

-----------------------------------------------------------------------------
(* What the saves record                                                    *)

\* The result of an operation.
LEMMA ResultFacts ==
    ASSUME NEW j \in Jobs, task[j] \in Tasks, clock \in Nat,
           NEW st \in {"running", "completed", "failed"}
    PROVE  /\ ResultOf(j, st) \in Results
           /\ ResultOf(j, st).st = st
           /\ task[j].kind \in {"backup", "restore"} =>
                /\ ResultOf(j, st).id = task[j].id
                /\ ResultOf(j, st).snap = IF st = "failed" THEN None ELSE task[j].snap
<1> DEFINE kept == task[j].kind \in {"backup", "restore"}
           id == IF kept THEN task[j].id ELSE 0
           t == IF task[j].kind \in {"backup", "drill"} THEN clock ELSE 0
           snap == IF kept /\ st = "failed" THEN None ELSE task[j].snap
<1>1. id \in Nat /\ t \in Int /\ snap \in Marks
  BY DEF Tasks, Marks
<1>2. ResultOf(j, st) = [NoResult EXCEPT !.st = st, !.id = id, !.t = t, !.snap = snap]
  BY DEF ResultOf
<1> HIDE DEF id, t, snap
<1>3. /\ ResultOf(j, st) \in Results /\ ResultOf(j, st).st = st
      /\ ResultOf(j, st).id = id /\ ResultOf(j, st).snap = snap
  BY <1>1, <1>2, NoResultTyped DEF Results
<1> QED BY <1>3 DEF id, snap

\* Putting an entry first keeps the entries among the old ones and the new.
LEMMA PrependFacts ==
    ASSUME NEW S, NEW hist \in Seq(S), NEW r \in S
    PROVE  /\ Prepend(hist, r) \in Seq(S)
           /\ Prepend(hist, r) # <<>> /\ Prepend(hist, r)[1] = r
<1> DEFINE same == {i \in 1..Len(hist) : hist[i].id = r.id}
           at == CHOOSE i \in same : TRUE
<1>1. Without(hist, r.id) \in Seq(S)
  <2>1. CASE same = {}
    BY <2>1 DEF Without
  <2>2. CASE same # {}
    <3>1. at \in 1..Len(hist)
      BY <2>2
    <3> DEFINE head == SubSeq(hist, 1, at - 1)
               tail == SubSeq(hist, at + 1, Len(hist))
    <3>2. Without(hist, r.id) = head \o tail
      BY <2>2 DEF Without
    <3> HIDE DEF at
    <3>3. head \in Seq(S) /\ tail \in Seq(S)
      BY <3>1
    <3> HIDE DEF head, tail
    <3> QED BY <3>2, <3>3
  <2> QED BY <2>1, <2>2
<1> DEFINE next == <<r>> \o Without(hist, r.id)
           n == IF Len(next) < HistoryLimit THEN Len(next) ELSE HistoryLimit
<1> HIDE DEF same, at
<1>2. next \in Seq(S) /\ Len(next) >= 1 /\ next[1] = r
  BY <1>1
<1>3. Prepend(hist, r) = SubSeq(next, 1, n)
  BY DEF Prepend
<1> HIDE DEF next
<1>4. n \in 1..Len(next)
  BY <1>2, BackupAssumption
<1> HIDE DEF n
<1>5. /\ SubSeq(next, 1, n) \in Seq(S) /\ Len(SubSeq(next, 1, n)) = n
      /\ SubSeq(next, 1, n)[1] = next[1]
  BY <1>2, <1>4
<1> QED BY <1>2, <1>3, <1>4, <1>5

\* The state after a backup's save.
LEMMA UpdatedRunFacts ==
    ASSUME NEW s \in JobStates, NEW r \in Results, NEW sched \in Marks
    PROVE  LET u == UpdatedRun(s, r, sched) IN
           /\ u \in JobStates
           /\ u.run = r /\ u.sched = IF sched = None THEN s.sched ELSE sched
           /\ u.ok = IF r.st = "completed" THEN r ELSE s.ok
           /\ u.restore = s.restore /\ u.hist = s.hist /\ u.drill = s.drill
           /\ u.verify = s.verify /\ u.check = s.check /\ u.remind = s.remind
  BY DEF UpdatedRun, JobStates

\* The state after any other save.
LEMMA UpdatedFacts ==
    ASSUME NEW s \in JobStates, NEW r \in Results, NEW kind \in Kinds
    PROVE  LET u == Updated(s, kind, r) IN
           /\ u \in JobStates
           /\ u.sched = s.sched /\ u.remind = s.remind
           /\ \A f \in StatusFields : u[f] = IF f = FieldOf(kind) THEN r ELSE s[f]
           /\ u.ok = IF kind = "backup" /\ r.st = "completed" THEN r ELSE s.ok
           /\ u.hist = IF kind = "restore" /\ r.st # "running" THEN Prepend(s.hist, r)
                       ELSE s.hist
<1> DEFINE u == Updated(s, kind, r)
<1>1. CASE kind = "backup"
  <2>1. u = UpdatedRun(s, r, None)
    BY <1>1 DEF Updated
  <2>2. None \in Marks
    BY DEF Marks
  <2> QED BY <1>1, <2>1, <2>2, UpdatedRunFacts, FieldNames DEF StatusFields
<1>2. CASE kind = "restore" /\ r.st # "running"
  <2>1. u = [s EXCEPT !.restore = r, !.hist = Prepend(s.hist, r)]
    BY <1>2 DEF Updated
  <2>2. Prepend(s.hist, r) \in Seq(Results)
    BY PrependFacts DEF JobStates
  <2> DEFINE p == Prepend(s.hist, r)
  <2> HIDE DEF p
  <2>3. /\ u \in JobStates /\ u.sched = s.sched /\ u.remind = s.remind /\ u.ok = s.ok
        /\ u.restore = r /\ u.run = s.run /\ u.drill = s.drill /\ u.verify = s.verify
        /\ u.check = s.check /\ u.hist = Prepend(s.hist, r)
    BY <2>1, <2>2 DEF JobStates
  <2> QED BY <1>2, <2>3, FieldNames DEF StatusFields
<1>3. CASE kind # "backup" /\ ~(kind = "restore" /\ r.st # "running")
  <2>1. u = [s EXCEPT ![FieldOf(kind)] = r]
    BY <1>3 DEF Updated
  <2>2. FieldOf(kind) \in {"restore", "drill", "verify", "check"}
    BY <1>3, FieldNames DEF Kinds
  <2>3. u \in JobStates
    BY <2>1, <2>2 DEF JobStates
  <2>4. u.sched = s.sched /\ u.remind = s.remind /\ u.ok = s.ok /\ u.hist = s.hist
    BY <2>1, <2>2 DEF JobStates
  <2>5. \A f \in StatusFields : u[f] = IF f = FieldOf(kind) THEN r ELSE s[f]
    BY <2>1, <2>2 DEF JobStates, StatusFields
  <2> QED BY <1>3, <2>3, <2>4, <2>5
<1> QED BY <1>1, <1>2, <1>3

\* A save changes the views of its own job, and can carry what memory has of
\* the others into the file.
LEMMA SaveFacts ==
    ASSUME StatesTyped, NEW j \in Jobs, NEW s \in JobStates, NEW out \in Outcomes,
           NEW rem \in BOOLEAN, SaveJob(j, s, out, rem)
    PROVE  /\ StatesTyped'
           /\ manager' = "down" <=> manager = "down"
           /\ memState'[j] = IF Applied(out) \/ rem THEN s ELSE memState[j]
           /\ fileState'[j] = IF Applied(out) THEN s ELSE fileState[j]
           /\ fileKept'[j] = IF out = "ok" THEN s ELSE fileKept[j]
           /\ \A k \in Jobs \ {j} :
                /\ memState'[k] = memState[k]
                /\ fileState'[k] \in {fileState[k], memState[k]}
                /\ fileKept'[k] \in {fileKept[k], memState[k]}
<1> DEFINE cand == [memState EXCEPT ![j] = s]
<1>1. /\ cand \in [Jobs -> JobStates] /\ cand[j] = s
      /\ \A k \in Jobs \ {j} : cand[k] = memState[k]
  BY DEF StatesTyped
<1>2. /\ memState' = IF Applied(out) \/ rem THEN cand ELSE memState
      /\ fileState' = IF Applied(out) THEN cand ELSE fileState
      /\ fileKept' = IF out = "ok" THEN cand ELSE fileKept
  BY DEF SaveJob
<1>3. manager' = "down" <=> manager = "down"
  BY DEF SaveJob, SaveOutcome
<1> HIDE DEF cand
<1> QED BY <1>1, <1>2, <1>3 DEF StatesTyped

-----------------------------------------------------------------------------
(* What each step does to the operation that takes it                       *)

\* The operation of j moves on; nobody else's does.
Became(j, kind, at, st, snap) ==
    /\ task' \in [Jobs -> Tasks \cup {Free}]
    /\ \A k \in Jobs \ {j} : task'[k] = task[k]
    /\ task[j] \in Tasks /\ task'[j] \in Tasks
    /\ task'[j].id = task[j].id /\ task'[j].trig = task[j].trig
    /\ task'[j].started = task[j].started
    /\ task'[j].kind = kind /\ task'[j].at = at /\ task'[j].st = st /\ task'[j].snap = snap
ListsKept(j) == task'[j].todo = task[j].todo /\ task'[j].gone = task[j].gone
Moved(j, at, st, snap) == Became(j, task[j].kind, at, st, snap) /\ ListsKept(j)
Stepped(j, at) == Moved(j, at, task[j].st, task[j].snap)
Failed(j) == Moved(j, "finish", "failed", task[j].snap)
Completed(j) == Moved(j, "finish", "completed", task[j].snap)
ChecksNext(j) ==
    /\ Became(j, "aftercheck", "begun", "running", task[j].snap)
    /\ task'[j].todo = {} /\ task'[j].gone = {}
Released(j) ==
    /\ task' \in [Jobs -> Tasks \cup {Free}]
    /\ \A k \in Jobs \ {j} : task'[k] = task[k]
    /\ task[j] \in Tasks /\ task'[j] = Free
Left(j) ==
    \/ /\ task[j].kind = "aftercheck" /\ Became(j, "backup", "final", "completed", task[j].snap)
       /\ ListsKept(j)
    \/ task[j].kind # "aftercheck" /\ Released(j)

LEMMA AtWork ==
    ASSUME TasksTyped, NEW j \in Jobs, task[j].at # "free"
    PROVE  task[j] \in Tasks /\ TaskFits(j, task[j]) /\ manager # "down"
  BY FreeIsNoTask DEF TasksTyped

LEMMA StepMoves ==
    ASSUME TasksTyped, NEW j \in Jobs, task[j] \in Tasks, NEW at \in Positions, Step(j, at)
    PROVE  Stepped(j, at)
  BY DEF TasksTyped, Tasks, Step, Stepped, Moved, Became, ListsKept

LEMMA FailMoves ==
    ASSUME TasksTyped, NEW j \in Jobs, task[j] \in Tasks, Fail(j)
    PROVE  Failed(j)
  BY DEF TasksTyped, Tasks, Positions, Fail, Failed, Moved, Became, ListsKept

LEMMA RetentionMoves ==
    ASSUME TasksTyped, NEW j \in Jobs, task[j] \in Tasks, AfterRetention(j)
    PROVE  ChecksNext(j)
  BY DEF TasksTyped, Tasks, Positions, Kinds, AfterRetention, ChecksNext, Became

LEMMA LeaveMoves ==
    ASSUME TasksTyped, NEW j \in Jobs, task[j] \in Tasks, Leave(j)
    PROVE  Left(j)
<1>1. CASE task[j].kind = "aftercheck"
  BY <1>1 DEF TasksTyped, Tasks, Positions, Kinds, Leave, Left, Became, ListsKept
<1>2. CASE task[j].kind # "aftercheck"
  BY <1>2 DEF TasksTyped, Leave, Left, Release, Released
<1> QED BY <1>1, <1>2

LEMMA ReleaseMoves ==
    ASSUME TasksTyped, NEW j \in Jobs, task[j] \in Tasks, Release(j)
    PROVE  Released(j)
  BY DEF TasksTyped, Release, Released

\* What a step that saves nothing leaves alone.
SavesNothing == UNCHANGED <<manager, stateVars, dueList, batch, evidence, clock, ops>>
Quiet == SavesNothing /\ UNCHANGED lastWork

LEMMA OkTyped ==
    ASSUME BackupTypes, NEW j \in Jobs
    PROVE  memState[j].ok \in Results /\ memState[j].ok.snap \in Marks
  BY DEF BackupTypes, StatesTyped, JobStates, Results

LEMMA LockTargetMoves ==
    ASSUME BackupTypes, NEW j \in Jobs, LockTarget(j)
    PROVE  /\ task[j] \in Tasks /\ TaskFits(j, task[j]) /\ task[j].at = "lock" /\ SavesNothing
           /\ UNCHANGED <<snaps, snapsKept, remote, target>>
           /\ \/ /\ Stepped(j, "work")
                 /\ lastWork' = IF task[j].trig = "scheduled"
                                THEN [lastWork EXCEPT ![j] = task[j].started] ELSE lastWork
              \/ Failed(j) /\ lastWork' = lastWork
<1>1. /\ task[j] \in Tasks /\ TaskFits(j, task[j]) /\ task[j].at = "lock" /\ SavesNothing
      /\ TasksTyped /\ UNCHANGED <<snaps, snapsKept, remote, target>>
  BY AtWork DEF LockTarget, BackupTypes, SavesNothing, stateVars, storeVars, outside
<1>2. lastWork' = IF task[j].trig = "scheduled" /\ task'[j].at = "work"
                  THEN [lastWork EXCEPT ![j] = task[j].started] ELSE lastWork
  BY DEF LockTarget
<1>3. CASE Step(j, "work")
  <2>1. Stepped(j, "work")
    BY <1>1, <1>3, StepMoves DEF Positions
  <2>2. task'[j].at = "work"
    BY <2>1 DEF Stepped, Moved, Became
  <2> QED BY <1>1, <1>2, <2>1, <2>2
<1>4. CASE Fail(j)
  <2>1. Failed(j)
    BY <1>1, <1>4, FailMoves
  <2>2. task'[j].at = "finish"
    BY <2>1 DEF Failed, Moved, Became
  <2> QED BY <1>1, <1>2, <2>1, <2>2
<1> QED BY <1>3, <1>4 DEF LockTarget

LEMMA RecheckMoves ==
    ASSUME BackupTypes, NEW j \in Jobs, Recheck(j)
    PROVE  /\ task[j] \in Tasks /\ TaskFits(j, task[j]) /\ task[j].at = "recheck" /\ Quiet
           /\ UNCHANGED <<snaps, snapsKept, remote, target>>
           /\ \/ Completed(j)
              \/ Failed(j)
<1>1. /\ task[j] \in Tasks /\ TaskFits(j, task[j]) /\ task[j].at = "recheck" /\ Quiet
      /\ TasksTyped
      /\ UNCHANGED <<snaps, snapsKept, remote, target>>
  BY AtWork DEF Recheck, BackupTypes, SavesNothing, Quiet, stateVars, storeVars, outside, planVars
<1>2. CASE task' = [task EXCEPT ![j].at = "finish", ![j].st = "completed"]
  BY <1>1, <1>2 DEF TasksTyped, Tasks, Positions, Completed, Moved, Became, ListsKept
<1>3. CASE Fail(j)
  BY <1>1, <1>3, FailMoves
<1> QED BY <1>1, <1>2, <1>3 DEF Recheck

LEMMA CopySourceMoves ==
    ASSUME BackupTypes, NEW j \in Jobs, CopySource(j)
    PROVE  /\ task[j] \in Tasks /\ TaskFits(j, task[j]) /\ task[j].at = "work" /\ Quiet
           /\ task[j].kind = "backup" /\ Local(j)
           /\ UNCHANGED <<snaps, snapsKept, remote, target>>
           /\ \/ Moved(j, "rename", task[j].st, task[j].id)
              \/ Failed(j)
<1>1. /\ task[j] \in Tasks /\ TaskFits(j, task[j]) /\ task[j].at = "work" /\ Quiet
      /\ TasksTyped
      /\ task[j].kind = "backup" /\ Local(j)
      /\ UNCHANGED <<snaps, snapsKept, remote, target>>
  BY AtWork DEF CopySource, BackupTypes, SavesNothing, Quiet, stateVars, storeVars, outside, planVars
<1>2. CASE task' = [task EXCEPT ![j].at = "rename", ![j].snap = task[j].id]
  <2> DEFINE v == task[j].id
  <2>1. v \in Marks
    BY <1>1 DEF Tasks, Marks
  <2>2. task' = [task EXCEPT ![j].at = "rename", ![j].snap = v]
    BY <1>2
  <2> HIDE DEF v
  <2>3. Moved(j, "rename", task[j].st, v)
    BY <1>1, <2>1, <2>2 DEF TasksTyped, Tasks, Positions, Moved, Became, ListsKept
  <2> QED BY <1>1, <1>2, <2>3 DEF v
<1>3. CASE Fail(j)
  BY <1>1, <1>3, FailMoves
<1> QED BY <1>1, <1>2, <1>3 DEF CopySource

LEMMA FinalizeSnapshotMoves ==
    ASSUME BackupTypes, NEW j \in Jobs, FinalizeSnapshot(j)
    PROVE  /\ task[j] \in Tasks /\ TaskFits(j, task[j]) /\ task[j].at = "rename" /\ Quiet
           /\ UNCHANGED <<snapsKept, remote, target>>
           /\ \/ Stepped(j, "sync") /\ snaps' = snaps \cup {[job |-> j, id |-> task[j].id, t |-> task[j].started, rot |-> "none"]}
              \/ Failed(j) /\ snaps' = snaps
<1>1. /\ task[j] \in Tasks /\ TaskFits(j, task[j]) /\ task[j].at = "rename" /\ Quiet
      /\ TasksTyped
      /\ UNCHANGED <<snapsKept, remote, target>>
  BY AtWork DEF FinalizeSnapshot, BackupTypes, SavesNothing, Quiet, stateVars, storeVars, outside, planVars
<1>2. CASE Step(j, "sync") /\ snaps' = snaps \cup {[job |-> j, id |-> task[j].id, t |-> task[j].started, rot |-> "none"]}
  BY <1>1, <1>2, StepMoves DEF Positions
<1>3. CASE Fail(j) /\ snaps' = snaps
  BY <1>1, <1>3, FailMoves
<1> QED BY <1>1, <1>2, <1>3 DEF FinalizeSnapshot

LEMMA SyncSnapshotMoves ==
    ASSUME BackupTypes, NEW j \in Jobs, SyncSnapshot(j)
    PROVE  /\ task[j] \in Tasks /\ TaskFits(j, task[j]) /\ task[j].at = "sync" /\ Quiet
           /\ UNCHANGED <<snaps, remote, target>>
           /\ \/ Stepped(j, "evidence") /\ snapsKept' = snapsKept \cup Current(j)
              \/ Failed(j) /\ snapsKept' = snapsKept
<1>1. /\ task[j] \in Tasks /\ TaskFits(j, task[j]) /\ task[j].at = "sync" /\ Quiet
      /\ TasksTyped
      /\ UNCHANGED <<snaps, remote, target>>
  BY AtWork DEF SyncSnapshot, BackupTypes, SavesNothing, Quiet, stateVars, storeVars, outside, planVars
<1>2. CASE Step(j, "evidence") /\ snapsKept' = snapsKept \cup Current(j)
  BY <1>1, <1>2, StepMoves DEF Positions
<1>3. CASE Fail(j) /\ snapsKept' = snapsKept
  BY <1>1, <1>3, FailMoves
<1> QED BY <1>1, <1>2, <1>3 DEF SyncSnapshot

LEMMA TornTyped ==
    ASSUME NEW S, S \subseteq SnapRecords
    PROVE  /\ Torn(S) \subseteq SnapRecords
           /\ \A s \in Torn(S) : s.rot = "torn" /\ \E r \in S : s.job = r.job /\ s.id = r.id
  BY DEF Torn, SnapRecords

\* The records of one snapshot stay, go or are torn; all others stay.
LessOf(j, id) ==
    /\ snaps' \subseteq SnapRecords /\ snapsKept' \subseteq SnapRecords
    /\ \A x : x.job # j \/ x.id # id =>
          (x \in snaps' <=> x \in snaps) /\ (x \in snapsKept' <=> x \in snapsKept)
    /\ \A x \in snaps' \cup snapsKept' :
          \/ x \in snaps \cup snapsKept
          \/ x.rot = "torn" /\ \E s \in snaps \cup snapsKept : x.job = s.job /\ x.id = s.id

LEMMA TearLess ==
    ASSUME BackupTypes, NEW j, NEW id, NEW cut \in {{}, Snap(j, id)}, Tear(cut)
    PROVE  LessOf(j, id)
<1>1. /\ snaps \subseteq SnapRecords /\ snapsKept \subseteq SnapRecords
      /\ cut \subseteq snaps /\ \A s \in cut : s.job = j /\ s.id = id
  BY DEF BackupTypes, StoresTyped, Snap
<1>2. /\ snaps' = (snaps \ cut) \cup Torn(cut)
      /\ snapsKept' = (snapsKept \ cut) \cup Torn(cut \cap snapsKept)
  BY DEF Tear
<1>3. /\ Torn(cut) \subseteq SnapRecords /\ Torn(cut \cap snapsKept) \subseteq SnapRecords
      /\ \A x \in Torn(cut) \cup Torn(cut \cap snapsKept) :
            x.rot = "torn" /\ \E s \in cut : x.job = s.job /\ x.id = s.id
  <2>1. cut \subseteq SnapRecords /\ cut \cap snapsKept \subseteq SnapRecords
    BY <1>1
  <2> QED BY <2>1, TornTyped
<1>4. snaps' \subseteq SnapRecords /\ snapsKept' \subseteq SnapRecords
  BY <1>1, <1>2, <1>3
<1>5. ASSUME NEW x, x.job # j \/ x.id # id
      PROVE  (x \in snaps' <=> x \in snaps) /\ (x \in snapsKept' <=> x \in snapsKept)
  BY <1>1, <1>2, <1>3, <1>5
<1>6. ASSUME NEW x \in snaps' \cup snapsKept'
      PROVE  \/ x \in snaps \cup snapsKept
             \/ x.rot = "torn" /\ \E s \in snaps \cup snapsKept : x.job = s.job /\ x.id = s.id
  BY <1>1, <1>2, <1>3, <1>6
<1> QED BY <1>4, <1>5, <1>6 DEF LessOf

LEMMA GoneLess ==
    ASSUME BackupTypes, NEW j, NEW id,
           snaps' \in {snaps, {x \in snaps : x.job # j \/ x.id # id}},
           snapsKept' \in {snapsKept, snapsKept \ Snap(j, id)}
    PROVE  LessOf(j, id)
  BY DEF LessOf, BackupTypes, StoresTyped, Snap

LEMMA CheckManifestMoves ==
    ASSUME BackupTypes, NEW j \in Jobs, CheckManifest(j)
    PROVE  /\ task[j] \in Tasks /\ TaskFits(j, task[j]) /\ task[j].at = "evidence" /\ Quiet
           /\ UNCHANGED <<remote, target>>
           /\ \/ Failed(j) /\ LessOf(j, task[j].id)
              \/ Stepped(j, "recheck") /\ UNCHANGED <<snaps, snapsKept>>
<1>1. /\ task[j] \in Tasks /\ TaskFits(j, task[j]) /\ task[j].at = "evidence" /\ Quiet
      /\ TasksTyped
      /\ UNCHANGED <<remote, target>>
  BY AtWork DEF CheckManifest, BackupTypes, SavesNothing, Quiet, stateVars, storeVars, outside, planVars
<1>2. CASE Fail(j) /\ LessOf(j, task[j].id)
  BY <1>1, <1>2, FailMoves
<1>3. CASE Step(j, "recheck") /\ UNCHANGED <<snaps, snapsKept>>
  BY <1>1, <1>3, StepMoves DEF Positions
<1>4. ASSUME NEW cut \in {{}, Current(j)}, Tear(cut)
      PROVE  LessOf(j, task[j].id)
  BY <1>4, TearLess DEF Current
<1>5. ASSUME snaps' = snaps \ Current(j), snapsKept' \in {snapsKept, snapsKept \ Current(j)}
      PROVE  LessOf(j, task[j].id)
  <2>1. snaps \ Current(j) = {x \in snaps : x.job # j \/ x.id # task[j].id}
    BY DEF Current, Snap
  <2> QED BY <1>5, <2>1, GoneLess DEF Current
<1>6. \/ Step(j, "recheck") /\ UNCHANGED <<snaps, snapsKept>>
      \/ Fail(j) /\ LessOf(j, task[j].id)
  BY <1>4, <1>5 DEF CheckManifest
<1> QED BY <1>1, <1>2, <1>3, <1>6

LEMMA ListSnapshotsMoves ==
    ASSUME BackupTypes, NEW j \in Jobs, ListSnapshots(j)
    PROVE  /\ task[j] \in Tasks /\ TaskFits(j, task[j]) /\ task[j].at = "retention" /\ Quiet
           /\ UNCHANGED <<snaps, snapsKept, remote, target>>
           /\ \/ /\ Became(j, task[j].kind, "prune", task[j].st, task[j].snap)
                 /\ task'[j].todo = Doomed(j) /\ task'[j].gone = task[j].gone
              \/ ChecksNext(j)
<1>1. /\ task[j] \in Tasks /\ TaskFits(j, task[j]) /\ task[j].at = "retention" /\ Quiet
      /\ TasksTyped /\ UNCHANGED <<snaps, snapsKept, remote, target>>
  BY AtWork DEF ListSnapshots, BackupTypes, SavesNothing, Quiet, stateVars, storeVars, outside, planVars
<1>2. CASE task' = [task EXCEPT ![j].at = "prune", ![j].todo = Doomed(j)]
  <2> DEFINE d == Doomed(j)
  <2>1. d \in SUBSET SnapRecords
    BY DEF Doomed, BackupTypes, StoresTyped
  <2>2. task' = [task EXCEPT ![j].at = "prune", ![j].todo = d]
    BY <1>2
  <2> HIDE DEF d
  <2>3. /\ Became(j, task[j].kind, "prune", task[j].st, task[j].snap)
        /\ task'[j].todo = d /\ task'[j].gone = task[j].gone
    BY <1>1, <2>1, <2>2 DEF TasksTyped, Tasks, Positions, Became
  <2> QED BY <1>1, <2>3 DEF d
<1>3. CASE AfterRetention(j)
  BY <1>1, <1>3, RetentionMoves
<1> QED BY <1>1, <1>2, <1>3 DEF ListSnapshots

LEMMA RemoveSnapshotMoves ==
    ASSUME BackupTypes, NEW j \in Jobs, RemoveSnapshot(j)
    PROVE  /\ task[j] \in Tasks /\ TaskFits(j, task[j]) /\ task[j].at = "prune" /\ Quiet
           /\ UNCHANGED <<remote, target>>
           /\ Became(j, task[j].kind, "prune", task[j].st, task[j].snap)
           /\ \E s \in task[j].todo :
                /\ LessOf(j, s.id)
                /\ task'[j].todo = task[j].todo \ {s}
                /\ task'[j].gone \in {task[j].gone, task[j].gone \cup {s.id}}
<1>1. /\ task[j] \in Tasks /\ TaskFits(j, task[j]) /\ task[j].at = "prune" /\ Quiet
      /\ TasksTyped /\ UNCHANGED <<remote, target>>
  BY AtWork DEF RemoveSnapshot, BackupTypes, SavesNothing, Quiet, stateVars, storeVars, outside, planVars
<1>2. PICK s \in task[j].todo :
        /\ \/ snaps' = {x \in snaps : x.job # j \/ x.id # s.id} /\ snapsKept' = snapsKept
           \/ \E cut \in {{}, Snap(j, s.id)} : Tear(cut)
        /\ \/ task' = [task EXCEPT ![j].todo = @ \ {s}, ![j].gone = @ \cup {s.id}]
           \/ task' = [task EXCEPT ![j].todo = @ \ {s}]
  BY DEF RemoveSnapshot
<1>8. LessOf(j, s.id)
  BY <1>2, TearLess, GoneLess
<1>3. task[j].todo \subseteq SnapRecords /\ task[j].gone \subseteq Nat /\ s \in SnapRecords
  BY <1>1 DEF Tasks
<1>4. s.id \in Nat
  BY <1>3 DEF SnapRecords
<1> DEFINE rest == task[j].todo \ {s}
           more == task[j].gone \cup {s.id}
<1>5. rest \in SUBSET SnapRecords /\ more \in SUBSET Nat
  BY <1>3, <1>4
<1>6. CASE task' = [task EXCEPT ![j].todo = @ \ {s}, ![j].gone = @ \cup {s.id}]
  <2>1. task' = [task EXCEPT ![j].todo = rest, ![j].gone = more]
    BY <1>1, <1>6 DEF TasksTyped, Tasks
  <2> HIDE DEF rest, more
  <2>2. /\ Became(j, task[j].kind, "prune", task[j].st, task[j].snap)
        /\ task'[j].todo = rest /\ task'[j].gone = more
    BY <1>1, <1>5, <2>1 DEF TasksTyped, Tasks, Positions, Became
  <2> QED BY <1>1, <1>8, <2>2 DEF rest, more
<1>7. CASE task' = [task EXCEPT ![j].todo = @ \ {s}]
  <2>1. task' = [task EXCEPT ![j].todo = rest]
    BY <1>1, <1>7 DEF TasksTyped, Tasks
  <2> HIDE DEF rest, more
  <2>2. /\ Became(j, task[j].kind, "prune", task[j].st, task[j].snap)
        /\ task'[j].todo = rest /\ task'[j].gone = task[j].gone
    BY <1>1, <1>5, <2>1 DEF TasksTyped, Tasks, Positions, Became
  <2> QED BY <1>1, <1>8, <2>2 DEF rest
<1> QED BY <1>1, <1>2, <1>6, <1>7

LEMMA SyncRetentionMoves ==
    ASSUME BackupTypes, NEW j \in Jobs, SyncRetention(j)
    PROVE  /\ task[j] \in Tasks /\ TaskFits(j, task[j]) /\ task[j].at = "prune" /\ Quiet
           /\ UNCHANGED <<snaps, remote, target>>
           /\ ChecksNext(j)
           /\ snapsKept' \in {snapsKept, {x \in snapsKept : x.job # j \/ x.id \notin task[j].gone}}
<1>1. /\ task[j] \in Tasks /\ TaskFits(j, task[j]) /\ task[j].at = "prune" /\ Quiet
      /\ TasksTyped /\ UNCHANGED <<snaps, remote, target>>
  BY AtWork DEF SyncRetention, BackupTypes, SavesNothing, Quiet, stateVars, storeVars, outside, planVars
<1> QED BY <1>1, RetentionMoves DEF SyncRetention

LEMMA CheckRetentionMoves ==
    ASSUME BackupTypes, NEW j \in Jobs, CheckRetention(j)
    PROVE  /\ task[j] \in Tasks /\ TaskFits(j, task[j]) /\ task[j].at = "work" /\ Quiet
           /\ task[j].kind \in {"check", "aftercheck"}
           /\ UNCHANGED <<snaps, snapsKept, remote, target>>
           /\ \/ Completed(j)
              \/ Failed(j)
<1>1. /\ task[j] \in Tasks /\ TaskFits(j, task[j]) /\ task[j].at = "work" /\ Quiet
      /\ TasksTyped
      /\ task[j].kind \in {"check", "aftercheck"}
      /\ UNCHANGED <<snaps, snapsKept, remote, target>>
  BY AtWork DEF CheckRetention, BackupTypes, SavesNothing, Quiet, stateVars, storeVars, outside, planVars
<1>2. CASE task' = [task EXCEPT ![j].at = "finish", ![j].st = "completed"]
  BY <1>1, <1>2 DEF TasksTyped, Tasks, Positions, Completed, Moved, Became, ListsKept
<1>3. CASE Fail(j)
  BY <1>1, <1>3, FailMoves
<1> QED BY <1>1, <1>2, <1>3 DEF CheckRetention

LEMMA DrillMoves ==
    ASSUME BackupTypes, NEW j \in Jobs, Drill(j)
    PROVE  /\ task[j] \in Tasks /\ TaskFits(j, task[j]) /\ task[j].at = "work" /\ Quiet
           /\ task[j].kind = "drill" /\ Local(j)
           /\ UNCHANGED <<snaps, snapsKept, remote, target>>
           /\ \/ Moved(j, "recheck", task[j].st, memState[j].ok.snap)
              \/ Failed(j)
<1>1. /\ task[j] \in Tasks /\ TaskFits(j, task[j]) /\ task[j].at = "work" /\ Quiet
      /\ TasksTyped
      /\ task[j].kind = "drill" /\ Local(j)
      /\ UNCHANGED <<snaps, snapsKept, remote, target>>
  BY AtWork DEF Drill, BackupTypes, SavesNothing, Quiet, stateVars, storeVars, outside, planVars
<1>2. CASE task' = [task EXCEPT ![j].at = "recheck", ![j].snap = memState[j].ok.snap]
  <2> DEFINE v == memState[j].ok.snap
  <2>1. v \in Marks
    BY OkTyped
  <2>2. task' = [task EXCEPT ![j].at = "recheck", ![j].snap = v]
    BY <1>2
  <2> HIDE DEF v
  <2>3. Moved(j, "recheck", task[j].st, v)
    BY <1>1, <2>1, <2>2 DEF TasksTyped, Tasks, Positions, Moved, Became, ListsKept
  <2> QED BY <1>1, <1>2, <2>3 DEF v
<1>3. CASE Fail(j)
  BY <1>1, <1>3, FailMoves
<1> QED BY <1>1, <1>2, <1>3 DEF Drill

LEMMA StageRestoreMoves ==
    ASSUME BackupTypes, NEW j \in Jobs, StageRestore(j)
    PROVE  /\ task[j] \in Tasks /\ TaskFits(j, task[j]) /\ task[j].at = "work" /\ Quiet
           /\ task[j].kind = "restore" /\ Local(j)
           /\ UNCHANGED <<snaps, snapsKept, remote, target>>
           /\ \/ Moved(j, "install", task[j].st, Copied(j)) /\ Trusted(j) /\ target[j] = None
              \/ Failed(j)
<1>1. /\ task[j] \in Tasks /\ TaskFits(j, task[j]) /\ task[j].at = "work" /\ Quiet
      /\ TasksTyped
      /\ task[j].kind = "restore" /\ Local(j)
      /\ UNCHANGED <<snaps, snapsKept, remote, target>>
  BY AtWork DEF StageRestore, BackupTypes, SavesNothing, Quiet, stateVars, storeVars, outside, planVars
<1>2. CASE task' = [task EXCEPT ![j].at = "install", ![j].snap = Copied(j)] /\ Trusted(j) /\ target[j] = None
  <2> DEFINE v == Copied(j)
  <2>1. v \in Marks
    BY OkTyped DEF Copied, Rotten, Marks
  <2>2. task' = [task EXCEPT ![j].at = "install", ![j].snap = v]
    BY <1>2
  <2> HIDE DEF v
  <2>3. Moved(j, "install", task[j].st, v)
    BY <1>1, <2>1, <2>2 DEF TasksTyped, Tasks, Positions, Moved, Became, ListsKept
  <2> QED BY <1>1, <1>2, <2>3 DEF v
<1>3. CASE Fail(j)
  BY <1>1, <1>3, FailMoves
<1> QED BY <1>1, <1>2, <1>3 DEF StageRestore

LEMMA InstallMoves ==
    ASSUME BackupTypes, NEW j \in Jobs, Install(j)
    PROVE  /\ task[j] \in Tasks /\ TaskFits(j, task[j]) /\ task[j].at = "install" /\ Quiet
           /\ UNCHANGED <<snaps, snapsKept, remote>>
           /\ \/ Stepped(j, "recheck") /\ target[j] = None /\ target' = [target EXCEPT ![j] = task[j].snap]
              \/ Failed(j) /\ target' \in {target, [target EXCEPT ![j] = IF @ = None THEN task[j].snap ELSE @]}
<1>1. /\ task[j] \in Tasks /\ TaskFits(j, task[j]) /\ task[j].at = "install" /\ Quiet
      /\ TasksTyped
      /\ UNCHANGED <<snaps, snapsKept, remote>>
  BY AtWork DEF Install, BackupTypes, SavesNothing, Quiet, stateVars, storeVars, outside, planVars
<1>2. CASE Step(j, "recheck") /\ target[j] = None /\ target' = [target EXCEPT ![j] = task[j].snap]
  BY <1>1, <1>2, StepMoves DEF Positions
<1>3. CASE Fail(j) /\ target' \in {target, [target EXCEPT ![j] = IF @ = None THEN task[j].snap ELSE @]}
  BY <1>1, <1>3, FailMoves
<1> QED BY <1>1, <1>2, <1>3 DEF Install

LEMMA VerifyTargetMoves ==
    ASSUME BackupTypes, NEW j \in Jobs, VerifyTarget(j)
    PROVE  /\ task[j] \in Tasks /\ TaskFits(j, task[j]) /\ task[j].at = "work" /\ Quiet
           /\ task[j].kind = "verify"
           /\ UNCHANGED <<snaps, snapsKept, remote, target>>
           /\ \/ \E v \in Marks : Moved(j, "recheck", task[j].st, v)
              \/ Failed(j)
<1>1. /\ task[j] \in Tasks /\ TaskFits(j, task[j]) /\ task[j].at = "work" /\ Quiet
      /\ TasksTyped /\ task[j].kind = "verify"
      /\ UNCHANGED <<snaps, snapsKept, remote, target>>
  BY AtWork DEF VerifyTarget, BackupTypes, SavesNothing, Quiet, stateVars, storeVars, outside, planVars
<1> DEFINE v == IF /\ Local(j) /\ Intact(j, LatestRestore(j)) /\ target[j] = LatestRestore(j).snap
                THEN target[j] ELSE None
<1>2. v \in Marks
  BY DEF BackupTypes, StoresTyped, Marks
<1>3. \/ task' = [task EXCEPT ![j].at = "recheck", ![j].snap = v]
      \/ Fail(j)
  BY DEF VerifyTarget
<1> HIDE DEF v
<1>4. CASE task' = [task EXCEPT ![j].at = "recheck", ![j].snap = v]
  <2>1. Moved(j, "recheck", task[j].st, v)
    BY <1>1, <1>2, <1>4 DEF TasksTyped, Tasks, Positions, Moved, Became, ListsKept
  <2> QED BY <1>1, <1>2, <2>1
<1>5. CASE Fail(j)
  BY <1>1, <1>5, FailMoves
<1> QED BY <1>3, <1>4, <1>5

LEMMA CaptureCredentialsMoves ==
    ASSUME BackupTypes, NEW j \in Jobs, CaptureCredentials(j)
    PROVE  /\ task[j] \in Tasks /\ TaskFits(j, task[j]) /\ task[j].at = "work" /\ Quiet
           /\ task[j].kind \in {"backup", "drill", "restore"} /\ ~Local(j)
           /\ UNCHANGED <<snaps, snapsKept, remote, target>>
           /\ \/ Stepped(j, "command")
              \/ Failed(j)
<1>1. /\ task[j] \in Tasks /\ TaskFits(j, task[j]) /\ task[j].at = "work" /\ Quiet
      /\ TasksTyped
      /\ task[j].kind \in {"backup", "drill", "restore"} /\ ~Local(j)
      /\ UNCHANGED <<snaps, snapsKept, remote, target>>
  BY AtWork DEF CaptureCredentials, BackupTypes, SavesNothing, Quiet, stateVars, storeVars, outside, planVars
<1>2. CASE Step(j, "command")
  BY <1>1, <1>2, StepMoves DEF Positions
<1>3. CASE Fail(j)
  BY <1>1, <1>3, FailMoves
<1> QED BY <1>1, <1>2, <1>3 DEF CaptureCredentials

LEMMA RemoteBackupMoves ==
    ASSUME BackupTypes, NEW j \in Jobs, RemoteBackup(j)
    PROVE  /\ task[j] \in Tasks /\ TaskFits(j, task[j]) /\ task[j].at = "command" /\ Quiet
           /\ task[j].kind = "backup" /\ remote' \in [Jobs -> Marks]
           /\ UNCHANGED <<snaps, snapsKept, target>>
           /\ \/ Stepped(j, "recheck")
              \/ Failed(j)
<1>1. /\ task[j] \in Tasks /\ TaskFits(j, task[j]) /\ task[j].at = "command" /\ Quiet
      /\ TasksTyped
      /\ task[j].kind = "backup" /\ remote' \in [Jobs -> Marks]
      /\ UNCHANGED <<snaps, snapsKept, target>>
  BY AtWork DEF RemoteBackup, StoresTyped, Marks, Mixed, Tasks, BackupTypes, SavesNothing, Quiet, stateVars, storeVars, outside, planVars
<1>2. CASE Step(j, "recheck")
  BY <1>1, <1>2, StepMoves DEF Positions
<1>3. CASE Fail(j)
  BY <1>1, <1>3, FailMoves
<1> QED BY <1>1, <1>2, <1>3 DEF RemoteBackup

LEMMA RemoteDrillMoves ==
    ASSUME BackupTypes, NEW j \in Jobs, RemoteDrill(j)
    PROVE  /\ task[j] \in Tasks /\ TaskFits(j, task[j]) /\ task[j].at = "command" /\ Quiet
           /\ task[j].kind = "drill"
           /\ UNCHANGED <<snaps, snapsKept, remote, target>>
           /\ \/ Stepped(j, "recheck")
              \/ Failed(j)
<1>1. /\ task[j] \in Tasks /\ TaskFits(j, task[j]) /\ task[j].at = "command" /\ Quiet
      /\ TasksTyped
      /\ task[j].kind = "drill"
      /\ UNCHANGED <<snaps, snapsKept, remote, target>>
  BY AtWork DEF RemoteDrill, BackupTypes, SavesNothing, Quiet, stateVars, storeVars, outside, planVars
<1>2. CASE Step(j, "recheck")
  BY <1>1, <1>2, StepMoves DEF Positions
<1>3. CASE Fail(j)
  BY <1>1, <1>3, FailMoves
<1> QED BY <1>1, <1>2, <1>3 DEF RemoteDrill

LEMMA RemoteRestoreMoves ==
    ASSUME BackupTypes, NEW j \in Jobs, RemoteRestore(j)
    PROVE  /\ task[j] \in Tasks /\ TaskFits(j, task[j]) /\ task[j].at = "command" /\ Quiet
           /\ task[j].kind = "restore"
           /\ UNCHANGED <<snaps, snapsKept, remote, target>>
           /\ \/ Moved(j, "install", task[j].st, remote[j])
              \/ Failed(j)
<1>1. /\ task[j] \in Tasks /\ TaskFits(j, task[j]) /\ task[j].at = "command" /\ Quiet
      /\ TasksTyped
      /\ task[j].kind = "restore"
      /\ UNCHANGED <<snaps, snapsKept, remote, target>>
  BY AtWork DEF RemoteRestore, BackupTypes, SavesNothing, Quiet, stateVars, storeVars, outside, planVars
<1>2. CASE task' = [task EXCEPT ![j].at = "install", ![j].snap = remote[j]]
  <2> DEFINE v == remote[j]
  <2>1. v \in Marks
    BY DEF BackupTypes, StoresTyped
  <2>2. task' = [task EXCEPT ![j].at = "install", ![j].snap = v]
    BY <1>2
  <2> HIDE DEF v
  <2>3. Moved(j, "install", task[j].st, v)
    BY <1>1, <2>1, <2>2 DEF TasksTyped, Tasks, Positions, Moved, Became, ListsKept
  <2> QED BY <1>1, <1>2, <2>3 DEF v
<1>3. CASE Fail(j)
  BY <1>1, <1>3, FailMoves
<1> QED BY <1>1, <1>2, <1>3 DEF RemoteRestore

-----------------------------------------------------------------------------
(* The saves                                                                *)

\* What a save leaves alone.
SavesOnly == UNCHANGED <<snaps, snapsKept, remote, target, dueList, batch, lastWork, evidence,
                         clock, ops>>

LEMMA RunningFacts ==
    ASSUME BackupTypes, NEW j \in Jobs, task[j] \in Tasks
    PROVE  LET u == RunningState(j) IN
           /\ u \in JobStates /\ u.remind = memState[j].remind
           /\ \A f \in StatusFields :
                u[f] = IF f = FieldOf(task[j].kind) THEN ResultOf(j, "running") ELSE memState[j][f]
           /\ u.ok = memState[j].ok /\ u.hist = memState[j].hist
           /\ u.sched = IF task[j].kind = "backup" /\ task[j].trig = "scheduled"
                        THEN task[j].started ELSE memState[j].sched
<1> DEFINE u == RunningState(j)
           r == ResultOf(j, "running")
           s == memState[j]
<1>1. s \in JobStates /\ clock \in Nat
  BY DEF BackupTypes, StatesTyped, PlansTyped
<1>2. r \in Results /\ r.st = "running"
  BY <1>1, ResultFacts
<1>3. CASE task[j].kind = "backup"
  <2> DEFINE sched == IF task[j].trig = "scheduled" THEN task[j].started ELSE None
  <2>1. u = UpdatedRun(s, r, sched)
    BY <1>3 DEF RunningState
  <2>2. sched \in Marks /\ (task[j].trig = "scheduled" => sched # None)
    BY BackupAssumption DEF Marks, Tasks
  <2> HIDE DEF sched, r, s, u
  <2>3. /\ u \in JobStates /\ u.run = r /\ u.sched = IF sched = None THEN s.sched ELSE sched
        /\ u.ok = s.ok /\ u.restore = s.restore /\ u.hist = s.hist /\ u.drill = s.drill
        /\ u.verify = s.verify /\ u.check = s.check /\ u.remind = s.remind
    BY <1>1, <1>2, <2>1, <2>2, UpdatedRunFacts
  <2> QED BY <1>3, <2>2, <2>3, FieldNames DEF StatusFields, sched, r, s, u
<1>4. CASE task[j].kind # "backup"
  <2>1. u = Updated(s, task[j].kind, r)
    BY <1>4 DEF RunningState
  <2>2. task[j].kind \in Kinds
    BY DEF Tasks
  <2> HIDE DEF u, r, s
  <2> QED BY <1>1, <1>2, <1>4, <2>1, <2>2, UpdatedFacts DEF u, r, s
<1> QED BY <1>3, <1>4

\* The record of a finished operation.
LEMMA FinishedFacts ==
    ASSUME BackupTypes, NEW j \in Jobs, task[j] \in Tasks, NEW st \in {"completed", "failed"}
    PROVE  LET u == Updated(memState[j], task[j].kind, ResultOf(j, st))
               r == ResultOf(j, st)
           IN
           /\ u \in JobStates /\ u.remind = memState[j].remind /\ u.sched = memState[j].sched
           /\ r \in Results /\ r.st = st
           /\ \A f \in StatusFields :
                u[f] = IF f = FieldOf(task[j].kind) THEN r ELSE memState[j][f]
           /\ u.ok = IF task[j].kind = "backup" /\ st = "completed" THEN r ELSE memState[j].ok
           /\ u.hist = IF task[j].kind = "restore" THEN Prepend(memState[j].hist, r)
                       ELSE memState[j].hist
<1>1. memState[j] \in JobStates /\ clock \in Nat /\ task[j].kind \in Kinds
  BY DEF BackupTypes, StatesTyped, PlansTyped, Tasks
<1>2. ResultOf(j, st) \in Results /\ ResultOf(j, st).st = st
  BY <1>1, ResultFacts
<1> QED BY <1>1, <1>2, UpdatedFacts

LEMMA SaveRunningMoves ==
    ASSUME BackupTypes, NEW j \in Jobs, SaveRunning(j)
    PROVE  /\ task[j] \in Tasks /\ TaskFits(j, task[j]) /\ task[j].at = "begun" /\ SavesOnly
           /\ \E out \in Outcomes :
                /\ SaveJob(j, RunningState(j), out, FALSE)
                /\ IF out = "ok"
                   THEN Stepped(j, IF task[j].kind = "aftercheck" THEN "work" ELSE "lock")
                   ELSE IF Applied(out) THEN Moved(j, "undo", "failed", task[j].snap) ELSE Left(j)
<1>1. /\ task[j] \in Tasks /\ TaskFits(j, task[j]) /\ task[j].at = "begun" /\ SavesOnly
      /\ TasksTyped
  BY AtWork DEF SaveRunning, BackupTypes, SavesOnly, storeVars, outside, planVars
<1>2. PICK out \in Outcomes :
        /\ SaveJob(j, RunningState(j), out, FALSE)
        /\ IF out = "ok" THEN Step(j, IF task[j].kind = "aftercheck" THEN "work" ELSE "lock")
           ELSE IF Applied(out)
           THEN task' = [task EXCEPT ![j].at = "undo", ![j].st = "failed"]
           ELSE Leave(j)
  BY DEF SaveRunning
<1>3. CASE out = "ok"
  BY <1>1, <1>2, <1>3, StepMoves DEF Positions
<1>4. CASE out # "ok" /\ Applied(out)
  <2>1. Moved(j, "undo", "failed", task[j].snap)
    BY <1>1, <1>2, <1>4 DEF TasksTyped, Tasks, Positions, Moved, Became, ListsKept
  <2> QED BY <1>1, <1>2, <1>4, <2>1
<1>5. CASE out # "ok" /\ ~Applied(out)
  BY <1>1, <1>2, <1>5, LeaveMoves
<1> QED BY <1>3, <1>4, <1>5

LEMMA SaveUndoMoves ==
    ASSUME BackupTypes, NEW j \in Jobs, SaveUndo(j)
    PROVE  /\ task[j] \in Tasks /\ TaskFits(j, task[j]) /\ task[j].at = "undo" /\ SavesOnly
           /\ Left(j)
           /\ \E out \in Outcomes :
                SaveJob(j, Updated(memState[j], task[j].kind, ResultOf(j, "failed")), out, TRUE)
<1>1. /\ task[j] \in Tasks /\ TaskFits(j, task[j]) /\ task[j].at = "undo" /\ SavesOnly
      /\ TasksTyped
  BY AtWork DEF SaveUndo, BackupTypes, SavesOnly, storeVars, outside, planVars
<1> QED BY <1>1, LeaveMoves DEF SaveUndo

LEMMA SaveFailedMoves ==
    ASSUME BackupTypes, NEW j \in Jobs, SaveFailed(j)
    PROVE  /\ task[j] \in Tasks /\ TaskFits(j, task[j]) /\ task[j].at = "finish" /\ SavesOnly
           /\ task[j].kind = "backup" /\ task[j].st = "failed"
           /\ Released(j)
           /\ \E out \in Outcomes : SaveJob(j, Terminal(j), out, TRUE)
<1>1. /\ task[j] \in Tasks /\ TaskFits(j, task[j]) /\ task[j].at = "finish" /\ SavesOnly
      /\ TasksTyped
  BY AtWork DEF SaveFailed, BackupTypes, SavesOnly, storeVars, outside, planVars
<1> QED BY <1>1, ReleaseMoves DEF SaveFailed

LEMMA SaveCompletedMoves ==
    ASSUME BackupTypes, NEW j \in Jobs, SaveCompleted(j)
    PROVE  /\ task[j] \in Tasks /\ TaskFits(j, task[j]) /\ task[j].at = "finish" /\ SavesOnly
           /\ task[j].kind = "backup" /\ task[j].st = "completed"
           /\ \E out \in Outcomes :
                /\ SaveJob(j, Terminal(j), out, FALSE)
                /\ \/ out = "ok" /\ Local(j) /\ Stepped(j, "retention")
                   \/ out = "ok" /\ ~Local(j) /\ ChecksNext(j)
                   \/ out # "ok" /\ Applied(out) /\ Stepped(j, "again")
                   \/ ~Applied(out) /\ Failed(j)
<1>1. /\ task[j] \in Tasks /\ TaskFits(j, task[j]) /\ task[j].at = "finish" /\ SavesOnly
      /\ TasksTyped /\ task[j].kind = "backup" /\ task[j].st = "completed"
  BY AtWork DEF SaveCompleted, BackupTypes, SavesOnly, storeVars, outside, planVars
<1>2. PICK out \in Outcomes :
        /\ SaveJob(j, Terminal(j), out, FALSE)
        /\ IF out = "ok" THEN IF Local(j) THEN Step(j, "retention") ELSE AfterRetention(j)
           ELSE IF Applied(out) THEN Step(j, "again")
           ELSE task' = [task EXCEPT ![j].at = "finish", ![j].st = "failed"]
  BY DEF SaveCompleted
<1>3. CASE out = "ok" /\ Local(j)
  <2>1. Stepped(j, "retention")
    BY <1>1, <1>2, <1>3, StepMoves DEF Positions
  <2> QED BY <1>1, <1>2, <1>3, <2>1
<1>4. CASE out = "ok" /\ ~Local(j)
  <2>1. ChecksNext(j)
    BY <1>1, <1>2, <1>4, RetentionMoves
  <2> QED BY <1>1, <1>2, <1>4, <2>1
<1>5. CASE out # "ok" /\ Applied(out)
  <2>1. Stepped(j, "again")
    BY <1>1, <1>2, <1>5, StepMoves DEF Positions
  <2> QED BY <1>1, <1>2, <1>5, <2>1
<1>6. CASE out # "ok" /\ ~Applied(out)
  <2>1. Failed(j)
    BY <1>1, <1>2, <1>6, FailMoves DEF Fail
  <2> QED BY <1>1, <1>2, <1>6, <2>1
<1> QED BY <1>3, <1>4, <1>5, <1>6

LEMMA SaveFinalMoves ==
    ASSUME BackupTypes, NEW j \in Jobs, SaveFinal(j)
    PROVE  /\ task[j] \in Tasks /\ TaskFits(j, task[j]) /\ task[j].at = "final" /\ SavesOnly
           /\ \E out \in Outcomes :
                /\ SaveJob(j, Terminal(j), out, FALSE)
                /\ \/ out = "ok" /\ Released(j)
                   \/ Stepped(j, "again")
<1>1. /\ task[j] \in Tasks /\ TaskFits(j, task[j]) /\ task[j].at = "final" /\ SavesOnly
      /\ TasksTyped
  BY AtWork DEF SaveFinal, BackupTypes, SavesOnly, storeVars, outside, planVars
<1>2. PICK out \in Outcomes :
        /\ SaveJob(j, Terminal(j), out, FALSE)
        /\ IF out = "ok" THEN Release(j) ELSE Step(j, "again")
  BY DEF SaveFinal
<1>3. CASE out = "ok"
  BY <1>1, <1>2, <1>3, ReleaseMoves
<1>4. CASE out # "ok"
  BY <1>1, <1>2, <1>4, StepMoves DEF Positions
<1> QED BY <1>3, <1>4

LEMMA SaveResultMoves ==
    ASSUME BackupTypes, NEW j \in Jobs, SaveResult(j)
    PROVE  /\ task[j] \in Tasks /\ TaskFits(j, task[j]) /\ task[j].at = "finish" /\ SavesOnly
           /\ task[j].kind # "backup"
           /\ \E out \in Outcomes :
                /\ SaveJob(j, Terminal(j), out, ~Applied(out))
                /\ \/ Applied(out) /\ Stepped(j, "again")
                   \/ Left(j)
<1>1. /\ task[j] \in Tasks /\ TaskFits(j, task[j]) /\ task[j].at = "finish" /\ SavesOnly
      /\ TasksTyped /\ task[j].kind # "backup"
  BY AtWork DEF SaveResult, BackupTypes, SavesOnly, storeVars, outside, planVars
<1>2. PICK out \in Outcomes :
        /\ SaveJob(j, Terminal(j), out, ~Applied(out))
        /\ IF out \in {"warn", "after"} THEN Step(j, "again") ELSE Leave(j)
  BY DEF SaveResult
<1>3. CASE out \in {"warn", "after"}
  <2>1. Stepped(j, "again")
    BY <1>1, <1>2, <1>3, StepMoves DEF Positions
  <2>2. Applied(out)
    BY <1>3 DEF Applied
  <2> QED BY <1>1, <1>2, <2>1, <2>2
<1>4. CASE out \notin {"warn", "after"}
  BY <1>1, <1>2, <1>4, LeaveMoves
<1> QED BY <1>3, <1>4

LEMMA SaveAgainMoves ==
    ASSUME BackupTypes, NEW j \in Jobs, SaveAgain(j)
    PROVE  /\ task[j] \in Tasks /\ TaskFits(j, task[j]) /\ task[j].at = "again" /\ SavesOnly
           /\ Left(j)
           /\ \E out \in Outcomes : SaveJob(j, Terminal(j), out, TRUE)
<1>1. /\ task[j] \in Tasks /\ TaskFits(j, task[j]) /\ task[j].at = "again" /\ SavesOnly
      /\ TasksTyped
  BY AtWork DEF SaveAgain, BackupTypes, SavesOnly, storeVars, outside, planVars
<1> QED BY <1>1, LeaveMoves DEF SaveAgain

\* An operation begins.
Begun(j, kind, trig) ==
    /\ task' \in [Jobs -> Tasks \cup {Free}]
    /\ \A k \in Jobs \ {j} : task'[k] = task[k]
    /\ task[j] = Free /\ task'[j] \in Tasks
    /\ task'[j].kind = kind /\ task'[j].trig = trig /\ task'[j].at = "begun"
    /\ task'[j].id = ops + 1 /\ task'[j].st = "running" /\ task'[j].started = clock
    /\ task'[j].snap = None /\ task'[j].todo = {} /\ task'[j].gone = {}
    /\ manager = "open" /\ ops' = ops + 1

LEMMA BeginMoves ==
    ASSUME BackupTypes, NEW j \in Jobs, NEW kind \in Kinds,
           NEW trig \in {"manual", "scheduled", "batch"}, BeginJob(j, kind, trig)
    PROVE  Begun(j, kind, trig)
<1> DEFINE u == [kind |-> kind, trig |-> trig, at |-> "begun",
                 id |-> ops + 1, st |-> "running", started |-> clock,
                 snap |-> None, todo |-> {}, gone |-> {}]
<1>1. /\ manager = "open" /\ task[j] = Free /\ ops' = ops + 1
      /\ task' = [task EXCEPT ![j] = u]
  BY DEF BeginJob, Held
<1>2. clock \in Nat /\ ops \in Nat /\ task \in [Jobs -> Tasks \cup {Free}]
  BY DEF BackupTypes, PlansTyped, TasksTyped
<1>3. u \in Tasks
  BY <1>2 DEF Tasks, Positions, Marks
<1>4. /\ u.kind = kind /\ u.trig = trig /\ u.at = "begun"
      /\ u.id = ops + 1 /\ u.st = "running" /\ u.started = clock
      /\ u.snap = None /\ u.todo = {} /\ u.gone = {}
  OBVIOUS
<1> HIDE DEF u
<1> QED BY <1>1, <1>2, <1>3, <1>4 DEF Begun

-----------------------------------------------------------------------------
(* Types are kept                                                           *)

LEMMA FitsAfterMove ==
    ASSUME TasksTyped, NEW j \in Jobs, task[j] \in Tasks,
           task' \in [Jobs -> Tasks \cup {Free}], \A k \in Jobs \ {j} : task'[k] = task[k],
           ops \in Nat, ops' \in Nat, ops' >= ops,
           manager' = "down" <=> manager = "down",
           (task[j] \in Tasks => TaskFits(j, task[j]))'
    PROVE  TasksTyped'
<1>1. manager' # "down"
  BY FreeIsNoTask DEF TasksTyped
<1>2. ASSUME NEW k \in Jobs, task'[k] \in Tasks PROVE TaskFits(k, task[k])'
  <2>1. CASE k = j
    BY <1>2, <2>1
  <2>2. CASE k # j
    <3>1. task'[k] = task[k] /\ TaskFits(k, task[k]) /\ task[k].id \in Nat
      BY <1>2, <2>2 DEF TasksTyped, Tasks
    <3> QED BY <3>1 DEF TaskFits, Local
  <2> QED BY <2>1, <2>2
<1> QED BY <1>1, <1>2 DEF TasksTyped

\* Moving on from where the operation of j is, nothing else having to be known of it.
Onward(j) ==
    /\ task' \in [Jobs -> Tasks \cup {Free}]
    /\ \A k \in Jobs \ {j} : task'[k] = task[k]
    /\ task[j] \in Tasks
    /\ (task[j] \in Tasks => TaskFits(j, task[j]))'

LEMMA LockTargetFits ==
    ASSUME BackupTypes, NEW j \in Jobs, LockTarget(j)
    PROVE  Onward(j) /\ StoresTyped' /\ SavesNothing
<1>1. /\ task[j] \in Tasks /\ TaskFits(j, task[j]) /\ SavesNothing
  BY LockTargetMoves DEF Quiet
<1>2. Onward(j)
  BY <1>1, LockTargetMoves DEF Onward, TaskFits, Local, Stepped, Failed, Completed, Moved, Became,
     ListsKept, ChecksNext, SavesNothing
<1>3. StoresTyped'
  BY LockTargetMoves DEF BackupTypes, StoresTyped, SnapRecords, Tasks, Marks, Current, Snap
<1> QED BY <1>1, <1>2, <1>3

LEMMA RecheckFits ==
    ASSUME BackupTypes, NEW j \in Jobs, Recheck(j)
    PROVE  Onward(j) /\ StoresTyped' /\ SavesNothing
<1>1. /\ task[j] \in Tasks /\ TaskFits(j, task[j]) /\ SavesNothing
  BY RecheckMoves DEF Quiet
<1>2. Onward(j)
  BY <1>1, RecheckMoves DEF Onward, TaskFits, Local, Stepped, Failed, Completed, Moved, Became,
     ListsKept, ChecksNext, SavesNothing
<1>3. StoresTyped'
  BY RecheckMoves DEF BackupTypes, StoresTyped, SnapRecords, Tasks, Marks, Current, Snap
<1> QED BY <1>1, <1>2, <1>3

LEMMA CopySourceFits ==
    ASSUME BackupTypes, NEW j \in Jobs, CopySource(j)
    PROVE  Onward(j) /\ StoresTyped' /\ SavesNothing
<1>1. /\ task[j] \in Tasks /\ TaskFits(j, task[j]) /\ SavesNothing
  BY CopySourceMoves DEF Quiet
<1>2. Onward(j)
  BY <1>1, CopySourceMoves DEF Onward, TaskFits, Local, Stepped, Failed, Completed, Moved, Became,
     ListsKept, ChecksNext, SavesNothing
<1>3. StoresTyped'
  BY CopySourceMoves DEF BackupTypes, StoresTyped, SnapRecords, Tasks, Marks, Current, Snap
<1> QED BY <1>1, <1>2, <1>3

LEMMA FinalizeSnapshotFits ==
    ASSUME BackupTypes, NEW j \in Jobs, FinalizeSnapshot(j)
    PROVE  Onward(j) /\ StoresTyped' /\ SavesNothing
<1>1. /\ task[j] \in Tasks /\ TaskFits(j, task[j]) /\ SavesNothing
  BY FinalizeSnapshotMoves DEF Quiet
<1>2. Onward(j)
  BY <1>1, FinalizeSnapshotMoves DEF Onward, TaskFits, Local, Stepped, Failed, Completed, Moved, Became,
     ListsKept, ChecksNext, SavesNothing
<1>3. StoresTyped'
  BY FinalizeSnapshotMoves DEF BackupTypes, StoresTyped, SnapRecords, Tasks, Marks, Current, Snap
<1> QED BY <1>1, <1>2, <1>3

LEMMA SyncSnapshotFits ==
    ASSUME BackupTypes, NEW j \in Jobs, SyncSnapshot(j)
    PROVE  Onward(j) /\ StoresTyped' /\ SavesNothing
<1>1. /\ task[j] \in Tasks /\ TaskFits(j, task[j]) /\ SavesNothing
  BY SyncSnapshotMoves DEF Quiet
<1>2. Onward(j)
  BY <1>1, SyncSnapshotMoves DEF Onward, TaskFits, Local, Stepped, Failed, Completed, Moved, Became,
     ListsKept, ChecksNext, SavesNothing
<1>3. StoresTyped'
  BY SyncSnapshotMoves DEF BackupTypes, StoresTyped, SnapRecords, Tasks, Marks, Current, Snap
<1> QED BY <1>1, <1>2, <1>3

LEMMA CheckManifestFits ==
    ASSUME BackupTypes, NEW j \in Jobs, CheckManifest(j)
    PROVE  Onward(j) /\ StoresTyped' /\ SavesNothing
<1>1. /\ task[j] \in Tasks /\ TaskFits(j, task[j]) /\ SavesNothing
  BY CheckManifestMoves DEF Quiet
<1>2. Onward(j)
  BY <1>1, CheckManifestMoves DEF Onward, TaskFits, Local, Stepped, Failed, Completed, Moved, Became,
     ListsKept, ChecksNext, SavesNothing
<1>3. StoresTyped'
  BY CheckManifestMoves DEF BackupTypes, StoresTyped, LessOf
<1> QED BY <1>1, <1>2, <1>3

LEMMA ListSnapshotsFits ==
    ASSUME BackupTypes, NEW j \in Jobs, ListSnapshots(j)
    PROVE  Onward(j) /\ StoresTyped' /\ SavesNothing
<1>1. /\ task[j] \in Tasks /\ TaskFits(j, task[j]) /\ SavesNothing
  BY ListSnapshotsMoves DEF Quiet
<1>2. Onward(j)
  BY <1>1, ListSnapshotsMoves DEF Onward, TaskFits, Local, Stepped, Failed, Completed, Moved, Became,
     ListsKept, ChecksNext, SavesNothing, Doomed
<1>3. StoresTyped'
  BY ListSnapshotsMoves DEF BackupTypes, StoresTyped, SnapRecords, Tasks, Marks, Current, Snap
<1> QED BY <1>1, <1>2, <1>3

LEMMA RemoveSnapshotFits ==
    ASSUME BackupTypes, NEW j \in Jobs, RemoveSnapshot(j)
    PROVE  Onward(j) /\ StoresTyped' /\ SavesNothing
<1>1. /\ task[j] \in Tasks /\ TaskFits(j, task[j]) /\ SavesNothing
  BY RemoveSnapshotMoves DEF Quiet
<1>2. Onward(j)
  BY <1>1, RemoveSnapshotMoves DEF Onward, TaskFits, Local, Stepped, Failed, Completed, Moved, Became,
     ListsKept, ChecksNext, SavesNothing
<1>3. StoresTyped'
  BY RemoveSnapshotMoves DEF BackupTypes, StoresTyped, LessOf
<1> QED BY <1>1, <1>2, <1>3

LEMMA SyncRetentionFits ==
    ASSUME BackupTypes, NEW j \in Jobs, SyncRetention(j)
    PROVE  Onward(j) /\ StoresTyped' /\ SavesNothing
<1>1. /\ task[j] \in Tasks /\ TaskFits(j, task[j]) /\ SavesNothing
  BY SyncRetentionMoves DEF Quiet
<1>2. Onward(j)
  BY <1>1, SyncRetentionMoves DEF Onward, TaskFits, Local, Stepped, Failed, Completed, Moved, Became,
     ListsKept, ChecksNext, SavesNothing
<1>3. StoresTyped'
  BY SyncRetentionMoves DEF BackupTypes, StoresTyped, SnapRecords, Tasks, Marks, Current, Snap
<1> QED BY <1>1, <1>2, <1>3

LEMMA CheckRetentionFits ==
    ASSUME BackupTypes, NEW j \in Jobs, CheckRetention(j)
    PROVE  Onward(j) /\ StoresTyped' /\ SavesNothing
<1>1. /\ task[j] \in Tasks /\ TaskFits(j, task[j]) /\ SavesNothing
  BY CheckRetentionMoves DEF Quiet
<1>2. Onward(j)
  BY <1>1, CheckRetentionMoves DEF Onward, TaskFits, Local, Stepped, Failed, Completed, Moved, Became,
     ListsKept, ChecksNext, SavesNothing
<1>3. StoresTyped'
  BY CheckRetentionMoves DEF BackupTypes, StoresTyped, SnapRecords, Tasks, Marks, Current, Snap
<1> QED BY <1>1, <1>2, <1>3

LEMMA DrillFits ==
    ASSUME BackupTypes, NEW j \in Jobs, Drill(j)
    PROVE  Onward(j) /\ StoresTyped' /\ SavesNothing
<1>1. /\ task[j] \in Tasks /\ TaskFits(j, task[j]) /\ SavesNothing
  BY DrillMoves DEF Quiet
<1>2. Onward(j)
  BY <1>1, DrillMoves DEF Onward, TaskFits, Local, Stepped, Failed, Completed, Moved, Became,
     ListsKept, ChecksNext, SavesNothing
<1>3. StoresTyped'
  BY DrillMoves DEF BackupTypes, StoresTyped, SnapRecords, Tasks, Marks, Current, Snap
<1> QED BY <1>1, <1>2, <1>3

LEMMA StageRestoreFits ==
    ASSUME BackupTypes, NEW j \in Jobs, StageRestore(j)
    PROVE  Onward(j) /\ StoresTyped' /\ SavesNothing
<1>1. /\ task[j] \in Tasks /\ TaskFits(j, task[j]) /\ SavesNothing
  BY StageRestoreMoves DEF Quiet
<1>2. Onward(j)
  BY <1>1, StageRestoreMoves DEF Onward, TaskFits, Local, Stepped, Failed, Completed, Moved, Became,
     ListsKept, ChecksNext, SavesNothing
<1>3. StoresTyped'
  BY StageRestoreMoves DEF BackupTypes, StoresTyped, SnapRecords, Tasks, Marks, Current, Snap
<1> QED BY <1>1, <1>2, <1>3

LEMMA InstallFits ==
    ASSUME BackupTypes, NEW j \in Jobs, Install(j)
    PROVE  Onward(j) /\ StoresTyped' /\ SavesNothing
<1>1. /\ task[j] \in Tasks /\ TaskFits(j, task[j]) /\ SavesNothing
  BY InstallMoves DEF Quiet
<1>2. Onward(j)
  BY <1>1, InstallMoves DEF Onward, TaskFits, Local, Stepped, Failed, Completed, Moved, Became,
     ListsKept, ChecksNext, SavesNothing
<1>3. StoresTyped'
  BY InstallMoves DEF BackupTypes, StoresTyped, SnapRecords, Tasks, Marks, Current, Snap
<1> QED BY <1>1, <1>2, <1>3

LEMMA VerifyTargetFits ==
    ASSUME BackupTypes, NEW j \in Jobs, VerifyTarget(j)
    PROVE  Onward(j) /\ StoresTyped' /\ SavesNothing
<1>1. /\ task[j] \in Tasks /\ TaskFits(j, task[j]) /\ SavesNothing
  BY VerifyTargetMoves DEF Quiet
<1>2. Onward(j)
  BY <1>1, VerifyTargetMoves DEF Onward, TaskFits, Local, Stepped, Failed, Completed, Moved, Became,
     ListsKept, ChecksNext, SavesNothing
<1>3. StoresTyped'
  BY VerifyTargetMoves DEF BackupTypes, StoresTyped, SnapRecords, Tasks, Marks, Current, Snap
<1> QED BY <1>1, <1>2, <1>3

LEMMA CaptureCredentialsFits ==
    ASSUME BackupTypes, NEW j \in Jobs, CaptureCredentials(j)
    PROVE  Onward(j) /\ StoresTyped' /\ SavesNothing
<1>1. /\ task[j] \in Tasks /\ TaskFits(j, task[j]) /\ SavesNothing
  BY CaptureCredentialsMoves DEF Quiet
<1>2. Onward(j)
  BY <1>1, CaptureCredentialsMoves DEF Onward, TaskFits, Local, Stepped, Failed, Completed, Moved, Became,
     ListsKept, ChecksNext, SavesNothing
<1>3. StoresTyped'
  BY CaptureCredentialsMoves DEF BackupTypes, StoresTyped, SnapRecords, Tasks, Marks, Current, Snap
<1> QED BY <1>1, <1>2, <1>3

LEMMA RemoteBackupFits ==
    ASSUME BackupTypes, NEW j \in Jobs, RemoteBackup(j)
    PROVE  Onward(j) /\ StoresTyped' /\ SavesNothing
<1>1. /\ task[j] \in Tasks /\ TaskFits(j, task[j]) /\ SavesNothing
  BY RemoteBackupMoves DEF Quiet
<1>2. Onward(j)
  BY <1>1, RemoteBackupMoves DEF Onward, TaskFits, Local, Stepped, Failed, Completed, Moved, Became,
     ListsKept, ChecksNext, SavesNothing
<1>3. StoresTyped'
  BY RemoteBackupMoves DEF BackupTypes, StoresTyped, SnapRecords, Tasks, Marks, Current, Snap
<1> QED BY <1>1, <1>2, <1>3

LEMMA RemoteDrillFits ==
    ASSUME BackupTypes, NEW j \in Jobs, RemoteDrill(j)
    PROVE  Onward(j) /\ StoresTyped' /\ SavesNothing
<1>1. /\ task[j] \in Tasks /\ TaskFits(j, task[j]) /\ SavesNothing
  BY RemoteDrillMoves DEF Quiet
<1>2. Onward(j)
  BY <1>1, RemoteDrillMoves DEF Onward, TaskFits, Local, Stepped, Failed, Completed, Moved, Became,
     ListsKept, ChecksNext, SavesNothing
<1>3. StoresTyped'
  BY RemoteDrillMoves DEF BackupTypes, StoresTyped, SnapRecords, Tasks, Marks, Current, Snap
<1> QED BY <1>1, <1>2, <1>3

LEMMA RemoteRestoreFits ==
    ASSUME BackupTypes, NEW j \in Jobs, RemoteRestore(j)
    PROVE  Onward(j) /\ StoresTyped' /\ SavesNothing
<1>1. /\ task[j] \in Tasks /\ TaskFits(j, task[j]) /\ SavesNothing
  BY RemoteRestoreMoves DEF Quiet
<1>2. Onward(j)
  BY <1>1, RemoteRestoreMoves DEF Onward, TaskFits, Local, Stepped, Failed, Completed, Moved, Became,
     ListsKept, ChecksNext, SavesNothing
<1>3. StoresTyped'
  BY RemoteRestoreMoves DEF BackupTypes, StoresTyped, SnapRecords, Tasks, Marks, Current, Snap
<1> QED BY <1>1, <1>2, <1>3

LEMMA SaveRunningFits ==
    ASSUME BackupTypes, NEW j \in Jobs, SaveRunning(j)
    PROVE  /\ Onward(j) /\ SavesOnly /\ StatesTyped' /\ (manager' = "down" <=> manager = "down")
           /\ \A k \in Jobs \ {j} :
                /\ memState'[k] = memState[k]
                /\ fileState'[k] \in {fileState[k], memState[k]}
                /\ fileKept'[k] \in {fileKept[k], memState[k]}
<1>1. /\ task[j] \in Tasks /\ TaskFits(j, task[j]) /\ SavesOnly /\ StatesTyped
  BY SaveRunningMoves DEF BackupTypes
<1>2. Onward(j)
  <2>1. /\ task[j].todo = {} /\ task[j].gone = {} /\ task[j].id <= ops
        /\ task[j].trig = "scheduled" => task[j].kind \in {"backup", "aftercheck"}
        /\ ops' = ops
    BY <1>1, SaveRunningMoves DEF TaskFits, SavesOnly
  <2>2. CASE Stepped(j, "work") /\ task[j].kind = "aftercheck"
    BY <2>1, <2>2 DEF Onward, TaskFits, Local, Stepped, Moved, Became, ListsKept
  <2>3. CASE Stepped(j, "lock") /\ task[j].kind # "aftercheck"
    BY <2>1, <2>3 DEF Onward, TaskFits, Local, Stepped, Moved, Became, ListsKept
  <2>4. CASE Moved(j, "undo", "failed", task[j].snap)
    BY <2>1, <2>4 DEF Onward, TaskFits, Local, Moved, Became, ListsKept
  <2>5. CASE Left(j)
    BY <2>1, <2>5, FreeIsNoTask DEF Onward, TaskFits, Local, Left, Released, Became, ListsKept
  <2> QED BY <2>2, <2>3, <2>4, <2>5, SaveRunningMoves
<1>3. RunningState(j) \in JobStates
  BY <1>1, RunningFacts
<1>4. PICK out \in Outcomes : SaveJob(j, RunningState(j), out, FALSE)
  BY SaveRunningMoves
<1> QED BY <1>1, <1>2, <1>3, <1>4, SaveFacts

LEMMA SaveUndoFits ==
    ASSUME BackupTypes, NEW j \in Jobs, SaveUndo(j)
    PROVE  /\ Onward(j) /\ SavesOnly /\ StatesTyped' /\ (manager' = "down" <=> manager = "down")
           /\ \A k \in Jobs \ {j} :
                /\ memState'[k] = memState[k]
                /\ fileState'[k] \in {fileState[k], memState[k]}
                /\ fileKept'[k] \in {fileKept[k], memState[k]}
<1>1. /\ task[j] \in Tasks /\ TaskFits(j, task[j]) /\ SavesOnly /\ StatesTyped
  BY SaveUndoMoves DEF BackupTypes
<1>2. Onward(j)
  BY <1>1, SaveUndoMoves, FreeIsNoTask DEF Onward, TaskFits, Local, Stepped, Failed, Moved, Became,
     ListsKept, ChecksNext, Released, Left, SavesOnly
<1>3. Updated(memState[j], task[j].kind, ResultOf(j, "failed")) \in JobStates
  BY <1>1, FinishedFacts
<1>4. PICK out \in Outcomes : SaveJob(j, Updated(memState[j], task[j].kind, ResultOf(j, "failed")), out, TRUE)
  BY SaveUndoMoves
<1> QED BY <1>1, <1>2, <1>3, <1>4, SaveFacts

LEMMA SaveFailedFits ==
    ASSUME BackupTypes, NEW j \in Jobs, SaveFailed(j)
    PROVE  /\ Onward(j) /\ SavesOnly /\ StatesTyped' /\ (manager' = "down" <=> manager = "down")
           /\ \A k \in Jobs \ {j} :
                /\ memState'[k] = memState[k]
                /\ fileState'[k] \in {fileState[k], memState[k]}
                /\ fileKept'[k] \in {fileKept[k], memState[k]}
<1>1. /\ task[j] \in Tasks /\ TaskFits(j, task[j]) /\ SavesOnly /\ StatesTyped
  BY SaveFailedMoves DEF BackupTypes
<1>2. Onward(j)
  BY <1>1, SaveFailedMoves, FreeIsNoTask DEF Onward, TaskFits, Local, Stepped, Failed, Moved, Became,
     ListsKept, ChecksNext, Released, Left, SavesOnly
<1>3. Terminal(j) \in JobStates
  <2>1. task[j].st \in {"completed", "failed"}
    BY <1>1, SaveFailedMoves DEF TaskFits, Tasks
  <2> QED BY <1>1, <2>1, FinishedFacts DEF Terminal
<1>4. PICK out \in Outcomes : SaveJob(j, Terminal(j), out, TRUE)
  BY SaveFailedMoves
<1> QED BY <1>1, <1>2, <1>3, <1>4, SaveFacts

LEMMA SaveCompletedFits ==
    ASSUME BackupTypes, NEW j \in Jobs, SaveCompleted(j)
    PROVE  /\ Onward(j) /\ SavesOnly /\ StatesTyped' /\ (manager' = "down" <=> manager = "down")
           /\ \A k \in Jobs \ {j} :
                /\ memState'[k] = memState[k]
                /\ fileState'[k] \in {fileState[k], memState[k]}
                /\ fileKept'[k] \in {fileKept[k], memState[k]}
<1>1. /\ task[j] \in Tasks /\ TaskFits(j, task[j]) /\ SavesOnly /\ StatesTyped
  BY SaveCompletedMoves DEF BackupTypes
<1>2. Onward(j)
  BY <1>1, SaveCompletedMoves, FreeIsNoTask DEF Onward, TaskFits, Local, Stepped, Failed, Moved, Became,
     ListsKept, ChecksNext, Released, Left, SavesOnly
<1>3. Terminal(j) \in JobStates
  <2>1. task[j].st \in {"completed", "failed"}
    BY <1>1, SaveCompletedMoves DEF TaskFits, Tasks
  <2> QED BY <1>1, <2>1, FinishedFacts DEF Terminal
<1>4. PICK out \in Outcomes : SaveJob(j, Terminal(j), out, FALSE)
  BY SaveCompletedMoves
<1> QED BY <1>1, <1>2, <1>3, <1>4, SaveFacts

LEMMA SaveFinalFits ==
    ASSUME BackupTypes, NEW j \in Jobs, SaveFinal(j)
    PROVE  /\ Onward(j) /\ SavesOnly /\ StatesTyped' /\ (manager' = "down" <=> manager = "down")
           /\ \A k \in Jobs \ {j} :
                /\ memState'[k] = memState[k]
                /\ fileState'[k] \in {fileState[k], memState[k]}
                /\ fileKept'[k] \in {fileKept[k], memState[k]}
<1>1. /\ task[j] \in Tasks /\ TaskFits(j, task[j]) /\ SavesOnly /\ StatesTyped
  BY SaveFinalMoves DEF BackupTypes
<1>2. Onward(j)
  BY <1>1, SaveFinalMoves, FreeIsNoTask DEF Onward, TaskFits, Local, Stepped, Failed, Moved, Became,
     ListsKept, ChecksNext, Released, Left, SavesOnly
<1>3. Terminal(j) \in JobStates
  <2>1. task[j].st \in {"completed", "failed"}
    BY <1>1, SaveFinalMoves DEF TaskFits, Tasks
  <2> QED BY <1>1, <2>1, FinishedFacts DEF Terminal
<1>4. PICK out \in Outcomes : SaveJob(j, Terminal(j), out, FALSE)
  BY SaveFinalMoves
<1> QED BY <1>1, <1>2, <1>3, <1>4, SaveFacts

LEMMA SaveResultFits ==
    ASSUME BackupTypes, NEW j \in Jobs, SaveResult(j)
    PROVE  /\ Onward(j) /\ SavesOnly /\ StatesTyped' /\ (manager' = "down" <=> manager = "down")
           /\ \A k \in Jobs \ {j} :
                /\ memState'[k] = memState[k]
                /\ fileState'[k] \in {fileState[k], memState[k]}
                /\ fileKept'[k] \in {fileKept[k], memState[k]}
<1>1. /\ task[j] \in Tasks /\ TaskFits(j, task[j]) /\ SavesOnly /\ StatesTyped
  BY SaveResultMoves DEF BackupTypes
<1>2. Onward(j)
  BY <1>1, SaveResultMoves, FreeIsNoTask DEF Onward, TaskFits, Local, Stepped, Failed, Moved, Became,
     ListsKept, ChecksNext, Released, Left, SavesOnly
<1>3. Terminal(j) \in JobStates
  <2>1. task[j].st \in {"completed", "failed"}
    BY <1>1, SaveResultMoves DEF TaskFits, Tasks
  <2> QED BY <1>1, <2>1, FinishedFacts DEF Terminal
<1>4. PICK out \in Outcomes : SaveJob(j, Terminal(j), out, ~Applied(out))
  BY SaveResultMoves
<1> DEFINE rem == ~Applied(out)
<1>5. rem \in BOOLEAN
  OBVIOUS
<1>6. SaveJob(j, Terminal(j), out, rem)
  BY <1>4
<1> HIDE DEF rem
<1> QED BY <1>1, <1>2, <1>3, <1>5, <1>6, SaveFacts

LEMMA SaveAgainFits ==
    ASSUME BackupTypes, NEW j \in Jobs, SaveAgain(j)
    PROVE  /\ Onward(j) /\ SavesOnly /\ StatesTyped' /\ (manager' = "down" <=> manager = "down")
           /\ \A k \in Jobs \ {j} :
                /\ memState'[k] = memState[k]
                /\ fileState'[k] \in {fileState[k], memState[k]}
                /\ fileKept'[k] \in {fileKept[k], memState[k]}
<1>1. /\ task[j] \in Tasks /\ TaskFits(j, task[j]) /\ SavesOnly /\ StatesTyped
  BY SaveAgainMoves DEF BackupTypes
<1>2. Onward(j)
  BY <1>1, SaveAgainMoves, FreeIsNoTask DEF Onward, TaskFits, Local, Stepped, Failed, Moved, Became,
     ListsKept, ChecksNext, Released, Left, SavesOnly
<1>3. Terminal(j) \in JobStates
  <2>1. task[j].st \in {"completed", "failed"}
    BY <1>1, SaveAgainMoves DEF TaskFits, Tasks
  <2> QED BY <1>1, <2>1, FinishedFacts DEF Terminal
<1>4. PICK out \in Outcomes : SaveJob(j, Terminal(j), out, TRUE)
  BY SaveAgainMoves
<1> QED BY <1>1, <1>2, <1>3, <1>4, SaveFacts

\* recoverInterruptedJobStates leaves nothing running.
LEMMA RecoveredFacts ==
    ASSUME NEW s \in JobStates, clock \in Nat
    PROVE  LET u == Recovered(s)
               cut == Interrupted(s.restore, 0)
           IN
           /\ u \in JobStates /\ u.ok = s.ok /\ u.sched = s.sched
           /\ \A f \in StatusFields : u[f].st # "running"
           /\ u.restore = cut /\ cut \in Results
           /\ s.restore.st = "running" => cut.st = "failed"
           /\ s.restore.st # "running" => cut = s.restore
           /\ u.hist = IF s.restore.st = "running" THEN Prepend(s.hist, cut) ELSE s.hist
<1>1. ASSUME NEW r \in Results, NEW t \in Int
      PROVE  /\ Interrupted(r, t) \in Results /\ Interrupted(r, t).st # "running"
             /\ r.st = "running" => Interrupted(r, t).st = "failed"
             /\ r.st # "running" => Interrupted(r, t) = r
  BY DEF Interrupted, Results
<1> DEFINE u == Recovered(s)
           run == Interrupted(s.run, clock)
           drill == Interrupted(s.drill, clock)
           verify == Interrupted(s.verify, 0)
           check == Interrupted(s.check, 0)
           cut == Interrupted(s.restore, 0)
           hist == IF s.restore.st = "running" THEN Prepend(s.hist, cut) ELSE s.hist
<1>2. /\ s.run \in Results /\ s.drill \in Results /\ s.verify \in Results /\ s.check \in Results
      /\ s.restore \in Results /\ s.hist \in Seq(Results)
  BY DEF JobStates
<1>3. u = [s EXCEPT !.run = run, !.drill = drill, !.verify = verify, !.check = check,
                    !.restore = cut, !.hist = hist]
  BY DEF Recovered
<1>4. /\ run \in Results /\ drill \in Results /\ verify \in Results /\ check \in Results
      /\ cut \in Results
  BY <1>1, <1>2
<1>5. hist \in Seq(Results)
  <2> HIDE DEF cut
  <2> QED BY <1>2, <1>4, PrependFacts
<1>6. /\ run.st # "running" /\ drill.st # "running" /\ verify.st # "running"
      /\ check.st # "running" /\ cut.st # "running"
      /\ s.restore.st = "running" => cut.st = "failed"
      /\ s.restore.st # "running" => cut = s.restore
  BY <1>1, <1>2
<1>7. hist = IF s.restore.st = "running" THEN Prepend(s.hist, cut) ELSE s.hist
  OBVIOUS
<1> HIDE DEF run, drill, verify, check, cut, hist, u
<1>8. /\ u \in JobStates /\ u.ok = s.ok /\ u.sched = s.sched /\ u.run = run /\ u.drill = drill
      /\ u.verify = verify /\ u.check = check /\ u.restore = cut /\ u.hist = hist
  BY <1>3, <1>4, <1>5 DEF JobStates
<1>9. \A f \in StatusFields : u[f].st # "running"
  BY <1>6, <1>8 DEF StatusFields
<1> QED BY <1>4, <1>6, <1>7, <1>8, <1>9 DEF u, cut

LEMMA OperationTypes ==
    ASSUME BackupTypes, NEW j \in Jobs, Operation(j)
    PROVE  BackupTypes'
<1>1. StoresTyped /\ StatesTyped /\ PlansTyped /\ TasksTyped /\ ops \in Nat
  BY DEF BackupTypes, PlansTyped
<1>2. ASSUME Onward(j), ops' = ops, manager' = "down" <=> manager = "down" PROVE TasksTyped'
  BY <1>1, <1>2, FitsAfterMove DEF Onward
<1>3. ASSUME SavesOnly PROVE StoresTyped' /\ PlansTyped' /\ ops' = ops
  BY <1>1, <1>3 DEF SavesOnly, StoresTyped, PlansTyped
<1>4. ASSUME SavesNothing PROVE /\ StatesTyped' /\ ops' = ops /\ manager' = manager
                                /\ lastWork' \in [Jobs -> Nat \cup {None}] => PlansTyped'
  BY <1>1, <1>4 DEF SavesNothing, StatesTyped, PlansTyped, stateVars
<1>5. CASE LockTarget(j)
  <2>1. Onward(j) /\ StoresTyped' /\ SavesNothing
    BY <1>5, LockTargetFits
  <2>2. lastWork' \in [Jobs -> Nat \cup {None}]
    BY <1>1, <1>5, LockTargetMoves DEF PlansTyped, Tasks
  <2> QED BY <1>2, <1>4, <2>1, <2>2 DEF BackupTypes
<1>6. ASSUME Quiet, Onward(j), StoresTyped' PROVE BackupTypes'
  <2>1. lastWork' \in [Jobs -> Nat \cup {None}]
    BY <1>1, <1>6 DEF PlansTyped, Quiet
  <2> QED BY <1>2, <1>4, <1>6, <2>1 DEF BackupTypes, Quiet
<1>7. CASE Recheck(j) \/ CopySource(j) \/ FinalizeSnapshot(j) \/ SyncSnapshot(j) \/ CheckManifest(j)
  BY <1>6, <1>7, RecheckFits, CopySourceFits, FinalizeSnapshotFits, SyncSnapshotFits,
     CheckManifestFits, RecheckMoves, CopySourceMoves, FinalizeSnapshotMoves, SyncSnapshotMoves,
     CheckManifestMoves
<1>8. CASE \/ ListSnapshots(j) \/ RemoveSnapshot(j) \/ SyncRetention(j) \/ CheckRetention(j)
           \/ Drill(j) \/ StageRestore(j) \/ Install(j)
  BY <1>6, <1>8, ListSnapshotsFits, RemoveSnapshotFits, SyncRetentionFits, CheckRetentionFits,
     DrillFits, StageRestoreFits, InstallFits, ListSnapshotsMoves, RemoveSnapshotMoves,
     SyncRetentionMoves, CheckRetentionMoves, DrillMoves, StageRestoreMoves, InstallMoves
<1>9. CASE \/ VerifyTarget(j) \/ CaptureCredentials(j) \/ RemoteBackup(j) \/ RemoteDrill(j)
           \/ RemoteRestore(j)
  BY <1>6, <1>9, VerifyTargetFits, CaptureCredentialsFits, RemoteBackupFits, RemoteDrillFits,
     RemoteRestoreFits, VerifyTargetMoves, CaptureCredentialsMoves, RemoteBackupMoves,
     RemoteDrillMoves, RemoteRestoreMoves
<1>10. CASE \/ SaveRunning(j) \/ SaveUndo(j) \/ SaveFailed(j) \/ SaveCompleted(j) \/ SaveFinal(j)
            \/ SaveResult(j) \/ SaveAgain(j)
  <2>1. Onward(j) /\ SavesOnly /\ StatesTyped' /\ (manager' = "down" <=> manager = "down")
    BY <1>10, SaveRunningFits, SaveUndoFits, SaveFailedFits, SaveCompletedFits, SaveFinalFits,
       SaveResultFits, SaveAgainFits
  <2> QED BY <1>2, <1>3, <2>1 DEF BackupTypes
<1> QED BY <1>5, <1>7, <1>8, <1>9, <1>10 DEF Operation

\* An operation begins: what the request, the scheduler or a batch does.
LEMMA BegunTypes ==
    ASSUME BackupTypes, NEW j \in Jobs, NEW kind \in Kinds, NEW trig, Begun(j, kind, trig),
           manager' = manager, trig = "scheduled" => kind = "backup", kind # "aftercheck"
    PROVE  TasksTyped'
<1>1. ASSUME NEW k \in Jobs, task'[k] \in Tasks PROVE TaskFits(k, task[k])'
  <2>1. CASE k = j
    BY <2>1 DEF Begun, TaskFits, Local, BackupTypes, PlansTyped
  <2>2. CASE k # j
    <3>1. /\ task'[k] = task[k] /\ TaskFits(k, task[k]) /\ task[k].id \in Nat /\ ops \in Nat
          /\ ops' = ops + 1
      BY <1>1, <2>2 DEF BackupTypes, TasksTyped, PlansTyped, Tasks, Begun
    <3> QED BY <3>1 DEF TaskFits, Local
  <2> QED BY <2>1, <2>2
<1> QED BY <1>1 DEF TasksTyped, Begun

LEMMA NothingBegins ==
    ASSUME TasksTyped, task' = task, ops' = ops, manager' # "down" \/ manager = "down"
    PROVE  TasksTyped'
  BY DEF TasksTyped, TaskFits, Local

LEMMA EverythingStops ==
    ASSUME task' = [j \in Jobs |-> Free]
    PROVE  TasksTyped'
  BY FreeIsNoTask DEF TasksTyped

LEMMA SchedulerTypes ==
    ASSUME BackupTypes, NEW j \in Jobs,
           \/ \E kind \in {"backup", "drill", "restore", "verify", "check"} : Request(j, kind)
           \/ RunDue(j) \/ Remind(j) \/ CheckReadiness(j) \/ TakeTarget(j)
    PROVE  BackupTypes'
<1> USE DEF BackupTypes
<1>1. ASSUME NEW kind \in {"backup", "drill", "restore", "verify", "check"}, Request(j, kind)
      PROVE  BackupTypes'
  <2>1. Begun(j, kind, "manual") /\ kind \in Kinds
    BY <1>1, BeginMoves DEF Request, Kinds
  <2>2. TasksTyped'
    BY <1>1, <2>1, BegunTypes DEF Request
  <2>3. StatesTyped' /\ StoresTyped' /\ PlansTyped'
    BY <1>1, <2>1 DEF Request, StatesTyped, StoresTyped, PlansTyped, stateVars, storeVars, outside,
                      planVars, Begun
  <2> QED BY <2>2, <2>3
<1>2. CASE RunDue(j)
  <2>1. StatesTyped' /\ StoresTyped' /\ manager' = manager /\ UNCHANGED <<batch, lastWork, clock>>
    BY <1>2 DEF RunDue, StatesTyped, StoresTyped, stateVars, storeVars, outside
  <2>2. CASE BeginJob(j, "backup", "scheduled")
    <3>1. Begun(j, "backup", "scheduled")
      BY <2>2, BeginMoves DEF Kinds
    <3>2. TasksTyped'
      BY <2>1, <3>1, BegunTypes DEF Kinds
    <3>3. PlansTyped'
      BY <1>2, <2>1, <3>1 DEF RunDue, PlansTyped, Begun
    <3> QED BY <2>1, <3>2, <3>3
  <2>3. CASE UNCHANGED <<task, ops>>
    <3>1. TasksTyped'
      BY <2>1, <2>3, NothingBegins
    <3>2. PlansTyped'
      BY <1>2, <2>1, <2>3 DEF RunDue, PlansTyped
    <3> QED BY <2>1, <3>1, <3>2
  <2> QED BY <1>2, <2>2, <2>3 DEF RunDue
<1>3. CASE Remind(j)
  <2> DEFINE s == [memState[j] EXCEPT !.remind = clock]
  <2>1. s \in JobStates
    <3>1. memState[j] \in JobStates /\ clock \in Marks
      BY DEF StatesTyped, PlansTyped, Marks
    <3> QED BY <3>1 DEF JobStates
  <2>2. PICK out \in Outcomes : SaveJob(j, s, out, FALSE)
    BY <1>3 DEF Remind
  <2> HIDE DEF s
  <2>3. StatesTyped' /\ (manager' = "down" <=> manager = "down")
    BY <2>1, <2>2, SaveFacts
  <2>4. TasksTyped'
    BY <1>3, <2>3, NothingBegins DEF Remind
  <2>5. StoresTyped' /\ PlansTyped'
    BY <1>3 DEF Remind, StoresTyped, PlansTyped, storeVars, outside, planVars
  <2> QED BY <2>3, <2>4, <2>5
<1>4. CASE CheckReadiness(j)
  <2>1. TasksTyped'
    BY <1>4, NothingBegins DEF CheckReadiness
  <2> QED BY <1>4, <2>1 DEF CheckReadiness, StatesTyped, StoresTyped, PlansTyped, stateVars, storeVars,
                           outside, planVars
<1>5. CASE TakeTarget(j)
  <2>1. TasksTyped'
    BY <1>5, NothingBegins DEF TakeTarget
  <2> QED BY <1>5, <2>1 DEF TakeTarget, StatesTyped, StoresTyped, PlansTyped, stateVars, storeVars,
                           planVars, Marks
<1> QED BY <1>1, <1>2, <1>3, <1>4, <1>5

LEMMA BatchTypes ==
    ASSUME BackupTypes, ListDue \/ StartBatch \/ PreviewNext \/ RestoreNext \/ VerifyNext
    PROVE  BackupTypes'
<1> USE DEF BackupTypes
<1>1. StatesTyped' /\ StoresTyped' /\ UNCHANGED <<manager, lastWork, clock>>
  BY DEF ListDue, StartBatch, PreviewNext, RestoreNext, VerifyNext, StatesTyped, StoresTyped,
         stateVars, storeVars, outside
<1>2. CASE ListDue
  BY <1>1, <1>2, NothingBegins DEF ListDue, PlansTyped
<1>3. CASE StartBatch
  <2>1. TasksTyped'
    BY <1>1, <1>3, NothingBegins DEF StartBatch
  <2>2. PICK j \in Jobs, k \in Jobs :
          batch' = [phase |-> "preview", todo |-> IF j = k THEN <<j>> ELSE <<j, k>>,
                    rest |-> IF j = k THEN <<j>> ELSE <<j, k>>, id |-> 0]
    BY <1>3 DEF StartBatch
  <2> DEFINE items == IF j = k THEN <<j>> ELSE <<j, k>>
  <2>3. items \in Seq(Jobs)
    OBVIOUS
  <2>4. batch' = [phase |-> "preview", todo |-> items, rest |-> items, id |-> 0]
    BY <2>2
  <2> HIDE DEF items
  <2>5. batch' \in Batches /\ batch'.phase = "preview"
    BY <2>3, <2>4 DEF Batches
  <2> QED BY <1>1, <1>3, <2>1, <2>5 DEF StartBatch, PlansTyped
<1>4. NoBatch \in Batches /\ NoBatch.phase = "none"
  BY DEF NoBatch, Batches
<1>5. CASE PreviewNext
  <2>1. TasksTyped'
    BY <1>1, <1>5, NothingBegins DEF PreviewNext
  <2>2. batch' \in Batches /\ batch'.phase # "verify"
    <3>1. CASE batch' = NoBatch
      BY <1>4, <3>1
    <3>2. CASE batch' = [batch EXCEPT !.phase = "restore"]
      BY <3>2 DEF PlansTyped, Batches
    <3>3. CASE batch.rest # <<>> /\ batch' = [batch EXCEPT !.rest = Tail(@)]
      <4>1. Tail(batch.rest) \in Seq(Jobs)
        BY <3>3 DEF PlansTyped, Batches
      <4> QED BY <1>5, <3>3, <4>1 DEF PlansTyped, Batches, PreviewNext
    <3> QED BY <1>5, <3>1, <3>2, <3>3 DEF PreviewNext
  <2> QED BY <1>1, <1>5, <2>1, <2>2 DEF PreviewNext, PlansTyped
<1>6. batch \in Batches /\ batch.todo \in Seq(Jobs) /\ ops \in Nat
  BY DEF PlansTyped, Batches
<1>7. CASE RestoreNext
  <2>1. CASE batch.todo = <<>> /\ batch' = NoBatch /\ UNCHANGED <<task, ops>>
    BY <1>1, <1>4, <1>7, <2>1, NothingBegins DEF RestoreNext, PlansTyped
  <2>2. CASE /\ batch.todo # <<>> /\ BeginJob(Head(batch.todo), "restore", "batch")
             /\ batch' = [batch EXCEPT !.phase = "verify", !.id = ops + 1]
    <3>1. Head(batch.todo) \in Jobs
      BY <1>6, <2>2
    <3>2. Begun(Head(batch.todo), "restore", "batch")
      BY <2>2, <3>1, BeginMoves DEF Kinds
    <3>3. TasksTyped'
      BY <1>1, <3>1, <3>2, BegunTypes DEF Kinds
    <3>4. batch' \in Batches /\ batch'.todo = batch.todo
      <4> DEFINE n == ops + 1
      <4>1. batch' = [batch EXCEPT !.phase = "verify", !.id = n] /\ n \in Nat
        BY <1>6, <2>2
      <4> HIDE DEF n
      <4>2. batch \in Batches
        BY <1>6
      <4> QED BY <4>1, <4>2 DEF Batches
    <3> QED BY <1>1, <1>6, <1>7, <2>2, <3>2, <3>3, <3>4 DEF RestoreNext, PlansTyped, Begun
  <2>3. CASE /\ batch.todo # <<>> /\ batch' = [batch EXCEPT !.todo = Tail(@)]
             /\ UNCHANGED <<task, ops>>
    <3>1. Tail(batch.todo) \in Seq(Jobs)
      BY <1>6, <2>3
    <3>2. batch' \in Batches /\ batch'.phase = "restore"
      BY <1>6, <1>7, <2>3, <3>1 DEF Batches, RestoreNext
    <3> QED BY <1>1, <1>7, <2>3, <3>2, NothingBegins DEF RestoreNext, PlansTyped
  <2> QED BY <1>7, <2>1, <2>2, <2>3 DEF RestoreNext
<1>8. CASE VerifyNext
  <2>1. batch.todo # <<>> /\ Head(batch.todo) \in Jobs /\ Tail(batch.todo) \in Seq(Jobs)
    BY <1>6, <1>8 DEF VerifyNext, PlansTyped
  <2>2. batch' \in Batches /\ batch'.phase = "restore" /\ UNCHANGED dueList
    BY <1>6, <1>8, <2>1 DEF VerifyNext, Batches
  <2>3. CASE BeginJob(Head(batch.todo), "verify", "batch")
    <3>1. Begun(Head(batch.todo), "verify", "batch")
      BY <2>1, <2>3, BeginMoves DEF Kinds
    <3>2. TasksTyped'
      BY <1>1, <2>1, <3>1, BegunTypes DEF Kinds
    <3> QED BY <1>1, <1>6, <2>2, <3>1, <3>2 DEF PlansTyped, Begun
  <2>4. CASE UNCHANGED <<task, ops>>
    BY <1>1, <2>2, <2>4, NothingBegins DEF PlansTyped
  <2> QED BY <1>8, <2>3, <2>4 DEF VerifyNext
<1> QED BY <1>2, <1>3, <1>5, <1>7, <1>8

LEMMA ManagerTypes ==
    ASSUME BackupTypes, Close \/ ReleaseStateLock \/ Open \/ Kill \/ PowerLoss \/ Damage \/ Tick
    PROVE  BackupTypes'
<1> USE DEF BackupTypes
<1>1. [j \in Jobs |-> NoJobState] \in [Jobs -> JobStates]
  BY NoJobStateTyped
<1>2. NoBatch \in Batches /\ NoBatch.phase = "none"
  BY DEF NoBatch, Batches
<1>3. CASE Close
  <2>1. TasksTyped'
    BY <1>3, NothingBegins DEF Close
  <2> QED BY <1>3, <2>1 DEF Close, StatesTyped, StoresTyped, PlansTyped, stateVars, storeVars, outside,
                           planVars
<1>4. CASE ReleaseStateLock
  <2>1. TasksTyped'
    BY <1>4 DEF ReleaseStateLock, TasksTyped, TaskFits, Local, Held
  <2>2. StatesTyped'
    BY <1>1, <1>4 DEF ReleaseStateLock, StatesTyped
  <2> QED BY <1>2, <1>4, <2>1, <2>2 DEF ReleaseStateLock, StoresTyped, PlansTyped, storeVars, outside
<1>5. CASE Open
  <2>1. TasksTyped'
    BY <1>5, NothingBegins DEF Open
  <2>2. [j \in Jobs |-> Recovered(fileState[j])] \in [Jobs -> JobStates]
    BY RecoveredFacts DEF StatesTyped, PlansTyped
  <2>3. StatesTyped'
    BY <1>5, <2>2 DEF Open, StatesTyped
  <2> QED BY <1>5, <2>1, <2>3 DEF Open, StoresTyped, PlansTyped, storeVars, outside, planVars
<1>6. CASE Kill
  <2>1. TasksTyped'
    BY <1>6, EverythingStops DEF Kill, Stopped
  <2>2. StatesTyped' /\ PlansTyped'
    BY <1>1, <1>2, <1>6 DEF Kill, Stopped, StatesTyped, PlansTyped
  <2>3. PICK cut \in {{}} \cup {Snap(s.job, s.id) :
                               s \in UNION {task[j].todo : j \in {k \in Jobs : Held(k)}}} :
          /\ snaps' = (snaps \ cut) \cup Torn(cut)
          /\ snapsKept' = (snapsKept \ cut) \cup Torn(cut \cap snapsKept)
    BY <1>6 DEF Kill, Tear
  <2>4. cut \subseteq SnapRecords
    BY <2>3 DEF Snap, StoresTyped
  <2>5. StoresTyped'
    <3>1. Torn(cut) \subseteq SnapRecords /\ Torn(cut \cap snapsKept) \subseteq SnapRecords
      BY <2>4, TornTyped
    <3> QED BY <1>6, <2>3, <3>1 DEF Kill, StoresTyped, outside
  <2> QED BY <2>1, <2>2, <2>5
<1>7. CASE PowerLoss
  <2>1. TasksTyped'
    BY <1>7, EverythingStops DEF PowerLoss, Stopped
  <2>2. StatesTyped' /\ PlansTyped'
    BY <1>1, <1>2, <1>7 DEF PowerLoss, Stopped, StatesTyped, PlansTyped
  <2>3. snaps' \subseteq SnapRecords /\ snapsKept' \subseteq SnapRecords
    <3>1. PICK new \in SUBSET (snaps \ snapsKept), back \in SUBSET (snapsKept \ snaps),
               part \in SUBSET (snapsKept \ snaps) :
            /\ snaps' = (snaps \cap snapsKept) \cup new \cup back \cup Torn(part)
            /\ snapsKept' = snaps'
      BY <1>7 DEF PowerLoss
    <3>2. Torn(part) \subseteq SnapRecords
      BY TornTyped DEF StoresTyped
    <3> QED BY <3>1, <3>2 DEF StoresTyped
  <2>4. target' \in [Jobs -> Marks]
    BY <1>7 DEF PowerLoss, StoresTyped, Marks, Lost
  <2> QED BY <1>7, <2>1, <2>2, <2>3, <2>4 DEF PowerLoss, StoresTyped
<1>8. CASE Damage
  <2>1. TasksTyped'
    BY <1>8, NothingBegins DEF Damage
  <2> QED BY <1>8, <2>1 DEF Damage, StatesTyped, StoresTyped, PlansTyped, stateVars, outside, planVars,
                           SnapRecords
<1>9. CASE Tick
  <2>1. TasksTyped'
    BY <1>9, NothingBegins DEF Tick
  <2>2. clock' \in Nat
    BY <1>9 DEF Tick, PlansTyped
  <2> QED BY <1>9, <2>1, <2>2 DEF Tick, StatesTyped, StoresTyped, PlansTyped, stateVars, storeVars, outside,
                           planVars
<1> QED BY <1>3, <1>4, <1>5, <1>6, <1>7, <1>8, <1>9

LEMMA BackupTypesInit == BackupInit => BackupTypes
<1> SUFFICES ASSUME BackupInit PROVE BackupTypes
  OBVIOUS
<1>1. StatesTyped
  BY NoJobStateTyped DEF BackupInit, StatesTyped
<1>2. NoBatch \in Batches /\ NoBatch.phase = "none"
  BY DEF NoBatch, Batches
<1>3. StoresTyped /\ PlansTyped
  BY <1>2 DEF BackupInit, StoresTyped, PlansTyped, Marks
<1>4. TasksTyped
  BY FreeIsNoTask DEF BackupInit, TasksTyped
<1> QED BY <1>1, <1>3, <1>4 DEF BackupTypes

LEMMA BackupTypesStep == BackupTypes /\ [BackupNext]_backupVars => BackupTypes'
<1> SUFFICES ASSUME BackupTypes, [BackupNext]_backupVars PROVE BackupTypes'
  OBVIOUS
<1>1. CASE UNCHANGED backupVars
  BY <1>1 DEF backupVars, stateVars, storeVars, outside, planVars, BackupTypes, StatesTyped, StoresTyped,
              PlansTyped, TasksTyped, TaskFits, Local
<1> QED BY <1>1, OperationTypes, SchedulerTypes, BatchTypes, ManagerTypes DEF BackupNext
-----------------------------------------------------------------------------
(* What a step of one job does to the others                                *)

Aside(j) ==
    /\ \A k \in Jobs \ {j} :
        /\ task'[k] = task[k] /\ memState'[k] = memState[k]
        /\ fileState'[k] \in {fileState[k], memState[k]}
        /\ fileKept'[k] \in {fileKept[k], memState[k]}
        /\ target'[k] = target[k] /\ lastWork'[k] = lastWork[k]
    /\ \A s \in SnapRecords : s.job # j =>
        (s \in snaps' <=> s \in snaps) /\ (s \in snapsKept' <=> s \in snapsKept)
    /\ ops' >= ops /\ clock' = clock

LEMMA WorkAside ==
    ASSUME BackupTypes, NEW j \in Jobs,
           \/ LockTarget(j) \/ Recheck(j) \/ CopySource(j) \/ FinalizeSnapshot(j) \/ SyncSnapshot(j)
           \/ CheckManifest(j) \/ ListSnapshots(j) \/ RemoveSnapshot(j) \/ SyncRetention(j)
           \/ CheckRetention(j) \/ Drill(j) \/ StageRestore(j) \/ Install(j) \/ VerifyTarget(j)
           \/ CaptureCredentials(j) \/ RemoteBackup(j) \/ RemoteDrill(j) \/ RemoteRestore(j)
    PROVE  Aside(j) /\ SavesNothing
<1>1. Onward(j) /\ SavesNothing
  BY LockTargetFits, RecheckFits, CopySourceFits, FinalizeSnapshotFits, SyncSnapshotFits,
     CheckManifestFits, ListSnapshotsFits, RemoveSnapshotFits, SyncRetentionFits,
     CheckRetentionFits, DrillFits, StageRestoreFits, InstallFits, VerifyTargetFits,
     CaptureCredentialsFits, RemoteBackupFits, RemoteDrillFits, RemoteRestoreFits
<1>2. /\ \A k \in Jobs \ {j} :
           /\ task'[k] = task[k] /\ memState'[k] = memState[k]
           /\ fileState'[k] = fileState[k] /\ fileKept'[k] = fileKept[k]
      /\ ops' >= ops /\ clock' = clock
  BY <1>1 DEF Onward, SavesNothing, stateVars, BackupTypes, PlansTyped
<1>3. \A k \in Jobs \ {j} : lastWork'[k] = lastWork[k]
  BY LockTargetMoves, RecheckMoves, CopySourceMoves, FinalizeSnapshotMoves, SyncSnapshotMoves,
     CheckManifestMoves, ListSnapshotsMoves, RemoveSnapshotMoves, SyncRetentionMoves,
     CheckRetentionMoves, DrillMoves, StageRestoreMoves, InstallMoves, VerifyTargetMoves,
     CaptureCredentialsMoves, RemoteBackupMoves, RemoteDrillMoves, RemoteRestoreMoves
  DEF Quiet, BackupTypes, PlansTyped
<1>4. \A k \in Jobs \ {j} : target'[k] = target[k]
  BY LockTargetMoves, RecheckMoves, CopySourceMoves, FinalizeSnapshotMoves, SyncSnapshotMoves,
     CheckManifestMoves, ListSnapshotsMoves, RemoveSnapshotMoves, SyncRetentionMoves,
     CheckRetentionMoves, DrillMoves, StageRestoreMoves, InstallMoves, VerifyTargetMoves,
     CaptureCredentialsMoves, RemoteBackupMoves, RemoteDrillMoves, RemoteRestoreMoves
  DEF BackupTypes, StoresTyped
<1>5. ASSUME NEW s \in SnapRecords, s.job # j
      PROVE (s \in snaps' <=> s \in snaps) /\ (s \in snapsKept' <=> s \in snapsKept)
  <2>1. CASE FinalizeSnapshot(j)
    BY <1>5, <2>1, FinalizeSnapshotMoves
  <2>2. CASE SyncSnapshot(j)
    BY <1>5, <2>2, SyncSnapshotMoves DEF Current, Snap
  <2>3. CASE CheckManifest(j)
    BY <1>5, <2>3, CheckManifestMoves DEF LessOf
  <2>4. CASE RemoveSnapshot(j)
    BY <1>5, <2>4, RemoveSnapshotMoves DEF LessOf
  <2>5. CASE SyncRetention(j)
    BY <1>5, <2>5, SyncRetentionMoves
  <2> QED
    BY <2>1, <2>2, <2>3, <2>4, <2>5, LockTargetMoves, RecheckMoves, CopySourceMoves,
       ListSnapshotsMoves, CheckRetentionMoves, DrillMoves, StageRestoreMoves, InstallMoves,
       VerifyTargetMoves, CaptureCredentialsMoves, RemoteBackupMoves, RemoteDrillMoves,
       RemoteRestoreMoves
<1> QED BY <1>1, <1>2, <1>3, <1>4, <1>5 DEF Aside

LEMMA SaveAside ==
    ASSUME BackupTypes, NEW j \in Jobs,
           \/ SaveRunning(j) \/ SaveUndo(j) \/ SaveFailed(j) \/ SaveCompleted(j) \/ SaveFinal(j)
           \/ SaveResult(j) \/ SaveAgain(j)
    PROVE  Aside(j) /\ SavesOnly
<1>1. /\ Onward(j) /\ SavesOnly
      /\ \A k \in Jobs \ {j} :
           /\ memState'[k] = memState[k]
           /\ fileState'[k] \in {fileState[k], memState[k]}
           /\ fileKept'[k] \in {fileKept[k], memState[k]}
  BY SaveRunningFits, SaveUndoFits, SaveFailedFits, SaveCompletedFits, SaveFinalFits,
     SaveResultFits, SaveAgainFits
<1> QED BY <1>1 DEF Aside, Onward, SavesOnly, BackupTypes, PlansTyped

LEMMA BegunAside ==
    ASSUME BackupTypes, NEW j, NEW kind, NEW trig, Begun(j, kind, trig),
           UNCHANGED <<memState, fileState, fileKept, target, lastWork, snaps, snapsKept, clock>>
    PROVE  Aside(j)
  BY DEF Aside, Begun, BackupTypes, PlansTyped

\* The reminder's record.
LEMMA RemindMoves ==
    ASSUME BackupTypes, NEW j \in Jobs, Remind(j)
    PROVE  /\ Aside(j) /\ SavesOnly /\ task' = task /\ manager = "open" /\ manager' # "down"
           /\ \E s \in JobStates :
                /\ \A f \in StatusFields : s[f] = memState[j][f]
                /\ s.ok = memState[j].ok /\ s.hist = memState[j].hist /\ s.sched = memState[j].sched
                /\ s.restore = memState[j].restore
                /\ memState'[j] \in {memState[j], s}
                /\ fileState'[j] \in {fileState[j], s}
                /\ fileKept'[j] \in {fileKept[j], s}
<1> DEFINE s == [memState[j] EXCEPT !.remind = clock]
<1>1. memState[j] \in JobStates /\ clock \in Marks /\ StatesTyped
  BY DEF BackupTypes, StatesTyped, PlansTyped, Marks
<1>2. /\ s \in JobStates /\ s.ok = memState[j].ok /\ s.hist = memState[j].hist
      /\ s.sched = memState[j].sched /\ s.run = memState[j].run /\ s.restore = memState[j].restore
      /\ s.drill = memState[j].drill /\ s.verify = memState[j].verify
      /\ s.check = memState[j].check
  BY <1>1 DEF JobStates
<1>3. \A f \in StatusFields : s[f] = memState[j][f]
  BY <1>2 DEF StatusFields
<1>4. PICK out \in Outcomes : SaveJob(j, s, out, FALSE)
  BY DEF Remind
<1>5. SavesOnly /\ task' = task /\ manager = "open"
  BY DEF Remind, SavesOnly, storeVars, outside, planVars
<1> HIDE DEF s
<1>6. /\ manager' # "down" /\ memState'[j] \in {memState[j], s}
      /\ fileState'[j] \in {fileState[j], s} /\ fileKept'[j] \in {fileKept[j], s}
      /\ \A k \in Jobs \ {j} :
           /\ memState'[k] = memState[k]
           /\ fileState'[k] \in {fileState[k], memState[k]}
           /\ fileKept'[k] \in {fileKept[k], memState[k]}
  BY <1>1, <1>2, <1>4, <1>5, SaveFacts
<1>7. Aside(j)
  BY <1>5, <1>6 DEF Aside, SavesOnly, BackupTypes, PlansTyped
<1> QED BY <1>2, <1>3, <1>5, <1>6, <1>7

-----------------------------------------------------------------------------
(* Nobody's result says running                                             *)

\* A result that says running is the one of the operation at work, after its
\* first save and before its last.
JobSettled(j) ==
    \A f \in StatusFields : memState[j][f].st = "running" =>
        /\ task[j] \in Tasks /\ f = FieldOf(task[j].kind)
        /\ task[j].at \notin {"begun", "final", "retention", "prune"}
SettledInv == BackupTypes /\ \A j \in Jobs : JobSettled(j)

LEMMA WorkSettled ==
    ASSUME BackupTypes, NEW j \in Jobs, JobSettled(j),
           \/ LockTarget(j) \/ Recheck(j) \/ CopySource(j) \/ FinalizeSnapshot(j) \/ SyncSnapshot(j)
           \/ CheckManifest(j) \/ ListSnapshots(j) \/ RemoveSnapshot(j) \/ SyncRetention(j)
           \/ CheckRetention(j) \/ Drill(j) \/ StageRestore(j) \/ Install(j) \/ VerifyTarget(j)
           \/ CaptureCredentials(j) \/ RemoteBackup(j) \/ RemoteDrill(j) \/ RemoteRestore(j)
    PROVE  JobSettled(j)'
<1>1. memState' = memState
  BY WorkAside DEF SavesNothing, stateVars
<1>2. CASE ListSnapshots(j) \/ RemoveSnapshot(j) \/ SyncRetention(j)
  <2>1. task[j].at \in {"retention", "prune"}
    BY <1>2, ListSnapshotsMoves, RemoveSnapshotMoves, SyncRetentionMoves
  <2> QED BY <1>1, <2>1 DEF JobSettled
<1>3. ASSUME NEW at \in {"work", "recheck", "rename", "sync", "evidence", "install", "command",
                         "finish"},
             NEW st, NEW snap, Moved(j, at, st, snap)
      PROVE  JobSettled(j)'
  BY <1>1, <1>3 DEF JobSettled, Moved, Became
<1>4. CASE \/ LockTarget(j) \/ Recheck(j) \/ CopySource(j) \/ FinalizeSnapshot(j) \/ SyncSnapshot(j)
           \/ CheckManifest(j)
  BY <1>3, <1>4, LockTargetMoves, RecheckMoves, CopySourceMoves, FinalizeSnapshotMoves,
     SyncSnapshotMoves, CheckManifestMoves DEF Stepped, Failed, Completed
<1>5. CASE CheckRetention(j) \/ Drill(j) \/ StageRestore(j) \/ Install(j) \/ VerifyTarget(j)
  BY <1>3, <1>5, CheckRetentionMoves, DrillMoves, StageRestoreMoves, InstallMoves,
     VerifyTargetMoves DEF Stepped, Failed, Completed
<1>6. CASE CaptureCredentials(j) \/ RemoteBackup(j) \/ RemoteDrill(j) \/ RemoteRestore(j)
  BY <1>3, <1>6, CaptureCredentialsMoves, RemoteBackupMoves, RemoteDrillMoves,
     RemoteRestoreMoves DEF Stepped, Failed, Completed
<1> QED BY <1>2, <1>4, <1>5, <1>6

LEMMA FinishedSettles ==
    ASSUME BackupTypes, NEW j \in Jobs, JobSettled(j), task[j] \in Tasks,
           NEW st \in {"completed", "failed"}
    PROVE  \A f \in StatusFields :
             Updated(memState[j], task[j].kind, ResultOf(j, st))[f].st # "running"
  BY FinishedFacts DEF JobSettled

LEMMA SaveSettled ==
    ASSUME BackupTypes, NEW j \in Jobs, JobSettled(j),
           \/ SaveRunning(j) \/ SaveUndo(j) \/ SaveFailed(j) \/ SaveCompleted(j) \/ SaveFinal(j)
           \/ SaveResult(j) \/ SaveAgain(j)
    PROVE  JobSettled(j)'
<1>1. StatesTyped
  BY DEF BackupTypes
<1>2. CASE SaveRunning(j)
  <2>1. task[j] \in Tasks /\ task[j].at = "begun"
    BY <1>2, SaveRunningMoves
  <2>2. PICK out \in Outcomes :
          /\ SaveJob(j, RunningState(j), out, FALSE)
          /\ IF out = "ok"
             THEN Stepped(j, IF task[j].kind = "aftercheck" THEN "work" ELSE "lock")
             ELSE IF Applied(out) THEN Moved(j, "undo", "failed", task[j].snap) ELSE Left(j)
    BY <1>2, SaveRunningMoves
  <2>3. \A f \in StatusFields : memState[j][f].st # "running"
    BY <2>1 DEF JobSettled
  <2>4. /\ RunningState(j) \in JobStates
        /\ \A f \in StatusFields : RunningState(j)[f].st = "running" => f = FieldOf(task[j].kind)
    BY <2>1, <2>3, RunningFacts
  <2>5. memState'[j] = IF Applied(out) THEN RunningState(j) ELSE memState[j]
    BY <1>1, <2>2, <2>4, SaveFacts
  <2>6. CASE ~Applied(out)
    BY <2>3, <2>5, <2>6 DEF JobSettled
  <2>7. CASE Applied(out)
    <3>1. /\ task'[j] \in Tasks /\ task'[j].kind = task[j].kind
          /\ task'[j].at \in {"work", "lock", "undo"}
      BY <2>2, <2>7 DEF Stepped, Moved, Became
    <3> QED BY <2>4, <2>5, <2>7, <3>1 DEF JobSettled
  <2> QED BY <2>6, <2>7
<1>3. CASE SaveCompleted(j)
  <2>1. task[j] \in Tasks /\ task[j].st = "completed" /\ Terminal(j) \in JobStates
    BY <1>3, SaveCompletedMoves, FinishedFacts DEF Terminal
  <2>2. PICK out \in Outcomes :
          /\ SaveJob(j, Terminal(j), out, FALSE)
          /\ Applied(out) \/ Failed(j)
    BY <1>3, SaveCompletedMoves DEF Applied
  <2>3. memState'[j] = IF Applied(out) THEN Terminal(j) ELSE memState[j]
    BY <1>1, <2>1, <2>2, SaveFacts
  <2>4. CASE Applied(out)
    BY <2>1, <2>3, <2>4, FinishedSettles DEF JobSettled, Terminal
  <2>5. CASE ~Applied(out)
    <3>1. Failed(j)
      BY <2>2, <2>5
    <3> QED BY <2>3, <2>5, <3>1 DEF JobSettled, Failed, Moved, Became
  <2> QED BY <2>4, <2>5
<1>4. CASE SaveFinal(j)
  <2>1. task[j] \in Tasks /\ task[j].at = "final" /\ task[j].st = "completed" /\ Terminal(j) \in JobStates
    BY <1>4, SaveFinalMoves, FinishedFacts DEF Terminal, TaskFits
  <2>2. PICK out \in Outcomes : SaveJob(j, Terminal(j), out, FALSE)
    BY <1>4, SaveFinalMoves
  <2>3. memState'[j] \in {Terminal(j), memState[j]}
    BY <1>1, <2>1, <2>2, SaveFacts
  <2>4. \A f \in StatusFields : memState[j][f].st # "running"
    BY <2>1 DEF JobSettled
  <2> QED BY <2>1, <2>3, <2>4, FinishedSettles DEF JobSettled, Terminal
<1>5. ASSUME task[j] \in Tasks, NEW st \in {"completed", "failed"}, NEW out \in Outcomes,
             NEW rem \in BOOLEAN, Applied(out) \/ rem,
             SaveJob(j, Updated(memState[j], task[j].kind, ResultOf(j, st)), out, rem)
      PROVE  JobSettled(j)'
  <2> DEFINE s == Updated(memState[j], task[j].kind, ResultOf(j, st))
  <2>1. s \in JobStates /\ \A f \in StatusFields : s[f].st # "running"
    BY <1>5, FinishedFacts, FinishedSettles
  <2>2. SaveJob(j, s, out, rem)
    BY <1>5
  <2> HIDE DEF s
  <2>3. memState'[j] = s
    BY <1>1, <1>5, <2>1, <2>2, SaveFacts
  <2> QED BY <2>1, <2>3 DEF JobSettled
<1>6. CASE SaveUndo(j)
  BY <1>5, <1>6, SaveUndoMoves
<1>7. CASE SaveFailed(j)
  BY <1>5, <1>7, SaveFailedMoves DEF Terminal
<1>8. CASE SaveResult(j)
  <2>1. task[j] \in Tasks /\ task[j].st \in {"completed", "failed"}
    BY <1>8, SaveResultMoves DEF TaskFits, Tasks
  <2>2. PICK out \in Outcomes : SaveJob(j, Terminal(j), out, ~Applied(out))
    BY <1>8, SaveResultMoves
  <2> DEFINE rem == ~Applied(out)
  <2>3. rem \in BOOLEAN /\ (Applied(out) \/ rem) /\ SaveJob(j, Terminal(j), out, rem)
    BY <2>2
  <2> HIDE DEF rem
  <2> QED BY <1>5, <2>1, <2>3 DEF Terminal
<1>9. CASE SaveAgain(j)
  <2>1. task[j] \in Tasks /\ task[j].st \in {"completed", "failed"}
    BY <1>9, SaveAgainMoves DEF TaskFits, Tasks
  <2> QED BY <1>5, <1>9, <2>1, SaveAgainMoves DEF Terminal
<1> QED BY <1>2, <1>3, <1>4, <1>6, <1>7, <1>8, <1>9

LEMMA BegunSettled ==
    ASSUME NEW j \in Jobs, JobSettled(j), NEW kind, NEW trig, Begun(j, kind, trig), memState' = memState
    PROVE  JobSettled(j)'
  BY FreeIsNoTask DEF JobSettled, Begun

LEMMA AsideSettled ==
    ASSUME SettledInv, NEW j, Aside(j), j \in Jobs => JobSettled(j)'
    PROVE  \A k \in Jobs : JobSettled(k)'
  BY DEF SettledInv, JobSettled, Aside
-----------------------------------------------------------------------------
(* The steps of the manager by what they touch                              *)

Works(j) ==
    \/ LockTarget(j) \/ Recheck(j) \/ CopySource(j) \/ FinalizeSnapshot(j) \/ SyncSnapshot(j)
    \/ CheckManifest(j) \/ ListSnapshots(j) \/ RemoveSnapshot(j) \/ SyncRetention(j)
    \/ CheckRetention(j) \/ Drill(j) \/ StageRestore(j) \/ Install(j) \/ VerifyTarget(j)
    \/ CaptureCredentials(j) \/ RemoteBackup(j) \/ RemoteDrill(j) \/ RemoteRestore(j)
Saves(j) ==
    \/ SaveRunning(j) \/ SaveUndo(j) \/ SaveFailed(j) \/ SaveCompleted(j) \/ SaveFinal(j)
    \/ SaveResult(j) \/ SaveAgain(j)
Begins(j) ==
    /\ \E kind \in Kinds, trig \in {"manual", "scheduled", "batch"} :
         /\ kind # "aftercheck" /\ (trig = "scheduled" => kind = "backup")
         /\ Begun(j, kind, trig)
    /\ UNCHANGED <<manager, memState, fileState, fileKept, target, lastWork, snaps, snapsKept,
                   clock>>
Rests ==
    /\ UNCHANGED <<memState, fileState, fileKept, task, snaps, snapsKept, target, lastWork, ops>>
    /\ manager' = "down" <=> manager = "down"

LEMMA StepCases ==
    ASSUME BackupTypes, [BackupNext]_backupVars
    PROVE  \/ \E j \in Jobs : Works(j) \/ Saves(j) \/ Begins(j) \/ Remind(j) \/ TakeTarget(j)
           \/ Rests \/ ReleaseStateLock \/ Open \/ Kill \/ PowerLoss \/ Damage
<1> USE DEF stateVars, storeVars, outside, planVars
<1>1. CASE UNCHANGED backupVars
  BY <1>1 DEF backupVars, Rests
<1>2. ASSUME NEW j \in Jobs, NEW kind \in {"backup", "drill", "restore", "verify", "check"},
             Request(j, kind)
      PROVE  Begins(j)
  <2>1. Begun(j, kind, "manual") /\ kind \in Kinds
    BY <1>2, BeginMoves DEF Request, Kinds
  <2> QED BY <1>2, <2>1 DEF Request, Begins
<1>3. ASSUME NEW j \in Jobs, RunDue(j) PROVE Begins(j) \/ Rests
  <2>1. UNCHANGED <<manager, memState, fileState, fileKept, target, lastWork, snaps, snapsKept, clock>>
    BY <1>3 DEF RunDue
  <2>2. CASE BeginJob(j, "backup", "scheduled")
    <3>1. Begun(j, "backup", "scheduled") /\ "backup" \in Kinds
      BY <2>2, BeginMoves DEF Kinds
    <3> QED BY <2>1, <3>1 DEF Begins
  <2>3. CASE UNCHANGED <<task, ops>>
    BY <2>1, <2>3 DEF Rests
  <2> QED BY <1>3, <2>2, <2>3 DEF RunDue
<1>4. CASE \E j \in Jobs : CheckReadiness(j)
  BY <1>4 DEF CheckReadiness, Rests
<1>5. CASE ListDue \/ StartBatch \/ PreviewNext \/ Close \/ Tick
  BY <1>5 DEF ListDue, StartBatch, PreviewNext, Close, Tick, Rests
<1>6. CASE RestoreNext \/ VerifyNext
  <2>1. /\ UNCHANGED <<manager, memState, fileState, fileKept, target, lastWork, snaps, snapsKept,
                       clock>>
        /\ batch.todo \in Seq(Jobs)
    BY <1>6 DEF RestoreNext, VerifyNext, BackupTypes, PlansTyped, Batches
  <2>2. CASE UNCHANGED <<task, ops>>
    BY <2>1, <2>2 DEF Rests
  <2>3. ASSUME NEW kind \in {"restore", "verify"}, batch.todo # <<>>,
               BeginJob(Head(batch.todo), kind, "batch")
        PROVE  \E j \in Jobs : Begins(j)
    <3>1. Head(batch.todo) \in Jobs /\ kind \in Kinds
      BY <2>1, <2>3 DEF Kinds
    <3>2. Begun(Head(batch.todo), kind, "batch")
      BY <2>3, <3>1, BeginMoves
    <3> QED BY <2>1, <3>1, <3>2 DEF Begins
  <2> QED BY <1>6, <2>2, <2>3 DEF RestoreNext, VerifyNext, BackupTypes, PlansTyped
<1> QED BY <1>1, <1>2, <1>3, <1>4, <1>5, <1>6 DEF BackupNext, Operation, Works, Saves

\* One case per kind of step.
LEMMA SettledStep == SettledInv /\ [BackupNext]_backupVars => SettledInv'
<1> SUFFICES ASSUME SettledInv, [BackupNext]_backupVars PROVE SettledInv'
  OBVIOUS
<1>1. BackupTypes /\ BackupTypes' /\ \A j \in Jobs : JobSettled(j)
  BY BackupTypesStep DEF SettledInv
<1>2. SUFFICES \A j \in Jobs : JobSettled(j)'
  BY <1>1 DEF SettledInv
<1>3. ASSUME NEW j \in Jobs, Works(j) PROVE \A k \in Jobs : JobSettled(k)'
  BY <1>1, <1>3, WorkAside, WorkSettled, AsideSettled DEF Works
<1>4. ASSUME NEW j \in Jobs, Saves(j) PROVE \A k \in Jobs : JobSettled(k)'
  BY <1>1, <1>4, SaveAside, SaveSettled, AsideSettled DEF Saves
<1>5. ASSUME NEW j \in Jobs, Begins(j) PROVE \A k \in Jobs : JobSettled(k)'
  BY <1>1, <1>5, BegunAside, BegunSettled, AsideSettled DEF Begins
<1>6. ASSUME NEW j \in Jobs, Remind(j) PROVE \A k \in Jobs : JobSettled(k)'
  <2>1. JobSettled(j)'
    BY <1>1, <1>6, RemindMoves DEF JobSettled
  <2> QED BY <1>1, <1>6, <2>1, RemindMoves, AsideSettled
<1>7. CASE Rests \/ Damage \/ \E j \in Jobs : TakeTarget(j)
  BY <1>1, <1>7 DEF Rests, Damage, TakeTarget, stateVars, JobSettled
<1>8. CASE ReleaseStateLock \/ Kill \/ PowerLoss
  <2>1. memState' = [j \in Jobs |-> NoJobState]
    BY <1>8 DEF ReleaseStateLock, Kill, PowerLoss, Stopped
  <2> QED BY <2>1, NoJobStateTyped DEF JobSettled
<1>9. CASE Open
  <2>1. task' = task
    BY <1>9 DEF Open
  <2>2. CASE memState' = memState
    BY <1>1, <2>1, <2>2 DEF JobSettled
  <2>3. CASE memState' = [j \in Jobs |-> Recovered(fileState[j])]
    <3>1. \A j \in Jobs : fileState[j] \in JobStates
      BY <1>1 DEF BackupTypes, StatesTyped
    <3> QED BY <1>1, <2>3, <3>1, RecoveredFacts DEF JobSettled, BackupTypes, PlansTyped
  <2> QED BY <1>9, <2>2, <2>3 DEF Open
<1> QED BY <1>1, <1>3, <1>4, <1>5, <1>6, <1>7, <1>8, <1>9, StepCases

LEMMA SettledBegins == BackupInit => SettledInv
  BY BackupTypesInit, NoJobStateTyped DEF BackupInit, SettledInv, JobSettled

\* SettledStatus, for any number of jobs, operations, faults and restarts: a job
\* nobody works on has no result that says running, whichever saves failed.
THEOREM StatusSettles == BackupSpec => []SettledStatus
<1>1. SettledInv => SettledStatus
  BY FreeIsNoTask DEF SettledInv, JobSettled, SettledStatus, Held, StatusFields
<1> QED BY <1>1, SettledBegins, SettledStep, PTL DEF BackupSpec

-----------------------------------------------------------------------------
(* Readiness evidence                                                       *)

\* A cached verdict that counts was made of a manifest as it was written.
CachedVerdicts == [id : Nat, token : {None, "written", "changed"}, valid : BOOLEAN]
EvidenceInv ==
    /\ BackupTypes /\ evidence \in [Jobs -> CachedVerdicts]
    /\ \A j \in Jobs \ RemoteJobs : evidence[j].valid => evidence[j].token = "written"

LEMMA EvidenceIsWritten ==
    ASSUME EvidenceInv, NEW j \in Jobs \ RemoteJobs, HasSuccessfulEvidence(j)
    PROVE  Token(j) = "written" /\ Token(j) # None
  BY DEF EvidenceInv, HasSuccessfulEvidence, Cached, Local

LEMMA NoEvidenceFacts ==
    NoEvidence \in [Jobs -> CachedVerdicts] /\ \A j \in Jobs : NoEvidence[j].valid = FALSE
  BY DEF NoEvidence, CachedVerdicts

LEMMA EvidenceStep == EvidenceInv /\ [BackupNext]_backupVars => EvidenceInv'
<1> SUFFICES ASSUME EvidenceInv, [BackupNext]_backupVars PROVE EvidenceInv'
  OBVIOUS
<1>1. BackupTypes /\ BackupTypes' /\ evidence \in [Jobs -> CachedVerdicts]
  BY BackupTypesStep DEF EvidenceInv
<1>2. CASE evidence' = evidence
  BY <1>1, <1>2 DEF EvidenceInv
<1>3. CASE evidence' = NoEvidence
  BY <1>1, <1>3, NoEvidenceFacts DEF EvidenceInv
<1>4. ASSUME NEW j \in Jobs, CheckReadiness(j) PROVE EvidenceInv'
  <2> DEFINE valid == HasSuccessfulEvidence(j)
             e == IF Token(j) = None THEN [id |-> 0, token |-> None, valid |-> FALSE]
                  ELSE [id |-> memState[j].ok.id, token |-> Token(j), valid |-> valid]
  <2>1. evidence' = [evidence EXCEPT ![j] = e] /\ j \in Jobs \ RemoteJobs
    BY <1>4 DEF CheckReadiness, Local
  <2>2. valid \in BOOLEAN
    BY DEF HasSuccessfulEvidence, Local, Cached
  <2>3. valid => Token(j) = "written" /\ Token(j) # None
    BY <2>1, EvidenceIsWritten
  <2>4. Token(j) \in {None, "written", "changed"}
    BY DEF Token
  <2>5. memState[j].ok.id \in Nat
    BY <1>1, OkTyped DEF Results
  <2> HIDE DEF valid
  <2>6. e \in CachedVerdicts /\ (e.valid => e.token = "written")
    <3>1. CASE Token(j) = None
      <4>1. e = [id |-> 0, token |-> None, valid |-> FALSE]
        BY <3>1
      <4> HIDE DEF e
      <4> QED BY <4>1 DEF CachedVerdicts
    <3>2. CASE Token(j) # None
      <4>1. e = [id |-> memState[j].ok.id, token |-> Token(j), valid |-> valid]
        BY <3>2
      <4> HIDE DEF e
      <4> QED BY <2>2, <2>3, <2>4, <2>5, <4>1 DEF CachedVerdicts
    <3> QED BY <3>1, <3>2
  <2> HIDE DEF e
  <2>7. /\ evidence' \in [Jobs -> CachedVerdicts] /\ evidence'[j] = e
        /\ \A k \in Jobs \ {j} : evidence'[k] = evidence[k]
    BY <1>1, <2>1, <2>6
  <2>8. ASSUME NEW k \in Jobs \ RemoteJobs, evidence'[k].valid PROVE evidence'[k].token = "written"
    <3>1. CASE k = j
      BY <2>6, <2>7, <2>8, <3>1
    <3>2. CASE k # j
      BY <2>7, <2>8, <3>2 DEF EvidenceInv
    <3> QED BY <3>1, <3>2
  <2> QED BY <1>1, <2>7, <2>8 DEF EvidenceInv
<1>5. \/ evidence' = evidence \/ evidence' = NoEvidence \/ \E j \in Jobs : CheckReadiness(j)
  <2>1. CASE UNCHANGED backupVars
    BY <2>1 DEF backupVars
  <2>2. ASSUME NEW j \in Jobs, Operation(j) PROVE evidence' = evidence
    BY <1>1, <2>2, WorkAside, SaveAside DEF Operation, SavesNothing, SavesOnly
  <2>3. ASSUME NEW j \in Jobs, NEW kind, Request(j, kind) PROVE evidence' = evidence
    BY <2>3 DEF Request
  <2>4. CASE \E j \in Jobs : RunDue(j) \/ Remind(j) \/ TakeTarget(j)
    BY <2>4 DEF RunDue, Remind, TakeTarget
  <2>5. CASE ListDue \/ StartBatch \/ PreviewNext \/ RestoreNext \/ VerifyNext \/ Close \/ Open \/ Damage
             \/ Tick
    BY <2>5 DEF ListDue, StartBatch, PreviewNext, RestoreNext, VerifyNext, Close, Open, Damage, Tick
  <2>6. CASE ReleaseStateLock \/ Kill \/ PowerLoss
    BY <2>6 DEF ReleaseStateLock, Kill, PowerLoss, Stopped
  <2> QED BY <2>1, <2>2, <2>3, <2>4, <2>5, <2>6 DEF BackupNext
<1> QED BY <1>2, <1>3, <1>4, <1>5

\* EvidenceHonest, for any number of jobs and any damage: readiness counts a backup only
\* while its manifest is there as it was written, whatever its cache holds.
THEOREM EvidenceStaysHonest == BackupSpec => []EvidenceHonest
<1>1. BackupInit => EvidenceInv
  BY BackupTypesInit, NoEvidenceFacts DEF BackupInit, EvidenceInv
<1>2. EvidenceInv => EvidenceHonest
  BY EvidenceIsWritten DEF EvidenceHonest, Token
<1> QED BY <1>1, <1>2, EvidenceStep, PTL DEF BackupSpec

-----------------------------------------------------------------------------
(* The scheduler                                                            *)

\* Every view of a job's state has a scheduled start that is not before the last
\* scheduled run that did work; the view in memory counts while there is a process.
Scheduled(j, x) == lastWork[j] # None => x.sched # None /\ x.sched >= lastWork[j]
JobScheduled(j) ==
    /\ lastWork[j] # None => lastWork[j] <= clock
    /\ Scheduled(j, fileState[j]) /\ Scheduled(j, fileKept[j])
    /\ manager # "down" => Scheduled(j, memState[j])
    /\ task[j] \in Tasks =>
        /\ task[j].started <= clock
        /\ task[j].trig = "scheduled" => (lastWork[j] # None => lastWork[j] <= task[j].started)
        /\ task[j].trig = "scheduled" /\ task[j].at = "lock" =>
             /\ memState[j].sched = task[j].started /\ fileState[j].sched = task[j].started
             /\ fileKept[j].sched = task[j].started
ScheduleInv == BackupTypes /\ \A j \in Jobs : JobScheduled(j)

\* No step but the first save takes an operation to the target lock.
LEMMA WorkGoesOn ==
    ASSUME BackupTypes, NEW j \in Jobs, Works(j)
    PROVE  /\ task[j] \in Tasks /\ task'[j] \in Tasks /\ manager # "down"
           /\ task'[j].started = task[j].started /\ task'[j].trig = task[j].trig
           /\ task'[j].at # "lock"
<1> DEFINE goal == /\ task[j] \in Tasks /\ task'[j] \in Tasks
                   /\ task'[j].started = task[j].started /\ task'[j].trig = task[j].trig
                   /\ task'[j].at # "lock"
<1>1. ASSUME NEW at \in {"work", "recheck", "rename", "sync", "evidence", "install", "command",
                         "finish"},
             NEW st, NEW snap, Moved(j, at, st, snap)
      PROVE  goal
  BY <1>1 DEF Moved, Became
<1>2. ASSUME \/ LockTarget(j) \/ Recheck(j) \/ CopySource(j) \/ FinalizeSnapshot(j)
             \/ SyncSnapshot(j) \/ CheckManifest(j)
      PROVE  goal
  <2> HIDE DEF goal
  <2> QED BY <1>1, <1>2, LockTargetMoves, RecheckMoves, CopySourceMoves, FinalizeSnapshotMoves,
             SyncSnapshotMoves, CheckManifestMoves DEF Stepped, Failed, Completed
<1>3. ASSUME ListSnapshots(j) \/ RemoveSnapshot(j) \/ SyncRetention(j) PROVE goal
  BY <1>3, ListSnapshotsMoves, RemoveSnapshotMoves, SyncRetentionMoves DEF ChecksNext, Became
<1>4. ASSUME \/ CheckRetention(j) \/ Drill(j) \/ StageRestore(j) \/ Install(j) \/ VerifyTarget(j)
             \/ CaptureCredentials(j) \/ RemoteBackup(j) \/ RemoteDrill(j) \/ RemoteRestore(j)
      PROVE  goal
  <2> HIDE DEF goal
  <2> QED BY <1>1, <1>4, CheckRetentionMoves, DrillMoves, StageRestoreMoves, InstallMoves,
             VerifyTargetMoves, CaptureCredentialsMoves, RemoteBackupMoves, RemoteDrillMoves,
             RemoteRestoreMoves DEF Stepped, Failed, Completed
<1>5. task[j] \in Tasks => manager # "down"
  BY FreeIsNoTask DEF BackupTypes, TasksTyped
<1> QED BY <1>2, <1>3, <1>4, <1>5 DEF Works

\* What a save after the first one records, and where it leads.
LEMMA LaterSaves ==
    ASSUME BackupTypes, NEW j \in Jobs, Saves(j), ~SaveRunning(j)
    PROVE  /\ task[j] \in Tasks /\ manager # "down" /\ manager' # "down"
           /\ task'[j] \in Tasks =>
                /\ task'[j].started = task[j].started /\ task'[j].trig = task[j].trig
                /\ task'[j].at # "lock"
           /\ \E st \in {"completed", "failed"} :
                LET s == Updated(memState[j], task[j].kind, ResultOf(j, st)) IN
                /\ st = "failed" \/ (st = task[j].st /\ task[j].at \in {"finish", "again", "final"})
                /\ memState'[j] \in {memState[j], s}
                /\ fileState'[j] \in {fileState[j], s}
                /\ fileKept'[j] \in {fileKept[j], s}
<1>1. /\ task[j] \in Tasks /\ TaskFits(j, task[j])
  BY SaveUndoMoves, SaveFailedMoves, SaveCompletedMoves, SaveFinalMoves, SaveResultMoves,
     SaveAgainMoves DEF Saves
<1>2. manager # "down" /\ StatesTyped
  BY <1>1, FreeIsNoTask DEF BackupTypes, TasksTyped
<1>3. task'[j] \in Tasks =>
        /\ task'[j].started = task[j].started /\ task'[j].trig = task[j].trig
        /\ task'[j].at # "lock"
  BY SaveUndoMoves, SaveFailedMoves, SaveCompletedMoves, SaveFinalMoves, SaveResultMoves,
     SaveAgainMoves, FreeIsNoTask
  DEF Saves, Stepped, Failed, Moved, Became, ChecksNext, Left, Released
<1>4. ASSUME NEW st \in {"completed", "failed"}, NEW out \in Outcomes, NEW rem \in BOOLEAN,
             SaveJob(j, Updated(memState[j], task[j].kind, ResultOf(j, st)), out, rem)
      PROVE  /\ manager' # "down"
             /\ LET s == Updated(memState[j], task[j].kind, ResultOf(j, st)) IN
                /\ memState'[j] \in {memState[j], s}
                /\ fileState'[j] \in {fileState[j], s}
                /\ fileKept'[j] \in {fileKept[j], s}
  <2> DEFINE s == Updated(memState[j], task[j].kind, ResultOf(j, st))
  <2>1. s \in JobStates /\ SaveJob(j, s, out, rem)
    BY <1>1, <1>4, FinishedFacts
  <2> HIDE DEF s
  <2>2. /\ manager' # "down" /\ memState'[j] \in {memState[j], s}
        /\ fileState'[j] \in {fileState[j], s} /\ fileKept'[j] \in {fileKept[j], s}
    BY <1>2, <2>1, SaveFacts
  <2> QED BY <2>2 DEF s
<1>5. CASE SaveUndo(j)
  <2>1. PICK out \in Outcomes :
          SaveJob(j, Updated(memState[j], task[j].kind, ResultOf(j, "failed")), out, TRUE)
    BY <1>5, SaveUndoMoves
  <2> QED BY <1>1, <1>2, <1>3, <1>4, <2>1
<1>6. CASE ~SaveUndo(j)
  <2>1. task[j].st \in {"completed", "failed"} /\ task[j].at \in {"finish", "again", "final"}
    BY <1>1, <1>6, SaveFailedMoves, SaveCompletedMoves, SaveFinalMoves, SaveResultMoves,
       SaveAgainMoves DEF Saves, TaskFits, Tasks
  <2>2. \E out \in Outcomes : \/ SaveJob(j, Terminal(j), out, TRUE)
                              \/ SaveJob(j, Terminal(j), out, FALSE)
                              \/ SaveJob(j, Terminal(j), out, ~Applied(out))
    BY <1>6, SaveFailedMoves, SaveCompletedMoves, SaveFinalMoves, SaveResultMoves,
       SaveAgainMoves DEF Saves
  <2>3. PICK out \in Outcomes : \E rem \in BOOLEAN : SaveJob(j, Terminal(j), out, rem)
    BY <2>2
  <2>4. PICK rem \in BOOLEAN : SaveJob(j, Terminal(j), out, rem)
    BY <2>3
  <2>5. SaveJob(j, Updated(memState[j], task[j].kind, ResultOf(j, task[j].st)), out, rem)
    BY <2>4 DEF Terminal
  <2> QED BY <1>1, <1>2, <1>3, <1>4, <2>1, <2>5
<1> QED BY <1>5, <1>6

\* What the first save records, and where it leads.
LEMMA FirstSave ==
    ASSUME BackupTypes, NEW j \in Jobs, SaveRunning(j)
    PROVE  /\ task[j] \in Tasks /\ task[j].at = "begun" /\ manager # "down" /\ manager' # "down"
           /\ task'[j] \in Tasks =>
                /\ task'[j].started = task[j].started /\ task'[j].trig = task[j].trig
                /\ task'[j].snap = task[j].snap /\ task'[j].id = task[j].id
                /\ task'[j].at \in {"lock", "work", "undo", "final"}
                /\ task'[j].at = "lock" =>
                     /\ task'[j].kind = task[j].kind /\ task[j].kind # "aftercheck"
                     /\ memState'[j] = RunningState(j) /\ fileState'[j] = RunningState(j)
                     /\ fileKept'[j] = RunningState(j)
           /\ memState'[j] \in {memState[j], RunningState(j)}
           /\ fileState'[j] \in {fileState[j], RunningState(j)}
           /\ fileKept'[j] \in {fileKept[j], RunningState(j)}
<1>1. task[j] \in Tasks /\ TaskFits(j, task[j]) /\ task[j].at = "begun"
  BY SaveRunningMoves
<1>2. manager # "down" /\ StatesTyped
  BY <1>1, FreeIsNoTask DEF BackupTypes, TasksTyped
<1>3. PICK out \in Outcomes :
        /\ SaveJob(j, RunningState(j), out, FALSE)
        /\ IF out = "ok"
           THEN Stepped(j, IF task[j].kind = "aftercheck" THEN "work" ELSE "lock")
           ELSE IF Applied(out) THEN Moved(j, "undo", "failed", task[j].snap) ELSE Left(j)
  BY SaveRunningMoves
<1>4. RunningState(j) \in JobStates
  BY <1>1, RunningFacts
<1>5. /\ memState'[j] = IF Applied(out) THEN RunningState(j) ELSE memState[j]
      /\ fileState'[j] = IF Applied(out) THEN RunningState(j) ELSE fileState[j]
      /\ fileKept'[j] = IF out = "ok" THEN RunningState(j) ELSE fileKept[j]
      /\ manager' # "down"
  BY <1>2, <1>3, <1>4, SaveFacts
<1>6. CASE out = "ok"
  <2>1. Applied(out)
    BY <1>6 DEF Applied
  <2> QED BY <1>1, <1>2, <1>3, <1>5, <1>6, <2>1 DEF Stepped, Moved, Became
<1>7. CASE out # "ok"
  <2>1. Moved(j, "undo", "failed", task[j].snap) \/ Left(j)
    BY <1>3, <1>7
  <2>2. task'[j] \in Tasks =>
          /\ task'[j].started = task[j].started /\ task'[j].trig = task[j].trig
          /\ task'[j].snap = task[j].snap /\ task'[j].id = task[j].id
          /\ task'[j].at \in {"undo", "final"}
    BY <2>1, FreeIsNoTask DEF Moved, Became, Left, Released
  <2> QED BY <1>1, <1>2, <1>5, <2>2
<1> QED BY <1>6, <1>7

LEMMA AsideScheduled ==
    ASSUME ScheduleInv, NEW j \in Jobs, Aside(j), manager # "down", manager' # "down",
           JobScheduled(j)'
    PROVE  \A k \in Jobs : JobScheduled(k)'
<1> SUFFICES ASSUME NEW k \in Jobs, k # j PROVE JobScheduled(k)'
  OBVIOUS
<1>1. /\ task'[k] = task[k] /\ memState'[k] = memState[k]
      /\ fileState'[k] \in {fileState[k], memState[k]}
      /\ fileKept'[k] \in {fileKept[k], memState[k]}
      /\ lastWork'[k] = lastWork[k] /\ clock' = clock
  BY DEF Aside
<1>2. JobScheduled(k)
  BY DEF ScheduleInv
<1> QED BY <1>1, <1>2 DEF JobScheduled, Scheduled

LEMMA ScheduleStep == ScheduleInv /\ [BackupNext]_backupVars /\ clock' >= clock => ScheduleInv'
<1> SUFFICES ASSUME ScheduleInv, [BackupNext]_backupVars, clock' >= clock PROVE ScheduleInv'
  OBVIOUS
<1>1. BackupTypes /\ BackupTypes' /\ \A j \in Jobs : JobScheduled(j)
  BY BackupTypesStep DEF ScheduleInv
<1>2. SUFFICES \A j \in Jobs : JobScheduled(j)'
  BY <1>1 DEF ScheduleInv
<1>3. ASSUME NEW j \in Jobs
      PROVE  /\ lastWork[j] \in Nat \cup {None} /\ clock \in Nat /\ clock' \in Nat
             /\ task[j] \in Tasks => task[j].started \in Nat
             /\ memState[j].sched \in Marks /\ fileState[j].sched \in Marks
             /\ fileKept[j].sched \in Marks
             /\ memState[j] \in JobStates /\ fileState[j] \in JobStates
             /\ memState[j].ok \in Results
  BY <1>1 DEF BackupTypes, PlansTyped, StatesTyped, JobStates, Tasks
<1>4. ASSUME NEW j \in Jobs, Works(j) PROVE \A k \in Jobs : JobScheduled(k)'
  <2>1. Aside(j) /\ SavesNothing /\ manager # "down" /\ manager' # "down"
    BY <1>1, <1>4, WorkAside, WorkGoesOn DEF Works, SavesNothing
  <2>2. /\ task[j] \in Tasks /\ task'[j] \in Tasks
        /\ task'[j].started = task[j].started /\ task'[j].trig = task[j].trig
        /\ task'[j].at # "lock"
    BY <1>1, <1>4, WorkGoesOn
  <2>3. /\ memState' = memState /\ fileState' = fileState /\ fileKept' = fileKept /\ clock' = clock
    BY <2>1 DEF SavesNothing, stateVars
  <2>4. CASE LockTarget(j) /\ task[j].trig = "scheduled" /\ lastWork'[j] = task[j].started
    <3>1. task[j].at = "lock"
      BY <1>1, <2>4, LockTargetMoves
    <3>2. JobScheduled(j)
      BY <1>1
    <3>3. JobScheduled(j)'
      BY <1>3, <2>2, <2>3, <2>4, <3>1, <3>2, BackupAssumption DEF JobScheduled, Scheduled
    <3> QED BY <2>1, <3>3, AsideScheduled
  <2>5. CASE lastWork'[j] = lastWork[j]
    <3>1. JobScheduled(j)
      BY <1>1
    <3>2. JobScheduled(j)'
      BY <2>1, <2>2, <2>3, <2>5, <3>1 DEF JobScheduled, Scheduled
    <3> QED BY <2>1, <3>2, AsideScheduled
  <2>6. \/ lastWork'[j] = lastWork[j]
        \/ LockTarget(j) /\ task[j].trig = "scheduled" /\ lastWork'[j] = task[j].started
    BY <1>1, <1>4, LockTargetMoves, RecheckMoves, CopySourceMoves, FinalizeSnapshotMoves,
       SyncSnapshotMoves, CheckManifestMoves, ListSnapshotsMoves, RemoveSnapshotMoves,
       SyncRetentionMoves, CheckRetentionMoves, DrillMoves, StageRestoreMoves, InstallMoves,
       VerifyTargetMoves, CaptureCredentialsMoves, RemoteBackupMoves, RemoteDrillMoves,
       RemoteRestoreMoves
    DEF Works, Quiet, BackupTypes, PlansTyped
  <2> QED BY <2>4, <2>5, <2>6
<1>5. ASSUME NEW j \in Jobs, Saves(j) PROVE \A k \in Jobs : JobScheduled(k)'
  <2>1. Aside(j) /\ SavesOnly
    BY <1>1, <1>5, SaveAside DEF Saves
  <2>2. lastWork' = lastWork /\ clock' = clock
    BY <2>1 DEF SavesOnly
  <2>3. JobScheduled(j)
    BY <1>1
  <2>4. CASE SaveRunning(j)
    <3>1. RunningState(j).sched = IF task[j].kind = "backup" /\ task[j].trig = "scheduled"
                                  THEN task[j].started ELSE memState[j].sched
      BY <1>1, <2>4, FirstSave, RunningFacts
    <3>2. /\ manager # "down" /\ manager' # "down" /\ task[j] \in Tasks
          /\ task'[j] \in Tasks =>
               /\ task'[j].started = task[j].started /\ task'[j].trig = task[j].trig
               /\ task'[j].at = "lock" =>
                    /\ task'[j].kind = task[j].kind /\ task[j].kind # "aftercheck"
                    /\ memState'[j] = RunningState(j) /\ fileState'[j] = RunningState(j)
                    /\ fileKept'[j] = RunningState(j)
          /\ memState'[j] \in {memState[j], RunningState(j)}
          /\ fileState'[j] \in {fileState[j], RunningState(j)}
          /\ fileKept'[j] \in {fileKept[j], RunningState(j)}
      BY <1>1, <2>4, FirstSave
    <3>3. task[j].trig = "scheduled" => task[j].kind \in {"backup", "aftercheck"}
      BY <1>1, <3>2 DEF BackupTypes, TasksTyped, TaskFits
    <3>4. Scheduled(j, RunningState(j))
      BY <1>3, <2>3, <3>1, <3>2, BackupAssumption DEF JobScheduled, Scheduled
    <3>5. /\ Scheduled(j, memState[j])' /\ Scheduled(j, fileState[j])' /\ Scheduled(j, fileKept[j])'
      BY <2>2, <2>3, <3>2, <3>4 DEF JobScheduled, Scheduled
    <3>6. JobScheduled(j)'
      BY <2>2, <2>3, <3>1, <3>2, <3>3, <3>5 DEF JobScheduled
    <3> QED BY <2>1, <3>2, <3>6, AsideScheduled
  <2>5. CASE ~SaveRunning(j)
    <3>1. /\ task[j] \in Tasks /\ manager # "down" /\ manager' # "down"
          /\ task'[j] \in Tasks =>
               /\ task'[j].started = task[j].started /\ task'[j].trig = task[j].trig
               /\ task'[j].at # "lock"
      BY <1>1, <1>5, <2>5, LaterSaves
    <3>2. PICK st \in {"completed", "failed"} :
            LET s == Updated(memState[j], task[j].kind, ResultOf(j, st)) IN
            /\ memState'[j] \in {memState[j], s}
            /\ fileState'[j] \in {fileState[j], s}
            /\ fileKept'[j] \in {fileKept[j], s}
      BY <1>1, <1>5, <2>5, LaterSaves
    <3>3. Updated(memState[j], task[j].kind, ResultOf(j, st)).sched = memState[j].sched
      BY <1>1, <3>1, FinishedFacts
    <3>4. /\ memState'[j].sched = memState[j].sched
          /\ fileState'[j].sched \in {fileState[j].sched, memState[j].sched}
          /\ fileKept'[j].sched \in {fileKept[j].sched, memState[j].sched}
      BY <3>2, <3>3
    <3>5. JobScheduled(j)'
      BY <2>2, <2>3, <3>1, <3>4 DEF JobScheduled, Scheduled
    <3> QED BY <2>1, <3>1, <3>5, AsideScheduled
  <2> QED BY <2>4, <2>5
<1>6. ASSUME NEW j \in Jobs, Begins(j) PROVE \A k \in Jobs : JobScheduled(k)'
  <2>1. /\ Aside(j) /\ manager # "down" /\ manager' # "down"
        /\ task'[j].started = clock /\ task'[j].at = "begun"
        /\ UNCHANGED <<memState, fileState, fileKept, lastWork, clock>>
    BY <1>1, <1>6, BegunAside DEF Begins, Begun
  <2>2. JobScheduled(j)
    BY <1>1
  <2>3. JobScheduled(j)'
    BY <1>3, <2>1, <2>2 DEF JobScheduled, Scheduled
  <2> QED BY <2>1, <2>3, AsideScheduled
<1>7. ASSUME NEW j \in Jobs, Remind(j) PROVE \A k \in Jobs : JobScheduled(k)'
  <2>1. /\ Aside(j) /\ manager # "down" /\ manager' # "down" /\ task' = task
        /\ lastWork' = lastWork /\ clock' = clock
    BY <1>1, <1>7, RemindMoves DEF SavesOnly
  <2>2. /\ memState'[j].sched = memState[j].sched
        /\ fileState'[j].sched \in {fileState[j].sched, memState[j].sched}
        /\ fileKept'[j].sched \in {fileKept[j].sched, memState[j].sched}
    BY <1>1, <1>7, RemindMoves
  <2>3. JobScheduled(j)
    BY <1>1
  <2>4. JobScheduled(j)'
    BY <2>1, <2>2, <2>3 DEF JobScheduled, Scheduled
  <2> QED BY <2>1, <2>4, AsideScheduled
<1>8. CASE Rests \/ Damage \/ \E j \in Jobs : TakeTarget(j)
  <2>1. /\ UNCHANGED <<memState, fileState, fileKept, task, lastWork>>
        /\ manager' = "down" <=> manager = "down"
    BY <1>8 DEF Rests, Damage, TakeTarget, stateVars, planVars
  <2> QED BY <1>1, <1>3, <2>1 DEF JobScheduled, Scheduled
<1>9. CASE ReleaseStateLock \/ Kill \/ PowerLoss
  <2>1. manager' = "down" /\ lastWork' = lastWork /\ clock' = clock
    BY <1>9 DEF ReleaseStateLock, Kill, PowerLoss, Stopped
  <2>2. \A j \in Jobs : task'[j] = Free
    BY <1>9 DEF ReleaseStateLock, Kill, PowerLoss, Stopped, Held
  <2>3. \A j \in Jobs : /\ fileState'[j] \in {fileState[j], fileKept[j]}
                        /\ fileKept'[j] \in {fileState[j], fileKept[j]}
    BY <1>9 DEF ReleaseStateLock, Kill, PowerLoss
  <2> QED BY <1>1, <2>1, <2>2, <2>3, FreeIsNoTask DEF JobScheduled, Scheduled
<1>10. CASE Open
  <2>1. /\ lastWork' = lastWork /\ clock' = clock /\ task' = task /\ \A j \in Jobs : task[j] = Free
    BY <1>1, <1>10 DEF Open, planVars, BackupTypes, TasksTyped
  <2>2. \A j \in Jobs : Recovered(fileState[j]).sched = fileState[j].sched
    BY <1>3, RecoveredFacts
  <2>3. \A j \in Jobs : /\ fileState'[j].sched = fileState[j].sched
                        /\ fileKept'[j].sched \in {fileState[j].sched, fileKept[j].sched}
                        /\ manager' # "down" => memState'[j].sched = fileState[j].sched
    BY <1>10, <2>2 DEF Open
  <2> QED BY <1>1, <2>1, <2>3, FreeIsNoTask DEF JobScheduled, Scheduled
<1> QED BY <1>1, <1>4, <1>5, <1>6, <1>7, <1>8, <1>9, <1>10, StepCases

\* A time outside the window moves to a later one.
LEMMA WindowNotBefore ==
    ASSUME NEW when \in Int, ~Within(when)
    PROVE  WindowStartAfter(when) \in Int /\ WindowStartAfter(when) >= when
<1> DEFINE m == when % Day
           today == when - m + WindowStart
<1>1. m \in Int /\ 0 <= m /\ m < Day /\ Day \in Nat /\ WindowStart \in Int /\ WindowEnd \in Int
      /\ 0 <= WindowStart /\ WindowStart < Day /\ WindowEnd < Day
  BY BackupAssumption
<1>2. ~(m >= WindowStart /\ m < WindowEnd) \/ ~(WindowStart < WindowEnd)
  BY DEF Within, HasWindow
<1>3. (WindowStart < WindowEnd) \/ ~(m >= WindowStart \/ m < WindowEnd)
  BY <1>1 DEF Within, HasWindow
<1>4. WindowStartAfter(when) =
        IF WindowStart < WindowEnd
        THEN IF m < WindowEnd THEN today ELSE today + Day
        ELSE IF m >= WindowStart \/ m >= WindowEnd THEN today ELSE today - Day
  BY DEF WindowStartAfter
<1> HIDE DEF m
<1> QED BY <1>1, <1>2, <1>3, <1>4

\* The greatest of at most two integers.
LEMMA GreatestBase ==
    ASSUME NEW a \in Int, NEW S, S = {} \/ \E b \in Int : S = {b}
    PROVE  LET bases == {a} \cup S
               top == CHOOSE b \in bases : \A c \in bases : c <= b
           IN  top \in Int /\ top >= a /\ bases # {}
<1> DEFINE bases == {a} \cup S
<1>1. \E b \in bases : \A c \in bases : c <= b
  <2>1. CASE S = {}
    BY <2>1
  <2>2. ASSUME NEW b \in Int, S = {b} PROVE \E d \in bases : \A c \in bases : c <= d
    <3>1. CASE a <= b
      BY <2>2, <3>1
    <3>2. CASE ~(a <= b)
      BY <2>2, <3>2
    <3> QED BY <3>1, <3>2
  <2> QED BY <2>1, <2>2
<1>2. bases \subseteq Int /\ a \in bases
  OBVIOUS
<1> HIDE DEF bases
<1> DEFINE top == CHOOSE b \in bases : \A c \in bases : c <= b
<1>3. top \in bases /\ \A c \in bases : c <= top
  BY <1>1
<1> HIDE DEF top
<1>4. top \in Int /\ top >= a /\ bases # {}
  BY <1>2, <1>3
<1> QED BY <1>4 DEF top, bases

\* A job that is due has let the interval pass since its last scheduled start.
LEMMA DueIsLate ==
    ASSUME BackupTypes, NEW j \in Jobs, Due(j), memState[j].sched # None
    PROVE  memState[j].sched + Interval <= clock
<1> DEFINE st == memState[j]
           S == IF st.run.st = "none" THEN {} ELSE {st.run.t}
           top == CHOOSE b \in {st.sched} \cup S : \A c \in {st.sched} \cup S : c <= b
           next == top + Interval
<1>1. st.sched \in Int /\ st.run.t \in Int /\ clock \in Int /\ Interval \in Int
  <2>1. memState[j] \in JobStates /\ clock \in Nat
    BY DEF BackupTypes, StatesTyped, PlansTyped
  <2>2. memState[j].sched \in Marks /\ memState[j].run \in Results
    BY <2>1 DEF JobStates
  <2>3. memState[j].run.t \in Int
    BY <2>2 DEF Results
  <2> QED BY <2>1, <2>2, <2>3, BackupAssumption DEF Marks
<1>2. S = {} \/ \E b \in Int : S = {b}
  BY <1>1
<1>3. top \in Int /\ top >= st.sched /\ {st.sched} \cup S # {}
  <2> HIDE DEF S
  <2> QED BY <1>1, <1>2, GreatestBase
<1>4. NextRunAt(st) = Adjusted(next)
  BY <1>3 DEF NextRunAt
<1>5. Adjusted(next) <= clock
  BY <1>4 DEF Due
<1> HIDE DEF top
<1>6. next \in Int /\ next >= st.sched + Interval
  BY <1>1, <1>3
<1> HIDE DEF next, S
<1>7. next <= clock
  <2>1. CASE Adjusted(next) = next
    BY <1>5, <2>1
  <2>2. CASE next < clock
    BY <1>1, <1>6, <2>2
  <2>3. CASE ~(next < clock) /\ ~Within(next) /\ Adjusted(next) = WindowStartAfter(next)
    BY <1>1, <1>5, <1>6, <2>3, WindowNotBefore
  <2> QED BY <2>1, <2>2, <2>3 DEF Adjusted
<1> QED BY <1>1, <1>6, <1>7

\* ScheduledApart as long as nobody sets the clock back: a job is found due only an interval
\* after the start of its last scheduled run that did work, through crashes and failed saves.
THEOREM RunsKeepApart == BackupSpec /\ [][clock' >= clock]_clock => ScheduledApart
<1>1. BackupInit => ScheduleInv
  <2> SUFFICES ASSUME BackupInit PROVE ScheduleInv
    OBVIOUS
  <2>1. \A j \in Jobs : lastWork[j] = None /\ task[j] = Free
    BY DEF BackupInit
  <2> QED BY <2>1, BackupTypesInit, FreeIsNoTask DEF ScheduleInv, JobScheduled, Scheduled
<1>2. ScheduleInv /\ [BackupNext]_backupVars /\ [clock' >= clock]_clock => ScheduleInv'
  <2> SUFFICES ASSUME ScheduleInv, [BackupNext]_backupVars, [clock' >= clock]_clock
               PROVE  ScheduleInv'
    OBVIOUS
  <2>1. clock' >= clock
    BY DEF ScheduleInv, BackupTypes, PlansTyped
  <2> QED BY <2>1, ScheduleStep
<1>3. ScheduleInv /\ [BackupNext]_backupVars =>
        [\A j \in dueList' \ dueList :
            lastWork[j] = None \/ clock >= lastWork[j] + Interval]_backupVars
  <2> SUFFICES ASSUME ScheduleInv, BackupNext, NEW j \in dueList', j \notin dueList
               PROVE  lastWork[j] = None \/ clock >= lastWork[j] + Interval
    OBVIOUS
  <2>1. CASE ListDue
    <3>1. j \in Jobs /\ Due(j) /\ manager # "down"
      BY <2>1 DEF ListDue
    <3>2. /\ lastWork[j] \in Nat \cup {None} /\ memState[j].sched \in Marks /\ clock \in Nat
          /\ BackupTypes /\ Interval \in Nat
      BY <3>1, BackupAssumption
      DEF ScheduleInv, BackupTypes, PlansTyped, StatesTyped, JobStates
    <3>3. Scheduled(j, memState[j])
      BY <3>1 DEF ScheduleInv, JobScheduled
    <3>4. CASE lastWork[j] # None
      <4>1. memState[j].sched # None /\ memState[j].sched >= lastWork[j]
        BY <3>3, <3>4 DEF Scheduled
      <4>2. memState[j].sched + Interval <= clock
        BY <3>1, <3>2, <4>1, DueIsLate
      <4> QED BY <3>2, <3>4, <4>1, <4>2 DEF Marks
    <3> QED BY <3>4
  <2>2. CASE ~ListDue
    <3>1. BackupTypes
      BY DEF ScheduleInv
    <3>2. dueList' \subseteq dueList
      <4>1. ASSUME NEW k \in Jobs, Operation(k) PROVE dueList' = dueList
        BY <3>1, <4>1, WorkAside, SaveAside DEF Operation, SavesNothing, SavesOnly
      <4>2. ASSUME NEW k \in Jobs, NEW kind, Request(k, kind) PROVE dueList' = dueList
        BY <4>2 DEF Request, planVars
      <4>3. CASE \E k \in Jobs : RunDue(k) \/ Remind(k) \/ TakeTarget(k) \/ CheckReadiness(k)
        BY <4>3 DEF RunDue, Remind, TakeTarget, CheckReadiness, planVars
      <4>4. CASE StartBatch \/ PreviewNext \/ RestoreNext \/ VerifyNext \/ Close \/ Open \/ Damage
                 \/ Tick \/ ReleaseStateLock
        BY <4>4 DEF StartBatch, PreviewNext, RestoreNext, VerifyNext, Close, Open, Damage, Tick,
                    ReleaseStateLock, planVars
      <4>5. CASE Kill \/ PowerLoss
        BY <4>5 DEF Kill, PowerLoss, Stopped
      <4> QED BY <2>2, <4>1, <4>2, <4>3, <4>4, <4>5 DEF BackupNext
    <3> QED BY <3>2
  <2> QED BY <2>1, <2>2
<1> QED BY <1>1, <1>2, <1>3, PTL DEF BackupSpec, ScheduledApart
-----------------------------------------------------------------------------
(* The snapshots results refer to                                           *)

Views(j) == {memState[j], fileState[j], fileKept[j]}
NoRecord(S, j, id) == \A s \in S : s.job = j => s.id # id
Single(S, j) ==
    \A s, r \in S : s.job = j /\ r.job = j /\ s.id = r.id /\ s.rot # "torn" /\ r.rot # "torn" => s = r

\* The operation is a backup, or the check after it, that has its snapshot.
HasSnapshot(t) ==
    \/ t.kind = "aftercheck"
    \/ t.kind = "backup" /\ t.at \in {"recheck", "retention", "prune", "again", "final"}
    \/ t.kind = "backup" /\ t.at = "finish" /\ t.st = "completed"

\* What the operation of a local job relies on: a restore's snapshot is there,
\* visible and synced; a backup's id is new until the rename, its snapshot
\* visible after it and synced after the sync.
TaskHolds(j, t, S, K) ==
    /\ t.kind = "restore" /\ t.snap # None => Stored(S \cap K, j, t.snap)
    /\ t.kind = "backup" /\ t.at \in {"begun", "lock", "work", "rename"} => NoRecord(S \cup K, j, t.id)
    /\ t.at \in {"rename", "sync", "evidence"} => t.snap = t.id
    /\ t.at = "sync" => Stored(S, j, t.id)
    /\ t.at = "evidence" \/ HasSnapshot(t) => t.snap = t.id /\ Stored(S \cap K, j, t.id)

\* What it may remove is needed by no state of the job: the run's own snapshot
\* before it is recorded, and what retention dooms after it.
TaskSpares(t, V, mem) ==
    /\ t.at \in {"sync", "evidence"} => \A x \in V : t.id \notin Needed(x)
    /\ t.at = "retention" => \A x \in V : \A id \in Needed(x) : id \in Referenced(mem) \/ id = t.id
    /\ t.at = "prune" => /\ \A s \in t.todo : s.id # t.id /\ \A x \in V : s.id \notin Needed(x)
                         /\ \A id \in t.gone : id # t.id /\ \A x \in V : id \notin Needed(x)

\* Every snapshot a state of the job refers to, in memory or in either file, is
\* visible and synced.
NeedsStored(j, V, S, K) == \A x \in V : \A id \in Needed(x) : Stored(S \cap K, j, id)
Numbered(S, j, n) == \A s \in S : s.job = j => s.id <= n

JobStored(j) ==
    /\ Single(snaps \cup snapsKept, j) /\ Numbered(snaps \cup snapsKept, j, ops)
    /\ NeedsStored(j, Views(j), snaps, snapsKept)
    /\ task[j] \in Tasks => /\ TaskHolds(j, task[j], snaps, snapsKept)
                            /\ TaskSpares(task[j], Views(j), memState[j])
StoreInv == BackupTypes /\ \A j \in Jobs \ RemoteJobs : JobStored(j)

\* A save can add only the snapshot of the result it records.
LEMMA NeededGrows ==
    ASSUME NEW s \in JobStates, NEW u \in JobStates, NEW r \in Results,
           u.ok = s.ok \/ u.ok = r, u.restore = s.restore \/ u.restore = r,
           u.hist = s.hist \/ u.hist = Prepend(s.hist, r)
    PROVE  \A id \in Needed(u) : id \in Needed(s) \/ (r.st = "completed" /\ id = r.snap)
<1> DEFINE S == {r} \cup {s.hist[i] : i \in 1..Len(s.hist)}
<1>1. s.hist \in Seq(Results) /\ u.hist \in Seq(Results)
  BY DEF JobStates
<1>2. s.hist \in Seq(S)
  BY <1>1
<1>3. u.hist \in Seq(S)
  <2>1. Prepend(s.hist, r) \in Seq(S)
    <3> HIDE DEF S
    <3>1. r \in S
      BY DEF S
    <3> QED BY <1>2, <3>1, PrependFacts
  <2> QED BY <1>2, <2>1
<1>4. \A i \in 1..Len(u.hist) : u.hist[i] = r \/ \E k \in 1..Len(s.hist) : u.hist[i] = s.hist[k]
  BY <1>3
<1>5. \A id \in Referenced(u) : id \in Referenced(s) \/ (r.st = "completed" /\ id = r.snap)
  BY <1>4 DEF Referenced
<1> QED BY <1>5 DEF Needed

LEMMA NeededSame ==
    ASSUME NEW s, NEW u, u.ok = s.ok, u.restore = s.restore, u.hist = s.hist
    PROVE  Needed(u) = Needed(s) /\ Referenced(u) = Referenced(s)
  BY DEF Needed, Referenced

LEMMA NothingNeeded == Needed(NoJobState) = {}
<1>1. /\ NoJobState.ok.st # "completed" /\ NoJobState.restore.st # "completed"
      /\ NoJobState.hist = <<>>
  BY NoJobStateTyped
<1> QED BY <1>1 DEF Needed, Referenced

LEMMA AsideStored ==
    ASSUME BackupTypes, BackupTypes', NEW j, Aside(j), NEW k \in Jobs \ RemoteJobs, k # j,
           JobStored(k)
    PROVE  JobStored(k)'
<1>1. /\ task'[k] = task[k] /\ memState'[k] = memState[k] /\ Views(k)' \subseteq Views(k)
  BY DEF Aside, Views
<1>2. \A s : s.job = k => (s \in snaps' <=> s \in snaps) /\ (s \in snapsKept' <=> s \in snapsKept)
  BY DEF Aside, BackupTypes, StoresTyped
<1>3. ops \in Nat /\ ops' \in Nat /\ ops' >= ops /\ snaps \subseteq SnapRecords /\ snapsKept \subseteq SnapRecords
  BY DEF Aside, BackupTypes, PlansTyped, StoresTyped
<1>4. \A id : /\ Stored(snaps' \cap snapsKept', k, id) <=> Stored(snaps \cap snapsKept, k, id)
              /\ Stored(snaps', k, id) <=> Stored(snaps, k, id)
              /\ NoRecord(snaps' \cup snapsKept', k, id) <=> NoRecord(snaps \cup snapsKept, k, id)
  BY <1>2 DEF Stored, NoRecord
<1>5. (Single(snaps \cup snapsKept, k) /\ Numbered(snaps \cup snapsKept, k, ops))'
  BY <1>2, <1>3 DEF JobStored, Single, Numbered, SnapRecords
<1>6. NeedsStored(k, Views(k), snaps, snapsKept)'
  BY <1>1, <1>4 DEF JobStored, NeedsStored
<1>7. ASSUME task[k] \in Tasks
      PROVE  /\ TaskHolds(k, task[k], snaps', snapsKept')
             /\ TaskSpares(task[k], Views(k)', memState[k])
  BY <1>1, <1>4, <1>7 DEF JobStored, TaskHolds, TaskSpares
<1> QED BY <1>1, <1>5, <1>6, <1>7 DEF JobStored

\* A step of j that leaves its states and the snapshots alone.
LEMMA QuietStored ==
    ASSUME NEW j, JobStored(j),
           UNCHANGED <<memState, fileState, fileKept, snaps, snapsKept, ops>>,
           task'[j] \in Tasks => /\ TaskHolds(j, task'[j], snaps, snapsKept)
                                 /\ TaskSpares(task'[j], Views(j), memState[j])
    PROVE  JobStored(j)'
<1>1. Views(j)' = Views(j)
  BY DEF Views
<1> QED BY <1>1 DEF JobStored

\* The steps of an operation that remove and add no snapshot.
LEMMA ReadingStored ==
    ASSUME BackupTypes, NEW j \in Jobs \ RemoteJobs, JobStored(j),
           \/ LockTarget(j) \/ Recheck(j) \/ CopySource(j) \/ ListSnapshots(j) \/ CheckRetention(j)
           \/ Drill(j) \/ StageRestore(j) \/ Install(j) \/ VerifyTarget(j)
    PROVE  JobStored(j)'
<1>1. /\ task[j] \in Tasks /\ TaskFits(j, task[j])
      /\ UNCHANGED <<memState, fileState, fileKept, snaps, snapsKept, ops>>
  BY LockTargetMoves, RecheckMoves, CopySourceMoves, ListSnapshotsMoves, CheckRetentionMoves,
     DrillMoves, StageRestoreMoves, InstallMoves, VerifyTargetMoves
  DEF Quiet, SavesNothing, stateVars
<1>2. /\ TaskHolds(j, task[j], snaps, snapsKept) /\ TaskSpares(task[j], Views(j), memState[j])
      /\ Single(snaps \cup snapsKept, j) /\ NeedsStored(j, Views(j), snaps, snapsKept)
  BY <1>1 DEF JobStored
<1> DEFINE goal == /\ TaskHolds(j, task'[j], snaps, snapsKept)
                   /\ TaskSpares(task'[j], Views(j), memState[j])
<1>3. SUFFICES goal
  BY <1>1, QuietStored
<1>4. ASSUME NEW at \in {"work", "recheck", "finish"}, NEW st, NEW snap, Moved(j, at, st, snap),
             task[j].kind = "restore" => snap = task[j].snap,
             at = "work" => task[j].at = "lock",
             HasSnapshot(task'[j]) => HasSnapshot(task[j]) /\ snap = task[j].snap
      PROVE  goal
  BY <1>2, <1>4 DEF TaskHolds, TaskSpares, Moved, Became
<1>5. ASSUME Failed(j) PROVE goal
  <2>1. HasSnapshot(task'[j]) => HasSnapshot(task[j])
    BY <1>5 DEF Failed, Moved, Became, HasSnapshot
  <2> QED BY <1>4, <1>5, <2>1 DEF Failed
<1>6. CASE LockTarget(j)
  <2>1. task[j].at = "lock" /\ (Stepped(j, "work") \/ Failed(j))
    BY <1>6, LockTargetMoves
  <2>2. ASSUME Stepped(j, "work") PROVE goal
    <3>1. ~HasSnapshot(task'[j])
      BY <1>1, <2>1, <2>2 DEF Stepped, Moved, Became, HasSnapshot, TaskFits
    <3> QED BY <1>4, <2>1, <2>2, <3>1 DEF Stepped
  <2> QED BY <1>5, <2>1, <2>2
<1>7. CASE Recheck(j) \/ CheckRetention(j)
  <2>1. Completed(j) \/ Failed(j)
    BY <1>7, RecheckMoves, CheckRetentionMoves
  <2>2. task[j].at = "recheck" \/ task[j].kind \in {"check", "aftercheck"}
    BY <1>7, RecheckMoves, CheckRetentionMoves
  <2>3. ASSUME Completed(j) PROVE goal
    <3>1. HasSnapshot(task'[j]) => HasSnapshot(task[j])
      BY <2>2, <2>3 DEF Completed, Moved, Became, HasSnapshot
    <3> QED BY <1>4, <2>3, <3>1 DEF Completed
  <2> QED BY <1>5, <2>1, <2>3
<1>8. CASE CopySource(j)
  <2>1. /\ task[j].at = "work" /\ task[j].kind = "backup"
        /\ Moved(j, "rename", task[j].st, task[j].id) \/ Failed(j)
    BY <1>8, CopySourceMoves
  <2>2. ASSUME Moved(j, "rename", task[j].st, task[j].id) PROVE goal
    BY <1>2, <2>1, <2>2 DEF TaskHolds, TaskSpares, HasSnapshot, Moved, Became
  <2> QED BY <1>5, <2>1, <2>2
<1>9. CASE ListSnapshots(j)
  <2>1. /\ task[j].at = "retention" /\ task[j].kind = "backup"
        /\ task[j].todo = {} /\ task[j].gone = {}
    BY <1>1, <1>9, ListSnapshotsMoves DEF TaskFits
  <2>2. HasSnapshot(task[j])
    BY <2>1 DEF HasSnapshot
  <2>3. ASSUME Became(j, task[j].kind, "prune", task[j].st, task[j].snap),
               task'[j].todo = Doomed(j), task'[j].gone = task[j].gone
        PROVE  goal
    <3>1. TaskHolds(j, task'[j], snaps, snapsKept)
      BY <1>2, <2>1, <2>2, <2>3 DEF TaskHolds, Became
    <3>2. \A s \in Doomed(j) : s.id # task[j].id /\ s.id \notin Referenced(memState[j])
      BY DEF Doomed
    <3>3. TaskSpares(task'[j], Views(j), memState[j])
      BY <1>2, <2>1, <2>3, <3>2 DEF TaskSpares, Became
    <3> QED BY <3>1, <3>3
  <2>4. ASSUME ChecksNext(j) PROVE goal
    BY <1>2, <2>1, <2>2, <2>4 DEF TaskHolds, TaskSpares, ChecksNext, Became
  <2> QED BY <1>9, <2>3, <2>4, ListSnapshotsMoves
<1>10. CASE Drill(j) \/ VerifyTarget(j)
  <2>1. task[j].kind \in {"drill", "verify"}
    BY <1>10, DrillMoves, VerifyTargetMoves
  <2>2. Failed(j) \/ \E v : Moved(j, "recheck", task[j].st, v)
    BY <1>10, DrillMoves, VerifyTargetMoves
  <2>3. ASSUME NEW v, Moved(j, "recheck", task[j].st, v) PROVE goal
    <3>1. ~HasSnapshot(task'[j])
      BY <2>1, <2>3 DEF Moved, Became, HasSnapshot
    <3> QED BY <1>4, <2>1, <2>3, <3>1
  <2> QED BY <1>5, <2>2, <2>3
<1>11. CASE StageRestore(j)
  <2>1. /\ task[j].at = "work" /\ task[j].kind = "restore"
        /\ \/ Moved(j, "install", task[j].st, Copied(j)) /\ Trusted(j)
           \/ Failed(j)
    BY <1>11, StageRestoreMoves
  <2>2. ASSUME Moved(j, "install", task[j].st, Copied(j)), Trusted(j) PROVE goal
    <3>1. memState[j].ok.st = "completed" /\ Copied(j) = memState[j].ok.snap
      BY <1>2, <2>2 DEF Trusted, Intact, Snap, Copied, Single
    <3>2. Stored(snaps \cap snapsKept, j, Copied(j))
      BY <1>2, <3>1 DEF NeedsStored, Views, Needed
    <3> QED BY <2>1, <2>2, <3>2 DEF TaskHolds, TaskSpares, HasSnapshot, Moved, Became
  <2> QED BY <1>5, <2>1, <2>2
<1>12. CASE Install(j)
  <2>1. /\ task[j].at = "install" /\ task[j].kind = "restore" /\ (Stepped(j, "recheck") \/ Failed(j))
    BY <1>12, InstallMoves DEF TaskFits
  <2>2. ASSUME Stepped(j, "recheck") PROVE goal
    <3>1. ~HasSnapshot(task'[j])
      BY <2>1, <2>2 DEF Stepped, Moved, Became, HasSnapshot
    <3> QED BY <1>4, <2>1, <2>2, <3>1 DEF Stepped
  <2> QED BY <1>5, <2>1, <2>2
<1> QED BY <1>6, <1>7, <1>8, <1>9, <1>10, <1>11, <1>12

\* What the records of j are after a removal, a kill or a power loss: 
\* its own whole ones, and torn ones of its ids.
LEMMA CutStored ==
    ASSUME NEW j, JobStored(j), NEW S, NEW K,
           \A x \in S \cup K : \/ x \in snaps \cup snapsKept
                               \/ x.rot = "torn" /\ \E s \in snaps \cup snapsKept : x.job = s.job /\ x.id = s.id
    PROVE  Single(S \cup K, j) /\ Numbered(S \cup K, j, ops)
<1>1. Single(S \cup K, j)
  BY DEF JobStored, Single
<1>2. Numbered(S \cup K, j, ops)
  BY DEF JobStored, Numbered
<1> QED BY <1>1, <1>2

\* The rename, the sync and the manifest check of a backup run.
LEMMA SnapshotStored ==
    ASSUME BackupTypes, NEW j \in Jobs \ RemoteJobs, JobStored(j),
           FinalizeSnapshot(j) \/ SyncSnapshot(j) \/ CheckManifest(j)
    PROVE  JobStored(j)'
<1>1. /\ task[j] \in Tasks /\ TaskFits(j, task[j])
      /\ UNCHANGED <<memState, fileState, fileKept, ops>>
  BY FinalizeSnapshotMoves, SyncSnapshotMoves, CheckManifestMoves DEF Quiet, SavesNothing, stateVars
<1>2. /\ TaskHolds(j, task[j], snaps, snapsKept) /\ TaskSpares(task[j], Views(j), memState[j])
      /\ Single(snaps \cup snapsKept, j) /\ Numbered(snaps \cup snapsKept, j, ops)
      /\ NeedsStored(j, Views(j), snaps, snapsKept)
  BY <1>1 DEF JobStored
<1>3. Views(j)' = Views(j)
  BY <1>1 DEF Views
<1> DEFINE t == task[j]
           u == task'[j]
<1>4. CASE FinalizeSnapshot(j)
  <2> DEFINE new == [job |-> j, id |-> t.id, t |-> t.started, rot |-> "none"]
  <2>1. /\ t.at = "rename" /\ t.kind = "backup" /\ t.id <= ops /\ snapsKept' = snapsKept
        /\ \/ Stepped(j, "sync") /\ snaps' = snaps \cup {new}
           \/ Failed(j) /\ snaps' = snaps
    BY <1>1, <1>4, FinalizeSnapshotMoves DEF TaskFits
  <2>2. CASE Failed(j) /\ snaps' = snaps
    <3>1. TaskHolds(j, u, snaps, snapsKept) /\ TaskSpares(u, Views(j), memState[j])
      BY <2>1, <2>2 DEF Failed, Moved, Became, TaskHolds, TaskSpares, HasSnapshot
    <3> QED BY <1>1, <2>1, <2>2, <3>1, QuietStored
  <2>3. CASE Stepped(j, "sync") /\ snaps' = snaps \cup {new}
    <3>1. new.job = j /\ new.id = t.id /\ new.rot = "none"
      OBVIOUS
    <3>2. /\ u.at = "sync" /\ u.id = t.id /\ u.snap = t.snap /\ u.kind = "backup"
      BY <2>1, <2>3 DEF Stepped, Moved, Became
    <3>3. NoRecord(snaps \cup snapsKept, j, t.id) /\ t.snap = t.id
      BY <1>2, <2>1 DEF TaskHolds
    <3> HIDE DEF new, t, u
    <3>4. Single(snaps' \cup snapsKept', j)
      BY <1>2, <2>1, <2>3, <3>1, <3>3 DEF Single, NoRecord
    <3>5. Numbered(snaps' \cup snapsKept', j, ops)
      BY <1>2, <2>1, <2>3, <3>1 DEF Numbered
    <3>6. NeedsStored(j, Views(j), snaps', snapsKept')
      BY <1>2, <2>1, <2>3 DEF NeedsStored, Stored
    <3>7. \A x \in Views(j) : t.id \notin Needed(x)
      BY <1>2, <3>3 DEF NeedsStored, Stored, NoRecord
    <3>8. Stored(snaps', j, t.id)
      BY <2>3, <3>1 DEF Stored
    <3>9. TaskHolds(j, u, snaps', snapsKept') /\ TaskSpares(u, Views(j), memState[j])
      BY <3>2, <3>3, <3>7, <3>8 DEF TaskHolds, TaskSpares, HasSnapshot
    <3> QED BY <1>1, <1>3, <3>4, <3>5, <3>6, <3>9 DEF JobStored, t, u
  <2> QED BY <2>1, <2>2, <2>3
<1>5. CASE SyncSnapshot(j)
  <2>1. /\ t.at = "sync" /\ t.kind = "backup" /\ snaps' = snaps
        /\ \/ Stepped(j, "evidence") /\ snapsKept' = snapsKept \cup Current(j)
           \/ Failed(j) /\ snapsKept' = snapsKept
    BY <1>1, <1>5, SyncSnapshotMoves DEF TaskFits
  <2>2. CASE Failed(j) /\ snapsKept' = snapsKept
    <3>1. TaskHolds(j, u, snaps, snapsKept) /\ TaskSpares(u, Views(j), memState[j])
      BY <2>1, <2>2 DEF Failed, Moved, Became, TaskHolds, TaskSpares, HasSnapshot
    <3> QED BY <1>1, <2>1, <2>2, <3>1, QuietStored
  <2>3. CASE Stepped(j, "evidence") /\ snapsKept' = snapsKept \cup Current(j)
    <3>1. Current(j) = {s \in snaps : s.job = j /\ s.id = t.id}
      BY DEF Current, Snap
    <3>2. /\ u.at = "evidence" /\ u.id = t.id /\ u.snap = t.snap /\ u.kind = "backup"
      BY <2>1, <2>3 DEF Stepped, Moved, Became
    <3>3. /\ Stored(snaps, j, t.id) /\ t.snap = t.id /\ \A x \in Views(j) : t.id \notin Needed(x)
      BY <1>2, <2>1 DEF TaskHolds, TaskSpares
    <3> HIDE DEF t, u
    <3>4. /\ Single(snaps' \cup snapsKept', j) /\ Numbered(snaps' \cup snapsKept', j, ops)
      BY <1>2, <2>1, <2>3, <3>1 DEF Single, Numbered
    <3>5. NeedsStored(j, Views(j), snaps', snapsKept')
      BY <1>2, <2>1, <2>3 DEF NeedsStored, Stored
    <3>6. Stored(snaps' \cap snapsKept', j, t.id)
      BY <2>1, <2>3, <3>1, <3>3 DEF Stored
    <3>7. TaskHolds(j, u, snaps', snapsKept') /\ TaskSpares(u, Views(j), memState[j])
      BY <3>2, <3>3, <3>6 DEF TaskHolds, TaskSpares, HasSnapshot
    <3> QED BY <1>1, <1>3, <3>4, <3>5, <3>7 DEF JobStored, t, u
  <2> QED BY <2>1, <2>2, <2>3
<1>6. CASE CheckManifest(j)
  <2>1. /\ t.at = "evidence" /\ t.kind = "backup"
        /\ \/ Failed(j) /\ LessOf(j, t.id)
           \/ Stepped(j, "recheck") /\ UNCHANGED <<snaps, snapsKept>>
    BY <1>1, <1>6, CheckManifestMoves DEF TaskFits
  <2>2. CASE Stepped(j, "recheck") /\ UNCHANGED <<snaps, snapsKept>>
    <3>1. TaskHolds(j, u, snaps, snapsKept) /\ TaskSpares(u, Views(j), memState[j])
      BY <1>2, <2>1, <2>2 DEF Stepped, Moved, Became, TaskHolds, TaskSpares, HasSnapshot
    <3> QED BY <1>1, <2>1, <2>2, <3>1, QuietStored
  <2>3. CASE Failed(j) /\ LessOf(j, t.id)
    <3>2. \A x \in Views(j) : t.id \notin Needed(x)
      BY <1>2, <2>1 DEF TaskSpares
    <3>3. \A s : s \in snaps \cap snapsKept /\ s.id # t.id => s \in snaps' \cap snapsKept'
      BY <2>3 DEF LessOf
    <3>4. TaskHolds(j, u, snaps', snapsKept') /\ TaskSpares(u, Views(j), memState[j])
      BY <2>1, <2>3 DEF Failed, Moved, Became, TaskHolds, TaskSpares, HasSnapshot
    <3>5. /\ Single(snaps' \cup snapsKept', j) /\ Numbered(snaps' \cup snapsKept', j, ops)
      BY <2>3, CutStored DEF LessOf
    <3> HIDE DEF t, u
    <3>6. NeedsStored(j, Views(j), snaps', snapsKept')
      BY <1>2, <3>2, <3>3 DEF NeedsStored, Stored
    <3> QED BY <1>1, <1>3, <3>4, <3>5, <3>6 DEF JobStored, t, u
  <2> QED BY <2>1, <2>2, <2>3
<1> QED BY <1>4, <1>5, <1>6

\* Retention's removals and their sync.
LEMMA PruneStored ==
    ASSUME BackupTypes, NEW j \in Jobs \ RemoteJobs, JobStored(j),
           RemoveSnapshot(j) \/ SyncRetention(j)
    PROVE  JobStored(j)'
<1>1. /\ task[j] \in Tasks /\ TaskFits(j, task[j]) /\ task[j].at = "prune"
      /\ UNCHANGED <<memState, fileState, fileKept, ops>>
  BY RemoveSnapshotMoves, SyncRetentionMoves DEF Quiet, SavesNothing, stateVars
<1>2. /\ TaskHolds(j, task[j], snaps, snapsKept) /\ TaskSpares(task[j], Views(j), memState[j])
      /\ Single(snaps \cup snapsKept, j) /\ Numbered(snaps \cup snapsKept, j, ops)
      /\ NeedsStored(j, Views(j), snaps, snapsKept)
  BY <1>1 DEF JobStored
<1>3. Views(j)' = Views(j)
  BY <1>1 DEF Views
<1> DEFINE t == task[j]
           u == task'[j]
<1>4. /\ t.kind = "backup" /\ t.snap = t.id /\ Stored(snaps \cap snapsKept, j, t.id)
      /\ \A s \in t.todo : s.id # t.id /\ \A x \in Views(j) : s.id \notin Needed(x)
      /\ \A id \in t.gone : id # t.id /\ \A x \in Views(j) : id \notin Needed(x)
  BY <1>1, <1>2 DEF TaskFits, TaskHolds, TaskSpares, HasSnapshot
<1>5. CASE RemoveSnapshot(j)
  <2>1. Became(j, t.kind, "prune", t.st, t.snap)
    BY <1>5, RemoveSnapshotMoves
  <2>2. PICK s \in t.todo :
          /\ LessOf(j, s.id)
          /\ u.todo = t.todo \ {s} /\ u.gone \in {t.gone, t.gone \cup {s.id}}
    BY <1>5, RemoveSnapshotMoves
  <2>3. u.at = "prune" /\ u.id = t.id /\ u.snap = t.snap /\ u.kind = "backup"
    BY <1>4, <2>1 DEF Became
  <2> HIDE DEF t, u
  <2>4. /\ Single(snaps' \cup snapsKept', j) /\ Numbered(snaps' \cup snapsKept', j, ops)
    BY <2>2, CutStored DEF LessOf
  <2>8. \A x : x \in snaps \cap snapsKept /\ x.id # s.id => x \in snaps' \cap snapsKept'
    BY <2>2 DEF LessOf
  <2>5. /\ NeedsStored(j, Views(j), snaps', snapsKept') /\ Stored(snaps' \cap snapsKept', j, t.id)
    BY <1>2, <1>4, <2>2, <2>8 DEF NeedsStored, Stored
  <2>6. TaskHolds(j, u, snaps', snapsKept')
    BY <1>4, <2>3, <2>5 DEF TaskHolds
  <2>7. TaskSpares(u, Views(j), memState[j])
    BY <1>4, <2>2, <2>3 DEF TaskSpares
  <2> QED BY <1>1, <1>3, <2>4, <2>5, <2>6, <2>7 DEF JobStored, t, u
<1>6. CASE SyncRetention(j)
  <2>1. /\ snaps' = snaps /\ ChecksNext(j)
        /\ snapsKept' \in {snapsKept, {x \in snapsKept : x.job # j \/ x.id \notin t.gone}}
    BY <1>6, SyncRetentionMoves
  <2>2. u.at = "begun" /\ u.id = t.id /\ u.snap = t.snap /\ u.kind = "aftercheck"
    BY <1>4, <2>1 DEF ChecksNext, Became
  <2> HIDE DEF t, u
  <2>3. /\ Single(snaps' \cup snapsKept', j) /\ Numbered(snaps' \cup snapsKept', j, ops)
    BY <1>2, <2>1 DEF Single, Numbered
  <2>4. /\ NeedsStored(j, Views(j), snaps', snapsKept') /\ Stored(snaps' \cap snapsKept', j, t.id)
    BY <1>2, <1>4, <2>1 DEF NeedsStored, Stored
  <2>5. TaskHolds(j, u, snaps', snapsKept') /\ TaskSpares(u, Views(j), memState[j])
    BY <1>4, <2>2, <2>4 DEF TaskHolds, TaskSpares
  <2> QED BY <1>1, <1>3, <2>3, <2>4, <2>5 DEF JobStored, t, u
<1> QED BY <1>5, <1>6

\* A save of j whose result refers to nothing that is not stored.
LEMMA SavedStored ==
    ASSUME NEW j, JobStored(j), UNCHANGED <<snaps, snapsKept, ops>>, NEW s,
           \A id \in Needed(s) : Stored(snaps \cap snapsKept, j, id),
           Views(j)' \subseteq Views(j) \cup {s},
           task'[j] \in Tasks => /\ TaskHolds(j, task'[j], snaps, snapsKept)
                                 /\ TaskSpares(task'[j], Views(j)', memState'[j])
    PROVE  JobStored(j)'
<1>1. NeedsStored(j, Views(j)', snaps, snapsKept)
  BY DEF JobStored, NeedsStored
<1> QED BY <1>1 DEF JobStored

\* Where the later saves lead.
LEMMA LaterTask ==
    ASSUME BackupTypes, NEW j \in Jobs \ RemoteJobs, Saves(j), ~SaveRunning(j), task'[j] \in Tasks
    PROVE  /\ task'[j].id = task[j].id /\ task'[j].snap = task[j].snap
           /\ task'[j].kind = "restore" => task[j].kind = "restore"
           /\ task'[j].at \in {"retention", "again", "final", "finish"}
           /\ HasSnapshot(task'[j]) => HasSnapshot(task[j])
           /\ task'[j].at = "retention" =>
                /\ task[j].kind = "backup" /\ task[j].st = "completed" /\ task[j].at = "finish"
                /\ \A x \in Views(j)' : x = Terminal(j)
<1>1. task[j] \in Tasks /\ TaskFits(j, task[j]) /\ StatesTyped
  BY SaveUndoMoves, SaveFailedMoves, SaveCompletedMoves, SaveFinalMoves, SaveResultMoves,
     SaveAgainMoves DEF Saves, BackupTypes
<1>2. ASSUME Left(j)
      PROVE  /\ task'[j].id = task[j].id /\ task'[j].snap = task[j].snap
             /\ task'[j].kind = "backup" /\ task'[j].at = "final"
             /\ HasSnapshot(task[j])
  BY <1>2, FreeIsNoTask DEF Left, Released, Became, HasSnapshot
<1>3. ASSUME Stepped(j, "again"), task[j].at \in {"finish", "final"}, task[j].st = "completed" \/ task[j].kind # "backup"
      PROVE  /\ task'[j].id = task[j].id /\ task'[j].snap = task[j].snap
             /\ task'[j].kind = task[j].kind /\ task'[j].at = "again"
             /\ HasSnapshot(task'[j]) => HasSnapshot(task[j])
  BY <1>3 DEF Stepped, Moved, Became, HasSnapshot
<1>4. CASE SaveUndo(j) \/ SaveAgain(j) \/ SaveFailed(j)
  <2>1. Left(j)
    BY <1>4, SaveUndoMoves, SaveAgainMoves, SaveFailedMoves DEF Left
  <2> QED BY <1>2, <2>1
<1>5. CASE SaveFinal(j)
  <2>1. Stepped(j, "again") /\ task[j].at = "final" /\ task[j].st = "completed"
    BY <1>1, <1>5, SaveFinalMoves, FreeIsNoTask DEF Released, TaskFits
  <2> QED BY <1>3, <2>1
<1>6. CASE SaveResult(j)
  <2>1. task[j].at = "finish" /\ task[j].kind # "backup" /\ (Stepped(j, "again") \/ Left(j))
    BY <1>6, SaveResultMoves
  <2> QED BY <1>2, <1>3, <2>1
<1>7. CASE SaveCompleted(j)
  <2>1. task[j].at = "finish" /\ task[j].kind = "backup" /\ task[j].st = "completed" /\ Local(j)
    BY <1>7, SaveCompletedMoves DEF Local
  <2>2. PICK out \in Outcomes :
          /\ SaveJob(j, Terminal(j), out, FALSE)
          /\ \/ out = "ok" /\ Stepped(j, "retention")
             \/ Stepped(j, "again")
             \/ Failed(j)
    BY <1>7, <2>1, SaveCompletedMoves
  <2>3. HasSnapshot(task[j])
    BY <2>1 DEF HasSnapshot
  <2>4. CASE Stepped(j, "again")
    BY <1>3, <2>1, <2>4
  <2>5. CASE Failed(j)
    BY <2>3, <2>5 DEF Failed, Moved, Became
  <2>6. CASE out = "ok" /\ Stepped(j, "retention")
    <3>1. Terminal(j) \in JobStates
      BY <1>1, <2>1, FinishedFacts DEF Terminal
    <3>2. memState'[j] = Terminal(j) /\ fileState'[j] = Terminal(j) /\ fileKept'[j] = Terminal(j)
      BY <1>1, <2>2, <2>6, <3>1, SaveFacts DEF Applied
    <3> QED BY <2>1, <2>3, <2>6, <3>2 DEF Stepped, Moved, Became, Views
  <2> QED BY <2>2, <2>4, <2>5, <2>6
<1> QED BY <1>4, <1>5, <1>6, <1>7 DEF Saves

LEMMA SavesStored ==
    ASSUME BackupTypes, NEW j \in Jobs \ RemoteJobs, JobStored(j), Saves(j)
    PROVE  JobStored(j)'
<1>1. task[j] \in Tasks /\ TaskFits(j, task[j]) /\ SavesOnly
  BY SaveRunningMoves, SaveUndoMoves, SaveFailedMoves, SaveCompletedMoves, SaveFinalMoves,
     SaveResultMoves, SaveAgainMoves DEF Saves
<1>2. /\ memState[j] \in JobStates /\ UNCHANGED <<snaps, snapsKept, ops>> /\ clock \in Nat
      /\ task[j].kind \in Kinds
  BY <1>1 DEF BackupTypes, StatesTyped, PlansTyped, SavesOnly, Tasks
<1>3. /\ TaskHolds(j, task[j], snaps, snapsKept)
      /\ \A id \in Needed(memState[j]) : Stored(snaps \cap snapsKept, j, id)
  BY <1>1 DEF JobStored, NeedsStored, Views
<1>4. CASE SaveRunning(j)
  <2> DEFINE s == RunningState(j)
             r == ResultOf(j, "running")
  <2>1. s \in JobStates /\ r \in Results /\ r.st = "running"
    BY <1>1, <1>2, RunningFacts, ResultFacts
  <2>2. s.ok = memState[j].ok /\ s.hist = memState[j].hist /\ (s.restore = memState[j].restore \/ s.restore = r)
    BY <1>1, RunningFacts DEF StatusFields
  <2>3. Views(j)' \subseteq Views(j) \cup {s}
    BY <1>4, FirstSave DEF Views
  <2> HIDE DEF s, r
  <2>4. \A id \in Needed(s) : Stored(snaps \cap snapsKept, j, id)
    BY <1>2, <1>3, <2>1, <2>2, NeededGrows
  <2>5. ASSUME task'[j] \in Tasks
        PROVE  TaskHolds(j, task'[j], snaps, snapsKept) /\ TaskSpares(task'[j], Views(j)', memState'[j])
    <3>1. /\ task'[j].id = task[j].id /\ task'[j].snap = task[j].snap
          /\ \/ task'[j].at \in {"lock", "work", "undo"} /\ task'[j].kind = task[j].kind
             \/ task'[j].at = "final" /\ task'[j].kind = "backup" /\ task[j].kind = "aftercheck"
      BY <1>4, <2>5, SaveRunningMoves, FreeIsNoTask DEF Stepped, Moved, Became, Left, Released
    <3>2. task[j].at = "begun"
      BY <1>4, FirstSave
    <3>3. HasSnapshot(task'[j]) => HasSnapshot(task[j])
      BY <3>1 DEF HasSnapshot
    <3> QED BY <1>3, <3>1, <3>2, <3>3 DEF TaskHolds, TaskSpares
  <2> QED BY <1>2, <2>3, <2>4, <2>5, SavedStored
<1>5. CASE ~SaveRunning(j)
  <2>1. PICK st \in {"completed", "failed"} :
          LET s == Updated(memState[j], task[j].kind, ResultOf(j, st)) IN
          /\ st = "failed" \/ (st = task[j].st /\ task[j].at \in {"finish", "again", "final"})
          /\ memState'[j] \in {memState[j], s}
          /\ fileState'[j] \in {fileState[j], s}
          /\ fileKept'[j] \in {fileKept[j], s}
    BY <1>5, LaterSaves
  <2> DEFINE s == Updated(memState[j], task[j].kind, ResultOf(j, st))
             r == ResultOf(j, st)
  <2>2. Views(j)' \subseteq Views(j) \cup {s}
    BY <2>1 DEF Views
  <2>3. /\ s \in JobStates /\ r \in Results /\ r.st = st
        /\ task[j].kind \in {"backup", "restore"} => r.snap = IF st = "failed" THEN None ELSE task[j].snap
    BY <1>1, <1>2, FinishedFacts, ResultFacts
  <2>4. /\ s.restore = IF task[j].kind = "restore" THEN r ELSE memState[j].restore
        /\ s.ok = IF task[j].kind = "backup" /\ st = "completed" THEN r ELSE memState[j].ok
        /\ s.hist = IF task[j].kind = "restore" THEN Prepend(memState[j].hist, r) ELSE memState[j].hist
    BY <1>1, <1>2, FinishedFacts, FieldNames DEF StatusFields, Kinds
  <2>5. st = "completed" =>
          /\ task[j].kind = "backup" => HasSnapshot(task[j])
          /\ task[j].st = "completed"
    BY <2>1 DEF HasSnapshot
  <2> HIDE DEF s, r
  <2>6. \A id \in Needed(s) : Stored(snaps \cap snapsKept, j, id)
    <3>1. CASE task[j].kind \notin {"backup", "restore"}
      BY <1>3, <2>4, <3>1, NeededSame
    <3>2. CASE task[j].kind = "backup"
      <4>1. \A id \in Needed(s) : id \in Needed(memState[j]) \/ (st = "completed" /\ id = task[j].snap)
        BY <1>2, <2>3, <2>4, <3>2, NeededGrows
      <4> QED BY <1>3, <2>5, <3>2, <4>1 DEF TaskHolds
    <3>3. CASE task[j].kind = "restore"
      <4>1. \A id \in Needed(s) : id \in Needed(memState[j]) \/ (st = "completed" /\ id = task[j].snap)
        BY <1>2, <2>3, <2>4, <3>3, NeededGrows
      <4>2. None \notin Needed(s) \/ None \in Needed(memState[j])
        BY <2>4, <3>3 DEF Needed, Referenced
      <4> QED BY <1>3, <3>3, <4>1, <4>2 DEF TaskHolds
    <3> QED BY <3>1, <3>2, <3>3
  <2>7. ASSUME task'[j] \in Tasks
        PROVE  TaskHolds(j, task'[j], snaps, snapsKept) /\ TaskSpares(task'[j], Views(j)', memState'[j])
    <3>1. /\ task'[j].id = task[j].id /\ task'[j].snap = task[j].snap
          /\ task'[j].kind = "restore" => task[j].kind = "restore"
          /\ task'[j].at \in {"retention", "again", "final", "finish"}
          /\ HasSnapshot(task'[j]) => HasSnapshot(task[j])
          /\ task'[j].at = "retention" =>
               /\ task[j].kind = "backup" /\ task[j].st = "completed" /\ task[j].at = "finish"
               /\ \A x \in Views(j)' : x = Terminal(j)
      BY <1>5, <2>7, LaterTask
    <3>2. TaskHolds(j, task'[j], snaps, snapsKept)
      BY <1>3, <3>1 DEF TaskHolds
    <3>3. ASSUME task'[j].at = "retention"
          PROVE  \A x \in Views(j)' : \A id \in Needed(x) : id \in Referenced(memState'[j]) \/ id = task[j].id
      <4>1. HasSnapshot(task[j])
        BY <3>1, <3>3 DEF HasSnapshot
      <4>2. /\ task[j].snap = task[j].id /\ memState'[j] = Terminal(j)
            /\ \A x \in Views(j)' : x = memState'[j]
        BY <1>3, <3>1, <3>3, <4>1 DEF TaskHolds, Views
      <4>3. Terminal(j).ok.snap = task[j].snap
        BY <1>1, <1>2, <3>1, <3>3, FinishedFacts, ResultFacts DEF Terminal
      <4> QED BY <4>2, <4>3 DEF Needed
    <3> QED BY <3>1, <3>2, <3>3 DEF TaskSpares
  <2> QED BY <1>2, <2>2, <2>6, <2>7, SavedStored
<1> QED BY <1>4, <1>5

LEMMA RemindStored ==
    ASSUME BackupTypes, NEW j \in Jobs \ RemoteJobs, JobStored(j), Remind(j)
    PROVE  JobStored(j)'
<1>1. SavesOnly /\ task' = task
  BY RemindMoves
<1>2. PICK s \in JobStates :
        /\ s.ok = memState[j].ok /\ s.hist = memState[j].hist /\ s.restore = memState[j].restore
        /\ memState'[j] \in {memState[j], s}
        /\ fileState'[j] \in {fileState[j], s} /\ fileKept'[j] \in {fileKept[j], s}
  BY RemindMoves
<1>3. Needed(s) = Needed(memState[j]) /\ Referenced(s) = Referenced(memState[j])
  BY <1>2, NeededSame
<1>4. /\ Views(j)' \subseteq Views(j) \cup {s} /\ memState[j] \in Views(j)
      /\ Referenced(memState'[j]) = Referenced(memState[j])
  BY <1>2, <1>3 DEF Views
<1>5. \A id \in Needed(s) : Stored(snaps \cap snapsKept, j, id)
  BY <1>3, <1>4 DEF JobStored, NeedsStored
<1>6. ASSUME task[j] \in Tasks PROVE TaskSpares(task[j], Views(j)', memState'[j])
  BY <1>3, <1>4, <1>6 DEF JobStored, TaskSpares
<1> QED BY <1>1, <1>4, <1>5, <1>6, SavedStored DEF SavesOnly, JobStored

LEMMA BegunStored ==
    ASSUME BackupTypes, NEW j \in Jobs \ RemoteJobs, JobStored(j), Begins(j)
    PROVE  JobStored(j)'
<1>1. /\ UNCHANGED <<memState, fileState, fileKept, snaps, snapsKept>>
      /\ task'[j].kind # "aftercheck" /\ task'[j].at = "begun" /\ task'[j].id = ops + 1
      /\ task'[j].snap = None /\ ops' = ops + 1
  BY DEF Begins, Begun
<1>2. Views(j)' = Views(j)
  BY <1>1 DEF Views
<1>3. ops \in Nat /\ snaps \subseteq SnapRecords /\ snapsKept \subseteq SnapRecords
  BY DEF BackupTypes, PlansTyped, StoresTyped
<1>4. NoRecord(snaps \cup snapsKept, j, ops + 1) /\ Numbered(snaps \cup snapsKept, j, ops + 1)
  BY <1>3 DEF JobStored, Numbered, NoRecord, SnapRecords
<1>5. TaskHolds(j, task'[j], snaps, snapsKept) /\ TaskSpares(task'[j], Views(j), memState[j])
  BY <1>1, <1>4 DEF TaskHolds, TaskSpares, HasSnapshot
<1> QED BY <1>1, <1>2, <1>4, <1>5 DEF JobStored

\* Damage leaves a record where it was.
LEMMA DamageStored ==
    ASSUME BackupTypes, NEW j \in Jobs \ RemoteJobs, JobStored(j), Damage
    PROVE  JobStored(j)'
<1>1. UNCHANGED <<memState, fileState, fileKept, task, ops>>
  BY DEF Damage, stateVars
<1>2. PICK s \in snaps, what \in {"data", "manifest"} :
        /\ snaps' = (snaps \ {s}) \cup {[s EXCEPT !.rot = what]}
        /\ snapsKept' = IF s \in snapsKept
                        THEN (snapsKept \ {s}) \cup {[s EXCEPT !.rot = what]} ELSE snapsKept
        /\ s.rot = "none"
  BY DEF Damage
<1> DEFINE d == [s EXCEPT !.rot = what]
<1>3. d.job = s.job /\ d.id = s.id /\ d.rot = what
  BY DEF BackupTypes, StoresTyped, SnapRecords
<1>4. /\ snaps' = (snaps \ {s}) \cup {d}
      /\ snapsKept' = IF s \in snapsKept THEN (snapsKept \ {s}) \cup {d} ELSE snapsKept
  BY <1>2
<1> HIDE DEF d
<1>5. \A id : /\ Stored(snaps \cap snapsKept, j, id) => Stored(snaps' \cap snapsKept', j, id)
              /\ Stored(snaps, j, id) => Stored(snaps', j, id)
              /\ NoRecord(snaps \cup snapsKept, j, id) => NoRecord(snaps' \cup snapsKept', j, id)
  BY <1>2, <1>3, <1>4 DEF Stored, NoRecord
<1>6. Single(snaps' \cup snapsKept', j)
  <2>1. \A x \in snaps' \cup snapsKept' : x = d \/ (x \in snaps \cup snapsKept /\ x # s)
    BY <1>4
  <2> QED BY <1>2, <1>3, <2>1 DEF Single, JobStored
<1>7. Numbered(snaps' \cup snapsKept', j, ops)
  BY <1>2, <1>3, <1>4 DEF Numbered, JobStored
<1>8. Views(j)' = Views(j)
  BY <1>1 DEF Views
<1>9. NeedsStored(j, Views(j), snaps', snapsKept')
  BY <1>5 DEF JobStored, NeedsStored
<1>10. ASSUME task[j] \in Tasks PROVE TaskHolds(j, task[j], snaps', snapsKept')
  BY <1>5, <1>10 DEF JobStored, TaskHolds
<1> QED BY <1>1, <1>6, <1>7, <1>8, <1>9, <1>10 DEF JobStored

\* Nobody works on j afterwards, and its states need no more than before.
LEMMA StoppedStored ==
    ASSUME NEW j, JobStored(j), task'[j] = Free, ops' = ops,
           Single(snaps' \cup snapsKept', j), Numbered(snaps' \cup snapsKept', j, ops),
           NeedsStored(j, Views(j), snaps', snapsKept'),
           \A x \in Views(j)' : \A id \in Needed(x) : \E y \in Views(j) : id \in Needed(y)
    PROVE  JobStored(j)'
<1>1. NeedsStored(j, Views(j)', snaps', snapsKept')
  BY DEF NeedsStored
<1> QED BY <1>1, FreeIsNoTask DEF JobStored

LEMMA TornFacts ==
    ASSUME NEW S \in SUBSET SnapRecords
    PROVE  \A x \in Torn(S) : x.rot = "torn" /\ \E s \in S : x.job = s.job /\ x.id = s.id
  BY DEF Torn, SnapRecords

LEMMA KillStored ==
    ASSUME BackupTypes, NEW j \in Jobs \ RemoteJobs, JobStored(j), Kill
    PROVE  JobStored(j)'
<1>1. /\ task'[j] = Free /\ memState'[j] = NoJobState /\ ops' = ops
      /\ UNCHANGED <<fileState, fileKept>>
  BY DEF Kill, Stopped
<1>2. PICK cut \in {{}} \cup {Snap(s.job, s.id) :
                             s \in UNION {task[i].todo : i \in {k \in Jobs : Held(k)}}} :
        /\ snaps' = (snaps \ cut) \cup Torn(cut)
        /\ snapsKept' = (snapsKept \ cut) \cup Torn(cut \cap snapsKept)
  BY DEF Kill, Tear
<1>3. ASSUME cut # {}
      PROVE  \E k \in Jobs : task[k] \in Tasks /\ \E s \in task[k].todo : cut = Snap(s.job, s.id)
  BY <1>2, <1>3 DEF Held, BackupTypes, TasksTyped
<1>4. /\ cut \subseteq snaps
      /\ \A s \in cut : s.job = j => \A x \in Views(j) : s.id \notin Needed(x)
  <2>1. CASE cut = {}
    BY <2>1
  <2>2. CASE cut # {}
    <3>1. PICK k \in Jobs : task[k] \in Tasks /\ \E s \in task[k].todo : cut = Snap(s.job, s.id)
      BY <1>3, <2>2
    <3>2. PICK s \in task[k].todo : cut = Snap(s.job, s.id)
      BY <3>1
    <3>3. s.job = k /\ task[k].at = "prune"
      BY <3>1, <3>2 DEF BackupTypes, TasksTyped, TaskFits
    <3>4. k = j => \A x \in Views(j) : s.id \notin Needed(x)
      BY <3>1, <3>2, <3>3 DEF JobStored, TaskSpares
    <3> QED BY <3>2, <3>3, <3>4 DEF Snap
  <2> QED BY <2>1, <2>2
<1>5. snaps \subseteq SnapRecords
  BY DEF BackupTypes, StoresTyped
<1>6. \A x \in Torn(cut) \cup Torn(cut \cap snapsKept) :
        x.rot = "torn" /\ \E s \in snaps : x.job = s.job /\ x.id = s.id
  BY <1>4, <1>5, TornFacts
<1>7. Single(snaps' \cup snapsKept', j) /\ Numbered(snaps' \cup snapsKept', j, ops)
  <2>1. \A x \in snaps' \cup snapsKept' : \/ x \in snaps \cup snapsKept
                                          \/ x.rot = "torn" /\ \E s \in snaps \cup snapsKept : x.job = s.job /\ x.id = s.id
    BY <1>2, <1>6
  <2> QED BY <2>1, CutStored
<1>8. NeedsStored(j, Views(j), snaps', snapsKept')
  <2>1. \A s \in snaps \cap snapsKept : s \notin cut => s \in snaps' \cap snapsKept'
    BY <1>2
  <2> QED BY <1>4, <2>1 DEF JobStored, NeedsStored, Stored
<1>9. \A x \in Views(j)' : \A id \in Needed(x) : \E y \in Views(j) : id \in Needed(y)
  BY <1>1, NothingNeeded DEF Views
<1> QED BY <1>1, <1>7, <1>8, <1>9, StoppedStored

LEMMA PowerLossStored ==
    ASSUME BackupTypes, NEW j \in Jobs \ RemoteJobs, JobStored(j), PowerLoss
    PROVE  JobStored(j)'
<1>1. /\ task'[j] = Free /\ memState'[j] = NoJobState /\ ops' = ops
      /\ fileState' \in {fileState, fileKept} /\ fileKept' = fileState'
  BY DEF PowerLoss, Stopped
<1>2. PICK new \in SUBSET (snaps \ snapsKept), back \in SUBSET (snapsKept \ snaps),
           part \in SUBSET (snapsKept \ snaps) :
        /\ snaps' = (snaps \cap snapsKept) \cup new \cup back \cup Torn(part)
        /\ snapsKept' = snaps'
  BY DEF PowerLoss
<1>3. snapsKept \subseteq SnapRecords
  BY DEF BackupTypes, StoresTyped
<1>4. \A x \in Torn(part) : x.rot = "torn" /\ \E s \in snapsKept : x.job = s.job /\ x.id = s.id
  BY <1>2, <1>3, TornFacts
<1>5. Single(snaps' \cup snapsKept', j) /\ Numbered(snaps' \cup snapsKept', j, ops)
  <2>1. \A x \in snaps' \cup snapsKept' : \/ x \in snaps \cup snapsKept
                                          \/ x.rot = "torn" /\ \E s \in snaps \cup snapsKept : x.job = s.job /\ x.id = s.id
    BY <1>2, <1>4
  <2> QED BY <2>1, CutStored
<1>6. NeedsStored(j, Views(j), snaps', snapsKept')
  <2>1. \A s \in snaps \cap snapsKept : s \in snaps' \cap snapsKept'
    BY <1>2
  <2> QED BY <2>1 DEF JobStored, NeedsStored, Stored
<1>7. \A x \in Views(j)' : \A id \in Needed(x) : \E y \in Views(j) : id \in Needed(y)
  BY <1>1, NothingNeeded DEF Views
<1> QED BY <1>1, <1>5, <1>6, <1>7, StoppedStored

\* The manager ends, and the next one starts from the state file.
LEMMA RestartStored ==
    ASSUME BackupTypes, NEW j \in Jobs \ RemoteJobs, JobStored(j), ReleaseStateLock \/ Open
    PROVE  JobStored(j)'
<1>1. task'[j] = Free /\ UNCHANGED <<snaps, snapsKept, ops>>
  BY DEF ReleaseStateLock, Open, Held, storeVars, BackupTypes, TasksTyped
<1>2. fileState[j] \in JobStates /\ clock \in Nat
  BY DEF BackupTypes, StatesTyped, PlansTyped
<1>3. \A id \in Needed(Recovered(fileState[j])) : id \in Needed(fileState[j])
  <2> DEFINE u == Recovered(fileState[j])
             cut == Interrupted(fileState[j].restore, 0)
             old == fileState[j]
  <2>1. /\ u \in JobStates /\ u.ok = old.ok /\ u.restore = cut /\ cut \in Results
        /\ old.restore.st = "running" => cut.st = "failed"
        /\ old.restore.st # "running" => cut = old.restore
        /\ u.hist = IF old.restore.st = "running" THEN Prepend(old.hist, cut) ELSE old.hist
    BY <1>2, RecoveredFacts
  <2> HIDE DEF u, cut, old
  <2>2. CASE old.restore.st = "running"
    BY <1>2, <2>1, <2>2, NeededGrows DEF u, old
  <2>3. CASE old.restore.st # "running"
    BY <2>1, <2>3, NeededSame DEF u, old
  <2> QED BY <2>2, <2>3
<1>4. /\ memState'[j] \in {memState[j], NoJobState, Recovered(fileState[j])}
      /\ fileState'[j] \in {fileState[j], Recovered(fileState[j])}
      /\ fileKept'[j] \in {fileKept[j], Recovered(fileState[j])}
  BY DEF ReleaseStateLock, Open
<1>5. \A x \in Views(j)' : \A id \in Needed(x) : \E y \in Views(j) : id \in Needed(y)
  BY <1>3, <1>4, NothingNeeded DEF Views
<1> QED BY <1>1, <1>5, StoppedStored DEF JobStored

\* The remote steps are no local job's.
LEMMA WorksStored ==
    ASSUME BackupTypes, NEW j \in Jobs \ RemoteJobs, JobStored(j), Works(j)
    PROVE  JobStored(j)'
<1>1. Local(j)
  BY DEF Local
<1>2. ~(CaptureCredentials(j) \/ RemoteBackup(j) \/ RemoteDrill(j) \/ RemoteRestore(j))
  BY <1>1, CaptureCredentialsMoves, RemoteBackupMoves, RemoteDrillMoves, RemoteRestoreMoves
  DEF TaskFits
<1> QED BY <1>2, ReadingStored, SnapshotStored, PruneStored DEF Works

LEMMA StoreStep == StoreInv /\ [BackupNext]_backupVars => StoreInv'
<1> SUFFICES ASSUME StoreInv, [BackupNext]_backupVars PROVE StoreInv'
  OBVIOUS
<1>1. BackupTypes /\ BackupTypes' /\ \A k \in Jobs \ RemoteJobs : JobStored(k)
  BY BackupTypesStep DEF StoreInv
<1> SUFFICES ASSUME NEW k \in Jobs \ RemoteJobs PROVE JobStored(k)'
  BY <1>1 DEF StoreInv
<1>2. ASSUME NEW j \in Jobs, Works(j) \/ Saves(j) \/ Begins(j) \/ Remind(j) PROVE JobStored(k)'
  <2>1. Aside(j)
    BY <1>1, <1>2, WorkAside, SaveAside, BegunAside, RemindMoves DEF Works, Saves, Begins
  <2>2. CASE j = k
    BY <1>1, <1>2, <2>2, WorksStored, SavesStored, BegunStored, RemindStored
  <2>3. CASE j # k
    BY <1>1, <2>1, <2>3, AsideStored
  <2> QED BY <2>2, <2>3
<1>3. CASE Rests \/ \E j \in Jobs : TakeTarget(j)
  <2>1. UNCHANGED <<memState, fileState, fileKept, task, snaps, snapsKept, ops>>
    BY <1>3 DEF Rests, TakeTarget, stateVars, storeVars
  <2> QED BY <1>1, <2>1, QuietStored DEF JobStored
<1> QED BY <1>1, <1>2, <1>3, StepCases, DamageStored, KillStored, PowerLossStored, RestartStored

LEMMA StoreBegins == BackupInit => StoreInv
<1> SUFFICES ASSUME BackupInit, NEW j \in Jobs \ RemoteJobs PROVE JobStored(j)
  BY BackupTypesInit DEF StoreInv
<1>1. task[j] = Free /\ Views(j) = {NoJobState} /\ snaps = {} /\ snapsKept = {}
  BY DEF BackupInit, Views
<1> QED BY <1>1, FreeIsNoTask, NothingNeeded DEF JobStored, Single, Numbered, NeedsStored

\* RestorableKept, for any number of jobs, operations, faults, kills and power
\* losses: the snapshots the last successful run and the restores on record
\* refer to are there, in what is visible and in what a power loss leaves.
THEOREM RestorableStays == BackupSpec => []RestorableKept
<1>1. StoreInv => RestorableKept
  <2> SUFFICES ASSUME StoreInv, NEW j \in Jobs \ RemoteJobs
               PROVE  /\ \A id \in Needed(memState[j]) \cup Needed(fileState[j]) : Stored(snaps, j, id)
                      /\ \A id \in Needed(fileKept[j]) : Stored(snapsKept, j, id)
    BY DEF RestorableKept
  <2>1. \A x \in Views(j) : \A id \in Needed(x) : Stored(snaps \cap snapsKept, j, id)
    BY DEF StoreInv, JobStored, NeedsStored
  <2>2. \A id : Stored(snaps \cap snapsKept, j, id) => Stored(snaps, j, id) /\ Stored(snapsKept, j, id)
    BY DEF Stored
  <2> QED BY <2>1, <2>2 DEF Views
<1> QED BY <1>1, StoreBegins, StoreStep, PTL DEF BackupSpec

-----------------------------------------------------------------------------
(* The restored tree                                                        *)

\* A state whose latest restore on record completed, and which shows no other
\* under way, tells what the target holds.
Placed(tgt, x) ==
    x.restore.st # "running" /\ x.hist # <<>> /\ x.hist[1].st = "completed" =>
        tgt \in {None, Lost, x.hist[1].snap}

\* While a restore works every state shows it running; what it installed is
\* there until somebody takes it away or the power fails.
TaskPlaces(t, tgt, V) ==
    t.kind = "restore" =>
        /\ t.at \in {"lock", "work", "command", "install", "recheck", "finish"} =>
             \A x \in V : x.restore.st = "running"
        /\ t.at = "recheck" \/ (t.at \in {"finish", "again"} /\ t.st = "completed") =>
             tgt \in {None, Lost, t.snap}

JobPlaced(j) ==
    /\ target[j] # Rotten
    /\ \A x \in Views(j) : Placed(target[j], x)
    /\ task[j] \in Tasks => TaskPlaces(task[j], target[j], Views(j))
PlacedInv == StoreInv /\ SettledInv /\ \A j \in Jobs \ RemoteJobs : JobPlaced(j)

LEMMA PlacedSame ==
    ASSUME NEW tgt, NEW x, NEW y, y.restore = x.restore, y.hist = x.hist, Placed(tgt, x)
    PROVE  Placed(tgt, y)
  BY DEF Placed

\* The latest restore on record is the one put there last.
LEMMA FirstEntry ==
    ASSUME NEW hist \in Seq(Results), NEW r \in Results
    PROVE  Prepend(hist, r)[1] = r
  BY PrependFacts

LEMMA AsidePlaced ==
    ASSUME NEW j, Aside(j), NEW k \in Jobs, k # j, JobPlaced(k)
    PROVE  JobPlaced(k)'
<1>1. /\ task'[k] = task[k] /\ target'[k] = target[k] /\ Views(k)' \subseteq Views(k)
  BY DEF Aside, Views
<1> QED BY <1>1 DEF JobPlaced, TaskPlaces

\* A restore's steps between its saves.
LEMMA RestoreWorks ==
    ASSUME BackupTypes, NEW j \in Jobs \ RemoteJobs, Works(j), task'[j] \in Tasks,
           task'[j].kind = "restore"
    PROVE  /\ task[j].kind = "restore" /\ task[j].at \in {"lock", "work", "install", "recheck"}
           /\ task'[j].at \in {"work", "install", "recheck", "finish"}
           /\ task'[j].at = "recheck" => Install(j)
           /\ task'[j].at = "finish" /\ task'[j].st = "completed" =>
                task[j].at = "recheck" /\ task'[j].snap = task[j].snap /\ target' = target
<1>1. Local(j)
  BY DEF Local
<1>2. CASE LockTarget(j) \/ Recheck(j)
  BY <1>2, LockTargetMoves, RecheckMoves DEF Stepped, Failed, Completed, Moved, Became
<1>3. CASE StageRestore(j) \/ Install(j)
  BY <1>3, StageRestoreMoves, InstallMoves DEF Stepped, Failed, Moved, Became
<1>4. CASE CopySource(j) \/ CheckRetention(j) \/ Drill(j) \/ VerifyTarget(j)
  BY <1>4, CopySourceMoves, CheckRetentionMoves, DrillMoves, VerifyTargetMoves
  DEF Stepped, Failed, Completed, Moved, Became
<1>5. CASE FinalizeSnapshot(j) \/ SyncSnapshot(j) \/ CheckManifest(j)
  BY <1>5, FinalizeSnapshotMoves, SyncSnapshotMoves, CheckManifestMoves
  DEF TaskFits, Stepped, Failed, Moved, Became
<1>6. CASE ListSnapshots(j) \/ RemoveSnapshot(j) \/ SyncRetention(j)
  BY <1>6, ListSnapshotsMoves, RemoveSnapshotMoves, SyncRetentionMoves
  DEF TaskFits, ChecksNext, Became
<1>7. ~(CaptureCredentials(j) \/ RemoteBackup(j) \/ RemoteDrill(j) \/ RemoteRestore(j))
  BY <1>1, CaptureCredentialsMoves, RemoteBackupMoves, RemoteDrillMoves, RemoteRestoreMoves
  DEF TaskFits
<1> QED BY <1>2, <1>3, <1>4, <1>5, <1>6, <1>7 DEF Works

LEMMA WorksPlaced ==
    ASSUME BackupTypes, NEW j \in Jobs \ RemoteJobs, JobStored(j), JobPlaced(j), Works(j)
    PROVE  JobPlaced(j)'
<1>1. Aside(j) /\ SavesNothing
  BY WorkAside DEF Works
<1>2. Views(j)' = Views(j)
  BY <1>1 DEF SavesNothing, stateVars, Views
<1>3. target \in [Jobs -> Marks] /\ j \in Jobs
  BY DEF BackupTypes, StoresTyped
<1>4. CASE Install(j)
  <2>1. /\ task[j] \in Tasks /\ task[j].kind = "restore" /\ task[j].at = "install"
        /\ \/ /\ Stepped(j, "recheck") /\ target' = [target EXCEPT ![j] = task[j].snap]
           \/ /\ Failed(j)
              /\ target' \in {target, [target EXCEPT ![j] = IF @ = None THEN task[j].snap ELSE @]}
    BY <1>4, InstallMoves DEF TaskFits
  <2>2. task[j].snap = None \/ Stored(snaps \cap snapsKept, j, task[j].snap)
    BY <2>1 DEF JobStored, TaskHolds
  <2>3. task[j].snap # Rotten
    <3>1. None # Rotten
      BY BackupAssumption DEF Rotten
    <3>2. snaps \subseteq SnapRecords
      BY DEF BackupTypes, StoresTyped
    <3>3. Stored(snaps \cap snapsKept, j, task[j].snap) => task[j].snap \in Nat
      BY <3>2 DEF Stored, SnapRecords
    <3> QED BY <2>2, <3>1, <3>3 DEF Rotten
  <2>4. \A x \in Views(j) : x.restore.st = "running"
    BY <2>1 DEF JobPlaced, TaskPlaces
  <2>5. target'[j] # Rotten /\ \A x \in Views(j) : Placed(target'[j], x)
    BY <1>3, <2>1, <2>3, <2>4 DEF JobPlaced, Placed
  <2>6. TaskPlaces(task'[j], target'[j], Views(j))
    BY <1>3, <2>1, <2>4 DEF TaskPlaces, Stepped, Failed, Moved, Became
  <2> QED BY <1>2, <2>5, <2>6 DEF JobPlaced
<1>5. CASE ~Install(j)
  <2>1. target' = target
    BY <1>5, LockTargetMoves, RecheckMoves, CopySourceMoves, FinalizeSnapshotMoves,
       SyncSnapshotMoves, CheckManifestMoves, ListSnapshotsMoves, RemoveSnapshotMoves,
       SyncRetentionMoves, CheckRetentionMoves, DrillMoves, StageRestoreMoves, VerifyTargetMoves,
       CaptureCredentialsMoves, RemoteBackupMoves, RemoteDrillMoves, RemoteRestoreMoves DEF Works
  <2>2. ASSUME task'[j] \in Tasks, task'[j].kind = "restore"
        PROVE  TaskPlaces(task'[j], target[j], Views(j))
    <3>1. task[j] \in Tasks
      BY FreeIsNoTask, <2>2, RestoreWorks DEF BackupTypes, TasksTyped
    <3>2. TaskPlaces(task[j], target[j], Views(j))
      BY <3>1 DEF JobPlaced
    <3> QED BY <1>5, <2>2, <3>2, RestoreWorks DEF TaskPlaces
  <2>3. task'[j] \in Tasks => TaskPlaces(task'[j], target[j], Views(j))
    BY <2>2 DEF TaskPlaces
  <2> QED BY <1>2, <2>1, <2>3 DEF JobPlaced
<1> QED BY <1>4, <1>5

\* A restore's later saves.
LEMMA RestoreSaves ==
    ASSUME BackupTypes, NEW j \in Jobs \ RemoteJobs, Saves(j), ~SaveRunning(j), task'[j] \in Tasks,
           task'[j].kind = "restore"
    PROVE  /\ task[j].kind = "restore" /\ task[j].at = "finish" /\ task'[j].at = "again"
           /\ task'[j].st = task[j].st /\ task'[j].snap = task[j].snap
<1>1. CASE SaveUndo(j) \/ SaveAgain(j) \/ SaveFailed(j)
  BY <1>1, SaveUndoMoves, SaveAgainMoves, SaveFailedMoves, FreeIsNoTask
  DEF Left, Released, Became
<1>2. CASE SaveCompleted(j) \/ SaveFinal(j)
  BY <1>2, SaveCompletedMoves, SaveFinalMoves, FreeIsNoTask
  DEF TaskFits, Released, Stepped, Failed, Moved, Became, ChecksNext
<1>3. CASE SaveResult(j)
  BY <1>3, SaveResultMoves, FreeIsNoTask DEF Left, Released, Stepped, Moved, Became
<1> QED BY <1>1, <1>2, <1>3 DEF Saves

LEMMA SavesPlaced ==
    ASSUME BackupTypes, NEW j \in Jobs \ RemoteJobs, JobPlaced(j), Saves(j)
    PROVE  JobPlaced(j)'
<1>1. task[j] \in Tasks /\ TaskFits(j, task[j]) /\ SavesOnly
  BY SaveRunningMoves, SaveUndoMoves, SaveFailedMoves, SaveCompletedMoves, SaveFinalMoves,
     SaveResultMoves, SaveAgainMoves DEF Saves
<1>2. /\ memState[j] \in JobStates /\ target' = target /\ clock \in Nat
      /\ task[j].kind \in Kinds
  BY <1>1 DEF BackupTypes, StatesTyped, PlansTyped, SavesOnly, Tasks
<1>3. /\ TaskPlaces(task[j], target[j], Views(j)) /\ Placed(target[j], memState[j])
  BY <1>1 DEF JobPlaced, Views
<1>4. SUFFICES /\ \A x \in Views(j)' : Placed(target[j], x)
               /\ task'[j] \in Tasks => TaskPlaces(task'[j], target[j], Views(j)')
  BY <1>2 DEF JobPlaced
<1>5. CASE SaveRunning(j)
  <2> DEFINE s == RunningState(j)
  <2>1. /\ s.hist = memState[j].hist
        /\ task[j].kind = "restore" => s.restore.st = "running"
        /\ task[j].kind # "restore" => s.restore = memState[j].restore
    BY <1>1, <1>2, RunningFacts, ResultFacts, FieldNames DEF StatusFields, Kinds
  <2>2. Views(j)' \subseteq Views(j) \cup {s}
    BY <1>5, FirstSave DEF Views
  <2> HIDE DEF s
  <2>3. Placed(target[j], s)
    BY <1>3, <2>1, PlacedSame DEF Placed
  <2>4. ASSUME task'[j] \in Tasks, task'[j].kind = "restore"
        PROVE  TaskPlaces(task'[j], target[j], Views(j)')
    <3>1. task'[j].at = "undo" \/ (task'[j].at = "lock" /\ task[j].kind = "restore")
      BY <1>5, <2>4, SaveRunningMoves, FreeIsNoTask DEF Stepped, Moved, Became, Left, Released
    <3>2. task'[j].at = "lock" => \A x \in Views(j)' : x = s
      BY <1>5, <2>4, FirstSave DEF Views, s
    <3> QED BY <2>1, <3>1, <3>2 DEF TaskPlaces
  <2> QED BY <2>2, <2>3, <2>4 DEF JobPlaced, TaskPlaces
<1>6. CASE ~SaveRunning(j)
  <2>1. PICK st \in {"completed", "failed"} :
          LET s == Updated(memState[j], task[j].kind, ResultOf(j, st)) IN
          /\ st = "failed" \/ (st = task[j].st /\ task[j].at \in {"finish", "again", "final"})
          /\ memState'[j] \in {memState[j], s}
          /\ fileState'[j] \in {fileState[j], s}
          /\ fileKept'[j] \in {fileKept[j], s}
    BY <1>6, LaterSaves
  <2> DEFINE s == Updated(memState[j], task[j].kind, ResultOf(j, st))
             r == ResultOf(j, st)
  <2>2. Views(j)' \subseteq Views(j) \cup {s}
    BY <2>1 DEF Views
  <2>3. /\ s \in JobStates /\ r \in Results /\ r.st = st
        /\ task[j].kind = "restore" /\ st = "completed" => r.snap = task[j].snap
    BY <1>1, <1>2, FinishedFacts, ResultFacts
  <2>4. /\ task[j].kind # "restore" => s.restore = memState[j].restore /\ s.hist = memState[j].hist
        /\ task[j].kind = "restore" => s.hist = Prepend(memState[j].hist, r)
    BY <1>1, <1>2, FinishedFacts, FieldNames DEF StatusFields, Kinds
  <2>5. task[j].kind = "restore" /\ st = "completed" =>
          task[j].st = "completed" /\ task[j].at \in {"finish", "again"}
    BY <1>1, <2>1 DEF TaskFits
  <2> HIDE DEF s, r
  <2>6. Placed(target[j], s)
    <3>1. CASE task[j].kind # "restore"
      BY <1>3, <2>4, <3>1, PlacedSame
    <3>2. CASE task[j].kind = "restore"
      <4>1. memState[j].hist \in Seq(Results)
        BY <1>2 DEF JobStates
      <4>2. s.hist[1] = r
        BY <2>3, <2>4, <3>2, <4>1, FirstEntry
      <4> QED BY <1>3, <2>3, <2>5, <3>2, <4>2 DEF Placed, TaskPlaces
    <3> QED BY <3>1, <3>2
  <2>7. ASSUME task'[j] \in Tasks, task'[j].kind = "restore"
        PROVE  TaskPlaces(task'[j], target[j], Views(j)')
    BY <1>3, <1>6, <2>7, RestoreSaves DEF TaskPlaces
  <2> QED BY <2>2, <2>6, <2>7 DEF JobPlaced, TaskPlaces
<1> QED BY <1>5, <1>6

\* Nobody works on j afterwards, and its states tell no more than before.
LEMMA StoppedPlaced ==
    ASSUME NEW j, JobPlaced(j), task'[j] = Free,
           \A x \in Views(j)' : \E y \in Views(j) \cup {NoJobState} : x = y \/ x = Recovered(y),
           \A y \in Views(j) : y \in JobStates, clock \in Nat,
           target'[j] = target[j] \/ target'[j] \in {None, Lost}
    PROVE  JobPlaced(j)'
<1>1. \A y \in Views(j) \cup {NoJobState} : y \in JobStates /\ Placed(target[j], y)
  BY NoJobStateTyped DEF JobPlaced, Placed
<1>2. ASSUME NEW y \in JobStates, Placed(target[j], y)
      PROVE  Placed(target[j], Recovered(y))
  <2> DEFINE u == Recovered(y)
             cut == Interrupted(y.restore, 0)
  <2>1. /\ u.restore = cut /\ cut \in Results
        /\ y.restore.st = "running" => cut.st = "failed"
        /\ y.restore.st # "running" => cut = y.restore
        /\ u.hist = IF y.restore.st = "running" THEN Prepend(y.hist, cut) ELSE y.hist
    BY RecoveredFacts
  <2>2. y.hist \in Seq(Results)
    BY DEF JobStates
  <2> HIDE DEF u, cut
  <2>3. CASE y.restore.st = "running"
    <3>1. u.hist[1] = cut
      BY <2>1, <2>2, <2>3, FirstEntry
    <3> QED BY <2>1, <2>3, <3>1 DEF Placed, u
  <2>4. CASE y.restore.st # "running"
    BY <1>2, <2>1, <2>4, PlacedSame DEF u
  <2> QED BY <2>3, <2>4
<1>3. \A x \in Views(j)' : Placed(target[j], x)
  BY <1>1, <1>2
<1>4. \A x \in Views(j)' : Placed(target'[j], x)
  BY <1>3 DEF Placed
<1>5. target'[j] # Rotten
  BY BackupAssumption DEF JobPlaced, Rotten, Lost
<1> QED BY <1>4, <1>5, FreeIsNoTask DEF JobPlaced

LEMMA PlacedStep == PlacedInv /\ [BackupNext]_backupVars => PlacedInv'
<1> SUFFICES ASSUME PlacedInv, [BackupNext]_backupVars PROVE PlacedInv'
  OBVIOUS
<1>1. /\ StoreInv /\ StoreInv' /\ SettledInv' /\ BackupTypes
      /\ \A k \in Jobs \ RemoteJobs : JobStored(k) /\ JobPlaced(k)
  BY StoreStep, SettledStep DEF PlacedInv, StoreInv
<1> SUFFICES ASSUME NEW k \in Jobs \ RemoteJobs PROVE JobPlaced(k)'
  BY <1>1 DEF PlacedInv
<1>2. ASSUME NEW j \in Jobs, Works(j) \/ Saves(j) \/ Begins(j) \/ Remind(j), j # k
      PROVE  JobPlaced(k)'
  <2>1. Aside(j)
    BY <1>1, <1>2, WorkAside, SaveAside, BegunAside, RemindMoves DEF Works, Saves, Begins
  <2> QED BY <1>1, <1>2, <2>1, AsidePlaced
<1>3. CASE Works(k) \/ Saves(k)
  BY <1>1, <1>3, WorksPlaced, SavesPlaced
<1>4. CASE Begins(k)
  <2>1. Views(k)' = Views(k) /\ target' = target /\ task'[k].at = "begun"
    BY <1>4 DEF Begins, Begun, Views
  <2> QED BY <1>1, <2>1 DEF JobPlaced, TaskPlaces
<1>5. CASE Remind(k)
  <2>1. SavesOnly /\ task' = task
    BY <1>1, <1>5, RemindMoves
  <2>2. PICK s \in JobStates :
          /\ s.hist = memState[k].hist /\ s.restore = memState[k].restore
          /\ memState'[k] \in {memState[k], s}
          /\ fileState'[k] \in {fileState[k], s} /\ fileKept'[k] \in {fileKept[k], s}
    BY <1>1, <1>5, RemindMoves
  <2>3. Views(k)' \subseteq Views(k) \cup {s} /\ memState[k] \in Views(k)
    BY <2>2 DEF Views
  <2>4. Placed(target[k], s)
    BY <1>1, <2>2, <2>3, PlacedSame DEF JobPlaced
  <2> QED BY <1>1, <2>1, <2>2, <2>3, <2>4 DEF JobPlaced, TaskPlaces, SavesOnly
<1>6. CASE Rests \/ Damage \/ \E j \in Jobs : TakeTarget(j)
  <2>1. UNCHANGED <<memState, fileState, fileKept, task>> /\ target'[k] \in {target[k], None}
    BY <1>1, <1>6 DEF Rests, Damage, TakeTarget, stateVars, outside, BackupTypes, StoresTyped
  <2>2. Views(k)' = Views(k)
    BY <2>1 DEF Views
  <2>3. None # Rotten
    BY BackupAssumption DEF Rotten
  <2> QED BY <1>1, <2>1, <2>2, <2>3 DEF JobPlaced, Placed, TaskPlaces
<1>7. CASE ReleaseStateLock \/ Open \/ Kill \/ PowerLoss
  <2>1. task'[k] = Free
    BY <1>1, <1>7 DEF ReleaseStateLock, Open, Kill, PowerLoss, Stopped, Held, BackupTypes, TasksTyped
  <2>2. target'[k] = target[k] \/ target'[k] \in {None, Lost}
    BY <1>1, <1>7 DEF ReleaseStateLock, Open, Kill, PowerLoss, outside
  <2>3. \A x \in Views(k)' : \E y \in Views(k) \cup {NoJobState} : x = y \/ x = Recovered(y)
    <3>1. CASE Open
      <4>1. /\ memState'[k] \in {memState[k], Recovered(fileState[k])}
            /\ fileState'[k] \in {fileState[k], Recovered(fileState[k])}
            /\ fileKept'[k] \in {fileKept[k], Recovered(fileState[k])}
        BY <3>1 DEF Open
      <4> QED BY <4>1 DEF Views
    <3>2. CASE ReleaseStateLock \/ Kill \/ PowerLoss
      <4>1. /\ memState'[k] = NoJobState
            /\ fileState'[k] \in {fileState[k], fileKept[k]}
            /\ fileKept'[k] \in {fileState[k], fileKept[k]}
        BY <3>2 DEF ReleaseStateLock, Kill, PowerLoss, Stopped
      <4> QED BY <4>1 DEF Views
    <3> QED BY <1>7, <3>1, <3>2
  <2>4. (\A y \in Views(k) : y \in JobStates) /\ clock \in Nat
    BY <1>1 DEF BackupTypes, StatesTyped, PlansTyped, Views
  <2> QED BY <1>1, <2>1, <2>2, <2>3, <2>4, StoppedPlaced
<1> QED BY <1>1, <1>2, <1>3, <1>4, <1>5, <1>6, <1>7, StepCases

LEMMA PlacedBegins == BackupInit => PlacedInv
<1> SUFFICES ASSUME BackupInit, NEW j \in Jobs \ RemoteJobs PROVE JobPlaced(j)
  BY StoreBegins, SettledBegins DEF PlacedInv
<1>1. task[j] = Free /\ Views(j) = {NoJobState} /\ target[j] = None
  BY DEF BackupInit, Views
<1> QED BY <1>1, FreeIsNoTask, NoJobStateTyped, BackupAssumption DEF JobPlaced, Placed, Rotten

LEMMA PlacedIsFaithful == PlacedInv => RestoredFaithful
<1> SUFFICES ASSUME PlacedInv, NEW j \in Jobs \ RemoteJobs
             PROVE  /\ target[j] # Rotten
                    /\ memState[j].hist # <<>> /\ memState[j].hist[1].st = "completed"
                       /\ task[j].kind # "restore" =>
                         target[j] \in {None, Lost, memState[j].hist[1].snap}
  BY DEF RestoredFaithful
<1>1. target[j] # Rotten /\ Placed(target[j], memState[j])
  BY DEF PlacedInv, JobPlaced, Views
<1>2. memState[j].restore.st = "running" => task[j] \in Tasks /\ FieldOf(task[j].kind) = "restore"
  BY DEF PlacedInv, SettledInv, JobSettled, StatusFields
<1>3. task[j] \in Tasks /\ FieldOf(task[j].kind) = "restore" => task[j].kind = "restore"
  BY FieldNames DEF Tasks, Kinds
<1> QED BY <1>1, <1>2, <1>3 DEF Placed

\* RestoredFaithful, for any number of jobs, operations, faults, restarts and
\* damaged snapshots.
THEOREM RestoresStayFaithful == BackupSpec => []RestoredFaithful
  BY PlacedBegins, PlacedStep, PlacedIsFaithful, PTL DEF BackupSpec

\* RestoresTrue, for any number of jobs, operations, faults and damaged snapshots,
\* and for all trees: the restore on record put its run's content in place, which is
\* what the manifest lists, and a verification says so exactly.
THEOREM RestoresStayTrue ==
    ASSUME NEW CONSTANT sources, sources \subseteq SourceTrees
    PROVE  BackupSpec /\ TreeSpec(sources) => []RestoresTrue
<1>1. RestoredFaithful /\ VerdictExact => RestoresTrue
  BY DEF RestoresTrue
<1> QED BY <1>1, RestoresStayFaithful, VerdictsAreExact, PTL
=============================================================================
