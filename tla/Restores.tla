------------------------------ MODULE Restores ------------------------------
(***************************************************************************)
(* What the backup manager promises of a restore: which run's content the  *)
(* target holds (Backup) and that this content is the tree of that run's   *)
(* manifest (SnapshotTree).                                                *)
(***************************************************************************)
EXTENDS Backup, SnapshotTree

\* What a restore put in place is what its backup run captured, however the
\* snapshot was damaged meanwhile, and a verification tells it from a tree
\* that differs (restoreManifestToTarget, appendLocalRestoreSnapshotWarnings).
RestoresTrue == RestoredFaithful /\ VerdictExact
=============================================================================
