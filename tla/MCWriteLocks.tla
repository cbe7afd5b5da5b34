---------------------------- MODULE MCWriteLocks ----------------------------
(***************************************************************************)
(* One write through its faults, crashes and recoveries, and the locks of  *)
(* the filesystem that writes and everybody else take, one of the two      *)
(* moving at a time.                                                       *)
(***************************************************************************)
EXTENDS MCWriteTxn, StorageLocks

CONSTANT Foci
VARIABLE focus

AtRest == files = [p \in Paths |-> Absent] /\ cas = {}

MCInit == focus \in Foci /\ Init /\ LocksInit /\ (focus = "locks" => AtRest)

MCNext ==
    /\ UNCHANGED focus
    /\ IF focus = "write" THEN Next ELSE UNCHANGED vars
    /\ IF focus = "locks" THEN LocksNext ELSE UNCHANGED lockVars

MCSpec == MCInit /\ [][MCNext]_<<vars, lockVars, focus>>

\* Requests are interchangeable.
LockSymmetry == Permutations(Requests)
=============================================================================
