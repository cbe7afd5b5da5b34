----------------------------- MODULE MCDeletion -----------------------------
(* Everything that takes files away: trash transfers and purges, permanent *)
(* deletion against changes from outside, and the token a deletion is      *)
(* confirmed by.  focus says which one moves; the others rest.             *)
EXTENDS MCTrashTransfer, StagedDelete, DeleteTree

CONSTANT Foci
VARIABLE focus

deletionVars == <<vars, deleteVars, treeVars, focus>>

TrashAtRest == Init /\ Plain
DeleteAtRest == /\ DeleteInit /\ ~del.folder /\ mode = "trash"
                /\ \A t \in Things : thing[t].text = Bare
TreeAtRest == TreeInit /\ tree[Top].kind = "file"

MCInit ==
    /\ focus \in Foci
    /\ IF focus = "trash" THEN Init ELSE TrashAtRest
    /\ IF focus = "permanent" THEN DeleteInit ELSE DeleteAtRest
    /\ IF focus = "token" THEN TreeInit ELSE TreeAtRest
    /\ held["target"] = CHOOSE t \in Things : TRUE

MCNext ==
    /\ UNCHANGED focus
    /\ IF focus = "trash" THEN Next ELSE UNCHANGED vars
    /\ IF focus = "permanent" THEN DeleteNext ELSE UNCHANGED deleteVars
    /\ IF focus = "token" THEN TreeNext ELSE UNCHANGED treeVars

\* A request that was answered and a walk that ended stay so.
Over ==
    /\ \/ focus = "permanent" /\ del.at = "done"
       \/ focus = "token" /\ walk \in {"done", "failed"}
    /\ UNCHANGED deletionVars

MCSpec == MCInit /\ [][MCNext \/ Over]_deletionVars

\* Bound: what others do to a permanent deletion and the calls that fail in it, together.
FewMeddlers == outside + slips + epoch <= 4

(* What users confirm is what is deleted for good: the token stands for    *)
(* the tree that was walked, and only the object that was shown goes.      *)
ConfirmedDeletion == DeletionExact /\ TokensAgree
=============================================================================
