--------------------------- MODULE MCTrashTransfer ---------------------------
(* Small instances of TrashTransfer for TLC.                               *)
EXTENDS TrashTransfer, FiniteSets

\* Bound: failing steps, crashes and edits of shares and favorites together; a failing
\* step and two crashes around a single operation.
CONSTANT MaxDisturbances
FewDisturbances ==
    faults + crashes + edits <= MaxDisturbances + (IF jobs <= 1 /\ edits = 0 THEN 1 ELSE 0)

\* Bound: more than two operations only while no share or favorite is involved, and then a
\* crash only after a step that failed; a fourth only while nothing fails.
Plain == edits = 0 /\ fav.favs = [p \in Paths |-> 0] /\ \A x \in ShareIds : share.shares[x] = NoShare
LongWhenPlain ==
    /\ jobs > 2 => Plain /\ share.del = <<>> /\ fav.del = <<>> /\ crashes <= faults
    /\ jobs > 3 => faults = 0

\* Trash ids and trees are interchangeable, and so are paths.
Symmetry == Permutations(Ids) \cup Permutations(Trees) \cup Permutations(Paths)

=============================================================================
