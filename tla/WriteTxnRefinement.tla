------------------------- MODULE WriteTxnRefinement -------------------------
(***************************************************************************)
(* WriteTxn implements AtomicWrite.  The journal directory's durable image *)
(* decides: a pending operation counts as applied exactly when its         *)
(* committed checkpoint is durable, whatever the namespace, the rows and   *)
(* the CAS look like at that moment.                                       *)
(***************************************************************************)
EXTENDS WriteTxn

Pending(w) == journalDur[w] # {}

AbsContent ==
    [p \in Paths |->
        IF \E w \in Writers : Pending(w) /\ Path(w) = p
        THEN LET w == CHOOSE w \in Writers : Pending(w) /\ Path(w) = p
             IN IF w \in decided THEN After(w) ELSE Before(w)
        ELSE files[p]]

\* Rows a pending operation has added or still owes, and rows retention may restore.
AbsHistory ==
    LET base == versions \cup UNION {dropped[w] : w \in Writers}
        owed == {Row(w) : w \in {v \in Writers : Pending(v) /\ plan[v].versioned
                                                 /\ v \in decided}}
        early == {Row(w) : w \in {v \in Writers : Pending(v) /\ plan[v].versioned
                                    /\ v \notin decided /\ ~plan[v].rowBefore}}
    IN (base \cup owed) \ early

AbsStatus ==
    [w \in Writers |-> IF w \in decided THEN "committed"
                       ELSE IF resp[w] = "error" THEN "failed"
                       ELSE IF pc[w] = "idle" THEN "new" ELSE "open"]

Abstract == INSTANCE AtomicWrite WITH
    content <- AbsContent, history <- AbsHistory, call <- req, status <- AbsStatus

\* Every behaviour of the write path, with its faults, kills, power losses and
\* recoveries, is a behaviour of the atomic store: a write takes effect at once on
\* the file its request captured, is never undone, and never follows an error.
ImplementsAtomicWrite == Abstract!Spec

=============================================================================
