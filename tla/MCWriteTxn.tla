----------------------------- MODULE MCWriteTxn -----------------------------
(* Small instances of WriteTxn for TLC.                                    *)
EXTENDS WriteTxnRefinement, TLC

\* Requests and contents are interchangeable.
Symmetry == Permutations(Writers) \cup Permutations(Contents)

=============================================================================
