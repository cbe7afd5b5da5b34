-------------------------- MODULE MCUploadSession ---------------------------
(* Small instances of UploadSession for TLC.                               *)
EXTENDS UploadSession

\* Bounds: faults, crashes and changes by others are disturbances.  One session goes
\* through MaxDisturbances of them.  Two that race for the target go through one less,
\* with up to MaxRacingRev states each; none of the two expires.
CONSTANTS MaxDisturbances, MaxRacingRev
Created == {s \in Sessions : orig[s] # NoRec}
FewDisturbances ==
    /\ faults + crashes + other + Cardinality(Created) - 1 <= MaxDisturbances
    /\ Cardinality(Created) > 1 =>
        /\ other = 0
        /\ \A s \in Sessions : late[s] = 0 /\ DOMAIN disk[s].chain \subseteq 1..MaxRacingRev

\* Sessions and chunks are interchangeable.
Symmetry == Permutations(Sessions) \cup Permutations(Chunks)

=============================================================================
