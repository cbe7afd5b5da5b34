----------------------------- MODULE MCAdmission ----------------------------
(***************************************************************************)
(* What a write has to pass before its bytes are taken: the staging byte   *)
(* budget, the quotas, and the probe that shows at startup that the disk   *)
(* can exchange names.  focus says which of the three moves.               *)
(***************************************************************************)
EXTENDS StagingBudget, QuotaReservations, RenameProbe, TLC

VARIABLE focus

QuotaFilesMC == {<<"h", "a">>, <<"h", "d", "a">>, <<"o", "d", "a">>}
QuotaTreesMC == QuotaFilesMC \cup {<<"h">>, <<"o">>}
QuotaScopesMC == {<<"user", <<"h">>>>, <<"directory", <<"h", "d">>>>}
ScopeLimitMC == [s \in QuotaScopesMC |-> IF s[1] = "user" THEN 3 ELSE 2]
FirstSizesMC ==
    {[f \in QuotaFilesMC |-> IF f[1] = "o" THEN 2 ELSE 1]}

QuotaAtRest == QuotaInit /\ \A f \in QuotaFiles : stored[f] # NoFile

\* Bounds: two failures and restarts of the budget; a second request beside
\* the upload of <<"h", "d", "a">>, or one failure or deletion beside a
\* single request.
MainUpload(c) == c.kind \in {"put", "stream"} /\ c.front = "api"
                 /\ c.dst = <<"h", "d", "a">>
Few ==
    /\ faults + restarts <= 2
    /\ quotaBound.deletes + quotaBound.faults <= 1
    /\ quotaBound.ops > 0 => \E r \in QuotaCalls : InQuota(r)
    /\ \A r, q \in QuotaCalls : r # q /\ InQuota(r) /\ InQuota(q) =>
         LET a == quotaCall[r]
             b == quotaCall[q]
         IN /\ quotaBound.faults = 0 /\ (a.actor = "user" \/ a.kind = "version")
            /\ a.front = "dav" => a.over
            /\ MainUpload(a) \/ MainUpload(b)

\* Of that, what can be said before the second request starts; and no
\* deletion while two requests are under way.
Beside(r) == \A q \in QuotaCalls \ {r} : InQuota(q) => MainUpload(quotaCall[q])
QuotaMoves ==
    \/ DeleteUngated /\ \E r \in QuotaCalls : ~InQuota(r)
    \/ \E r \in QuotaCalls : QuotaStep(r) \/ StartUpload(r) \/ (Beside(r) /\ QuotaStart(r))

MCInit ==
    /\ focus \in {"budget", "quota", "probe"} /\ Init /\ ProbeInit
    /\ IF focus = "quota" THEN QuotaInit ELSE QuotaAtRest
MCNext ==
    /\ UNCHANGED focus
    /\ IF focus = "budget" THEN Next ELSE UNCHANGED vars
    /\ IF focus = "quota" THEN QuotaMoves ELSE UNCHANGED quotaVars
    /\ IF focus = "probe" THEN ProbeNext ELSE UNCHANGED probeVars

\* Only the budget's bodies have to end somewhere: the other two may stop.
Ended == focus # "budget" /\ UNCHANGED <<vars, quotaVars, probeVars, focus>>
MCSpec == MCInit /\ [][MCNext \/ Ended]_<<vars, quotaVars, probeVars, focus>>

\* Two of the bodies share their names with the two requests, which are
\* interchangeable.
Symmetry == Permutations(QuotaCalls)
=============================================================================
