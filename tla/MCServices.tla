----------------------------- MODULE MCServices -----------------------------
(***************************************************************************)
(* The services around the storage, one at a time: sessions, the recovery  *)
(* of the administrator, shares and their tickets, and the Rust dataplane. *)
(* focus says which one moves; the others rest in one state.               *)
(***************************************************************************)
EXTENDS AuthSessions, AdminRecovery, ShareTickets, CasStore, TLC

CONSTANTS Foci, Callers    \* two calls, of whichever service moves
VARIABLE focus

FileLayoutsMC == {[chunks |-> <<1, 2>>, manifest |-> 3]}

AdminAtRest == AdminInit /\ adir.users = NoAccounts
CasAtRest == CasInit /\ casZip /\ casIndex = {}
ChunkAtRest == ChunkInit /\ cutAfter = [o \in 0..(StreamLength - 1) |-> MinChunk]
CasBegins == CasInit /\ casSeen[2] \subseteq {"plain"} /\ casSeen[3] = {}

MCInit ==
    /\ focus \in Foci /\ AuthInit /\ TicketsInit
    /\ IF focus = "admin" THEN AdminInit ELSE AdminAtRest
    /\ IF focus = "cas" THEN CasBegins ELSE CasAtRest
    /\ IF focus = "chunks" THEN ChunkInit ELSE ChunkAtRest

\* Tickets under the owner's changes; and guesses of a password.
Tickets == \/ OwnerSide \/ HookSide \/ TicketSide \/ ClockTick
           \/ \E loss \in BOOLEAN : RestartShares(loss)
Guesses == \/ CreateShare("ok") \/ UpdateShare("ok") \/ GuessSide \/ ClockTick
           \/ RestartShares(FALSE)

MCNext ==
    /\ UNCHANGED focus
    /\ IF focus = "auth" THEN AuthNext ELSE UNCHANGED authVars
    /\ IF focus = "admin" THEN AdminNext ELSE UNCHANGED adminVars
    /\ IF focus \notin {"tickets", "guesses"} THEN UNCHANGED ticketVars
       ELSE \/ focus = "tickets" /\ Tickets
            \/ focus = "guesses" /\ Guesses
    /\ IF focus = "cas" THEN CasNext ELSE UNCHANGED casVars
    /\ IF focus = "chunks" THEN ChunkNext ELSE UNCHANGED chunkVars

MCSpec == MCInit /\ [][MCNext]_<<authVars, adminVars, ticketVars,
                                 casVars, chunkVars, focus>>

FewSessions ==
    LET mishaps == authBound.faults + authBound.crashes + authBound.setbacks
    IN authOps + 2 * mishaps <= 6
FewRecoveries == adminBound.faults + adminBound.crashes <= 2

FewShares ==
    /\ focus = "tickets" =>
         /\ clock <= 1 /\ (changes > 2 => tickets # {})
         /\ changes + owner.updated + ticketBound.faults + ticketBound.crashes
              + Cardinality(tickets) + 2 * clock <= 4
    /\ download.at # "idle" => \A t \in TicketCalls : ticketReq[t].at = "idle"
    /\ focus = "guesses" => /\ clock <= 3 /\ changes <= 2
                            /\ \A v \in Visitors : Len(failed[v]) <= 3

\* Several calls on one object with trouble in between; everything else of
\* the object store with less of both.
PlainCas(c) == casCall[c].op \in {"idle", "chunk"} /\ casCall[c].hash \in {0, 1}
CasTrouble == (MaxCasFaults - casBound.faults) + (MaxCasCuts - casBound.cuts)
              + (MaxCasRestarts - casBound.restarts)
              + (MaxCasDamage - casBound.damage)
FewCas ==
    LET started == MaxCasOps - casBound.ops
        plain == \A c \in CasCalls : PlainCas(c)
    IN /\ CasTrouble <= (IF plain /\ started <= 1 THEN 2 ELSE 1)
       /\ started > 2 => plain /\ CasTrouble = 0
       /\ \E c \in CasCalls : PlainCas(c)
       /\ started = 1 => \/ \E c \in CasCalls : casCall[c].op # "idle"
                         \/ CasTrouble > 0
       /\ \/ plain \/ CasTrouble = 0
          \/ \A c \in CasCalls : casCall[c].op \in {"idle", "file", "get"}

Few == FewSessions /\ FewRecoveries /\ FewShares /\ FewCas

(* Who may act as whom: sessions end when they are revoked or their account *)
(* changes and the newest credential works, and an administrator can get    *)
(* in with a password somebody knows, except as AdminReachable says.        *)
AccountsHonest == SessionsHonest /\ AdminReachable

\* The two calls are interchangeable.
Symmetry == Permutations(Callers)
=============================================================================
