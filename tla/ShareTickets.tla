---------------------------- MODULE ShareTickets ----------------------------
(***************************************************************************)
(* A public share (internal/share): the share and its ticket revision in   *)
(* memory and in shares.json, the changes its owner and the path hooks     *)
(* make, download tickets bound to the state they were issued for, and the *)
(* tracker that slows down password guessing.                              *)
(*                                                                         *)
(* A ticket is the record of what its signature covers.  The signing key   *)
(* is derived from the server's secret, so tickets outlive a restart.  A   *)
(* password is its version number, 0 for none.                             *)
(***************************************************************************)
EXTENDS Integers, Sequences, FiniteSets, FiniteSetsExt

CONSTANTS
    Visitors, TicketCalls,        \* clients; ticket requests under way together
    NoShare,
    SharePaths, FirstPath,
    TicketTTL, TicketGate,
    FailureLimit, FailureWindow, LockDuration, AttemptCapacity, CheckGate,
    MaxTicketTime, MaxChanges, MaxTickets, MaxTries, MaxShareFaults, MaxShareCrashes

\* A share: what shares.json holds of it, and its stamp.
ShareStates ==
    [path : SharePaths \cup {FirstPath}, on : BOOLEAN, exp : Nat, max : Nat, count : Nat,
     pass : Nat, rev : Nat, stamp : Nat]

ASSUME LockAssumption ==
    /\ LockDuration \in Nat \ {0} /\ FailureWindow \in Nat /\ FailureLimit \in Nat \ {0}
    /\ LockDuration <= FailureWindow

ASSUME ShareAssumption ==
    /\ IsFiniteSet(TicketCalls) /\ TicketTTL \in Nat
    /\ NoShare \notin ShareStates

VARIABLES
    shr, shrKept,      \* the share in memory and shares.json; as a power loss may leave it
    owner,             \* the account that made the share
    clock,
    hook,              \* a rename or delete of the shared path, under way
    ticketReq,         \* requests for a ticket
    tickets,           \* tickets handed out
    download,          \* a download by ticket
    attempts,          \* passwordAttemptTracker: one entry per client, or Untracked
    trying,            \* password checks under way
    cookie,            \* per client, the password its access cookie was made from
    failed,            \* history: when this client's checks failed, since its last success
    changes,           \* history: changes committed so far
    uncounted,         \* history: accesses whose count a power loss undid
    ticketBound        \* failed saves, crashes

shareVars == <<shr, shrKept>>
guessVars == <<attempts, trying, cookie, failed>>
ticketVars == <<shareVars, owner, clock, hook, ticketReq, tickets, download, guessVars,
                changes, uncounted, ticketBound>>

Untracked == [flying |-> FALSE, failures |-> -1, last |-> 0, until |-> 0]
Waiting == [at |-> "idle"]
Never == 1000000        \* no expiry

\* One save: written and synced, written with a failed directory sync, not written.
ShareSaves == {"ok", "lag", "fail"}
SaveTrouble(o) ==
    /\ o # "ok" => ticketBound.faults < MaxShareFaults
    /\ ticketBound' = [ticketBound EXCEPT !.faults = @ + (IF o = "ok" THEN 0 ELSE 1)]

\* persistSnapshot: a sync that failed is a warning, and the change stands.
PersistShare(s, o) ==
    /\ SaveTrouble(o)
    /\ shr' = IF o = "fail" THEN shr ELSE s
    /\ shrKept' = IF o = "ok" THEN s ELSE shrKept

\* Variant: switching a share off and on again leaves the revision alone.
BumpUnlessToggled(s) ==
    [s EXCEPT !.rev = IF shr # NoShare /\ s.on # shr.on THEN @ ELSE @ + 1, !.stamp = changes + 1]

\* Every explicit change moves the ticket revision; stamp is this model's name for it.
Bump(s) == [s EXCEPT !.rev = @ + 1, !.stamp = changes + 1]

ChangeShare(s, o) ==
    /\ changes < MaxChanges
    /\ PersistShare(s, o)
    /\ changes' = IF o = "fail" THEN changes ELSE changes + 1

CanAccess(s) ==
    /\ s.on
    /\ clock <= s.exp
    /\ s.max = 0 \/ s.count < s.max

OwnerActive == owner.on

\* hashDownloadTicketShareState and, with the owner, hashDownloadTicketState.
HashShare(s) == [path |-> s.path, on |-> s.on, exp |-> s.exp, max |-> s.max, pass |-> s.pass,
                 rev |-> s.rev]
HashState(s) == [share |-> HashShare(s), owner |-> owner.updated]

-----------------------------------------------------------------------------
(* The owner's changes, and the hooks of a rename and of a delete.          *)

CreateShare(o) ==
    /\ shr = NoShare /\ changes = 0
    /\ \E pass \in {0, 1}, max \in {0, 1}, life \in {1, Never} :
        ChangeShare([path |-> FirstPath, on |-> TRUE, exp |-> clock + life, max |-> max,
                     count |-> 0, pass |-> pass, rev |-> 1, stamp |-> 1], o)
    /\ UNCHANGED <<owner, clock, hook, ticketReq, tickets, download, guessVars, uncounted>>

Edits(s) ==
    {[s EXCEPT !.on = ~@], [s EXCEPT !.exp = clock + 1], [s EXCEPT !.exp = Never],
     [s EXCEPT !.pass = IF @ = 0 THEN 1 ELSE 0], [s EXCEPT !.pass = @ + 1],
     [s EXCEPT !.max = @ + 1], [s EXCEPT !.max = 0], s}

UpdateShare(o) ==
    /\ shr # NoShare
    /\ \E s \in Edits(shr) : ChangeShare(Bump(s), o)
    /\ UNCHANGED <<owner, clock, hook, ticketReq, tickets, download, guessVars, uncounted>>

DeleteShare(o) ==
    /\ shr # NoShare
    /\ ChangeShare(NoShare, o)
    /\ UNCHANGED <<owner, clock, hook, ticketReq, tickets, download, guessVars, uncounted>>

OwnerChanges ==
    /\ owner.updated < MaxChanges
    /\ \E on \in BOOLEAN : owner' = [on |-> on, updated |-> owner.updated + 1]
    /\ UNCHANGED <<shareVars, clock, hook, ticketReq, tickets, download, guessVars, changes,
                   uncounted, ticketBound>>

\* UpdatePathReferencesWithRestore; the share as it was is kept for the rollback.
RenamePath(o) ==
    /\ hook.at = "idle" /\ shr # NoShare
    /\ \E to \in SharePaths \ {shr.path} : ChangeShare(Bump([shr EXCEPT !.path = to]), o)
    /\ hook' = IF o = "fail" THEN hook ELSE [at |-> "favorites", kind |-> "rename", was |-> shr]
    /\ UNCHANGED <<owner, clock, ticketReq, tickets, download, guessVars, uncounted>>

\* DisableSharesUnderPathWithRestore.
DeletePath(o) ==
    /\ hook.at = "idle" /\ shr # NoShare /\ shr.on
    /\ ChangeShare(Bump([shr EXCEPT !.on = FALSE]), o)
    /\ hook' = IF o = "fail" THEN hook ELSE [at |-> "favorites", kind |-> "delete", was |-> shr]
    /\ UNCHANGED <<owner, clock, ticketReq, tickets, download, guessVars, uncounted>>

\* The favorites follow.  When they cannot, or the deletion itself fails after
\* the hook, the share is put back.
HookDone ==
    /\ hook.at = "favorites"
    /\ hook' = Waiting
    /\ UNCHANGED <<shareVars, owner, clock, ticketReq, tickets, download, guessVars, changes,
                   uncounted, ticketBound>>

PutBack(was) ==
    IF hook.kind = "rename" THEN [shr EXCEPT !.path = was.path]
    ELSE [shr EXCEPT !.path = was.path, !.on = was.on]

HookRollback(o) ==
    /\ hook.at = "favorites"
    /\ hook' = Waiting
    /\ IF shr = NoShare \/ (shr # NoShare /\ PutBack(hook.was) = shr)
       THEN o = "ok" /\ UNCHANGED <<shareVars, changes, ticketBound>>
       ELSE ChangeShare(Bump(PutBack(hook.was)), o)
    /\ UNCHANGED <<owner, clock, ticketReq, tickets, download, guessVars, uncounted>>

-----------------------------------------------------------------------------
(* Tickets.                                                                 *)

EndTicket(t) == ticketReq' = [ticketReq EXCEPT ![t] = Waiting]
GoTicket(t, r) == ticketReq' = [ticketReq EXCEPT ![t] = r]

KeepTicketing == UNCHANGED <<owner, clock, hook, download, guessVars, changes, uncounted>>

\* hasShareAccess: the cookie is made from the password hash.
HasShareAccess(c) == shr.pass = 0 \/ cookie[c] = shr.pass

AuthorizeShare(t, c) ==
    /\ ticketReq[t].at = "idle" /\ Cardinality(tickets) < MaxTickets
    /\ shr # NoShare /\ CanAccess(shr) /\ OwnerActive /\ HasShareAccess(c)
    /\ Cardinality({u \in TicketCalls : ticketReq[u].at # "idle"}) < TicketGate
    /\ GoTicket(t, [at |-> "authorized", s |-> shr])
    /\ KeepTicketing /\ UNCHANGED <<shareVars, tickets, ticketBound>>

\* The target is looked at, and the state hashed with the owner as it is then.
Preflight(t) ==
    /\ ticketReq[t].at = "authorized"
    /\ LET s == ticketReq[t].s
           exp == IF s.exp < clock + TicketTTL THEN s.exp ELSE clock + TicketTTL
       IN  \/ exp > clock /\ OwnerActive
              /\ GoTicket(t, [at |-> "hashed", s |-> s, exp |-> exp, hash |-> HashState(s)])
           \/ EndTicket(t)
    /\ KeepTicketing /\ UNCHANGED <<shareVars, tickets, ticketBound>>

\* reserveAuthorizedAccessMatching.
Reserve(t, o) ==
    /\ ticketReq[t].at = "hashed"
    /\ IF shr # NoShare /\ HashShare(shr) = HashShare(ticketReq[t].s) /\ CanAccess(shr)
       THEN LET s == [shr EXCEPT !.count = @ + 1]
            IN  /\ PersistShare(s, o)
                /\ IF o = "fail" THEN EndTicket(t)
                   ELSE GoTicket(t, [at |-> "reserved", s |-> s, exp |-> ticketReq[t].exp,
                                     hash |-> ticketReq[t].hash])
       ELSE o = "ok" /\ EndTicket(t) /\ UNCHANGED <<shareVars, ticketBound>>
    /\ KeepTicketing /\ UNCHANGED tickets

\* The owner, the path and the whole state are looked at again before the
\* ticket leaves; the path check may fail for reasons of its own.
IssueTicket(t) ==
    /\ ticketReq[t].at = "reserved"
    /\ \/ /\ OwnerActive /\ HashState(ticketReq[t].s) = ticketReq[t].hash
          /\ tickets' = tickets \cup
                {[n |-> Cardinality(tickets), exp |-> ticketReq[t].exp, hash |-> ticketReq[t].hash,
                  stamp |-> ticketReq[t].s.stamp]}
          /\ EndTicket(t)
       \/ /\ GoTicket(t, [at |-> "rollback"])
          /\ UNCHANGED tickets
    /\ KeepTicketing /\ UNCHANGED <<shareVars, ticketBound>>

RollbackReservation(t, o) ==
    /\ ticketReq[t].at = "rollback"
    /\ IF shr # NoShare /\ shr.count > 0
       THEN PersistShare([shr EXCEPT !.count = @ - 1], o)
       ELSE o = "ok" /\ UNCHANGED <<shareVars, ticketBound>>
    /\ EndTicket(t)
    /\ KeepTicketing /\ UNCHANGED tickets

\* loadShareForDownloadTicket and validateDownloadTicketTarget.
LoadsFor == shr # NoShare /\ shr.on /\ clock <= shr.exp /\ OwnerActive
ValidFor(g) == g.hash = HashState(shr)
Servable(g) == clock < g.exp /\ LoadsFor /\ ValidFor(g)

KeepServing == UNCHANGED <<shareVars, owner, clock, hook, ticketReq, tickets, guessVars, changes,
                           uncounted, ticketBound>>

StartDownload ==
    /\ download.at = "idle"
    /\ \E g \in tickets : Servable(g) /\ download' = [at |-> "checked", g |-> g]
    /\ KeepServing

\* The file is opened, or for an archive the tree is listed.
OpenTarget ==
    /\ download.at = "checked"
    /\ \/ download' = [at |-> "opened", g |-> download.g,
                       stamp |-> IF shr = NoShare THEN 0 ELSE shr.stamp]
       \/ download' = Waiting
    /\ KeepServing

\* Only then is the answer's fate decided: the share and the ticket are checked again.
Recheck ==
    /\ download.at = "opened"
    /\ download' = IF LoadsFor /\ ValidFor(download.g) THEN [download EXCEPT !.at = "serving"]
                   ELSE Waiting
    /\ KeepServing

Served ==
    /\ download.at = "serving"
    /\ download' = Waiting
    /\ KeepServing

-----------------------------------------------------------------------------
(* Passwords.                                                               *)

Tracked1(a) == {c \in Visitors : a[c] # Untracked}
Outdated(e) ==
    /\ ~e.flying /\ e.failures # -1
    /\ \/ e.until # 0 /\ e.until <= clock
       \/ e.failures > 0 /\ clock - e.last > FailureWindow
Prune(a) == [c \in Visitors |-> IF Outdated(a[c]) THEN Untracked ELSE a[c]]

\* A client seen for the first time needs room; only an entry with nothing to
\* remember may be dropped for it.
Evictable(a) == {c \in Tracked1(a) : ~a[c].flying /\ a[c].failures = 0 /\ a[c].until <= clock}
MakeRoom(a) ==
    IF Cardinality(Tracked1(a)) < AttemptCapacity THEN {a}
    ELSE {[a EXCEPT ![c] = Untracked] : c \in Evictable(a)}

Admitted(c) ==
    LET a == Prune(attempts)
    IN  IF a[c] = Untracked
        THEN {[b EXCEPT ![c] = [flying |-> TRUE, failures |-> 0, last |-> 0, until |-> 0]] :
                b \in MakeRoom(a)}
        ELSE IF a[c].until > clock \/ a[c].flying THEN {}
        ELSE {[a EXCEPT ![c].flying = TRUE]}

KeepGuessing == UNCHANGED <<shareVars, owner, clock, hook, ticketReq, tickets, download, changes,
                            uncounted, ticketBound>>

\* AccessShareWithPassword up to the check: it looks at the share as it is now.
BeginAttempt(c) ==
    /\ trying[c] = 0 /\ Len(failed[c]) < MaxTries
    /\ shr # NoShare /\ CanAccess(shr) /\ OwnerActive /\ shr.pass # 0
    /\ Cardinality({d \in Visitors : trying[d] # 0}) < CheckGate
    /\ attempts' \in Admitted(c)
    /\ trying' = [trying EXCEPT ![c] = shr.pass]
    /\ UNCHANGED <<cookie, failed>>
    /\ KeepGuessing

\* A check that finds no room is given up: an attempt without failures leaves no trace.
CancelAttempt(c) ==
    /\ trying[c] = 0
    /\ shr # NoShare /\ CanAccess(shr) /\ OwnerActive /\ shr.pass # 0
    /\ Cardinality({d \in Visitors : trying[d] # 0}) = CheckGate
    /\ \E a \in Admitted(c) :
        attempts' = IF a[c].failures = 0 THEN [a EXCEPT ![c] = Untracked]
                    ELSE [a EXCEPT ![c].flying = FALSE]
    /\ UNCHANGED <<trying, cookie, failed>>
    /\ KeepGuessing

FinishFailure(c) ==
    /\ trying[c] # 0
    /\ LET n == attempts[c].failures + 1
       IN  attempts' = [attempts EXCEPT ![c] =
                [flying |-> FALSE, failures |-> n, last |-> clock,
                 until |-> IF n >= FailureLimit THEN clock + LockDuration ELSE @.until]]
    /\ trying' = [trying EXCEPT ![c] = 0]
    /\ failed' = [failed EXCEPT ![c] = Append(@, clock)]
    /\ UNCHANGED cookie
    /\ KeepGuessing

\* The cookie is made from the share the request started with.
FinishSuccess(c) ==
    /\ trying[c] # 0
    /\ attempts' = [attempts EXCEPT ![c] = Untracked]
    /\ trying' = [trying EXCEPT ![c] = 0]
    /\ failed' = [failed EXCEPT ![c] = <<>>]
    /\ cookie' = [cookie EXCEPT ![c] = IF OwnerActive THEN trying[c] ELSE @]
    /\ KeepGuessing

-----------------------------------------------------------------------------

ClockTick ==
    /\ clock < MaxTicketTime
    /\ clock' = clock + 1
    /\ UNCHANGED <<shareVars, owner, hook, ticketReq, tickets, download, guessVars, changes,
                   uncounted, ticketBound>>

\* A restart loads shares.json; requests and the tracker are gone.  A power loss
\* may undo changes whose directory sync failed, and with them the tickets
\* issued on those changes are no longer looked at here.
RestartShares(loss) ==
    LET s == IF loss THEN shrKept ELSE shr
    IN  /\ ticketBound.crashes < MaxShareCrashes
        /\ ticketBound' = [ticketBound EXCEPT !.crashes = @ + 1]
        /\ shr' = s /\ shrKept' = s
        /\ tickets' = IF s = NoShare THEN tickets ELSE {g \in tickets : g.stamp <= s.stamp}
        /\ uncounted' = IF s # shr /\ s # NoShare
                        THEN Max({uncounted, Cardinality(tickets') - s.count}) ELSE uncounted
        /\ hook' = Waiting /\ download' = Waiting
        /\ ticketReq' = [t \in TicketCalls |-> Waiting]
        /\ attempts' = [c \in Visitors |-> Untracked]
        /\ trying' = [c \in Visitors |-> 0]
        /\ failed' = [c \in Visitors |-> <<>>]
        /\ UNCHANGED <<owner, clock, cookie, changes>>

TicketsInit ==
    /\ shr = NoShare /\ shrKept = NoShare
    /\ owner = [on |-> TRUE, updated |-> 0]
    /\ clock = 0
    /\ hook = Waiting /\ download = Waiting
    /\ ticketReq = [t \in TicketCalls |-> Waiting]
    /\ tickets = {}
    /\ attempts = [c \in Visitors |-> Untracked]
    /\ trying = [c \in Visitors |-> 0]
    /\ cookie = [c \in Visitors |-> 0]
    /\ failed = [c \in Visitors |-> <<>>]
    /\ changes = 0 /\ uncounted = 0
    /\ ticketBound = [faults |-> 0, crashes |-> 0]

OwnerSide ==
    \/ \E o \in ShareSaves : CreateShare(o) \/ UpdateShare(o) \/ DeleteShare(o)
    \/ OwnerChanges
HookSide == HookDone \/ \E o \in ShareSaves : RenamePath(o) \/ DeletePath(o) \/ HookRollback(o)
TicketSide ==
    \/ \E t \in TicketCalls :
        \/ \E c \in Visitors : AuthorizeShare(t, c)
        \/ Preflight(t) \/ IssueTicket(t)
        \/ \E o \in ShareSaves : Reserve(t, o) \/ RollbackReservation(t, o)
    \/ StartDownload \/ OpenTarget \/ Recheck \/ Served
GuessSide ==
    \E c \in Visitors : BeginAttempt(c) \/ CancelAttempt(c) \/ FinishFailure(c) \/ FinishSuccess(c)

TicketsNext ==
    \/ OwnerSide \/ HookSide \/ TicketSide \/ GuessSide
    \/ ClockTick \/ \E loss \in BOOLEAN : RestartShares(loss)

TicketsSpec == TicketsInit /\ [][TicketsNext]_ticketVars

-----------------------------------------------------------------------------

\* No ticket is good once the share was changed after it was issued, however
\* the share looks again by now.
TicketsFresh == \A g \in tickets : Servable(g) => g.stamp = shr.stamp

\* What a download serves was opened while the share was still as the ticket says.
ServedFresh == download.at = "serving" => download.stamp = download.g.stamp

\* Every ticket was counted before it left, whatever was rolled back meanwhile.
AccessesCounted == shr # NoShare => Cardinality(tickets) <= shr.count + uncounted

\* More wrong passwords in a row than the limit take at least one lock's time.
GuessesSlow ==
    \A c \in Visitors : \A i \in 1..(Len(failed[c]) - FailureLimit) :
        \E j \in i..(i + FailureLimit - 1) : failed[c][j + 1] - failed[c][j] >= LockDuration

\* A visitor gets no more, and nothing else, than the owner grants: tickets end
\* with any change of the share (share/download_ticket.go, hashDownloadTicketState),
\* a download serves what the ticket named, accesses are counted over failed and
\* rolled back reservations, and guessing is slowed down.
TicketsHonest == TicketsFresh /\ ServedFresh /\ AccessesCounted /\ GuessesSlow
=============================================================================
