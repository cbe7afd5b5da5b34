----------------------------- MODULE AccessProofs ---------------------------
(***************************************************************************)
(* Who gets in, and until when: TicketsHonest of shares and SessionsHonest *)
(* of logins, for every set of clients and calls, every limit, lifetime and*)
(* duration, over concurrent calls, failed saves and power losses.         *)
(*                                                                         *)
(* ShareInv is about the share and its tickets.  Whatever still remembers a*)
(* state of the share (a ticket, a call, the file a power loss brings back)*)
(* remembers its revision, which the code compares, and its stamp, which the*)
(* properties compare; DatesKept says that the two order all these states  *)
(* alike.  DownloadDated carries a download's checks past the reopening of *)
(* the file, and CountsHeld counts tickets and the reservations of calls under*)
(* way against the stored counter.  GuessInv is about the password attempts:*)
(* the failures an entry has forgotten are a lock duration away from those it*)
(* remembers, so no run of failures is longer than the limit.              *)
(*                                                                         *)
(* AuthInv is about sessions.  It compares every token with what the file  *)
(* has of its session, and every time a token or an answer was given with  *)
(* the floor in the file, which is all a restart has to go by.             *)
(***************************************************************************)
EXTENDS ShareTickets, AuthSessions, FiniteSetTheorems, SequenceTheorems, TLAPS

-----------------------------------------------------------------------------

\* The later of two times.
LEMMA MaxOfTwo ==
    ASSUME NEW a \in Int, NEW b \in Int
    PROVE  Max({a, b}) \in {a, b} /\ Max({a, b}) >= a /\ Max({a, b}) >= b
<1>1. \E x \in {a, b} : \A y \in {a, b} : x >= y
  BY SMT
<1>2. Max({a, b}) \in {a, b} /\ \A y \in {a, b} : Max({a, b}) >= y
  BY <1>1 DEF Max
<1> QED BY <1>2

-----------------------------------------------------------------------------
(* The inductive invariant of shares and tickets                           *)

\* The values the state takes.
ShareHashes ==
    [path : SharePaths \cup {FirstPath}, on : BOOLEAN, exp : Nat, max : Nat, pass : Nat,
     rev : Nat]
StateHashes == [share : ShareHashes, owner : Nat]
TicketSet == [n : Nat, exp : Nat, hash : StateHashes, stamp : Nat]
Requests ==
    {Waiting} \cup [at : {"authorized"}, s : ShareStates] \cup [at : {"rollback"}]
    \cup [at : {"hashed", "reserved"}, s : ShareStates, exp : Nat, hash : StateHashes]
Downloads ==
    {Waiting} \cup [at : {"checked"}, g : TicketSet]
    \cup [at : {"opened", "serving"}, g : TicketSet, stamp : Nat]
Hooks == {Waiting} \cup [at : {"favorites"}, kind : {"rename", "delete"}, was : ShareStates]

ShareType ==
    /\ shr \in ShareStates \cup {NoShare} /\ shrKept \in ShareStates \cup {NoShare}
    /\ owner \in [on : BOOLEAN, updated : Nat]
    /\ clock \in Nat /\ changes \in Nat /\ uncounted \in Nat
    /\ hook \in Hooks /\ download \in Downloads
    /\ ticketReq \in [TicketCalls -> Requests]
    /\ tickets \subseteq TicketSet /\ IsFiniteSet(tickets)

\* Revision r and stamp n of one state of the share, q and m of another: the two
\* count alike.
Ordered(r, n, q, m) == (r < q <=> n < m) /\ (r = q <=> n = m)

\* A state of the share that something still remembers is no later than the share
\* and counts like the share and like what a power loss would bring back.
Dated(r, n) ==
    /\ n <= changes
    /\ shr # NoShare => n <= shr.stamp /\ Ordered(r, n, shr.rev, shr.stamp)
    /\ shrKept # NoShare => Ordered(r, n, shrKept.rev, shrKept.stamp)

\* Calls that carry a state of the share, and calls whose access is counted.
Bearing == {"authorized", "hashed", "reserved"}
Holding == {t \in TicketCalls : ticketReq[t].at \in {"reserved", "rollback"}}

\* Every remembered state of the share is dated consistently.
DatesKept ==
    /\ shr # NoShare => shr.stamp <= changes
    /\ shrKept # NoShare => Dated(shrKept.rev, shrKept.stamp)
    /\ \A g \in tickets : Dated(g.hash.share.rev, g.stamp)
    /\ \A t \in TicketCalls : ticketReq[t].at \in Bearing => Dated(ticketReq[t].s.rev, ticketReq[t].s.stamp)

\* Before the first share there is nothing to remember.
BeforeShare ==
    changes = 0 => /\ shr = NoShare /\ shrKept = NoShare /\ tickets = {}
                   /\ \A t \in TicketCalls : ticketReq[t] = Waiting

\* A download that opened the file checked it between its ticket and the share as it is.
DownloadDated ==
    /\ download.at # "idle" => download.g \in tickets
    /\ download.at = "opened" /\ shr # NoShare =>
          download.g.stamp <= download.stamp /\ download.stamp <= shr.stamp
    /\ ServedFresh

\* Each ticket, and each access a call holds, is in the stored counter.
CountsHeld ==
    shr # NoShare => Cardinality(tickets) + Cardinality(Holding) <= shr.count + uncounted

ShareInv == ShareType /\ DatesKept /\ BeforeShare /\ DownloadDated /\ CountsHeld

-----------------------------------------------------------------------------
(* The inductive invariant of the password attempts                        *)

Entries == [flying : BOOLEAN, failures : Nat, last : Nat, until : Nat] \cup {Untracked}
\* The failures an entry remembers.
Run(e) == IF e = Untracked THEN 0 ELSE e.failures

\* Of the failures f of one client, the last Run(e) are those its entry e still
\* remembers; between them and the one before there was a pause as long as a lock.
\* An entry in flight is a check under way (busy).
EntryHeld(e, f, busy) ==
    LET n == Len(f)
        k == Run(e)
    IN  /\ k <= n /\ k <= FailureLimit
        /\ \A i \in 1..n : f[i] <= clock
        /\ n > k /\ k = 0 => clock - f[n] >= LockDuration
        /\ n > k /\ k > 0 => f[n - k + 1] - f[n - k] >= LockDuration
        /\ busy = (e # Untracked /\ e.flying)
        /\ e # Untracked =>
              /\ k = 0 => e.flying
              /\ k > 0 => e.last = f[n]
              /\ k < FailureLimit => e.until = 0
              /\ k = FailureLimit => e.until = e.last + LockDuration /\ ~e.flying
        /\ \A i \in 1..(n - FailureLimit) :
              \E j \in i..(i + FailureLimit - 1) : f[j + 1] - f[j] >= LockDuration
GuessHeld(c) == EntryHeld(attempts[c], failed[c], trying[c] # 0)

GuessType ==
    /\ attempts \in [Visitors -> Entries] /\ trying \in [Visitors -> Nat]
    /\ failed \in [Visitors -> Seq(Nat)]

GuessInv == GuessType /\ \A c \in Visitors : GuessHeld(c)

TicketsInv == ShareInv /\ GuessInv

-----------------------------------------------------------------------------
(* What a step does to the share.                                           *)

\* A change, a deletion, the first share, or none of them.
Bumped ==
    /\ shr # NoShare /\ shr' \in ShareStates
    /\ shr'.rev = shr.rev + 1 /\ shr'.stamp = changes + 1 /\ shr'.count = shr.count
    /\ changes' = changes + 1 /\ (shrKept' = shrKept \/ shrKept' = shr')
Gone ==
    /\ shr' = NoShare /\ changes' = changes + 1
    /\ (shrKept' = shrKept \/ shrKept' = NoShare)
Born ==
    /\ shr = NoShare /\ changes = 0 /\ shr' \in ShareStates
    /\ shr'.rev = 1 /\ shr'.stamp = 1 /\ shr'.count = 0
    /\ changes' = 1 /\ (shrKept' = shrKept \/ shrKept' = shr')
Same == UNCHANGED <<shr, shrKept, changes>>

LEMMA NeverType == Never \in Nat
BY SMT DEF Never

LEMMA BumpShape ==
    ASSUME NEW s \in ShareStates, changes \in Nat
    PROVE  /\ Bump(s) \in ShareStates
           /\ Bump(s).rev = s.rev + 1 /\ Bump(s).stamp = changes + 1 /\ Bump(s).count = s.count
<1> DEFINE r == [s EXCEPT !.rev = @ + 1]
           b == [r EXCEPT !.stamp = changes + 1]
<1>1. r \in ShareStates /\ r.rev = s.rev + 1 /\ r.count = s.count
  BY DEF ShareStates
<1> HIDE DEF r
<1>2. b \in ShareStates /\ b.rev = r.rev /\ b.count = r.count /\ b.stamp = changes + 1
  BY <1>1 DEF ShareStates
<1>3. Bump(s) = b
  BY DEF Bump, r
<1> HIDE DEF b
<1> QED
  BY <1>1, <1>2, <1>3

LEMMA ChangeShape ==
    ASSUME ShareType, shr # NoShare, NEW s \in ShareStates, s.rev = shr.rev, s.count = shr.count,
           NEW o \in ShareSaves, ChangeShare(Bump(s), o)
    PROVE  IF o = "fail" THEN Same ELSE Bumped
<1> DEFINE b == Bump(s)
<1>1. b \in ShareStates /\ b.rev = shr.rev + 1 /\ b.stamp = changes + 1 /\ b.count = shr.count
  BY BumpShape DEF ShareType
<1>2. /\ shr' = IF o = "fail" THEN shr ELSE b
      /\ shrKept' = IF o = "ok" THEN b ELSE shrKept
      /\ changes' = IF o = "fail" THEN changes ELSE changes + 1
  BY DEF ChangeShare, PersistShare
<1> HIDE DEF b
<1> QED
  BY <1>1, <1>2 DEF Same, Bumped

LEMMA EditShape ==
    ASSUME ShareType, shr # NoShare, NEW s \in Edits(shr)
    PROVE  s \in ShareStates /\ s.rev = shr.rev /\ s.count = shr.count
<1>1. shr \in ShareStates /\ clock \in Nat
  BY DEF ShareType
<1>2. CASE s = [shr EXCEPT !.on = ~@]
  <2> DEFINE v == ~shr.on
  <2>1. v \in BOOLEAN /\ s = [shr EXCEPT !.on = v]
    BY <1>2
  <2> HIDE DEF v
  <2> QED BY <1>1, <2>1 DEF ShareStates
<1>5. CASE s \in {[shr EXCEPT !.exp = clock + 1], [shr EXCEPT !.exp = Never]}
  BY <1>1, <1>5, NeverType DEF ShareStates
<1>3. CASE s \in {[shr EXCEPT !.pass = IF @ = 0 THEN 1 ELSE 0], [shr EXCEPT !.pass = @ + 1]}
  BY <1>1, <1>3 DEF ShareStates
<1>4. CASE s \in {[shr EXCEPT !.max = @ + 1], [shr EXCEPT !.max = 0], shr}
  BY <1>1, <1>4 DEF ShareStates
<1> QED
  BY <1>2, <1>3, <1>4, <1>5 DEF Edits

LEMMA CreateShape ==
    ASSUME ShareType, NEW o \in ShareSaves, CreateShare(o)
    PROVE  Born \/ Same
<1>1. PICK pass \in {0, 1}, max \in {0, 1}, life \in {1, Never} :
        ChangeShare([path |-> FirstPath, on |-> TRUE, exp |-> clock + life, max |-> max,
                     count |-> 0, pass |-> pass, rev |-> 1, stamp |-> 1], o)
  BY DEF CreateShare
<1> DEFINE s == [path |-> FirstPath, on |-> TRUE, exp |-> clock + life, max |-> max,
                 count |-> 0, pass |-> pass, rev |-> 1, stamp |-> 1]
<1>2. s \in ShareStates /\ s.rev = 1 /\ s.stamp = 1 /\ s.count = 0
  BY NeverType DEF ShareStates, ShareType
<1>3. /\ shr' = IF o = "fail" THEN shr ELSE s
      /\ shrKept' = IF o = "ok" THEN s ELSE shrKept
      /\ changes' = IF o = "fail" THEN changes ELSE changes + 1
  BY <1>1 DEF ChangeShare, PersistShare
<1>4. shr = NoShare /\ changes = 0
  BY DEF CreateShare
<1> HIDE DEF s
<1> QED
  BY <1>2, <1>3, <1>4 DEF Born, Same

LEMMA PutBackShape ==
    ASSUME ShareType, shr # NoShare, hook.at = "favorites"
    PROVE  /\ PutBack(hook.was) \in ShareStates
           /\ PutBack(hook.was).rev = shr.rev /\ PutBack(hook.was).count = shr.count
<1>1. shr \in ShareStates /\ hook.was \in ShareStates
  BY DEF ShareType, Hooks, Waiting
<1>2. hook.was.path \in SharePaths \cup {FirstPath} /\ hook.was.on \in BOOLEAN
  BY <1>1 DEF ShareStates
<1> QED
  BY <1>1, <1>2 DEF PutBack, ShareStates

\* Whatever the owner and the hooks do, the share is created, changed with a new
\* revision, deleted, or left alone.
LEMMA OwnerShape ==
    ASSUME ShareType, OwnerSide \/ HookSide
    PROVE  /\ Bumped \/ Gone \/ Born \/ Same
           /\ UNCHANGED <<clock, ticketReq, tickets, download, guessVars, uncounted>>
           /\ hook' \in Hooks /\ owner' \in [on : BOOLEAN, updated : Nat]
<1> USE DEF ShareSaves
<1>1. ASSUME NEW o \in ShareSaves, CreateShare(o)
      PROVE  /\ Born \/ Same
             /\ UNCHANGED <<owner, hook, clock, ticketReq, tickets, download, guessVars, uncounted>>
  BY <1>1, CreateShape DEF CreateShare
<1>2. ASSUME NEW o \in ShareSaves, UpdateShare(o)
      PROVE  /\ Bumped \/ Same
             /\ UNCHANGED <<owner, hook, clock, ticketReq, tickets, download, guessVars, uncounted>>
  <2>1. PICK s \in Edits(shr) : ChangeShare(Bump(s), o)
    BY <1>2 DEF UpdateShare
  <2>2. shr # NoShare
    BY <1>2 DEF UpdateShare
  <2>3. s \in ShareStates /\ s.rev = shr.rev /\ s.count = shr.count
    BY <2>2, EditShape
  <2>4. IF o = "fail" THEN Same ELSE Bumped
    BY <2>1, <2>2, <2>3, ChangeShape
  <2> QED BY <1>2, <2>4 DEF UpdateShare
<1>3. ASSUME NEW o \in ShareSaves, DeleteShare(o)
      PROVE  /\ Gone \/ Same
             /\ UNCHANGED <<owner, hook, clock, ticketReq, tickets, download, guessVars, uncounted>>
  BY <1>3 DEF DeleteShare, ChangeShare, PersistShare, Gone, Same
<1>4. ASSUME OwnerChanges
      PROVE  /\ Same /\ UNCHANGED <<hook, clock, ticketReq, tickets, download, guessVars, uncounted>>
             /\ owner' \in [on : BOOLEAN, updated : Nat]
  BY <1>4 DEF OwnerChanges, Same, shareVars, ShareType
<1>5. ASSUME HookDone
      PROVE  /\ Same /\ UNCHANGED <<owner, clock, ticketReq, tickets, download, guessVars, uncounted>>
             /\ hook' \in Hooks
  BY <1>5 DEF HookDone, Same, shareVars, Hooks
<1>6. ASSUME NEW o \in ShareSaves, RenamePath(o)
      PROVE  /\ Bumped \/ Same
             /\ UNCHANGED <<owner, clock, ticketReq, tickets, download, guessVars, uncounted>>
             /\ hook' \in Hooks
  <2>1. PICK to \in SharePaths \ {shr.path} : ChangeShare(Bump([shr EXCEPT !.path = to]), o)
    BY <1>6 DEF RenamePath
  <2> DEFINE s == [shr EXCEPT !.path = to]
  <2>2. shr # NoShare /\ shr \in ShareStates
    BY <1>6 DEF RenamePath, ShareType
  <2>3. s \in ShareStates /\ s.rev = shr.rev /\ s.count = shr.count
    BY <2>2 DEF ShareStates
  <2> HIDE DEF s
  <2>4. IF o = "fail" THEN Same ELSE Bumped
    BY <2>1, <2>2, <2>3, ChangeShape DEF s
  <2>5. hook' \in Hooks
    BY <1>6, <2>2 DEF RenamePath, Hooks, ShareType
  <2> QED BY <1>6, <2>4, <2>5 DEF RenamePath
<1>7. ASSUME NEW o \in ShareSaves, DeletePath(o)
      PROVE  /\ Bumped \/ Same
             /\ UNCHANGED <<owner, clock, ticketReq, tickets, download, guessVars, uncounted>>
             /\ hook' \in Hooks
  <2> DEFINE s == [shr EXCEPT !.on = FALSE]
  <2>1. ChangeShare(Bump(s), o)
    BY <1>7 DEF DeletePath
  <2>2. shr # NoShare /\ shr \in ShareStates
    BY <1>7 DEF DeletePath, ShareType
  <2>3. s \in ShareStates /\ s.rev = shr.rev /\ s.count = shr.count
    BY <2>2 DEF ShareStates
  <2> HIDE DEF s
  <2>4. IF o = "fail" THEN Same ELSE Bumped
    BY <2>1, <2>2, <2>3, ChangeShape
  <2>5. hook' \in Hooks
    BY <1>7, <2>2 DEF DeletePath, Hooks, ShareType
  <2> QED BY <1>7, <2>4, <2>5 DEF DeletePath
<1>8. ASSUME NEW o \in ShareSaves, HookRollback(o)
      PROVE  /\ Bumped \/ Same
             /\ UNCHANGED <<owner, clock, ticketReq, tickets, download, guessVars, uncounted>>
             /\ hook' \in Hooks
  <2>1. CASE shr = NoShare \/ (shr # NoShare /\ PutBack(hook.was) = shr)
    BY <1>8, <2>1 DEF HookRollback, Same, shareVars, Hooks
  <2>2. CASE ~(shr = NoShare \/ (shr # NoShare /\ PutBack(hook.was) = shr))
    <3>1. shr # NoShare /\ hook.at = "favorites" /\ ChangeShare(Bump(PutBack(hook.was)), o)
      BY <1>8, <2>2 DEF HookRollback
    <3> DEFINE s == PutBack(hook.was)
    <3>2. s \in ShareStates /\ s.rev = shr.rev /\ s.count = shr.count
      BY <3>1, PutBackShape
    <3> HIDE DEF s
    <3>3. IF o = "fail" THEN Same ELSE Bumped
      BY <3>1, <3>2, ChangeShape DEF s
    <3> QED BY <1>8, <3>3 DEF HookRollback, Hooks
  <2> QED BY <2>1, <2>2
<1>9. hook \in Hooks /\ owner \in [on : BOOLEAN, updated : Nat]
  BY DEF ShareType
<1> QED
  BY <1>1, <1>2, <1>3, <1>4, <1>5, <1>6, <1>7, <1>8, <1>9 DEF OwnerSide, HookSide

-----------------------------------------------------------------------------
(* Changes of the share, seen from the tickets.                             *)

\* Every state that is remembered stays dated when the share moves on.
LEMMA DatedMoves ==
    ASSUME ShareType, DatesKept, NEW r \in Nat, NEW n \in Nat, Dated(r, n),
           Bumped \/ Gone \/ Same
    PROVE  Dated(r, n)'
<1>1. /\ changes \in Nat
      /\ shr # NoShare => shr.rev \in Nat /\ shr.stamp \in Nat
      /\ shrKept # NoShare => shrKept.rev \in Nat /\ shrKept.stamp \in Nat
  BY DEF ShareType, ShareStates
<1>2. CASE Same
  BY <1>2 DEF Same, Dated
<1>3. CASE Gone
  BY <1>1, <1>3 DEF Gone, Dated
<1>4. CASE Bumped
  <2>1. /\ shr # NoShare /\ shr'.rev = shr.rev + 1 /\ shr'.stamp = changes + 1
        /\ changes' = changes + 1 /\ (shrKept' = shrKept \/ shrKept' = shr')
    BY <1>4 DEF Bumped
  <2>2. n <= changes /\ r <= shr.rev
    BY <1>1, <2>1 DEF Dated, Ordered
  <2>3. Ordered(r, n, shr'.rev, shr'.stamp) /\ n <= shr'.stamp
    BY <1>1, <2>1, <2>2 DEF Ordered
  <2>4. shrKept' # NoShare => Ordered(r, n, shrKept'.rev, shrKept'.stamp)
    BY <2>1, <2>3 DEF Dated
  <2> QED BY <1>1, <2>1, <2>2, <2>3, <2>4 DEF Dated
<1> QED BY <1>2, <1>3, <1>4

LEMMA RememberedTypes ==
    ASSUME ShareType
    PROVE  /\ \A g \in tickets : g.hash.share.rev \in Nat /\ g.stamp \in Nat
           /\ \A t \in TicketCalls : ticketReq[t].at \in Bearing =>
                 ticketReq[t].s \in ShareStates /\ ticketReq[t].s.rev \in Nat /\ ticketReq[t].s.stamp \in Nat
<1>1. ASSUME NEW g \in tickets PROVE g.hash.share.rev \in Nat /\ g.stamp \in Nat
  BY DEF ShareType, TicketSet, StateHashes, ShareHashes
<1>2. ASSUME NEW t \in TicketCalls, ticketReq[t].at \in Bearing
      PROVE  ticketReq[t].s \in ShareStates
  <2>1. ticketReq[t] \in Requests
    BY DEF ShareType
  <2> QED BY <1>2, <2>1 DEF Requests, Waiting, Bearing
<1> QED
  BY <1>1, <1>2 DEF ShareStates

LEMMA ChangeKeeps ==
    ASSUME ShareInv, Bumped \/ Gone \/ Born \/ Same,
           UNCHANGED <<clock, ticketReq, tickets, download, uncounted>>,
           hook' \in Hooks, owner' \in [on : BOOLEAN, updated : Nat]
    PROVE  ShareInv'
<1> USE DEF ShareInv
<1>1. ShareType'
  BY DEF ShareType, Bumped, Gone, Born, Same
<1>2. shr # NoShare => shr.rev \in Nat /\ shr.stamp \in Nat /\ shr.count \in Nat
  BY DEF ShareType, ShareStates
<1>3. shrKept # NoShare => shrKept.rev \in Nat /\ shrKept.stamp \in Nat
  BY DEF ShareType, ShareStates
<1>4. DatesKept'
  <2>1. CASE Born
    <3>1. /\ tickets' = {} /\ shrKept = NoShare
          /\ \A t \in TicketCalls : ticketReq'[t] = Waiting
      BY <2>1 DEF Born, BeforeShare
    <3>2. shrKept' = NoShare \/ shrKept' = shr'
      BY <2>1, <3>1 DEF Born
    <3>3. /\ shr' # NoShare => shr'.stamp <= changes'
          /\ shrKept' # NoShare => Dated(shrKept.rev, shrKept.stamp)'
      BY <2>1, <3>2 DEF Born, Dated, Ordered
    <3> QED BY <3>1, <3>3 DEF DatesKept, Waiting, Bearing
  <2>2. CASE Bumped \/ Gone \/ Same
    <3>1. \A g \in tickets' : Dated(g.hash.share.rev, g.stamp)'
      BY <2>2, DatedMoves, RememberedTypes DEF DatesKept
    <3>2. \A t \in TicketCalls : ticketReq'[t].at \in Bearing => Dated(ticketReq[t].s.rev, ticketReq[t].s.stamp)'
      <4> SUFFICES ASSUME NEW t \in TicketCalls, ticketReq[t].at \in Bearing
                   PROVE  Dated(ticketReq[t].s.rev, ticketReq[t].s.stamp)'
        OBVIOUS
      <4> DEFINE r == ticketReq[t].s.rev
                 n == ticketReq[t].s.stamp
      <4>1. r \in Nat /\ n \in Nat /\ Dated(r, n)
        BY RememberedTypes DEF DatesKept
      <4>2. ticketReq[t].s.rev' = r /\ ticketReq[t].s.stamp' = n
        OBVIOUS
      <4> HIDE DEF r, n
      <4>3. r' = r /\ n' = n
        BY DEF r, n
      <4>4. (Dated(r, n))'
        BY <2>2, <4>1, DatedMoves, <4>3 DEF Dated
      <4> QED BY <4>4, <4>2, <4>3 DEF Dated
    <3>3. shr' # NoShare => shr'.stamp <= changes'
      BY <1>1, <2>2 DEF DatesKept, Bumped, Gone, Same, ShareType, ShareStates
    <3>4. ASSUME shrKept' # NoShare PROVE Dated(shrKept.rev, shrKept.stamp)'
      <4>1. CASE shrKept' = shrKept
        BY <1>3, <2>2, <3>4, <4>1, DatedMoves DEF DatesKept
      <4>2. CASE shrKept' # shrKept
        <5>1. shrKept' = shr' /\ shr'.stamp = changes'
          BY <2>2, <3>4, <4>2 DEF Bumped, Gone, Same
        <5> QED BY <1>1, <5>1, <3>3, <3>4 DEF Dated, Ordered, ShareType, ShareStates
      <4> QED BY <4>1, <4>2
    <3> QED BY <3>1, <3>2, <3>3, <3>4 DEF DatesKept
  <2> QED BY <2>1, <2>2
<1>5. BeforeShare'
  BY DEF BeforeShare, Bumped, Gone, Born, Same, ShareType
<1>6. DownloadDated'
  <2>1. CASE Same
    BY <2>1 DEF Same, DownloadDated, ServedFresh
  <2>2. CASE Gone
    BY <2>2 DEF Gone, DownloadDated, ServedFresh
  <2>3. CASE Bumped
    <3>1. shr'.stamp = changes + 1 /\ shr.stamp <= changes /\ shr # NoShare /\ changes \in Nat
      BY <2>3 DEF Bumped, DatesKept, ShareType
    <3>2. download.at = "opened" => download.stamp \in Nat
      BY DEF ShareType, Downloads, Waiting
    <3>3. download.at = "opened" => download.g.stamp <= download.stamp /\ download.stamp <= shr'.stamp
      BY <1>2, <3>1, <3>2 DEF DownloadDated
    <3> QED BY <3>3 DEF DownloadDated, ServedFresh
  <2>4. CASE Born
    <3>1. download.at = "idle"
      BY <2>4 DEF Born, BeforeShare, DownloadDated
    <3> QED BY <3>1 DEF DownloadDated, ServedFresh
  <2> QED BY <2>1, <2>2, <2>3, <2>4
<1>7. CountsHeld'
  <2>1. Holding' = Holding
    BY DEF Holding
  <2>2. CASE Same \/ Gone \/ Bumped
    BY <2>1, <2>2 DEF Same, Gone, Bumped, CountsHeld
  <2>3. CASE Born
    <3>1. tickets = {} /\ Holding = {} /\ shr'.count = 0
      BY <2>3 DEF Born, BeforeShare, Holding, Waiting
    <3> QED BY <2>1, <3>1, FS_EmptySet DEF CountsHeld, ShareType
  <2> QED BY <2>2, <2>3
<1> QED
  BY <1>1, <1>4, <1>5, <1>6, <1>7

-----------------------------------------------------------------------------
(* Requests for a ticket.                                                   *)

LEMMA HashTypes ==
    ASSUME ShareType, NEW s \in ShareStates
    PROVE  HashState(s) \in StateHashes /\ HashState(s).share.rev = s.rev
BY DEF ShareType, HashState, HashShare, StateHashes, ShareHashes, ShareStates

\* One request moves: what the others hold stays.
LEMMA HoldingMoves ==
    ASSUME ShareType, NEW t \in TicketCalls, \A u \in TicketCalls \ {t} : ticketReq'[u] = ticketReq[u]
    PROVE  /\ Holding \in SUBSET TicketCalls /\ IsFiniteSet(Holding) /\ Cardinality(Holding) \in Nat
           /\ Cardinality(Holding') =
                 Cardinality(Holding)
                 + (IF ticketReq'[t].at \in {"reserved", "rollback"} THEN 1 ELSE 0)
                 - (IF ticketReq[t].at \in {"reserved", "rollback"} THEN 1 ELSE 0)
<1>1. /\ Holding \in SUBSET TicketCalls /\ IsFiniteSet(Holding) /\ Cardinality(Holding) \in Nat
  BY ShareAssumption, FS_Subset, FS_CardinalityType DEF Holding
<1> DEFINE others == Holding \ {t}
<1>2. /\ IsFiniteSet(others) /\ Cardinality(others) \in Nat
      /\ Cardinality(Holding) = Cardinality(others) + (IF t \in Holding THEN 1 ELSE 0)
  <2>1. /\ IsFiniteSet(others)
        /\ Cardinality(others) = IF t \in Holding THEN Cardinality(Holding) - 1 ELSE Cardinality(Holding)
    BY <1>1, FS_RemoveElement
  <2>2. Cardinality(others) \in Nat
    BY <2>1, FS_CardinalityType
  <2> HIDE DEF others
  <2> QED BY <1>1, <2>1, <2>2
<1>3. Holding' = IF ticketReq'[t].at \in {"reserved", "rollback"} THEN others \cup {t} ELSE others
  BY DEF Holding
<1>4. Cardinality(Holding') = Cardinality(others) + (IF ticketReq'[t].at \in {"reserved", "rollback"} THEN 1 ELSE 0)
  <2>1. t \notin others
    OBVIOUS
  <2> HIDE DEF others
  <2>2. Cardinality(others \cup {t}) = Cardinality(others) + 1
    BY <1>2, <2>1, FS_AddElement
  <2> QED BY <1>2, <1>3, <2>2
<1>5. t \in Holding <=> ticketReq[t].at \in {"reserved", "rollback"}
  BY DEF Holding
<1> HIDE DEF others
<1> QED
  BY <1>1, <1>2, <1>4, <1>5

LEMMA AuthorizeKeeps ==
    ASSUME ShareInv, NEW t \in TicketCalls, NEW c \in Visitors, AuthorizeShare(t, c)
    PROVE  ShareInv'
<1> USE DEF ShareInv
<1>1. /\ shr # NoShare /\ ticketReq[t].at = "idle"
      /\ ticketReq' = [ticketReq EXCEPT ![t] = [at |-> "authorized", s |-> shr]]
      /\ UNCHANGED <<shr, shrKept, owner, clock, hook, download, changes, uncounted, tickets>>
  BY DEF AuthorizeShare, GoTicket, KeepTicketing, shareVars
<1>2. shr \in ShareStates /\ shr.rev \in Nat /\ shr.stamp \in Nat
  BY <1>1 DEF ShareType, ShareStates
<1>3. ShareType'
  <2>1. [at |-> "authorized", s |-> shr] \in Requests
    BY <1>2 DEF Requests
  <2> QED BY <1>1, <2>1 DEF ShareType
<1>4. /\ ticketReq'[t].at = "authorized" /\ ticketReq'[t].s = shr
      /\ \A u \in TicketCalls \ {t} : ticketReq'[u] = ticketReq[u]
  BY <1>1 DEF ShareType
<1>5. Dated(shr.rev, shr.stamp)
  BY <1>1, <1>2 DEF DatesKept, Dated, Ordered, ShareType, ShareStates
<1>6. DatesKept'
  <2>1. ASSUME NEW u \in TicketCalls, ticketReq'[u].at \in Bearing
        PROVE  Dated(ticketReq[u].s.rev, ticketReq[u].s.stamp)'
    <3>1. CASE u = t
      BY <1>1, <1>4, <1>5, <3>1 DEF Dated
    <3>2. CASE u # t
      BY <1>1, <1>4, <2>1, <3>2 DEF DatesKept, Dated
    <3> QED BY <3>1, <3>2
  <2> QED BY <1>1, <2>1 DEF DatesKept, Dated
<1>7. BeforeShare' /\ DownloadDated'
  BY <1>1 DEF BeforeShare, DownloadDated, ServedFresh
<1>8. CountsHeld'
  <2>1. Cardinality(Holding') = Cardinality(Holding)
    BY <1>1, <1>4, HoldingMoves
  <2> QED BY <1>1, <2>1 DEF CountsHeld
<1> QED
  BY <1>3, <1>6, <1>7, <1>8

\* A request goes on with the share it carries, or ends.
LEMMA CarryKeeps ==
    ASSUME ShareInv, NEW t \in TicketCalls, NEW r \in Requests,
           ticketReq' = [ticketReq EXCEPT ![t] = r],
           r.at \in Bearing => ticketReq[t].at \in Bearing /\ r.s = ticketReq[t].s,
           ticketReq[t].at # "idle",
           r.at \in {"reserved", "rollback"} => ticketReq[t].at \in {"reserved", "rollback"},
           UNCHANGED <<shr, shrKept, owner, clock, hook, download, changes, uncounted, tickets>>
    PROVE  ShareInv'
<1> USE DEF ShareInv
<1>1. ShareType'
  BY DEF ShareType
<1>2. ticketReq'[t] = r /\ \A u \in TicketCalls \ {t} : ticketReq'[u] = ticketReq[u]
  BY DEF ShareType
<1>3. DatesKept'
  <2>1. ASSUME NEW u \in TicketCalls, ticketReq'[u].at \in Bearing
        PROVE  Dated(ticketReq[u].s.rev, ticketReq[u].s.stamp)'
    <3>1. CASE u = t
      BY <1>2, <2>1, <3>1 DEF Dated, DatesKept
    <3>2. CASE u # t
      BY <1>2, <2>1, <3>2 DEF DatesKept, Dated
    <3> QED BY <3>1, <3>2
  <2> QED BY <2>1 DEF DatesKept, Dated
<1>4. BeforeShare' /\ DownloadDated'
  BY DEF BeforeShare, DownloadDated, ServedFresh, Waiting
<1>5. CountsHeld'
  <2>1. Cardinality(Holding') <= Cardinality(Holding) /\ Cardinality(Holding') \in Nat /\ Cardinality(Holding) \in Nat
    <3>1. IsFiniteSet(Holding') /\ Cardinality(Holding') \in Nat
      BY ShareAssumption, FS_Subset, FS_CardinalityType DEF Holding
    <3> QED BY <1>2, <3>1, HoldingMoves
  <2>2. Cardinality(tickets) \in Nat /\ uncounted \in Nat
    BY FS_CardinalityType DEF ShareType
  <2>3. shr # NoShare => shr.count \in Nat
    BY DEF ShareType, ShareStates
  <2> QED BY <2>1, <2>2, <2>3 DEF CountsHeld
<1> QED
  BY <1>1, <1>3, <1>4, <1>5

LEMMA PreflightKeeps ==
    ASSUME ShareInv, NEW t \in TicketCalls, Preflight(t)
    PROVE  ShareInv'
<1> DEFINE s == ticketReq[t].s
           exp == IF s.exp < clock + TicketTTL THEN s.exp ELSE clock + TicketTTL
<1>1. ticketReq[t].at = "authorized" /\ s \in ShareStates
  BY RememberedTypes DEF Preflight, Bearing, ShareInv
<1>2. UNCHANGED <<shr, shrKept, owner, clock, hook, download, changes, uncounted, tickets>>
  BY DEF Preflight, KeepTicketing, shareVars
<1>3. CASE EndTicket(t)
  <2>1. Waiting \in Requests /\ Waiting.at = "idle" /\ ticketReq' = [ticketReq EXCEPT ![t] = Waiting]
    BY <1>3 DEF Requests, Waiting, EndTicket
  <2> HIDE DEF s, exp
  <2> QED BY <1>1, <1>2, <2>1, CarryKeeps DEF Bearing
<1>4. CASE GoTicket(t, [at |-> "hashed", s |-> s, exp |-> exp, hash |-> HashState(s)])
  <2>1. exp \in Nat
    BY <1>1, ShareAssumption DEF ShareInv, ShareType, ShareStates
  <2>2. HashState(s) \in StateHashes
    BY <1>1, HashTypes DEF ShareInv
  <2> DEFINE r == [at |-> "hashed", s |-> s, exp |-> exp, hash |-> HashState(s)]
  <2> HIDE DEF exp
  <2>3. r \in Requests /\ r.at = "hashed" /\ r.s = s /\ ticketReq' = [ticketReq EXCEPT ![t] = r]
    BY <1>1, <1>4, <2>1, <2>2 DEF Requests, GoTicket
  <2> HIDE DEF r
  <2> QED BY <1>1, <1>2, <2>3, CarryKeeps DEF Bearing
<1> QED
  BY <1>3, <1>4 DEF Preflight

\* Only the count of the share moves.
Recounted ==
    /\ shr # NoShare /\ shr' \in ShareStates /\ shr'.rev = shr.rev /\ shr'.stamp = shr.stamp
    /\ changes' = changes /\ (shrKept' = shrKept \/ shrKept' = shr')

LEMMA RecountKeeps ==
    ASSUME ShareInv, Recounted, NEW t \in TicketCalls, NEW r \in Requests,
           ticketReq' = [ticketReq EXCEPT ![t] = r],
           r.at \in Bearing => r.s.rev = shr.rev /\ r.s.stamp = shr.stamp,
           Cardinality(Holding') - Cardinality(Holding) <= shr'.count - shr.count,
           UNCHANGED <<owner, clock, hook, download, uncounted, tickets>>
    PROVE  ShareInv'
<1> USE DEF ShareInv
<1>1. shr \in ShareStates /\ shr.rev \in Nat /\ shr.stamp \in Nat /\ shr.count \in Nat /\ shr'.count \in Nat
  BY DEF Recounted, ShareType, ShareStates
<1>2. shrKept # NoShare => shrKept.rev \in Nat /\ shrKept.stamp \in Nat
  BY DEF ShareType, ShareStates
<1>3. ShareType'
  BY DEF ShareType, Recounted
<1>4. ticketReq'[t] = r /\ \A u \in TicketCalls \ {t} : ticketReq'[u] = ticketReq[u]
  BY DEF ShareType
<1>5. shr' # NoShare
  BY ShareAssumption DEF Recounted
<1>6. ASSUME NEW p \in Nat, NEW n \in Nat, Dated(p, n) PROVE Dated(p, n)'
  BY <1>1, <1>5, <1>6 DEF Dated, Recounted
<1>7. Dated(shr.rev, shr.stamp)
  BY <1>1, <1>2 DEF DatesKept, Dated, Ordered, ShareType, Recounted
<1>8. \A g \in tickets' : Dated(g.hash.share.rev, g.stamp)'
  BY <1>6, RememberedTypes DEF DatesKept
<1>9. ASSUME NEW u \in TicketCalls, ticketReq'[u].at \in Bearing
      PROVE  Dated(ticketReq[u].s.rev, ticketReq[u].s.stamp)'
  <2> DEFINE p == ticketReq'[u].s.rev
             n == ticketReq'[u].s.stamp
  <2>1. p \in Nat /\ n \in Nat /\ Dated(p, n)
    <3>1. CASE u = t
      BY <1>1, <1>4, <1>7, <1>9, <3>1
    <3>2. CASE u # t
      BY <1>4, <1>9, <3>2, RememberedTypes DEF DatesKept
    <3> QED BY <3>1, <3>2
  <2> HIDE DEF p, n
  <2>2. /\ n <= changes' /\ n <= shr'.stamp /\ Ordered(p, n, shr'.rev, shr'.stamp)
        /\ shrKept' # NoShare => Ordered(p, n, shrKept'.rev, shrKept'.stamp)
    BY <1>5, <2>1 DEF Dated, Recounted
  <2> QED BY <2>2 DEF Dated, p, n
<1>10. DatesKept'
  <2>1. shr'.stamp <= changes'
    BY DEF Recounted, DatesKept
  <2>2. shrKept' # NoShare => Dated(shrKept.rev, shrKept.stamp)'
    <3>1. CASE shrKept' = shrKept
      BY <1>2, <1>6, <3>1 DEF DatesKept
    <3>2. CASE shrKept' = shr'
      BY <1>1, <2>1, <3>2 DEF Dated, Ordered, Recounted
    <3> QED BY <3>1, <3>2 DEF Recounted
  <2> QED BY <1>8, <1>9, <2>1, <2>2 DEF DatesKept
<1>11. BeforeShare'
  BY DEF Recounted, BeforeShare
<1>12. DownloadDated'
  BY DEF Recounted, DownloadDated, ServedFresh
<1>13. CountsHeld'
  <2>1. /\ Cardinality(Holding') \in Nat /\ Cardinality(Holding) \in Nat
        /\ Cardinality(tickets) \in Nat /\ uncounted \in Nat
    <3>1. IsFiniteSet(Holding') /\ IsFiniteSet(Holding)
      BY ShareAssumption, FS_Subset DEF Holding
    <3> QED BY <3>1, FS_CardinalityType DEF ShareType
  <2> QED BY <1>1, <2>1 DEF CountsHeld, Recounted
<1> QED
  BY <1>3, <1>10, <1>11, <1>12, <1>13

LEMMA ReserveKeeps ==
    ASSUME ShareInv, NEW t \in TicketCalls, NEW o \in ShareSaves, Reserve(t, o)
    PROVE  ShareInv'
<1>1. ticketReq[t].at = "hashed" /\ ticketReq[t] \in Requests /\ ticketReq \in [TicketCalls -> Requests]
  BY DEF Reserve, ShareInv, ShareType
<1>2. UNCHANGED <<owner, clock, hook, download, changes, uncounted, tickets>>
  BY DEF Reserve, KeepTicketing
<1>3. CASE EndTicket(t) /\ UNCHANGED <<shr, shrKept>>
  <2>1. Waiting \in Requests /\ Waiting.at = "idle" /\ ticketReq' = [ticketReq EXCEPT ![t] = Waiting]
    BY <1>3 DEF Requests, Waiting, EndTicket
  <2> QED BY <1>1, <1>2, <1>3, <2>1, CarryKeeps DEF Bearing
<1>4. CASE ~(EndTicket(t) /\ UNCHANGED <<shr, shrKept>>)
  <2> DEFINE s == [shr EXCEPT !.count = @ + 1]
             r == [at |-> "reserved", s |-> s, exp |-> ticketReq[t].exp, hash |-> ticketReq[t].hash]
  <2>1. shr # NoShare /\ o # "fail" /\ PersistShare(s, o) /\ GoTicket(t, r)
    BY <1>4 DEF Reserve, PersistShare, shareVars, ShareSaves
  <2>2. shr \in ShareStates
    BY <2>1 DEF ShareInv, ShareType
  <2>3. /\ s \in ShareStates /\ s.rev = shr.rev /\ s.stamp = shr.stamp
        /\ s.count = shr.count + 1 /\ shr.count \in Nat
    BY <2>2 DEF ShareStates
  <2>4. ticketReq[t].exp \in Nat /\ ticketReq[t].hash \in StateHashes
    BY <1>1 DEF Requests, Waiting
  <2> HIDE DEF s
  <2>5. r \in Requests /\ r.at = "reserved" /\ r.s = s
    BY <2>3, <2>4 DEF Requests
  <2> HIDE DEF r
  <2>6. Recounted /\ shr' = s
    BY <1>2, <2>1, <2>3 DEF Recounted, PersistShare
  <2>7. ticketReq' = [ticketReq EXCEPT ![t] = r]
    BY <2>1 DEF GoTicket
  <2>8. Cardinality(Holding') - Cardinality(Holding) <= shr'.count - shr.count
    <3>1. ticketReq'[t] = r /\ \A u \in TicketCalls \ {t} : ticketReq'[u] = ticketReq[u]
      BY <1>1, <2>7
    <3>2. Cardinality(Holding) \in Nat /\ Cardinality(Holding') = Cardinality(Holding) + 1
      BY <1>1, <2>5, <3>1, HoldingMoves DEF ShareInv
    <3> QED BY <2>3, <2>6, <3>2
  <2> QED BY <1>2, <2>3, <2>5, <2>6, <2>7, <2>8, RecountKeeps
<1> QED
  BY <1>3, <1>4

LEMMA RollbackKeeps ==
    ASSUME ShareInv, NEW t \in TicketCalls, NEW o \in ShareSaves, RollbackReservation(t, o)
    PROVE  ShareInv'
<1>1. ticketReq[t].at = "rollback" /\ ticketReq \in [TicketCalls -> Requests]
  BY DEF RollbackReservation, ShareInv, ShareType
<1>2. UNCHANGED <<owner, clock, hook, download, changes, uncounted, tickets>>
  BY DEF RollbackReservation, KeepTicketing
<1>3. Waiting \in Requests /\ Waiting.at = "idle" /\ ticketReq' = [ticketReq EXCEPT ![t] = Waiting]
  BY DEF Requests, Waiting, EndTicket, RollbackReservation
<1>4. CASE UNCHANGED <<shr, shrKept>>
  BY <1>1, <1>2, <1>3, <1>4, CarryKeeps DEF Bearing
<1>5. CASE ~UNCHANGED <<shr, shrKept>>
  <2> DEFINE s == [shr EXCEPT !.count = @ - 1]
  <2>1. shr # NoShare /\ shr.count > 0 /\ o # "fail" /\ PersistShare(s, o)
    BY <1>5 DEF RollbackReservation, PersistShare, shareVars, ShareSaves
  <2>2. shr \in ShareStates
    BY <2>1 DEF ShareInv, ShareType
  <2>3. /\ s \in ShareStates /\ s.rev = shr.rev /\ s.stamp = shr.stamp
        /\ s.count = shr.count - 1 /\ shr.count \in Nat
    BY <2>1, <2>2 DEF ShareStates
  <2> HIDE DEF s
  <2>4. Recounted /\ shr' = s
    BY <1>2, <2>1, <2>3 DEF Recounted, PersistShare
  <2>5. Cardinality(Holding') - Cardinality(Holding) <= shr'.count - shr.count
    <3>1. ticketReq'[t] = Waiting /\ \A u \in TicketCalls \ {t} : ticketReq'[u] = ticketReq[u]
      BY <1>1, <1>3
    <3>2. Cardinality(Holding) \in Nat /\ Cardinality(Holding') = Cardinality(Holding) - 1
      BY <1>1, <1>3, <3>1, HoldingMoves DEF ShareInv
    <3> QED BY <2>3, <2>4, <3>2
  <2> QED BY <1>2, <1>3, <2>4, <2>5, RecountKeeps DEF Bearing
<1> QED
  BY <1>4, <1>5

LEMMA IssueKeeps ==
    ASSUME ShareInv, NEW t \in TicketCalls, IssueTicket(t)
    PROVE  ShareInv'
<1> USE DEF ShareInv
<1>1. /\ ticketReq[t].at = "reserved" /\ ticketReq[t] \in Requests
      /\ ticketReq \in [TicketCalls -> Requests]
  BY DEF IssueTicket, ShareType
<1>2. UNCHANGED <<shr, shrKept, owner, clock, hook, download, changes, uncounted>>
  BY DEF IssueTicket, KeepTicketing, shareVars
<1>3. CASE GoTicket(t, [at |-> "rollback"]) /\ UNCHANGED tickets
  <2> DEFINE r == [at |-> "rollback"]
  <2>1. r \in Requests /\ r.at = "rollback" /\ ticketReq' = [ticketReq EXCEPT ![t] = r]
    BY <1>3 DEF Requests, GoTicket
  <2> HIDE DEF r
  <2> QED BY <1>1, <1>2, <1>3, <2>1, CarryKeeps DEF Bearing
<1>4. CASE /\ HashState(ticketReq[t].s) = ticketReq[t].hash /\ EndTicket(t)
           /\ tickets' = tickets \cup
                {[n |-> Cardinality(tickets), exp |-> ticketReq[t].exp, hash |-> ticketReq[t].hash,
                  stamp |-> ticketReq[t].s.stamp]}
  <2> DEFINE g == [n |-> Cardinality(tickets), exp |-> ticketReq[t].exp, hash |-> ticketReq[t].hash,
                   stamp |-> ticketReq[t].s.stamp]
  <2>1. /\ ticketReq[t].s \in ShareStates /\ ticketReq[t].s.stamp \in Nat /\ ticketReq[t].s.rev \in Nat
        /\ ticketReq[t].exp \in Nat /\ ticketReq[t].hash \in StateHashes
    BY <1>1 DEF Requests, Waiting, ShareStates
  <2>2. Cardinality(tickets) \in Nat
    BY FS_CardinalityType DEF ShareType
  <2>3. g \in TicketSet /\ g.stamp = ticketReq[t].s.stamp /\ g.hash = ticketReq[t].hash
    BY <2>1, <2>2 DEF TicketSet
  <2>4. g.hash.share.rev = ticketReq[t].s.rev
    BY <1>4, <2>1, <2>3, HashTypes
  <2>5. Dated(g.hash.share.rev, g.stamp)
    BY <1>1, <2>3, <2>4 DEF DatesKept, Bearing
  <2> HIDE DEF g
  <2>6. /\ tickets' = tickets \cup {g} /\ ticketReq' = [ticketReq EXCEPT ![t] = Waiting]
    BY <1>4 DEF g, EndTicket
  <2>7. /\ IsFiniteSet(tickets') /\ Cardinality(tickets') <= Cardinality(tickets) + 1 /\ Cardinality(tickets') \in Nat
    <3>1. /\ IsFiniteSet(tickets \cup {g})
          /\ Cardinality(tickets \cup {g}) = IF g \in tickets THEN Cardinality(tickets) ELSE Cardinality(tickets) + 1
      BY FS_AddElement DEF ShareType
    <3> QED BY <2>2, <2>6, <3>1
  <2>8. ShareType'
    BY <1>2, <2>3, <2>6, <2>7 DEF ShareType, Requests
  <2>9. ticketReq'[t] = Waiting /\ \A u \in TicketCalls \ {t} : ticketReq'[u] = ticketReq[u]
    BY <1>1, <2>6
  <2>10. DatesKept'
    <3>1. \A x \in tickets' : Dated(x.hash.share.rev, x.stamp)'
      BY <1>2, <2>5, <2>6 DEF DatesKept, Dated
    <3>2. ASSUME NEW u \in TicketCalls, ticketReq'[u].at \in Bearing
          PROVE  Dated(ticketReq[u].s.rev, ticketReq[u].s.stamp)'
      <4>1. u # t
        BY <2>9, <3>2 DEF Waiting, Bearing
      <4> QED BY <1>2, <2>9, <3>2, <4>1 DEF DatesKept, Dated
    <3> QED BY <1>2, <3>1, <3>2 DEF DatesKept, Dated
  <2>11. BeforeShare'
    <3>1. changes # 0
      BY <1>1 DEF BeforeShare, Waiting
    <3> QED BY <1>2, <3>1 DEF BeforeShare
  <2>12. DownloadDated'
    BY <1>2, <2>6 DEF DownloadDated, ServedFresh
  <2>13. CountsHeld'
    <3>1. Cardinality(Holding) \in Nat /\ Cardinality(Holding') = Cardinality(Holding) - 1
      BY <1>1, <2>9, HoldingMoves DEF Waiting
    <3>2. shr # NoShare => shr.count \in Nat
      BY DEF ShareType, ShareStates
    <3> QED BY <1>2, <2>2, <2>7, <3>1, <3>2 DEF CountsHeld, ShareType
  <2> QED BY <2>8, <2>10, <2>11, <2>12, <2>13
<1> QED
  BY <1>3, <1>4 DEF IssueTicket

-----------------------------------------------------------------------------
(* Downloads, time and restarts.                                            *)

\* A ticket that is accepted is one of the share as it is.
LEMMA AcceptedFresh ==
    ASSUME ShareInv, shr # NoShare, NEW g \in tickets, ValidFor(g)
    PROVE  g.stamp = shr.stamp
<1>1. shr \in ShareStates /\ shr.rev \in Nat /\ shr.stamp \in Nat
  BY DEF ShareInv, ShareType, ShareStates
<1>2. g.hash.share.rev = shr.rev
  BY <1>1, HashTypes DEF ValidFor, ShareInv
<1> QED
  BY <1>1, <1>2, RememberedTypes DEF ShareInv, DatesKept, Dated, Ordered

LEMMA DownloadKeeps ==
    ASSUME ShareInv, StartDownload \/ OpenTarget \/ Recheck \/ Served
    PROVE  ShareInv'
<1> USE DEF ShareInv
<1>1. UNCHANGED <<shr, shrKept, owner, clock, hook, ticketReq, tickets, changes, uncounted>>
  BY DEF StartDownload, OpenTarget, Recheck, Served, KeepServing, shareVars
<1>2. download' \in Downloads /\ DownloadDated'
  <2>1. CASE download' = Waiting
    BY <2>1 DEF Downloads, DownloadDated, ServedFresh, Waiting
  <2>2. CASE StartDownload
    <3>1. PICK g \in tickets : download' = [at |-> "checked", g |-> g]
      BY <2>2 DEF StartDownload
    <3>2. g \in TicketSet
      BY DEF ShareType
    <3> QED BY <1>1, <3>1, <3>2 DEF Downloads, DownloadDated, ServedFresh
  <2>3. CASE OpenTarget /\ download' # Waiting
    <3> DEFINE n == IF shr = NoShare THEN 0 ELSE shr.stamp
    <3>1. download.at = "checked" /\ download' = [at |-> "opened", g |-> download.g, stamp |-> n]
      BY <2>3 DEF OpenTarget
    <3>2. n \in Nat /\ download.g \in TicketSet /\ download.g \in tickets
      BY <3>1 DEF ShareType, ShareStates, Downloads, Waiting, DownloadDated
    <3>3. shr # NoShare => download.g.stamp <= shr.stamp
      BY <3>2 DEF DatesKept, Dated
    <3>4. shr # NoShare => shr.stamp <= shr.stamp
      BY DEF ShareType, ShareStates
    <3>5. n = IF shr = NoShare THEN 0 ELSE shr.stamp
      OBVIOUS
    <3> HIDE DEF n
    <3>6. /\ download'.at = "opened" /\ download'.g = download.g /\ download'.stamp = n
      BY <3>1
    <3>7. download' \in Downloads
      BY <3>1, <3>2 DEF Downloads
    <3> QED BY <1>1, <3>2, <3>3, <3>4, <3>5, <3>6, <3>7 DEF DownloadDated, ServedFresh
  <2>4. CASE Recheck /\ download' # Waiting
    <3>1. /\ download.at = "opened" /\ LoadsFor /\ ValidFor(download.g)
          /\ download' = [download EXCEPT !.at = "serving"]
      BY <2>4 DEF Recheck
    <3>2. /\ download.g \in TicketSet /\ download.stamp \in Nat
          /\ download \in [at : {"opened", "serving"}, g : TicketSet, stamp : Nat]
      BY <3>1 DEF ShareType, Downloads, Waiting
    <3>3. /\ download'.at = "serving" /\ download'.g = download.g /\ download'.stamp = download.stamp
          /\ download' \in Downloads
      BY <3>1, <3>2 DEF Downloads
    <3>4. download.g \in tickets /\ shr # NoShare
      BY <3>1 DEF DownloadDated, LoadsFor
    <3>5. download.g.stamp = shr.stamp /\ download.g.stamp \in Nat
      BY <3>1, <3>2, <3>4, AcceptedFresh DEF TicketSet
    <3>6. download.stamp = download.g.stamp
      BY <3>1, <3>2, <3>4, <3>5 DEF DownloadDated
    <3> QED BY <1>1, <3>3, <3>4, <3>6 DEF DownloadDated, ServedFresh
  <2> QED BY <2>1, <2>2, <2>3, <2>4 DEF Served
<1>3. ShareType'
  BY <1>1, <1>2 DEF ShareType
<1>4. DatesKept' /\ BeforeShare' /\ CountsHeld'
  BY <1>1 DEF DatesKept, Dated, BeforeShare, CountsHeld, Holding
<1> QED
  BY <1>2, <1>3, <1>4

LEMMA ShareStands ==
    ASSUME ShareInv, clock' \in Nat,
           UNCHANGED <<shr, shrKept, owner, hook, ticketReq, tickets, download, changes, uncounted>>
    PROVE  ShareInv'
<1>1. ShareType'
  BY DEF ShareInv, ShareType
<1>2. DatesKept' /\ BeforeShare' /\ CountsHeld' /\ DownloadDated'
  BY DEF ShareInv, DatesKept, Dated, BeforeShare, CountsHeld, Holding, DownloadDated, ServedFresh
<1> QED
  BY <1>1, <1>2 DEF ShareInv

LEMMA MaxOfNat ==
    ASSUME NEW a \in Nat, NEW b \in Int
    PROVE  Max({a, b}) \in Nat /\ Max({a, b}) >= b
<1>1. a \in Int
  OBVIOUS
<1>2. Max({a, b}) \in {a, b} /\ Max({a, b}) >= a /\ Max({a, b}) >= b
  BY <1>1, MaxOfTwo
<1> QED BY <1>2

LEMMA RestartKeeps ==
    ASSUME ShareInv, NEW loss \in BOOLEAN, RestartShares(loss)
    PROVE  ShareInv'
<1> USE DEF ShareInv
<1> DEFINE s == IF loss THEN shrKept ELSE shr
<1>1. /\ shr' = s /\ shrKept' = s
      /\ tickets' = IF s = NoShare THEN tickets ELSE {g \in tickets : g.stamp <= s.stamp}
      /\ uncounted' = IF s # shr /\ s # NoShare
                      THEN Max({uncounted, Cardinality(tickets') - s.count}) ELSE uncounted
      /\ hook' = Waiting /\ download' = Waiting
      /\ ticketReq' = [t \in TicketCalls |-> Waiting]
      /\ UNCHANGED <<owner, clock, changes>>
  BY DEF RestartShares
<1>2. s \in ShareStates \cup {NoShare}
  BY DEF ShareType
<1>3. s # NoShare => s.rev \in Nat /\ s.stamp \in Nat /\ s.count \in Nat /\ s.stamp <= changes
  BY <1>2 DEF ShareStates, ShareType, DatesKept, Dated
<1>4. s # NoShare => \A r, n \in Nat : Dated(r, n) => Ordered(r, n, s.rev, s.stamp)
  BY DEF Dated
<1>5. s = shr \/ s = shrKept
  OBVIOUS
<1> HIDE DEF s
<1>6. tickets' \subseteq tickets /\ IsFiniteSet(tickets') /\ Cardinality(tickets') \in Nat
      /\ Cardinality(tickets') <= Cardinality(tickets) /\ Cardinality(tickets) \in Nat
  <2>1. tickets' \in SUBSET tickets
    BY <1>1
  <2> QED BY <2>1, FS_Subset, FS_CardinalityType DEF ShareType
<1>7. uncounted' \in Nat
  <2>1. s # NoShare => Max({uncounted, Cardinality(tickets') - s.count}) \in Nat
    BY <1>3, <1>6, MaxOfNat DEF ShareType
  <2> QED BY <1>1, <2>1 DEF ShareType
<1>8. ShareType'
  <2>1. Waiting \in Hooks /\ Waiting \in Downloads /\ Waiting \in Requests
    BY DEF Hooks, Downloads, Requests
  <2> QED BY <1>1, <1>2, <1>6, <1>7, <2>1 DEF ShareType
<1>9. DatesKept'
  <2>1. ASSUME NEW g \in tickets' PROVE Dated(g.hash.share.rev, g.stamp)'
    <3>1. g \in tickets /\ g.hash.share.rev \in Nat /\ g.stamp \in Nat
      BY <1>6, RememberedTypes
    <3>2. Dated(g.hash.share.rev, g.stamp)
      BY <3>1 DEF DatesKept
    <3>3. s # NoShare => g.stamp <= s.stamp /\ Ordered(g.hash.share.rev, g.stamp, s.rev, s.stamp)
      BY <1>1, <1>4, <3>1, <3>2
    <3> QED BY <1>1, <3>2, <3>3 DEF Dated
  <2>2. s # NoShare => Ordered(s.rev, s.stamp, s.rev, s.stamp) /\ s.stamp <= s.stamp
    BY <1>3 DEF Ordered
  <2>3. shrKept' # NoShare => Dated(shrKept.rev, shrKept.stamp)'
    BY <1>1, <1>3, <2>2 DEF Dated
  <2> QED BY <1>1, <1>3, <2>1, <2>3 DEF DatesKept, Waiting, Bearing
<1>10. BeforeShare'
  BY <1>1, <1>5, <1>6 DEF BeforeShare
<1>11. DownloadDated'
  BY <1>1 DEF DownloadDated, ServedFresh, Waiting
<1>12. CountsHeld'
  <2>1. Holding' = {} /\ Cardinality(Holding') = 0
    BY <1>1, FS_EmptySet DEF Holding, Waiting
  <2>2. CASE s = NoShare
    BY <1>1, <2>2 DEF CountsHeld
  <2>3. CASE s # NoShare /\ s # shr
    <3>1. uncounted' >= Cardinality(tickets') - s.count
      BY <1>1, <1>3, <1>6, <2>3, MaxOfNat DEF ShareType
    <3> QED BY <1>1, <1>3, <1>6, <1>7, <2>1, <2>3, <3>1 DEF CountsHeld
  <2>4. CASE s # NoShare /\ s = shr
    <3>1. Cardinality(Holding) \in Nat
      <4>1. IsFiniteSet(Holding)
        BY ShareAssumption, FS_Subset DEF Holding
      <4> QED BY <4>1, FS_CardinalityType
    <3> QED BY <1>1, <1>3, <1>6, <2>1, <2>4, <3>1 DEF CountsHeld, ShareType
  <2> QED BY <2>2, <2>3, <2>4
<1> QED
  BY <1>8, <1>9, <1>10, <1>11, <1>12

LEMMA ShareStarts ==
    ASSUME TicketsInit
    PROVE  ShareInv
<1>1. ShareType
  BY FS_EmptySet DEF TicketsInit, ShareType, Hooks, Downloads, Requests
<1>2. DatesKept /\ BeforeShare /\ CountsHeld /\ DownloadDated
  BY DEF TicketsInit, DatesKept, BeforeShare, CountsHeld, DownloadDated, ServedFresh, Waiting, Bearing
<1> QED
  BY <1>1, <1>2 DEF ShareInv

LEMMA ShareKeeps ==
    ASSUME ShareInv, [TicketsNext]_ticketVars
    PROVE  ShareInv'
<1>1. CASE OwnerSide \/ HookSide
  BY <1>1, OwnerShape, ChangeKeeps DEF ShareInv
<1>2. CASE TicketSide
  <2>1. ASSUME NEW t \in TicketCalls,
               \/ \E c \in Visitors : AuthorizeShare(t, c)
               \/ Preflight(t) \/ IssueTicket(t)
               \/ \E o \in ShareSaves : Reserve(t, o) \/ RollbackReservation(t, o)
        PROVE  ShareInv'
    BY <2>1, AuthorizeKeeps, PreflightKeeps, IssueKeeps, ReserveKeeps, RollbackKeeps
  <2> QED BY <1>2, <2>1, DownloadKeeps DEF TicketSide
<1>3. CASE GuessSide
  <2>1. KeepGuessing
    BY <1>3 DEF GuessSide, BeginAttempt, CancelAttempt, FinishFailure, FinishSuccess
  <2>2. clock' \in Nat
    BY <2>1 DEF KeepGuessing, ShareInv, ShareType
  <2> QED BY <2>1, <2>2, ShareStands DEF KeepGuessing, shareVars
<1>4. CASE ClockTick
  <2>1. clock' \in Nat
    BY <1>4 DEF ClockTick, ShareInv, ShareType
  <2> QED BY <1>4, <2>1, ShareStands DEF ClockTick, shareVars
<1>5. CASE \E loss \in BOOLEAN : RestartShares(loss)
  BY <1>5, RestartKeeps
<1>6. CASE UNCHANGED ticketVars
  <2>1. clock' \in Nat
    BY <1>6 DEF ticketVars, ShareInv, ShareType
  <2> QED BY <1>6, <2>1, ShareStands DEF ticketVars, shareVars
<1> QED
  BY <1>1, <1>2, <1>3, <1>4, <1>5, <1>6 DEF TicketsNext

-----------------------------------------------------------------------------
(* Guesses.                                                                 *)

LEMMA EntryTypes ==
    ASSUME NEW e \in Entries
    PROVE  /\ e # Untracked => e \in [flying : BOOLEAN, failures : Nat, last : Nat, until : Nat]
           /\ e # Untracked <=> e.failures # -1
           /\ Run(e) \in Nat
BY DEF Entries, Untracked, Run

LEMMA EntryWaits ==
    ASSUME NEW e \in Entries, NEW f \in Seq(Nat), NEW busy \in BOOLEAN,
           clock \in Nat, clock' \in Nat, clock <= clock', EntryHeld(e, f, busy)
    PROVE  EntryHeld(e, f, busy)'
<1> DEFINE n == Len(f)
           k == Run(e)
<1>1. n \in Nat /\ k \in Nat /\ \A i \in 1..n : f[i] \in Nat
  BY EntryTypes
<1>2. \A i \in 1..n : f[i] <= clock'
  BY <1>1 DEF EntryHeld
<1>3. n > k /\ k = 0 => clock' - f[n] >= LockDuration
  BY <1>1, LockAssumption DEF EntryHeld
<1> QED
  BY <1>2, <1>3 DEF EntryHeld

LEMMA EntryPruned ==
    ASSUME NEW e \in Entries, NEW f \in Seq(Nat), NEW busy \in BOOLEAN, clock \in Nat,
           EntryHeld(e, f, busy), Outdated(e)
    PROVE  EntryHeld(Untracked, f, busy)
<1> DEFINE n == Len(f)
           k == Run(e)
<1>1. e # Untracked /\ ~e.flying /\ busy = FALSE
  BY EntryTypes DEF Outdated, EntryHeld
<1>2. e.failures \in Nat /\ e.last \in Nat /\ e.until \in Nat /\ k = e.failures
  BY <1>1, EntryTypes DEF Run
<1>3. n \in Nat /\ \A i \in 1..n : f[i] \in Nat
  OBVIOUS
<1>4. k > 0 /\ e.last = f[n] /\ n >= k
  BY <1>1, <1>2 DEF EntryHeld
<1>5. clock - f[n] >= LockDuration
  <2>1. CASE e.until # 0 /\ e.until <= clock
    <3>1. e.until = e.last + LockDuration
      BY <1>1, <1>2, <2>1, LockAssumption DEF EntryHeld
    <3> QED BY <1>2, <1>3, <1>4, <2>1, <3>1, LockAssumption
  <2>2. CASE e.failures > 0 /\ clock - e.last > FailureWindow
    BY <1>2, <1>3, <1>4, <2>2, LockAssumption
  <2> QED BY <2>1, <2>2 DEF Outdated
<1>6. Run(Untracked) = 0
  BY DEF Run
<1> QED
  BY <1>1, <1>3, <1>5, <1>6, LockAssumption DEF EntryHeld

LEMMA EntryOpens ==
    ASSUME NEW f \in Seq(Nat), clock \in Nat, EntryHeld(Untracked, f, FALSE),
           NEW e, e = [flying |-> TRUE, failures |-> 0, last |-> 0, until |-> 0]
    PROVE  EntryHeld(e, f, TRUE) /\ e \in Entries /\ e # Untracked /\ Run(e) = 0
<1>1. /\ e \in Entries /\ e # Untracked /\ e.flying /\ e.failures = 0 /\ e.until = 0
  BY DEF Entries, Untracked
<1>2. Run(e) = 0 /\ Run(Untracked) = 0
  BY <1>1 DEF Run
<1> QED
  BY <1>1, <1>2, LockAssumption DEF EntryHeld

LEMMA EntryReopens ==
    ASSUME NEW e \in Entries, NEW f \in Seq(Nat), clock \in Nat, EntryHeld(e, f, FALSE),
           e # Untracked, ~Outdated(e), ~(e.until > clock), NEW r, r = [e EXCEPT !.flying = TRUE]
    PROVE  EntryHeld(r, f, TRUE) /\ r \in Entries /\ r # Untracked /\ Run(r) = Run(e)
<1>1. e \in [flying : BOOLEAN, failures : Nat, last : Nat, until : Nat] /\ ~e.flying
  BY EntryTypes DEF EntryHeld
<1>2. /\ r \in Entries /\ r # Untracked /\ r.flying /\ r.failures = e.failures
      /\ r.last = e.last /\ r.until = e.until
  BY <1>1 DEF Entries, Untracked
<1>3. Run(r) = e.failures /\ Run(e) = e.failures
  BY <1>2 DEF Run
<1>4. e.failures # FailureLimit
  <2>1. SUFFICES ASSUME e.failures = FailureLimit PROVE FALSE
    OBVIOUS
  <2>2. e.until = e.last + LockDuration
    BY <1>3, <2>1 DEF EntryHeld
  <2> QED BY <1>1, <2>2, LockAssumption, EntryTypes DEF Outdated
<1> QED
  BY <1>1, <1>2, <1>3, <1>4 DEF EntryHeld

LEMMA EntryCloses ==
    ASSUME NEW e \in Entries, NEW f \in Seq(Nat), clock \in Nat, EntryHeld(e, f, TRUE),
           NEW r, r = IF e.failures = 0 THEN Untracked ELSE [e EXCEPT !.flying = FALSE]
    PROVE  EntryHeld(r, f, FALSE) /\ r \in Entries
<1>1. e # Untracked /\ e.flying /\ e \in [flying : BOOLEAN, failures : Nat, last : Nat, until : Nat]
  BY EntryTypes DEF EntryHeld
<1>2. Run(e) = e.failures /\ e.failures \in Nat
  BY <1>1 DEF Run
<1>3. CASE e.failures = 0
  <2>1. r = Untracked /\ Run(r) = 0 /\ r \in Entries
    BY <1>3 DEF Run, Entries
  <2> QED BY <1>2, <1>3, <2>1 DEF EntryHeld
<1>4. CASE e.failures # 0
  <2>0. r = [e EXCEPT !.flying = FALSE]
    BY <1>4
  <2>1. /\ r \in Entries /\ r # Untracked /\ ~r.flying /\ r.failures = e.failures
        /\ r.last = e.last /\ r.until = e.until
    <3>1. /\ r \in [flying : BOOLEAN, failures : Nat, last : Nat, until : Nat]
          /\ ~r.flying /\ r.failures = e.failures /\ r.last = e.last /\ r.until = e.until
      BY <1>1, <2>0
    <3> QED BY <3>1, <1>2 DEF Entries, Untracked
  <2>2. Run(r) = e.failures
    BY <2>1 DEF Run
  <2> QED BY <1>1, <1>2, <1>4, <2>1, <2>2 DEF EntryHeld
<1> QED
  BY <1>3, <1>4

LEMMA EntryFails ==
    ASSUME NEW e \in Entries, NEW f \in Seq(Nat), clock \in Nat, EntryHeld(e, f, TRUE),
           NEW r, r = [flying |-> FALSE, failures |-> e.failures + 1, last |-> clock,
                       until |-> IF e.failures + 1 >= FailureLimit THEN clock + LockDuration ELSE e.until]
    PROVE  EntryHeld(r, Append(f, clock), FALSE) /\ r \in Entries
<1> DEFINE n == Len(f)
           k == Run(e)
           g == Append(f, clock)
<1>1. e # Untracked /\ e.flying /\ e \in [flying : BOOLEAN, failures : Nat, last : Nat, until : Nat]
  BY EntryTypes DEF EntryHeld
<1>2. k = e.failures /\ k \in Nat /\ n \in Nat /\ k <= n /\ k < FailureLimit
  BY <1>1, LockAssumption DEF Run, EntryHeld
<1>3. /\ g \in Seq(Nat) /\ Len(g) = n + 1 /\ g[n + 1] = clock
      /\ \A i \in 1..n : g[i] = f[i] /\ f[i] \in Nat
  OBVIOUS
<1>31. /\ \A i \in 1..n : f[i] <= clock
       /\ n > k /\ k = 0 => clock - f[n] >= LockDuration
       /\ n > k /\ k > 0 => f[n - k + 1] - f[n - k] >= LockDuration
       /\ e.until = 0
       /\ \A i \in 1..(n - FailureLimit) :
             \E j \in i..(i + FailureLimit - 1) : f[j + 1] - f[j] >= LockDuration
  BY <1>1, <1>2 DEF EntryHeld
<1>32. FailureLimit \in Nat /\ LockDuration \in Nat /\ FailureLimit > 0
  BY LockAssumption
<1> HIDE DEF k, n, g
<1>4. /\ r \in Entries /\ r # Untracked /\ ~r.flying /\ r.failures = k + 1 /\ r.last = clock
      /\ k + 1 < FailureLimit => r.until = e.until
      /\ k + 1 = FailureLimit => r.until = clock + LockDuration
  <2>1. /\ ~r.flying /\ r.failures = k + 1 /\ r.last = clock
        /\ k + 1 < FailureLimit => r.until = e.until
        /\ k + 1 = FailureLimit => r.until = clock + LockDuration
    BY <1>1, <1>2, LockAssumption
  <2>2. r \in [flying : BOOLEAN, failures : Nat, last : Nat, until : Nat]
    BY <1>1, <1>2, LockAssumption
  <2> QED BY <1>2, <2>1, <2>2 DEF Entries, Untracked
<1>5. Run(r) = k + 1
  BY <1>4 DEF Run
<1>33. Len(g) = n + 1
  BY <1>3
<1>6. ASSUME NEW i \in 1..(n + 1) PROVE g[i] <= clock
  <2>1. CASE i = n + 1
    BY <1>3, <2>1
  <2>2. CASE i # n + 1
    <3>1. i \in 1..n
      BY <1>2, <2>2
    <3> QED BY <1>3, <1>31, <3>1
  <2> QED BY <2>1, <2>2
<1>7. n > k => g[n - k + 1] - g[n - k] >= LockDuration
  <2>1. CASE k = 0
    BY <1>2, <1>3, <1>31, <2>1
  <2>2. CASE k > 0
    <3>1. n > k => (n - k) \in 1..n /\ (n - k + 1) \in 1..n
      BY <1>2, <2>2
    <3> QED BY <1>3, <1>31, <2>2, <3>1
  <2> QED BY <1>2, <2>1, <2>2
<1>8. ASSUME NEW i \in 1..(n + 1 - FailureLimit)
      PROVE  \E j \in i..(i + FailureLimit - 1) : g[j + 1] - g[j] >= LockDuration
  <2>1. CASE i = n + 1 - FailureLimit
    <3>1. n - k \in i..(i + FailureLimit - 1) /\ n > k
      BY <1>2, <1>32, <2>1
    <3>2. n - k + 1 = (n - k) + 1
      BY <1>2
    <3> QED BY <1>7, <3>1, <3>2
  <2>2. CASE i # n + 1 - FailureLimit
    <3>1. i \in 1..(n - FailureLimit)
      BY <1>2, <1>32, <2>2
    <3>2. PICK j \in i..(i + FailureLimit - 1) : f[j + 1] - f[j] >= LockDuration
      BY <1>31, <3>1
    <3>3. j \in 1..n /\ j + 1 \in 1..n
      BY <1>2, <1>32, <3>1
    <3> QED BY <1>3, <3>2, <3>3
  <2> QED BY <2>1, <2>2
<1>9. k + 1 < FailureLimit => r.until = 0
  BY <1>4, <1>31
<1>10. EntryHeld(r, g, FALSE)
  <2>1. /\ Run(r) <= Len(g) /\ Run(r) <= FailureLimit /\ Run(r) > 0
        /\ \A i \in 1..Len(g) : g[i] <= clock
    BY <1>2, <1>3, <1>5, <1>6, <1>32
  <2>2. Len(g) > Run(r) => g[Len(g) - Run(r) + 1] - g[Len(g) - Run(r)] >= LockDuration
    <3>1. k \in Nat /\ n \in Nat
      BY <1>2
    <3>2. Len(g) - Run(r) = n - k /\ (Len(g) > Run(r) <=> n > k)
      BY ONLY <1>33, <1>5, <3>1
    <3> QED BY <1>7, <3>2
  <2>3. /\ r.last = g[Len(g)]
        /\ Run(r) < FailureLimit => r.until = 0
        /\ Run(r) = FailureLimit => r.until = r.last + LockDuration /\ ~r.flying
    BY <1>3, <1>4, <1>5, <1>9
  <2>4. \A i \in 1..(Len(g) - FailureLimit) :
           \E j \in i..(i + FailureLimit - 1) : g[j + 1] - g[j] >= LockDuration
    <3> SUFFICES ASSUME NEW i \in 1..(Len(g) - FailureLimit)
                 PROVE  \E j \in i..(i + FailureLimit - 1) : g[j + 1] - g[j] >= LockDuration
      OBVIOUS
    <3>1. i \in 1..(n + 1 - FailureLimit)
      BY <1>2, <1>32, <1>33
    <3> QED BY <1>8, <3>1
  <2>5. FALSE = (r # Untracked /\ r.flying)
    BY <1>4
  <2> QED BY <1>4, <2>1, <2>2, <2>3, <2>4, <2>5 DEF EntryHeld
<1> QED
  BY <1>4, <1>10 DEF g

LEMMA PrunedHeld ==
    ASSUME GuessInv, clock \in Nat, NEW d \in Visitors
    PROVE  /\ Prune(attempts)[d] \in Entries
           /\ EntryHeld(Prune(attempts)[d], failed[d], trying[d] # 0)
           /\ ~Outdated(Prune(attempts)[d])
<1> DEFINE e == attempts[d]
           f == failed[d]
           busy == trying[d] # 0
<1>1. e \in Entries /\ f \in Seq(Nat) /\ busy \in BOOLEAN /\ EntryHeld(e, f, busy)
  BY DEF GuessInv, GuessType, GuessHeld
<1>2. Untracked \in Entries /\ ~Outdated(Untracked)
  BY DEF Entries, Outdated, Untracked
<1>3. Prune(attempts)[d] = IF Outdated(e) THEN Untracked ELSE e
  BY DEF Prune
<1> HIDE DEF e, f, busy
<1>4. Outdated(e) => EntryHeld(Untracked, f, busy)
  BY <1>1, EntryPruned
<1>5. EntryHeld(Prune(attempts)[d], f, busy)
  BY <1>1, <1>3, <1>4
<1> QED
  BY <1>1, <1>2, <1>3, <1>5 DEF f, busy

\* An entry that the tracker admits a check on: the others are as they were or
\* outdated, and the one admitted has room for one more failure.
LEMMA AdmittedHeld ==
    ASSUME GuessInv, clock \in Nat, NEW c \in Visitors, trying[c] = 0, NEW a \in Admitted(c)
    PROVE  /\ a \in [Visitors -> Entries] /\ EntryHeld(a[c], failed[c], TRUE)
           /\ \A d \in Visitors \ {c} : EntryHeld(a[d], failed[d], trying[d] # 0)
<1> DEFINE p == Prune(attempts)
<1>1. \A d \in Visitors : p[d] \in Entries /\ EntryHeld(p[d], failed[d], trying[d] # 0) /\ ~Outdated(p[d])
  BY PrunedHeld
<1>2. p \in [Visitors -> Entries] /\ failed \in [Visitors -> Seq(Nat)]
  BY <1>1 DEF Prune, GuessInv, GuessType
<1>3. EntryHeld(p[c], failed[c], FALSE)
  BY <1>1
<1> HIDE DEF p
<1>4. CASE p[c] = Untracked
  <2> DEFINE e == [flying |-> TRUE, failures |-> 0, last |-> 0, until |-> 0]
  <2>1. EntryHeld(e, failed[c], TRUE) /\ e \in Entries
    BY <1>2, <1>3, <1>4, EntryOpens
  <2>2. MakeRoom(p) \subseteq {p}
    <3>1. ASSUME NEW d \in Evictable(p) PROVE FALSE
      <4>1. d \in Visitors /\ p[d] # Untracked /\ ~p[d].flying /\ p[d].failures = 0
        BY <3>1 DEF Evictable, Tracked1
      <4>2. Run(p[d]) = 0
        BY <4>1 DEF Run
      <4> QED BY <1>1, <4>1, <4>2 DEF EntryHeld
    <3> QED BY <3>1 DEF MakeRoom
  <2> HIDE DEF e
  <2>3. a = [p EXCEPT ![c] = e]
    <3>1. a \in {[b EXCEPT ![c] = e] : b \in MakeRoom(p)}
      BY <1>4 DEF Admitted, p, e
    <3> QED BY <2>2, <3>1
  <2> QED BY <1>1, <1>2, <2>1, <2>3
<1>5. CASE p[c] # Untracked
  <2>1. ~(p[c].until > clock) /\ a = [p EXCEPT ![c].flying = TRUE]
    BY <1>5 DEF Admitted, p
  <2> DEFINE r == [p[c] EXCEPT !.flying = TRUE]
  <2>2. a = [p EXCEPT ![c] = r]
    BY <2>1
  <2>3. EntryHeld(r, failed[c], TRUE) /\ r \in Entries
    <3>1. p[c] \in Entries /\ failed[c] \in Seq(Nat) /\ ~Outdated(p[c])
      BY <1>1, <1>2
    <3> QED BY <1>3, <1>5, <2>1, <3>1, EntryReopens
  <2> HIDE DEF r
  <2> QED BY <1>1, <1>2, <2>2, <2>3
<1> QED
  BY <1>4, <1>5

-----------------------------------------------------------------------------

LEMMA GuessWaits ==
    ASSUME GuessInv, UNCHANGED guessVars, clock \in Nat, clock' \in Nat, clock <= clock'
    PROVE  GuessInv'
<1>1. GuessType'
  BY DEF GuessInv, GuessType, guessVars
<1>2. ASSUME NEW c \in Visitors PROVE GuessHeld(c)'
  <2> DEFINE e == attempts[c]
             f == failed[c]
             busy == trying[c] # 0
  <2>1. e \in Entries /\ f \in Seq(Nat) /\ busy \in BOOLEAN /\ EntryHeld(e, f, busy)
    BY DEF GuessInv, GuessType, GuessHeld
  <2>2. attempts'[c] = e /\ failed'[c] = f /\ (trying'[c] # 0) = busy
    BY DEF guessVars
  <2> HIDE DEF e, f, busy
  <2>3. EntryHeld(e, f, busy)' /\ e' = e /\ f' = f /\ busy' = busy
    BY <2>1, <2>2, EntryWaits DEF e, f, busy
  <2> QED BY <2>2, <2>3 DEF GuessHeld, EntryHeld
<1> QED
  BY <1>1, <1>2 DEF GuessInv

LEMMA BeginKeeps ==
    ASSUME GuessInv, ShareType, NEW c \in Visitors, BeginAttempt(c)
    PROVE  GuessInv'
<1>1. /\ trying[c] = 0 /\ shr # NoShare /\ shr.pass # 0 /\ attempts' \in Admitted(c)
      /\ trying' = [trying EXCEPT ![c] = shr.pass] /\ UNCHANGED <<failed, clock>> /\ clock \in Nat
  BY DEF BeginAttempt, KeepGuessing, ShareType
<1>2. shr.pass \in Nat
  BY <1>1 DEF ShareType, ShareStates
<1>3. /\ attempts' \in [Visitors -> Entries] /\ EntryHeld(attempts'[c], failed[c], TRUE)
      /\ \A d \in Visitors \ {c} : EntryHeld(attempts'[d], failed[d], trying[d] # 0)
  BY <1>1, AdmittedHeld
<1>4. GuessType'
  BY <1>1, <1>2, <1>3 DEF GuessInv, GuessType
<1>5. ASSUME NEW d \in Visitors PROVE GuessHeld(d)'
  <2>1. CASE d = c
    <3>1. (trying'[c] # 0) = TRUE
      BY <1>1, <1>2 DEF GuessInv, GuessType
    <3> QED BY <1>1, <1>3, <2>1, <3>1 DEF GuessHeld, EntryHeld
  <2>2. CASE d # c
    <3>1. trying'[d] = trying[d]
      BY <1>1, <2>2 DEF GuessInv, GuessType
    <3> QED BY <1>1, <1>3, <2>2, <3>1 DEF GuessHeld, EntryHeld
  <2> QED BY <2>1, <2>2
<1> QED
  BY <1>4, <1>5 DEF GuessInv

LEMMA CancelKeeps ==
    ASSUME GuessInv, ShareType, NEW c \in Visitors, CancelAttempt(c)
    PROVE  GuessInv'
<1>1. PICK a \in Admitted(c) :
        attempts' = IF a[c].failures = 0 THEN [a EXCEPT ![c] = Untracked]
                    ELSE [a EXCEPT ![c].flying = FALSE]
  BY DEF CancelAttempt
<1>2. trying[c] = 0 /\ UNCHANGED <<trying, failed, clock>> /\ clock \in Nat
  BY DEF CancelAttempt, KeepGuessing, ShareType
<1>3. /\ a \in [Visitors -> Entries] /\ EntryHeld(a[c], failed[c], TRUE)
      /\ \A d \in Visitors \ {c} : EntryHeld(a[d], failed[d], trying[d] # 0)
  BY <1>2, AdmittedHeld
<1> DEFINE r == IF a[c].failures = 0 THEN Untracked ELSE [a[c] EXCEPT !.flying = FALSE]
<1>4. attempts' = [a EXCEPT ![c] = r]
  BY <1>1
<1>5. EntryHeld(r, failed[c], FALSE) /\ r \in Entries
  <2>1. a[c] \in Entries /\ failed[c] \in Seq(Nat)
    BY <1>3 DEF GuessInv, GuessType
  <2> QED BY <1>2, <1>3, <2>1, EntryCloses
<1> HIDE DEF r
<1>6. GuessType'
  BY <1>2, <1>3, <1>4, <1>5 DEF GuessInv, GuessType
<1>7. ASSUME NEW d \in Visitors PROVE GuessHeld(d)'
  <2>1. CASE d = c
    <3>1. (trying'[c] # 0) = FALSE /\ attempts'[c] = r
      BY <1>2, <1>3, <1>4
    <3> QED BY <1>2, <1>5, <2>1, <3>1 DEF GuessHeld, EntryHeld
  <2>2. CASE d # c
    BY <1>2, <1>3, <1>4, <2>2 DEF GuessHeld, EntryHeld
  <2> QED BY <2>1, <2>2
<1> QED
  BY <1>6, <1>7 DEF GuessInv

LEMMA FailureKeeps ==
    ASSUME GuessInv, ShareType, NEW c \in Visitors, FinishFailure(c)
    PROVE  GuessInv'
<1> DEFINE e == attempts[c]
           r == [flying |-> FALSE, failures |-> e.failures + 1, last |-> clock,
                 until |-> IF e.failures + 1 >= FailureLimit THEN clock + LockDuration ELSE e.until]
<1>1. /\ trying[c] # 0 /\ attempts' = [attempts EXCEPT ![c] = r]
      /\ trying' = [trying EXCEPT ![c] = 0] /\ failed' = [failed EXCEPT ![c] = Append(failed[c], clock)]
      /\ clock' = clock /\ clock \in Nat
  BY DEF FinishFailure, KeepGuessing, ShareType, GuessInv, GuessType
<1>2. e \in Entries /\ failed[c] \in Seq(Nat) /\ EntryHeld(e, failed[c], TRUE)
  <2>1. (trying[c] # 0) = TRUE
    BY <1>1
  <2> QED BY <2>1 DEF GuessInv, GuessType, GuessHeld
<1>3. EntryHeld(r, Append(failed[c], clock), FALSE) /\ r \in Entries
  <2> HIDE DEF e
  <2> QED BY <1>1, <1>2, EntryFails
<1> HIDE DEF e, r
<1>4. GuessType'
  BY <1>1, <1>2, <1>3 DEF GuessInv, GuessType
<1>5. ASSUME NEW d \in Visitors PROVE GuessHeld(d)'
  <2>1. CASE d = c
    <3>1. (trying'[c] # 0) = FALSE /\ attempts'[c] = r /\ failed'[c] = Append(failed[c], clock)
      BY <1>1 DEF GuessInv, GuessType
    <3> QED BY <1>1, <1>3, <2>1, <3>1 DEF GuessHeld, EntryHeld
  <2>2. CASE d # c
    <3>1. trying'[d] = trying[d] /\ attempts'[d] = attempts[d] /\ failed'[d] = failed[d]
      BY <1>1, <2>2 DEF GuessInv, GuessType
    <3>2. GuessHeld(d)
      BY DEF GuessInv
    <3>3. GuessHeld(d) = EntryHeld(attempts[d], failed[d], trying[d] # 0)
      BY DEF GuessHeld
    <3>4. GuessHeld(d)' = EntryHeld(attempts[d], failed[d], trying[d] # 0)
      BY <1>1, <3>1 DEF GuessHeld, EntryHeld
    <3> QED BY <3>2, <3>3, <3>4
  <2> QED BY <2>1, <2>2
<1> QED
  BY <1>4, <1>5 DEF GuessInv

\* A client without failures and without a check under way.
LEMMA Blank ==
    ASSUME clock \in Nat
    PROVE  EntryHeld(Untracked, <<>>, FALSE) /\ Untracked \in Entries
<1>1. Run(Untracked) = 0 /\ Len(<<>>) = 0
  BY DEF Run
<1> QED
  BY <1>1, LockAssumption DEF EntryHeld, Entries

LEMMA SuccessKeeps ==
    ASSUME GuessInv, ShareType, NEW c \in Visitors, FinishSuccess(c)
    PROVE  GuessInv'
<1>1. /\ attempts' = [attempts EXCEPT ![c] = Untracked]
      /\ trying' = [trying EXCEPT ![c] = 0] /\ failed' = [failed EXCEPT ![c] = <<>>]
      /\ clock' = clock /\ clock \in Nat
  BY DEF FinishSuccess, KeepGuessing, ShareType
<1>2. EntryHeld(Untracked, <<>>, FALSE) /\ Untracked \in Entries
  BY <1>1, Blank
<1>3. GuessType'
  BY <1>1, <1>2 DEF GuessInv, GuessType
<1>4. ASSUME NEW d \in Visitors PROVE GuessHeld(d)'
  <2>1. CASE d = c
    <3>1. (trying'[c] # 0) = FALSE /\ attempts'[c] = Untracked /\ failed'[c] = <<>>
      BY <1>1 DEF GuessInv, GuessType
    <3> QED BY <1>1, <1>2, <2>1, <3>1 DEF GuessHeld, EntryHeld
  <2>2. CASE d # c
    <3>1. trying'[d] = trying[d] /\ attempts'[d] = attempts[d] /\ failed'[d] = failed[d]
      BY <1>1, <2>2 DEF GuessInv, GuessType
    <3> QED BY <1>1, <3>1 DEF GuessInv, GuessHeld, EntryHeld
  <2> QED BY <2>1, <2>2
<1> QED
  BY <1>3, <1>4 DEF GuessInv

LEMMA GuessBlank ==
    ASSUME clock \in Nat, attempts = [c \in Visitors |-> Untracked],
           trying = [c \in Visitors |-> 0], failed = [c \in Visitors |-> <<>>]
    PROVE  GuessInv
<1>1. EntryHeld(Untracked, <<>>, FALSE) /\ Untracked \in Entries
  BY Blank
<1>2. GuessType
  BY <1>1 DEF GuessType
<1>3. ASSUME NEW c \in Visitors PROVE GuessHeld(c)
  <2>1. (trying[c] # 0) = FALSE /\ attempts[c] = Untracked /\ failed[c] = <<>>
    OBVIOUS
  <2> QED BY <1>1, <2>1 DEF GuessHeld
<1> QED
  BY <1>2, <1>3 DEF GuessInv

LEMMA GuessKeeps ==
    ASSUME GuessInv, ShareType, ShareType', [TicketsNext]_ticketVars
    PROVE  GuessInv'
<1>1. clock \in Nat /\ clock' \in Nat
  BY DEF ShareType
<1>2. CASE GuessSide
  BY <1>2, BeginKeeps, CancelKeeps, FailureKeeps, SuccessKeeps DEF GuessSide
<1>3. CASE \E loss \in BOOLEAN : RestartShares(loss)
  <2>1. /\ attempts' = [c \in Visitors |-> Untracked]
        /\ trying' = [c \in Visitors |-> 0] /\ failed' = [c \in Visitors |-> <<>>]
    BY <1>3 DEF RestartShares
  <2>2. EntryHeld(Untracked, <<>>, FALSE)' /\ Untracked \in Entries
    BY <1>1, LockAssumption DEF EntryHeld, Entries, Run
  <2>3. GuessType'
    BY <2>1, <2>2 DEF GuessType
  <2>4. ASSUME NEW c \in Visitors PROVE GuessHeld(c)'
    <3>1. (trying'[c] # 0) = FALSE /\ attempts'[c] = Untracked /\ failed'[c] = <<>>
      BY <2>1
    <3> QED BY <2>2, <3>1 DEF GuessHeld, EntryHeld
  <2> QED BY <2>3, <2>4 DEF GuessInv
<1>4. CASE OwnerSide \/ HookSide
  BY <1>1, <1>4, OwnerShape, GuessWaits
<1>5. CASE TicketSide
  <2>1. UNCHANGED guessVars /\ clock' = clock
    BY <1>5 DEF TicketSide, AuthorizeShare, Preflight, IssueTicket, Reserve, RollbackReservation,
       StartDownload, OpenTarget, Recheck, Served, KeepTicketing, KeepServing
  <2> QED BY <1>1, <2>1, GuessWaits
<1>6. CASE ClockTick \/ UNCHANGED ticketVars
  <2>1. UNCHANGED guessVars /\ clock <= clock'
    BY <1>1, <1>6 DEF ClockTick, ticketVars
  <2> QED BY <1>1, <2>1, GuessWaits
<1> QED
  BY <1>2, <1>3, <1>4, <1>5, <1>6 DEF TicketsNext

-----------------------------------------------------------------------------

LEMMA InvHonest == TicketsInv => TicketsHonest
<1> SUFFICES ASSUME TicketsInv PROVE TicketsHonest
  OBVIOUS
<1>1. TicketsFresh
  BY AcceptedFresh DEF TicketsInv, TicketsFresh, Servable, LoadsFor
<1>2. ServedFresh
  BY DEF TicketsInv, ShareInv, DownloadDated
<1>3. AccessesCounted
  <2>1. IsFiniteSet(Holding) /\ Cardinality(Holding) \in Nat
    BY ShareAssumption, FS_Subset, FS_CardinalityType DEF Holding
  <2>2. Cardinality(tickets) \in Nat /\ (shr # NoShare => shr.count \in Nat) /\ uncounted \in Nat
    BY FS_CardinalityType DEF TicketsInv, ShareInv, ShareType, ShareStates
  <2> QED BY <2>1, <2>2 DEF AccessesCounted, TicketsInv, ShareInv, CountsHeld
<1>4. GuessesSlow
  BY DEF TicketsInv, GuessInv, GuessHeld, EntryHeld, GuessesSlow
<1> QED
  BY <1>1, <1>2, <1>3, <1>4 DEF TicketsHonest

\* No ticket issued for an earlier state of the share is served, every access behind a
\* ticket is in the counter except those a power loss took back out of the file, and no
\* client tries more than FailureLimit wrong passwords without a pause as long as a lock,
\* whatever updates, hooks, concurrent calls and failed saves come in between.
THEOREM TicketsStayHonest == TicketsSpec => []TicketsHonest
<1>1. TicketsInit => TicketsInv
  <2> SUFFICES ASSUME TicketsInit PROVE TicketsInv
    OBVIOUS
  <2>1. GuessInv
    BY GuessBlank DEF TicketsInit
  <2> QED BY <2>1, ShareStarts DEF TicketsInv
<1>2. TicketsInv /\ [TicketsNext]_ticketVars => TicketsInv'
  <2> SUFFICES ASSUME TicketsInv, [TicketsNext]_ticketVars PROVE TicketsInv'
    OBVIOUS
  <2>1. ShareInv'
    BY ShareKeeps DEF TicketsInv
  <2>2. GuessInv'
    BY <2>1, GuessKeeps DEF TicketsInv, ShareInv
  <2> QED BY <2>1, <2>2 DEF TicketsInv
<1> QED
  BY <1>1, <1>2, InvHonest, PTL DEF TicketsSpec

-----------------------------------------------------------------------------
(* The inductive invariant of sessions                                     *)

\* The values the state takes.
AccountRecords == [ver : Nat \ {0}, off : BOOLEAN]
Pairs == [user : Accounts, sid : SessionIds, exp : Int, gen : Nat, ver : Nat, nbf : Nat, aexp : Int]
Registries == [SessionIds -> SessionRecords \cup {NoSession}]
Images == [reg : Registries, floor : Nat]
AccountFiles == [Accounts -> AccountRecords \cup {NoSession}]
TokenCalls == [at : {"lookup", "pair", "reuse", "logout"}, tok : Pairs]
Calls == {Resting} \cup [at : {"login"}, user : Accounts, ver : Nat] \cup TokenCalls
         \cup [at : {"consume"}, tok : Pairs, pair : Pairs]

AuthTypes ==
    /\ wall \in Nat /\ since \in Nat /\ seen \in Nat /\ authUp \in BOOLEAN
    /\ tm \in [reg : Registries, floor : Nat, high : Nat]
    /\ sessFile \in Images /\ sessKept \in Images
    /\ accts \in AccountFiles /\ acctFile \in AccountFiles /\ acctKept \in AccountFiles
    /\ staleVer \in [Accounts -> Nat]
    /\ issued \subseteq Pairs
    /\ ended \subseteq SessionIds /\ stranded \subseteq SessionIds /\ undone \subseteq SessionIds
    /\ call \in [AuthCalls -> Calls]
    /\ adminCall \in {NoChange} \cup [at : {"revoke"}, user : Accounts]

\* While the process is up its registry and accounts are the ones in the files.
FilesFollow == authUp => sessFile = Image(tm) /\ accts = acctFile
\* No answer is later than the floor in the file or than the high water.
TimeKept == seen <= sessFile.floor /\ (authUp => seen <= tm.high)
\* A time that neither a restart nor the running process goes behind.
Past(n) == n <= sessFile.floor /\ (authUp => n <= tm.high)

\* The record a session has in the file answers for its tokens: it has their user
\* and expiry, and no token is ahead of its generation.  A session without a
\* record was ended, or has expired for good.
TokenKept(tok) ==
    LET rec == sessFile.reg[tok.sid] IN
    /\ Past(tok.nbf)
    /\ rec # NoSession => rec.user = tok.user /\ rec.exp = tok.exp /\ tok.gen <= rec.next
    /\ tok.sid \in ended => rec = NoSession
    /\ rec = NoSession /\ tok.sid \notin ended => Past(tok.exp)

\* One of the tokens of a session is the newest.
Topped(s) == \E tok \in OfSession(s) : \A x \in OfSession(s) : x.gen <= tok.gen
\* A session nobody was given a token of has left no trace; the client of one that
\* has a record holds the generation the record expects next, unless it was not
\* told of the last rotation; and its tokens are answered for, unless a power loss
\* undid a write.
SessionKept(s) ==
    /\ OfSession(s) # {} => Topped(s)
    /\ OfSession(s) = {} => sessFile.reg[s] = NoSession /\ sessKept.reg[s] = NoSession /\ s \notin ended
    /\ s \notin stranded \cup undone /\ sessFile.reg[s] # NoSession =>
          \E tok \in OfSession(s) : tok.gen = sessFile.reg[s].next
    /\ s \notin undone => \A tok \in OfSession(s) : TokenKept(tok)
SessionsKept == \A s \in SessionIds : SessionKept(s)

\* The accounts in the file have left every credential behind that was replaced.
CredentialsKept == \A u \in Accounts : acctFile[u] # NoSession => acctFile[u].ver > staleVer[u]

\* A request carries a token some client was given, and the pair it is about to
\* hand out is the successor of that token.
CallKept(c) ==
    /\ c.at \in {"lookup", "pair", "reuse", "logout", "consume"} => c.tok \in issued
    /\ c.at = "consume" =>
          /\ c.pair.sid = c.tok.sid /\ c.pair.user = c.tok.user /\ c.pair.exp = c.tok.exp
          /\ c.pair.gen = c.tok.gen + 1
          /\ authUp /\ c.pair.nbf <= tm.high
CallsKept == \A r \in AuthCalls : CallKept(call[r])

AuthInv == AuthTypes /\ FilesFollow /\ TimeKept /\ SessionsKept /\ CredentialsKept /\ CallsKept

-----------------------------------------------------------------------------
(* Time, the registry and its file                                         *)

Managers == [reg : Registries, floor : Nat, high : Nat]

\* The effective time is behind neither the wall clock nor the high water.
LEMMA NowFacts ==
    ASSUME AuthTypes
    PROVE  EffectiveNow \in Nat /\ EffectiveNow >= tm.high /\ EffectiveNow >= wall
<1>1. tm.high \in Nat /\ since \in Nat /\ wall \in Nat
  BY DEF AuthTypes
<1>2. tm.high + since \in Nat /\ tm.high + since \in Int /\ wall \in Int
  BY <1>1
<1>3. LET m == Max({tm.high + since, wall})
      IN  m \in {tm.high + since, wall} /\ m >= tm.high + since /\ m >= wall
  BY <1>2, MaxOfTwo
<1> QED BY <1>1, <1>2, <1>3 DEF EffectiveNow

\* Observing the time moves the high water only.
LEMMA ClockedFacts ==
    ASSUME AuthTypes
    PROVE  /\ Clocked \in Managers /\ Clocked.high = EffectiveNow
           /\ Clocked.reg = tm.reg /\ Clocked.floor = tm.floor
  BY NowFacts DEF Clocked, AuthTypes, Managers

\* A cleanup drops the expired records and nothing else.
LEMMA CleanFacts ==
    ASSUME NEW t \in Managers
    PROVE  /\ CleanupExpired(t) \in Managers
           /\ CleanupExpired(t).high = t.high /\ CleanupExpired(t).floor = t.floor
           /\ \A s \in SessionIds :
                CleanupExpired(t).reg[s] = IF Live(t.reg[s], t.high) THEN t.reg[s] ELSE NoSession
  BY DEF CleanupExpired, Managers, Registries

\* An extended lease covers the present.
LEMMA LeaseFacts ==
    ASSUME NEW t \in Managers
    PROVE  /\ ExtendLease(t) \in Managers
           /\ ExtendLease(t).high = t.high /\ ExtendLease(t).reg = t.reg
           /\ ExtendLease(t).floor >= t.floor /\ ExtendLease(t).floor >= t.high
<1>1. t.floor \in Nat /\ t.high \in Nat /\ t.high + LeaseTime \in Nat /\ LeaseTime \in Nat
  BY AuthAssumption DEF Managers
<1>2. t.floor \in Int /\ t.high + LeaseTime \in Int
  BY <1>1
<1>3. LET m == Max({t.floor, t.high + LeaseTime})
      IN  m \in {t.floor, t.high + LeaseTime} /\ m >= t.floor /\ m >= t.high + LeaseTime
  BY <1>2, MaxOfTwo
<1> QED BY <1>1, <1>3 DEF ExtendLease, Managers

\* What every step of a running manager does to time and to the file.
Forward ==
    /\ authUp /\ authUp'
    /\ tm' \in Managers /\ sessFile' = Image(tm') /\ sessFile' \in Images /\ sessKept' \in Images /\ since' = 0
    /\ tm'.high = EffectiveNow /\ tm'.floor >= tm.floor
    /\ \A s \in SessionIds : sessKept'.reg[s] \in {sessKept.reg[s], sessFile'.reg[s]}

\* The record of s is as before, or has expired and was dropped.
Weeded(s) ==
    \/ tm'.reg[s] = tm.reg[s]
    \/ /\ tm'.reg[s] = NoSession /\ tm.reg[s] # NoSession
       /\ tm.reg[s].exp <= tm'.high /\ tm.reg[s].exp <= tm'.floor

\* The file holds registry and floor.
LEMMA ImageFacts ==
    ASSUME NEW t \in Managers
    PROVE  Image(t) \in Images /\ Image(t).reg = t.reg /\ Image(t).floor = t.floor
  BY DEF Image, Images, Managers

\* A step that writes nothing goes forward.
LEMMA StayFacts ==
    ASSUME AuthInv, authUp, authUp', tm' = Clocked, since' = 0,
           sessFile' = sessFile, sessKept' = sessKept
    PROVE  Forward /\ \A s \in SessionIds : Weeded(s)
<1>1. sessFile = Image(tm) /\ AuthTypes
  BY DEF AuthInv, FilesFollow
<1>2. Image(Clocked) = Image(tm)
  BY <1>1, ClockedFacts DEF Image
<1> QED BY <1>1, <1>2, ClockedFacts DEF Forward, Weeded, AuthTypes, Managers

\* A write goes forward, failed or not; the failed one leaves the old registry.
LEMMA PersistFacts ==
    ASSUME AuthInv, authUp, authUp', NEW o \in Saves, NEW t \in Managers,
           t.high = EffectiveNow, t.floor >= tm.floor, PersistSessions(Clocked, t, o)
    PROVE  /\ Forward
           /\ o = "fail" => \A s \in SessionIds : Weeded(s)
           /\ o = "fail" => tm' = Clocked
           /\ o # "fail" => tm' = t
<1>1. CASE o = "fail"
  <2>1. tm' = Clocked /\ since' = 0 /\ sessFile' = sessFile /\ sessKept' = sessKept
    BY <1>1 DEF PersistSessions
  <2> QED BY <2>1, <1>1, StayFacts
<1>2. CASE o # "fail"
  <2>1. tm' = t /\ since' = 0 /\ sessFile' = Image(t) /\ sessKept' \in {sessKept, Image(t)}
    BY <1>2 DEF PersistSessions
  <2>2. sessKept \in Images
    BY DEF AuthInv, AuthTypes
  <2> QED BY <2>1, <2>2, <1>2, ImageFacts DEF Forward
<1> QED BY <1>1, <1>2

\* The registry after a cleanup of the clocked manager.
LEMMA CleanedFacts ==
    ASSUME AuthInv
    PROVE  LET t == CleanupExpired(Clocked) IN
           /\ t \in Managers /\ t.high = EffectiveNow /\ t.floor = tm.floor
           /\ \A s \in SessionIds :
                 \/ t.reg[s] = tm.reg[s]
                 \/ t.reg[s] = NoSession /\ tm.reg[s] # NoSession /\ tm.reg[s].exp <= EffectiveNow
<1> DEFINE t == CleanupExpired(Clocked)
<1>1. AuthTypes
  BY DEF AuthInv
<1>2. t \in Managers /\ t.high = EffectiveNow /\ t.floor = tm.floor
  BY <1>1, ClockedFacts, CleanFacts
<1>3. ASSUME NEW s \in SessionIds
      PROVE  \/ t.reg[s] = tm.reg[s]
             \/ t.reg[s] = NoSession /\ tm.reg[s] # NoSession /\ tm.reg[s].exp <= EffectiveNow
  <2>1. t.reg[s] = IF Live(tm.reg[s], EffectiveNow) THEN tm.reg[s] ELSE NoSession
    BY <1>1, ClockedFacts, CleanFacts
  <2>2. tm.reg[s] # NoSession => tm.reg[s].exp \in Int
    BY <1>1 DEF AuthTypes, Registries, SessionRecords
  <2>3. EffectiveNow \in Nat
    BY <1>1, NowFacts
  <2> QED BY <2>1, <2>2, <2>3 DEF Live
<1> QED BY <1>2, <1>3

\* A cleanup under an extended lease drops only what the floor has passed.
LEMMA WeedsOut ==
    ASSUME AuthInv, Forward, tm' = ExtendLease(CleanupExpired(Clocked))
    PROVE  \A s \in SessionIds : Weeded(s)
<1> DEFINE t == CleanupExpired(Clocked)
<1>1. t \in Managers /\ t.high = EffectiveNow
  BY CleanedFacts
<1>2. tm'.reg = t.reg /\ tm'.floor >= EffectiveNow /\ tm'.high = EffectiveNow
  BY <1>1, LeaseFacts
<1>3. EffectiveNow \in Nat /\ tm'.floor \in Nat
  BY NowFacts DEF AuthInv, Forward, Managers
<1>4. \A s \in SessionIds : tm.reg[s] # NoSession => tm.reg[s].exp \in Int
  BY DEF AuthInv, AuthTypes, Registries, SessionRecords
<1> QED BY <1>2, <1>3, <1>4, CleanedFacts DEF Weeded

\* What every request does first: the answer it may then give is under the floor.
LEMMA PrepareFacts ==
    ASSUME AuthInv, authUp, authUp', NEW o \in Saves, Prepare(o)
    PROVE  /\ Forward /\ \A s \in SessionIds : Weeded(s)
           /\ Prepared(o) => EffectiveNow <= tm'.floor
<1>1. AuthTypes /\ tm.floor \in Nat /\ tm.floor \in Int /\ EffectiveNow \in Nat /\ LeaseLead \in Nat
  BY NowFacts, AuthAssumption DEF AuthInv, AuthTypes
<1>2. CASE LeaseFresh
  <2>1. tm' = Clocked /\ since' = 0 /\ sessFile' = sessFile /\ sessKept' = sessKept
    BY <1>2 DEF Prepare
  <2>2. tm'.floor = tm.floor
    BY <2>1, <1>1, ClockedFacts
  <2> QED BY <2>1, <2>2, <1>1, <1>2, StayFacts DEF LeaseFresh
<1>3. CASE ~LeaseFresh
  <2> DEFINE t == CleanupExpired(Clocked)
  <2>1. t \in Managers /\ t.high = EffectiveNow /\ t.floor = tm.floor
    BY CleanedFacts
  <2>2. /\ ExtendLease(t) \in Managers /\ ExtendLease(t).high = EffectiveNow
        /\ ExtendLease(t).floor >= tm.floor /\ ExtendLease(t).floor >= EffectiveNow
    BY <2>1, LeaseFacts
  <2>3. PersistSessions(Clocked, ExtendLease(t), o)
    BY <1>3 DEF Prepare
  <2> HIDE DEF t
  <2>4. /\ Forward /\ (o = "fail" => \A s \in SessionIds : Weeded(s))
        /\ (o = "fail" => tm' = Clocked) /\ (o # "fail" => tm' = ExtendLease(t))
    BY <2>2, <2>3, PersistFacts
  <2>5. o # "fail" => \A s \in SessionIds : Weeded(s)
    BY <2>4, WeedsOut DEF t
  <2>6. o = "fail" => tm'.floor = tm.floor
    BY <2>4, <1>1, ClockedFacts
  <2> QED BY <1>1, <1>3, <2>2, <2>4, <2>5, <2>6 DEF Prepared
<1> QED BY <1>2, <1>3

-----------------------------------------------------------------------------
(* Requests that change no session                                         *)

\* While the process is up, file and memory agree.
LEMMA UpFacts ==
    ASSUME AuthInv, authUp
    PROVE  /\ sessFile = Image(tm) /\ sessFile.reg = tm.reg /\ sessFile.floor = tm.floor
           /\ tm \in Managers /\ accts = acctFile
<1>1. sessFile = Image(tm) /\ accts = acctFile /\ tm \in Managers
  BY DEF AuthInv, FilesFollow, AuthTypes, Managers
<1> QED BY <1>1, ImageFacts

\* What is past stays past.
LEMMA ForwardFacts ==
    ASSUME AuthInv, Forward
    PROVE  /\ sessFile'.reg = tm'.reg /\ sessFile'.floor = tm'.floor
           /\ tm'.high >= tm.high /\ tm'.high \in Nat /\ tm.high \in Nat
           /\ tm'.floor \in Nat /\ tm.floor \in Nat
           /\ \A n \in Int : Past(n) => n <= tm'.floor /\ n <= tm'.high
<1>1. AuthTypes /\ authUp /\ tm' \in Managers
  BY DEF AuthInv, Forward
<1>2. sessFile'.reg = tm'.reg /\ sessFile'.floor = tm'.floor
  BY <1>1, ImageFacts DEF Forward
<1>3. tm'.high >= tm.high /\ tm'.high \in Nat /\ tm.high \in Nat /\ tm'.floor \in Nat /\ tm.floor \in Nat
      /\ tm'.floor >= tm.floor
  BY <1>1, NowFacts DEF Forward, AuthTypes, Managers
<1> QED BY <1>1, <1>2, <1>3, UpFacts DEF Past

\* A session whose tokens are as before and whose record is as before, or
\* expired, is kept.
LEMMA WeededKept ==
    ASSUME AuthInv, Forward, NEW s \in SessionIds, Weeded(s), OfSession(s)' = OfSession(s),
           (s \in ended') = (s \in ended), s \in stranded => s \in stranded', undone' = undone
    PROVE  SessionKept(s)'
<1>1. authUp /\ AuthTypes /\ SessionKept(s) /\ authUp'
  BY DEF AuthInv, Forward, SessionsKept
<1>2. \A tok \in OfSession(s) : tok.sid = s /\ tok.exp \in Int /\ tok.nbf \in Int /\ tok.gen \in Int
  BY <1>1 DEF OfSession, AuthTypes, Pairs
<1>3. sessFile.reg = tm.reg /\ sessFile'.reg = tm'.reg /\ sessFile'.floor = tm'.floor
  BY <1>1, UpFacts, ForwardFacts
<1>4. sessKept'.reg[s] \in {sessKept.reg[s], tm'.reg[s]}
  BY <1>3 DEF Forward
<1>5. ASSUME s \notin undone, NEW tok \in OfSession(s)
      PROVE  TokenKept(tok)'
  <2>1. TokenKept(tok) /\ tok.sid = s
    BY <1>1, <1>2, <1>5 DEF SessionKept
  <2>2. Past(tok.nbf)'
    BY <2>1, <1>2, <1>3, ForwardFacts DEF Past, TokenKept
  <2>3. Past(tok.exp) => Past(tok.exp)'
    BY <1>2, <1>3, ForwardFacts DEF Past
  <2>4. tm'.reg[s] = NoSession /\ tm.reg[s] # NoSession /\ Weeded(s) => Past(tok.exp)'
    BY <2>1, <1>1, <1>3 DEF TokenKept, Weeded, Past
  <2> QED BY <2>1, <2>2, <2>3, <2>4, <1>3 DEF TokenKept, Weeded
<1> QED BY <1>1, <1>3, <1>4, <1>5 DEF SessionKept, Weeded, Topped

\* A session that was ended has no record any more.
LEMMA EndedKept ==
    ASSUME AuthInv, Forward, NEW s \in SessionIds, tm'.reg[s] = NoSession, OfSession(s)' = OfSession(s),
           OfSession(s) # {}, s \in ended', undone' = undone
    PROVE  SessionKept(s)'
<1>1. authUp /\ AuthTypes /\ SessionKept(s) /\ authUp'
  BY DEF AuthInv, Forward, SessionsKept
<1>2. \A tok \in OfSession(s) : tok.sid = s /\ tok.exp \in Int /\ tok.nbf \in Int /\ tok.gen \in Int
  BY <1>1 DEF OfSession, AuthTypes, Pairs
<1>3. sessFile'.reg = tm'.reg /\ sessFile'.floor = tm'.floor
  BY ForwardFacts
<1>4. ASSUME s \notin undone, NEW tok \in OfSession(s)
      PROVE  TokenKept(tok)'
  <2>1. TokenKept(tok) /\ tok.sid = s
    BY <1>1, <1>2, <1>4 DEF SessionKept
  <2>2. Past(tok.nbf)'
    BY <2>1, <1>2, <1>3, ForwardFacts DEF Past, TokenKept
  <2> QED BY <2>1, <2>2, <1>3 DEF TokenKept
<1> QED BY <1>1, <1>3, <1>4 DEF SessionKept, Topped

\* A request under way keeps what it carries while time goes forward.
LEMMA CallStays ==
    ASSUME AuthInv, NEW c \in Calls, CallKept(c), issued \subseteq issued',
           authUp => authUp' /\ tm'.high >= tm.high, tm'.high \in Nat
    PROVE  CallKept(c)'
<1>1. tm.high \in Nat
  BY DEF AuthInv, AuthTypes
<1>2. c.at = "consume" => c.pair.nbf \in Nat
  BY DEF Calls, Pairs, TokenCalls, Resting
<1> QED BY <1>1, <1>2 DEF CallKept

\* One request moves on.
LEMMA CallMoves ==
    ASSUME AuthInv, NEW r \in AuthCalls, NEW c \in Calls, call' = [call EXCEPT ![r] = c], CallKept(c)',
           issued \subseteq issued', authUp => authUp' /\ tm'.high >= tm.high, tm'.high \in Nat
    PROVE  call' \in [AuthCalls -> Calls] /\ CallsKept'
<1>1. call \in [AuthCalls -> Calls] /\ CallsKept
  BY DEF AuthInv, AuthTypes
<1>2. call' \in [AuthCalls -> Calls]
  BY <1>1
<1>3. ASSUME NEW q \in AuthCalls, q # r
      PROVE  CallKept(call[q])'
  <2>1. PICK d \in Calls : d = call[q] /\ CallKept(d)
    BY <1>1 DEF CallsKept
  <2>2. CallKept(d)'
    BY <2>1, CallStays
  <2>3. call'[q] = d
    BY <1>1, <1>3, <2>1
  <2> QED BY <2>2, <2>3 DEF CallKept
<1>4. CallKept(call[r])'
  <2>1. call'[r] = c
    BY <1>1
  <2> QED BY <2>1 DEF CallKept
<1> QED BY <1>1, <1>2, <1>3, <1>4 DEF CallsKept

\* No request moves.
LEMMA CallsStay ==
    ASSUME AuthInv, call' = call,
           issued \subseteq issued', authUp => authUp' /\ tm'.high >= tm.high, tm'.high \in Nat
    PROVE  call' \in [AuthCalls -> Calls] /\ CallsKept'
<1>1. call \in [AuthCalls -> Calls] /\ CallsKept
  BY DEF AuthInv, AuthTypes
<1>3. ASSUME NEW q \in AuthCalls
      PROVE  CallKept(call[q])'
  <2>1. PICK d \in Calls : d = call[q] /\ CallKept(d)
    BY <1>1 DEF CallsKept
  <2>2. CallKept(d)'
    BY <2>1, CallStays
  <2>3. call'[q] = d
    BY <1>1, <2>1
  <2> QED BY <2>2, <2>3 DEF CallKept
<1> QED BY <1>1, <1>3 DEF CallsKept

LEMMA RestingKept == Resting \in Calls /\ CallKept(Resting)'
  BY DEF Calls, Resting, CallKept

\* A step of the token manager keeps the rest of the invariant.
LEMMA ManagerStep ==
    ASSUME AuthInv, Forward, wall' = wall, UNCHANGED acctVars, staleVer' = staleVer,
           issued' \subseteq Pairs, ended' \subseteq SessionIds, stranded' \subseteq SessionIds,
           undone' = undone, call' \in [AuthCalls -> Calls], CallsKept',
           adminCall' \in {NoChange} \cup [at : {"revoke"}, user : Accounts],
           seen' = seen \/ (seen' \in {seen, EffectiveNow} /\ EffectiveNow <= tm'.floor),
           \A s \in SessionIds : SessionKept(s)'
    PROVE  AuthInv'
<1>1. AuthTypes'
  BY NowFacts DEF AuthInv, AuthTypes, Forward, acctVars, Managers
<1>2. FilesFollow'
  BY DEF AuthInv, FilesFollow, Forward, acctVars
<1>3. TimeKept'
  <2>1. seen <= sessFile.floor /\ seen <= tm.high /\ seen \in Int
    BY DEF AuthInv, TimeKept, Forward, AuthTypes
  <2>2. seen <= tm'.floor /\ seen <= tm'.high
    BY <2>1, ForwardFacts DEF Past
  <2>3. EffectiveNow <= tm'.high
    BY NowFacts DEF Forward, AuthInv
  <2> QED BY <2>2, <2>3, ForwardFacts DEF TimeKept
<1>4. CredentialsKept'
  BY DEF AuthInv, CredentialsKept, acctVars
<1> QED BY <1>1, <1>2, <1>3, <1>4 DEF AuthInv, SessionsKept

\* A validation, whatever its request makes of it.
LEMMA ValidationStep ==
    ASSUME AuthInv, authUp, authUp', NEW o \in Saves, Prepare(o), Witnessed(o), wall' = wall,
           UNCHANGED acctVars, issued' = issued, UNCHANGED endVars, adminCall' = adminCall,
           call' \in [AuthCalls -> Calls], CallsKept'
    PROVE  AuthInv'
<1>1. Forward /\ (\A s \in SessionIds : Weeded(s)) /\ (Prepared(o) => EffectiveNow <= tm'.floor)
  BY PrepareFacts
<1>2. \A s \in SessionIds : OfSession(s)' = OfSession(s)
  BY DEF OfSession
<1>3. \A s \in SessionIds : SessionKept(s)'
  BY <1>1, <1>2, WeededKept DEF endVars
<1>4. seen' = seen \/ (seen' \in {seen, EffectiveNow} /\ EffectiveNow <= tm'.floor)
  <2>1. seen \in Int /\ EffectiveNow \in Int
    BY NowFacts DEF AuthInv, AuthTypes
  <2>2. Max({seen, EffectiveNow}) \in {seen, EffectiveNow}
    BY <2>1, MaxOfTwo
  <2> QED BY <1>1, <2>2 DEF Witnessed
<1> QED BY <1>1, <1>3, <1>4, ManagerStep DEF endVars, AuthInv, AuthTypes

\* A request that carries an issued token.
LEMMA TokenCall ==
    ASSUME AuthInv, NEW tok \in issued, NEW at \in {"lookup", "pair", "reuse", "logout"}, issued' = issued
    PROVE  [at |-> at, tok |-> tok] \in Calls /\ CallKept([at |-> at, tok |-> tok])'
  BY DEF AuthInv, AuthTypes, Calls, TokenCalls, CallKept

LEMMA ForwardCalls ==
    ASSUME AuthInv, Forward
    PROVE  (authUp => authUp' /\ tm'.high >= tm.high) /\ tm'.high \in Nat
  BY ForwardFacts DEF Forward

LEMMA RequireAuthStep == ASSUME AuthInv, RequireAuth PROVE AuthInv'
<1>1. PICK o \in Saves : Prepare(o) /\ Witnessed(o)
  BY DEF RequireAuth
<1>2. authUp /\ authUp'
  BY DEF RequireAuth
<1>3. call' \in [AuthCalls -> Calls] /\ CallsKept'
  BY <1>1, <1>2, PrepareFacts, ForwardCalls, CallsStay DEF RequireAuth
<1> QED BY <1>1, <1>2, <1>3, ValidationStep DEF RequireAuth

LEMMA RefreshValidateStep ==
    ASSUME AuthInv, NEW r \in AuthCalls, NEW tok \in issued, RefreshValidate(r, tok)
    PROVE  AuthInv'
<1>1. PICK o \in Saves :
        /\ Prepare(o) /\ Witnessed(o)
        /\ IF Prepared(o) /\ ValidRefresh(tm', tok)
           THEN Proceed(r, [at |-> "lookup", tok |-> tok])
           ELSE IF Prepared(o) /\ ReusedRefresh(tm', tok)
           THEN Proceed(r, [at |-> "reuse", tok |-> tok]) ELSE UNCHANGED call
  BY DEF RefreshValidate
<1>2. authUp /\ authUp' /\ issued' = issued
  BY DEF RefreshValidate, Free
<1>3. (authUp => authUp' /\ tm'.high >= tm.high) /\ tm'.high \in Nat
  BY <1>1, <1>2, PrepareFacts, ForwardCalls
<1>4. call' \in [AuthCalls -> Calls] /\ CallsKept'
  <2>1. \/ call' = call \/ Proceed(r, [at |-> "lookup", tok |-> tok])
        \/ Proceed(r, [at |-> "reuse", tok |-> tok])
    BY <1>1
  <2>2. CASE call' = call
    BY <2>2, <1>2, <1>3, CallsStay
  <2>3. CASE Proceed(r, [at |-> "lookup", tok |-> tok])
    BY <2>3, <1>2, <1>3, CallMoves, TokenCall DEF Proceed
  <2>4. CASE Proceed(r, [at |-> "reuse", tok |-> tok])
    BY <2>4, <1>2, <1>3, CallMoves, TokenCall DEF Proceed
  <2> QED BY <2>1, <2>2, <2>3, <2>4
<1> QED BY <1>1, <1>2, <1>4, ValidationStep DEF RefreshValidate

LEMMA LogoutParseStep ==
    ASSUME AuthInv, NEW r \in AuthCalls, NEW tok \in issued, LogoutParse(r, tok)
    PROVE  AuthInv'
<1>1. PICK o \in Saves :
        /\ Prepare(o) /\ Witnessed(o)
        /\ IF Prepared(o) /\ InTime(tm', tok)
           THEN Proceed(r, [at |-> "logout", tok |-> tok]) ELSE UNCHANGED call
  BY DEF LogoutParse
<1>2. authUp /\ authUp' /\ issued' = issued
  BY DEF LogoutParse, Free
<1>3. (authUp => authUp' /\ tm'.high >= tm.high) /\ tm'.high \in Nat
  BY <1>1, <1>2, PrepareFacts, ForwardCalls
<1>4. call' \in [AuthCalls -> Calls] /\ CallsKept'
  <2>1. call' = call \/ Proceed(r, [at |-> "logout", tok |-> tok])
    BY <1>1
  <2>2. CASE call' = call
    BY <2>2, <1>2, <1>3, CallsStay
  <2>3. CASE Proceed(r, [at |-> "logout", tok |-> tok])
    BY <2>3, <1>2, <1>3, CallMoves, TokenCall DEF Proceed
  <2> QED BY <2>1, <2>2, <2>3
<1> QED BY <1>1, <1>2, <1>4, ValidationStep DEF LogoutParse

\* What a request at a position carries.
LEMMA Carried ==
    ASSUME AuthInv, NEW r \in AuthCalls
    PROVE  /\ call[r] \in Calls /\ CallKept(call[r])
           /\ call[r].at \in {"lookup", "pair", "reuse", "logout", "consume"} =>
                call[r].tok \in issued /\ call[r].tok \in Pairs
           /\ call[r].at = "login" => call[r].user \in Accounts /\ call[r].ver \in Nat
           /\ call[r].at = "consume" => call[r].pair \in Pairs
<1>1. call[r] \in Calls /\ CallKept(call[r]) /\ issued \subseteq Pairs
  BY DEF AuthInv, AuthTypes, CallsKept
<1>2. call[r].at = "login" => call[r].user \in Accounts /\ call[r].ver \in Nat
  BY <1>1 DEF Calls, TokenCalls, Resting
<1>3. call[r].at = "consume" => call[r].pair \in Pairs
  BY <1>1 DEF Calls, TokenCalls, Resting
<1> QED BY <1>1, <1>2, <1>3 DEF CallKept

\* The claims of a pair.
LEMMA PairTyped ==
    ASSUME NEW u \in Accounts, NEW s \in SessionIds, NEW exp \in Int, NEW gen \in Nat, NEW ver \in Nat,
           NEW now \in Nat
    PROVE  /\ Pair(u, s, exp, gen, ver, now) \in Pairs
           /\ Pair(u, s, exp, gen, ver, now).sid = s /\ Pair(u, s, exp, gen, ver, now).user = u
           /\ Pair(u, s, exp, gen, ver, now).exp = exp /\ Pair(u, s, exp, gen, ver, now).gen = gen
           /\ Pair(u, s, exp, gen, ver, now).nbf = now
<1> DEFINE a == now + AccessTTL
<1>1. a \in Int /\ exp \in Int
  BY AuthAssumption
<1>2. \E x \in {a, exp} : \A y \in {a, exp} : x <= y
  BY <1>1
<1>3. Min({a, exp}) \in {a, exp}
  BY <1>2 DEF Min
<1>4. Min({now + AccessTTL, exp}) \in Int
  BY <1>1, <1>3
<1> QED BY <1>4 DEF Pair, Pairs

\* A request with the successor of its token in hand.
LEMMA ConsumeCall ==
    ASSUME AuthInv, NEW tok \in issued, NEW pr \in Pairs, issued' = issued, pr.sid = tok.sid,
           pr.user = tok.user, pr.exp = tok.exp, pr.gen = tok.gen + 1, pr.nbf <= tm'.high, authUp'
    PROVE  /\ [at |-> "consume", tok |-> tok, pair |-> pr] \in Calls
           /\ CallKept([at |-> "consume", tok |-> tok, pair |-> pr])'
<1>1. tok \in Pairs
  BY DEF AuthInv, AuthTypes
<1> QED BY <1>1 DEF Calls, CallKept

LEMMA RefreshPairStep == ASSUME AuthInv, NEW r \in AuthCalls, RefreshPair(r) PROVE AuthInv'
<1>0. PICK tok \in issued : tok = call[r].tok /\ tok \in Pairs
  BY Carried DEF RefreshPair
<1>1. PICK o \in Saves :
        /\ Prepare(o) /\ Witnessed(o)
        /\ IF ~Prepared(o) THEN Answer(r)
           ELSE IF Tracked(tm', tok) /\ tm'.reg[tok.sid].next = tok.gen
           THEN Proceed(r, [at |-> "consume", tok |-> tok,
                            pair |-> Pair(tok.user, tok.sid, tok.exp, tok.gen + 1, tok.ver, tm'.high)])
           ELSE PairFailed(r, tok)
  BY <1>0 DEF RefreshPair
<1>2. authUp /\ authUp' /\ issued' = issued
  BY DEF RefreshPair
<1>3. (authUp => authUp' /\ tm'.high >= tm.high) /\ tm'.high \in Nat
  BY <1>1, <1>2, PrepareFacts, ForwardCalls
<1>5. PICK now \in Nat : now = tm'.high
  BY <1>3
<1>6. PICK pr : pr = Pair(tok.user, tok.sid, tok.exp, tok.gen + 1, tok.ver, now)
  OBVIOUS
<1>7. pr \in Pairs /\ pr.sid = tok.sid /\ pr.user = tok.user /\ pr.exp = tok.exp
      /\ pr.gen = tok.gen + 1 /\ pr.nbf = now
  <2>1. /\ tok.user \in Accounts /\ tok.sid \in SessionIds /\ tok.exp \in Int /\ tok.gen + 1 \in Nat
        /\ tok.ver \in Nat
    BY <1>0 DEF Pairs
  <2>2. PICK g \in Nat : g = tok.gen + 1
    BY <2>1
  <2>3. pr = Pair(tok.user, tok.sid, tok.exp, g, tok.ver, now)
    BY <1>6, <2>2
  <2>4. PICK q : q = Pair(tok.user, tok.sid, tok.exp, g, tok.ver, now)
    OBVIOUS
  <2>5. q \in Pairs /\ q.sid = tok.sid /\ q.user = tok.user /\ q.exp = tok.exp /\ q.gen = g /\ q.nbf = now
    <3>1. PICK u \in Accounts, s \in SessionIds, exp \in Int, ver \in Nat :
            u = tok.user /\ s = tok.sid /\ exp = tok.exp /\ ver = tok.ver
      BY <2>1
    <3>2. q = Pair(u, s, exp, g, ver, now) /\ g \in Nat /\ now \in Nat
      BY <2>2, <2>4, <1>5, <3>1
    <3>3. /\ Pair(u, s, exp, g, ver, now) \in Pairs
          /\ Pair(u, s, exp, g, ver, now).sid = s /\ Pair(u, s, exp, g, ver, now).user = u
          /\ Pair(u, s, exp, g, ver, now).exp = exp /\ Pair(u, s, exp, g, ver, now).gen = g
          /\ Pair(u, s, exp, g, ver, now).nbf = now
      BY PairTyped
    <3> QED BY <3>1, <3>2, <3>3
  <2> QED BY <2>2, <2>3, <2>4, <2>5
<1>4. call' \in [AuthCalls -> Calls] /\ CallsKept'
  <2>1. \/ Proceed(r, [at |-> "consume", tok |-> tok, pair |-> pr])
        \/ Answer(r) \/ Proceed(r, [at |-> "reuse", tok |-> tok])
    BY <1>1, <1>5, <1>6 DEF PairFailed
  <2>2. CASE Answer(r)
    BY <2>2, <1>2, <1>3, CallMoves, RestingKept DEF Answer
  <2>3. CASE Proceed(r, [at |-> "consume", tok |-> tok, pair |-> pr])
    <3>1. PICK c : c = [at |-> "consume", tok |-> tok, pair |-> pr]
      OBVIOUS
    <3>2. pr.nbf <= tm'.high
      BY <1>5, <1>7
    <3>3. c \in Calls /\ CallKept(c)'
      BY <1>2, <1>7, <3>1, <3>2, ConsumeCall
    <3> QED BY <2>3, <3>1, <3>3, <1>2, <1>3, CallMoves DEF Proceed
  <2>4. CASE Proceed(r, [at |-> "reuse", tok |-> tok])
    BY <2>4, <1>2, <1>3, CallMoves, TokenCall DEF Proceed
  <2> QED BY <2>1, <2>2, <2>3, <2>4
<1> QED BY <1>1, <1>2, <1>4, ValidationStep DEF RefreshPair

-----------------------------------------------------------------------------
(* Steps that change the registry.                                          *)

\* A revocation drops the named sessions, or, if its write fails, none.
LEMMA RevokeFacts ==
    ASSUME AuthInv, authUp, authUp', NEW gone \in SUBSET SessionIds, NEW o \in Saves, Revoke(gone, o)
    PROVE  /\ Forward
           /\ \A s \in SessionIds : s \notin gone \/ o = "fail" => Weeded(s)
           /\ o # "fail" => \A s \in gone : tm'.reg[s] = NoSession
<1> DEFINE t == CleanupExpired(Clocked)
           next == [t EXCEPT !.reg = [s \in SessionIds |-> IF s \in gone THEN NoSession ELSE t.reg[s]]]
<1>1. t \in Managers /\ t.high = EffectiveNow /\ t.floor = tm.floor
  BY CleanedFacts
<1>2. \A s \in SessionIds :
          \/ t.reg[s] = tm.reg[s]
          \/ t.reg[s] = NoSession /\ tm.reg[s] # NoSession /\ tm.reg[s].exp <= EffectiveNow
  BY CleanedFacts
<1>0. AuthTypes
  BY DEF AuthInv
<1>3. CASE next.reg = tm.reg
  <2>1. tm' = Clocked /\ since' = 0 /\ sessFile' = sessFile /\ sessKept' = sessKept /\ o = "ok"
    BY <1>3 DEF Revoke
  <2>2. tm'.reg = next.reg
    BY <2>1, <1>0, <1>3, ClockedFacts
  <2> HIDE DEF t
  <2>3. \A s \in gone : next.reg[s] = NoSession
    BY <1>1 DEF Managers
  <2> QED BY <2>1, <2>2, <2>3, StayFacts
<1>4. CASE next.reg # tm.reg
  <2>1. PersistSessions(Clocked, ExtendLease(next), o)
    BY <1>4 DEF Revoke
  <2> HIDE DEF t
  <2>2. next \in Managers /\ next.high = EffectiveNow /\ next.floor = tm.floor
    BY <1>1 DEF Managers, Registries
  <2>3. \A s \in SessionIds : next.reg[s] = IF s \in gone THEN NoSession ELSE t.reg[s]
    BY <1>1 DEF Managers
  <2> HIDE DEF next
  <2>4. /\ ExtendLease(next) \in Managers /\ ExtendLease(next).high = EffectiveNow
        /\ ExtendLease(next).floor >= tm.floor /\ ExtendLease(next).floor >= EffectiveNow
        /\ ExtendLease(next).reg = next.reg
    BY <2>2, LeaseFacts
  <2>5. /\ Forward /\ (o = "fail" => \A s \in SessionIds : Weeded(s))
        /\ (o # "fail" => tm' = ExtendLease(next))
    BY <2>1, <2>4, PersistFacts
  <2>6. ASSUME o # "fail", NEW s \in SessionIds, s \notin gone
        PROVE  Weeded(s)
    <3>1. tm'.reg[s] = t.reg[s] /\ tm'.floor >= EffectiveNow /\ tm'.high = EffectiveNow
      BY <2>3, <2>4, <2>5, <2>6
    <3>2. EffectiveNow \in Nat /\ tm'.floor \in Nat /\ (tm.reg[s] # NoSession => tm.reg[s].exp \in Int)
      BY <1>0, <2>4, <2>5, <2>6, NowFacts DEF AuthTypes, Registries, SessionRecords, Managers
    <3> QED BY <3>1, <3>2, <1>2 DEF Weeded
  <2>7. o # "fail" => \A s \in gone : tm'.reg[s] = NoSession
    BY <2>3, <2>4, <2>5
  <2> QED BY <2>5, <2>6, <2>7
<1> QED BY <1>3, <1>4

\* Sessions revoked are ended; the others are as they were.
LEMMA RevokeKept ==
    ASSUME AuthInv, authUp, authUp', NEW gone \in SUBSET SessionIds, NEW o \in Saves, Revoke(gone, o),
           EndOf(gone, o), \A s \in gone : OfSession(s) # {},
           issued' = issued, stranded' = stranded, undone' = undone
    PROVE  /\ Forward /\ ended' \subseteq SessionIds
           /\ \A s \in SessionIds : SessionKept(s)'
<1>1. /\ Forward
      /\ \A s \in SessionIds : s \notin gone \/ o = "fail" => Weeded(s)
      /\ o # "fail" => \A s \in gone : tm'.reg[s] = NoSession
  BY RevokeFacts
<1>2. \A s \in SessionIds : OfSession(s)' = OfSession(s)
  BY DEF OfSession
<1>3. ended' = (IF o = "fail" THEN ended ELSE ended \cup gone) /\ ended \subseteq SessionIds
  BY DEF EndOf, AuthInv, AuthTypes
<1>4. ASSUME NEW s \in SessionIds
      PROVE  SessionKept(s)'
  <2>1. CASE s \notin gone \/ o = "fail"
    <3>1. Weeded(s) /\ (s \in ended') = (s \in ended)
      BY <2>1, <1>1, <1>3
    <3> QED BY <3>1, <1>1, <1>2, WeededKept
  <2>2. CASE s \in gone /\ o # "fail"
    BY <2>2, <1>1, <1>2, <1>3, EndedKept
  <2> QED BY <2>1, <2>2
<1> QED BY <1>1, <1>3, <1>4

\* A logout or the answer to a reused token ends one session.
LEMMA EndCallStep ==
    ASSUME AuthInv, NEW r \in AuthCalls, HandleReuse(r) \/ Logout(r)
    PROVE  AuthInv'
<1>1. /\ authUp /\ authUp' /\ call[r].at \in {"reuse", "logout"} /\ issued' = issued
      /\ stranded' = stranded /\ undone' = undone /\ Answer(r) /\ wall' = wall /\ UNCHANGED acctVars
      /\ adminCall' = adminCall /\ seen' = seen /\ staleVer' = staleVer
  BY DEF HandleReuse, Logout
<1>2. PICK o \in Saves : Revoke({call[r].tok.sid}, o) /\ EndOf({call[r].tok.sid}, o)
  BY DEF HandleReuse, Logout
<1>3. call[r].tok \in issued /\ call[r].tok.sid \in SessionIds
  BY <1>1, Carried DEF Pairs
<1>4. OfSession(call[r].tok.sid) # {}
  BY <1>3 DEF OfSession
<1>5. /\ Forward /\ ended' \subseteq SessionIds
      /\ \A s \in SessionIds : SessionKept(s)'
  BY <1>1, <1>2, <1>3, <1>4, RevokeKept
<1>6. call' \in [AuthCalls -> Calls] /\ CallsKept'
  BY <1>1, <1>5, ForwardCalls, CallMoves, RestingKept DEF Answer
<1> QED BY <1>1, <1>5, <1>6, ManagerStep DEF AuthInv, AuthTypes

LEMMA RevokeByUserStep == ASSUME AuthInv, RevokeByUser PROVE AuthInv'
<1> DEFINE gone == {s \in SessionIds : tm.reg[s] # NoSession /\ tm.reg[s].user = adminCall.user}
<1>1. /\ authUp /\ authUp' /\ issued' = issued /\ call' = call
      /\ stranded' = stranded /\ undone' = undone /\ wall' = wall /\ UNCHANGED acctVars
      /\ adminCall' = NoChange /\ seen' = seen /\ staleVer' = staleVer
  BY DEF RevokeByUser
<1>2. PICK o \in Saves : Revoke(gone, o) /\ EndOf(gone, o)
  BY DEF RevokeByUser
<1>3. \A s \in gone : OfSession(s) # {}
  BY <1>1, UpFacts DEF AuthInv, SessionsKept, SessionKept
<1>4. gone \in SUBSET SessionIds
  OBVIOUS
<1> HIDE DEF gone
<1>5. /\ Forward /\ ended' \subseteq SessionIds
      /\ \A s \in SessionIds : SessionKept(s)'
  BY <1>1, <1>2, <1>3, <1>4, RevokeKept
<1>6. call' \in [AuthCalls -> Calls] /\ CallsKept'
  BY <1>1, <1>5, ForwardCalls, CallsStay
<1> QED BY <1>1, <1>5, <1>6, ManagerStep DEF AuthInv, AuthTypes

\* A new session has its record and its only token.
LEMMA NewSessionKept ==
    ASSUME AuthInv, Forward, NEW s \in SessionIds, NEW tok \in Pairs, OfSession(s) = {},
           OfSession(s)' = {tok}, tok.sid = s, tok.gen = 0, tok.nbf = tm'.high, tm'.high <= tm'.floor,
           tm'.reg[s] # NoSession, tm'.reg[s].user = tok.user, tm'.reg[s].exp = tok.exp,
           tm'.reg[s].next = 0, (s \in ended') = (s \in ended)
    PROVE  SessionKept(s)'
<1>1. sessFile'.reg = tm'.reg /\ sessFile'.floor = tm'.floor /\ tm'.high \in Nat
  BY ForwardFacts
<1>2. s \notin ended
  BY DEF AuthInv, SessionsKept, SessionKept
<1>3. TokenKept(tok)'
  BY <1>1, <1>2 DEF TokenKept, Past
<1> QED BY <1>1, <1>2, <1>3 DEF SessionKept, Topped

LEMMA GenerateStep == ASSUME AuthInv, NEW r \in AuthCalls, GenerateTokenPair(r) PROVE AuthInv'
<1> DEFINE t == CleanupExpired(Clocked)
           exp == t.high + RefreshTTL
<1>1. /\ authUp /\ authUp' /\ call[r].at = "login" /\ Answer(r) /\ wall' = wall /\ UNCHANGED acctVars
      /\ adminCall' = adminCall /\ seen' = seen /\ UNCHANGED endVars
  BY DEF GenerateTokenPair
<1>2. /\ t \in Managers /\ t.high = EffectiveNow /\ t.floor = tm.floor
      /\ \A s \in SessionIds :
          \/ t.reg[s] = tm.reg[s]
          \/ t.reg[s] = NoSession /\ tm.reg[s] # NoSession /\ tm.reg[s].exp <= EffectiveNow
  BY CleanedFacts
<1>3. issued \subseteq Pairs /\ AuthTypes /\ EffectiveNow \in Nat
  BY NowFacts DEF AuthInv, AuthTypes
<1>4. CASE tm' = Clocked /\ since' = 0 /\ UNCHANGED <<sessFile, sessKept, authBound, issued>>
  <2>1. Forward /\ \A s \in SessionIds : Weeded(s)
    BY <1>1, <1>4, StayFacts
  <2>2. \A s \in SessionIds : OfSession(s)' = OfSession(s)
    BY <1>4 DEF OfSession
  <2>3. \A s \in SessionIds : SessionKept(s)'
    BY <2>1, <2>2, <1>1, WeededKept DEF endVars
  <2>4. call' \in [AuthCalls -> Calls] /\ CallsKept'
    BY <1>1, <1>4, <2>1, ForwardCalls, CallMoves, RestingKept DEF Answer
  <2> QED BY <1>1, <1>3, <1>4, <2>1, <2>3, <2>4, ManagerStep DEF AuthInv, AuthTypes, endVars
<1>5. ASSUME NEW s \in SessionIds, NEW o \in Saves, OfSession(s) = {},
             PersistSessions(Clocked,
                 ExtendLease([t EXCEPT !.reg[s] = [user |-> call[r].user, exp |-> exp, next |-> 0,
                                                   rot |-> t.high - RotationInterval]]), o),
             issued' = IF o = "fail" THEN issued
                       ELSE issued \cup {Pair(call[r].user, s, exp, 0, call[r].ver, t.high)}
      PROVE  AuthInv'
  <2>1. call[r].user \in Accounts /\ call[r].ver \in Nat
    BY <1>1, Carried
  <2>2. PICK rec : rec = [user |-> call[r].user, exp |-> exp, next |-> 0, rot |-> t.high - RotationInterval]
    OBVIOUS
  <2>3. PICK tok : tok = Pair(call[r].user, s, exp, 0, call[r].ver, t.high)
    OBVIOUS
  <2>4. exp \in Int /\ t.high \in Nat /\ t.high - RotationInterval \in Int
    BY <1>2, <1>3, AuthAssumption
  <2>5. rec \in SessionRecords /\ rec # NoSession
    BY <2>1, <2>2, <2>4, AuthAssumption DEF SessionRecords
  <2>6. /\ tok \in Pairs /\ tok.sid = s /\ tok.user = rec.user /\ tok.exp = rec.exp /\ tok.gen = 0
        /\ tok.nbf = t.high /\ rec.next = 0
    BY <2>1, <2>2, <2>3, <2>4, PairTyped
  <2>7. PICK n : n = [t EXCEPT !.reg[s] = rec]
    OBVIOUS
  <2>8. PersistSessions(Clocked, ExtendLease(n), o) /\ issued' = IF o = "fail" THEN issued ELSE issued \cup {tok}
    BY <1>5, <2>2, <2>3, <2>7
  <2> HIDE DEF t, exp
  <2>9. n \in Managers /\ n.high = t.high /\ n.floor = t.floor
        /\ \A x \in SessionIds : n.reg[x] = IF x = s THEN rec ELSE t.reg[x]
    BY <1>2, <2>5, <2>7 DEF Managers, Registries
  <2>10. /\ ExtendLease(n) \in Managers /\ ExtendLease(n).high = EffectiveNow
         /\ ExtendLease(n).floor >= tm.floor /\ ExtendLease(n).floor >= EffectiveNow
         /\ ExtendLease(n).reg = n.reg
    BY <2>9, <1>2, LeaseFacts
  <2>11. /\ Forward /\ (o = "fail" => \A x \in SessionIds : Weeded(x))
         /\ (o # "fail" => tm' = ExtendLease(n))
    BY <1>1, <2>8, <2>10, PersistFacts
  <2>12. \A x \in SessionIds : x # s \/ o = "fail" => OfSession(x)' = OfSession(x)
    BY <2>6, <2>8 DEF OfSession
  <2>13. ASSUME NEW x \in SessionIds
         PROVE  SessionKept(x)'
    <3>1. CASE o = "fail"
      BY <3>1, <2>11, <2>12, <1>1, WeededKept DEF endVars
    <3>2. CASE o # "fail" /\ x # s
      <4>1. tm'.reg[x] = t.reg[x] /\ tm'.floor >= EffectiveNow /\ tm'.high = EffectiveNow /\ tm'.floor \in Nat
        BY <3>2, <2>9, <2>10, <2>11 DEF Managers
      <4>2. tm.reg[x] # NoSession => tm.reg[x].exp \in Int
        BY <1>3 DEF AuthTypes, Registries, SessionRecords
      <4>3. Weeded(x)
        BY <4>1, <4>2, <1>2, <1>3 DEF Weeded
      <4> QED BY <3>2, <4>3, <2>11, <2>12, <1>1, WeededKept DEF endVars
    <3>3. CASE o # "fail" /\ x = s
      <4>1. tm'.reg[s] = rec /\ tm'.high = t.high /\ tm'.high <= tm'.floor
        BY <3>3, <1>2, <1>3, <2>9, <2>10, <2>11 DEF Managers
      <4>2. OfSession(s)' = {tok}
        BY <3>3, <1>5, <2>6, <2>8 DEF OfSession
      <4>3. (s \in ended') = (s \in ended)
        BY <1>1 DEF endVars
      <4> QED BY <3>3, <4>1, <4>2, <4>3, <1>5, <2>5, <2>6, <2>11, NewSessionKept
    <3> QED BY <3>1, <3>2, <3>3
  <2>14. issued \subseteq issued' /\ issued' \subseteq Pairs
    BY <2>6, <2>8, <1>3
  <2>15. call' \in [AuthCalls -> Calls] /\ CallsKept'
    BY <1>1, <2>11, <2>14, ForwardCalls, CallMoves, RestingKept DEF Answer
  <2> QED BY <1>1, <2>11, <2>13, <2>14, <2>15, ManagerStep DEF AuthInv, AuthTypes, endVars
<1> QED BY <1>4, <1>5 DEF GenerateTokenPair

\* A rotated session answers for its record with the token just given, or is
\* stranded.
LEMMA RotatedKept ==
    ASSUME AuthInv, Forward, NEW s \in SessionIds, NEW tok \in issued, NEW pr \in Pairs, NEW told \in BOOLEAN,
           tok.sid = s, pr.sid = s, pr.user = tok.user, pr.exp = tok.exp, pr.gen = tok.gen + 1,
           pr.nbf <= tm'.high, tm'.high <= tm'.floor,
           tm.reg[s] # NoSession, tm.reg[s].next = tok.gen, tm'.reg[s] # NoSession,
           tm'.reg[s].user = tm.reg[s].user, tm'.reg[s].exp = tm.reg[s].exp,
           tm.reg[s].user = tok.user, tm.reg[s].exp = tok.exp, tm'.reg[s].next = tok.gen + 1,
           issued' = IF told THEN issued \cup {pr} ELSE issued,
           stranded' = IF ~told THEN stranded \cup {s} ELSE stranded,
           ended' = ended, undone' = undone
    PROVE  SessionKept(s)'
<1>1. /\ authUp /\ authUp' /\ AuthTypes /\ SessionKept(s)
      /\ sessFile.reg = tm.reg /\ sessFile'.reg = tm'.reg /\ sessFile'.floor = tm'.floor
  BY UpFacts, ForwardFacts DEF AuthInv, Forward, SessionsKept
<1>2. \A x \in OfSession(s) : x.sid = s /\ x.exp \in Int /\ x.nbf \in Int /\ x.gen \in Int
  BY <1>1 DEF OfSession, AuthTypes, Pairs
<1>3. OfSession(s)' = IF told THEN OfSession(s) \cup {pr} ELSE OfSession(s)
  BY DEF OfSession
<1>4. tok \in OfSession(s) /\ tok.gen \in Int /\ pr.gen \in Int /\ pr.nbf \in Nat /\ pr.exp \in Int
  BY <1>2 DEF OfSession, Pairs
<1>5. Topped(s)'
  <2>1. PICK top \in OfSession(s) : \A x \in OfSession(s) : x.gen <= top.gen
    BY <1>1, <1>4 DEF SessionKept, Topped
  <2>2. top.gen \in Int
    BY <2>1, <1>2
  <2>3. CASE ~told
    BY <2>1, <2>3, <1>3 DEF Topped
  <2>4. CASE told /\ pr.gen <= top.gen
    BY <2>1, <2>4, <1>3 DEF Topped
  <2>5. CASE told /\ pr.gen > top.gen
    BY <2>1, <2>2, <2>5, <1>2, <1>3, <1>4 DEF Topped
  <2> QED BY <2>2, <2>3, <2>4, <2>5, <1>4
<1>6. ASSUME s \notin undone, NEW x \in OfSession(s)'
      PROVE  TokenKept(x)'
  <2>1. TokenKept(tok) /\ s \notin ended
    BY <1>1, <1>4, <1>6 DEF SessionKept, TokenKept
  <2>2. CASE x = pr
    BY <1>1, <1>4, <2>1, <2>2, ForwardFacts DEF TokenKept, Past
  <2>3. CASE x \in OfSession(s)
    <3>1. TokenKept(x) /\ x.sid = s
      BY <1>1, <1>2, <1>6, <2>3 DEF SessionKept
    <3>2. Past(x.nbf)'
      BY <3>1, <2>3, <1>1, <1>2, ForwardFacts DEF Past, TokenKept
    <3>3. x.gen <= tok.gen + 1
      BY <3>1, <2>3, <1>1, <1>2, <1>4 DEF TokenKept
    <3> QED BY <3>1, <3>2, <3>3, <2>1, <1>1 DEF TokenKept
  <2> QED BY <2>2, <2>3, <1>3
<1>7. s \notin stranded' => pr \in OfSession(s)'
  BY <1>3
<1>8. OfSession(s)' # {}
  BY <1>3, <1>4
<1> QED BY <1>1, <1>5, <1>6, <1>7, <1>8 DEF SessionKept

LEMMA ConsumeStep == ASSUME AuthInv, NEW r \in AuthCalls, RefreshConsume(r) PROVE AuthInv'
<1>1. /\ authUp /\ authUp' /\ call[r].at = "consume" /\ wall' = wall /\ UNCHANGED acctVars
      /\ adminCall' = adminCall
  BY DEF RefreshConsume
<1>2. PICK tok \in issued : tok = call[r].tok /\ tok \in Pairs
  BY <1>1, Carried
<1>3. PICK pr \in Pairs : pr = call[r].pair
  BY <1>1, Carried
<1>4. /\ pr.sid = tok.sid /\ pr.user = tok.user /\ pr.exp = tok.exp /\ pr.gen = tok.gen + 1
      /\ pr.nbf <= tm.high
  BY <1>1, <1>2, <1>3, Carried DEF CallKept
<1>5. AuthTypes /\ issued \subseteq Pairs /\ EffectiveNow \in Nat /\ tok.sid \in SessionIds /\ pr.nbf \in Nat
      /\ tok.gen \in Nat
  BY <1>2, <1>3, NowFacts DEF AuthInv, AuthTypes, Pairs
<1>6. CASE /\ tm' = Clocked /\ since' = 0 /\ UNCHANGED <<sessFile, sessKept, authBound, authHist>>
           /\ Answer(r) \/ Proceed(r, [at |-> "reuse", tok |-> tok])
  <2>1. Forward /\ \A s \in SessionIds : Weeded(s)
    BY <1>1, <1>6, StayFacts
  <2>2. issued' = issued /\ UNCHANGED endVars /\ seen' = seen
    BY <1>6 DEF authHist
  <2>3. \A s \in SessionIds : OfSession(s)' = OfSession(s)
    BY <2>2 DEF OfSession
  <2>4. \A s \in SessionIds : SessionKept(s)'
    BY <2>1, <2>2, <2>3, WeededKept DEF endVars
  <2>5. call' \in [AuthCalls -> Calls] /\ CallsKept'
    <3>1. CASE Answer(r)
      BY <3>1, <2>1, <2>2, ForwardCalls, CallMoves, RestingKept DEF Answer
    <3>2. CASE Proceed(r, [at |-> "reuse", tok |-> tok])
      BY <3>2, <2>1, <2>2, ForwardCalls, CallMoves, TokenCall DEF Proceed
    <3> QED BY <1>6, <3>1, <3>2
  <2> QED BY <1>1, <1>5, <2>1, <2>2, <2>4, <2>5, ManagerStep DEF AuthInv, AuthTypes, endVars
<1>7. ASSUME NEW o \in Saves, NEW told \in BOOLEAN, ValidRefresh(Clocked, tok),
             Consume(Clocked, ExtendLease([Clocked EXCEPT !.reg[tok.sid].next = tok.gen + 1,
                                                          !.reg[tok.sid].rot = Clocked.high]), o),
             o = "fail" => ~told, issued' = IF told THEN issued \cup {pr} ELSE issued,
             stranded' = IF ~told /\ o # "fail" THEN stranded \cup {tok.sid} ELSE stranded,
             Answer(r), UNCHANGED <<seen, ended, staleVer, undone>>
      PROVE  AuthInv'
  <2>1. PICK s \in SessionIds : s = tok.sid
    BY <1>5
  <2>2. /\ Clocked \in Managers /\ Clocked.high = EffectiveNow /\ Clocked.reg = tm.reg
        /\ Clocked.floor = tm.floor
    BY <1>5, ClockedFacts
  <2>3. /\ tm.reg[s] # NoSession /\ tm.reg[s].user = tok.user /\ tm.reg[s].exp = tok.exp
        /\ tm.reg[s].next = tok.gen /\ tm.reg[s] \in SessionRecords
    BY <1>5, <1>7, <2>1, <2>2 DEF ValidRefresh, ValidFamily, Tracked, AuthTypes, Registries
  <2>4. PICK c \in Managers : c = Clocked
    BY <2>2
  <2>5. PICK n : n = [c EXCEPT !.reg[s].next = tok.gen + 1, !.reg[s].rot = c.high]
    OBVIOUS
  <2>6. PICK rec : rec = [tm.reg[s] EXCEPT !.next = tok.gen + 1, !.rot = c.high]
    OBVIOUS
  <2>17. c.high \in Int /\ tok.gen + 1 \in Nat
    BY <1>5, <2>4 DEF Managers
  <2>18. /\ rec \in SessionRecords /\ rec.user = tok.user /\ rec.exp = tok.exp /\ rec.next = tok.gen + 1
    BY <2>3, <2>6, <2>17 DEF SessionRecords
  <2>7. /\ rec \in SessionRecords /\ rec.user = tok.user /\ rec.exp = tok.exp /\ rec.next = tok.gen + 1
        /\ rec # NoSession
    BY <2>18, AuthAssumption
  <2>8. n = [c EXCEPT !.reg = [c.reg EXCEPT ![s] = rec]]
    BY <2>2, <2>3, <2>4, <2>5, <2>6 DEF Managers, Registries, SessionRecords
  <2>9. /\ n \in Managers /\ n.high = EffectiveNow /\ n.floor = tm.floor
        /\ \A x \in SessionIds : n.reg[x] = IF x = s THEN rec ELSE tm.reg[x]
    BY <2>2, <2>4, <2>7, <2>8 DEF Managers, Registries
  <2>10. /\ ExtendLease(n) \in Managers /\ ExtendLease(n).high = EffectiveNow
         /\ ExtendLease(n).floor >= tm.floor /\ ExtendLease(n).floor >= EffectiveNow
         /\ ExtendLease(n).reg = n.reg
    BY <2>9, LeaseFacts
  <2>11. PersistSessions(Clocked, ExtendLease(n), o)
    BY <1>7, <2>1, <2>4, <2>5 DEF Consume
  <2>12. /\ Forward /\ (o = "fail" => \A x \in SessionIds : Weeded(x))
         /\ (o # "fail" => tm' = ExtendLease(n))
    BY <1>1, <2>10, <2>11, PersistFacts
  <2>13. \A x \in SessionIds : x # s \/ o = "fail" => OfSession(x)' = OfSession(x)
    BY <1>4, <1>7, <2>1 DEF OfSession
  <2>14. ASSUME NEW x \in SessionIds
         PROVE  SessionKept(x)'
    <3>1. CASE x # s \/ o = "fail"
      <4>1. Weeded(x)
        BY <3>1, <2>9, <2>10, <2>12 DEF Weeded
      <4>2. (x \in ended') = (x \in ended) /\ (x \in stranded => x \in stranded') /\ undone' = undone
        BY <1>7
      <4> QED BY <3>1, <4>1, <4>2, <2>12, <2>13, WeededKept
    <3>2. CASE x = s /\ o # "fail"
      <4>1. /\ tm'.reg[s] = rec /\ tm'.high = EffectiveNow /\ tm'.high <= tm'.floor /\ pr.nbf <= tm'.high
        BY <3>2, <1>4, <1>5, <2>9, <2>10, <2>12, ForwardFacts DEF Managers
      <4> QED BY <3>2, <4>1, <1>4, <1>7, <2>1, <2>3, <2>7, <2>12, RotatedKept
    <3> QED BY <3>1, <3>2
  <2>15. issued \subseteq issued' /\ issued' \subseteq Pairs /\ stranded' \subseteq SessionIds
    BY <1>5, <1>7 DEF AuthTypes
  <2>16. call' \in [AuthCalls -> Calls] /\ CallsKept'
    BY <1>7, <2>12, <2>15, ForwardCalls, CallMoves, RestingKept DEF Answer
  <2> QED BY <1>1, <1>7, <2>12, <2>14, <2>15, <2>16, ManagerStep DEF AuthInv, AuthTypes
<1> QED BY <1>2, <1>3, <1>6, <1>7 DEF RefreshConsume

-----------------------------------------------------------------------------
(* Steps that leave the registry alone.                                     *)

\* A step that leaves the registry and its file alone keeps the sessions.
LEMMA RegistryStays ==
    ASSUME AuthInv, UNCHANGED sessVars, authUp' = authUp, issued' = issued, seen' = seen,
           ended' = ended, stranded' = stranded, undone' = undone
    PROVE  TimeKept' /\ SessionsKept'
<1>1. TimeKept'
  BY DEF AuthInv, TimeKept, sessVars
<1>2. ASSUME NEW s \in SessionIds PROVE SessionKept(s)'
  <2>1. SessionKept(s)
    BY DEF AuthInv, SessionsKept
  <2> QED BY <2>1 DEF SessionKept, Topped, OfSession, TokenKept, Past, sessVars
<1> QED BY <1>1, <1>2 DEF SessionsKept

\* A request of its own moves on while the registry stays.
LEMMA CallsAlone ==
    ASSUME AuthInv, UNCHANGED sessVars, authUp' = authUp, issued' = issued
    PROVE  issued \subseteq issued' /\ (authUp => authUp' /\ tm'.high >= tm.high) /\ tm'.high \in Nat
<1>1. tm.high \in Nat /\ tm' = tm
  BY DEF AuthInv, AuthTypes, sessVars
<1> QED BY <1>1

\* A change of the accounts reaches the file or leaves the accounts as they were.
LEMMA CommitFacts ==
    ASSUME AuthInv, authUp, NEW new \in AccountFiles, NEW o \in Saves, CommitUsers(new, o)
    PROVE  /\ accts' \in AccountFiles /\ acctKept' \in AccountFiles
           /\ accts' = acctFile' /\ acctFile' = IF o = "fail" THEN acctFile ELSE new
  BY UpFacts DEF CommitUsers, AuthInv, AuthTypes

LEMMA AuthenticateStep == ASSUME AuthInv, NEW r \in AuthCalls, Authenticate(r) PROVE AuthInv'
<1>1. PICK u \in Accounts, o \in Saves :
        /\ Enabled(u) /\ CommitUsers(accts, o)
        /\ IF o = "fail" THEN UNCHANGED call
           ELSE Proceed(r, [at |-> "login", user |-> u, ver |-> accts[u].ver])
  BY DEF Authenticate
<1>2. /\ authUp /\ authUp' = authUp /\ UNCHANGED clockVars /\ UNCHANGED sessVars /\ adminCall' = adminCall
      /\ issued' = issued /\ seen' = seen /\ UNCHANGED endVars
  BY DEF Authenticate, Free, authHist
<1>3. /\ ended' = ended /\ stranded' = stranded /\ undone' = undone /\ staleVer' = staleVer
      /\ wall' = wall /\ since' = since /\ tm' = tm /\ sessFile' = sessFile /\ sessKept' = sessKept
  BY <1>2 DEF endVars, clockVars, sessVars
<1>4. accts \in AccountFiles /\ accts = acctFile
  BY <1>2, UpFacts DEF AuthInv, AuthTypes
<1>5. /\ accts' \in AccountFiles /\ acctKept' \in AccountFiles /\ accts' = acctFile' /\ acctFile' = acctFile
  BY <1>1, <1>2, <1>4, CommitFacts
<1>6. call' \in [AuthCalls -> Calls] /\ CallsKept'
  <2>1. CASE call' = call
    BY <2>1, <1>2, CallsAlone, CallsStay
  <2>2. CASE Proceed(r, [at |-> "login", user |-> u, ver |-> accts[u].ver])
    <3>1. PICK v : v = accts[u].ver
      OBVIOUS
    <3>2. v \in Nat
      BY <1>1, <1>4, <3>1 DEF AccountFiles, AccountRecords, Enabled, HasAccount
    <3>3. PICK c : c = [at |-> "login", user |-> u, ver |-> v]
      OBVIOUS
    <3>4. c \in Calls /\ CallKept(c)'
      BY <3>2, <3>3 DEF Calls, CallKept
    <3> QED BY <2>2, <3>1, <3>3, <3>4, <1>2, CallsAlone, CallMoves DEF Proceed
  <2> QED BY <1>1, <2>1, <2>2
<1>7. TimeKept' /\ SessionsKept'
  BY <1>2, <1>3, RegistryStays
<1>8. AuthTypes'
  BY <1>2, <1>3, <1>5, <1>6 DEF AuthInv, AuthTypes
<1>9. FilesFollow' /\ CredentialsKept'
  BY <1>2, <1>3, <1>5 DEF AuthInv, FilesFollow, CredentialsKept
<1> QED BY <1>6, <1>7, <1>8, <1>9 DEF AuthInv

LEMMA LookupStep == ASSUME AuthInv, NEW r \in AuthCalls, RefreshLookup(r) PROVE AuthInv'
<1>1. /\ authUp /\ authUp' = authUp /\ UNCHANGED clockVars /\ UNCHANGED sessVars /\ adminCall' = adminCall
      /\ issued' = issued /\ seen' = seen /\ UNCHANGED endVars /\ UNCHANGED acctVars
  BY DEF RefreshLookup, authHist
<1>2. PICK tok \in issued : tok = call[r].tok
  BY Carried DEF RefreshLookup
<1>3. Answer(r) \/ Proceed(r, [at |-> "pair", tok |-> tok])
  BY <1>2 DEF RefreshLookup
<1>4. call' \in [AuthCalls -> Calls] /\ CallsKept'
  <2>1. CASE Answer(r)
    BY <2>1, <1>1, CallsAlone, CallMoves, RestingKept DEF Answer
  <2>2. CASE Proceed(r, [at |-> "pair", tok |-> tok])
    BY <2>2, <1>1, CallsAlone, CallMoves, TokenCall DEF Proceed
  <2> QED BY <1>3, <2>1, <2>2
<1>5. TimeKept' /\ SessionsKept'
  BY <1>1, RegistryStays DEF endVars
<1>6. AuthTypes' /\ FilesFollow' /\ CredentialsKept'
  BY <1>1, <1>4 DEF AuthInv, AuthTypes, FilesFollow, CredentialsKept, clockVars, sessVars, endVars, acctVars
<1> QED BY <1>4, <1>5, <1>6 DEF AuthInv

\* A change of password or role leaves the old credential behind.
LEMMA ChangeStep ==
    ASSUME AuthInv, NEW u \in Accounts, NEW new \in AccountRecords \cup {NoSession}, NEW revokes \in BOOLEAN,
           new # NoSession => new.ver >= accts[u].ver, ChangeAccount(u, new, revokes)
    PROVE  AuthInv'
<1>1. PICK o \in Saves :
        /\ CommitUsers([accts EXCEPT ![u] = new], o)
        /\ adminCall' = IF revokes /\ o # "fail" THEN [at |-> "revoke", user |-> u] ELSE NoChange
        /\ staleVer' = IF o # "fail" /\ (new = NoSession \/ new.ver # accts[u].ver)
                       THEN [staleVer EXCEPT ![u] = accts[u].ver] ELSE staleVer
  BY DEF ChangeAccount
<1>2. /\ authUp /\ authUp' = authUp /\ UNCHANGED clockVars /\ UNCHANGED sessVars /\ call' = call
      /\ issued' = issued /\ seen' = seen /\ ended' = ended /\ stranded' = stranded /\ undone' = undone
      /\ HasAccount(u)
  BY DEF ChangeAccount
<1>3. accts \in AccountFiles /\ accts = acctFile /\ staleVer \in [Accounts -> Nat]
  BY <1>2, UpFacts DEF AuthInv, AuthTypes
<1>4. PICK file : file = [accts EXCEPT ![u] = new]
  OBVIOUS
<1>5. file \in AccountFiles
  BY <1>3, <1>4 DEF AccountFiles
<1>6. /\ accts' \in AccountFiles /\ acctKept' \in AccountFiles /\ accts' = acctFile'
      /\ acctFile' = IF o = "fail" THEN acctFile ELSE file
  BY <1>1, <1>2, <1>4, <1>5, CommitFacts
<1>7. accts[u].ver \in Nat
  BY <1>2, <1>3 DEF AccountFiles, AccountRecords, HasAccount
<1>8. staleVer' \in [Accounts -> Nat]
  BY <1>1, <1>3, <1>7
<1>9. CredentialsKept'
  <2>1. ASSUME NEW v \in Accounts, acctFile'[v] # NoSession
        PROVE  acctFile'[v].ver > staleVer'[v]
    <3>1. accts[v] # NoSession => accts[v].ver > staleVer[v]
      BY <1>3 DEF AuthInv, CredentialsKept
    <3>2. CASE o = "fail"
      BY <3>1, <3>2, <2>1, <1>1, <1>3, <1>6
    <3>3. CASE o # "fail" /\ v # u
      <4>1. acctFile'[v] = accts[v] /\ staleVer'[v] = staleVer[v]
        BY <3>3, <1>1, <1>3, <1>4, <1>6 DEF AccountFiles
      <4> QED BY <4>1, <3>1, <2>1
    <3>4. CASE o # "fail" /\ v = u
      <4>1. acctFile'[u] = new /\ new # NoSession
        BY <3>4, <2>1, <1>3, <1>4, <1>6 DEF AccountFiles
      <4>2. new.ver \in Nat /\ new.ver >= accts[u].ver
        BY <4>1 DEF AccountRecords
      <4>3. CASE new.ver = accts[u].ver
        <5>1. staleVer' = staleVer
          BY <4>1, <4>3, <1>1
        <5> QED BY <5>1, <4>1, <4>3, <3>1, <3>4, <1>2 DEF HasAccount
      <4>4. CASE new.ver # accts[u].ver
        <5>1. staleVer'[u] = accts[u].ver
          BY <4>4, <3>4, <1>1, <1>3
        <5> QED BY <5>1, <4>1, <4>2, <4>4, <3>4, <1>7
      <4> QED BY <4>3, <4>4
    <3> QED BY <3>2, <3>3, <3>4
  <2> QED BY <2>1 DEF CredentialsKept
<1>10. TimeKept' /\ SessionsKept'
  BY <1>2, RegistryStays
<1>11. call' \in [AuthCalls -> Calls] /\ CallsKept'
  BY <1>2, CallsAlone, CallsStay
<1>12. AuthTypes'
  BY <1>1, <1>2, <1>6, <1>8, <1>11 DEF AuthInv, AuthTypes, clockVars, sessVars
<1>13. FilesFollow'
  BY <1>2, <1>6 DEF AuthInv, FilesFollow, sessVars
<1> QED BY <1>9, <1>10, <1>11, <1>12, <1>13 DEF AuthInv

LEMMA AccountStep ==
    ASSUME AuthInv, NEW u \in Accounts,
           ChangePassword(u) \/ ResetUserPassword(u) \/ DeleteUser(u) \/ ToggleStatus(u)
    PROVE  AuthInv'
<1>1. HasAccount(u)
  BY DEF ChangePassword, ResetUserPassword, NewCredential, DeleteUser, ToggleStatus, ChangeAccount
<1>2. PICK a \in AccountRecords : a = accts[u]
  BY <1>1 DEF AuthInv, AuthTypes, AccountFiles, HasAccount
<1>3. CASE ChangePassword(u) \/ ResetUserPassword(u)
  <2>1. PICK new : new = [a EXCEPT !.ver = @ + 1]
    OBVIOUS
  <2>2. new \in AccountRecords /\ new.ver >= accts[u].ver
    BY <2>1, <1>2 DEF AccountRecords
  <2>3. ChangeAccount(u, new, TRUE)
    BY <1>2, <1>3, <2>1 DEF ChangePassword, ResetUserPassword, NewCredential
  <2> QED BY <2>2, <2>3, ChangeStep
<1>4. CASE DeleteUser(u)
  BY <1>4, ChangeStep DEF DeleteUser
<1>5. CASE ToggleStatus(u)
  <2>0. PICK b \in BOOLEAN : b = ~a.off
    OBVIOUS
  <2>1. PICK new : new = [a EXCEPT !.off = b]
    OBVIOUS
  <2>2. new \in AccountRecords /\ new.ver >= accts[u].ver
    BY <2>1, <1>2 DEF AccountRecords
  <2>3. ChangeAccount(u, new, ~a.off)
    BY <1>2, <1>5, <2>0, <2>1 DEF ToggleStatus
  <2>4. (~a.off) \in BOOLEAN
    OBVIOUS
  <2> QED BY <2>2, <2>3, <2>4, ChangeStep
<1> QED BY <1>3, <1>4, <1>5

LEMMA RevokeUserStep == ASSUME AuthInv, NEW u \in Accounts, RevokeUserSessions(u) PROVE AuthInv'
<1>1. /\ authUp' = authUp /\ UNCHANGED clockVars /\ UNCHANGED sessVars /\ call' = call
      /\ issued' = issued /\ seen' = seen /\ UNCHANGED endVars /\ UNCHANGED acctVars
      /\ adminCall' = [at |-> "revoke", user |-> u]
  BY DEF RevokeUserSessions, authHist
<1>2. TimeKept' /\ SessionsKept'
  BY <1>1, RegistryStays DEF endVars
<1>3. call' \in [AuthCalls -> Calls] /\ CallsKept'
  BY <1>1, CallsAlone, CallsStay
<1>4. AuthTypes' /\ FilesFollow' /\ CredentialsKept'
  BY <1>1, <1>3 DEF AuthInv, AuthTypes, FilesFollow, CredentialsKept, clockVars, sessVars, endVars, acctVars
<1> QED BY <1>2, <1>3, <1>4 DEF AuthInv

LEMMA ClockStep == ASSUME AuthInv, Pass \/ SetClockBack PROVE AuthInv'
<1>1. /\ authUp' = authUp /\ UNCHANGED sessVars /\ call' = call /\ adminCall' = adminCall
      /\ issued' = issued /\ seen' = seen /\ UNCHANGED endVars /\ UNCHANGED acctVars
      /\ wall' \in Nat /\ since' \in Nat
  BY DEF Pass, SetClockBack, authHist, AuthInv, AuthTypes
<1>2. TimeKept' /\ SessionsKept'
  BY <1>1, RegistryStays DEF endVars
<1>3. call' \in [AuthCalls -> Calls] /\ CallsKept'
  BY <1>1, CallsAlone, CallsStay
<1>4. AuthTypes' /\ FilesFollow' /\ CredentialsKept'
  BY <1>1, <1>3 DEF AuthInv, AuthTypes, FilesFollow, CredentialsKept, sessVars, endVars, acctVars
<1> QED BY <1>2, <1>3, <1>4 DEF AuthInv

-----------------------------------------------------------------------------
(* Crashes and starts.                                                      *)

\* A stop ends the requests and leaves the file to the next start.
LEMMA StopFacts ==
    ASSUME AuthInv, Stop
    PROVE  /\ authUp' = FALSE /\ since' \in Nat /\ wall' = wall /\ accts' = accts /\ issued' = issued
           /\ tm' \in [reg : Registries, floor : Nat, high : Nat]
           /\ call' \in [AuthCalls -> Calls] /\ CallsKept' /\ adminCall' = NoChange
<1>1. /\ authUp' = FALSE /\ since' = 0 /\ wall' = wall /\ accts' = accts /\ issued' = issued
      /\ call' = [r \in AuthCalls |-> Resting] /\ adminCall' = NoChange
      /\ tm' = [reg |-> [s \in SessionIds |-> NoSession], floor |-> 0, high |-> 0]
  BY DEF Stop
<1>2. [s \in SessionIds |-> NoSession] \in Registries
  BY DEF Registries
<1>3. tm' \in [reg : Registries, floor : Nat, high : Nat]
  BY <1>1, <1>2
<1>4. call' \in [AuthCalls -> Calls]
  BY <1>1, RestingKept
<1>5. ASSUME NEW r \in AuthCalls PROVE CallKept(call[r])'
  <2>1. call'[r].at = "idle"
    BY <1>1 DEF Resting
  <2> QED BY <2>1 DEF CallKept
<1> QED BY <1>1, <1>3, <1>4, <1>5 DEF CallsKept

LEMMA KilledStep == ASSUME AuthInv, AuthKilled PROVE AuthInv'
<1>1. /\ authUp' = FALSE /\ since' \in Nat /\ wall' = wall /\ accts' = accts /\ issued' = issued
      /\ tm' \in [reg : Registries, floor : Nat, high : Nat]
      /\ call' \in [AuthCalls -> Calls] /\ CallsKept' /\ adminCall' = NoChange
      /\ UNCHANGED <<sessFile, sessKept, acctFile, acctKept, seen, endVars>>
  BY StopFacts DEF AuthKilled
<1>2. AuthTypes' /\ FilesFollow' /\ CredentialsKept' /\ TimeKept'
  BY <1>1 DEF AuthInv, AuthTypes, FilesFollow, CredentialsKept, TimeKept, endVars
<1>3. ASSUME NEW s \in SessionIds PROVE SessionKept(s)'
  <2>1. SessionKept(s)
    BY DEF AuthInv, SessionsKept
  <2> QED BY <2>1, <1>1 DEF SessionKept, Topped, OfSession, TokenKept, Past, endVars
<1> QED BY <1>1, <1>2, <1>3 DEF AuthInv, SessionsKept

LEMMA PowerLossStep == ASSUME AuthInv, AuthPowerLoss PROVE AuthInv'
<1>1. /\ authUp' = FALSE /\ since' \in Nat /\ wall' = wall /\ accts' = accts /\ issued' = issued
      /\ tm' \in [reg : Registries, floor : Nat, high : Nat]
      /\ call' \in [AuthCalls -> Calls] /\ CallsKept' /\ adminCall' = NoChange
  BY StopFacts DEF AuthPowerLoss
<1>2. /\ sessFile' \in {sessFile, sessKept} /\ acctFile' \in {acctFile, acctKept}
      /\ sessKept' = sessFile' /\ acctKept' = acctFile'
      /\ undone' = undone \cup {s \in SessionIds : OfSession(s) # {}}
      /\ seen' = 0 /\ staleVer' = [u \in Accounts |-> 0] /\ ended' = ended /\ stranded' = stranded
  BY DEF AuthPowerLoss
<1>3. AuthTypes'
  BY <1>1, <1>2 DEF AuthInv, AuthTypes
<1>4. TimeKept' /\ FilesFollow'
  BY <1>1, <1>2, <1>3 DEF TimeKept, FilesFollow, AuthTypes, Images
<1>5. CredentialsKept'
  <2>1. acctFile' \in AccountFiles
    BY <1>3 DEF AuthTypes
  <2> QED BY <2>1, <1>2 DEF CredentialsKept, AccountFiles, AccountRecords
<1>6. ASSUME NEW s \in SessionIds PROVE SessionKept(s)'
  <2>1. SessionKept(s)
    BY DEF AuthInv, SessionsKept
  <2>2. OfSession(s)' = OfSession(s)
    BY <1>1 DEF OfSession
  <2>3. OfSession(s) # {} => s \in undone'
    BY <1>2
  <2> QED BY <2>1, <2>2, <2>3, <1>2 DEF SessionKept, Topped
<1> QED BY <1>1, <1>3, <1>4, <1>5, <1>6 DEF AuthInv, SessionsKept

LEMMA EnableStep == ASSUME AuthInv, EnableSessionPersistence PROVE AuthInv'
<1>1. /\ authUp = FALSE /\ accts' = acctFile /\ wall' = wall /\ acctFile' = acctFile /\ acctKept' = acctKept
      /\ call' = call /\ adminCall' = adminCall /\ issued' = issued /\ seen' = seen /\ UNCHANGED endVars
  BY DEF EnableSessionPersistence, authHist, AuthInv, AuthTypes
<1>2. PICK o \in Saves : /\ PersistSessions(tm, ExtendLease(CleanupExpired(LoadedState)), o)
                         /\ authUp' = (o # "fail")
  BY DEF EnableSessionPersistence
<1>3. AuthTypes
  BY DEF AuthInv
<1>4. /\ LoadedState \in Managers /\ LoadedState.reg = sessFile.reg /\ LoadedState.floor = sessFile.floor
      /\ LoadedState.high = EnableTime /\ EnableTime \in Nat /\ EnableTime >= sessFile.floor
  <2>1. sessFile.floor \in Nat /\ wall \in Nat /\ sessFile.reg \in Registries
    BY <1>3 DEF AuthTypes, Images
  <2>2. sessFile.floor \in Int /\ wall \in Int
    BY <2>1
  <2>3. LET m == Max({sessFile.floor, wall}) IN m \in {sessFile.floor, wall} /\ m >= sessFile.floor
    BY <2>2, MaxOfTwo
  <2>4. EnableTime \in Nat /\ EnableTime >= sessFile.floor
    BY <2>1, <2>3 DEF EnableTime
  <2> QED BY <2>1, <2>4 DEF LoadedState, Managers
<1> DEFINE c == CleanupExpired(LoadedState)
<1>5. /\ c \in Managers /\ c.high = EnableTime /\ c.floor = sessFile.floor
      /\ \A s \in SessionIds : c.reg[s] = IF Live(sessFile.reg[s], EnableTime) THEN sessFile.reg[s] ELSE NoSession
  BY <1>4, CleanFacts
<1>6. PICK t \in Managers : t = ExtendLease(c)
  BY <1>5, LeaseFacts
<1> HIDE DEF c
<1>7. t.high = EnableTime /\ t.reg = c.reg /\ t.floor >= sessFile.floor /\ t.floor >= EnableTime /\ t.floor \in Nat
  BY <1>5, <1>6, LeaseFacts DEF Managers
<1>8. call' \in [AuthCalls -> Calls]
  BY <1>1, <1>3 DEF AuthTypes
<1>9. CASE o = "fail"
  <2>1. /\ tm' = tm /\ since' = 0 /\ sessFile' = sessFile /\ sessKept' = sessKept /\ authUp' = FALSE
    BY <1>2, <1>9 DEF PersistSessions
  <2>2. AuthTypes' /\ FilesFollow' /\ CredentialsKept'
    BY <1>1, <1>3, <2>1 DEF AuthInv, AuthTypes, FilesFollow, CredentialsKept, endVars
  <2>3. TimeKept' /\ SessionsKept'
    BY <1>1, <2>1, RegistryStays DEF sessVars, endVars
  <2>4. CallsKept'
    BY <1>1, <2>1, CallsAlone, CallsStay DEF sessVars
  <2> QED BY <2>2, <2>3, <2>4 DEF AuthInv
<1>10. CASE o # "fail"
  <2>1. /\ tm' = t /\ since' = 0 /\ sessFile' = Image(t) /\ sessKept' \in {sessKept, Image(t)} /\ authUp' = TRUE
    BY <1>2, <1>6, <1>10 DEF PersistSessions, c
  <2>2. /\ Image(t) \in Images /\ sessFile'.reg = c.reg /\ sessFile'.floor = t.floor /\ tm'.high = EnableTime
    BY <1>7, <2>1, ImageFacts
  <2>3. AuthTypes'
    BY <1>1, <1>3, <2>1, <2>2 DEF AuthTypes, endVars, Managers
  <2>4. FilesFollow' /\ CredentialsKept'
    BY <1>1, <2>1 DEF AuthInv, FilesFollow, CredentialsKept, endVars
  <2>5. TimeKept'
    <3>1. seen \in Int /\ seen <= sessFile.floor /\ sessFile.floor \in Int
      BY <1>3 DEF AuthInv, TimeKept, AuthTypes, Images
    <3> QED BY <3>1, <1>1, <1>4, <1>7, <2>1, <2>2 DEF TimeKept
  <2>6. ASSUME NEW s \in SessionIds PROVE SessionKept(s)'
    <3>1. SessionKept(s) /\ sessFile.floor \in Nat
      BY <1>3 DEF AuthInv, SessionsKept, AuthTypes, Images
    <3>2. OfSession(s)' = OfSession(s)
      BY <1>1 DEF OfSession
    <3>3. \A tok \in OfSession(s) : tok.sid = s /\ tok.exp \in Int /\ tok.nbf \in Int /\ tok.gen \in Int
      BY <1>3 DEF OfSession, AuthTypes, Pairs
    <3>4. sessFile.reg[s] # NoSession => sessFile.reg[s].exp \in Int
      BY <1>3 DEF AuthTypes, Images, Registries, SessionRecords
    <3>5. \/ sessFile'.reg[s] = sessFile.reg[s]
          \/ sessFile'.reg[s] = NoSession /\ sessFile.reg[s] # NoSession /\ sessFile.reg[s].exp <= EnableTime
      BY <1>4, <1>5, <2>2, <3>4 DEF Live
    <3>6. sessKept'.reg[s] \in {sessKept.reg[s], sessFile'.reg[s]}
      BY <2>1
    <3>7. ASSUME s \notin undone, NEW tok \in OfSession(s)
          PROVE  TokenKept(tok)'
      <4>1. TokenKept(tok) /\ tok.sid = s
        BY <3>1, <3>3, <3>7 DEF SessionKept
      <4>2. \A n \in Int : n <= sessFile.floor \/ n <= EnableTime => Past(n)'
        BY <1>4, <1>7, <2>1, <2>2, <3>1 DEF Past
      <4>3. Past(tok.nbf)' /\ (Past(tok.exp) => Past(tok.exp)')
        BY <4>1, <4>2, <3>3 DEF TokenKept, Past
      <4>4. sessFile'.reg[s] = NoSession /\ sessFile.reg[s] # NoSession => Past(tok.exp)'
        BY <4>1, <4>2, <3>3, <3>5 DEF TokenKept
      <4> QED BY <4>1, <4>3, <4>4, <3>5, <1>1 DEF TokenKept, endVars
    <3> QED BY <3>1, <3>2, <3>5, <3>6, <3>7, <1>1 DEF SessionKept, Topped, endVars
  <2>7. CallsKept'
    <3>1. ASSUME NEW r \in AuthCalls PROVE CallKept(call[r])'
      <4>1. CallKept(call[r])
        BY DEF AuthInv, CallsKept
      <4> QED BY <4>1, <1>1 DEF CallKept
    <3> QED BY <3>1 DEF CallsKept
  <2> QED BY <2>3, <2>4, <2>5, <2>6, <2>7 DEF AuthInv, SessionsKept
<1> QED BY <1>9, <1>10

LEMMA AuthInitial == AuthInit => AuthInv
<1> SUFFICES ASSUME AuthInit PROVE AuthInv
  OBVIOUS
<1>1. /\ wall = 0 /\ since = 0 /\ authUp = FALSE /\ issued = {} /\ seen = 0 /\ ended = {} /\ stranded = {}
      /\ undone = {} /\ staleVer = [u \in Accounts |-> 0] /\ call = [r \in AuthCalls |-> Resting]
      /\ adminCall = NoChange
  BY DEF AuthInit
<1>2. [s \in SessionIds |-> NoSession] \in Registries
  BY DEF Registries
<1>3. /\ tm \in [reg : Registries, floor : Nat, high : Nat] /\ sessFile \in Images /\ sessKept = sessFile
      /\ sessFile.floor = 0 /\ \A s \in SessionIds : sessFile.reg[s] = NoSession
  BY <1>2 DEF AuthInit, Images
<1>4. /\ accts \in AccountFiles /\ acctFile = accts /\ acctKept = accts
      /\ \A u \in Accounts : accts[u].ver = 1
  BY DEF AuthInit, AccountFiles, AccountRecords
<1>5. AuthTypes
  BY <1>1, <1>3, <1>4, RestingKept DEF AuthTypes
<1>6. FilesFollow /\ TimeKept /\ CredentialsKept
  BY <1>1, <1>3, <1>4 DEF FilesFollow, TimeKept, CredentialsKept
<1>7. SessionsKept
  BY <1>1, <1>3 DEF SessionsKept, SessionKept, OfSession
<1>8. CallsKept
  BY <1>1 DEF CallsKept, CallKept, Resting
<1> QED BY <1>5, <1>6, <1>7, <1>8 DEF AuthInv

LEMMA AuthStepKept == AuthInv /\ [AuthNext]_authVars => AuthInv'
<1> SUFFICES ASSUME AuthInv, [AuthNext]_authVars PROVE AuthInv'
  OBVIOUS
<1>1. CASE UNCHANGED authVars
  <2>1. UNCHANGED <<clockVars, sessVars, acctVars, call, adminCall, authUp, authHist, authBound, authOps>>
    BY <1>1 DEF authVars
  <2>2. /\ authUp' = authUp /\ UNCHANGED sessVars /\ UNCHANGED clockVars /\ UNCHANGED acctVars /\ call' = call
        /\ adminCall' = adminCall /\ issued' = issued /\ seen' = seen /\ UNCHANGED endVars
    BY <2>1 DEF authHist
  <2>3. TimeKept' /\ SessionsKept'
    BY <2>2, RegistryStays DEF endVars
  <2>4. call' \in [AuthCalls -> Calls] /\ CallsKept'
    BY <2>2, CallsAlone, CallsStay
  <2>5. AuthTypes' /\ FilesFollow' /\ CredentialsKept'
    BY <2>2, <2>4 DEF AuthInv, AuthTypes, FilesFollow, CredentialsKept, clockVars, sessVars, endVars, acctVars
  <2> QED BY <2>3, <2>4, <2>5 DEF AuthInv
<1>2. CASE AuthStart
  BY <1>2, AuthenticateStep, RefreshValidateStep, LogoutParseStep, AccountStep, RevokeUserStep, RequireAuthStep
  DEF AuthStart
<1>3. CASE AuthStep
  BY <1>3, GenerateStep, LookupStep, RefreshPairStep, ConsumeStep, EndCallStep, RevokeByUserStep, ClockStep,
     KilledStep, PowerLossStep, EnableStep
  DEF AuthStep
<1> QED BY <1>1, <1>2, <1>3 DEF AuthNext

\* A session with a token has a newest one.
LEMMA NewestFacts ==
    ASSUME AuthInv, NEW s \in SessionIds, OfSession(s) # {}
    PROVE  Newest(s) \in OfSession(s) /\ \A x \in OfSession(s) : x.gen <= Newest(s).gen
<1>1. Topped(s)
  BY DEF AuthInv, SessionsKept, SessionKept
<1> QED BY <1>1 DEF Topped, Newest

\* What was ended is refused.
LEMMA InvRefuses == AuthInv => RefusedForGood
<1> SUFFICES ASSUME AuthInv, authUp PROVE /\ seen <= EffectiveNow
        /\ \A tok \in issued : tok.sid \notin undone =>
            /\ tok.sid \in ended \/ tok.ver <= staleVer[tok.user]
                  => ~Accepts("access", tok) /\ ~Accepts("refresh", tok)
            /\ tok.gen < Newest(tok.sid).gen => ~Accepts("refresh", tok)
  BY DEF RefusedForGood
<1>1. AuthTypes /\ sessFile.reg = tm.reg /\ accts = acctFile /\ EffectiveNow \in Nat /\ EffectiveNow >= tm.high
  BY UpFacts, NowFacts DEF AuthInv
<1>2. seen <= EffectiveNow
  BY <1>1 DEF AuthInv, TimeKept, AuthTypes
<1>3. ASSUME NEW tok \in issued, tok.sid \notin undone
      PROVE  /\ tok.sid \in ended \/ tok.ver <= staleVer[tok.user]
                  => ~Accepts("access", tok) /\ ~Accepts("refresh", tok)
             /\ tok.gen < Newest(tok.sid).gen => ~Accepts("refresh", tok)
  <2>1. /\ tok.sid \in SessionIds /\ tok.user \in Accounts /\ tok.gen \in Int /\ tok.ver \in Int
        /\ tok \in OfSession(tok.sid)
    BY <1>1 DEF AuthTypes, Pairs, OfSession
  <2>2. TokenKept(tok)
    BY <2>1, <1>3 DEF AuthInv, SessionsKept, SessionKept
  <2>3. Clocked.reg = tm.reg
    BY <1>1, ClockedFacts
  <2>4. tok.sid \in ended => tm.reg[tok.sid] = NoSession
    BY <2>2, <1>1 DEF TokenKept
  <2>5. tok.sid \in ended => ~Accepts("access", tok) /\ ~Accepts("refresh", tok)
    BY <2>3, <2>4 DEF Accepts, ValidAccess, ValidRefresh, ValidFamily, Tracked
  <2>6. tok.ver <= staleVer[tok.user] => ~SameCredential(tok)
    <3>1. SUFFICES ASSUME HasAccount(tok.user) PROVE accts[tok.user].ver > staleVer[tok.user]
      BY <2>1, <1>1 DEF SameCredential, AuthTypes
    <3> QED BY <3>1, <2>1, <1>1 DEF HasAccount, AuthInv, CredentialsKept
  <2>7. ASSUME Accepts("refresh", tok), tok.gen < Newest(tok.sid).gen
        PROVE  FALSE
    <3>1. tm.reg[tok.sid] # NoSession /\ tok.gen = tm.reg[tok.sid].next
      BY <2>3, <2>7 DEF Accepts, ValidRefresh, ValidFamily, Tracked
    <3>2. Newest(tok.sid) \in OfSession(tok.sid)
      BY <2>1, NewestFacts
    <3>3. PICK top \in OfSession(tok.sid) : top = Newest(tok.sid)
      BY <3>2
    <3>4. TokenKept(top) /\ top.sid = tok.sid /\ top.gen \in Int
      BY <2>1, <3>3, <1>1, <1>3 DEF AuthInv, SessionsKept, SessionKept, OfSession, AuthTypes, Pairs
    <3>5. top.gen <= tok.gen
      BY <3>1, <3>4, <1>1 DEF TokenKept
    <3> QED BY <3>3, <3>4, <3>5, <2>1, <2>7
  <2> QED BY <2>5, <2>6, <2>7 DEF Accepts
<1> QED BY <1>2, <1>3

\* What was granted last works.
LEMMA InvGrants == AuthInv => NewestWorks
<1> SUFFICES ASSUME AuthInv, authUp, NEW s \in SessionIds \ (stranded \cup undone \cup ended),
                    OfSession(s) # {}
             PROVE  LET tok == Newest(s)
                    IN  \/ tok.exp <= EffectiveNow \/ ~Enabled(tok.user) \/ ~SameCredential(tok)
                        \/ Accepts("refresh", tok)
  BY DEF NewestWorks
<1>1. PICK tok \in OfSession(s) : tok = Newest(s) /\ \A x \in OfSession(s) : x.gen <= tok.gen
  BY NewestFacts
<1>2. AuthTypes /\ sessFile.reg = tm.reg /\ EffectiveNow \in Nat /\ EffectiveNow >= tm.high /\ tm.high \in Nat
  BY UpFacts, NowFacts DEF AuthInv, AuthTypes
<1>3. TokenKept(tok) /\ tok.sid = s /\ tok.exp \in Int /\ tok.nbf \in Int /\ tok.gen \in Int
  BY <1>1, <1>2 DEF AuthInv, SessionsKept, SessionKept, OfSession, AuthTypes, Pairs
<1>4. Clocked.reg = tm.reg /\ Clocked.high = EffectiveNow
  BY <1>2, ClockedFacts
<1>5. tok.nbf <= EffectiveNow
  BY <1>2, <1>3 DEF TokenKept, Past
<1>6. ASSUME tok.exp > EffectiveNow, Enabled(tok.user), SameCredential(tok)
      PROVE  Accepts("refresh", tok)
  <2>1. tm.reg[s] # NoSession
    BY <1>2, <1>3, <1>6 DEF TokenKept, Past
  <2>2. tm.reg[s].user = tok.user /\ tm.reg[s].exp = tok.exp /\ tok.gen <= tm.reg[s].next
    BY <1>2, <1>3, <2>1 DEF TokenKept
  <2>3. PICK x \in OfSession(s) : x.gen = tm.reg[s].next
    BY <1>2, <2>1 DEF AuthInv, SessionsKept, SessionKept
  <2>4. x.gen \in Int
    BY <1>2 DEF OfSession, AuthTypes, Pairs
  <2>5. tok.gen = tm.reg[s].next
    BY <1>1, <1>3, <2>2, <2>3, <2>4
  <2> QED BY <1>3, <1>4, <1>5, <1>6, <2>1, <2>2, <2>5
          DEF Accepts, ValidRefresh, ValidFamily, InTime, Tracked
<1> QED BY <1>1, <1>2, <1>3, <1>6

\* A token whose session, password or account was ended, or that has expired, is never
\* accepted again, nor a refresh token once the client has its successor, and the newest
\* refresh token works until its session ends, over concurrent refreshes and logouts,
\* account changes, failed writes of auth-sessions.json, crashes and a wall clock that is
\* set back (TokenManager, UserStore, Handler).
THEOREM SessionsStayHonest == AuthSpec => []SessionsHonest
<1>1. AuthInv => SessionsHonest
  BY InvRefuses, InvGrants DEF SessionsHonest
<1> QED BY <1>1, AuthInitial, AuthStepKept, PTL DEF AuthSpec
=============================================================================
