-------------------------- MODULE TrashParticipant --------------------------
(***************************************************************************)
(* What shares and favorites do when a path goes to Trash, comes back or   *)
(* is purged (share/trash_*_operations.go, the trash operations of         *)
(* favorites.go).  Each store keeps, beside its entries, a marker for every*)
(* delete operation (`del`) and a receipt for every restore (`rest`), and  *)
(* persists all of it as one file.  The operators map a store to the       *)
(* outcome of one call: `err` is a hard conflict, `st` the store to        *)
(* persist.                                                                *)
(***************************************************************************)
EXTENDS Naturals, Functions

CONSTANT NoShare

Fine(s) == [err |-> FALSE, st |-> s]
Conflict(s) == [err |-> TRUE, st |-> s]
Without(f, x) == Restrict(f, DOMAIN f \ {x})
Including(f, x, v) == [y \in DOMAIN f \cup {x} |-> IF y = x THEN v ELSE f[y]]

\* A marker: the plan, what the operation really took, what it may not give back.
Marker(planned, changed) ==
    [planned |-> planned, changed |-> changed, blocked |-> {},
     committed |-> FALSE, completed |-> FALSE]

SameGeneration(a, b) == a # NoShare /\ b # NoShare /\ a.gen = b.gen

-----------------------------------------------------------------------------
(* Calls both stores have                                                   *)

\* A committed marker becomes completed; a missing one is only persisted again.
CompleteDelete(s, o) ==
    IF o \notin DOMAIN s.del THEN Fine(s)
    ELSE IF ~s.del[o].committed THEN Conflict(s)
    ELSE Fine([s EXCEPT !.del[o].completed = TRUE])

\* The purge of an item forgets what its deletion owned.
PurgeCompleted(s, o) ==
    IF o \notin DOMAIN s.del THEN Fine(s)
    ELSE IF ~s.del[o].completed \/ \E r \in DOMAIN s.rest : s.rest[r].op = o THEN Conflict(s)
    ELSE Fine([s EXCEPT !.del = Without(@, o)])

Owned(s, o, planned) ==
    o \in DOMAIN s.del /\ s.del[o].completed /\ s.del[o].planned = planned

\* Receipt and ownership go together.
CompleteRestore(s, r) ==
    IF r \notin DOMAIN s.rest THEN Fine(s)
    ELSE IF ~Owned(s, s.rest[r].op, s.rest[r].planned) THEN Conflict(s)
    ELSE Fine([s EXCEPT !.rest = Without(@, r), !.del = Without(@, s.rest[r].op)])

\* The part of a restore that precedes the change of entries.
RestoreVerdict(s, r, o, planned, dest) ==
    IF r \in DOMAIN s.rest
      THEN IF s.rest[r] = [op |-> o, planned |-> planned, dest |-> dest] /\ Owned(s, o, planned)
             THEN "replay" ELSE "conflict"
      ELSE IF Owned(s, o, planned) /\ \A x \in DOMAIN s.rest : s.rest[x].op # o
             THEN "apply" ELSE "conflict"

Receipt(s, r, o, planned, dest) ==
    [s EXCEPT !.rest = Including(@, r, [op |-> o, planned |-> planned, dest |-> dest])]

-----------------------------------------------------------------------------
(* Shares: a deletion disables them                                         *)

PlanShares(s, p) ==
    LET under == {x \in DOMAIN s.shares : s.shares[x] # NoShare /\ s.shares[x].on /\ s.shares[x].path = p}
    IN [x \in under |-> s.shares[x]]

\* An explicit change of a share outranks every older marker that took it.
BlockRestore(marks, x, latest) ==
    [o \in DOMAIN marks |->
        IF x \in DOMAIN marks[o].changed /\ SameGeneration(marks[o].changed[x], latest)
          THEN [marks[o] EXCEPT !.blocked = @ \cup {x}] ELSE marks[o]]

BlockRestores(marks, changed, except) ==
    [o \in DOMAIN marks |->
        IF o = except THEN marks[o]
        ELSE [marks[o] EXCEPT !.blocked = @ \cup
                {x \in DOMAIN changed : x \in DOMAIN marks[o].changed
                                        /\ SameGeneration(marks[o].changed[x], changed[x])}]]

MatchingPlan(s, planned) ==
    {x \in DOMAIN planned : s.shares[x] # NoShare /\ s.shares[x].on
                            /\ s.shares[x].path = planned[x].path}

\* Uncommitted markers of other operations lose what this one has taken for good.
ClearOwnership(marks, o, planned, shares) ==
    LET taken == {x \in DOMAIN planned : shares[x] # NoShare /\ ~shares[x].on
                                         /\ shares[x].path = planned[x].path}
        lost(m) == {x \in DOMAIN m.changed \cap taken : m.changed[x].path = planned[x].path}
    IN [a \in DOMAIN marks |->
          IF a = o \/ marks[a].committed THEN marks[a]
          ELSE [marks[a] EXCEPT !.changed = Restrict(@, DOMAIN @ \ lost(marks[a])),
                              !.blocked = @ \ lost(marks[a])]]

ApplyDeleteShares(s, o, planned, committed) ==
    LET known == o \in DOMAIN s.del
        hit == MatchingPlan(s, planned)
        changed == [x \in hit |-> s.shares[x]]
        off == [x \in DOMAIN s.shares |->
                    IF x \in hit THEN [s.shares[x] EXCEPT !.on = FALSE] ELSE s.shares[x]]
        mark == IF known THEN s.del[o] ELSE Marker(planned, changed)
        marks == Including(BlockRestores(s.del, changed, o), o, [mark EXCEPT !.committed = committed])
    IN IF known /\ s.del[o].planned # planned THEN Conflict(s)
       ELSE IF known /\ (~committed \/ s.del[o].committed) THEN Fine(s)
       ELSE Fine([s EXCEPT !.shares = off,
                           !.del = IF committed THEN ClearOwnership(marks, o, planned, off) ELSE marks])

OwnedByAnother(marks, o, x, cur) ==
    \E a \in DOMAIN marks \ {o} :
        /\ ~marks[a].committed /\ x \in DOMAIN marks[a].changed
        /\ marks[a].changed[x].path = cur.path /\ SameGeneration(cur, marks[a].changed[x])

\* Variant: an edit made since the deletion is not looked at.
StillMineUnblocked(s, o, x) ==
    LET m == s.del[o] IN
    /\ x \in DOMAIN m.changed
    /\ s.shares[x] # NoShare /\ ~s.shares[x].on
    /\ s.shares[x].path = m.changed[x].path /\ SameGeneration(s.shares[x], m.changed[x])

\* The share is as this operation left it and nobody has spoken since.
StillMine(s, o, x) ==
    LET m == s.del[o] IN
    /\ x \in DOMAIN m.changed /\ x \notin m.blocked
    /\ s.shares[x] # NoShare /\ ~s.shares[x].on
    /\ s.shares[x].path = m.changed[x].path /\ SameGeneration(s.shares[x], m.changed[x])

RollbackDeleteShares(s, o) ==
    LET back == {x \in DOMAIN s.shares : StillMine(s, o, x) /\ ~OwnedByAnother(s.del, o, x, s.shares[x])}
    IN IF o \notin DOMAIN s.del THEN Fine(s)
       ELSE IF s.del[o].committed THEN Conflict(s)
       ELSE Fine([s EXCEPT
              !.shares = [x \in DOMAIN @ |-> IF x \in back THEN [@[x] EXCEPT !.on = TRUE] ELSE @[x]],
              !.del = Without(BlockRestores(@, Restrict(s.shares, back), o), o)])

ApplyRestoreShares(s, r, o, planned, dest) ==
    LET verdict == RestoreVerdict(s, r, o, planned, dest)
        back == {x \in DOMAIN planned : StillMine(s, o, x) /\ SameGeneration(planned[x], s.del[o].changed[x])}
    IN IF verdict = "conflict" THEN Conflict(s)
       ELSE IF verdict = "replay" THEN Fine(s)
       ELSE Fine([Receipt(s, r, o, planned, dest) EXCEPT
              !.shares = [x \in DOMAIN @ |->
                            IF x \in back THEN [@[x] EXCEPT !.on = TRUE, !.path = dest] ELSE @[x]]])

\* Update and Delete, the explicit changes.
UpdateShare(s, x, on) ==
    [s EXCEPT !.del = BlockRestore(@, x, s.shares[x]), !.shares[x].on = on]
DeleteShare(s, x) ==
    [s EXCEPT !.del = BlockRestore(@, x, s.shares[x]), !.shares[x] = NoShare]
CreateShare(s, x, p, gen) ==
    [s EXCEPT !.shares[x] = [path |-> p, on |-> TRUE, gen |-> gen]]

-----------------------------------------------------------------------------
(* Favorites: a deletion removes them.  `favs` maps a path to the creation  *)
(* time of the favorite there, 0 when there is none.                        *)

PlanFavorites(s, p) ==
    [x \in {y \in DOMAIN s.favs : y = p /\ s.favs[y] # 0} |-> s.favs[x]]

BlockFavorite(del, p) ==
    [o \in DOMAIN del |->
        IF p \in DOMAIN del[o].changed
          THEN [del[o] EXCEPT !.blocked = @ \cup {p}] ELSE del[o]]

ApplyDeleteFavorites(s, o, planned, committed) ==
    LET known == o \in DOMAIN s.del
        hit == {p \in DOMAIN planned : s.favs[p] = planned[p]}
        removed == Restrict(s.favs, hit)
        mark == IF known THEN s.del[o] ELSE Marker(planned, removed)
        others == [a \in DOMAIN s.del |->
                     IF a = o THEN s.del[a]
                     ELSE [s.del[a] EXCEPT !.blocked = @ \cup (hit \cap DOMAIN s.del[a].changed)]]
    IN IF known /\ s.del[o].planned # planned THEN Conflict(s)
       ELSE IF known /\ (~committed \/ s.del[o].committed) THEN Fine(s)
       ELSE Fine([s EXCEPT !.favs = [p \in DOMAIN @ |-> IF p \in hit THEN 0 ELSE @[p]],
                           !.del = Including(others, o, [mark EXCEPT !.committed = committed])])

\* Removed by this operation, and nothing has been at its path since.
Returnable(s, o, dest) ==
    {p \in DOMAIN s.del[o].changed : p \notin s.del[o].blocked /\ s.favs[dest[p]] = 0}

RollbackDeleteFavorites(s, o) ==
    LET back == Returnable(s, o, [p \in DOMAIN s.favs |-> p])
        others == [a \in DOMAIN s.del |->
                     [s.del[a] EXCEPT !.blocked = @ \cup (back \cap DOMAIN s.del[a].changed)]]
    IN IF o \notin DOMAIN s.del THEN Fine(s)
       ELSE IF s.del[o].committed THEN Conflict(s)
       ELSE Fine([s EXCEPT !.favs = [p \in DOMAIN @ |-> IF p \in back THEN s.del[o].changed[p] ELSE @[p]],
                           !.del = Without(others, o)])

ApplyRestoreFavorites(s, r, o, planned, dest) ==
    LET verdict == RestoreVerdict(s, r, o, planned, dest)
        back == Returnable(s, o, [p \in DOMAIN s.favs |-> dest]) \cap DOMAIN planned
    IN IF verdict = "conflict" THEN Conflict(s)
       ELSE IF verdict = "replay" THEN Fine(s)
       ELSE Fine([Receipt(s, r, o, planned, dest) EXCEPT
              !.favs = [p \in DOMAIN @ |->
                          IF p = dest /\ back # {} THEN s.del[o].changed[CHOOSE b \in back : TRUE] ELSE @[p]]])

AddFavorite(s, p, gen) == [s EXCEPT !.favs[p] = gen, !.del = BlockFavorite(@, p)]
RemoveFavorite(s, p) == [s EXCEPT !.favs[p] = 0, !.del = BlockFavorite(@, p)]

CompleteDeleteFavorites(s, o) == CompleteDelete(s, o)
PurgeCompletedFavorites(s, o) == PurgeCompleted(s, o)
CompleteRestoreFavorites(s, r) == CompleteRestore(s, r)

=============================================================================
