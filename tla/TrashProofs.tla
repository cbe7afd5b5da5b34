----------------------------- MODULE TrashProofs ----------------------------
(***************************************************************************)
(* Two promises of Trash for every number of items, paths, shares,         *)
(* operations, failing steps, kills and power losses: a share is turned on *)
(* again only for the deletion that turned it off, and a version row never *)
(* outlives its object.                                                    *)
(*                                                                         *)
(* For the first, a marker that would turn a share on is a claim, and every*)
(* claim, in memory and on disk, is the one of the share's owner (Claims); *)
(* each call of the share store is shown to add no other claim.  For the   *)
(* second, whatever runs or waits for recovery has a plan that names paths *)
(* (Planful, JobFits): history then only moves between paths or goes.      *)
(***************************************************************************)
EXTENDS TrashTransfer, TLAPS

-----------------------------------------------------------------------------
(* Shares given back                                                       *)

\* The values of a store of shares.
IsShare(v) ==
    \/ v = NoShare
    \/ v \in [path : {v.path}, on : BOOLEAN, gen : {v.gen}]
IsMarker(m) ==
    m \in [planned : {m.planned}, changed : {m.changed}, blocked : {m.blocked},
           committed : {m.committed}, completed : {m.completed}]
IsStore(s) ==
    /\ s \in [shares : {s.shares}, del : {s.del}, rest : {s.rest}]
    /\ s.shares = [x \in ShareIds |-> s.shares[x]] /\ \A x \in ShareIds : IsShare(s.shares[x])
    /\ s.del = [o \in DOMAIN s.del |-> s.del[o]] /\ \A o \in DOMAIN s.del : IsMarker(s.del[o])

On(v) == v # NoShare /\ v.on
Off(v) == v # NoShare /\ ~v.on

\* The marker m would turn the share x, which is v, on again.
Claim(m, v, x) ==
    x \in DOMAIN m.changed /\ x \notin m.blocked /\ Off(v) /\ SameGeneration(v, m.changed[x])

\* Only the operation that turned a share off lays claim to it.
Claims(s, ob) ==
    \A o \in DOMAIN s.del, x \in ShareIds : Claim(s.del[o], s.shares[x], x) => ob[x] = o

\* What a call of operation o may make of the store s.
HonestCall(s, t, o) ==
    /\ IsStore(t)
    /\ \A x \in ShareIds :
         /\ Off(s.shares[x]) /\ On(t.shares[x]) =>
               o \in DOMAIN s.del /\ Claim(s.del[o], s.shares[x], x)
         /\ \A a \in DOMAIN t.del : Claim(t.del[a], t.shares[x], x) =>
               IF On(s.shares[x]) THEN a = o
               ELSE a \in DOMAIN s.del /\ Claim(s.del[a], s.shares[x], x)

LEMMA SameCall == ASSUME NEW s, IsStore(s), NEW o PROVE HonestCall(s, s, o)
BY DEF HonestCall, Claim, On, Off

\* Turning shares off.
LEMMA ApplyDeleteHonest ==
    ASSUME NEW s, IsStore(s), NEW o, NEW planned, NEW committed,
           ~ApplyDeleteShares(s, o, planned, committed).err
    PROVE  HonestCall(s, ApplyDeleteShares(s, o, planned, committed).st, o)
<1> DEFINE known == o \in DOMAIN s.del
           hit == MatchingPlan(s, planned)
           changed == [x \in hit |-> s.shares[x]]
           off == [x \in DOMAIN s.shares |->
                     IF x \in hit THEN [s.shares[x] EXCEPT !.on = FALSE] ELSE s.shares[x]]
           mark == IF known THEN s.del[o] ELSE Marker(planned, changed)
           mine == [mark EXCEPT !.committed = committed]
           kept == BlockRestores(s.del, changed, o)
           marks == Including(kept, o, mine)
           dels == IF committed THEN ClearOwnership(marks, o, planned, off) ELSE marks
           t == [s EXCEPT !.shares = off, !.del = dels]
           r == ApplyDeleteShares(s, o, planned, committed)
<1>1. r.st = s \/ r.st = t
  BY DEF ApplyDeleteShares, Fine, Conflict
<1>2. CASE r.st = s
  BY <1>2, SameCall
<1>3. CASE r.st = t
  <2>1. /\ t.shares = off /\ t.del = dels /\ t.rest = s.rest
        /\ t \in [shares : {t.shares}, del : {t.del}, rest : {t.rest}]
    <3> HIDE DEF off, dels
    <3>1. s \in [shares : {s.shares}, del : {s.del}, rest : {s.rest}]
      BY DEF IsStore
    <3> QED BY <3>1
  <2>2. /\ off = [x \in ShareIds |-> off[x]]
        /\ \A x \in ShareIds :
             off[x] = IF x \in hit THEN [s.shares[x] EXCEPT !.on = FALSE] ELSE s.shares[x]
    BY DEF IsStore
  <2>3. IsMarker(mark) /\ (known => mark = s.del[o]) /\ (~known => mark.changed = changed)
    BY DEF IsMarker, Marker, IsStore
  <2>4. IsMarker(mine) /\ mine.changed = mark.changed /\ mine.blocked = mark.blocked
    BY <2>3 DEF IsMarker
  <2>5. \A x \in hit : On(s.shares[x])
    BY DEF MatchingPlan, On
  <2>6. ASSUME NEW a \in DOMAIN s.del, a # o
        PROVE  /\ IsMarker(kept[a]) /\ kept[a].changed = s.del[a].changed
               /\ kept[a].blocked = s.del[a].blocked \cup
                    {x \in hit : x \in DOMAIN s.del[a].changed
                                 /\ SameGeneration(s.del[a].changed[x], s.shares[x])}
    <3>1. kept[a] = [s.del[a] EXCEPT !.blocked = @ \cup
                       {x \in DOMAIN changed : x \in DOMAIN s.del[a].changed
                                               /\ SameGeneration(s.del[a].changed[x], changed[x])}]
      BY <2>6 DEF BlockRestores
    <3>2. IsMarker(s.del[a])
      BY <2>6 DEF IsStore
    <3>3. {x \in DOMAIN changed : x \in DOMAIN s.del[a].changed
                                  /\ SameGeneration(s.del[a].changed[x], changed[x])}
          = {x \in hit : x \in DOMAIN s.del[a].changed
                         /\ SameGeneration(s.del[a].changed[x], s.shares[x])}
      OBVIOUS
    <3> HIDE DEF kept, changed, hit
    <3> QED BY <3>1, <3>2, <3>3 DEF IsMarker
  <2>7. DOMAIN kept = DOMAIN s.del
    BY DEF BlockRestores
  <2>8. /\ DOMAIN marks = DOMAIN s.del \cup {o} /\ marks[o] = mine
        /\ \A a \in DOMAIN s.del : a # o => marks[a] = kept[a]
        /\ marks = [a \in DOMAIN marks |-> marks[a]]
    BY <2>7 DEF Including
  <2> HIDE DEF kept, marks, mine, mark
  <2>9. \A a \in DOMAIN marks : IsMarker(marks[a])
    BY <2>4, <2>6, <2>8
  <2>10. /\ DOMAIN dels = DOMAIN marks /\ dels = [a \in DOMAIN dels |-> dels[a]]
         /\ \A a \in DOMAIN marks :
              /\ IsMarker(dels[a])
              /\ \A x : x \in DOMAIN dels[a].changed =>
                    /\ x \in DOMAIN marks[a].changed /\ dels[a].changed[x] = marks[a].changed[x]
                    /\ x \in dels[a].blocked <=> x \in marks[a].blocked
    <3>1. CASE ~committed
      BY <2>8, <2>9, <3>1
    <3>2. CASE committed
      <4> DEFINE taken == {x \in DOMAIN planned : off[x] # NoShare /\ ~off[x].on
                                                  /\ off[x].path = planned[x].path}
                 lost(m) == {x \in DOMAIN m.changed \cap taken : m.changed[x].path = planned[x].path}
                 less(m) == [m EXCEPT !.changed = Restrict(@, DOMAIN @ \ lost(m)),
                                      !.blocked = @ \ lost(m)]
      <4>1. dels = [a \in DOMAIN marks |->
                      IF a = o \/ marks[a].committed THEN marks[a] ELSE less(marks[a])]
        BY <3>2 DEF ClearOwnership
      <4>2. ASSUME NEW m, IsMarker(m)
            PROVE  /\ IsMarker(less(m))
                   /\ less(m).changed = Restrict(m.changed, DOMAIN m.changed \ lost(m))
                   /\ less(m).blocked = m.blocked \ lost(m)
        <5> HIDE DEF lost
        <5> DEFINE c == Restrict(m.changed, DOMAIN m.changed \ lost(m))
                   b == m.blocked \ lost(m)
        <5>1. less(m) = [m EXCEPT !.changed = c, !.blocked = b]
          BY <4>2 DEF IsMarker
        <5> HIDE DEF c, b
        <5> HIDE DEF less
        <5>2. less(m).changed = c /\ less(m).blocked = b /\ IsMarker(less(m))
          BY <4>2, <5>1 DEF IsMarker
        <5> QED BY <5>2 DEF c, b
      <4> HIDE DEF less, lost, dels
      <4>3. ASSUME NEW a \in DOMAIN marks
            PROVE  /\ IsMarker(dels[a])
                   /\ \A x : x \in DOMAIN dels[a].changed =>
                        /\ x \in DOMAIN marks[a].changed /\ dels[a].changed[x] = marks[a].changed[x]
                        /\ x \in dels[a].blocked <=> x \in marks[a].blocked
        <5>1. CASE dels[a] = marks[a]
          BY <2>9, <5>1
        <5>2. CASE dels[a] = less(marks[a])
          <6>1. /\ IsMarker(dels[a]) /\ dels[a].blocked = marks[a].blocked \ lost(marks[a])
                /\ dels[a].changed = [x \in DOMAIN marks[a].changed \ lost(marks[a]) |-> marks[a].changed[x]]
            BY <2>9, <4>2, <5>2 DEF Restrict
          <6> QED BY <6>1
        <5> QED BY <4>1, <5>1, <5>2
      <4> QED BY <4>1, <4>3
    <3> QED BY <3>1, <3>2
  <2> HIDE DEF dels
  <2>11. \A x \in ShareIds : /\ IsShare(off[x]) /\ (x \in hit => off[x].gen = s.shares[x].gen)
                             /\ x \in hit => ~On(off[x])
    <3> SUFFICES ASSUME NEW x \in ShareIds
                 PROVE  /\ IsShare(off[x]) /\ (x \in hit => off[x].gen = s.shares[x].gen)
                        /\ x \in hit => ~On(off[x])
      OBVIOUS
    <3>1. IsShare(s.shares[x])
      BY DEF IsStore
    <3>2. CASE x \in hit
      <4> HIDE DEF hit, off
      <4>1. off[x] = [s.shares[x] EXCEPT !.on = FALSE] /\ s.shares[x] # NoShare
        BY <2>2, <2>5, <3>2 DEF On
      <4> QED BY <3>1, <4>1 DEF IsShare, On
    <3>3. CASE x \notin hit
      BY <2>2, <3>1, <3>3
    <3> QED BY <3>2, <3>3
  <2> HIDE DEF off, hit, changed
  <2>12. IsStore(t)
    BY <2>1, <2>2, <2>10, <2>11 DEF IsStore
  <2>13. ASSUME NEW x \in ShareIds PROVE ~(Off(s.shares[x]) /\ On(t.shares[x]))
    BY <2>1, <2>2, <2>5, <2>11 DEF On, Off
  <2>14. ASSUME NEW x \in ShareIds, NEW a \in DOMAIN t.del, Claim(t.del[a], t.shares[x], x)
         PROVE  IF On(s.shares[x]) THEN a = o
                ELSE a \in DOMAIN s.del /\ Claim(s.del[a], s.shares[x], x)
    <3>1. /\ a \in DOMAIN marks /\ x \in DOMAIN marks[a].changed /\ x \notin marks[a].blocked
          /\ Off(off[x]) /\ SameGeneration(off[x], marks[a].changed[x])
      BY <2>1, <2>10, <2>14 DEF Claim
    <3>2. CASE x \in hit
      <4>1. SUFFICES ASSUME a # o PROVE FALSE
        BY <2>5, <3>2
      <4>2. a \in DOMAIN s.del /\ marks[a] = kept[a]
        BY <2>8, <3>1, <4>1
      <4>3. SameGeneration(s.del[a].changed[x], s.shares[x])
        BY <2>5, <2>6, <2>11, <3>1, <3>2, <4>1, <4>2 DEF SameGeneration, On
      <4> QED BY <2>6, <3>1, <3>2, <4>1, <4>2, <4>3
    <3>3. CASE x \notin hit
      <4>1. off[x] = s.shares[x] /\ ~On(s.shares[x])
        BY <2>2, <3>1, <3>3 DEF On, Off
      <4>2. CASE a = o
        <5>1. marks[a].changed = mark.changed /\ marks[a].blocked = mark.blocked
          BY <2>4, <2>8, <4>2
        <5>2. known
          BY <2>3, <3>1, <3>3, <5>1 DEF changed
        <5> QED BY <2>3, <3>1, <4>1, <4>2, <5>1, <5>2 DEF Claim
      <4>3. CASE a # o
        BY <2>6, <2>8, <3>1, <4>1, <4>3 DEF Claim
      <4> QED BY <4>2, <4>3
    <3> QED BY <3>2, <3>3
  <2> HIDE DEF t
  <2> QED BY <1>3, <2>12, <2>13, <2>14 DEF HonestCall
<1> QED BY <1>1, <1>2, <1>3

\* Markers that other operations block keep what they took.
LEMMA BlockedMarks ==
    ASSUME NEW marks, \A a \in DOMAIN marks : IsMarker(marks[a]), NEW changed, NEW o
    PROVE  LET kept == BlockRestores(marks, changed, o)
           IN  /\ DOMAIN kept = DOMAIN marks
               /\ \A a \in DOMAIN marks : /\ IsMarker(kept[a]) /\ kept[a].changed = marks[a].changed
                                          /\ marks[a].blocked \subseteq kept[a].blocked
<1> DEFINE kept == BlockRestores(marks, changed, o)
           more(a) == {x \in DOMAIN changed : x \in DOMAIN marks[a].changed
                                              /\ SameGeneration(marks[a].changed[x], changed[x])}
<1>1. kept = [a \in DOMAIN marks |->
                IF a = o THEN marks[a] ELSE [marks[a] EXCEPT !.blocked = @ \cup more(a)]]
  BY DEF BlockRestores
<1> HIDE DEF kept, more
<1>2. ASSUME NEW a \in DOMAIN marks
      PROVE  /\ IsMarker(kept[a]) /\ kept[a].changed = marks[a].changed
             /\ marks[a].blocked \subseteq kept[a].blocked
  <2>1. CASE a = o
    BY <1>1, <2>1
  <2>2. CASE a # o
    <3>1. kept[a] = [marks[a] EXCEPT !.blocked = @ \cup more(a)] /\ IsMarker(marks[a])
      BY <1>1, <2>2
    <3> QED BY <3>1 DEF IsMarker
  <2> QED BY <2>1, <2>2
<1> QED BY <1>1, <1>2 DEF kept

\* A call that only turns on what its marker may and takes no marker further.
LEMMA FewerClaims ==
    ASSUME NEW s, IsStore(s), NEW t, NEW o,
           t \in [shares : {t.shares}, del : {t.del}, rest : {t.rest}],
           t.shares = [x \in ShareIds |-> t.shares[x]],
           t.del = [a \in DOMAIN t.del |-> t.del[a]],
           \A x \in ShareIds :
              \/ t.shares[x] = s.shares[x]
              \/ IsShare(t.shares[x]) /\ ~Off(t.shares[x])
                 /\ o \in DOMAIN s.del /\ Claim(s.del[o], s.shares[x], x),
           \A a \in DOMAIN t.del :
              /\ a \in DOMAIN s.del /\ IsMarker(t.del[a]) /\ t.del[a].changed = s.del[a].changed
              /\ s.del[a].blocked \subseteq t.del[a].blocked
    PROVE  HonestCall(s, t, o)
<1>1. IsStore(t)
  BY DEF IsStore
<1>2. ASSUME NEW x \in ShareIds, Off(s.shares[x]), On(t.shares[x])
      PROVE  o \in DOMAIN s.del /\ Claim(s.del[o], s.shares[x], x)
  BY <1>2 DEF On, Off
<1>3. ASSUME NEW x \in ShareIds, NEW a \in DOMAIN t.del, Claim(t.del[a], t.shares[x], x)
      PROVE  ~On(s.shares[x]) /\ a \in DOMAIN s.del /\ Claim(s.del[a], s.shares[x], x)
  BY <1>3 DEF Claim, On, Off
<1> QED BY <1>1, <1>2, <1>3 DEF HonestCall

\* Giving shares back.
LEMMA RollbackHonest ==
    ASSUME NEW s, IsStore(s), NEW o, ~RollbackDeleteShares(s, o).err
    PROVE  LET t == RollbackDeleteShares(s, o).st
           IN  HonestCall(s, t, o) /\ o \notin DOMAIN t.del
<1> DEFINE back == {x \in DOMAIN s.shares :
                      StillMine(s, o, x) /\ ~OwnedByAnother(s.del, o, x, s.shares[x])}
           on == [x \in DOMAIN s.shares |->
                    IF x \in back THEN [s.shares[x] EXCEPT !.on = TRUE] ELSE s.shares[x]]
           kept == BlockRestores(s.del, Restrict(s.shares, back), o)
           dels == Without(kept, o)
           t == [s EXCEPT !.shares = on, !.del = dels]
           r == RollbackDeleteShares(s, o)
<1>1. (o \notin DOMAIN s.del /\ r.st = s) \/ (o \in DOMAIN s.del /\ r.st = t)
  BY DEF RollbackDeleteShares, Fine, Conflict
<1>2. CASE o \notin DOMAIN s.del /\ r.st = s
  BY <1>2, SameCall
<1>3. CASE o \in DOMAIN s.del /\ r.st = t
  <2>1. /\ t.shares = on /\ t.del = dels /\ t.rest = s.rest
        /\ t \in [shares : {t.shares}, del : {t.del}, rest : {t.rest}]
    <3> HIDE DEF on, dels
    <3>1. s \in [shares : {s.shares}, del : {s.del}, rest : {s.rest}]
      BY DEF IsStore
    <3> QED BY <3>1
  <2>2. on = [x \in ShareIds |-> on[x]]
    BY DEF IsStore
  <2>3. ASSUME NEW x \in ShareIds
        PROVE  \/ on[x] = s.shares[x]
               \/ IsShare(on[x]) /\ ~Off(on[x]) /\ Claim(s.del[o], s.shares[x], x)
    <3>1. IsShare(s.shares[x]) /\ x \in DOMAIN s.shares
      BY DEF IsStore
    <3>2. CASE x \in back
      <4>1. on[x] = [s.shares[x] EXCEPT !.on = TRUE] /\ s.shares[x] # NoShare
        BY <3>1, <3>2 DEF StillMine
      <4>2. Claim(s.del[o], s.shares[x], x)
        BY <3>2 DEF StillMine, Claim, Off
      <4> HIDE DEF on
      <4> QED BY <3>1, <4>1, <4>2 DEF IsShare, Off
    <3>3. CASE x \notin back
      BY <3>1, <3>3
    <3> QED BY <3>2, <3>3
  <2>4. /\ DOMAIN kept = DOMAIN s.del
        /\ \A a \in DOMAIN s.del : /\ IsMarker(kept[a]) /\ kept[a].changed = s.del[a].changed
                                   /\ s.del[a].blocked \subseteq kept[a].blocked
    <3>1. \A a \in DOMAIN s.del : IsMarker(s.del[a])
      BY DEF IsStore
    <3> QED BY <3>1, BlockedMarks
  <2> HIDE DEF kept
  <2>5. /\ DOMAIN dels \subseteq DOMAIN s.del /\ dels = [a \in DOMAIN dels |-> dels[a]]
        /\ \A a \in DOMAIN dels : dels[a] = kept[a]
        /\ o \notin DOMAIN dels
    BY <2>4 DEF Without, Restrict
  <2> HIDE DEF t, on, dels
  <2> QED BY <1>3, <2>1, <2>2, <2>3, <2>4, <2>5, FewerClaims
<1> QED BY <1>1, <1>2, <1>3

LEMMA ApplyRestoreHonest ==
    ASSUME NEW s, IsStore(s), NEW q, NEW o, NEW planned, NEW dest,
           ~ApplyRestoreShares(s, q, o, planned, dest).err
    PROVE  HonestCall(s, ApplyRestoreShares(s, q, o, planned, dest).st, o)
<1> DEFINE verdict == RestoreVerdict(s, q, o, planned, dest)
           back == {x \in DOMAIN planned :
                      StillMine(s, o, x) /\ SameGeneration(planned[x], s.del[o].changed[x])}
           u == Receipt(s, q, o, planned, dest)
           on == [x \in DOMAIN u.shares |->
                    IF x \in back THEN [u.shares[x] EXCEPT !.on = TRUE, !.path = dest]
                    ELSE u.shares[x]]
           t == [u EXCEPT !.shares = on]
           r == ApplyRestoreShares(s, q, o, planned, dest)
<1>1. r.st = s \/ (verdict = "apply" /\ r.st = t)
  <2>1. verdict \in {"replay", "conflict", "apply"}
    BY DEF RestoreVerdict
  <2> QED BY <2>1 DEF ApplyRestoreShares, Fine, Conflict
<1>2. CASE r.st = s
  BY <1>2, SameCall
<1>3. CASE verdict = "apply" /\ r.st = t
  <2>1. o \in DOMAIN s.del
    BY <1>3 DEF RestoreVerdict, Owned
  <2>2. /\ u.shares = s.shares /\ u.del = s.del
        /\ u \in [shares : {u.shares}, del : {u.del}, rest : {u.rest}]
    <3> DEFINE v == Including(s.rest, q, [op |-> o, planned |-> planned, dest |-> dest])
    <3>1. u = [s EXCEPT !.rest = v]
      BY DEF Receipt
    <3>2. s \in [shares : {s.shares}, del : {s.del}, rest : {s.rest}]
      BY DEF IsStore
    <3> HIDE DEF u, v
    <3> QED BY <3>1, <3>2
  <2> HIDE DEF u
  <2>3. /\ t.shares = on /\ t.del = s.del
        /\ t \in [shares : {t.shares}, del : {t.del}, rest : {t.rest}]
    <3> HIDE DEF on
    <3> QED BY <2>2
  <2>4. on = [x \in ShareIds |-> on[x]]
    BY <2>2 DEF IsStore
  <2>5. ASSUME NEW x \in ShareIds
        PROVE  \/ on[x] = s.shares[x]
               \/ IsShare(on[x]) /\ ~Off(on[x]) /\ Claim(s.del[o], s.shares[x], x)
    <3>1. IsShare(s.shares[x]) /\ x \in DOMAIN s.shares
      BY DEF IsStore
    <3>2. CASE x \in back
      <4>1. on[x] = [s.shares[x] EXCEPT !.on = TRUE, !.path = dest] /\ s.shares[x] # NoShare
        BY <2>2, <3>1, <3>2 DEF StillMine
      <4>2. Claim(s.del[o], s.shares[x], x)
        BY <3>2 DEF StillMine, Claim, Off
      <4> HIDE DEF on
      <4>3. IsShare(on[x]) /\ on[x].on = TRUE
        BY <3>1, <4>1 DEF IsShare
      <4> QED BY <4>2, <4>3 DEF Off
    <3>3. CASE x \notin back
      BY <2>2, <3>1, <3>3
    <3> QED BY <3>2, <3>3
  <2>6. /\ s.del = [a \in DOMAIN s.del |-> s.del[a]] /\ \A a \in DOMAIN s.del : IsMarker(s.del[a])
    BY DEF IsStore
  <2> HIDE DEF t, on
  <2> QED BY <1>3, <2>1, <2>3, <2>4, <2>5, <2>6, FewerClaims
<1> QED BY <1>1, <1>2, <1>3

\* Calls that change no share.
LEMMA QuietCalls ==
    ASSUME NEW s, IsStore(s), NEW t, NEW o, t.shares = s.shares,
           t \in [shares : {t.shares}, del : {t.del}, rest : {t.rest}],
           t.del = [a \in DOMAIN t.del |-> t.del[a]], DOMAIN t.del \subseteq DOMAIN s.del,
           \A a \in DOMAIN t.del :
              IsMarker(t.del[a]) /\ t.del[a].changed = s.del[a].changed
              /\ t.del[a].blocked = s.del[a].blocked
    PROVE  HonestCall(s, t, o)
<1>1. t.shares = [x \in ShareIds |-> t.shares[x]]
  BY DEF IsStore
<1> QED BY <1>1, FewerClaims

LEMMA CompleteDeleteHonest ==
    ASSUME NEW s, IsStore(s), NEW o, ~CompleteDelete(s, o).err
    PROVE  HonestCall(s, CompleteDelete(s, o).st, o)
<1> DEFINE m == [s.del[o] EXCEPT !.completed = TRUE]
           dels == [s.del EXCEPT ![o] = m]
           t == [s EXCEPT !.del = dels]
           r == CompleteDelete(s, o)
<1>1. r.st = s \/ (o \in DOMAIN s.del /\ r.st = t)
  BY DEF CompleteDelete, Fine, Conflict
<1>2. CASE r.st = s
  BY <1>2, SameCall
<1>3. CASE o \in DOMAIN s.del /\ r.st = t
  <2>1. IsMarker(m) /\ m.changed = s.del[o].changed /\ m.blocked = s.del[o].blocked
    <3>1. IsMarker(s.del[o])
      BY <1>3 DEF IsStore
    <3> QED BY <3>1 DEF IsMarker
  <2> HIDE DEF m
  <2>2. /\ DOMAIN dels = DOMAIN s.del /\ dels = [a \in DOMAIN dels |-> dels[a]] /\ dels[o] = m
        /\ \A a \in DOMAIN s.del : a # o => dels[a] = s.del[a]
    BY <1>3 DEF IsStore
  <2> HIDE DEF dels
  <2>3. /\ t.shares = s.shares /\ t.del = dels
        /\ t \in [shares : {t.shares}, del : {t.del}, rest : {t.rest}]
    <3>1. s \in [shares : {s.shares}, del : {s.del}, rest : {s.rest}]
      BY DEF IsStore
    <3> QED BY <3>1
  <2>4. \A a \in DOMAIN s.del : IsMarker(s.del[a])
    BY DEF IsStore
  <2> HIDE DEF t
  <2> QED BY <1>3, <2>1, <2>2, <2>3, <2>4, QuietCalls
<1> QED BY <1>1, <1>2, <1>3

\* A marker goes.
LEMMA WithoutHonest ==
    ASSUME NEW s, IsStore(s), NEW o, NEW a, NEW q,
           NEW t, t.shares = s.shares, t.del = Without(s.del, a),
           t \in [shares : {t.shares}, del : {t.del}, rest : {t.rest}]
    PROVE  HonestCall(s, t, o)
<1>1. /\ DOMAIN t.del \subseteq DOMAIN s.del /\ t.del = [b \in DOMAIN t.del |-> t.del[b]]
      /\ \A b \in DOMAIN t.del : t.del[b] = s.del[b]
  BY DEF Without, Restrict
<1>2. \A b \in DOMAIN s.del : IsMarker(s.del[b])
  BY DEF IsStore
<1> QED BY <1>1, <1>2, QuietCalls

LEMMA CompleteRestoreHonest ==
    ASSUME NEW s, IsStore(s), NEW o, ~CompleteRestore(s, o).err
    PROVE  HonestCall(s, CompleteRestore(s, o).st, o)
<1> DEFINE rests == Without(s.rest, o)
           dels == Without(s.del, s.rest[o].op)
           t == [s EXCEPT !.rest = rests, !.del = dels]
           r == CompleteRestore(s, o)
<1>1. r.st = s \/ r.st = t
  BY DEF CompleteRestore, Fine, Conflict
<1>2. CASE r.st = s
  BY <1>2, SameCall
<1>3. CASE r.st = t
  <2>1. /\ t.shares = s.shares /\ t.del = dels
        /\ t \in [shares : {t.shares}, del : {t.del}, rest : {t.rest}]
    <3> HIDE DEF rests, dels
    <3>1. s \in [shares : {s.shares}, del : {s.del}, rest : {s.rest}]
      BY DEF IsStore
    <3> QED BY <3>1
  <2> HIDE DEF t
  <2> QED BY <1>3, <2>1, WithoutHonest
<1> QED BY <1>1, <1>2, <1>3

LEMMA PurgeHonest ==
    ASSUME NEW s, IsStore(s), NEW o, ~PurgeCompleted(s, o).err
    PROVE  LET t == PurgeCompleted(s, o).st
           IN  HonestCall(s, t, o) /\ o \notin DOMAIN t.del
<1> DEFINE dels == Without(s.del, o)
           t == [s EXCEPT !.del = dels]
           r == PurgeCompleted(s, o)
<1>1. (o \notin DOMAIN s.del /\ r.st = s) \/ r.st = t
  BY DEF PurgeCompleted, Fine, Conflict
<1>2. CASE o \notin DOMAIN s.del /\ r.st = s
  BY <1>2, SameCall
<1>3. CASE r.st = t
  <2>1. /\ t.shares = s.shares /\ t.del = dels
        /\ t \in [shares : {t.shares}, del : {t.del}, rest : {t.rest}]
    <3> HIDE DEF dels
    <3>1. s \in [shares : {s.shares}, del : {s.del}, rest : {s.rest}]
      BY DEF IsStore
    <3> QED BY <3>1
  <2>2. o \notin DOMAIN dels
    BY DEF Without, Restrict
  <2> HIDE DEF t
  <2> QED BY <1>3, <2>1, <2>2, WithoutHonest
<1> QED BY <1>1, <1>2, <1>3

\* The owner of every share that is off, with what a call persisted.
LEMMA SaveKeepsClaims ==
    ASSUME NEW s, NEW o, SaveShares(s, o), HonestCall(share, s, job.id), Claims(share, offBy),
           job.kind = "purge" => job.id \notin DOMAIN s.del
    PROVE  /\ IsStore(share') /\ Claims(share', offBy')
           /\ \A x \in ShareIds : Off(share.shares[x]) /\ On(share'.shares[x]) => offBy[x] = job.id
<1>1. share' = s /\ IsStore(s)
  BY DEF SaveShares, HonestCall
<1>2. ASSUME NEW a \in DOMAIN s.del, NEW x \in ShareIds, Claim(s.del[a], s.shares[x], x)
      PROVE  offBy'[x] = a
  <2>1. /\ s.shares[x] # NoShare /\ ~s.shares[x].on /\ x \notin s.del[a].blocked
    BY <1>2 DEF Claim, Off
  <2>2. CASE On(share.shares[x])
    <3>1. a = job.id
      BY <1>2, <2>2 DEF HonestCall
    <3> QED BY <2>1, <2>2, <3>1 DEF SaveShares, On
  <2>3. CASE ~On(share.shares[x])
    <3>1. a \in DOMAIN share.del /\ Claim(share.del[a], share.shares[x], x)
      BY <1>2, <2>3 DEF HonestCall
    <3>2. offBy[x] = a
      BY <3>1 DEF Claims
    <3>3. ~(job.kind = "purge" /\ offBy[x] = job.id)
      BY <3>2
    <3> QED BY <2>1, <2>3, <3>2, <3>3 DEF SaveShares, On
  <2> QED BY <2>2, <2>3
<1>3. ASSUME NEW x \in ShareIds, Off(share.shares[x]), On(share'.shares[x]) PROVE offBy[x] = job.id
  BY <1>1, <1>3 DEF HonestCall, Claims
<1>4. Claims(share', offBy')
  BY <1>1, <1>2 DEF Claims
<1> QED BY <1>1, <1>3, <1>4

\* An edit leaves no claim on the share it is about and no new one on another.
LEMMA EditKeepsClaims ==
    ASSUME NEW s, NEW o, NEW x \in ShareIds, EditShare(x, s, o), IsStore(share), Claims(share, offBy),
           offBy = [y \in ShareIds |-> offBy[y]],
           s \in [shares : {s.shares}, del : {s.del}, rest : {s.rest}],
           s.shares = [y \in ShareIds |-> s.shares[y]], IsShare(s.shares[x]),
           \A y \in ShareIds : y # x => s.shares[y] = share.shares[y],
           s.del = [a \in DOMAIN share.del |-> s.del[a]],
           \A a \in DOMAIN share.del :
              /\ IsMarker(s.del[a]) /\ s.del[a].changed = share.del[a].changed
              /\ share.del[a].blocked \subseteq s.del[a].blocked
              /\ ~Claim(s.del[a], s.shares[x], x)
    PROVE  IsStore(share') /\ Claims(share', offBy')
<1>1. share' = s /\ offBy' = [offBy EXCEPT ![x] = NoTree]
  BY DEF EditShare
<1>2. DOMAIN s.del = DOMAIN share.del
  OBVIOUS
<1>3. IsStore(s)
  <2>1. \A y \in ShareIds : IsShare(s.shares[y])
    BY DEF IsStore
  <2> QED BY <1>2, <2>1 DEF IsStore
<1>4. ASSUME NEW a \in DOMAIN s.del, NEW y \in ShareIds, Claim(s.del[a], s.shares[y], y)
      PROVE  offBy'[y] = a
  <2>1. y # x
    BY <1>2, <1>4
  <2>2. Claim(share.del[a], share.shares[y], y)
    BY <1>2, <1>4, <2>1 DEF Claim
  <2>3. offBy'[y] = offBy[y]
    BY <1>1, <2>1
  <2> QED BY <1>2, <2>2, <2>3 DEF Claims
<1> QED BY <1>1, <1>3, <1>4 DEF Claims

LEMMA BlockedByEdit ==
    ASSUME NEW marks, \A a \in DOMAIN marks : IsMarker(marks[a]), NEW x, NEW latest
    PROVE  LET kept == BlockRestore(marks, x, latest)
           IN  /\ kept = [a \in DOMAIN marks |-> kept[a]]
               /\ \A a \in DOMAIN marks :
                    /\ IsMarker(kept[a]) /\ kept[a].changed = marks[a].changed
                    /\ marks[a].blocked \subseteq kept[a].blocked
                    /\ x \in DOMAIN marks[a].changed /\ SameGeneration(marks[a].changed[x], latest)
                         => x \in kept[a].blocked
<1> DEFINE kept == BlockRestore(marks, x, latest)
           hit(a) == x \in DOMAIN marks[a].changed /\ SameGeneration(marks[a].changed[x], latest)
<1>1. kept = [a \in DOMAIN marks |->
                IF hit(a) THEN [marks[a] EXCEPT !.blocked = @ \cup {x}] ELSE marks[a]]
  BY DEF BlockRestore
<1> HIDE DEF kept
<1>2. ASSUME NEW a \in DOMAIN marks
      PROVE  /\ IsMarker(kept[a]) /\ kept[a].changed = marks[a].changed
             /\ marks[a].blocked \subseteq kept[a].blocked
             /\ hit(a) => x \in kept[a].blocked
  <2> HIDE DEF hit
  <2>1. CASE hit(a)
    <3>1. kept[a] = [marks[a] EXCEPT !.blocked = @ \cup {x}] /\ IsMarker(marks[a])
      BY <1>1, <2>1
    <3> QED BY <3>1 DEF IsMarker
  <2>2. CASE ~hit(a)
    BY <1>1, <2>2
  <2> QED BY <2>1, <2>2
<1>3. kept = [a \in DOMAIN marks |-> kept[a]]
  BY <1>1
<1> QED BY <1>2, <1>3 DEF kept

LEMMA EditsKeepClaims ==
    ASSUME NEW o, ShareEdits(o), IsStore(share), Claims(share, offBy),
           offBy = [y \in ShareIds |-> offBy[y]]
    PROVE  /\ IsStore(share') /\ Claims(share', offBy') /\ edits' = edits + 1
           /\ offBy' = [y \in ShareIds |-> offBy'[y]]
           /\ shareDur' = (IF o = "lag" THEN shareDur ELSE share')
           /\ offByDur' = (IF o = "lag" THEN offByDur ELSE offBy')
<1>1. PICK x \in ShareIds :
        \/ share.shares[x] # NoShare /\ \E on \in BOOLEAN : EditShare(x, UpdateShare(share, x, on), o)
        \/ share.shares[x] # NoShare /\ EditShare(x, DeleteShare(share, x), o)
        \/ share.shares[x] = NoShare
           /\ \E p \in index : EditShare(x, CreateShare(share, x, p, edits + 2), o)
  BY DEF ShareEdits
<1> DEFINE dels == BlockRestore(share.del, x, share.shares[x])
<1>2. /\ dels = [a \in DOMAIN share.del |-> dels[a]]
      /\ \A a \in DOMAIN share.del :
           /\ IsMarker(dels[a]) /\ dels[a].changed = share.del[a].changed
           /\ share.del[a].blocked \subseteq dels[a].blocked
           /\ x \in DOMAIN share.del[a].changed /\ SameGeneration(share.del[a].changed[x], share.shares[x])
                => x \in dels[a].blocked
  <2>1. \A a \in DOMAIN share.del : IsMarker(share.del[a])
    BY DEF IsStore
  <2> QED BY <2>1, BlockedByEdit
<1> HIDE DEF dels
<1>3. /\ share \in [shares : {share.shares}, del : {share.del}, rest : {share.rest}]
      /\ share.shares = [y \in ShareIds |-> share.shares[y]] /\ IsShare(share.shares[x])
      /\ share.del = [a \in DOMAIN share.del |-> share.del[a]]
      /\ \A a \in DOMAIN share.del : IsMarker(share.del[a])
  BY DEF IsStore
<1>5. ASSUME NEW s, EditShare(x, s, o)
      PROVE  /\ edits' = edits + 1 /\ offBy' = [y \in ShareIds |-> offBy'[y]] /\ share' = s
             /\ shareDur' = (IF o = "lag" THEN shareDur ELSE s)
             /\ offByDur' = (IF o = "lag" THEN offByDur ELSE offBy')
  BY <1>5 DEF EditShare
<1>6. ASSUME NEW on \in BOOLEAN, share.shares[x] # NoShare, EditShare(x, UpdateShare(share, x, on), o)
      PROVE  IsStore(share') /\ Claims(share', offBy')
  <2> DEFINE v == [share.shares[x] EXCEPT !.on = on]
             f == [share.shares EXCEPT ![x] = v]
             s == [share EXCEPT !.del = dels, !.shares = f]
  <2>1. UpdateShare(share, x, on) = s
    BY DEF UpdateShare, dels
  <2>2. IsShare(v) /\ v # NoShare => v.gen = share.shares[x].gen
    BY <1>3, <1>6 DEF IsShare
  <2>3. IsShare(v)
    BY <1>3, <1>6 DEF IsShare
  <2> HIDE DEF v
  <2>4. /\ f = [y \in ShareIds |-> f[y]] /\ f[x] = v
        /\ \A y \in ShareIds : y # x => f[y] = share.shares[y]
    BY <1>3
  <2> HIDE DEF f
  <2>5. s.shares = f /\ s.del = dels /\ s \in [shares : {s.shares}, del : {s.del}, rest : {s.rest}]
    BY <1>3
  <2> HIDE DEF s
  <2>6. ASSUME NEW a \in DOMAIN share.del PROVE ~Claim(s.del[a], s.shares[x], x)
    BY <1>2, <1>6, <2>2, <2>3, <2>4, <2>5 DEF Claim, Off, SameGeneration
  <2>7. EditShare(x, s, o)
    BY <1>6, <2>1
  <2> QED BY <1>2, <2>3, <2>4, <2>5, <2>6, <2>7, EditKeepsClaims
<1>7. ASSUME share.shares[x] # NoShare, EditShare(x, DeleteShare(share, x), o)
      PROVE  IsStore(share') /\ Claims(share', offBy')
  <2> DEFINE f == [share.shares EXCEPT ![x] = NoShare]
             s == [share EXCEPT !.del = dels, !.shares = f]
  <2>1. DeleteShare(share, x) = s
    BY DEF DeleteShare, dels
  <2>4. /\ f = [y \in ShareIds |-> f[y]] /\ f[x] = NoShare
        /\ \A y \in ShareIds : y # x => f[y] = share.shares[y]
    BY <1>3
  <2> HIDE DEF f
  <2>5. s.shares = f /\ s.del = dels /\ s \in [shares : {s.shares}, del : {s.del}, rest : {s.rest}]
    BY <1>3
  <2> HIDE DEF s
  <2>6. ASSUME NEW a \in DOMAIN share.del PROVE ~Claim(s.del[a], s.shares[x], x)
    BY <2>4, <2>5 DEF Claim, Off
  <2>7. EditShare(x, s, o) /\ IsShare(s.shares[x])
    BY <1>7, <2>1, <2>4, <2>5 DEF IsShare
  <2> QED BY <1>2, <2>4, <2>5, <2>6, <2>7, EditKeepsClaims
<1>8. ASSUME NEW p \in index, EditShare(x, CreateShare(share, x, p, edits + 2), o)
      PROVE  IsStore(share') /\ Claims(share', offBy')
  <2> DEFINE v == [path |-> p, on |-> TRUE, gen |-> edits + 2]
             f == [share.shares EXCEPT ![x] = v]
             s == [share EXCEPT !.shares = f]
  <2>1. CreateShare(share, x, p, edits + 2) = s
    BY DEF CreateShare
  <2>3. IsShare(v) /\ ~Off(v)
    BY DEF IsShare, Off
  <2> HIDE DEF v
  <2>4. /\ f = [y \in ShareIds |-> f[y]] /\ f[x] = v
        /\ \A y \in ShareIds : y # x => f[y] = share.shares[y]
    BY <1>3
  <2> HIDE DEF f
  <2>5. s.shares = f /\ s.del = share.del /\ s \in [shares : {s.shares}, del : {s.del}, rest : {s.rest}]
    BY <1>3
  <2> HIDE DEF s
  <2>6. ASSUME NEW a \in DOMAIN share.del PROVE ~Claim(s.del[a], s.shares[x], x)
    BY <2>3, <2>4, <2>5 DEF Claim
  <2>7. EditShare(x, s, o) /\ IsShare(s.shares[x])
    BY <1>8, <2>1, <2>3, <2>4, <2>5
  <2> QED BY <1>3, <2>4, <2>5, <2>6, <2>7, EditKeepsClaims
<1>9. IsStore(share') /\ Claims(share', offBy')
  BY <1>1, <1>6, <1>7, <1>8
<1>10. /\ edits' = edits + 1 /\ offBy' = [y \in ShareIds |-> offBy'[y]]
       /\ shareDur' = (IF o = "lag" THEN shareDur ELSE share')
       /\ offByDur' = (IF o = "lag" THEN offByDur ELSE offBy')
  BY <1>1, <1>5
<1> QED BY <1>9, <1>10

\* Every claim in memory, and every claim a power loss would leave, is its owner's.
ShareInv ==
    /\ IsStore(share) /\ IsStore(shareDur)
    /\ offBy = [x \in ShareIds |-> offBy[x]] /\ offByDur = [x \in ShareIds |-> offByDur[x]]
    /\ Claims(share, offBy) /\ Claims(shareDur, offByDur)
    /\ edits \in Nat /\ crashes \in Nat

\* A share that a step turned on was off by the operation that runs.
GivenBack ==
    \A x \in ShareIds :
        Off(share.shares[x]) /\ On(share'.shares[x]) /\ edits' = edits /\ crashes' = crashes
        => offBy[x] = job.id

LEMMA SharesAlone ==
    ASSUME ShareInv, UNCHANGED <<share, shareDur, offBy, offByDur, edits>>, crashes' \in Nat
    PROVE  ShareInv' /\ GivenBack
<1>1. GivenBack
  BY DEF GivenBack, On, Off
<1> QED BY <1>1 DEF ShareInv, IsStore, Claims

LEMMA SharesSaved ==
    ASSUME ShareInv, NEW s, NEW o, SaveShares(s, o), HonestCall(share, s, job.id),
           job.kind = "purge" => job.id \notin DOMAIN s.del, UNCHANGED <<edits, crashes>>
    PROVE  ShareInv' /\ GivenBack
<1>1. IsStore(share) /\ Claims(share, offBy)
  BY DEF ShareInv
<1>2. /\ IsStore(share') /\ Claims(share', offBy')
      /\ \A x \in ShareIds : Off(share.shares[x]) /\ On(share'.shares[x]) => offBy[x] = job.id
  BY <1>1, SaveKeepsClaims
<1>3. /\ share' = s /\ shareDur' = (IF o = "lag" THEN shareDur ELSE s)
      /\ offBy' = [x \in ShareIds |-> offBy'[x]]
      /\ offByDur' = (IF o = "lag" THEN offByDur ELSE offBy')
  BY DEF SaveShares
<1>4. IsStore(shareDur') /\ Claims(shareDur', offByDur') /\ offByDur' = [x \in ShareIds |-> offByDur'[x]]
  <2>1. CASE o = "lag"
    BY <1>3, <2>1 DEF ShareInv
  <2>2. CASE o # "lag"
    BY <1>2, <1>3, <2>2
  <2> QED BY <2>1, <2>2
<1>5. ShareInv'
  BY <1>2, <1>3, <1>4 DEF ShareInv, IsStore, Claims
<1> QED BY <1>2, <1>5 DEF GivenBack

LEMMA DeliverStep ==
    ASSUME ShareInv, NEW o, Deliver(o) PROVE ShareInv' /\ GivenBack
<1> DEFINE skip == DOMAIN Planned(Called) = {}
           res == IF Called = "share" THEN CallShares ELSE CallFavorites
           hard == ~skip /\ (res.err \/ o = "fail")
<1>1. /\ IF skip \/ hard THEN KeepStores
         ELSE IF Called = "share" THEN SaveShares(res.st, o) ELSE SaveFavorites(res.st, o)
      /\ UNCHANGED <<edits, crashes>>
  BY DEF Deliver, Keep
<1>2. CASE skip \/ hard
  BY <1>1, <1>2, SharesAlone DEF KeepStores, storeVars, ShareInv
<1>3. CASE ~(skip \/ hard) /\ Called # "share"
  BY <1>1, <1>3, SharesAlone DEF SaveFavorites, ShareInv
<1>4. CASE ~(skip \/ hard) /\ Called = "share"
  <2>1. SaveShares(CallShares.st, o) /\ ~CallShares.err
    BY <1>1, <1>4
  <2>2. IsStore(share)
    BY DEF ShareInv
  <2>3. \/ job.kind = "delete" /\ CallShares = ApplyDeleteShares(share, job.id, plan.shares, job.at = "applied")
        \/ job.kind = "restore" /\ CallShares = ApplyRestoreShares(share, job.id, job.id, plan.shares, plan.dest)
        \/ job.kind = "delete" /\ CallShares = CompleteDelete(share, job.id)
        \/ job.kind = "restore" /\ CallShares = CompleteRestore(share, job.id)
        \/ CallShares = PurgeCompleted(share, job.id)
    BY Zenon DEF CallShares
  <2>4. /\ HonestCall(share, CallShares.st, job.id)
        /\ job.kind = "purge" => job.id \notin DOMAIN CallShares.st.del
    <3>1. CASE job.kind = "delete" /\ CallShares = ApplyDeleteShares(share, job.id, plan.shares, job.at = "applied")
      BY <2>1, <2>2, <3>1, ApplyDeleteHonest
    <3>2. CASE job.kind = "restore" /\ CallShares = ApplyRestoreShares(share, job.id, job.id, plan.shares, plan.dest)
      BY <2>1, <2>2, <3>2, ApplyRestoreHonest
    <3>3. CASE job.kind = "delete" /\ CallShares = CompleteDelete(share, job.id)
      BY <2>1, <2>2, <3>3, CompleteDeleteHonest
    <3>4. CASE job.kind = "restore" /\ CallShares = CompleteRestore(share, job.id)
      BY <2>1, <2>2, <3>4, CompleteRestoreHonest
    <3>5. CASE CallShares = PurgeCompleted(share, job.id)
      BY <2>1, <2>2, <3>5, PurgeHonest
    <3> QED BY <2>3, <3>1, <3>2, <3>3, <3>4, <3>5
  <2> QED BY <1>1, <2>1, <2>4, SharesSaved
<1> QED BY <1>2, <1>3, <1>4

LEMMA RollbackStep ==
    ASSUME ShareInv, NEW o, UNCHANGED <<edits, crashes>>,
           LET res == RollbackDeleteShares(share, job.id)
           IN  IF res.err \/ o = "fail" THEN KeepStores ELSE SaveShares(res.st, o)
    PROVE  ShareInv' /\ GivenBack
<1> DEFINE res == RollbackDeleteShares(share, job.id)
<1>1. CASE res.err \/ o = "fail"
  BY <1>1, SharesAlone DEF KeepStores, storeVars, ShareInv
<1>2. CASE ~(res.err \/ o = "fail")
  <2>1. SaveShares(res.st, o) /\ ~res.err /\ IsStore(share)
    BY <1>2 DEF ShareInv
  <2>2. HonestCall(share, res.st, job.id) /\ job.id \notin DOMAIN res.st.del
    BY <2>1, RollbackHonest
  <2> QED BY <2>1, <2>2, SharesSaved
<1> QED BY <1>1, <1>2

LEMMA EditStep ==
    ASSUME ShareInv, NEW o, ShareEdits(o) PROVE ShareInv' /\ GivenBack
<1>1. /\ IsStore(share') /\ Claims(share', offBy') /\ edits' = edits + 1
      /\ offBy' = [y \in ShareIds |-> offBy'[y]]
      /\ shareDur' = (IF o = "lag" THEN shareDur ELSE share')
      /\ offByDur' = (IF o = "lag" THEN offByDur ELSE offBy')
  BY EditsKeepClaims DEF ShareInv
<1>2. crashes' = crashes
  BY DEF ShareEdits, EditShare
<1>3. IsStore(shareDur') /\ Claims(shareDur', offByDur') /\ offByDur' = [x \in ShareIds |-> offByDur'[x]]
  <2>1. CASE o = "lag"
    BY <1>1, <2>1 DEF ShareInv
  <2>2. CASE o # "lag"
    BY <1>1, <2>2
  <2> QED BY <2>1, <2>2
<1>4. edits' # edits /\ edits' \in Nat
  BY <1>1 DEF ShareInv
<1>5. ShareInv'
  BY <1>1, <1>2, <1>3, <1>4 DEF ShareInv, IsStore, Claims
<1> QED BY <1>4, <1>5 DEF GivenBack

LEMMA LossStep ==
    ASSUME ShareInv, PowerLoss PROVE ShareInv' /\ GivenBack
<1>1. /\ edits' = edits /\ crashes' = crashes + 1 /\ crashes' # crashes /\ crashes' \in Nat
  BY DEF PowerLoss, ShareInv
<1>2. \/ /\ share' = share /\ offBy' = offBy /\ shareDur' = share /\ offByDur' = offBy
      \/ /\ share' = shareDur /\ offBy' = offByDur /\ shareDur' = shareDur /\ offByDur' = offByDur
  BY DEF PowerLoss
<1>3. ShareInv'
  <2>1. CASE share' = share /\ offBy' = offBy /\ shareDur' = share /\ offByDur' = offBy
    BY <1>1, <2>1 DEF ShareInv, IsStore, Claims
  <2>2. CASE share' = shareDur /\ offBy' = offByDur /\ shareDur' = shareDur /\ offByDur' = offByDur
    BY <1>1, <2>2 DEF ShareInv, IsStore, Claims
  <2> QED BY <1>2, <2>1, <2>2
<1> QED BY <1>1, <1>3 DEF GivenBack

LEMMA ShareStep ==
    ASSUME ShareInv, [Next]_vars PROVE ShareInv' /\ GivenBack
<1> DEFINE Quiet == UNCHANGED <<share, shareDur, offBy, offByDur, edits>> /\ crashes' \in {crashes, crashes + 1}
<1>1. ASSUME Quiet PROVE ShareInv' /\ GivenBack
  <2>1. crashes' \in Nat
    BY <1>1 DEF ShareInv
  <2> QED BY <1>1, <2>1, SharesAlone
<1>2. ASSUME NEW i \in Ids, NEW p \in Paths, Delete(i, p) \/ Restore(i, p) PROVE Quiet
  BY <1>2 DEF Delete, Restore, storeVars, histVars
<1>3. ASSUME NEW i \in Ids, Purge(i) PROVE Quiet
  BY <1>3 DEF Purge, storeVars, histVars
<1>4. ASSUME NEW o, TransferStep(o) PROVE ShareInv' /\ GivenBack
  <2>1. CASE PublishRecord(o)
    BY <1>1, <2>1 DEF PublishRecord, KeepStores, storeVars, Keep
  <2>2. CASE CleanRecord(o)
    BY <1>1, <2>2 DEF CleanRecord, KeepStores, storeVars, Keep
  <2>3. CASE CreateBox(o)
    BY <1>1, <2>3 DEF CreateBox, KeepStores, storeVars, Keep
  <2>4. CASE RemoveMarker(o)
    BY <1>1, <2>4 DEF RemoveMarker, KeepStores, storeVars, Keep
  <2>5. CASE CaptureSource(o)
    BY <1>1, <2>5 DEF CaptureSource, KeepStores, storeVars, Keep
  <2>6. CASE PublishItem(o)
    BY <1>1, <2>6 DEF PublishItem, KeepStores, storeVars, Keep
  <2>7. CASE PublishDestination(o)
    BY <1>1, <2>7 DEF PublishDestination, KeepStores, storeVars, Keep
  <2>8. CASE UndoSource(o)
    BY <1>1, <2>8 DEF UndoSource, KeepStores, storeVars, Keep
  <2>9. CASE UndoRecord(o)
    BY <1>1, <2>9 DEF UndoRecord, KeepStores, storeVars, Keep
  <2>10. CASE Deliver(o)
    BY <2>10, DeliverStep
  <2>11. CASE UndoApply(o)
    BY <2>11, RollbackStep DEF UndoApply, Keep
  <2>12. CASE UndoFavorites(o)
    <3>1. KeepStores \/ SaveFavorites(RollbackDeleteFavorites(fav, job.id).st, o)
      BY <2>12 DEF UndoFavorites
    <3>2. UNCHANGED <<edits, crashes>>
      BY <2>12 DEF UndoFavorites, Keep
    <3> QED BY <1>1, <3>1, <3>2 DEF KeepStores, storeVars, SaveFavorites
  <2>13. CASE UndoShares(o)
    BY <2>13, RollbackStep DEF UndoShares, Keep
  <2> QED BY <1>4, <2>1, <2>2, <2>3, <2>4, <2>5, <2>6, <2>7, <2>8, <2>9, <2>10, <2>11, <2>12, <2>13 DEF TransferStep
<1>5. ASSUME NEW o, PurgeStep(o) PROVE Quiet
  <2>1. CASE PurgePrepared(o)
    BY <2>1 DEF PurgePrepared, KeepStores, storeVars, Keep
  <2>2. CASE PurgeMove(o)
    BY <2>2 DEF PurgeMove, KeepStores, storeVars, Keep
  <2>3. CASE PurgeRow(o)
    BY <2>3 DEF PurgeRow, KeepStores, storeVars, Keep
  <2>4. CASE PurgeCommitted(o)
    BY <2>4 DEF PurgeCommitted, KeepStores, storeVars, Keep
  <2>5. CASE PurgeClean(o)
    BY <2>5 DEF PurgeClean, KeepStores, storeVars, Keep
  <2>6. CASE PurgeUndo(o)
    BY <2>6 DEF PurgeUndo, KeepStores, storeVars, Keep
  <2> QED BY <1>5, <2>1, <2>2, <2>3, <2>4, <2>5, <2>6 DEF PurgeStep
<1>6. ASSUME NEW o, CopyContent(o) \/ RemoveSource(o) \/ Acknowledge(o) PROVE Quiet
  BY <1>6 DEF CopyContent, RemoveSource, Acknowledge, KeepStores, storeVars, Keep
<1>7. ASSUME NEW o, CommitDb(o) PROVE Quiet
  BY <1>7 DEF CommitDb, KeepStores, storeVars
<1>8. ASSUME NEW o, UndoReplica(o) \/ PurgeRemove(o) \/ PurgeVersions(o) PROVE Quiet
  BY <1>8 DEF UndoReplica, PurgeRemove, PurgeVersions, KeepStores, storeVars, Keep
<1>9. ASSUME NEW o, ScanPurges(o) PROVE Quiet
  BY <1>9 DEF ScanPurges, KeepStores, storeVars
<1>10. ASSUME Cleaned \/ Undone \/ PurgeDone \/ Restart \/ Classify PROVE Quiet
  BY <1>10 DEF Cleaned, Undone, PurgeDone, Restart, Classify, storeVars, histVars, bound
<1>11. ASSUME NEW p \in Paths, NEW t \in Trees, WriteFile(p, t) PROVE Quiet
  BY <1>11 DEF WriteFile, KeepStores, storeVars, bound
<1>12. ASSUME NEW o, FavoriteEdits(o) PROVE ShareInv' /\ GivenBack
  <2>1. UNCHANGED <<share, shareDur, offBy, offByDur, crashes>> /\ edits' = edits + 1
    BY <1>12 DEF FavoriteEdits, histVars
  <2>2. GivenBack
    BY <2>1 DEF GivenBack, On, Off
  <2> QED BY <2>1, <2>2 DEF ShareInv, IsStore, Claims
<1>13. ASSUME Kill PROVE Quiet
  BY <1>13 DEF Kill, storeVars, histVars
<1>14. ASSUME Finished \/ UNCHANGED vars PROVE Quiet
  BY <1>14 DEF Finished, vars, storeVars, histVars, bound
<1> HIDE DEF Quiet
<1> QED
  BY <1>1, <1>2, <1>3, <1>4, <1>5, <1>6, <1>7, <1>8, <1>9, <1>10, <1>11, <1>12, <1>13, <1>14,
     EditStep, LossStep DEF Next

LEMMA SharesStart ==
    ASSUME Init PROVE ShareInv
<1>10. PICK p \in Paths : \E one \in {NoShare, [path |-> p, on |-> TRUE, gen |-> 1]} :
        share = [shares |-> [x \in ShareIds |-> one], del |-> <<>>, rest |-> <<>>]
  BY DEF Init
<1>1. PICK one \in {NoShare, [path |-> p, on |-> TRUE, gen |-> 1]} :
        share = [shares |-> [x \in ShareIds |-> one], del |-> <<>>, rest |-> <<>>]
  BY <1>10
<1>2. /\ share.shares = [x \in ShareIds |-> one] /\ share.del = <<>> /\ share.rest = <<>>
      /\ share \in [shares : {share.shares}, del : {share.del}, rest : {share.rest}]
  BY <1>1
<1>3. DOMAIN share.del = {} /\ share.del = [o \in DOMAIN share.del |-> share.del[o]]
  BY <1>2
<1>4. IsShare(one)
  <2>1. CASE one = NoShare
    BY <2>1 DEF IsShare
  <2>2. CASE one = [path |-> p, on |-> TRUE, gen |-> 1]
    BY <2>2 DEF IsShare
  <2> QED BY <1>1, <2>1, <2>2
<1>5. share.shares = [x \in ShareIds |-> share.shares[x]] /\ \A x \in ShareIds : IsShare(share.shares[x])
  BY <1>2, <1>4
<1>6. IsStore(share)
  BY <1>2, <1>3, <1>5 DEF IsStore
<1>7. Claims(share, offBy)
  BY <1>3 DEF Claims
<1>8. /\ shareDur = share /\ offByDur = offBy /\ offBy = [x \in ShareIds |-> NoTree]
      /\ edits = 0 /\ crashes = 0
  BY DEF Init
<1>9. offBy = [x \in ShareIds |-> offBy[x]]
  BY <1>8
<1> QED BY <1>6, <1>7, <1>8, <1>9 DEF ShareInv

\* A step of Trash turns a share on only for the deletion that had turned it off and only
\* if nobody edited the share since, after any number of edits, failures, kills and power
\* losses and whatever the stores held back from the disk.
THEOREM SharesGivenBack == Spec => ShareGivenBack
<1>1. Init => ShareInv
  BY SharesStart
<1>2. ShareInv /\ [Next]_vars => ShareInv'
  BY ShareStep
<1> DEFINE Step == \A x \in ShareIds :
                     (/\ share.shares[x] # NoShare /\ ~share.shares[x].on
                      /\ share'.shares[x] # NoShare /\ share'.shares[x].on
                      /\ edits' = edits /\ crashes' = crashes)
                     => offBy[x] = job.id
<1>3. ShareInv /\ [Next]_vars => [Step]_vars
  BY ShareStep DEF GivenBack, On, Off
<1> QED BY <1>1, <1>2, <1>3, PTL DEF Spec, ShareGivenBack

-----------------------------------------------------------------------------
(* Version rows and their objects                                          *)

IsPlan(m) == m.kind \in {"delete", "restore"} /\ m.id \in Ids /\ m.orig \in Paths /\ m.dest \in Paths

StepsOf(k) == {Steps[k][n] : n \in 1..Len(Steps[k])}

\* The step of the job j belongs to its operation, and the operation has its plan.
IsJob(j) ==
    j \in [kind : {j.kind}, at : {j.at}, how : {j.how}, rec : {j.rec}, id : {j.id},
           sub : {j.sub}, try : {j.try}, warn : {j.warn}, hard : {j.hard}]
JobFits(j) ==
    /\ IsJob(j)
    /\ \/ j.kind = "none" /\ j.at \in {"idle", "scan", "classify"}
       \/ /\ j.kind \in {"delete", "restore"} /\ IsPlan(plan)
          /\ j.at \in StepsOf(j.kind) \cup {"undo", "done"}
       \/ /\ j.kind = "purge" /\ j.id \in Ids /\ IsPlan(meta[j.id])
          /\ j.at \in StepsOf("purge") \cup {"purgeUndo", "done"}

BinFits(b) == b = [i \in Ids |-> b[i]] /\ \A i \in Ids : b[i].recs # {} => IsPlan(meta[i])

\* Everything the database and the disks know of has its plan.
Planful ==
    /\ DOMAIN meta = Ids /\ rows \subseteq Ids /\ \A i \in rows : IsPlan(meta[i])
    /\ BinFits(bin) /\ BinFits(binDur)
    /\ journal # {} \/ journalDur # {} => IsPlan(plan)

RowsInv ==
    /\ vrows = [p \in Paths |-> vrows[p]] /\ RowsBacked
    /\ Planful /\ JobFits(job)

\* The step after a step.
LEMMA StepsFollow ==
    ASSUME NEW k \in {"delete", "restore", "purge"}, NEW step \in StepsOf(k)
    PROVE  Following(k, step) \in StepsOf(k) \cup {"done"}
<1> DEFINE i == CHOOSE n \in 1..Len(Steps[k]) : Steps[k][n] = step
<1>1. Len(Steps[k]) \in Nat
  BY DEF Steps, DeleteSteps, RestoreSteps, PurgeSteps
<1>2. i \in 1..Len(Steps[k])
  BY DEF StepsOf
<1>3. Following(k, step) = IF i = Len(Steps[k]) THEN "done" ELSE Steps[k][i + 1]
  BY DEF Following
<1> HIDE DEF i
<1>4. i # Len(Steps[k]) => i + 1 \in 1..Len(Steps[k])
  BY <1>1, <1>2
<1> QED BY <1>3, <1>4 DEF StepsOf

\* Which steps there are.
LEMMA StepNames ==
    /\ {"prepared", "box", "copying", "unmark", "copy", "ready", "publish", "commit", "committed",
        "applied", "remove", "completed", "complete", "ack", "clean"}
          \subseteq StepsOf("delete") \cap StepsOf("restore")
    /\ {"apply", "capture"} \subseteq StepsOf("delete")
    /\ "purgePrepared" \in StepsOf("purge") /\ "purgeRemove" \in StepsOf("purge")
    /\ \A s \in StepsOf("delete") \cup StepsOf("restore") :
          s \notin {"idle", "scan", "classify", "purgePrepared", "purgeMove", "purgeRow",
                    "purgeCommitted", "purgeRemove", "purgeVersions", "purgeComplete",
                    "purgeClean", "purgeUndo", "undo", "done"}
    /\ \A s \in StepsOf("purge") :
          s \in {"purgePrepared", "purgeMove", "purgeRow", "purgeCommitted", "purgeRemove",
                 "purgeVersions", "purgeComplete", "purgeClean"}
<1>1. StepsOf("delete") = {"prepared", "box", "copying", "unmark", "capture", "copy", "ready",
        "publish", "apply", "commit", "committed", "applied", "remove", "completed", "complete",
        "ack", "clean"}
  <2>1. Steps["delete"] = DeleteSteps /\ Len(DeleteSteps) = 17
    BY DEF Steps, DeleteSteps
  <2>2. 1..17 = {1, 2, 3, 4, 5, 6, 7, 8, 9, 10, 11, 12, 13, 14, 15, 16, 17}
    OBVIOUS
  <2> QED BY <2>1, <2>2 DEF StepsOf, DeleteSteps
<1>2. StepsOf("restore") = {"prepared", "box", "copying", "unmark", "copy", "ready", "publish",
        "commit", "committed", "applied", "remove", "completed", "complete", "ack", "clean"}
  <2>1. Steps["restore"] = RestoreSteps /\ Len(RestoreSteps) = 15
    BY DEF Steps, RestoreSteps
  <2>2. 1..15 = {1, 2, 3, 4, 5, 6, 7, 8, 9, 10, 11, 12, 13, 14, 15}
    OBVIOUS
  <2> QED BY <2>1, <2>2 DEF StepsOf, RestoreSteps
<1>3. StepsOf("purge") = {"purgePrepared", "purgeMove", "purgeRow", "purgeCommitted",
        "purgeRemove", "purgeVersions", "purgeComplete", "purgeClean"}
  <2>1. Steps["purge"] = PurgeSteps /\ Len(PurgeSteps) = 8
    BY DEF Steps, PurgeSteps
  <2>2. 1..8 = {1, 2, 3, 4, 5, 6, 7, 8}
    OBVIOUS
  <2> QED BY <2>1, <2>2 DEF StepsOf, PurgeSteps
<1> QED BY <1>1, <1>2, <1>3

\* A job at a step of its operation.
LEMMA KnownStep ==
    ASSUME JobFits(job), job.at \notin {"idle", "scan", "classify", "undo", "purgeUndo", "done"}
    PROVE  job.kind \in {"delete", "restore", "purge"} /\ job.at \in StepsOf(job.kind)
BY DEF JobFits

LEMMA TransferKind ==
    ASSUME JobFits(job),
           job.at \in {"prepared", "box", "copying", "unmark", "capture", "copy", "ready", "publish",
                       "apply", "commit", "committed", "applied", "remove", "completed",
                       "complete", "ack", "clean", "undo"}
    PROVE  job.kind \in {"delete", "restore"} /\ IsPlan(plan)
<1>1. job.kind # "purge"
  BY StepNames DEF JobFits
<1> QED BY <1>1 DEF JobFits

LEMMA PurgeKind ==
    ASSUME JobFits(job),
           job.at \in {"purgePrepared", "purgeMove", "purgeRow", "purgeCommitted", "purgeRemove",
                       "purgeVersions", "purgeComplete", "purgeClean", "purgeUndo"}
    PROVE  job.kind = "purge" /\ job.id \in Ids /\ IsPlan(meta[job.id])
<1>1. job.kind \notin {"delete", "restore"}
  BY StepNames DEF JobFits
<1> QED BY <1>1 DEF JobFits

\* What a step may make of the job.
LEMMA IdleFits == ASSUME NEW at \in {"idle", "scan", "classify"}, NEW j, IsJob(j), j.kind = "none", j.at = at
                  PROVE  JobFits(j)
BY DEF JobFits

LEMMA SameFits ==
    ASSUME JobFits(job), NEW j, IsJob(j), j.kind = job.kind, j.at = job.at, j.id = job.id
    PROVE  JobFits(j)
BY DEF JobFits

LEMMA GoFits ==
    ASSUME JobFits(job), Onward,
           job.at \notin {"idle", "scan", "classify", "undo", "purgeUndo", "done"}
    PROVE  JobFits(job')
<1> DEFINE next == IF job.at = "publish" /\ job.how = "start" THEN "committed"
                   ELSE Following(job.kind, job.at)
<1>1. IsJob(job') /\ job'.kind = job.kind /\ job'.id = job.id /\ job'.at = next
  <2>1. IsJob(job)
    BY DEF JobFits
  <2>2. job' = [job EXCEPT !.at = next, !.sub = 1, !.try = 1, !.warn = FALSE, !.hard = {}]
    BY DEF Onward
  <2> HIDE DEF next
  <2> QED BY <2>1, <2>2 DEF IsJob
<1>2. job.kind \in {"delete", "restore", "purge"} /\ job.at \in StepsOf(job.kind)
  BY KnownStep
<1>3. next \in StepsOf(job.kind) \cup {"done"}
  <2>1. job.at = "publish" => job.kind \in {"delete", "restore"}
    BY TransferKind
  <2>2. job.at = "publish" => "committed" \in StepsOf(job.kind)
    BY <2>1, StepNames
  <2> QED BY <1>2, <2>2, StepsFollow
<1> HIDE DEF next
<1> QED BY <1>1, <1>2, <1>3 DEF JobFits

LEMMA StopFits ==
    ASSUME JobFits(job), job' = Idle PROVE JobFits(job')
<1>1. IsJob(Idle) /\ Idle.kind = "none" /\ Idle.at = "idle"
  BY DEF Idle, IsJob
<1> QED BY <1>1, IdleFits

LEMMA RollBackFits ==
    ASSUME JobFits(job), NEW rec, RollBack(rec), job.kind \in {"delete", "restore"}
    PROVE  JobFits(job')
<1>1. IsJob(job') /\ job'.kind = job.kind /\ job'.id = job.id /\ job'.at = "undo"
  BY DEF RollBack, JobFits, IsJob
<1> QED BY <1>1 DEF JobFits

LEMMA PurgeFailsFits ==
    ASSUME JobFits(job), PurgeFails, job.kind = "purge"
    PROVE  JobFits(job')
<1>1. IsJob(job') /\ job'.kind = job.kind /\ job'.id = job.id /\ job'.at = "purgeUndo"
  BY DEF PurgeFails, JobFits, IsJob
<1> QED BY <1>1 DEF JobFits

\* The job of the next state, with the plans of this one.
LEMMA PlansKept ==
    ASSUME RowsInv, JobFits(job'), UNCHANGED <<vrows, cas, meta, plan>>,
           rows' \subseteq Ids, \A i \in rows' : IsPlan(meta[i]),
           BinFits(bin'), BinFits(binDur'), journal' # {} \/ journalDur' # {} => IsPlan(plan)
    PROVE  RowsInv'
<1>1. JobFits(job)'
  BY DEF JobFits, IsJob, IsPlan
<1>2. BinFits(bin)' /\ BinFits(binDur)'
  BY DEF BinFits, IsPlan
<1>3. Planful'
  BY <1>2 DEF RowsInv, Planful, IsPlan
<1> QED BY <1>1, <1>3 DEF RowsInv, RowsBacked

LEMMA TransferKept ==
    ASSUME RowsInv, JobFits(job'), UNCHANGED <<vrows, cas, meta, plan, rows, bin>>,
           binDur' \in {binDur, bin},
           job.kind \in {"delete", "restore"} \/ UNCHANGED <<journal, journalDur>>
    PROVE  RowsInv'
<1>1. journal' # {} \/ journalDur' # {} => IsPlan(plan)
  BY DEF RowsInv, JobFits, Planful
<1> QED BY <1>1, PlansKept DEF RowsInv, Planful

LEMMA PurgeKept ==
    ASSUME RowsInv, JobFits(job'), UNCHANGED <<vrows, cas, meta, plan, journal, journalDur>>,
           rows' \in {rows, rows \ {job.id}, rows \cup {job.id}}, job.kind = "purge",
           NEW b, b = [i \in Ids |-> b[i]], \A i \in Ids : i # job.id => b[i] = bin[i],
           bin' \in {bin, b}, binDur' \in {binDur, bin, b}
    PROVE  RowsInv'
<1>1. job.id \in Ids /\ IsPlan(meta[job.id])
  BY DEF RowsInv, JobFits
<1>2. BinFits(b)
  BY <1>1 DEF RowsInv, Planful, BinFits
<1>3. BinFits(bin') /\ BinFits(binDur')
  BY <1>2 DEF RowsInv, Planful
<1>4. rows' \subseteq Ids /\ \A i \in rows' : IsPlan(meta[i])
  BY <1>1 DEF RowsInv, Planful
<1> QED BY <1>3, <1>4, PlansKept DEF RowsInv, Planful

\* The steps of a transfer keep the plans.
LEMMA TransferRows ==
    ASSUME RowsInv, NEW o, TransferStep(o) PROVE RowsInv'
<1> DEFINE Still == UNCHANGED <<vrows, cas, meta, plan, rows, bin>> /\ binDur' \in {binDur, bin}
<1> USE DEF At
<1>0. JobFits(job) /\ (Go => Onward) /\ \A x : Stop(x) => job' = Idle
  BY DEF RowsInv, Go, Stop
<1>1. CASE PublishRecord(o)
  <2>1. job.at \in {"prepared", "copying", "ready", "committed", "completed"}
    BY <1>1 DEF PublishRecord, Range, Decisions
  <2>2. job.kind \in {"delete", "restore"}
    BY <1>0, <2>1, TransferKind
  <2>3. Go \/ End \/ RollBack("prepared") \/ RollBack("ready") \/ Stop(TRUE)
    BY <1>1, Zenon DEF PublishRecord
  <2>4. JobFits(job')
    BY <1>0, <2>1, <2>2, <2>3, GoFits, StopFits, RollBackFits DEF End
  <2>5. Still
    BY <1>1 DEF PublishRecord, KeepTrash, KeepDb, dbVars, Keep
  <2> QED BY <2>2, <2>4, <2>5, TransferKept
<1>2. CASE CleanRecord(o)
  <2>1. job.at = "clean"
    BY <1>2 DEF CleanRecord
  <2>2. job.kind \in {"delete", "restore"}
    BY <1>0, <2>1, TransferKind
  <2>3. job' = job \/ Stop(TRUE)
    BY <1>2 DEF CleanRecord, RemoveJournalFile
  <2>4. JobFits(job')
    BY <1>0, <2>3, StopFits
  <2>5. Still
    BY <1>2 DEF CleanRecord, KeepTrash, KeepDb, dbVars, Keep
  <2> QED BY <2>2, <2>4, <2>5, TransferKept
<1>3. CASE CreateBox(o)
  <2>1. job.at = "box"
    BY <1>3 DEF CreateBox
  <2>2. job.kind \in {"delete", "restore"}
    BY <1>0, <2>1, TransferKind
  <2>3. Go \/ RollBack("prepared")
    BY <1>3 DEF CreateBox
  <2>4. JobFits(job')
    BY <1>0, <2>1, <2>2, <2>3, GoFits, RollBackFits
  <2>5. Still
    BY <1>3 DEF CreateBox, SetBox, SetTrash, Durable, KeepTrash, KeepDb, dbVars, Keep
  <2> QED BY <2>2, <2>4, <2>5, TransferKept
<1>4. CASE RemoveMarker(o)
  <2>1. job.at = "unmark"
    BY <1>4 DEF RemoveMarker
  <2>2. job.kind \in {"delete", "restore"}
    BY <1>0, <2>1, TransferKind
  <2>3. Go \/ Stop(TRUE)
    BY <1>4 DEF RemoveMarker
  <2>4. JobFits(job')
    BY <1>0, <2>1, <2>3, GoFits, StopFits
  <2>5. Still
    BY <1>4 DEF RemoveMarker, SetBox, SetTrash, Durable, KeepTrash, KeepDb, dbVars, Keep
  <2> QED BY <2>2, <2>4, <2>5, TransferKept
<1>5. CASE CaptureSource(o)
  <2>1. job.at = "capture"
    BY <1>5 DEF CaptureSource
  <2>2. job.kind \in {"delete", "restore"}
    BY <1>0, <2>1, TransferKind
  <2>3. Go \/ RollBack("copying")
    BY <1>5 DEF CaptureSource
  <2>4. JobFits(job')
    BY <1>0, <2>1, <2>2, <2>3, GoFits, RollBackFits
  <2>5. Still
    BY <1>5 DEF CaptureSource, KeepTrash, KeepDb, dbVars, Keep
  <2> QED BY <2>2, <2>4, <2>5, TransferKept
<1>6. CASE PublishItem(o)
  <2>1. job.at = "publish"
    BY <1>6 DEF PublishItem
  <2>2. job.kind \in {"delete", "restore"}
    BY <1>0, <2>1, TransferKind
  <2>3. Go \/ RollBack("ready")
    BY <1>6 DEF PublishItem
  <2>4. JobFits(job')
    BY <1>0, <2>1, <2>2, <2>3, GoFits, RollBackFits
  <2>5. Still
    BY <1>6 DEF PublishItem, SetTrash, Durable, KeepTrash, KeepDb, dbVars, Keep
  <2> QED BY <2>2, <2>4, <2>5, TransferKept
<1>7. CASE PublishDestination(o)
  <2>1. job.at = "publish"
    BY <1>7 DEF PublishDestination
  <2>2. job.kind \in {"delete", "restore"}
    BY <1>0, <2>1, TransferKind
  <2>3. Go \/ RollBack("ready") \/ Stop(TRUE)
    BY <1>7 DEF PublishDestination
  <2>4. JobFits(job')
    BY <1>0, <2>1, <2>2, <2>3, GoFits, RollBackFits, StopFits
  <2>5. Still
    BY <1>7 DEF PublishDestination, KeepTrash, KeepDb, dbVars, Keep
  <2> QED BY <2>2, <2>4, <2>5, TransferKept
<1>8. CASE Deliver(o)
  <2> DEFINE skip == DOMAIN Planned(Called) = {}
             res == IF Called = "share" THEN CallShares ELSE CallFavorites
             hard == ~skip /\ (res.err \/ o = "fail")
             w == job.warn \/ o = "lag"
             h == job.hard \cup (IF hard THEN {IF res.err THEN "conflict" ELSE "fault"} ELSE {})
             j == [job EXCEPT !.warn = w, !.hard = h]
  <2>1. /\ job.at \in {"apply", "applied", "complete", "purgeComplete"}
        /\ \/ job.at = "apply" /\ (job' = [j EXCEPT !.sub = 3] \/ RollBack("ready"))
           \/ Delivered(j)
           \/ job' = [j EXCEPT !.sub = 2]
    <3>1. /\ job.at \in {"apply", "applied", "complete", "purgeComplete"}
          /\ CASE hard /\ job.at = "apply" ->
                    IF job.sub = 2 /\ DOMAIN plan.shares # {}
                      THEN job' = [j EXCEPT !.sub = 3] /\ UNCHANGED <<blocked, sys>>
                      ELSE RollBack("ready")
               [] hard /\ job.at = "applied" -> Delivered(j)
               [] job.sub = 1 -> job' = [j EXCEPT !.sub = 2] /\ UNCHANGED <<blocked, sys>>
               [] OTHER -> Delivered(j)
      BY <1>8 DEF Deliver
    <3> HIDE DEF hard, j
    <3> QED BY <3>1, Zenon
  <2> HIDE DEF skip, res, hard, w, h
  <2>2. IsJob(j) /\ j.kind = job.kind /\ j.at = job.at /\ j.id = job.id
    BY <1>0 DEF JobFits, IsJob
  <2> HIDE DEF j
  <2>3. ASSUME NEW k, NEW sub, NEW try, NEW warn,
               k = [j EXCEPT !.sub = sub] \/ k = [j EXCEPT !.try = try, !.sub = sub, !.warn = warn]
        PROVE  JobFits(k)
    <3>1. IsJob(k) /\ k.kind = j.kind /\ k.at = j.at /\ k.id = j.id
      BY <2>2, <2>3 DEF IsJob
    <3> QED BY <1>0, <2>2, <3>1, SameFits
  <2>4. Delivered(j) => JobFits(job')
    <3>1. Delivered(j) =>
            (\E x : Stop(x)) \/ Go \/ job' = [j EXCEPT !.try = 2, !.sub = 1, !.warn = FALSE]
      BY DEF Delivered
    <3> QED BY <1>0, <2>1, <2>3, <3>1, GoFits, StopFits
  <2>5. job.at = "apply" /\ RollBack("ready") => JobFits(job')
    BY <1>0, TransferKind, RollBackFits
  <2>6. JobFits(job')
    BY <2>1, <2>3, <2>4, <2>5
  <2>7. Still /\ UNCHANGED <<journal, journalDur>>
    BY <1>8 DEF Deliver, KeepTrash, KeepJournal, KeepDb, dbVars, Keep
  <2> QED BY <2>6, <2>7, TransferKept
<1>9. CASE UndoApply(o)
  <2>1. job.at = "apply"
    BY <1>9 DEF UndoApply
  <2>2. job.kind \in {"delete", "restore"}
    BY <1>0, <2>1, TransferKind
  <2>3. RollBack("ready")
    BY <1>9 DEF UndoApply
  <2>4. JobFits(job')
    BY <1>0, <2>2, <2>3, RollBackFits
  <2>5. Still
    BY <1>9 DEF UndoApply, KeepTrash, KeepDb, dbVars, Keep
  <2> QED BY <2>2, <2>4, <2>5, TransferKept
<1>10. ASSUME NEW n, job' = [job EXCEPT !.sub = n] PROVE JobFits(job')
  <2>1. IsJob(job') /\ job'.kind = job.kind /\ job'.at = job.at /\ job'.id = job.id
    BY <1>0, <1>10 DEF JobFits, IsJob
  <2> QED BY <1>0, <2>1, SameFits
<1>11. CASE UndoSource(o)
  <2>1. job.at = "undo" /\ ((\E n : UndoNext(n)) \/ (\E x : Stop(x)))
    BY <1>11 DEF UndoSource, Undoing
  <2>2. job.kind \in {"delete", "restore"}
    BY <1>0, <2>1, TransferKind
  <2>4. JobFits(job')
    BY <1>0, <1>10, <2>1, StopFits DEF UndoNext
  <2>5. Still
    BY <1>11 DEF UndoSource, KeepTrash, KeepDb, dbVars, Keep
  <2> QED BY <2>2, <2>4, <2>5, TransferKept
<1>12. CASE UndoFavorites(o)
  <2>1. job.at = "undo" /\ \E h : job' = [job EXCEPT !.sub = 3, !.hard = h]
    BY <1>12 DEF UndoFavorites, Undoing
  <2>2. job.kind \in {"delete", "restore"}
    BY <1>0, <2>1, TransferKind
  <2>3. IsJob(job') /\ job'.kind = job.kind /\ job'.at = job.at /\ job'.id = job.id
    BY <1>0, <2>1 DEF JobFits, IsJob
  <2>4. JobFits(job')
    BY <1>0, <2>3, SameFits
  <2>5. Still
    BY <1>12 DEF UndoFavorites, KeepTrash, KeepDb, dbVars, Keep
  <2> QED BY <2>2, <2>4, <2>5, TransferKept
<1>13. CASE UndoShares(o)
  <2>1. job.at = "undo" /\ ((\E n : UndoNext(n)) \/ (\E x : Stop(x)))
    BY <1>13 DEF UndoShares, Undoing
  <2>2. job.kind \in {"delete", "restore"}
    BY <1>0, <2>1, TransferKind
  <2>4. JobFits(job')
    BY <1>0, <1>10, <2>1, StopFits DEF UndoNext
  <2>5. Still
    BY <1>13 DEF UndoShares, KeepTrash, KeepDb, dbVars, Keep
  <2> QED BY <2>2, <2>4, <2>5, TransferKept
<1>14. CASE UndoRecord(o)
  <2>1. job.at = "undo" /\ (job' = job \/ Stop(TRUE))
    BY <1>14 DEF UndoRecord, Undoing, RemoveJournalFile
  <2>2. job.kind \in {"delete", "restore"}
    BY <1>0, <2>1, TransferKind
  <2>4. JobFits(job')
    BY <1>0, <2>1, StopFits
  <2>5. Still
    BY <1>14 DEF UndoRecord, KeepTrash, KeepDb, dbVars, Keep
  <2> QED BY <2>2, <2>4, <2>5, TransferKept
<1> QED
  BY <1>1, <1>2, <1>3, <1>4, <1>5, <1>6, <1>7, <1>8, <1>9, <1>11, <1>12, <1>13, <1>14 DEF TransferStep

\* The other steps of a transfer.
LEMMA TransferMoves ==
    ASSUME RowsInv, NEW o, CopyContent(o) \/ RemoveSource(o) \/ Acknowledge(o) \/ UndoReplica(o)
    PROVE  RowsInv'
<1> DEFINE Still == UNCHANGED <<vrows, cas, meta, plan, rows, bin>> /\ binDur' \in {binDur, bin}
<1> USE DEF At
<1>0. JobFits(job) /\ (Go => Onward) /\ \A x : Stop(x) => job' = Idle
  BY DEF RowsInv, Go, Stop
<1>1. job.at \in {"copy", "remove", "ack", "undo"}
  BY DEF CopyContent, RemoveSource, Acknowledge, UndoReplica, Undoing
<1>2. job.kind \in {"delete", "restore"}
  BY <1>0, <1>1, TransferKind
<1>3. CASE CopyContent(o)
  <2>1. job.at = "copy" /\ (Go \/ RollBack("copying"))
    BY <1>3 DEF CopyContent
  <2>2. JobFits(job')
    BY <1>0, <1>2, <2>1, GoFits, RollBackFits
  <2>3. Still
    BY <1>3 DEF CopyContent, SetBox, SetTrash, Durable, KeepTrash, KeepDb, dbVars, Keep
  <2> QED BY <1>2, <2>2, <2>3, TransferKept
<1>4. CASE RemoveSource(o)
  <2>1. job.at = "remove" /\ (Go \/ \E x : Stop(x))
    BY <1>4 DEF RemoveSource
  <2>2. JobFits(job')
    BY <1>0, <2>1, GoFits, StopFits
  <2>3. Still
    BY <1>4 DEF RemoveSource, SetTrash, Durable, KeepTrash, KeepDb, dbVars, Keep
  <2> QED BY <1>2, <2>2, <2>3, TransferKept
<1>5. CASE Acknowledge(o)
  <2>1. job.at = "ack" /\ (Go \/ Stop(TRUE))
    BY <1>5 DEF Acknowledge
  <2>2. JobFits(job')
    BY <1>0, <2>1, GoFits, StopFits
  <2>3. Still
    BY <1>5 DEF Acknowledge, KeepTrash, Keep
  <2> QED BY <1>2, <2>2, <2>3, TransferKept
<1>6. CASE UndoReplica(o)
  <2>1. UndoNext(5) \/ Stop(TRUE)
    BY <1>6 DEF UndoReplica
  <2>2. UndoNext(5) => IsJob(job') /\ job'.kind = job.kind /\ job'.at = job.at /\ job'.id = job.id
    BY <1>0 DEF JobFits, IsJob, UndoNext
  <2>3. JobFits(job')
    BY <1>0, <2>1, <2>2, SameFits, StopFits
  <2>4. Still
    BY <1>6 DEF UndoReplica, SetTrash, Durable, KeepTrash, KeepDb, dbVars, Keep
  <2> QED BY <1>2, <2>3, <2>4, TransferKept
<1> QED BY <1>3, <1>4, <1>5, <1>6

\* A restore commits: the history moves with the item.
LEMMA CommitRows ==
    ASSUME RowsInv, NEW o, CommitDb(o) PROVE RowsInv'
<1>0. JobFits(job) /\ (Go => Onward) /\ (Stop(TRUE) => job' = Idle)
  BY DEF RowsInv, Go, Stop
<1>1. /\ job.at = "commit" /\ (Go \/ RollBack("ready") \/ Stop(TRUE))
      /\ Committed \/ UNCHANGED <<rows, meta, index, vrows, oprow>>
  BY DEF CommitDb, At
<1>2. job.kind \in {"delete", "restore"} /\ IsPlan(plan)
  BY <1>0, <1>1, TransferKind
<1>3. JobFits(job')
  BY <1>0, <1>1, <1>2, GoFits, RollBackFits, StopFits
<1>4. UNCHANGED <<cas, plan, bin, binDur, journal, journalDur>>
  BY DEF CommitDb, KeepTrash, KeepJournal
<1>5. job'.kind # "purge"
  <2>1. IsJob(job)
    BY <1>0 DEF JobFits
  <2>2. Go => job'.kind = job.kind
    BY <2>1 DEF Go, Onward, IsJob
  <2>3. RollBack("ready") => job'.kind = job.kind
    BY <2>1 DEF RollBack, IsJob
  <2>4. Stop(TRUE) => job'.kind = "none"
    BY DEF Stop, Idle
  <2> QED BY <1>1, <1>2, <2>2, <2>3, <2>4
<1>6. CASE UNCHANGED <<rows, meta, index, vrows, oprow>>
  BY <1>2, <1>3, <1>4, <1>6, TransferKept
<1>7. CASE Committed /\ job.kind = "delete"
  <2>1. /\ rows' = rows \cup {plan.id} /\ meta' = [meta EXCEPT ![plan.id] = plan] /\ vrows' = vrows
    BY <1>7 DEF Committed
  <2>2. DOMAIN meta' = Ids /\ \A i \in Ids : meta'[i] = IF i = plan.id THEN plan ELSE meta[i]
    BY <2>1 DEF RowsInv, Planful
  <2>3. \A i \in Ids : IsPlan(meta[i]) => IsPlan(meta'[i])
    BY <1>2, <2>2
  <2>4. Planful'
    <3>1. BinFits(bin)' /\ BinFits(binDur)'
      BY <1>4, <2>3 DEF RowsInv, Planful, BinFits, IsPlan
    <3>2. rows' \subseteq Ids /\ \A i \in rows' : IsPlan(meta'[i])
      BY <1>2, <2>1, <2>2, <2>3 DEF RowsInv, Planful, IsPlan
    <3> QED BY <1>2, <1>4, <2>2, <3>1, <3>2 DEF Planful, IsPlan
  <2>5. JobFits(job)'
    BY <1>3, <1>4, <1>5 DEF JobFits, IsJob, IsPlan
  <2> QED BY <1>4, <2>1, <2>4, <2>5 DEF RowsInv, RowsBacked
<1>8. CASE Committed /\ job.kind # "delete"
  <2>1. /\ rows' = rows \ {plan.id} /\ meta' = meta
        /\ vrows' = IF plan.had /\ plan.dest # plan.orig
                      THEN [vrows EXCEPT ![plan.dest] = vrows[plan.orig], ![plan.orig] = {}]
                      ELSE vrows
    BY <1>8 DEF Committed
  <2>2. plan.orig \in Paths /\ plan.dest \in Paths
    BY <1>2 DEF IsPlan
  <2>3. /\ vrows' = [p \in Paths |-> vrows'[p]]
        /\ \A p \in Paths : vrows'[p] \in {{}, vrows[p], vrows[plan.orig]}
    <3>1. vrows = [p \in Paths |-> vrows[p]]
      BY DEF RowsInv
    <3>2. CASE vrows' = vrows
      BY <3>1, <3>2
    <3>3. CASE vrows' = [vrows EXCEPT ![plan.dest] = vrows[plan.orig], ![plan.orig] = {}]
      BY <2>2, <3>1, <3>3
    <3> QED BY <2>1, <3>2, <3>3
  <2>4. RowsBacked'
    BY <1>4, <2>2, <2>3 DEF RowsInv, RowsBacked
  <2>5. Planful'
    <3>1. BinFits(bin)' /\ BinFits(binDur)'
      BY <1>4, <2>1 DEF RowsInv, Planful, BinFits, IsPlan
    <3> QED BY <1>2, <1>4, <2>1, <3>1 DEF RowsInv, Planful, IsPlan
  <2>6. JobFits(job)'
    BY <1>3, <1>4, <1>5, <2>1 DEF JobFits, IsJob, IsPlan
  <2> QED BY <2>3, <2>4, <2>5, <2>6 DEF RowsInv
<1> QED BY <1>1, <1>6, <1>7, <1>8

\* The steps of a purge.
LEMMA PurgeRows ==
    ASSUME RowsInv, NEW o, PurgeStep(o) \/ PurgeRemove(o) PROVE RowsInv'
<1> DEFINE Still == UNCHANGED <<vrows, cas, meta, plan, journal, journalDur>>
<1> USE DEF At
<1>0. JobFits(job) /\ (Go => Onward) /\ \A x : Stop(x) => job' = Idle
  BY DEF RowsInv, Go, Stop
<1>1. job.at \in {"purgePrepared", "purgeMove", "purgeRow", "purgeCommitted", "purgeRemove",
                  "purgeClean", "purgeUndo"}
  BY DEF PurgeStep, PurgePrepared, PurgeMove, PurgeRow, PurgeCommitted, PurgeRemove, PurgeClean, PurgeUndo
<1>2. job.kind = "purge" /\ job.id \in Ids /\ bin = [i \in Ids |-> bin[i]]
  BY <1>0, <1>1, PurgeKind DEF RowsInv, Planful, BinFits
<1>3. ASSUME NEW v, NEW b, b = [bin EXCEPT ![job.id] = v]
      PROVE  b = [i \in Ids |-> b[i]] /\ \A i \in Ids : i # job.id => b[i] = bin[i]
  BY <1>2, <1>3
<1>4. ASSUME JobFits(job'), Still, rows' \in {rows, rows \ {job.id}, rows \cup {job.id}},
             NEW v, NEW b, b = [bin EXCEPT ![job.id] = v],
             bin' \in {bin, b}, binDur' \in {binDur, bin, b}
      PROVE  RowsInv'
  BY <1>2, <1>3, <1>4, PurgeKept
<1>5. ASSUME JobFits(job'), Still, rows' \in {rows, rows \ {job.id}, rows \cup {job.id}},
             bin' = bin, binDur' \in {binDur, bin}
      PROVE  RowsInv'
  BY <1>2, <1>5, PurgeKept
<1>6. CASE PurgePrepared(o)
  <2>1. job.at = "purgePrepared" /\ (Go \/ End \/ Stop(TRUE))
    BY <1>6 DEF PurgePrepared
  <2>2. JobFits(job')
    BY <1>0, <2>1, GoFits, StopFits DEF End
  <2>3. Still /\ rows' = rows
    BY <1>6 DEF PurgePrepared, KeepJournal, KeepDb, dbVars, Keep
  <2>4. \/ bin' = bin /\ binDur' = binDur
        \/ bin' = Rec(bin, job.id, {"prepared"}) /\ binDur' \in {binDur, bin'}
    BY <1>6 DEF PurgePrepared, KeepTrash, SetTrash, Durable
  <2>5. Rec(bin, job.id, {"prepared"}) = [bin EXCEPT ![job.id] = [bin[job.id] EXCEPT !.recs = {"prepared"}]]
    BY DEF Rec
  <2> QED BY <1>4, <1>5, <2>2, <2>3, <2>4, <2>5
<1>7. CASE PurgeMove(o)
  <2>1. job.at = "purgeMove" /\ (Go \/ PurgeFails)
    BY <1>7 DEF PurgeMove
  <2>2. JobFits(job')
    BY <1>0, <1>2, <2>1, GoFits, PurgeFailsFits
  <2>3. Still /\ rows' = rows
    BY <1>7 DEF PurgeMove, KeepJournal, KeepDb, dbVars, Keep
  <2>4. \/ bin' = bin /\ binDur' = binDur
        \/ bin' = [bin EXCEPT ![job.id] = [bin[job.id] EXCEPT !.stage = trash[job.id]]]
           /\ binDur' \in {binDur, bin'}
    BY <1>7 DEF PurgeMove, KeepTrash, SetTrash, Durable
  <2> QED BY <1>4, <1>5, <2>2, <2>3, <2>4
<1>8. CASE PurgeRow(o)
  <2>1. job.at = "purgeRow" /\ (Go \/ PurgeFails)
    BY <1>8 DEF PurgeRow
  <2>2. JobFits(job')
    BY <1>0, <1>2, <2>1, GoFits, PurgeFailsFits
  <2>3. Still /\ rows' \in {rows, rows \ {job.id}} /\ bin' = bin /\ binDur' = binDur
    BY <1>8 DEF PurgeRow, KeepTrash, KeepJournal, Keep
  <2> QED BY <1>5, <2>2, <2>3
<1>9. CASE PurgeCommitted(o)
  <2>1. job.at = "purgeCommitted" /\ (Go \/ PurgeFails \/ Stop(TRUE))
    BY <1>9 DEF PurgeCommitted
  <2>2. JobFits(job')
    BY <1>0, <1>2, <2>1, GoFits, PurgeFailsFits, StopFits
  <2>3. Still /\ rows' = rows
    BY <1>9 DEF PurgeCommitted, KeepJournal, KeepDb, dbVars
  <2> DEFINE v == [bin[job.id] EXCEPT !.recs = {"prepared", "committed"}]
  <2>4. \/ bin' = bin /\ binDur' = binDur
        \/ bin' = [bin EXCEPT ![job.id] = v] /\ binDur' \in {binDur, bin'}
    BY <1>9 DEF PurgeCommitted, KeepTrash, SetTrash, Durable, Rec
  <2> QED BY <1>4, <1>5, <2>2, <2>3, <2>4
<1>10. CASE PurgeRemove(o)
  <2>1. job.at = "purgeRemove" /\ (Go \/ End \/ Stop(TRUE))
    BY <1>10 DEF PurgeRemove
  <2>2. JobFits(job')
    BY <1>0, <2>1, GoFits, StopFits DEF End
  <2>3. Still /\ rows' = rows
    BY <1>10 DEF PurgeRemove, KeepJournal, KeepDb, dbVars, Keep
  <2>4. PICK v : \/ bin' = bin /\ binDur' = binDur
                 \/ bin' = [bin EXCEPT ![job.id] = v] /\ binDur' \in {binDur, bin'}
    BY <1>10 DEF PurgeRemove, KeepTrash, SetTrash, Durable
  <2> QED BY <1>4, <1>5, <2>2, <2>3, <2>4
<1>11. CASE PurgeClean(o)
  <2> DEFINE recs == bin[job.id].recs
             d == IF "prepared" \in recs THEN "prepared" ELSE "committed"
             kept == Rec(bin, job.id, (recs \ {d}) \cup {"committed"})
             less == Rec(bin, job.id, recs \ {d})
  <2>1. job' = job \/ Stop(TRUE)
    BY <1>11 DEF PurgeClean
  <2>2. JobFits(job')
    BY <1>0, <2>1, StopFits
  <2>3. Still /\ rows' = rows
    BY <1>11 DEF PurgeClean, KeepJournal, KeepDb, dbVars, Keep
  <2>4. \/ bin' = bin /\ binDur' = binDur
        \/ bin' = kept /\ binDur' \in {binDur, kept}
        \/ bin' = less /\ binDur' \in {binDur, less}
    BY <1>11 DEF PurgeClean, KeepTrash, SetTrash, Durable
  <2>5. /\ kept = [bin EXCEPT ![job.id] = [bin[job.id] EXCEPT !.recs = (recs \ {d}) \cup {"committed"}]]
        /\ less = [bin EXCEPT ![job.id] = [bin[job.id] EXCEPT !.recs = recs \ {d}]]
    BY DEF Rec
  <2> HIDE DEF recs, d, kept, less
  <2> QED BY <1>4, <1>5, <2>2, <2>3, <2>4, <2>5
<1>12. CASE PurgeUndo(o)
  <2>1. (\E n : job' = [job EXCEPT !.sub = n]) \/ (\E x : Stop(x))
    BY <1>12 DEF PurgeUndo
  <2>2. (\E n : job' = [job EXCEPT !.sub = n]) =>
           IsJob(job') /\ job'.kind = job.kind /\ job'.at = job.at /\ job'.id = job.id
    BY <1>0 DEF JobFits, IsJob
  <2>3. JobFits(job')
    BY <1>0, <2>1, <2>2, SameFits, StopFits
  <2>4. Still /\ rows' \in {rows, rows \cup {job.id}}
    BY <1>12 DEF PurgeUndo, KeepJournal, Keep
  <2> DEFINE b == [bin EXCEPT ![job.id].stage = Gone]
  <2>5. \/ bin' = bin /\ binDur' = binDur
        \/ bin' \in {b, Rec(b, job.id, {})} /\ binDur' \in {binDur, bin'}
    BY <1>12 DEF PurgeUndo, KeepTrash, Durable
  <2>6. /\ b = [i \in Ids |-> b[i]] /\ \A i \in Ids : i # job.id => b[i] = bin[i]
    BY <1>2
  <2>7. /\ Rec(b, job.id, {}) = [i \in Ids |-> Rec(b, job.id, {})[i]]
        /\ \A i \in Ids : i # job.id => Rec(b, job.id, {})[i] = bin[i]
    <3> HIDE DEF b
    <3> QED BY <1>2, <2>6 DEF Rec
  <2> HIDE DEF b
  <2>8. CASE bin' = bin /\ binDur' = binDur
    BY <1>5, <2>3, <2>4, <2>8
  <2>9. CASE bin' = b /\ binDur' \in {binDur, b}
    BY <1>2, <2>3, <2>4, <2>6, <2>9, PurgeKept
  <2>10. CASE bin' = Rec(b, job.id, {}) /\ binDur' \in {binDur, Rec(b, job.id, {})}
    BY <1>2, <2>3, <2>4, <2>7, <2>10, PurgeKept
  <2> QED BY <2>5, <2>8, <2>9, <2>10
<1> QED BY <1>6, <1>7, <1>8, <1>9, <1>10, <1>11, <1>12 DEF PurgeStep

\* The rows go before the objects, and only objects no row names.
LEMMA VersionRows ==
    ASSUME RowsInv, NEW o, PurgeVersions(o) PROVE RowsInv'
<1>1. JobFits(job) /\ job.at = "purgeVersions" /\ (Go \/ Stop(TRUE))
  BY DEF RowsInv, PurgeVersions, At
<1>2. JobFits(job')
  BY <1>1, GoFits, StopFits DEF Go, Stop
<1>3. UNCHANGED <<meta, plan, rows, bin, binDur, journal, journalDur>>
  BY DEF PurgeVersions, KeepTrash, KeepJournal, Keep
<1>4. \/ vrows' = vrows /\ cas' = cas
      \/ /\ vrows' = [vrows EXCEPT ![meta[job.id].orig] = {}]
         /\ cas' \in {cas, cas \ Unreferenced(hashes[job.id], vrows')}
  BY DEF PurgeVersions
<1>5. CASE vrows' = vrows /\ cas' = cas
  BY <1>2, <1>3, <1>5, TransferKept
<1>6. CASE /\ vrows' = [vrows EXCEPT ![meta[job.id].orig] = {}]
           /\ cas' \in {cas, cas \ Unreferenced(hashes[job.id], vrows')}
  <2>1. /\ vrows' = [p \in Paths |-> vrows'[p]]
        /\ \A p \in Paths : vrows'[p] \in {{}, vrows[p]}
    <3>1. vrows = [p \in Paths |-> vrows[p]]
      BY DEF RowsInv
    <3> QED BY <1>6, <3>1
  <2>2. ASSUME NEW p \in Paths, NEW h \in vrows'[p] PROVE h \in cas'
    <3>1. h \in cas
      BY <2>1, <2>2 DEF RowsInv, RowsBacked
    <3>2. h \notin Unreferenced(hashes[job.id], vrows')
      BY <2>2 DEF Unreferenced
    <3> QED BY <1>6, <3>1, <3>2
  <2>3. RowsBacked'
    BY <2>2 DEF RowsBacked
  <2>4. BinFits(bin)' /\ BinFits(binDur)' /\ JobFits(job)'
    BY <1>2, <1>3 DEF RowsInv, Planful, BinFits, IsPlan, JobFits, IsJob
  <2>5. Planful'
    BY <1>3, <2>4 DEF RowsInv, Planful, IsPlan
  <2> QED BY <2>1, <2>3, <2>4, <2>5 DEF RowsInv
<1> QED BY <1>4, <1>5, <1>6

\* The startup.
LEMMA ScanRows ==
    ASSUME RowsInv, NEW o, ScanPurges(o) PROVE RowsInv'
<1> DEFINE undecided == {i \in Ids : bin[i].recs = {"prepared"}}
           decided == {i \in Ids : "committed" \in bin[i].recs}
           start(i, at) == job' = [Idle EXCEPT !.kind = "purge", !.at = at, !.id = i, !.how = "start"]
<1>1. JobFits(job) /\ job.at = "scan" /\ job.kind = "none"
  BY StepNames DEF RowsInv, ScanPurges, At, JobFits
<1>2. UNCHANGED <<vrows, cas, meta, plan, bin, journal, journalDur>> /\ binDur' \in {binDur, bin}
  BY DEF ScanPurges, KeepJournal
<1>3. /\ rows' \subseteq rows
      /\ \/ \E x : Stop(x)
         \/ \E i \in undecided : start(i, "purgeUndo")
         \/ \E i \in decided : start(i, "purgeRemove")
         \/ job' = [job EXCEPT !.at = "classify"]
  BY DEF ScanPurges
<1>4. JobFits(job')
  <2>1. CASE \E x : Stop(x)
    BY <1>1, <2>1, StopFits DEF Stop
  <2>2. ASSUME NEW i \in undecided \cup decided, NEW at \in {"purgeUndo", "purgeRemove"}, start(i, at)
        PROVE  JobFits(job')
    <3>1. i \in Ids /\ IsPlan(meta[i])
      BY <2>2 DEF RowsInv, Planful, BinFits
    <3>2. at \in StepsOf("purge") \cup {"purgeUndo"}
      BY StepNames
    <3>3. IsJob(job') /\ job'.kind = "purge" /\ job'.at = at /\ job'.id = i
      BY <2>2 DEF Idle, IsJob
    <3> QED BY <3>1, <3>2, <3>3 DEF JobFits
  <2>3. CASE job' = [job EXCEPT !.at = "classify"]
    <3>1. IsJob(job') /\ job'.kind = "none" /\ job'.at = "classify"
      BY <1>1, <2>3 DEF JobFits, IsJob
    <3> QED BY <3>1, IdleFits
  <2> QED BY <1>3, <2>1, <2>2, <2>3
<1>5. rows' \subseteq Ids /\ \A i \in rows' : IsPlan(meta[i])
  BY <1>3 DEF RowsInv, Planful
<1> QED BY <1>2, <1>4, <1>5, PlansKept DEF RowsInv, Planful

LEMMA ClassifyRows ==
    ASSUME RowsInv, Classify PROVE RowsInv'
<1>1. JobFits(job) /\ UNCHANGED <<vrows, cas, meta, plan, rows, bin, binDur, journal, journalDur>>
  BY DEF RowsInv, Classify, diskVars, dbVars
<1>2. \/ job' = Idle
      \/ /\ Resume \notin {"refuse", "nothing"}
         /\ \E rec : job' = [Idle EXCEPT !.kind = plan.kind, !.id = plan.id, !.how = "start",
                                         !.at = Resume, !.rec = rec]
  BY DEF Classify, Stop
<1>3. CASE job' = Idle
  BY <1>1, <1>3, StopFits, TransferKept
<1>4. CASE /\ Resume \notin {"refuse", "nothing"}
           /\ \E rec : job' = [Idle EXCEPT !.kind = plan.kind, !.id = plan.id, !.how = "start",
                                           !.at = Resume, !.rec = rec]
  <2>1. journal # {}
    BY <1>4 DEF Resume
  <2>2. Resume \in {"complete", "applied", "committed", "publish", "undo"}
    BY <1>4 DEF Resume
  <2>3. IsPlan(plan)
    BY <2>1 DEF RowsInv, Planful
  <2> DEFINE at == Resume
  <2>4. IsJob(job') /\ job'.kind = plan.kind /\ job'.at = at
    <3> HIDE DEF at
    <3>1. \E rec : job' = [Idle EXCEPT !.kind = plan.kind, !.id = plan.id, !.how = "start",
                                       !.at = at, !.rec = rec]
      BY <1>4 DEF at
    <3> QED BY <3>1 DEF Idle, IsJob
  <2>5. JobFits(job')
    BY <2>2, <2>3, <2>4, StepNames DEF JobFits, IsPlan
  <2> QED BY <1>1, <2>5, TransferKept
<1> QED BY <1>2, <1>3, <1>4

\* Ends and restarts.
LEMMA EndRows ==
    ASSUME RowsInv, Cleaned \/ Undone \/ PurgeDone \/ Restart PROVE RowsInv'
<1>1. JobFits(job) /\ UNCHANGED <<vrows, cas, meta, plan, rows, bin, binDur, journal, journalDur>>
  BY DEF RowsInv, Cleaned, Undone, PurgeDone, Restart, RemoveJournalDir, diskVars, dbVars
<1>2. job' = Idle \/ job' = [Idle EXCEPT !.at = "scan", !.how = "start"]
  BY DEF Cleaned, Undone, PurgeDone, Restart
<1>3. IsJob(job') /\ job'.kind = "none" /\ job'.at \in {"idle", "scan"}
  <2>1. CASE job' = Idle
    BY <2>1 DEF Idle, IsJob
  <2>2. CASE job' = [Idle EXCEPT !.at = "scan", !.how = "start"]
    BY <2>2 DEF Idle, IsJob
  <2> QED BY <1>2, <2>1, <2>2
<1>4. JobFits(job')
  BY <1>3, IdleFits
<1> QED BY <1>1, <1>4, TransferKept

\* Requests.
LEMMA RequestRows ==
    ASSUME RowsInv, NEW i \in Ids, NEW p \in Paths, Delete(i, p) \/ Restore(i, p) PROVE RowsInv'
<1>1. UNCHANGED <<vrows, cas, meta, rows, bin, binDur, journal, journalDur>>
  BY DEF Delete, Restore, diskVars, dbVars
<1>2. IsPlan(plan') /\ job' \in {[Idle EXCEPT !.kind = k, !.at = "prepared", !.id = i] : k \in {"delete", "restore"}}
  <2>1. CASE Delete(i, p)
    BY <2>1 DEF Delete, IsPlan
  <2>2. CASE Restore(i, p)
    <3>1. IsPlan(meta[i])
      BY <2>2 DEF RowsInv, Planful, Restore
    <3>2. plan' = [meta[i] EXCEPT !.kind = "restore", !.dest = p]
      BY <2>2 DEF Restore
    <3> QED BY <2>2, <3>1, <3>2 DEF Restore, IsPlan
  <2> QED BY <2>1, <2>2
<1>3. IsJob(job') /\ job'.kind \in {"delete", "restore"} /\ job'.at = "prepared"
  BY <1>2 DEF Idle, IsJob
<1>4. JobFits(job)'
  BY <1>2, <1>3, StepNames DEF JobFits, IsJob, IsPlan
<1>5. BinFits(bin)' /\ BinFits(binDur)'
  BY <1>1 DEF RowsInv, Planful, BinFits, IsPlan
<1>6. Planful'
  BY <1>1, <1>2, <1>5 DEF RowsInv, Planful, IsPlan
<1> QED BY <1>1, <1>4, <1>6 DEF RowsInv, RowsBacked

LEMMA PurgeRequestRows ==
    ASSUME RowsInv, NEW i \in Ids, Purge(i) PROVE RowsInv'
<1>1. /\ UNCHANGED <<vrows, cas, meta, plan, rows, bin, binDur, journal, journalDur>>
      /\ job' = [Idle EXCEPT !.kind = "purge", !.at = "purgePrepared", !.id = i] /\ i \in rows
  BY DEF Purge, diskVars
<1>2. IsJob(job') /\ job'.kind = "purge" /\ job'.at = "purgePrepared" /\ job'.id = i
  BY <1>1 DEF Idle, IsJob
<1>3. JobFits(job')
  BY <1>1, <1>2, StepNames DEF JobFits, RowsInv, Planful
<1> QED BY <1>1, <1>3, TransferKept

LEMMA WriteRows ==
    ASSUME RowsInv, NEW p \in Paths, NEW t \in Trees, WriteFile(p, t) PROVE RowsInv'
<1>1. UNCHANGED <<meta, plan, rows, bin, binDur, journal, journalDur, job>>
  BY DEF WriteFile, KeepTrash, KeepJournal, runVars
<1>2. \/ vrows' = vrows /\ cas' = cas
      \/ /\ vrows' = [vrows EXCEPT ![p] = @ \cup {files[p].tree}] /\ cas' = cas \cup {files[p].tree}
  BY DEF WriteFile
<1>3. vrows' = [q \in Paths |-> vrows'[q]] /\ RowsBacked'
  <2>1. vrows = [q \in Paths |-> vrows[q]]
    BY DEF RowsInv
  <2> QED BY <1>2, <2>1 DEF RowsInv, RowsBacked
<1>4. BinFits(bin)' /\ BinFits(binDur)' /\ JobFits(job)'
  BY <1>1 DEF RowsInv, Planful, BinFits, IsPlan, JobFits, IsJob
<1>5. Planful'
  BY <1>1, <1>4 DEF RowsInv, Planful, IsPlan
<1> QED BY <1>3, <1>4, <1>5 DEF RowsInv

LEMMA LossRows ==
    ASSUME RowsInv, Kill \/ PowerLoss PROVE RowsInv'
<1>1. /\ UNCHANGED <<vrows, cas, meta, plan, rows>> /\ job' = Idle
      /\ bin' \in {bin, binDur} /\ binDur' \in {bin, binDur}
      /\ journal' \in {journal, journalDur} /\ journalDur' \in {journal, journalDur}
  BY DEF Kill, PowerLoss, diskVars, dbVars
<1>2. JobFits(job')
  BY <1>1, StopFits DEF RowsInv
<1>3. BinFits(bin') /\ BinFits(binDur') /\ (journal' # {} \/ journalDur' # {} => IsPlan(plan))
  BY <1>1 DEF RowsInv, Planful
<1> QED BY <1>1, <1>2, <1>3, PlansKept DEF RowsInv, Planful

LEMMA RowsStep ==
    ASSUME RowsInv, [Next]_vars PROVE RowsInv'
<1>1. ASSUME NEW o, ShareEdits(o) PROVE RowsInv'
  <2>1. UNCHANGED <<vrows, cas, meta, plan, rows, bin, binDur, journal, journalDur, job>>
    BY <1>1 DEF ShareEdits, EditShare, diskVars, dbVars, runVars
  <2> QED BY <2>1, TransferKept DEF RowsInv
<1>2. ASSUME NEW o, FavoriteEdits(o) PROVE RowsInv'
  <2>1. UNCHANGED <<vrows, cas, meta, plan, rows, bin, binDur, journal, journalDur, job>>
    BY <1>2 DEF FavoriteEdits, diskVars, dbVars, runVars
  <2> QED BY <2>1, TransferKept DEF RowsInv
<1>3. ASSUME Finished \/ UNCHANGED vars PROVE RowsInv'
  <2>1. UNCHANGED <<vrows, cas, meta, plan, rows, bin, binDur, journal, journalDur, job>>
    BY <1>3 DEF Finished, vars, diskVars, dbVars, runVars
  <2> QED BY <2>1, TransferKept DEF RowsInv
<1> QED
  BY <1>1, <1>2, <1>3, TransferRows, TransferMoves, CommitRows, PurgeRows, VersionRows, ScanRows,
     ClassifyRows, EndRows, RequestRows, PurgeRequestRows, WriteRows, LossRows DEF Next

LEMMA RowsStart ==
    ASSUME Init PROVE RowsInv
<1>1. /\ vrows = [p \in Paths |-> {}] /\ rows = {} /\ meta = [i \in Ids |-> NoPlan]
      /\ bin = [i \in Ids |-> [stage |-> Gone, recs |-> {}]] /\ binDur = bin
      /\ journal = {} /\ journalDur = journal /\ job = Idle
  BY DEF Init
<1>2. BinFits(bin)
  BY <1>1 DEF BinFits
<1>3. JobFits(job)
  <2>1. IsJob(Idle) /\ Idle.kind = "none" /\ Idle.at = "idle"
    BY DEF Idle, IsJob
  <2> QED BY <1>1, <2>1, IdleFits
<1>4. vrows = [p \in Paths |-> vrows[p]] /\ RowsBacked
  BY <1>1 DEF RowsBacked
<1> QED BY <1>1, <1>2, <1>3, <1>4 DEF RowsInv, Planful

\* Every version row has its object, however many writes, deletions, restores to other
\* paths, purges, failures and crashes there were and whenever a purge is finished.
THEOREM RowsStayBacked == Spec => []RowsBacked
<1>1. Init => RowsInv
  BY RowsStart
<1>2. RowsInv /\ [Next]_vars => RowsInv'
  BY RowsStep
<1>3. RowsInv => RowsBacked
  BY DEF RowsInv
<1> QED BY <1>1, <1>2, <1>3, PTL DEF Spec

=============================================================================
