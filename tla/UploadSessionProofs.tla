------------------------ MODULE UploadSessionProofs -------------------------
(***************************************************************************)
(* Every session directory of UploadSession stays loadable, proved for any *)
(* number of sessions, chunks, faults and crashes.                         *)
(*                                                                         *)
(* SessionOK relates the two copies of a directory to the operation and    *)
(* the handler at work on it: both copies have a gapless chain of valid    *)
(* records with at most a fitting pending one (DirOK); either copy of the  *)
(* entries can be read with either copy of the payload, which a power loss *)
(* mixes (PayloadOK); the durable state is not ahead of the visible one    *)
(* (Behind); the record being written follows the newest (OpOK); and a     *)
(* handler that decides finds the session committing and nobody else at    *)
(* work on it (HandOK).  The lemmas ending in Step prove this of values,   *)
(* those ending in Inv of the actions.  All of it assumes ~TornRemoval:    *)
(* run upload_torn_removal shows what a half-done RemoveAll leaves.        *)
(***************************************************************************)
EXTENDS UploadSession, SumProofs, SequenceTheorems, TLAPS

-----------------------------------------------------------------------------
(* Chains of state files and the directories that hold them                 *)

\* A gapless run of revisions, each with the record of its own number.
ChainOver(f, lo, hi) ==
    f \in [lo..hi -> Recs] /\ \A i \in lo..hi : f[i].rev = i /\ ValidRec(f[i])
IsChain(f) == \E lo \in Nat \ {0}, hi \in Nat : ChainOver(f, lo, hi)

\* The newest and the oldest revision of a gapless run are its ends.
LEMMA MaxOfInterval ==
    ASSUME NEW lo \in Nat, NEW hi \in Nat, lo <= hi
    PROVE  Max(lo..hi) = hi /\ Min(lo..hi) = lo
<1>1. \A x \in lo..hi : (\A y \in lo..hi : x >= y) <=> x = hi
  OBVIOUS
<1>2. \A x \in lo..hi : (\A y \in lo..hi : x =< y) <=> x = lo
  OBVIOUS
<1> QED BY <1>1, <1>2 DEF Max, Min

\* A chain that is not empty is an interval of revisions.
LEMMA ChainShape ==
    ASSUME NEW f, IsChain(f), DOMAIN f # {}
    PROVE  \E lo \in Nat \ {0}, hi \in Nat :
              /\ lo <= hi /\ ChainOver(f, lo, hi) /\ DOMAIN f = lo..hi
              /\ Max(DOMAIN f) = hi /\ Min(DOMAIN f) = lo
<1>1. PICK lo \in Nat \ {0}, hi \in Nat : ChainOver(f, lo, hi)
  BY DEF IsChain
<1>2. DOMAIN f = lo..hi /\ lo <= hi
  BY <1>1 DEF ChainOver
<1> QED BY <1>1, <1>2, MaxOfInterval

\* A directory without state files has an empty chain.
LEMMA NoChain == IsChain(<<>>) /\ DOMAIN <<>> = {}
<1>1. ChainOver(<<>>, 1, 0)
  BY DEF ChainOver
<1> QED BY <1>1 DEF IsChain

\* publishStateFile: the record of the next revision extends a chain.
LEMMA ChainAdd ==
    ASSUME NEW f, IsChain(f), NEW r \in Recs, ValidRec(r),
           DOMAIN f # {} => r.rev = Max(DOMAIN f) + 1
    PROVE  /\ IsChain(WithState(f, r)) /\ DOMAIN WithState(f, r) # {}
           /\ Max(DOMAIN WithState(f, r)) = r.rev /\ WithState(f, r)[r.rev] = r
<1> DEFINE g == WithState(f, r)
           n == r.rev
<1>0. n \in Nat \ {0}
  BY DEF Recs
<1>1. /\ DOMAIN g = {n} \cup DOMAIN f
      /\ \A i \in DOMAIN g : g[i] = IF i = n THEN r ELSE f[i]
      /\ g = [i \in DOMAIN g |-> g[i]]
  BY DEF WithState
<1> HIDE DEF g
<1>2. PICK lo \in Nat \ {0} : lo <= n /\ DOMAIN g = lo..n /\ \A i \in lo..n : g[i] \in Recs /\ g[i].rev = i /\ ValidRec(g[i])
  <2>1. CASE DOMAIN f = {}
    <3>1. DOMAIN g = n..n
      BY <1>0, <1>1, <2>1
    <3> QED BY <1>0, <1>1, <3>1
  <2>2. CASE DOMAIN f # {}
    <3>1. PICK lo \in Nat \ {0}, hi \in Nat :
                /\ lo <= hi /\ ChainOver(f, lo, hi) /\ DOMAIN f = lo..hi
                /\ Max(DOMAIN f) = hi /\ Min(DOMAIN f) = lo
      BY <2>2, ChainShape
    <3>2. n = hi + 1
      BY <2>2, <3>1
    <3> HIDE DEF n
    <3>3. DOMAIN g = lo..n
      BY <1>1, <3>1, <3>2
    <3>4. \A i \in lo..hi : f[i] \in Recs /\ f[i].rev = i /\ ValidRec(f[i])
      BY <3>1 DEF ChainOver
    <3> QED BY <1>0, <1>1, <3>1, <3>2, <3>3, <3>4 DEF n
  <2> QED BY <2>1, <2>2
<1> HIDE DEF n
<1>3. g \in [lo..n -> Recs]
  BY <1>1, <1>2
<1>4. ChainOver(g, lo, n)
  BY <1>2, <1>3 DEF ChainOver
<1>5. IsChain(g)
  BY <1>0, <1>2, <1>4 DEF IsChain
<1>6. Max(DOMAIN g) = n /\ DOMAIN g # {} /\ g[n] = r
  BY <1>0, <1>1, <1>2, MaxOfInterval
<1> QED BY <1>5, <1>6 DEF g, n

\* A tail of a chain that keeps its newest state.
LEMMA ChainTail ==
    ASSUME NEW f, IsChain(f), DOMAIN f # {}, NEW low \in Int, low <= Max(DOMAIN f)
    PROVE  LET g == [i \in {j \in DOMAIN f : j >= low} |-> f[i]]
           IN  /\ IsChain(g) /\ DOMAIN g # {} /\ Max(DOMAIN g) = Max(DOMAIN f)
               /\ g[Max(DOMAIN f)] = f[Max(DOMAIN f)]
<1> DEFINE g == [i \in {j \in DOMAIN f : j >= low} |-> f[i]]
<1>1. PICK lo \in Nat \ {0}, hi \in Nat :
            /\ lo <= hi /\ ChainOver(f, lo, hi) /\ DOMAIN f = lo..hi
            /\ Max(DOMAIN f) = hi /\ Min(DOMAIN f) = lo
  BY ChainShape
<1>2. PICK k \in Nat \ {0} : k <= hi /\ {j \in DOMAIN f : j >= low} = k..hi /\ lo <= k
  <2>1. CASE low <= lo
    BY <1>1, <2>1
  <2>2. CASE low > lo
    BY <1>1, <2>2
  <2> QED BY <1>1, <2>1, <2>2
<1>3. ChainOver(g, k, hi) /\ DOMAIN g = k..hi /\ g[hi] = f[hi]
  BY <1>1, <1>2 DEF ChainOver
<1> HIDE DEF g
<1>4. IsChain(g)
  BY <1>1, <1>2, <1>3 DEF IsChain
<1>5. DOMAIN g # {} /\ Max(DOMAIN g) = hi
  BY <1>2, <1>3, MaxOfInterval
<1> QED BY <1>1, <1>3, <1>4, <1>5 DEF g

\* A directory as processes and power losses leave it.
IsDir(d) ==
    /\ d \in [chain : {d.chain}, payload : Payloads \cup {NoFile}, pending : Recs \cup {NoRec}]
    /\ IsChain(d.chain)
PendingFits(d) ==
    d.pending # NoRec => /\ ValidRec(d.pending)
                         /\ HasState(d) => d.pending.rev = Latest(d).rev + 1
DirOK(d) == IsDir(d) /\ PendingFits(d)

\* The state loading makes the newest.
Has(d) == HasState(d) \/ d.pending # NoRec
Top(d) == IF d.pending = NoRec THEN Latest(d) ELSE d.pending

\* A directory put together from its parts.
LEMMA DirIntro ==
    ASSUME NEW f, IsChain(f), NEW p \in Payloads \cup {NoFile}, NEW n \in Recs \cup {NoRec}
    PROVE  LET d == [chain |-> f, payload |-> p, pending |-> n]
           IN  IsDir(d) /\ d.chain = f /\ d.payload = p /\ d.pending = n
BY DEF IsDir

\* The directory of a session that does not exist.
LEMMA NoDirOK == DirOK(NoDir) /\ ~Has(NoDir) /\ ~HasState(NoDir) /\ NoDir.payload = NoFile
BY NoChain, DirIntro DEF NoDir, DirOK, PendingFits, Has, HasState

\* The newest state file is a valid record under its own number.
LEMMA NewestState ==
    ASSUME NEW d, IsDir(d), HasState(d)
    PROVE  /\ Latest(d) \in Recs /\ ValidRec(Latest(d))
           /\ Latest(d).rev = Max(DOMAIN d.chain) /\ Latest(d).rev \in Nat \ {0}
<1>1. PICK lo \in Nat \ {0}, hi \in Nat :
            /\ lo <= hi /\ ChainOver(d.chain, lo, hi) /\ DOMAIN d.chain = lo..hi
            /\ Max(DOMAIN d.chain) = hi /\ Min(DOMAIN d.chain) = lo
  BY ChainShape DEF IsDir, HasState
<1>2. d.chain[hi] \in Recs /\ d.chain[hi].rev = hi /\ ValidRec(d.chain[hi])
  BY <1>1 DEF ChainOver
<1> QED BY <1>1, <1>2 DEF Latest

\* So is what recoverPendingStates would make the newest state.
LEMMA TopOK ==
    ASSUME NEW d, DirOK(d), Has(d)
    PROVE  Top(d) \in Recs /\ ValidRec(Top(d)) /\ Top(d).rev \in Nat \ {0}
BY NewestState DEF DirOK, IsDir, PendingFits, Has, Top, Recs

\* A change of some entries of a directory.
LEMMA EditChain ==
    ASSUME NEW d, IsDir(d), NEW f, IsChain(f),
           NEW e, e = [d EXCEPT !.chain = f]
    PROVE  IsDir(e) /\ e.chain = f /\ e.payload = d.payload /\ e.pending = d.pending
<1>1. /\ d \in [chain : {d.chain}, payload : Payloads \cup {NoFile}, pending : Recs \cup {NoRec}]
      /\ IsChain(d.chain)
  BY DEF IsDir
<1>2. /\ e \in [chain : {f}, payload : Payloads \cup {NoFile}, pending : Recs \cup {NoRec}]
      /\ e.chain = f /\ e.payload = d.payload /\ e.pending = d.pending
  BY <1>1
<1> QED BY <1>1, <1>2 DEF IsDir

\* Writing, cutting or removing the payload leaves the entries alone.
LEMMA EditPayload ==
    ASSUME NEW d, IsDir(d), NEW p \in Payloads \cup {NoFile},
           NEW e, e = [d EXCEPT !.payload = p]
    PROVE  IsDir(e) /\ e.chain = d.chain /\ e.payload = p /\ e.pending = d.pending
<1>1. /\ d \in [chain : {d.chain}, payload : Payloads \cup {NoFile}, pending : Recs \cup {NoRec}]
      /\ IsChain(d.chain)
  BY DEF IsDir
<1>2. /\ e \in [chain : {d.chain}, payload : Payloads \cup {NoFile}, pending : Recs \cup {NoRec}]
      /\ e.chain = d.chain /\ e.payload = p /\ e.pending = d.pending
  BY <1>1
<1> QED BY <1>1, <1>2 DEF IsDir

\* So does leaving a pending record behind.
LEMMA EditPending ==
    ASSUME NEW d, IsDir(d), NEW n \in Recs \cup {NoRec},
           NEW e, e = [d EXCEPT !.pending = n]
    PROVE  IsDir(e) /\ e.chain = d.chain /\ e.payload = d.payload /\ e.pending = n
<1>1. /\ d \in [chain : {d.chain}, payload : Payloads \cup {NoFile}, pending : Recs \cup {NoRec}]
      /\ IsChain(d.chain)
  BY DEF IsDir
<1>2. /\ e \in [chain : {d.chain}, payload : Payloads \cup {NoFile}, pending : Recs \cup {NoRec}]
      /\ e.chain = d.chain /\ e.payload = d.payload /\ e.pending = n
  BY <1>1
<1> QED BY <1>1, <1>2 DEF IsDir

\* The next state file appears.
LEMMA NameOK ==
    ASSUME NEW d, IsDir(d), d.pending = NoRec, NEW r \in Recs, ValidRec(r),
           HasState(d) => r.rev = Latest(d).rev + 1
    PROVE  LET e == [d EXCEPT !.chain = WithState(@, r)]
           IN  /\ DirOK(e) /\ HasState(e) /\ Latest(e) = r /\ e.payload = d.payload
               /\ e.pending = NoRec /\ Has(e) /\ Top(e) = r
<1> DEFINE f == WithState(d.chain, r)
           e == [d EXCEPT !.chain = WithState(@, r)]
<1>1. HasState(d) => r.rev = Max(DOMAIN d.chain) + 1
  BY NewestState
<1>2. IsChain(f) /\ DOMAIN f # {} /\ Max(DOMAIN f) = r.rev /\ f[r.rev] = r
  BY <1>1, ChainAdd DEF IsDir, HasState
<1>3. e = [d EXCEPT !.chain = f] 
  OBVIOUS
<1>4. d.payload \in Payloads \cup {NoFile} /\ NoRec \in Recs \cup {NoRec}
  BY DEF IsDir
<1> HIDE DEF f, e
<1>5. IsDir(e) /\ e.chain = f /\ e.payload = d.payload /\ e.pending = NoRec
  BY <1>2, <1>3, <1>4, EditChain
<1>6. HasState(e) /\ Latest(e) = r
  BY <1>2, <1>5 DEF HasState, Latest
<1> QED BY <1>5, <1>6 DEF DirOK, PendingFits, Has, Top, e

\* recoverPendingStates: the pending record becomes the next state file.
LEMMA WithStateOK ==
    ASSUME NEW d, IsDir(d), NEW r \in Recs, ValidRec(r), HasState(d) => r.rev = Latest(d).rev + 1
    PROVE  LET e == [chain |-> WithState(d.chain, r), payload |-> d.payload, pending |-> NoRec]
           IN  /\ DirOK(e) /\ HasState(e) /\ Latest(e) = r /\ e.payload = d.payload
               /\ e.pending = NoRec /\ Has(e) /\ Top(e) = r
<1> DEFINE f == WithState(d.chain, r)
           e == [chain |-> WithState(d.chain, r), payload |-> d.payload, pending |-> NoRec]
<1>1. HasState(d) => r.rev = Max(DOMAIN d.chain) + 1
  BY NewestState
<1>2. IsChain(f) /\ DOMAIN f # {} /\ Max(DOMAIN f) = r.rev /\ f[r.rev] = r
  BY <1>1, ChainAdd DEF IsDir, HasState
<1>3. e = [chain |-> f, payload |-> d.payload, pending |-> NoRec]
  OBVIOUS
<1>4. d.payload \in Payloads \cup {NoFile} /\ NoRec \in Recs \cup {NoRec}
  BY DEF IsDir
<1> HIDE DEF f, e
<1>5. IsDir(e) /\ e.chain = f /\ e.payload = d.payload /\ e.pending = NoRec
  BY <1>2, <1>3, <1>4, DirIntro
<1>6. HasState(e) /\ Latest(e) = r
  BY <1>2, <1>5 DEF HasState, Latest
<1> QED BY <1>5, <1>6 DEF DirOK, PendingFits, Has, Top, e

\* Promotion changes neither the newest state nor the payload.
LEMMA PromoteOK ==
    ASSUME NEW d, DirOK(d)
    PROVE  /\ DirOK(Promote(d)) /\ Promote(d).pending = NoRec /\ Promote(d).payload = d.payload
           /\ HasState(Promote(d)) <=> Has(d)
           /\ Has(d) => Latest(Promote(d)) = Top(d)
<1>1. CASE d.pending = NoRec
  BY <1>1 DEF Promote, Has, Top
<1>2. CASE d.pending # NoRec
  <2>1. Promote(d) = [chain |-> WithState(d.chain, d.pending), payload |-> d.payload, pending |-> NoRec]
    BY <1>2 DEF Promote
  <2>2. d.pending \in Recs /\ ValidRec(d.pending) /\ IsDir(d)
    BY <1>2 DEF DirOK, IsDir, PendingFits
  <2>3. HasState(d) => d.pending.rev = Latest(d).rev + 1
    BY <1>2 DEF DirOK, PendingFits
  <2>4. Has(d) /\ Top(d) = d.pending
    BY <1>2 DEF Has, Top
  <2>5. /\ DirOK(Promote(d)) /\ HasState(Promote(d)) /\ Latest(Promote(d)) = d.pending
        /\ Promote(d).payload = d.payload /\ Promote(d).pending = NoRec
    BY <2>1, <2>2, <2>3, WithStateOK
  <2> QED BY <2>4, <2>5
<1> QED BY <1>1, <1>2

\* The payload a record allows.
Fits(r, q) == q # NoFile => IF r.st \in Active THEN Len(q) >= r.off ELSE Len(q) = r.off

\* loadSession accepts a gapless chain whose newest state has its payload.
LEMMA LoadableOK ==
    ASSUME NEW d, DirOK(d), Has(d) => Fits(Top(d), d.payload),
           Has(d) /\ Top(d).st \in Active => d.payload # NoFile
    PROVE  Loadable(d)
<1> DEFINE p == Promote(d)
<1>1. /\ DirOK(p) /\ p.payload = d.payload /\ (HasState(p) <=> Has(d))
      /\ Has(d) => Latest(p) = Top(d)
  BY PromoteOK
<1> HIDE DEF p
<1> SUFFICES ASSUME HasState(p)
             PROVE  /\ DOMAIN p.chain = Min(DOMAIN p.chain)..Max(DOMAIN p.chain)
                    /\ \A i \in DOMAIN p.chain : p.chain[i].rev = i /\ ValidRec(p.chain[i])
                    /\ IF Latest(p).st \in Active
                         THEN p.payload # NoFile /\ Len(p.payload) >= Latest(p).off
                         ELSE p.payload # NoFile => Len(p.payload) = Latest(p).off
  BY DEF Loadable, p
<1>2. IsChain(p.chain) /\ DOMAIN p.chain # {}
  BY <1>1 DEF DirOK, IsDir, HasState
<1>3. PICK lo \in Nat \ {0}, hi \in Nat :
            /\ lo <= hi /\ ChainOver(p.chain, lo, hi) /\ DOMAIN p.chain = lo..hi
            /\ Max(DOMAIN p.chain) = hi /\ Min(DOMAIN p.chain) = lo
  BY <1>2, ChainShape
<1>4. \A i \in DOMAIN p.chain : p.chain[i].rev = i /\ ValidRec(p.chain[i])
  BY <1>3 DEF ChainOver
<1>5. Has(d) /\ Latest(p) = Top(d) /\ p.payload = d.payload
  BY <1>1
<1>6. IF Latest(p).st \in Active
        THEN p.payload # NoFile /\ Len(p.payload) >= Latest(p).off
        ELSE p.payload # NoFile => Len(p.payload) = Latest(p).off
  BY <1>5 DEF Fits
<1> QED BY <1>3, <1>4, <1>6

\* What loading leaves.
LEMMA LoadedOK ==
    ASSUME NEW d, DirOK(d), Has(d), Fits(Top(d), d.payload),
           Top(d).st \in Active => d.payload # NoFile
    PROVE  /\ DirOK(Loaded(d)) /\ HasState(Loaded(d)) /\ Latest(Loaded(d)) = Top(d)
           /\ Loaded(d).pending = NoRec /\ Has(Loaded(d)) /\ Top(Loaded(d)) = Top(d)
           /\ Top(d).st \in Terminal => Loaded(d).payload = NoFile
           /\ Top(d).st \in Active =>
                /\ Loaded(d).payload = SubSeq(d.payload, 1, Top(d).off)
                /\ Loaded(d).payload \in Payloads /\ Len(Loaded(d).payload) = Top(d).off
                /\ \A i \in 1..Top(d).off : Loaded(d).payload[i] = d.payload[i]
<1> DEFINE p == Promote(d)
           r == Top(d)
           keep == {i \in DOMAIN p.chain : i >= r.rev - 1}
           f == [i \in keep |-> p.chain[i]]
           q == IF r.st \in Terminal THEN NoFile ELSE SubSeq(p.payload, 1, r.off)
<1>1. /\ DirOK(p) /\ p.payload = d.payload /\ HasState(p) /\ Latest(p) = r
  BY PromoteOK
<1>2. r \in Recs /\ r.rev \in Nat \ {0} /\ r.off \in Nat /\ r.st \in Active \cup Terminal
  BY TopOK, UploadAssumption DEF Recs
<1>3. Loaded(d) = [chain |-> f, payload |-> q, pending |-> NoRec]
  BY <1>1 DEF Loaded
<1>4. Max(DOMAIN p.chain) = r.rev /\ p.chain[r.rev] = r
  BY <1>1, NewestState DEF DirOK, Latest
<1>5. /\ IsChain(f) /\ DOMAIN f # {} /\ Max(DOMAIN f) = r.rev /\ f[r.rev] = r
  <2> HIDE DEF p, r
  <2>1. IsChain(p.chain) /\ DOMAIN p.chain # {} /\ r.rev - 1 \in Int /\ r.rev - 1 <= Max(DOMAIN p.chain)
    BY <1>1, <1>2, <1>4 DEF DirOK, IsDir, HasState
  <2> QED BY <1>4, <2>1, ChainTail
<1>6. ASSUME r.st \in Active
      PROVE  /\ q = SubSeq(d.payload, 1, r.off) /\ q \in Payloads /\ Len(q) = r.off
             /\ \A i \in 1..r.off : q[i] = d.payload[i]
  <2>1. q = SubSeq(d.payload, 1, r.off)
    BY <1>1, <1>6 DEF Active, Terminal
  <2>2. d.payload \in Payloads /\ Len(d.payload) >= r.off
    BY <1>6 DEF DirOK, IsDir, Fits
  <2>3. \A i \in 1..r.off : d.payload[i] \in Chunks
    BY <1>2, <2>2 DEF Payloads
  <2> HIDE DEF q, r
  <2>4. /\ SubSeq(d.payload, 1, r.off) \in Seq(Chunks)
        /\ Len(SubSeq(d.payload, 1, r.off)) = IF 1 <= r.off THEN r.off - 1 + 1 ELSE 0
        /\ \A i \in 1..(r.off - 1 + 1) : SubSeq(d.payload, 1, r.off)[i] = d.payload[1 + i - 1]
    BY <1>2, <2>3, SubSeqProperties
  <2> QED BY <1>2, <2>1, <2>4 DEF Payloads
<1>7. q \in Payloads \cup {NoFile}
  BY <1>2, <1>6
<1> HIDE DEF f, q
<1>8. IsDir(Loaded(d)) /\ Loaded(d).chain = f /\ Loaded(d).payload = q /\ Loaded(d).pending = NoRec
  BY <1>3, <1>5, <1>7, DirIntro
<1>9. HasState(Loaded(d)) /\ Latest(Loaded(d)) = r
  BY <1>5, <1>8 DEF HasState, Latest
<1>10. r.st \in Terminal => q = NoFile
  BY DEF q
<1> QED BY <1>6, <1>8, <1>9, <1>10 DEF DirOK, PendingFits, Has, Top

\* A directory without any state is dropped on loading.
LEMMA LoadedNothing ==
    ASSUME NEW d, DirOK(d), ~Has(d) PROVE Loaded(d) = NoDir
BY PromoteOK DEF Loaded

-----------------------------------------------------------------------------
(* One session: what disk, durable copy, operation and handler say together *)

Prefix(q, p) == Len(q) <= Len(p) /\ \A i \in 1..Len(q) : q[i] = p[i]

\* Either copy of the entries can be found with either copy of the payload.
PayloadOK(d, k) ==
    /\ \A e \in {d, k} : Has(e) =>
        /\ Fits(Top(e), d.payload) /\ Fits(Top(e), k.payload)
        /\ Top(e).st \in Active => e.payload # NoFile
    /\ d.payload # NoFile /\ k.payload # NoFile => Prefix(k.payload, d.payload)

\* The durable state is not ahead of the visible one.
Behind(d, k) ==
    Has(d) /\ Has(k) => /\ Top(k).off <= Top(d).off
                        /\ Top(k).st \in Terminal => Top(d) = Top(k)

Renamed == {"named", "compact", "unlinked", "written", "purge", "purged"}
Writing == Renamed \cup {"write"}
Copying == {"reserved", "copied"}
Decisions == {"ready", "conflict", "committed"}
OpKinds == {"none", "create", "append", "begin", "start", "cancelled", "expire"} \cup Decisions
OpAts == {"idle", "reload", "uncreate", "remove"} \cup Copying \cup Writing
Ops == [at : OpAts, kind : OpKinds, next : Recs \cup {NoRec}]

\* A record being written, and the one it follows.
WriteOK(d, k, o) ==
    /\ o.next \in Recs /\ ValidRec(o.next) /\ d.pending = NoRec
    /\ o.kind \notin {"none", "expire"}
    /\ o.kind = "create" => o.next.st = "uploading"
    /\ o.kind = "append" => o.next.st \in {"uploading", "ready"}
    /\ o.kind \in {"begin", "start"} => o.next.st = "committing"
Follows(d, k, o) ==
    /\ d.payload # NoFile /\ Fits(o.next, d.payload) /\ Fits(o.next, k.payload)
    /\ HasState(d) <=> o.kind # "create"
    /\ ~HasState(d) => ~Has(k)
    /\ HasState(d) => /\ o.next.rev = Latest(d).rev + 1 /\ Latest(d).st \in Active
                      /\ Latest(d).off <= o.next.off
    /\ o.kind \in {"start"} \cup Decisions => Latest(d).st = "committing"
CopyOK(d, k, o) ==
    /\ HasState(d) /\ d.pending = NoRec /\ o.next = Latest(d) /\ o.next.st = "uploading"
    /\ d.payload # NoFile /\ o.kind = "append"
    /\ Len(d.payload) = IF o.at = "copied" THEN o.next.off + 1 ELSE o.next.off
    /\ k.payload # NoFile => Len(k.payload) = o.next.off

OpOK(d, k, o) ==
    /\ o \in Ops
    /\ o.at = "idle" => o.kind = "none"
    /\ o.at \in Writing => WriteOK(d, k, o)
    /\ o.at = "write" => Follows(d, k, o)
    /\ o.at \in Renamed => HasState(d) /\ Latest(d) = o.next
    /\ o.at \in Renamed \ {"named"} => HasState(k)
    /\ o.at \in {"purge", "purged"} => o.next.st \in Terminal
    /\ o.at \in Copying => CopyOK(d, k, o)
    /\ o.at = "reload" => o.kind = "append"
    /\ o.at = "remove" => /\ o.kind = "expire"
                          /\ HasState(d) => Latest(d).st # "committing"
    /\ o.at = "uncreate" => /\ o.kind = "none"
                            /\ HasState(d) => Latest(d).st # "committing"

\* A handler between two transitions of a session finds it committing and nobody else
\* at work on it.
Deciding == {"open", "opened", "rollback", "resolve", "publish", "ok", "failed", "conflict", "probe"}
Asked == {"begin", "start", "settle", "cancel"}
Hands(h) == [at : {"free"} \cup Deciding \cup Asked, ev : {h.ev}]
HandOK(d, o, h) ==
    /\ h \in Hands(h)
    /\ h.at \in Deciding => o.at = "idle" /\ Has(d) /\ Top(d).st = "committing"
    /\ h.at \in {"begin", "start"} <=> o.kind \in {"begin", "start"}
    /\ h.at \in {"begin", "start"} => o.kind = h.at
    /\ h.at = "settle" <=> o.kind \in Decisions
    /\ h.at = "cancel" <=> o.kind = "cancelled"

SessionOK(d, k, o, h) ==
    DirOK(d) /\ DirOK(k) /\ PayloadOK(d, k) /\ Behind(d, k) /\ OpOK(d, k, o) /\ HandOK(d, o, h)

Maps == /\ disk = [s \in Sessions |-> disk[s]] /\ kept = [s \in Sessions |-> kept[s]]
        /\ op = [s \in Sessions |-> op[s]] /\ hand = [s \in Sessions |-> hand[s]]
Inv ==
    /\ Maps
    /\ \A s \in Sessions : SessionOK(disk[s], kept[s], op[s], hand[s])

-----------------------------------------------------------------------------

\* What the entries say does not depend on the payload.
LEMMA SameEntries ==
    ASSUME NEW d, NEW e, e.chain = d.chain, e.pending = d.pending
    PROVE  (Has(e) <=> Has(d)) /\ (HasState(e) <=> HasState(d)) /\ Top(e) = Top(d) /\ Latest(e) = Latest(d)
           /\ (PendingFits(d) => PendingFits(e))
BY DEF Has, HasState, Top, Latest, PendingFits

\* No operation and no handler.
LEMMA Nothing == NoOp \in Ops /\ NoHand \in Hands(NoHand) /\ NoOp.at = "idle" /\ NoOp.kind = "none" /\ NoHand.at = "free"
BY DEF NoOp, NoHand, Ops, OpAts, OpKinds, Hands

\* A payload is a prefix of itself.
LEMMA PrefixSelf == \A q : Len(q) \in Nat => Prefix(q, q)
BY DEF Prefix

\* A payload that is there has a length.
LEMMA PayloadLen == ASSUME NEW d, IsDir(d), d.payload # NoFile PROVE d.payload \in Payloads /\ Len(d.payload) \in Nat
BY DEF IsDir, Payloads

\* A directory alone.
Sound(d) == DirOK(d) /\ (Has(d) => /\ Fits(Top(d), d.payload)
                                   /\ Top(d).st \in Active => d.payload # NoFile)

\* A sound directory that is durable as it is, with nobody at work on it.
LEMMA SoundAlone ==
    ASSUME NEW d, Sound(d)
    PROVE  PayloadOK(d, d) /\ Behind(d, d) /\ Loadable(d) /\ SessionOK(d, d, NoOp, NoHand)
<1>1. d.payload # NoFile => Prefix(d.payload, d.payload)
  BY PrefixSelf, PayloadLen DEF Sound, DirOK
<1>2. PayloadOK(d, d)
  BY <1>1 DEF PayloadOK, Sound
<1>3. Has(d) => Top(d).off \in Int
  BY TopOK, UploadAssumption DEF Sound, Recs
<1>4. Behind(d, d)
  BY <1>3 DEF Behind
<1>5. Loadable(d)
  BY LoadableOK DEF Sound
<1>6. OpOK(d, d, NoOp)
  BY Nothing DEF OpOK, Writing, Renamed, Copying
<1>7. HandOK(d, NoOp, NoHand)
  BY Nothing DEF HandOK, Deciding, Decisions
<1> QED BY <1>2, <1>4, <1>5, <1>6, <1>7 DEF SessionOK, Sound

\* Either copy of a session directory is sound by itself.
LEMMA SessionSound ==
    ASSUME NEW d, NEW k, NEW o, NEW h, SessionOK(d, k, o, h)
    PROVE  Sound(d) /\ Sound(k)
BY DEF SessionOK, PayloadOK, Sound

\* The process dies: nothing is under way, the directory stays.
LEMMA Rest ==
    ASSUME NEW d, NEW k, NEW o, NEW h, SessionOK(d, k, o, h)
    PROVE  SessionOK(d, k, NoOp, NoHand)
<1>6. OpOK(d, k, NoOp)
  BY Nothing DEF OpOK, Writing, Renamed, Copying
<1>7. HandOK(d, NoOp, NoHand)
  BY Nothing DEF HandOK, Deciding, Decisions
<1> QED BY <1>6, <1>7 DEF SessionOK

\* What a power loss can leave.
LEMMA OutcomeSound ==
    ASSUME NEW d, NEW k, NEW o, NEW h, SessionOK(d, k, o, h),
           NEW e \in {d, k}, NEW p \in {d.payload, k.payload},
           NEW x, x = [chain |-> e.chain, pending |-> e.pending,
                       payload |-> IF e.payload = NoFile \/ p = NoFile THEN e.payload ELSE p]
    PROVE  Sound(x) /\ x.chain = e.chain /\ x.pending = e.pending
<1> DEFINE q == IF e.payload = NoFile \/ p = NoFile THEN e.payload ELSE p
<1>1. DirOK(e) /\ IsDir(e) /\ q \in Payloads \cup {NoFile} /\ IsChain(e.chain)
      /\ e.pending \in Recs \cup {NoRec} /\ x = [chain |-> e.chain, payload |-> q, pending |-> e.pending]
  BY DEF SessionOK, DirOK, IsDir
<1>2. Has(e) => Fits(Top(e), q) /\ (Top(e).st \in Active => q # NoFile)
  BY DEF SessionOK, PayloadOK
<1> HIDE DEF q
<1>3. IsDir(x) /\ x.chain = e.chain /\ x.pending = e.pending /\ x.payload = q
  BY <1>1, DirIntro
<1>4. (Has(x) <=> Has(e)) /\ Top(x) = Top(e) /\ PendingFits(x)
  BY <1>1, <1>3, SameEntries DEF DirOK
<1> QED BY <1>2, <1>3, <1>4 DEF Sound, DirOK

\* The newest state of a directory that was just loaded.
LEMMA CleanFacts ==
    ASSUME NEW d, Sound(d), HasState(d), Loaded(d) = d
    PROVE  /\ d.pending = NoRec /\ Has(d) /\ Top(d) = Latest(d)
           /\ Latest(d) \in Recs /\ ValidRec(Latest(d))
           /\ Latest(d).st \in Active => d.payload \in Payloads /\ d.payload # NoFile /\ Len(d.payload) = Latest(d).off
           /\ Latest(d).st \in Terminal => d.payload = NoFile
<1>1. Has(d) /\ IsDir(d) /\ DirOK(d)
  BY DEF Has, Sound, DirOK
<1>2. /\ Loaded(d).pending = NoRec /\ Latest(Loaded(d)) = Top(d)
      /\ Top(d).st \in Terminal => Loaded(d).payload = NoFile
      /\ Top(d).st \in Active => Loaded(d).payload \in Payloads /\ Len(Loaded(d).payload) = Top(d).off
  BY <1>1, LoadedOK DEF Sound
<1>3. Latest(d) \in Recs /\ ValidRec(Latest(d))
  BY <1>1, NewestState
<1> QED BY <1>1, <1>2, <1>3, AbsentAssumption

\* With nothing under way, both copies of the payload end at the durable offset.
LEMMA BothCut ==
    ASSUME NEW d, NEW k, NEW o, NEW h, SessionOK(d, k, o, h), HasState(d), Loaded(d) = d,
           Latest(d).st \in Active, k.payload # NoFile
    PROVE  Len(k.payload) = Latest(d).off
<1>1. Sound(d) /\ IsDir(k)
  BY SessionSound DEF SessionOK, DirOK
<1>2. /\ Has(d) /\ Top(d) = Latest(d) /\ Latest(d) \in Recs
      /\ d.payload \in Payloads /\ d.payload # NoFile /\ Len(d.payload) = Latest(d).off
  BY <1>1, CleanFacts
<1>3. Len(k.payload) \in Nat
  BY <1>1, PayloadLen
<1>4. Latest(d).off \in Nat
  BY <1>2, UploadAssumption DEF Recs
<1>5. Len(k.payload) <= Len(d.payload)
  BY <1>2 DEF SessionOK, PayloadOK, Prefix
<1>6. Fits(Latest(d), k.payload)
  BY <1>2 DEF SessionOK, PayloadOK
<1>7. Len(k.payload) >= Latest(d).off
  BY <1>6 DEF Fits
<1> QED BY <1>2, <1>3, <1>4, <1>5, <1>7

\* publishStateFile up to the rename.
LEMMA NameStep ==
    ASSUME NEW d, NEW k, NEW o, NEW h, SessionOK(d, k, o, h), o.at = "write",
           NEW e, DirOK(e), HasState(e), Latest(e) = o.next, e.payload = d.payload,
           e.pending = NoRec, Has(e), Top(e) = o.next,
           NEW p \in Ops, p.at = "named", p.kind = o.kind, p.next = o.next
    PROVE  SessionOK(e, k, p, h)
<1>1. WriteOK(d, k, o) /\ Follows(d, k, o)
  BY DEF SessionOK, OpOK, Writing
<1>2. HasState(d) => Has(d) /\ Top(d) = Latest(d)
  BY <1>1 DEF Has, Top, WriteOK
<1>3. PayloadOK(e, k)
  BY <1>1 DEF SessionOK, PayloadOK, Follows
<1>4. Has(k) => HasState(d)
  BY <1>1 DEF Follows
<1>5. /\ Has(k) => Top(k).off \in Int
      /\ HasState(d) => Latest(d).off \in Int
      /\ o.next.off \in Int
  BY <1>1, TopOK, NewestState, UploadAssumption DEF SessionOK, DirOK, WriteOK, Recs
<1>6. Behind(e, k)
  BY <1>1, <1>2, <1>4, <1>5 DEF SessionOK, Behind, Follows, Active, Terminal
<1>7. OpOK(e, k, p)
  BY <1>1 DEF OpOK, Writing, Renamed, Copying, WriteOK
<1>8. HandOK(e, p, h)
  BY DEF SessionOK, HandOK
<1> QED BY <1>3, <1>6, <1>7, <1>8 DEF SessionOK

\* The directory sync after it: what is visible is durable.
LEMMA SyncStep ==
    ASSUME NEW d, NEW k, NEW o, NEW h, SessionOK(d, k, o, h), o.at \in {"named", "unlinked"},
           NEW p \in Ops, p.at = "compact", p.kind = o.kind, p.next = o.next
    PROVE  SessionOK(d, d, p, h)
<1>1. Sound(d) /\ DirOK(d) /\ PayloadOK(d, d) /\ Behind(d, d)
  BY SessionSound, SoundAlone DEF Sound
<1>2. OpOK(d, d, p)
  BY DEF SessionOK, OpOK, Writing, Renamed, Copying, WriteOK
<1>3. HandOK(d, p, h)
  BY DEF SessionOK, HandOK, Deciding
<1> QED BY <1>1, <1>2, <1>3 DEF SessionOK

\* A step of the operation that leaves the newest state, the payload and the durable copy.
LEMMA TidyStep ==
    ASSUME NEW d, NEW k, NEW o, NEW h, SessionOK(d, k, o, h), o.at = "compact",
           NEW e, DirOK(e), HasState(e), Latest(e) = Latest(d), e.payload = d.payload,
           e.pending = d.pending,
           NEW p \in Ops, p.at \in {"written", "unlinked"}, p.kind = o.kind, p.next = o.next
    PROVE  SessionOK(e, k, p, h)
<1>1. d.pending = NoRec /\ HasState(d)
  BY DEF SessionOK, OpOK, WriteOK, Writing, Renamed
<1>2. Has(e) /\ Has(d) /\ Top(e) = Top(d)
  BY <1>1 DEF Has, Top
<1>3. PayloadOK(e, k) /\ Behind(e, k)
  BY <1>2 DEF SessionOK, PayloadOK, Behind
<1>4. OpOK(e, k, p)
  BY DEF SessionOK, OpOK, Writing, Renamed, Copying, WriteOK
<1>5. HandOK(e, p, h)
  BY DEF SessionOK, HandOK, Deciding
<1> QED BY <1>3, <1>4, <1>5 DEF SessionOK

\* A terminal state goes on to lose its payload.
LEMMA TerminalStep ==
    ASSUME NEW d, NEW k, NEW o, NEW h, SessionOK(d, k, o, h), o.at = "written", o.next.st \in Terminal,
           NEW p \in Ops, p.at = "purge", p.kind = o.kind, p.next = o.next
    PROVE  SessionOK(d, k, p, h)
<1>1. OpOK(d, k, p)
  BY DEF SessionOK, OpOK, Writing, Renamed, Copying, WriteOK
<1>2. HandOK(d, p, h)
  BY DEF SessionOK, HandOK, Deciding
<1> QED BY <1>1, <1>2 DEF SessionOK

\* The handler a finished transition hands back to.
Handed(o, h, g) ==
    /\ g \in Hands(g)
    /\ g.at = IF h.at = "begin" THEN "open" ELSE IF h.at = "start" THEN "publish" ELSE "free"

\* The operation ends and its handler goes on.
LEMMA AnswerStep ==
    ASSUME NEW d, NEW k, NEW o, NEW h, SessionOK(d, k, o, h), o.at \in {"written", "purged"},
           NEW g, Handed(o, h, g)
    PROVE  SessionOK(d, k, NoOp, g)
<1>1. OpOK(d, k, NoOp)
  BY Nothing DEF OpOK, Writing, Renamed, Copying
<1>2. WriteOK(d, k, o) /\ HasState(d) /\ Latest(d) = o.next
  BY DEF SessionOK, OpOK, Writing, Renamed
<1>3. Has(d) /\ Top(d) = o.next
  BY <1>2 DEF WriteOK, Has, Top
<1>4. h.at \in {"begin", "start"} => o.next.st = "committing"
  BY <1>2 DEF SessionOK, HandOK, WriteOK
<1>5. HandOK(d, NoOp, g)
  BY <1>3, <1>4, Nothing DEF HandOK, Handed, Deciding, Decisions
<1> QED BY <1>1, <1>5 DEF SessionOK

\* removeTerminalPayload: the unlink.
LEMMA PurgeStep ==
    ASSUME NEW d, NEW k, NEW o, NEW h, SessionOK(d, k, o, h), o.at = "purge",
           NEW e, IsDir(e), e.chain = d.chain, e.pending = d.pending, e.payload = NoFile,
           NEW p \in Ops, p.at = "purged", p.kind = o.kind, p.next = o.next
    PROVE  SessionOK(e, k, p, h)
<1>1. /\ WriteOK(d, k, o) /\ HasState(d) /\ Latest(d) = o.next /\ o.next.st \in Terminal
      /\ HasState(k)
  BY DEF SessionOK, OpOK, Writing, Renamed
<1>2. DirOK(e) /\ (Has(e) <=> Has(d)) /\ Top(e) = Top(d) /\ Latest(e) = Latest(d) /\ HasState(e)
  BY <1>1, SameEntries DEF SessionOK, DirOK
<1>3. Has(d) /\ Top(d) = o.next /\ o.next.st \notin Active
  BY <1>1 DEF WriteOK, Has, Top, Active, Terminal
<1>4. PayloadOK(e, k) /\ Behind(e, k)
  BY <1>2, <1>3 DEF SessionOK, PayloadOK, Behind, Fits
<1>5. OpOK(e, k, p)
  BY <1>1, <1>2 DEF OpOK, Writing, Renamed, Copying, WriteOK
<1>6. HandOK(e, p, h)
  BY DEF SessionOK, HandOK, Deciding
<1> QED BY <1>2, <1>4, <1>5, <1>6 DEF SessionOK

\* removeTerminalPayload: the directory sync.
LEMMA SyncPurgeStep ==
    ASSUME NEW d, NEW k, NEW o, NEW h, SessionOK(d, k, o, h), o.at = "purged",
           NEW g, Handed(o, h, g)
    PROVE  SessionOK(d, d, NoOp, g)
<1>1. PayloadOK(d, d) /\ Behind(d, d) /\ DirOK(d) /\ OpOK(d, d, NoOp)
  BY SessionSound, SoundAlone DEF SessionOK
<1>2. HandOK(d, NoOp, g)
  BY AnswerStep DEF SessionOK
<1> QED BY <1>1, <1>2 DEF SessionOK

\* A state write fails before the rename.
LEMMA LeftPending ==
    ASSUME NEW d, NEW k, NEW o, NEW h, SessionOK(d, k, o, h), o.at = "write",
           NEW e, IsDir(e), e.chain = d.chain, e.payload = d.payload,
           e.pending \in {NoRec, o.next}
    PROVE  /\ DirOK(e) /\ PayloadOK(e, k) /\ Behind(e, k)
           /\ HasState(e) <=> HasState(d)
           /\ Latest(e) = Latest(d)
           /\ o.kind \in {"start"} \cup Decisions => Has(e) /\ (Top(e).st = "committing" \/ Top(e) = o.next)
<1>1. WriteOK(d, k, o) /\ Follows(d, k, o)
  BY DEF SessionOK, OpOK, Writing
<1>2. (HasState(e) <=> HasState(d)) /\ Latest(e) = Latest(d)
  BY DEF HasState, Latest
<1>3. HasState(d) => Has(d) /\ Top(d) = Latest(d)
  BY <1>1 DEF Has, Top, WriteOK
<1>4. DirOK(e)
  BY <1>1, <1>2 DEF DirOK, PendingFits, WriteOK, Follows
<1>5. Has(e) => Top(e) = o.next \/ (HasState(d) /\ Top(e) = Top(d))
  BY <1>2, <1>3 DEF Has, Top
<1>6. PayloadOK(e, k)
  BY <1>1, <1>3, <1>5 DEF SessionOK, PayloadOK, Follows
<1>7. /\ Has(k) => Top(k).off \in Int
      /\ HasState(d) => Latest(d).off \in Int
      /\ o.next.off \in Int
  BY <1>1, TopOK, NewestState, UploadAssumption DEF SessionOK, DirOK, WriteOK, Recs
<1>8. Has(k) => HasState(d)
  BY <1>1 DEF Follows
<1>9. Behind(e, k)
  BY <1>1, <1>3, <1>5, <1>7, <1>8 DEF SessionOK, Behind, Follows, Active, Terminal
<1>10. o.kind \in {"start"} \cup Decisions => Has(e) /\ (Top(e).st = "committing" \/ Top(e) = o.next)
  BY <1>1, <1>2, <1>3, <1>5 DEF Follows, Decisions, Has
<1> QED BY <1>2, <1>4, <1>6, <1>9, <1>10

\* A state write fails: before the rename a pending record may be left, after it the
\* new state stays visible.
LEMMA FailStep ==
    ASSUME NEW d, NEW k, NEW o, NEW h, SessionOK(d, k, o, h), o.at \in Writing \ {"written"},
           NEW e, \/ o.at # "write" /\ e = d
                  \/ /\ o.at = "write" /\ IsDir(e) /\ e.chain = d.chain /\ e.payload = d.payload
                     /\ e.pending \in {NoRec, o.next}
    PROVE  /\ o.kind = "create" =>
                \A p \in Ops : p.at = "uncreate" /\ p.kind = "none" => SessionOK(e, k, p, h)
           /\ o.kind = "append" =>
                \A p \in Ops : p.at = "reload" /\ p.kind = "append" => SessionOK(e, k, p, h)
           /\ o.kind \notin {"create", "append"} =>
                \A g : g \in Hands(g) /\ g.at = (IF h.at = "start" THEN "failed" ELSE "free")
                       => SessionOK(e, k, NoOp, g)
<1>1. WriteOK(d, k, o)
  BY DEF SessionOK, OpOK
<1>2. o.at \in Renamed => HasState(d) /\ Latest(d) = o.next /\ Has(d) /\ Top(d) = o.next
  BY <1>1 DEF SessionOK, OpOK, WriteOK, Has, Top
<1>3. /\ DirOK(e) /\ DirOK(k) /\ PayloadOK(e, k) /\ Behind(e, k)
      /\ o.kind = "create" => (HasState(e) => Latest(e).st # "committing")
      /\ o.kind = "start" => Has(e) /\ Top(e).st = "committing"
  <2>1. CASE o.at # "write"
    BY <1>1, <1>2, <2>1 DEF SessionOK, WriteOK, Writing
  <2>2. CASE o.at = "write"
    <3>1. Follows(d, k, o)
      BY <2>2 DEF SessionOK, OpOK
    <3>2. o.kind = "create" => ~HasState(e)
      BY <2>2, <3>1, LeftPending DEF Follows
    <3> QED BY <1>1, <2>2, <3>2, LeftPending DEF SessionOK, WriteOK
  <2> QED BY <2>1, <2>2
<1>4. /\ o.kind \in {"create", "append"} => h.at = "free"
      /\ h.at = "start" => o.kind = "start"
      /\ h \in Hands(h)
  BY DEF SessionOK, HandOK, Hands, Deciding, Asked, Decisions, Writing, Renamed
<1>5. ASSUME o.kind = "create", NEW p \in Ops, p.at = "uncreate", p.kind = "none"
      PROVE  SessionOK(e, k, p, h)
  <2>1. OpOK(e, k, p)
    BY <1>3, <1>5 DEF OpOK, Writing, Renamed, Copying
  <2>2. HandOK(e, p, h)
    BY <1>4, <1>5 DEF HandOK, Deciding, Decisions
  <2> QED BY <1>3, <2>1, <2>2 DEF SessionOK
<1>6. ASSUME o.kind = "append", NEW p \in Ops, p.at = "reload", p.kind = "append"
      PROVE  SessionOK(e, k, p, h)
  <2>1. OpOK(e, k, p)
    BY <1>6 DEF OpOK, Writing, Renamed, Copying
  <2>2. HandOK(e, p, h)
    BY <1>4, <1>6 DEF HandOK, Deciding, Decisions
  <2> QED BY <1>3, <2>1, <2>2 DEF SessionOK
<1>7. ASSUME o.kind \notin {"create", "append"},
             NEW g, g \in Hands(g), g.at = (IF h.at = "start" THEN "failed" ELSE "free")
      PROVE  SessionOK(e, k, NoOp, g)
  <2>1. OpOK(e, k, NoOp)
    BY Nothing DEF OpOK, Writing, Renamed, Copying
  <2>2. HandOK(e, NoOp, g)
    BY <1>3, <1>4, <1>7, Nothing DEF HandOK, Deciding, Decisions
  <2> QED BY <1>3, <2>1, <2>2 DEF SessionOK
<1> QED BY <1>5, <1>6, <1>7

\* loadSession leaves a sound directory with the newest state it found.
LEMMA LoadedSound ==
    ASSUME NEW d, Sound(d)
    PROVE  /\ Sound(Loaded(d)) /\ (HasState(Loaded(d)) <=> Has(d)) /\ (Has(Loaded(d)) <=> Has(d))
           /\ Has(d) => Top(Loaded(d)) = Top(d)
<1>1. CASE Has(d)
  <2>1. /\ DirOK(Loaded(d)) /\ HasState(Loaded(d)) /\ Has(Loaded(d)) /\ Top(Loaded(d)) = Top(d)
        /\ Top(d).st \in Terminal => Loaded(d).payload = NoFile
        /\ Top(d).st \in Active =>
                /\ Loaded(d).payload \in Payloads /\ Len(Loaded(d).payload) = Top(d).off
    BY <1>1, LoadedOK DEF Sound
  <2>2. Top(d).off \in Int /\ Top(d).st \in Active \cup Terminal
    BY <1>1, TopOK, UploadAssumption DEF Sound, Recs
  <2> QED BY <1>1, <2>1, <2>2, AbsentAssumption DEF Sound, Fits, Active, Terminal
<1>2. CASE ~Has(d)
  BY <1>2, LoadedNothing, NoDirOK DEF Sound
<1> QED BY <1>1, <1>2

\* loadSession of a session nobody else is at work on.
LEMMA LoadStep ==
    ASSUME NEW d, NEW k, NEW o, NEW h, SessionOK(d, k, o, h), o.at \in {"idle", "reload"}
    PROVE  SessionOK(Loaded(d), Loaded(d), NoOp, h)
<1>1. Sound(d) /\ Sound(Loaded(d))
  BY SessionSound, LoadedSound
<1>2. SessionOK(Loaded(d), Loaded(d), NoOp, NoHand)
  BY <1>1, SoundAlone
<1>3. HandOK(Loaded(d), NoOp, h)
  BY <1>1, LoadedSound, Nothing DEF SessionOK, OpOK, HandOK, Decisions
<1> QED BY <1>2, <1>3 DEF SessionOK

\* A load that changes nothing, and a failed one.
LEMMA UnloadedStep ==
    ASSUME NEW d, NEW k, NEW o, NEW h, SessionOK(d, k, o, h), o.at = "reload"
    PROVE  SessionOK(d, k, NoOp, h)
<1>1. OpOK(d, k, NoOp)
  BY Nothing DEF OpOK, Writing, Renamed, Copying
<1>2. HandOK(d, NoOp, h)
  BY Nothing DEF SessionOK, OpOK, HandOK, Deciding, Decisions
<1> QED BY <1>1, <1>2 DEF SessionOK

\* The payload of a new session.
LEMMA NoBytes == <<>> \in Payloads /\ <<>> # NoFile /\ Len(<<>>) = 0
<1>1. <<>> \in Seq(Chunks) /\ Len(<<>>) = 0
  OBVIOUS
<1> QED BY <1>1, AbsentAssumption DEF Payloads

\* Create: an empty payload, durable, and the first record to be written.
LEMMA CreateStep ==
    ASSUME NEW o, NEW h, SessionOK(NoDir, NoDir, o, h), o.at = "idle",
           NEW e, e = [chain |-> <<>>, payload |-> <<>>, pending |-> NoRec],
           NEW p \in Ops, p.at = "write", p.kind = "create",
           p.next = [rev |-> 1, st |-> "uploading", off |-> 0, last |-> NoRec, started |-> FALSE]
    PROVE  SessionOK(e, e, p, h)
<1>1. <<>> \in Payloads /\ <<>> # NoFile /\ Len(<<>>) = 0
  BY NoBytes
<1>2. IsDir(e) /\ e.chain = <<>> /\ e.payload = <<>> /\ e.pending = NoRec
  BY <1>1, NoChain, DirIntro
<1>3. ~HasState(e) /\ ~Has(e)
  BY <1>2, NoChain DEF HasState, Has
<1>4. Sound(e)
  BY <1>2, <1>3 DEF Sound, DirOK, PendingFits
<1>5. p.next \in Recs /\ ValidRec(p.next)
  BY UploadAssumption DEF Recs, ValidRec, Active
<1>6. Follows(e, e, p) /\ WriteOK(e, e, p)
  BY <1>1, <1>2, <1>3, <1>5 DEF Follows, WriteOK, Fits, Decisions
<1>7. OpOK(e, e, p)
  BY <1>6 DEF OpOK, Writing, Renamed, Copying
<1>8. HandOK(e, p, h)
  BY NoDirOK DEF SessionOK, OpOK, HandOK, Deciding, Decisions
<1> QED BY <1>4, <1>7, <1>8, SoundAlone DEF SessionOK

\* The directory is removed; its durable copy stays for a while.
LEMMA GoneStep ==
    ASSUME NEW d, NEW k, NEW o, NEW h, SessionOK(d, k, o, h), o.at \in {"uncreate", "remove"}
    PROVE  /\ SessionOK(NoDir, k, o, h) /\ SessionOK(NoDir, k, NoOp, h)
           /\ SessionOK(NoDir, NoDir, NoOp, h)
<1>1. h.at = "free"
  BY DEF SessionOK, OpOK, HandOK, Hands, Deciding, Asked, Decisions
<1>2. Sound(NoDir) /\ ~HasState(NoDir)
  BY NoDirOK DEF Sound
<1>3. DirOK(NoDir) /\ PayloadOK(NoDir, k) /\ Behind(NoDir, k)
  BY NoDirOK DEF SessionOK, PayloadOK, Behind, Fits
<1>4. OpOK(NoDir, k, o) /\ OpOK(NoDir, k, NoOp)
  BY <1>2, Nothing DEF SessionOK, OpOK, Writing, Renamed, Copying
<1>5. HandOK(NoDir, o, h) /\ HandOK(NoDir, NoOp, h)
  BY <1>1, Nothing DEF SessionOK, HandOK, Deciding, Decisions
<1> QED BY <1>2, <1>3, <1>4, <1>5, SoundAlone DEF SessionOK

\* A transition is started on a session that was just loaded.
LEMMA BeginStep ==
    ASSUME NEW d, NEW k, NEW o, NEW h, SessionOK(d, k, o, h), o.at = "idle",
           HasState(d), Loaded(d) = d, Latest(d).st \in Active,
           NEW p \in Ops, p.at = "write", p.kind \in {"begin", "start", "cancelled"} \cup Decisions,
           p.next \in Recs, ValidRec(p.next), p.next.rev = Latest(d).rev + 1,
           p.next.off = Latest(d).off,
           p.kind \in {"begin", "start"} => p.next.st = "committing",
           p.kind \in {"start"} \cup Decisions => Latest(d).st = "committing",
           NEW g, g \in Hands(g),
           g.at = (IF p.kind \in Decisions THEN "settle"
                   ELSE IF p.kind = "cancelled" THEN "cancel" ELSE p.kind)
    PROVE  SessionOK(d, k, p, g)
<1>1. Sound(d)
  BY SessionSound
<1>2. /\ d.pending = NoRec /\ d.payload # NoFile /\ Len(d.payload) = Latest(d).off
      /\ Latest(d) \in Recs
  BY <1>1, CleanFacts
<1>3. k.payload # NoFile => Len(k.payload) = Latest(d).off
  BY BothCut
<1>4. Latest(d).off \in Int /\ p.next.st \in Active \cup Terminal
  BY <1>2, UploadAssumption DEF Recs
<1>5. Fits(p.next, d.payload) /\ Fits(p.next, k.payload)
  BY <1>2, <1>3, <1>4 DEF Fits
<1>6. WriteOK(d, k, p) /\ Follows(d, k, p)
  BY <1>2, <1>4, <1>5 DEF WriteOK, Follows, Decisions
<1>7. OpOK(d, k, p)
  BY <1>6 DEF OpOK, Writing, Renamed, Copying
<1>8. HandOK(d, p, g)
  BY DEF HandOK, Deciding, Decisions
<1> QED BY <1>7, <1>8 DEF SessionOK

\* AppendChunk: the reservation.
LEMMA AppendStep ==
    ASSUME NEW d, NEW k, NEW o, NEW h, SessionOK(d, k, o, h), o.at = "idle",
           HasState(d), Loaded(d) = d, Latest(d).st = "uploading",
           NEW p \in Ops, p.at = "reserved", p.kind = "append", p.next = Latest(d)
    PROVE  SessionOK(d, k, p, h)
<1>1. Sound(d) /\ Latest(d).st \in Active
  BY SessionSound DEF Active
<1>2. /\ d.pending = NoRec /\ d.payload # NoFile /\ Len(d.payload) = Latest(d).off
      /\ Latest(d) \in Recs /\ Has(d) /\ Top(d) = Latest(d)
  BY <1>1, CleanFacts
<1>3. k.payload # NoFile => Len(k.payload) = Latest(d).off
  BY <1>1, BothCut
<1>4. CopyOK(d, k, p)
  BY <1>2, <1>3 DEF CopyOK
<1>5. OpOK(d, k, p)
  BY <1>4 DEF OpOK, Writing, Renamed, Copying
<1>6. HandOK(d, p, h)
  BY <1>2 DEF SessionOK, OpOK, HandOK, Deciding, Decisions
<1> QED BY <1>5, <1>6 DEF SessionOK

\* Copying a chunk extends the payload.
LEMMA Appended ==
    ASSUME NEW q \in Payloads, NEW c \in Chunks
    PROVE  /\ Append(q, c) \in Payloads /\ Append(q, c) # NoFile /\ Len(Append(q, c)) = Len(q) + 1
           /\ \A j : j \in Payloads /\ Len(j) <= Len(q) /\ Prefix(j, q) => Prefix(j, Append(q, c))
<1>1. /\ Append(q, c) \in Payloads /\ Len(Append(q, c)) = Len(q) + 1
      /\ \A i \in 1..Len(q) : Append(q, c)[i] = q[i]
      /\ Len(q) \in Nat
  BY DEF Payloads
<1>2. \A j : j \in Payloads => Len(j) \in Nat
  BY DEF Payloads
<1>3. \A j : j \in Payloads /\ Len(j) <= Len(q) /\ Prefix(j, q) => Prefix(j, Append(q, c))
  BY <1>1, <1>2 DEF Prefix
<1> QED BY <1>1, <1>3, AbsentAssumption

\* AppendChunk: the body is copied behind the durable offset.
LEMMA CopyStep ==
    ASSUME NEW d, NEW k, NEW o, NEW h, SessionOK(d, k, o, h), o.at = "reserved", NEW c \in Chunks,
           NEW e, IsDir(e), e.chain = d.chain, e.pending = d.pending, e.payload = Append(d.payload, c),
           NEW p \in Ops, p.at = "copied", p.kind = o.kind, p.next = o.next
    PROVE  SessionOK(e, k, p, h)
<1>1. CopyOK(d, k, o) /\ DirOK(d) /\ IsDir(d) /\ IsDir(k)
  BY DEF SessionOK, OpOK, Copying, DirOK
<1>2. d.payload \in Payloads /\ Len(d.payload) \in Nat
  BY <1>1, PayloadLen DEF CopyOK
<1>3. e.payload # NoFile /\ Len(e.payload) = Len(d.payload) + 1 
  BY <1>2, Appended
<1>4. k.payload # NoFile => k.payload \in Payloads /\ Prefix(k.payload, e.payload)
  <2>1. k.payload # NoFile => k.payload \in Payloads /\ Len(k.payload) <= Len(d.payload) /\ Prefix(k.payload, d.payload)
    BY <1>1, PayloadLen DEF CopyOK, SessionOK, PayloadOK, Prefix
  <2> QED BY <1>2, <2>1, Appended
<1>5. /\ DirOK(e) /\ (Has(e) <=> Has(d)) /\ Top(e) = Top(d) /\ Latest(e) = Latest(d)
      /\ (HasState(e) <=> HasState(d))
  BY <1>1, SameEntries DEF DirOK
<1>6. Has(d) /\ Top(d) = o.next /\ o.next \in Recs /\ o.next.st \in Active /\ o.next.st \notin Terminal
  BY <1>1, NewestState DEF CopyOK, Has, Top, Active, Terminal
<1>7. Has(k) => Top(k).st \in Active /\ Top(k).off \in Int /\ Top(k).off <= o.next.off
  <2>1. Has(k) => Top(k).st \in Active \cup Terminal /\ Top(k).off \in Int
    BY TopOK, UploadAssumption DEF SessionOK, Recs
  <2> QED BY <1>6, <2>1 DEF SessionOK, Behind
<1>8. o.next.off \in Int
  BY <1>6, UploadAssumption DEF Recs
<1>9. Fits(o.next, e.payload) /\ Fits(o.next, k.payload)
  BY <1>1, <1>2, <1>3, <1>6, <1>8 DEF SessionOK, PayloadOK, Fits, CopyOK
<1>10. Has(k) => Fits(Top(k), e.payload)
  BY <1>1, <1>2, <1>3, <1>7, <1>8 DEF Fits, CopyOK
<1>11. PayloadOK(e, k)
  BY <1>3, <1>4, <1>5, <1>6, <1>9, <1>10 DEF SessionOK, PayloadOK
<1>12. Behind(e, k)
  BY <1>5 DEF SessionOK, Behind
<1>13. CopyOK(e, k, p)
  BY <1>1, <1>3, <1>5 DEF CopyOK
<1>14. OpOK(e, k, p)
  BY <1>13 DEF OpOK, Writing, Renamed, Copying
<1>15. HandOK(e, p, h)
  BY DEF SessionOK, HandOK, Deciding
<1> QED BY <1>5, <1>11, <1>12, <1>14, <1>15 DEF SessionOK

\* Cutting a payload back to an offset.
LEMMA CutBack ==
    ASSUME NEW q \in Payloads, NEW n \in Nat, n <= Len(q)
    PROVE  /\ SubSeq(q, 1, n) \in Payloads /\ SubSeq(q, 1, n) # NoFile /\ Len(SubSeq(q, 1, n)) = n
           /\ \A i \in 1..n : SubSeq(q, 1, n)[i] = q[i]
<1>1. \A i \in 1..n : q[i] \in Chunks
  BY DEF Payloads
<1>2. /\ SubSeq(q, 1, n) \in Seq(Chunks)
      /\ Len(SubSeq(q, 1, n)) = IF 1 <= n THEN n - 1 + 1 ELSE 0
      /\ \A i \in 1..(n - 1 + 1) : SubSeq(q, 1, n)[i] = q[1 + i - 1]
  BY <1>1, SubSeqProperties
<1> QED BY <1>2, AbsentAssumption DEF Payloads

\* What is known while a chunk is copied.
LEMMA CopyFacts ==
    ASSUME NEW d, NEW k, NEW o, NEW h, SessionOK(d, k, o, h), o.at \in Copying
    PROVE  /\ CopyOK(d, k, o) /\ IsDir(d) /\ IsDir(k) /\ DirOK(d) /\ DirOK(k) /\ h.at = "free"
           /\ d.payload \in Payloads /\ d.payload # NoFile /\ Len(d.payload) \in Nat
           /\ Has(d) /\ Top(d) = o.next /\ o.next \in Recs /\ ValidRec(o.next)
           /\ o.next.st \in Active /\ o.next.st \notin Terminal
           /\ o.next.off \in Nat /\ o.next.off <= Len(d.payload)
           /\ Has(k) => Top(k).st \in Active /\ Top(k).off \in Int /\ Top(k).off <= o.next.off
<1>1. CopyOK(d, k, o) /\ DirOK(d) /\ IsDir(d) /\ IsDir(k) /\ DirOK(k)
  BY DEF SessionOK, OpOK, DirOK
<1>2. d.payload \in Payloads /\ Len(d.payload) \in Nat /\ d.payload # NoFile
  BY <1>1, PayloadLen DEF CopyOK
<1>3. Has(d) /\ Top(d) = o.next /\ o.next \in Recs /\ ValidRec(o.next)
  BY <1>1, NewestState DEF CopyOK, Has, Top
<1>4. o.next.st \in Active /\ o.next.st \notin Terminal
  BY <1>1 DEF CopyOK, Active, Terminal
<1>5. o.next.off \in Nat
  BY <1>3, UploadAssumption DEF Recs
<1>6. o.next.off <= Len(d.payload)
  BY <1>1, <1>5 DEF CopyOK
<1>7. Has(k) => Top(k).st \in Active /\ Top(k).off \in Int /\ Top(k).off <= o.next.off
  <2>1. Has(k) => Top(k).st \in Active \cup Terminal /\ Top(k).off \in Int
    BY <1>1, TopOK, UploadAssumption DEF Recs
  <2> QED BY <1>3, <1>4, <2>1 DEF SessionOK, Behind
<1>8. h.at = "free"
  BY <1>1 DEF SessionOK, HandOK, Hands, Deciding, Asked, Decisions, CopyOK, Copying
<1> QED BY <1>1, <1>2, <1>3, <1>4, <1>5, <1>6, <1>7, <1>8

\* AppendChunk refuses a chunk: cut back to the durable offset, or not.
LEMMA RejectStep ==
    ASSUME NEW d, NEW k, NEW o, NEW h, SessionOK(d, k, o, h), o.at \in Copying,
           NEW e, IsDir(e), e.chain = d.chain, e.pending = d.pending,
           e.payload = SubSeq(d.payload, 1, o.next.off),
           NEW f, IsDir(f), f.chain = k.chain, f.pending = k.pending,
           f.payload = SubSeq(d.payload, 1, o.next.off)
    PROVE  SessionOK(d, k, NoOp, h) /\ SessionOK(e, k, NoOp, h) /\ SessionOK(e, f, NoOp, h)
<1> DEFINE n == o.next.off
           q == d.payload
<1>0. /\ CopyOK(d, k, o) /\ DirOK(d) /\ DirOK(k) /\ h.at = "free"
      /\ IsDir(k) /\ q \in Payloads /\ Len(q) \in Nat /\ n \in Nat /\ n <= Len(q)
      /\ Has(d) /\ Top(d) = o.next /\ o.next.st \in Active /\ o.next.st \notin Terminal
      /\ Has(k) => Top(k).st \in Active /\ Top(k).off \in Int /\ Top(k).off <= n
  BY CopyFacts
<1>1. /\ e.payload # NoFile /\ Len(e.payload) = n /\ f.payload = e.payload
      /\ \A i \in 1..n : e.payload[i] = q[i]
  <2> HIDE DEF n, q
  <2>1. /\ SubSeq(q, 1, n) # NoFile /\ Len(SubSeq(q, 1, n)) = n
        /\ \A i \in 1..n : SubSeq(q, 1, n)[i] = q[i]
    BY <1>0, CutBack
  <2>2. e.payload = SubSeq(q, 1, n) /\ f.payload = SubSeq(q, 1, n)
    BY DEF n, q
  <2> QED BY <2>1, <2>2
<1>2. \A x : OpOK(x, k, NoOp) /\ OpOK(x, f, NoOp) /\ HandOK(x, NoOp, h)
  BY <1>0, Nothing DEF SessionOK, OpOK, HandOK, Writing, Renamed, Copying, Deciding, Decisions
<1>3. /\ DirOK(e) /\ (Has(e) <=> Has(d)) /\ Top(e) = Top(d)
      /\ DirOK(f) /\ (Has(f) <=> Has(k)) /\ Top(f) = Top(k)
  BY <1>0, SameEntries DEF DirOK
<1>4. k.payload # NoFile => Len(k.payload) = n /\ Prefix(k.payload, q)
  BY <1>0 DEF CopyOK, SessionOK, PayloadOK
<1>5. k.payload # NoFile => Prefix(k.payload, e.payload)
  BY <1>0, <1>1, <1>4 DEF Prefix
<1>6. Prefix(f.payload, e.payload)
  BY <1>0, <1>1 DEF Prefix
<1>7. Fits(o.next, e.payload) /\ (Has(k) => Fits(Top(k), e.payload))
  BY <1>0, <1>1 DEF Fits
<1>8. PayloadOK(e, k) /\ PayloadOK(e, f)
  BY <1>0, <1>1, <1>3, <1>5, <1>6, <1>7 DEF SessionOK, PayloadOK
<1>9. Behind(e, k) /\ Behind(e, f)
  BY <1>3 DEF SessionOK, Behind
<1> QED BY <1>0, <1>2, <1>3, <1>8, <1>9 DEF SessionOK

\* The record an append writes is valid.
LEMMA NextOfAppend ==
    ASSUME NEW r \in Recs, ValidRec(r), r.st = "uploading", NEW c \in Chunks,
           NEW n, n = [rev |-> r.rev + 1, st |-> IF r.off + 1 = Total THEN "ready" ELSE "uploading",
                       off |-> r.off + 1, last |-> [at |-> r.off, chunk |-> c], started |-> r.started]
    PROVE  n \in Recs /\ ValidRec(n) /\ n.rev = r.rev + 1 /\ n.off = r.off + 1 /\ n.st \in {"uploading", "ready"}
<1>1. /\ r.off \in Nat /\ r.off < Total /\ r.rev \in Nat /\ r.started = FALSE /\ Total \in Nat
  BY UploadAssumption DEF Recs, ValidRec
<1>2. n \in Recs
  BY <1>1 DEF Recs, Active
<1>3. ValidRec(n)
  BY <1>1 DEF ValidRec
<1> QED BY <1>2, <1>3

\* AppendChunk: the payload is synced before the state that counts it is written.
LEMMA SyncChunkStep ==
    ASSUME NEW d, NEW k, NEW o, NEW h, SessionOK(d, k, o, h), o.at = "copied",
           NEW f, IsDir(f), f.chain = k.chain, f.pending = k.pending, f.payload = d.payload,
           NEW p \in Ops, p.at = "write", p.kind = "append", p.next \in Recs, ValidRec(p.next),
           p.next.rev = o.next.rev + 1, p.next.off = o.next.off + 1,
           p.next.st \in {"uploading", "ready"}
    PROVE  SessionOK(d, f, p, h)
<1>0. /\ CopyOK(d, k, o) /\ DirOK(d) /\ DirOK(k) /\ h.at = "free"
      /\ d.payload # NoFile /\ Len(d.payload) \in Nat /\ o.next.off \in Nat
      /\ Has(d) /\ Top(d) = o.next /\ o.next.st \in Active
  BY CopyFacts DEF Copying
<1>1. DirOK(f) /\ (Has(f) <=> Has(k)) /\ Top(f) = Top(k)
  BY <1>0, SameEntries DEF DirOK
<1>2. PayloadOK(d, f)
  BY <1>0, <1>1, PrefixSelf DEF SessionOK, PayloadOK
<1>3. Behind(d, f)
  BY <1>1 DEF SessionOK, Behind
<1>4. Fits(p.next, d.payload)
  BY <1>0 DEF Fits, CopyOK, Active
<1>5. WriteOK(d, f, p) /\ Follows(d, f, p)
  BY <1>0, <1>4 DEF WriteOK, Follows, CopyOK, Decisions
<1>6. OpOK(d, f, p)
  BY <1>5 DEF OpOK, Writing, Renamed, Copying
<1>7. HandOK(d, p, h)
  BY <1>0 DEF SessionOK, HandOK, Deciding, Decisions
<1> QED BY <1>0, <1>1, <1>2, <1>3, <1>6, <1>7 DEF SessionOK

\* CleanupExpired takes an expired session that is not committing.
LEMMA ExpireStep ==
    ASSUME NEW d, NEW k, NEW o, NEW h, SessionOK(d, k, o, h), o.at = "idle",
           HasState(d), Loaded(d) = d, Latest(d).st # "committing",
           NEW p \in Ops, p.at = "remove", p.kind = "expire"
    PROVE  SessionOK(d, k, p, h)
<1>1. Has(d) /\ Top(d) = Latest(d)
  BY SessionSound, CleanFacts
<1>2. OpOK(d, k, p)
  BY DEF OpOK, Writing, Renamed, Copying
<1>3. HandOK(d, p, h)
  BY <1>1 DEF SessionOK, OpOK, HandOK, Deciding, Decisions
<1> QED BY <1>2, <1>3 DEF SessionOK

\* One session of a map changes.
LEMMA PutAt ==
    ASSUME NEW f, f = [t \in Sessions |-> f[t]], NEW s \in Sessions, NEW v
    PROVE  /\ Put(f, s, v)[s] = v /\ \A t \in Sessions : t # s => Put(f, s, v)[t] = f[t]
           /\ Put(f, s, v) = [t \in Sessions |-> Put(f, s, v)[t]]
           /\ Put(f, s, f[s]) = f
BY DEF Put

\* An operation moves on.
LEMMA OpAt ==
    ASSUME NEW o \in Ops, NEW a \in OpAts, NEW p, p = [o EXCEPT !.at = a]
    PROVE  p \in Ops /\ p.at = a /\ p.kind = o.kind /\ p.next = o.next
BY DEF Ops

\* An operation begins.
LEMMA OpMade ==
    ASSUME NEW a \in OpAts, NEW c \in OpKinds, NEW n \in Recs \cup {NoRec},
           NEW p, p = [at |-> a, kind |-> c, next |-> n]
    PROVE  p \in Ops /\ p.at = a /\ p.kind = c /\ p.next = n
BY DEF Ops

\* A handler moves on.
LEMMA HandAt ==
    ASSUME NEW h, h \in Hands(h), NEW a \in {"free"} \cup Deciding \cup Asked,
           NEW g, g = [h EXCEPT !.at = a]
    PROVE  g \in Hands(g) /\ g.at = a
BY DEF Hands

Up == sys \in {"up", "starting"}

\* A step of one session leaves what is said of the others alone.
LEMMA OneSession ==
    ASSUME Inv, NEW s \in Sessions, sys' = sys, NEW d, NEW k, NEW o, NEW h,
           disk' = Put(disk, s, d), kept' = Put(kept, s, k), op' = Put(op, s, o),
           hand' = Put(hand, s, h), SessionOK(d, k, o, h)
    PROVE  Inv'
<1>1. /\ disk'[s] = d /\ \A t \in Sessions : t # s => disk'[t] = disk[t]
      /\ disk' = [t \in Sessions |-> disk'[t]]
  BY PutAt DEF Inv, Maps
<1>2. /\ kept'[s] = k /\ \A t \in Sessions : t # s => kept'[t] = kept[t]
      /\ kept' = [t \in Sessions |-> kept'[t]]
  BY PutAt DEF Inv, Maps
<1>3. /\ op'[s] = o /\ \A t \in Sessions : t # s => op'[t] = op[t]
      /\ op' = [t \in Sessions |-> op'[t]]
  BY PutAt DEF Inv, Maps
<1>4. /\ hand'[s] = h /\ \A t \in Sessions : t # s => hand'[t] = hand[t]
      /\ hand' = [t \in Sessions |-> hand'[t]]
  BY PutAt DEF Inv, Maps
<1>5. Maps'
  BY <1>1, <1>2, <1>3, <1>4 DEF Maps
<1>6. ASSUME NEW t \in Sessions
      PROVE  SessionOK(disk'[t], kept'[t], op'[t], hand'[t])
  BY <1>1, <1>2, <1>3, <1>4 DEF Inv
<1> QED BY <1>5, <1>6 DEF Inv

\* What a step leaves alone, as a change to the same value.
LEMMA Unput ==
    ASSUME Inv, NEW s \in Sessions
    PROVE  /\ disk = Put(disk, s, disk[s]) /\ kept = Put(kept, s, kept[s])
           /\ op = Put(op, s, op[s]) /\ hand = Put(hand, s, hand[s])
BY PutAt DEF Inv, Maps

\* What the invariant says of one session.
LEMMA Here ==
    ASSUME Inv, NEW s \in Sessions
    PROVE  /\ SessionOK(disk[s], kept[s], op[s], hand[s]) /\ IsDir(disk[s]) /\ IsDir(kept[s])
           /\ DirOK(disk[s]) /\ DirOK(kept[s]) /\ op[s] \in Ops /\ hand[s] \in Hands(hand[s])
BY DEF Inv, SessionOK, DirOK, OpOK, HandOK

\* The rename of a state file keeps every session in order.
LEMMA NameStateInv ==
    ASSUME Inv, NEW s \in Sessions, NameState(s)
    PROVE  Inv'
<1> DEFINE d == disk[s]
           k == kept[s]
           o == op[s]
           h == hand[s]
           e == [d EXCEPT !.chain = WithState(@, o.next)]
           p == [o EXCEPT !.at = "named"]
<1>1. /\ o.at = "write" /\ disk' = Put(disk, s, e) /\ kept' = kept /\ op' = Put(op, s, p)
      /\ hand' = hand /\ sys' = sys
  BY DEF NameState
<1>2. SessionOK(d, k, o, h) /\ IsDir(d) /\ o \in Ops
  BY Here
<1>3. WriteOK(d, k, o) /\ Follows(d, k, o)
  BY <1>1, <1>2 DEF SessionOK, OpOK, Writing
<1>4. p \in Ops /\ p.at = "named" /\ p.kind = o.kind /\ p.next = o.next
  BY <1>2, OpAt DEF OpAts, Writing, Renamed
<1>5. /\ DirOK(e) /\ HasState(e) /\ Latest(e) = o.next /\ e.payload = d.payload
      /\ e.pending = NoRec /\ Has(e) /\ Top(e) = o.next
  BY <1>2, <1>3, NameOK DEF WriteOK, Follows
<1> HIDE DEF d, k, o, h, e, p
<1>6. SessionOK(e, k, p, h)
  BY <1>1, <1>2, <1>4, <1>5, NameStep
<1>8. kept' = Put(kept, s, k) /\ hand' = Put(hand, s, h)
  BY <1>1, Unput DEF k, h
<1> QED BY <1>1, <1>6, <1>8, OneSession

\* The directory sync of a state file keeps every session in order.
LEMMA SyncStateInv ==
    ASSUME Inv, NEW s \in Sessions, SyncState(s)
    PROVE  Inv'
<1> DEFINE d == disk[s]
           o == op[s]
           p == [o EXCEPT !.at = "compact"]
<1>1. /\ o.at \in {"named", "unlinked"} /\ disk' = disk /\ kept' = Put(kept, s, d)
      /\ op' = Put(op, s, p) /\ hand' = hand /\ sys' = sys
  BY DEF SyncState
<1>2. SessionOK(d, kept[s], o, hand[s]) /\ o \in Ops
  BY Here
<1>3. p \in Ops /\ p.at = "compact" /\ p.kind = o.kind /\ p.next = o.next
  BY <1>2, OpAt DEF OpAts, Writing, Renamed
<1> HIDE DEF d, o, p
<1>4. SessionOK(d, d, p, hand[s])
  BY <1>1, <1>2, <1>3, SyncStep
<1>5. disk' = Put(disk, s, d) /\ hand' = Put(hand, s, hand[s])
  BY <1>1, Unput DEF d
<1> QED BY <1>1, <1>4, <1>5, OneSession

\* compactStateFiles takes the oldest state first: a gapless tail stays.
LEMMA CompactChain ==
    ASSUME NEW f, IsChain(f), DOMAIN f # {}, NEW n, n = Max(DOMAIN f),
           NEW S, S = {i \in DOMAIN f : i < n - 1}, S # {},
           NEW g, g = [j \in DOMAIN f \ {Min(S)} |-> f[j]]
    PROVE  IsChain(g) /\ DOMAIN g # {} /\ Max(DOMAIN g) = n /\ g[n] = f[n]
<1>1. PICK lo \in Nat \ {0}, hi \in Nat :
            /\ lo <= hi /\ ChainOver(f, lo, hi) /\ DOMAIN f = lo..hi
            /\ Max(DOMAIN f) = hi /\ Min(DOMAIN f) = lo
  BY ChainShape
<1>2. n = hi
  BY <1>1
<1> DEFINE m == hi - 2
<1>3. S = lo..m /\ lo <= m /\ m \in Nat
  BY <1>1, <1>2
<1> HIDE DEF m
<1>4. Min(lo..m) = lo
  BY <1>1, <1>3, MaxOfInterval
<1>5. Min(S) = lo
  BY <1>3, <1>4
<1> DEFINE low == lo + 1
           tail == [i \in {j \in DOMAIN f : j >= low} |-> f[i]]
<1>6. DOMAIN f \ {lo} = {j \in DOMAIN f : j >= low} /\ low \in Int /\ low <= Max(DOMAIN f)
  BY <1>1, <1>3 DEF m
<1> HIDE DEF low
<1>7. g = tail
  BY <1>5, <1>6
<1>8. /\ IsChain(tail) /\ DOMAIN tail # {} /\ Max(DOMAIN tail) = Max(DOMAIN f)
      /\ tail[Max(DOMAIN f)] = f[Max(DOMAIN f)]
  BY <1>6, ChainTail
<1> HIDE DEF tail
<1> QED BY <1>7, <1>8

\* compactStateFiles keeps every session in order.
LEMMA CompactInv ==
    ASSUME Inv, NEW s \in Sessions, Compact(s)
    PROVE  Inv'
<1> DEFINE d == disk[s]
           k == kept[s]
           o == op[s]
           h == hand[s]
<1>1. o.at = "compact" /\ kept' = Put(kept, s, k) /\ hand' = Put(hand, s, h) /\ sys' = sys
  BY Unput DEF Compact
<1>2. SessionOK(d, k, o, h) /\ IsDir(d) /\ DirOK(d) /\ o \in Ops /\ disk = Put(disk, s, d)
  BY Here, Unput
<1>3. WriteOK(d, k, o) /\ HasState(d) /\ Latest(d) = o.next /\ HasState(k)
  BY <1>1, <1>2 DEF SessionOK, OpOK, Writing, Renamed
<1>4. CASE Stale(s) = {}
  <2> DEFINE p == [o EXCEPT !.at = "written"]
  <2>1. disk' = Put(disk, s, d) /\ op' = Put(op, s, p)
    BY <1>2, <1>4 DEF Compact
  <2>2. p \in Ops /\ p.at = "written" /\ p.kind = o.kind /\ p.next = o.next
    BY <1>2, OpAt DEF OpAts, Writing, Renamed
  <2> HIDE DEF d, k, o, h, p
  <2>3. SessionOK(d, k, p, h)
    BY <1>1, <1>2, <1>3, <2>2, TidyStep
  <2> QED BY <1>1, <1>3, <2>1, <2>3, OneSession
<1>5. CASE Stale(s) # {}
  <2> DEFINE p == [o EXCEPT !.at = "unlinked"]
             S == Stale(s)
             g == [j \in DOMAIN d.chain \ {Min(S)} |-> d.chain[j]]
             e == [d EXCEPT !.chain = g]
  <2>1. disk' = Put(disk, s, e) /\ op' = Put(op, s, p)
    BY <1>5 DEF Compact, NextStale
  <2>2. p \in Ops /\ p.at = "unlinked" /\ p.kind = o.kind /\ p.next = o.next
    BY <1>2, OpAt DEF OpAts, Writing, Renamed
  <2>3. IsChain(d.chain) /\ DOMAIN d.chain # {} /\ o.next.rev = Max(DOMAIN d.chain)
    BY <1>2, <1>3, NewestState DEF IsDir, HasState
  <2>4. S = {i \in DOMAIN d.chain : i < o.next.rev - 1}
    BY DEF Stale
  <2> HIDE DEF d, k, o, h, p, S
  <2> DEFINE n == o.next.rev
  <2>50. S # {} /\ n = Max(DOMAIN d.chain) /\ S = {i \in DOMAIN d.chain : i < n - 1}
    BY <1>5, <2>3, <2>4 DEF S
  <2> HIDE DEF n
  <2>5. IsChain(g) /\ DOMAIN g # {} /\ Max(DOMAIN g) = n /\ g[n] = d.chain[n]
    BY <2>3, <2>50, CompactChain
  <2> HIDE DEF g
  <2>6. IsDir(e) /\ e.chain = g /\ e.payload = d.payload /\ e.pending = d.pending
    BY <1>2, <2>5, EditChain
  <2> HIDE DEF e
  <2>7. HasState(e) /\ Latest(e) = Latest(d)
    BY <2>5, <2>50, <2>6 DEF HasState, Latest
  <2>8. DirOK(e)
    BY <1>3, <2>6 DEF DirOK, PendingFits, WriteOK
  <2>9. SessionOK(e, k, p, h)
    BY <1>1, <1>2, <2>2, <2>6, <2>7, <2>8, TidyStep
  <2> QED BY <1>1, <1>3, <2>1, <2>9, OneSession
<1> QED BY <1>4, <1>5

\* The handler after a finished transition.
LEMMA HandOnTo ==
    ASSUME Inv, NEW s \in Sessions, op[s].at \in {"written", "purged"}, HandOn(s)
    PROVE  \E g : hand' = Put(hand, s, g) /\ Handed(op[s], hand[s], g)
<1> DEFINE h == hand[s]
           o == op[s]
<1>1. HandOK(disk[s], o, h) /\ h \in Hands(h) /\ hand = Put(hand, s, h)
  BY Here, Unput DEF SessionOK
<1>2. CASE h.at = "begin"
  <2> DEFINE g == [h EXCEPT !.at = "open"]
  <2>1. hand' = Put(hand, s, g)
    BY <1>2 DEF HandOn, After
  <2>2. g \in Hands(g) /\ g.at = "open"
    BY <1>1, HandAt DEF Deciding
  <2> QED BY <1>2, <2>1, <2>2 DEF Handed
<1>3. CASE h.at = "start"
  <2> DEFINE g == [h EXCEPT !.at = "publish"]
  <2>1. hand' = Put(hand, s, g)
    BY <1>3 DEF HandOn, After
  <2>2. g \in Hands(g) /\ g.at = "publish"
    BY <1>1, HandAt DEF Deciding
  <2> QED BY <1>3, <2>1, <2>2 DEF Handed
<1>4. CASE h.at \notin {"begin", "start"}
  <2>1. hand' = IF o.kind \in {"create", "append"} THEN hand ELSE Put(hand, s, NoHand)
    BY <1>4 DEF HandOn, After
  <2>2. o.kind \in {"create", "append"} => h.at = "free"
    BY <1>1 DEF HandOK, Hands, Deciding, Asked, Decisions
  <2>3. CASE o.kind \in {"create", "append"}
    BY <1>1, <1>4, <2>1, <2>2, <2>3 DEF Handed
  <2>4. CASE o.kind \notin {"create", "append"}
    BY <1>4, <2>1, <2>4, Nothing DEF Handed
  <2> QED BY <2>3, <2>4
<1> QED BY <1>2, <1>3, <1>4

\* The end of writeNextState keeps every session in order.
LEMMA DoneInv ==
    ASSUME Inv, NEW s \in Sessions, Done(s)
    PROVE  Inv'
<1> DEFINE d == disk[s]
           k == kept[s]
           o == op[s]
           h == hand[s]
<1>1. /\ o.at = "written" /\ disk' = Put(disk, s, d) /\ kept' = Put(kept, s, k) /\ sys' = sys
      /\ SessionOK(d, k, o, h) /\ o \in Ops /\ hand = Put(hand, s, h)
  BY Here, Unput DEF Done, dirVars
<1>2. HasState(k)
  BY <1>1 DEF SessionOK, OpOK, Renamed
<1>3. CASE o.next.st \in Terminal
  <2> DEFINE p == [o EXCEPT !.at = "purge"]
  <2>1. op' = Put(op, s, p) /\ hand' = Put(hand, s, h)
    BY <1>1, <1>3 DEF Done
  <2>2. p \in Ops /\ p.at = "purge" /\ p.kind = o.kind /\ p.next = o.next
    BY <1>1, OpAt DEF OpAts, Writing, Renamed
  <2> HIDE DEF d, k, o, h, p
  <2>3. SessionOK(d, k, p, h)
    BY <1>1, <1>3, <2>2, TerminalStep
  <2> QED BY <1>1, <1>2, <2>1, <2>3, OneSession
<1>4. CASE o.next.st \notin Terminal
  <2>1. op' = Put(op, s, NoOp) /\ HandOn(s)
    BY <1>4 DEF Done
  <2>2. PICK g : hand' = Put(hand, s, g) /\ Handed(o, h, g)
    BY <1>1, <2>1, HandOnTo
  <2> HIDE DEF d, k, o, h
  <2>3. SessionOK(d, k, NoOp, g)
    BY <1>1, <2>2, AnswerStep
  <2> QED BY <1>1, <1>2, <2>1, <2>2, <2>3, OneSession
<1> QED BY <1>3, <1>4

\* The unlink of a terminal payload keeps every session in order.
LEMMA PurgePayloadInv ==
    ASSUME Inv, NEW s \in Sessions, PurgePayload(s)
    PROVE  Inv'
<1> DEFINE d == disk[s]
           k == kept[s]
           o == op[s]
           h == hand[s]
           e == [d EXCEPT !.payload = NoFile]
           p == [o EXCEPT !.at = "purged"]
<1>1. /\ o.at = "purge" /\ disk' = Put(disk, s, e) /\ kept' = Put(kept, s, k) /\ op' = Put(op, s, p)
      /\ hand' = Put(hand, s, h) /\ sys' = sys
  BY Unput DEF PurgePayload
<1>2. SessionOK(d, k, o, h) /\ IsDir(d) /\ o \in Ops
  BY Here
<1>3. p \in Ops /\ p.at = "purged" /\ p.kind = o.kind /\ p.next = o.next
  BY <1>2, OpAt DEF OpAts, Writing, Renamed
<1> HIDE DEF d, k, o, h, p
<1>4. IsDir(e) /\ e.chain = d.chain /\ e.payload = NoFile /\ e.pending = d.pending
  BY <1>2, EditPayload
<1> HIDE DEF e
<1>5. SessionOK(e, k, p, h)
  BY <1>1, <1>2, <1>3, <1>4, PurgeStep
<1>6. HasState(k)
  BY <1>1, <1>2 DEF SessionOK, OpOK, Renamed
<1> QED BY <1>1, <1>5, <1>6, OneSession

\* The sync of that unlink keeps every session in order.
LEMMA SyncPurgeInv ==
    ASSUME Inv, NEW s \in Sessions, SyncPurge(s)
    PROVE  Inv'
<1> DEFINE d == disk[s]
           o == op[s]
           h == hand[s]
<1>1. /\ o.at = "purged" /\ disk' = Put(disk, s, d) /\ kept' = Put(kept, s, d)
      /\ op' = Put(op, s, NoOp) /\ HandOn(s) /\ sys' = sys
      /\ SessionOK(d, kept[s], o, h)
  BY Here, Unput DEF SyncPurge
<1>2. PICK g : hand' = Put(hand, s, g) /\ Handed(o, h, g)
  BY <1>1, HandOnTo
<1> HIDE DEF d, o, h
<1>3. SessionOK(d, d, NoOp, g)
  BY <1>1, <1>2, SyncPurgeStep
<1> QED BY <1>1, <1>2, <1>3, OneSession

\* A failing state write keeps every session in order.
LEMMA StateWriteFailsInv ==
    ASSUME Inv, NEW s \in Sessions, StateWriteFails(s)
    PROVE  Inv'
<1> DEFINE d == disk[s]
           k == kept[s]
           o == op[s]
           h == hand[s]
<1>1. /\ o.at \in Writing \ {"written"} /\ kept' = Put(kept, s, k) /\ sys' = sys
      /\ SessionOK(d, k, o, h) /\ o \in Ops /\ IsDir(d) /\ disk = Put(disk, s, d)
      /\ hand = Put(hand, s, h) /\ h \in Hands(h)
  BY Here, Unput DEF StateWriteFails, Writing, Renamed
<1>2. PICK e : /\ disk' = Put(disk, s, e)
               /\ \/ o.at # "write" /\ e = d
                  \/ /\ o.at = "write" /\ IsDir(e) /\ e.chain = d.chain /\ e.payload = d.payload
                     /\ e.pending \in {NoRec, o.next}
  <2>1. CASE o.at # "write" /\ disk' = disk
    BY <1>1, <2>1
  <2>2. ASSUME o.at = "write", NEW left \in {NoRec, o.next},
               disk' = Put(disk, s, [d EXCEPT !.pending = left])
        PROVE  \E e : /\ disk' = Put(disk, s, e)
                      /\ o.at = "write" /\ IsDir(e) /\ e.chain = d.chain /\ e.payload = d.payload
                      /\ e.pending \in {NoRec, o.next}
    <3> DEFINE e == [d EXCEPT !.pending = left]
    <3>1. left \in Recs \cup {NoRec}
      BY <1>1, <2>2 DEF SessionOK, OpOK, WriteOK, Writing
    <3>2. IsDir(d)
      BY <1>1
    <3> HIDE DEF d, o
    <3>3. IsDir(e) /\ e.chain = d.chain /\ e.payload = d.payload /\ e.pending = left
      BY <3>1, <3>2, EditPending
    <3> QED BY <2>2, <3>3
  <2> QED BY <2>1, <2>2 DEF StateWriteFails
<1>3. /\ o.at # "write" => HasState(d) /\ (o.at # "named" => HasState(k))
      /\ o.at = "write" => (HasState(d) <=> o.kind # "create")
  BY <1>1 DEF SessionOK, OpOK, Writing, Renamed, Follows
<1>5. CASE o.kind = "create"
  <2> DEFINE p == [NoOp EXCEPT !.at = "uncreate"]
  <2>1. op' = Put(op, s, p) /\ hand' = Put(hand, s, h)
    BY <1>1, <1>5 DEF StateWriteFails
  <2>2. p \in Ops /\ p.at = "uncreate" /\ p.kind = "none"
    BY Nothing, OpAt DEF OpAts
  <2> HIDE DEF d, k, o, h, p
  <2>3. SessionOK(e, k, p, h)
    BY <1>1, <1>2, <1>5, <2>2, FailStep
  <2> QED BY <1>1, <1>2, <2>1, <2>2, <2>3, OneSession
<1>6. CASE o.kind = "append"
  <2> DEFINE p == [o EXCEPT !.at = "reload"]
  <2>1. op' = Put(op, s, p) /\ hand' = Put(hand, s, h)
    BY <1>1, <1>6 DEF StateWriteFails
  <2>2. p \in Ops /\ p.at = "reload" /\ p.kind = "append"
    BY <1>1, <1>6, OpAt DEF OpAts
  <2> HIDE DEF d, k, o, h, p
  <2>3. SessionOK(e, k, p, h)
    BY <1>1, <1>2, <1>6, <2>2, FailStep
  <2> QED BY <1>1, <1>2, <1>6, <2>1, <2>3, OneSession
<1>7. CASE o.kind \notin {"create", "append"}
  <2> DEFINE g == IF h.at = "start" THEN [NoHand EXCEPT !.at = "failed"] ELSE NoHand
  <2>1. op' = Put(op, s, NoOp) /\ hand' = Put(hand, s, g)
    BY <1>7 DEF StateWriteFails, HandFails
  <2>2. g \in Hands(g) /\ g.at = (IF h.at = "start" THEN "failed" ELSE "free")
    BY Nothing, HandAt DEF Deciding
  <2> HIDE DEF d, k, o, h, g
  <2>3. SessionOK(e, k, NoOp, g)
    BY <1>1, <1>2, <1>7, <2>2, FailStep
  <2> QED BY <1>1, <1>2, <1>7, <2>1, <2>3, OneSession
<1> QED BY <1>5, <1>6, <1>7

\* loadSession keeps every session in order.
LEMMA LoadInv ==
    ASSUME Inv, NEW s \in Sessions, Load(s)
    PROVE  Inv'
<1> DEFINE d == disk[s]
           k == kept[s]
           o == op[s]
           h == hand[s]
           e == Loaded(d)
<1>1. /\ o.at = "idle" /\ disk' = Put(disk, s, e) /\ kept' = (IF e = d THEN kept ELSE Put(kept, s, e))
      /\ op' = Put(op, s, o) /\ hand' = Put(hand, s, h) /\ sys' = sys
      /\ SessionOK(d, k, o, h) /\ kept = Put(kept, s, k)
  BY Here, Unput DEF Load, jobVars, Idle
<1>2. CASE e = d
  <2> HIDE DEF d, k, o, h, e
  <2> QED BY <1>1, <1>2, OneSession
<1>3. CASE e # d
  <2>1. SessionOK(e, e, NoOp, h)
    BY <1>1, LoadStep
  <2>2. o \in Ops /\ o.kind = "none"
    BY <1>1 DEF SessionOK, OpOK
  <2>3. OpOK(e, e, o)
    BY <1>1, <2>2 DEF OpOK, Writing, Renamed, Copying
  <2>4. HandOK(e, o, h)
    BY <1>1, <2>1, <2>2, Nothing DEF SessionOK, HandOK
  <2>5. SessionOK(e, e, o, h)
    BY <2>1, <2>3, <2>4 DEF SessionOK
  <2> HIDE DEF d, k, o, h, e
  <2> QED BY <1>1, <1>3, <2>5, OneSession
<1> QED BY <1>2, <1>3

\* Create keeps every session in order.
LEMMA CreateInv ==
    ASSUME Inv, NEW s \in Sessions, Create(s)
    PROVE  Inv'
<1> DEFINE o == op[s]
           h == hand[s]
           e == [NoDir EXCEPT !.payload = <<>>]
           n == [rev |-> 1, st |-> "uploading", off |-> 0, last |-> NoRec, started |-> FALSE]
           p == [at |-> "write", kind |-> "create", next |-> n]
<1>1. /\ o.at = "idle" /\ disk[s] = NoDir /\ kept[s] = NoDir
      /\ disk' = Put(disk, s, e) /\ kept' = Put(kept, s, disk'[s])
      /\ op' = Put(op, s, p) /\ hand' = Put(hand, s, h) /\ sys' = sys
      /\ SessionOK(disk[s], kept[s], o, h)
  BY Here, Unput DEF Create, Idle, StartWrite
<1>2. disk'[s] = e
  BY <1>1, PutAt DEF Inv, Maps
<1>3. e = [chain |-> <<>>, payload |-> <<>>, pending |-> NoRec]
  BY DEF NoDir
<1>4. n \in Recs
  BY UploadAssumption DEF Recs, Active
<1> HIDE DEF n
<1>5. p \in Ops /\ p.at = "write" /\ p.kind = "create" /\ p.next = n
  BY <1>4, OpMade DEF OpAts, OpKinds, Writing
<1> HIDE DEF o, h, e, p
<1>6. SessionOK(e, e, p, h)
  BY <1>1, <1>3, <1>5, CreateStep DEF n
<1> QED BY <1>1, <1>2, <1>6, OneSession

\* The removal after a failed Create keeps every session in order.
LEMMA UndoCreateInv ==
    ASSUME Inv, NEW s \in Sessions, UndoCreate(s)
    PROVE  Inv'
<1> DEFINE k == kept[s]
           h == hand[s]
<1>1. /\ op[s].at = "uncreate" /\ disk' = Put(disk, s, NoDir)
      /\ kept' = Put(kept, s, k) \/ kept' = Put(kept, s, NoDir)
      /\ op' = Put(op, s, NoOp) /\ hand' = Put(hand, s, h) /\ sys' = sys
      /\ SessionOK(disk[s], k, op[s], h)
  BY Here, Unput DEF UndoCreate
<1>2. SessionOK(NoDir, k, NoOp, h) /\ SessionOK(NoDir, NoDir, NoOp, h) /\ ~HasState(NoDir)
  BY <1>1, GoneStep, NoDirOK
<1> HIDE DEF k, h
<1> QED BY <1>1, <1>2, OneSession

\* What Open and Clean say of the session's directory.
LEMMA CleanHere ==
    ASSUME Inv, NEW s \in Sessions, Clean(s)
    PROVE  /\ HasState(disk[s]) /\ Loaded(disk[s]) = disk[s] /\ Rec(s) = Latest(disk[s])
           /\ Rec(s) \in Recs /\ ValidRec(Rec(s)) /\ Sound(disk[s])
           /\ Has(disk[s]) /\ Top(disk[s]) = Rec(s)
BY Here, SessionSound, CleanFacts DEF Clean, Rec

\* The reservation of AppendChunk keeps every session in order.
LEMMA AppendChunkInv ==
    ASSUME Inv, NEW s \in Sessions, AppendChunk(s)
    PROVE  Inv'
<1> DEFINE d == disk[s]
           k == kept[s]
           o == op[s]
           h == hand[s]
           r == Rec(s)
           p == [at |-> "reserved", kind |-> "append", next |-> r]
<1>1. /\ o.at = "idle" /\ Clean(s) /\ r.st = "uploading" /\ op' = Put(op, s, p)
      /\ disk' = Put(disk, s, d) /\ kept' = Put(kept, s, k) /\ hand' = Put(hand, s, h) /\ sys' = sys
  BY Unput DEF AppendChunk, Open, Idle, dirVars
<1>2. SessionOK(d, k, o, h)
  BY Here
<1>3. HasState(d) /\ Loaded(d) = d /\ r = Latest(d) /\ r \in Recs
  BY <1>1, CleanHere
<1> HIDE DEF d, k, o, h, r
<1>4. p \in Ops /\ p.at = "reserved" /\ p.kind = "append" /\ p.next = r
  BY <1>3, OpMade DEF OpAts, OpKinds, Copying
<1> HIDE DEF p
<1>5. SessionOK(d, k, p, h)
  BY <1>1, <1>2, <1>3, <1>4, AppendStep
<1> QED BY <1>1, <1>5, OneSession

\* The copy of AppendChunk keeps every session in order.
LEMMA WriteChunkInv ==
    ASSUME Inv, NEW s \in Sessions, NEW c \in Chunks, WriteChunk(s, c)
    PROVE  Inv'
<1> DEFINE d == disk[s]
           k == kept[s]
           o == op[s]
           h == hand[s]
           q == Append(d.payload, c)
           e == [d EXCEPT !.payload = q]
           p == [o EXCEPT !.at = "copied"]
<1>1. /\ o.at = "reserved" /\ disk' = Put(disk, s, e) /\ op' = Put(op, s, p)
      /\ kept' = Put(kept, s, k) /\ hand' = Put(hand, s, h) /\ sys' = sys
  BY Unput DEF WriteChunk
<1>2. SessionOK(d, k, o, h) /\ IsDir(d) /\ o \in Ops
  BY Here
<1>3. p \in Ops /\ p.at = "copied" /\ p.kind = o.kind /\ p.next = o.next
  BY <1>2, OpAt DEF OpAts, Copying
<1> HIDE DEF d, k, o, h, p
<1>4. q \in Payloads /\ HasState(d) /\ o.kind = "append"
  BY <1>1, <1>2, CopyFacts, Appended DEF Copying, CopyOK
<1> HIDE DEF q
<1>5. IsDir(e) /\ e.chain = d.chain /\ e.payload = q /\ e.pending = d.pending
  BY <1>2, <1>4, EditPayload
<1> HIDE DEF e
<1>6. SessionOK(e, k, p, h)
  BY <1>1, <1>2, <1>3, <1>5, CopyStep DEF q
<1> QED BY <1>1, <1>6, OneSession

\* A refused chunk keeps every session in order.
LEMMA RejectChunkInv ==
    ASSUME Inv, NEW s \in Sessions, RejectChunk(s)
    PROVE  Inv'
<1> DEFINE d == disk[s]
           k == kept[s]
           o == op[s]
           h == hand[s]
           cut == SubSeq(d.payload, 1, o.next.off)
           e == [d EXCEPT !.payload = cut]
           f == [k EXCEPT !.payload = cut]
<1>1. /\ o.at \in Copying /\ op' = Put(op, s, NoOp) /\ hand' = Put(hand, s, h) /\ sys' = sys
      /\ SessionOK(d, k, o, h) /\ IsDir(d) /\ IsDir(k)
      /\ disk = Put(disk, s, d) /\ kept = Put(kept, s, k)
  BY Here, Unput DEF RejectChunk, Copying
<1>2. \/ disk' = Put(disk, s, e) /\ kept' = Put(kept, s, f)
      \/ disk' = disk /\ kept' = kept
      \/ disk' = Put(disk, s, e) /\ kept' = kept
  BY DEF RejectChunk
<1> HIDE DEF d, k, o, h
<1>3. cut \in Payloads /\ HasState(d) /\ o.kind = "append"
  BY <1>1, CopyFacts, CutBack DEF CopyOK
<1> HIDE DEF cut
<1>4. IsDir(e) /\ e.chain = d.chain /\ e.payload = cut /\ e.pending = d.pending
  BY <1>1, <1>3, EditPayload
<1>5. IsDir(f) /\ f.chain = k.chain /\ f.payload = cut /\ f.pending = k.pending
  BY <1>1, <1>3, EditPayload
<1> HIDE DEF e, f
<1>6. SessionOK(d, k, NoOp, h) /\ SessionOK(e, k, NoOp, h) /\ SessionOK(e, f, NoOp, h)
  BY <1>1, <1>4, <1>5, RejectStep DEF cut
<1>8. CASE disk' = Put(disk, s, e) /\ kept' = Put(kept, s, f)
  BY <1>1, <1>6, <1>8, OneSession
<1>9. CASE disk' = disk /\ kept' = kept
  BY <1>1, <1>6, <1>9, OneSession
<1>10. CASE disk' = Put(disk, s, e) /\ kept' = kept
  BY <1>1, <1>6, <1>10, OneSession
<1> QED BY <1>2, <1>8, <1>9, <1>10

\* The payload sync of AppendChunk keeps every session in order.
LEMMA SyncChunkInv ==
    ASSUME Inv, NEW s \in Sessions, SyncChunk(s)
    PROVE  Inv'
<1> DEFINE d == disk[s]
           k == kept[s]
           o == op[s]
           h == hand[s]
           q == d.payload
           c == q[o.next.off + 1]
           n == Grown(o.next, c)
           f == [k EXCEPT !.payload = q]
           p == [at |-> "write", kind |-> "append", next |-> n]
<1>1. /\ o.at = "copied" /\ disk' = Put(disk, s, d) /\ kept' = Put(kept, s, f)
      /\ op' = Put(op, s, p) /\ hand' = Put(hand, s, h) /\ sys' = sys
  BY Unput DEF SyncChunk, StartWrite
<1>2. SessionOK(d, k, o, h) /\ IsDir(d) /\ IsDir(k)
  BY Here
<1> HIDE DEF d, k, o, h
<1>3. /\ CopyOK(d, k, o) /\ o.next \in Recs /\ ValidRec(o.next) /\ q \in Payloads /\ o.next.off \in Nat
  BY <1>1, <1>2, CopyFacts DEF Copying
<1>4. o.next.st = "uploading" /\ HasState(d) /\ o.kind = "append" /\ Len(q) = o.next.off + 1
  BY <1>1, <1>3 DEF CopyOK
<1>5. c \in Chunks
  BY <1>3, <1>4 DEF Payloads
<1> HIDE DEF c
<1>6. /\ n \in Recs /\ ValidRec(n) /\ n.rev = o.next.rev + 1 /\ n.off = o.next.off + 1
      /\ n.st \in {"uploading", "ready"}
  BY <1>3, <1>4, <1>5, NextOfAppend DEF Grown
<1> HIDE DEF n, q
<1>7. IsDir(f) /\ f.chain = k.chain /\ f.payload = q /\ f.pending = k.pending
  BY <1>2, <1>3, EditPayload
<1>8. p \in Ops /\ p.at = "write" /\ p.kind = "append" /\ p.next = n
  BY <1>6, OpMade DEF OpAts, OpKinds, Writing
<1> HIDE DEF f, p
<1>9. SessionOK(d, f, p, h)
  BY <1>1, <1>2, <1>6, <1>7, <1>8, SyncChunkStep DEF q
<1> QED BY <1>1, <1>9, OneSession

\* The load after a failed append keeps every session in order.
LEMMA ReloadInv ==
    ASSUME Inv, NEW s \in Sessions, Reload(s)
    PROVE  Inv'
<1> DEFINE d == disk[s]
           k == kept[s]
           o == op[s]
           h == hand[s]
           e == Loaded(d)
<1>1. /\ o.at = "reload" /\ op' = Put(op, s, NoOp) /\ hand' = Put(hand, s, h) /\ sys' = sys
      /\ SessionOK(d, k, o, h)
      /\ kept = Put(kept, s, k) /\ disk = Put(disk, s, d)
  BY Here, Unput DEF Reload
<1>2. \/ disk' = disk /\ kept' = kept
      \/ disk' = Put(disk, s, e) /\ kept' = (IF e = d THEN kept ELSE Put(kept, s, e))
  BY DEF Reload, dirVars
<1>3. SessionOK(d, k, NoOp, h) /\ SessionOK(e, e, NoOp, h)
  BY <1>1, LoadStep, UnloadedStep
<1>4. o.kind = "append"
  BY <1>1 DEF SessionOK, OpOK
<1> HIDE DEF d, k, o, h, e
<1>6. CASE disk' = disk /\ kept' = kept
  BY <1>1, <1>3, <1>6, OneSession
<1>7. CASE disk' = Put(disk, s, e) /\ kept' = (IF e = d THEN kept ELSE Put(kept, s, e))
  <2>1. CASE e = d
    BY <1>1, <1>3, <1>7, <2>1, OneSession
  <2>2. CASE e # d
    BY <1>1, <1>3, <1>7, <2>2, OneSession
  <2> QED BY <2>1, <2>2
<1> QED BY <1>2, <1>6, <1>7

\* The record of a transition.
LEMMA TurnedOK ==
    ASSUME NEW r \in Recs, NEW st \in Active \cup Terminal, NEW b \in BOOLEAN, NEW n, n = Turned(r, st, b)
    PROVE  n \in Recs /\ n.rev = r.rev + 1 /\ n.off = r.off /\ n.last = r.last /\ n.st = st /\ n.started = b
BY DEF Recs, Turned

\* A transition is started: its record follows the newest state and is valid.
LEMMA StartWriteInv ==
    ASSUME Inv, NEW s \in Sessions, Idle(s), Clean(s), NEW kind, NEW st, NEW b \in BOOLEAN, NEW g,
           kind \in {"begin", "start", "cancelled"} \cup Decisions, st \in Active \cup Terminal,
           StartWrite(s, kind, Turned(Rec(s), st, b)), Rec(s).st \in Active,
           ValidRec(Turned(Rec(s), st, b)),
           kind \in {"begin", "start"} => st = "committing",
           kind \in {"start"} \cup Decisions => Rec(s).st = "committing",
           g \in Hands(g),
           g.at = (IF kind \in Decisions THEN "settle"
                   ELSE IF kind = "cancelled" THEN "cancel" ELSE kind),
           disk' = disk, kept' = kept, hand' = Put(hand, s, g), sys' = sys
    PROVE  Inv'
<1> DEFINE d == disk[s]
           k == kept[s]
           o == op[s]
           n == Turned(Rec(s), st, b)
           p == [at |-> "write", kind |-> kind, next |-> n]
<1>1. /\ o.at = "idle" /\ SessionOK(d, k, o, hand[s])
      /\ disk' = Put(disk, s, d) /\ kept' = Put(kept, s, k) /\ op' = Put(op, s, p)
  BY Here, Unput DEF Idle, StartWrite
<1>2. HasState(d) /\ Loaded(d) = d /\ Rec(s) = Latest(d) /\ Rec(s) \in Recs
  BY CleanHere
<1>3. n \in Recs /\ n.rev = Latest(d).rev + 1 /\ n.off = Latest(d).off /\ n.st = st /\ ValidRec(n)
  BY <1>2, TurnedOK
<1> HIDE DEF n
<1>4. p \in Ops /\ p.at = "write" /\ p.kind = kind /\ p.next = n
  BY <1>3, OpMade DEF OpAts, OpKinds, Writing
<1> HIDE DEF d, k, o, p
<1>5. SessionOK(d, k, p, g)
  BY <1>1, <1>2, <1>3, <1>4, BeginStep
<1> QED BY <1>1, <1>5, OneSession

\* A handler at a new position.
LEMMA HandMade ==
    ASSUME NEW a \in {"free"} \cup Deciding \cup Asked, NEW g, g = [NoHand EXCEPT !.at = a]
    PROVE  g \in Hands(g) /\ g.at = a
BY Nothing, HandAt

\* BeginCommit keeps every session in order.
LEMMA CommitInv ==
    ASSUME Inv, NEW s \in Sessions, Commit(s)
    PROVE  Inv'
<1> DEFINE g == [NoHand EXCEPT !.at = "begin"]
           n == Turned(Rec(s), "committing", FALSE)
<1>1. /\ Idle(s) /\ Clean(s) /\ Rec(s).st = "ready" /\ StartWrite(s, "begin", n)
      /\ hand' = Put(hand, s, g) /\ disk' = disk /\ kept' = kept /\ sys' = sys
  BY DEF Commit, Open, dirVars
<1>2. Rec(s) \in Recs /\ ValidRec(Rec(s))
  BY <1>1, CleanHere
<1>3. ValidRec(n)
  <2>1. n.off = Rec(s).off /\ n.last = Rec(s).last /\ n.st = "committing" /\ n.started = FALSE
    BY <1>2 DEF Turned
  <2> HIDE DEF n
  <2> QED BY <1>1, <1>2, <2>1 DEF ValidRec
<1>4. g \in Hands(g) /\ g.at = "begin"
  BY HandMade DEF Asked
<1> HIDE DEF g
<1> QED BY <1>1, <1>3, <1>4, StartWriteInv DEF Active, Decisions

\* MarkPublicationStarted keeps every session in order.
LEMMA StartPublicationInv ==
    ASSUME Inv, NEW s \in Sessions, StartPublication(s)
    PROVE  Inv'
<1> DEFINE g == [NoHand EXCEPT !.at = "start"]
           n == Turned(Rec(s), Rec(s).st, TRUE)
<1>1. /\ Idle(s) /\ Clean(s) /\ hand[s].at = "opened" /\ StartWrite(s, "start", n)
      /\ hand' = Put(hand, s, g) /\ disk' = disk /\ kept' = kept /\ sys' = sys
  BY DEF StartPublication, dirVars
<1>2. Rec(s) \in Recs /\ ValidRec(Rec(s)) /\ Rec(s).st = "committing"
  BY <1>1, CleanHere, Here DEF SessionOK, HandOK, Deciding
<1>3. ValidRec(n)
  <2>1. n.off = Rec(s).off /\ n.last = Rec(s).last /\ n.st = "committing" /\ n.started = TRUE
    BY <1>2 DEF Turned
  <2> HIDE DEF n
  <2> QED BY <1>1, <1>2, <2>1 DEF ValidRec
<1>4. g \in Hands(g) /\ g.at = "start"
  BY HandMade DEF Asked
<1> HIDE DEF g
<1> QED BY <1>1, <1>2, <1>3, <1>4, StartWriteInv DEF Active, Decisions

\* Cancel keeps every session in order.
LEMMA CancelInv ==
    ASSUME Inv, NEW s \in Sessions, Cancel(s)
    PROVE  Inv'
<1> DEFINE g == [NoHand EXCEPT !.at = "cancel"]
           b == Rec(s).started
           n == Turned(Rec(s), "cancelled", b)
<1>1. /\ Idle(s) /\ Clean(s) /\ Rec(s).st \in {"uploading", "ready"} /\ StartWrite(s, "cancelled", n)
      /\ hand' = Put(hand, s, g) /\ disk' = disk /\ kept' = kept /\ sys' = sys
  BY DEF Cancel, Open, dirVars
<1>2. Rec(s) \in Recs /\ ValidRec(Rec(s))
  BY <1>1, CleanHere
<1>3. b \in BOOLEAN /\ ~b
  BY <1>1, <1>2 DEF Recs, ValidRec
<1>4. ValidRec(n)
  BY <1>1, <1>2, <1>3, TurnedOK DEF ValidRec, Terminal
<1>5. g \in Hands(g) /\ g.at = "cancel"
  BY HandMade DEF Asked
<1> HIDE DEF g, b
<1> QED BY <1>1, <1>3, <1>4, <1>5, StartWriteInv DEF Active, Terminal, Decisions

\* A decision written under the leases keeps every session in order.
LEMMA ResolveInv ==
    ASSUME Inv, NEW s \in Sessions, NEW st \in Decisions, Resolve(s, st), hand[s].at \in Deciding,
           disk' = disk, kept' = kept, sys' = sys
    PROVE  Inv'
<1> DEFINE h == hand[s]
           g == [h EXCEPT !.at = "settle"]
           b == Rec(s).started /\ st # "ready"
           n == Turned(Rec(s), st, b)
<1>1. Idle(s) /\ Clean(s) /\ StartWrite(s, st, n) /\ hand' = Put(hand, s, g)
  BY DEF Resolve
<1>2. Rec(s) \in Recs /\ ValidRec(Rec(s)) /\ Rec(s).st = "committing" /\ h \in Hands(h)
  BY <1>1, CleanHere, Here DEF SessionOK, HandOK
<1>3. b \in BOOLEAN /\ (b => st # "ready") /\ st \in Active \cup Terminal
  BY <1>2 DEF Recs, Decisions, Active, Terminal
<1>4. g \in Hands(g) /\ g.at = "settle"
  BY <1>2, HandAt DEF Asked
<1> HIDE DEF g, b, h
<1>5. ValidRec(n)
  BY <1>2, <1>3, TurnedOK DEF ValidRec, Decisions
<1> QED BY <1>1, <1>2, <1>3, <1>4, <1>5, StartWriteInv DEF Active, Decisions

\* A step of the handler alone.
LEMMA HandInv ==
    ASSUME Inv, NEW s \in Sessions, NEW g, g \in Hands(g), g.at \in {"free"} \cup Deciding,
           hand' = Put(hand, s, g), op[s].at = "idle",
           g.at \in Deciding => Has(disk[s]) /\ Top(disk[s]).st = "committing",
           disk' = disk, kept' = kept, op' = op, sys' = sys
    PROVE  Inv'
<1> DEFINE d == disk[s]
           k == kept[s]
           o == op[s]
<1>1. /\ SessionOK(d, k, o, hand[s]) /\ o.kind = "none"
      /\ disk' = Put(disk, s, d) /\ kept' = Put(kept, s, k) /\ op' = Put(op, s, o)
  BY Here, Unput DEF SessionOK, OpOK
<1>2. HandOK(d, o, g)
  BY <1>1 DEF HandOK, Deciding, Decisions
<1>3. SessionOK(d, k, o, g)
  BY <1>1, <1>2 DEF SessionOK
<1> HIDE DEF d, k, o
<1> QED BY <1>1, <1>3, OneSession

\* A handler that decides finds the session idle and committing.
LEMMA Decider ==
    ASSUME Inv, NEW s \in Sessions, hand[s].at \in Deciding
    PROVE  op[s].at = "idle" /\ Has(disk[s]) /\ Top(disk[s]).st = "committing"
BY Here DEF SessionOK, HandOK

\* OpenPayload and admission keeps every session in order.
LEMMA AdmitInv ==
    ASSUME Inv, NEW s \in Sessions, Admit(s)
    PROVE  Inv'
<1>1. PICK to \in {"rollback", IF Original(s, target) THEN "opened" ELSE "resolve"} :
         hand' = Put(hand, s, [NoHand EXCEPT !.at = to])
  BY DEF Admit
<1>2. /\ hand[s].at \in Deciding /\ to \in Deciding
      /\ disk' = disk /\ kept' = kept /\ op' = op /\ sys' = sys
  BY DEF Admit, Deciding, dirVars
<1> DEFINE g == [NoHand EXCEPT !.at = to]
<1>3. g \in Hands(g) /\ g.at = to
  BY <1>2, HandMade
<1> HIDE DEF g
<1> QED BY <1>1, <1>2, <1>3, Decider, HandInv DEF g

\* WriteFileIfUnchanged keeps every session in order.
LEMMA PublishInv ==
    ASSUME Inv, NEW s \in Sessions, Publish(s)
    PROVE  Inv'
<1>1. PICK to \in {"ok", "failed", "conflict", "free"} :
         hand' = Put(hand, s, [NoHand EXCEPT !.at = to])
  BY DEF Publish
<1>2. /\ hand[s].at \in Deciding /\ to \in {"free"} \cup Deciding
      /\ disk' = disk /\ kept' = kept /\ op' = op /\ sys' = sys
  BY DEF Publish, Deciding, dirVars
<1> DEFINE g == [NoHand EXCEPT !.at = to]
<1>3. g \in Hands(g) /\ g.at = to
  BY <1>2, HandMade
<1> HIDE DEF g
<1> QED BY <1>1, <1>2, <1>3, Decider, HandInv DEF g

\* A commit given up before publication keeps every session in order.
LEMMA WithdrawInv ==
    ASSUME Inv, NEW s \in Sessions, Withdraw(s)
    PROVE  Inv'
<1> DEFINE st == IF hand[s].at = "rollback" \/ Original(s, target) THEN "ready" ELSE "conflict"
<1>1. /\ Resolve(s, st) /\ hand[s].at \in Deciding /\ st \in Decisions
      /\ disk' = disk /\ kept' = kept /\ sys' = sys
  BY DEF Withdraw, Deciding, Decisions, dirVars
<1> HIDE DEF st
<1> QED BY <1>1, ResolveInv

\* The decision after the write keeps every session in order.
LEMMA DecideInv ==
    ASSUME Inv, NEW s \in Sessions, Decide(s)
    PROVE  Inv'
<1>1. hand[s].at \in Deciding /\ disk' = disk /\ kept' = kept /\ sys' = sys
  BY DEF Decide, Deciding, dirVars
<1>2. CASE Resolve(s, "committed")
  BY <1>1, <1>2, ResolveInv DEF Decisions
<1>3. CASE hand' = Put(hand, s, NoHand) /\ op' = op
  BY <1>1, <1>3, Decider, HandInv, Nothing DEF Deciding
<1>4. CASE \E st \in {"ready", "conflict"} : Resolve(s, st)
  BY <1>1, <1>4, ResolveInv DEF Decisions
<1> QED BY <1>2, <1>3, <1>4 DEF Decide

\* The evidence of a reconciliation keeps every session in order.
LEMMA ReconcileInv ==
    ASSUME Inv, NEW s \in Sessions, Reconcile(s)
    PROVE  Inv'
<1> DEFINE g == [at |-> "probe", ev |-> target]
<1>1. /\ Idle(s) /\ Clean(s) /\ Rec(s).st = "committing" /\ hand' = Put(hand, s, g)
      /\ disk' = disk /\ kept' = kept /\ op' = op /\ sys' = sys
  BY DEF Reconcile, Open, dirVars
<1>2. Has(disk[s]) /\ Top(disk[s]).st = "committing"
  BY <1>1, CleanHere
<1>3. g \in Hands(g) /\ g.at = "probe"
  BY DEF Hands, Deciding
<1> HIDE DEF g
<1> QED BY <1>1, <1>2, <1>3, HandInv DEF Deciding, Idle

\* The decision of a reconciliation keeps every session in order.
LEMMA SettleInv ==
    ASSUME Inv, NEW s \in Sessions, Settle(s)
    PROVE  Inv'
<1>1. hand[s].at \in Deciding /\ disk' = disk /\ kept' = kept /\ sys' = sys
  BY DEF Settle, Deciding, dirVars
<1>2. CASE Resolve(s, Verdict(s, hand[s].ev))
  <2>1. Verdict(s, hand[s].ev) \in Decisions
    BY DEF Verdict, Decisions
  <2> QED BY <1>1, <1>2, <2>1, ResolveInv
<1>3. CASE hand' = Put(hand, s, NoHand) /\ op' = op
  BY <1>1, <1>3, Decider, HandInv, Nothing DEF Deciding
<1> QED BY <1>2, <1>3 DEF Settle

\* The second look of CleanupExpired keeps every session in order.
LEMMA VisitListedInv ==
    ASSUME Inv, NEW s \in Sessions, VisitListed(s)
    PROVE  Inv'
<1> DEFINE d == disk[s]
           k == kept[s]
           o == op[s]
           h == hand[s]
           p == [at |-> "remove", kind |-> "expire", next |-> NoRec]
<1>1. /\ o.at = "idle" /\ disk' = Put(disk, s, d) /\ kept' = Put(kept, s, k) /\ hand' = Put(hand, s, h)
      /\ sys' = sys /\ SessionOK(d, k, o, h) /\ op = Put(op, s, o)
  BY Here, Unput DEF VisitListed, Idle, dirVars
<1>2. CASE Clean(s) /\ StillExpired(s)
  <2>1. op' = Put(op, s, p)
    BY <1>2 DEF VisitListed
  <2>2. HasState(d) /\ Loaded(d) = d /\ Latest(d).st # "committing"
    BY <1>2, CleanHere DEF StillExpired, Expired
  <2>3. p \in Ops /\ p.at = "remove" /\ p.kind = "expire"
    BY OpMade DEF OpAts, OpKinds
  <2> HIDE DEF d, k, o, h, p
  <2>4. SessionOK(d, k, p, h)
    BY <1>1, <2>2, <2>3, ExpireStep
  <2> QED BY <1>1, <2>1, <2>4, OneSession
<1>3. CASE ~(Clean(s) /\ StillExpired(s))
  <2>1. op' = op
    BY <1>3 DEF VisitListed
  <2> HIDE DEF d, k, o, h
  <2> QED BY <1>1, <2>1, OneSession
<1> QED BY <1>2, <1>3

\* RemoveAll in one piece keeps every session in order.
LEMMA RemoveDirInv ==
    ASSUME Inv, NEW s \in Sessions, RemoveDir(s), ~TornRemoval
    PROVE  Inv'
<1> DEFINE k == kept[s]
           o == op[s]
           h == hand[s]
<1>1. /\ o.at = "remove" /\ disk' = Put(disk, s, NoDir) /\ kept' = Put(kept, s, k)
      /\ op' = Put(op, s, o) /\ hand' = Put(hand, s, h) /\ sys' = sys
      /\ SessionOK(disk[s], k, o, h)
  BY Here, Unput DEF RemoveDir, Remnants, jobVars
<1>2. SessionOK(NoDir, k, o, h) /\ ~HasState(NoDir)
  BY <1>1, GoneStep, NoDirOK
<1> HIDE DEF k, o, h
<1> QED BY <1>1, <1>2, OneSession

\* The root sync after a removal keeps every session in order.
LEMMA SyncRemovalInv ==
    ASSUME Inv, NEW s \in Sessions, SyncRemoval(s)
    PROVE  Inv'
<1> DEFINE k == kept[s]
           o == op[s]
           h == hand[s]
<1>1. /\ o.at = "remove" /\ disk' = Put(disk, s, NoDir)
      /\ kept' = Put(kept, s, k) \/ kept' = Put(kept, s, NoDir)
      /\ op' = Put(op, s, NoOp) /\ hand' = Put(hand, s, h) /\ sys' = sys
      /\ SessionOK(disk[s], k, o, h)
  BY Here, Unput DEF SyncRemoval
<1>2. SessionOK(NoDir, k, NoOp, h) /\ SessionOK(NoDir, NoDir, NoOp, h) /\ ~HasState(NoDir)
  BY <1>1, GoneStep, NoDirOK
<1> HIDE DEF k, o, h
<1> QED BY <1>1, <1>2, OneSession

\* Steps that touch no directory, operation or handler.
LEMMA AsideInv ==
    ASSUME Inv, disk' = disk, kept' = kept, op' = op, hand' = hand
    PROVE  Inv'
BY DEF Inv, Maps

\* A kill keeps every session in order.
LEMMA KillInv ==
    ASSUME Inv, Kill
    PROVE  Inv'
<1>1. /\ disk' = disk /\ kept' = kept /\ sys' = "down"
      /\ op' = [s \in Sessions |-> NoOp] /\ hand' = [s \in Sessions |-> NoHand]
  BY DEF Kill, Die, dirVars
<1>2. ASSUME NEW s \in Sessions
      PROVE  SessionOK(disk'[s], kept'[s], op'[s], hand'[s])
  BY <1>1, Here, Rest
<1>3. Maps'
  BY <1>1 DEF Maps, Inv
<1> QED BY <1>1, <1>2, <1>3 DEF Inv

\* Whatever a power loss leaves of a session directory is sound.
LEMMA OutcomesSound ==
    ASSUME Inv, NEW s \in Sessions, NEW x \in Outcomes(s)
    PROVE  /\ Sound(x)
           /\ x.chain \in {disk[s].chain, kept[s].chain}
<1>1. PICK e \in {disk[s], kept[s]}, p \in {disk[s].payload, kept[s].payload} :
        x = [chain |-> e.chain, pending |-> e.pending,
             payload |-> IF e.payload = NoFile \/ p = NoFile THEN e.payload ELSE p]
  BY DEF Outcomes
<1>2. SessionOK(disk[s], kept[s], op[s], hand[s])
  BY Here
<1>3. Sound(x) /\ x.chain = e.chain
  BY <1>1, <1>2, OutcomeSound
<1> QED BY <1>1, <1>3

\* A power loss keeps every session in order.
LEMMA PowerLossInv ==
    ASSUME Inv, PowerLoss
    PROVE  Inv'
<1>1. /\ disk' \in [Sessions -> UNION {Outcomes(s) : s \in Sessions}]
      /\ \A s \in Sessions : disk'[s] \in Outcomes(s)
      /\ kept' = disk' /\ sys' = "down"
      /\ op' = [s \in Sessions |-> NoOp] /\ hand' = [s \in Sessions |-> NoHand]
  BY DEF PowerLoss, Die
<1>2. ASSUME NEW s \in Sessions
      PROVE  SessionOK(disk'[s], kept'[s], op'[s], hand'[s])
  <2>1. Sound(disk'[s])
    BY <1>1, OutcomesSound
  <2> QED BY <1>1, <2>1, SoundAlone
<1>3. Maps'
  <2>1. disk' = [s \in Sessions |-> disk'[s]]
    BY <1>1
  <2> QED BY <1>1, <2>1 DEF Maps
<1> QED BY <1>1, <1>2, <1>3 DEF Inv

\* Without a process nothing is under way.
Asleep ==
    /\ sys # "up" => listed = {}
    /\ ~Up => \A s \in Sessions : op[s].at = "idle" /\ hand[s].at = "free"

\* What recoverAll leaves of the directories when it does not refuse one.
LEMMA RestartMaps ==
    ASSUME Restart, \A s \in Sessions : Loadable(disk[s])
    PROVE  /\ disk' = [s \in Sessions |-> Loaded(disk[s])]
           /\ kept' = [s \in Sessions |->
                          IF Loaded(disk[s]) = disk[s] /\ disk[s] # NoDir THEN kept[s] ELSE Loaded(disk[s])]
<1>1. /\ disk' = [s \in Sessions |-> Loaded(disk[s])]
      /\ kept' = [s \in Sessions |->
                     IF disk'[s] = disk[s] /\ disk'[s] # NoDir THEN kept[s] ELSE disk'[s]]
  BY DEF Restart
<1> QED BY <1>1

\* A session nobody is at work on stays in order when it is loaded.
LEMMA LoadedIdle ==
    ASSUME NEW d, NEW k, NEW o, NEW h, SessionOK(d, k, o, h), o.at = "idle"
    PROVE  SessionOK(Loaded(d), Loaded(d), o, h)
<1>2. SessionOK(Loaded(d), Loaded(d), NoOp, h)
  BY LoadStep
<1>3. o \in Ops /\ o.kind = "none"
  BY DEF SessionOK, OpOK
<1>4. OpOK(Loaded(d), Loaded(d), o)
  BY <1>3 DEF OpOK, Writing, Renamed, Copying
<1>5. HandOK(Loaded(d), o, h)
  BY <1>2, <1>3, Nothing DEF SessionOK, HandOK
<1> QED BY <1>2, <1>4, <1>5 DEF SessionOK

\* Open and recoverAll keeps every session in order.
LEMMA RestartInv ==
    ASSUME Inv, Asleep, Restart
    PROVE  Inv'
<1>1. op' = op /\ hand' = hand /\ ~Up
  BY DEF Restart, jobVars, Up
<1>2. CASE \A s \in Sessions : Loadable(disk[s])
  <2>1. /\ disk' = [s \in Sessions |-> Loaded(disk[s])]
        /\ kept' = [s \in Sessions |->
                       IF Loaded(disk[s]) = disk[s] /\ disk[s] # NoDir THEN kept[s] ELSE Loaded(disk[s])]
    BY <1>2, RestartMaps
  <2>2. ASSUME NEW s \in Sessions
        PROVE  SessionOK(disk'[s], kept'[s], op'[s], hand'[s])
    <3>0. \/ disk'[s] = disk[s] /\ kept'[s] = kept[s]
          \/ disk'[s] = Loaded(disk[s]) /\ kept'[s] = Loaded(disk[s])
      <4>1. disk'[s] = Loaded(disk[s])
        BY <2>1
      <4>2. kept'[s] = IF Loaded(disk[s]) = disk[s] /\ disk[s] # NoDir THEN kept[s] ELSE Loaded(disk[s])
        BY <2>1
      <4> QED BY <4>1, <4>2
    <3>1. SessionOK(disk[s], kept[s], op[s], hand[s]) /\ op[s].at = "idle"
      BY <1>1, Here DEF Asleep
    <3> QED
      BY <1>1, <3>0, <3>1, LoadedIdle
  <2>3. Maps'
    BY <1>1, <2>1 DEF Inv, Maps
  <2> QED BY <2>2, <2>3 DEF Inv
<1>3. CASE ~\A s \in Sessions : Loadable(disk[s])
  BY <1>1, <1>3, AsideInv DEF Restart, dirVars
<1> QED BY <1>2, <1>3

\* The empty store.
LEMMA InitInv == Init => Inv /\ Asleep
<1> SUFFICES ASSUME Init PROVE Inv /\ Asleep
  OBVIOUS
<1>1. Sound(NoDir) /\ ~HasState(NoDir)
  BY NoDirOK DEF Sound
<1>2. SessionOK(NoDir, NoDir, NoOp, NoHand)
  BY <1>1, SoundAlone
<1>3. /\ disk = [s \in Sessions |-> NoDir] /\ kept = [s \in Sessions |-> NoDir]
      /\ op = [s \in Sessions |-> NoOp] /\ hand = [s \in Sessions |-> NoHand]
      /\ sys = "up"
  BY DEF Init
<1>4. Maps
  BY <1>3 DEF Maps
<1>5. \A s \in Sessions : SessionOK(disk[s], kept[s], op[s], hand[s])
  BY <1>2, <1>3
<1> QED BY <1>3, <1>4, <1>5 DEF Inv, Asleep, Up

\* Every step but those of the machine is taken by a process.
LEMMA Awake ==
    ASSUME Inv, Asleep, NEW s \in Sessions,
           Step(s) \/ Request(s) \/ StateWriteFails(s) \/ VisitListed(s)
    PROVE  Up /\ sys' = sys /\ (sys # "up" => listed' = {})
<1>1. CASE ~Up
  <2>1. op[s].at = "idle" /\ hand[s].at = "free" /\ s \notin listed /\ sys # "up" /\ sys # "starting"
    BY <1>1 DEF Asleep, Up
  <2>2. ~(\/ NameState(s) \/ SyncState(s) \/ Compact(s) \/ Done(s) \/ PurgePayload(s) \/ SyncPurge(s)
          \/ Reload(s) \/ UndoCreate(s) \/ SyncChunk(s) \/ RemoveDir(s) \/ SyncRemoval(s)
          \/ StateWriteFails(s) \/ RejectChunk(s) \/ \E c \in Chunks : WriteChunk(s, c))
    BY <2>1 DEF NameState, SyncState, Compact, Done, PurgePayload, SyncPurge, Reload, UndoCreate, SyncChunk,
                RemoveDir, SyncRemoval, StateWriteFails, RejectChunk, WriteChunk
  <2>3. ~(Admit(s) \/ Withdraw(s) \/ StartPublication(s) \/ Publish(s) \/ Decide(s) \/ Settle(s))
    BY <2>1 DEF Admit, Withdraw, StartPublication, Publish, Decide, Settle
  <2>4. ~(\/ Create(s) \/ AppendChunk(s) \/ ReplayChunk(s) \/ Commit(s) \/ Cancel(s) \/ Load(s) \/ Reconcile(s)
          \/ VisitListed(s))
    BY <2>1 DEF Create, AppendChunk, ReplayChunk, Commit, Cancel, Load, Reconcile, VisitListed, Serving
  <2> QED BY <2>2, <2>3, <2>4 DEF Step, Request
<1>2. sys' = sys /\ (listed' = listed \/ listed' = listed \ {s})
  BY DEF Step, Request, NameState, SyncState, Compact, Done, PurgePayload, SyncPurge, Reload, UndoCreate, SyncChunk,
         RemoveDir, SyncRemoval, StateWriteFails, RejectChunk, WriteChunk, Admit, Withdraw, StartPublication,
         Publish, Decide, Settle, Create, AppendChunk, ReplayChunk, Commit, Cancel, Load, Reconcile, VisitListed,
         jobVars
<1> QED BY <1>1, <1>2 DEF Asleep

\* Every step of a session, one lemma per action.
LEMMA SessionStepInv ==
    ASSUME Inv, NEW s \in Sessions, ~TornRemoval,
           Step(s) \/ Request(s) \/ StateWriteFails(s) \/ VisitListed(s)
    PROVE  Inv'
<1>1. CASE Step(s)
  <2>1. CASE NameState(s) \/ SyncState(s) \/ Compact(s) \/ Done(s) \/ PurgePayload(s) \/ SyncPurge(s)
    BY <2>1, NameStateInv, SyncStateInv, CompactInv, DoneInv, PurgePayloadInv, SyncPurgeInv
  <2>2. CASE Reload(s) \/ UndoCreate(s) \/ SyncChunk(s) \/ RemoveDir(s) \/ SyncRemoval(s)
    BY <2>2, ReloadInv, UndoCreateInv, SyncChunkInv, RemoveDirInv, SyncRemovalInv
  <2>3. CASE Admit(s) \/ Withdraw(s) \/ StartPublication(s) \/ Publish(s) \/ Decide(s) \/ Settle(s)
    BY <2>3, AdmitInv, WithdrawInv, StartPublicationInv, PublishInv, DecideInv, SettleInv
  <2> QED BY <1>1, <2>1, <2>2, <2>3 DEF Step
<1>2. CASE Request(s)
  <2>1. CASE Create(s) \/ AppendChunk(s) \/ (\E c \in Chunks : WriteChunk(s, c)) \/ RejectChunk(s)
    BY <2>1, CreateInv, AppendChunkInv, WriteChunkInv, RejectChunkInv
  <2>2. CASE Commit(s) \/ Cancel(s) \/ Load(s) \/ Reconcile(s)
    BY <2>2, CommitInv, CancelInv, LoadInv, ReconcileInv
  <2>3. CASE ReplayChunk(s)
    BY <2>3, AsideInv DEF ReplayChunk, dirVars, jobVars, Serving, Up
  <2> QED BY <1>2, <2>1, <2>2, <2>3 DEF Request
<1> QED BY <1>1, <1>2, StateWriteFailsInv, VisitListedInv

\* Every step.
LEMMA NextInv ==
    ASSUME Inv, Asleep, ~TornRemoval, [Next]_vars
    PROVE  Inv' /\ Asleep'
<1>1. CASE \E s \in Sessions : Step(s) \/ Request(s) \/ StateWriteFails(s) \/ VisitListed(s)
  BY <1>1, SessionStepInv, Awake DEF Asleep, Up
<1>2. CASE \/ \E s \in Sessions : TimePasses(s)
           \/ ListExpired \/ OtherChanges \/ AllQuiet \/ UNCHANGED vars
  <2>1. /\ disk' = disk /\ kept' = kept /\ op' = op /\ hand' = hand /\ sys' = sys
        /\ listed' = listed \/ sys = "up"
    BY <1>2 DEF TimePasses, ListExpired, OtherChanges, AllQuiet, vars, dirVars, jobVars, Serving
  <2>2. Asleep'
    BY <2>1 DEF Asleep, Up
  <2>3. Inv'
    BY <2>1 DEF Inv, Maps
  <2> QED BY <2>2, <2>3
<1>3. CASE Kill \/ PowerLoss
  <2>1. /\ op' = [s \in Sessions |-> NoOp] /\ hand' = [s \in Sessions |-> NoHand] /\ listed' = {}
    BY <1>3 DEF Kill, PowerLoss, Die
  <2> QED BY <1>3, <2>1, KillInv, PowerLossInv, Nothing DEF Asleep
<1>4. CASE Restart
  <2>1. op' = op /\ hand' = hand /\ listed' = listed /\ ~Up /\ sys # "up"
    BY <1>4 DEF Restart, jobVars, Up
  <2> QED BY <1>4, <2>1, RestartInv DEF Asleep
<1>5. CASE Serve \/ GiveUp
  <2>1. /\ disk' = disk /\ kept' = kept /\ op' = op /\ hand' = hand /\ listed' = listed
        /\ sys = "starting" /\ \A s \in Sessions : op[s].at = "idle" /\ hand[s].at = "free"
    BY <1>5 DEF Serve, GiveUp, dirVars, jobVars, Idle
  <2> QED BY <2>1, AsideInv DEF Asleep, Up
<1> QED BY <1>1, <1>2, <1>3, <1>4, <1>5 DEF Next

\* The invariant holds in every reachable state, for any number of sessions, chunk
\* contents, limits, faults and crashes, as long as RemoveAll is not cut off part-way.
THEOREM SessionsHold ==
    ASSUME ~TornRemoval PROVE Spec => [](Inv /\ Asleep)
BY InitInv, NextInv, PTL DEF Spec

\* An orderly session can be loaded from whatever a power loss leaves of it.
LEMMA InvLoadable == Inv => CrashLoadable
BY OutcomesSound, SoundAlone DEF CrashLoadable

\* CrashLoadable for every instance: whenever the process dies, and whichever entries and
\* bytes the filesystem keeps, recoverAll loads every session directory.
THEOREM EveryCrashLoads ==
    ASSUME ~TornRemoval PROVE Spec => []CrashLoadable
BY SessionsHold, InvLoadable, PTL

\* A session that is committing is neither being created nor removed.
LEMMA CommittingHeld ==
    ASSUME NEW d, NEW k, NEW o, NEW h, SessionOK(d, k, o, h), HasState(d), Latest(d).st = "committing"
    PROVE  o.kind # "create" /\ o.at \notin {"uncreate", "remove"}
<1>1. o.at \notin {"uncreate", "remove"}
  BY DEF SessionOK, OpOK
<1>2. CASE o.at \in Writing
  <2>1. CASE o.at = "write"
    BY <1>1, <1>2, <2>1 DEF SessionOK, OpOK, Follows
  <2>2. CASE o.at \in Renamed
    BY <1>1, <1>2, <2>2 DEF SessionOK, OpOK, WriteOK
  <2> QED BY <1>2, <2>1, <2>2 DEF Writing
<1>3. CASE o.at \notin Writing
  BY <1>1, <1>3 DEF SessionOK, OpOK, Ops, OpAts, CopyOK
<1> QED BY <1>1, <1>2, <1>3

\* One step of a session's own operation.
LEMMA OwnStepKeeps ==
    ASSUME Inv, ~TornRemoval, NEW s \in Sessions, HasState(disk[s]), Rec(s).st = "committing",
           Step(s) \/ Request(s) \/ StateWriteFails(s) \/ VisitListed(s)
    PROVE  HasState(disk'[s])
<1> DEFINE d == disk[s]
           o == op[s]
<1>0. /\ SessionOK(d, kept[s], o, hand[s]) /\ IsDir(d) /\ DirOK(d) /\ Latest(d).st = "committing"
      /\ \A x : disk' = Put(disk, s, x) => disk'[s] = x
  BY Here, PutAt DEF Rec, Inv, Maps
<1>1. o.kind # "create" /\ o.at \notin {"uncreate", "remove"}
  BY <1>0, CommittingHeld
<1>2. Sound(d) /\ HasState(Loaded(d))
  BY <1>0, SessionSound, LoadedSound DEF Has
<1>3. CASE disk' = disk
  BY <1>3
<1>4. CASE NameState(s)
  <2>1. WriteOK(d, kept[s], o) /\ Follows(d, kept[s], o)
    BY <1>0, <1>4 DEF NameState, SessionOK, OpOK, Writing
  <2>2. HasState([d EXCEPT !.chain = WithState(@, o.next)])
    BY <1>0, <2>1, NameOK DEF WriteOK, Follows
  <2> QED BY <1>0, <1>4, <2>2 DEF NameState
<1>5. CASE Compact(s) /\ Stale(s) # {}
  <2> DEFINE S == Stale(s)
             n == o.next.rev
             g == [j \in DOMAIN d.chain \ {Min(S)} |-> d.chain[j]]
             e == [d EXCEPT !.chain = g]
  <2>1. HasState(d) /\ Latest(d) = o.next
    BY <1>0, <1>5 DEF Compact, SessionOK, OpOK, Renamed
  <2>2. IsChain(d.chain) /\ DOMAIN d.chain # {} /\ n = Max(DOMAIN d.chain)
    BY <1>0, <2>1, NewestState DEF IsDir, HasState
  <2>3. S # {} /\ S = {i \in DOMAIN d.chain : i < n - 1}
    BY <1>5 DEF Stale
  <2>4. disk'[s] = e
    BY <1>0, <1>5 DEF Compact, NextStale
  <2> HIDE DEF S, n, d
  <2>5. IsChain(g) /\ DOMAIN g # {}
    BY <2>2, <2>3, CompactChain
  <2> HIDE DEF g
  <2>6. e.chain = g
    BY <1>0, <2>5, EditChain
  <2> QED BY <2>4, <2>5, <2>6 DEF HasState
<1>6. CASE Load(s) \/ Reload(s)
  BY <1>0, <1>2, <1>6 DEF Load, Reload, dirVars
<1>7. CASE Create(s)
  BY <1>0, <1>7, NoDirOK DEF Create
<1>8. CASE UndoCreate(s) \/ RemoveDir(s)
  BY <1>1, <1>8 DEF UndoCreate, RemoveDir
<1>9. ASSUME NEW q \in Payloads \cup {NoFile}, disk' = Put(disk, s, [d EXCEPT !.payload = q])
      PROVE  HasState(disk'[s])
  <2> DEFINE e == [d EXCEPT !.payload = q]
  <2>1. disk'[s] = e
    BY <1>0, <1>9
  <2>2. e.chain = d.chain
    BY <1>0, EditPayload
  <2> HIDE DEF e
  <2> QED BY <2>1, <2>2 DEF HasState
<1>10. CASE PurgePayload(s)
  BY <1>9, <1>10 DEF PurgePayload
<1>11. ASSUME NEW c \in Chunks, WriteChunk(s, c) PROVE HasState(disk'[s])
  <2>1. Append(d.payload, c) \in Payloads
    BY <1>0, <1>11, CopyFacts, Appended DEF WriteChunk, Copying
  <2> QED BY <1>9, <1>11, <2>1 DEF WriteChunk
<1>12. CASE RejectChunk(s)
  <2>1. SubSeq(d.payload, 1, o.next.off) \in Payloads
    BY <1>0, <1>12, CopyFacts, CutBack DEF RejectChunk, Copying
  <2>2. disk' = disk \/ disk' = Put(disk, s, [d EXCEPT !.payload = SubSeq(d.payload, 1, o.next.off)])
    BY <1>12 DEF RejectChunk
  <2> QED BY <1>3, <1>9, <2>1, <2>2
<1>13. CASE StateWriteFails(s)
  <2>1. CASE disk' = disk
    BY <1>3, <2>1
  <2>2. ASSUME o.at = "write", NEW left \in {NoRec, o.next},
               disk' = Put(disk, s, [d EXCEPT !.pending = left])
        PROVE  HasState(disk'[s])
    <3> DEFINE e == [d EXCEPT !.pending = left]
    <3>1. left \in Recs \cup {NoRec}
      BY <1>0, <2>2 DEF SessionOK, OpOK, WriteOK, Writing
    <3>2. disk'[s] = e
      BY <1>0, <2>2
    <3> HIDE DEF d, o
    <3>3. e.chain = d.chain
      BY <1>0, <3>1, EditPending
    <3> HIDE DEF e
    <3> QED BY <3>2, <3>3 DEF HasState, d
  <2> QED BY <1>13, <2>1, <2>2 DEF StateWriteFails
<1>14. \/ disk' = disk
       \/ NameState(s) \/ (Compact(s) /\ Stale(s) # {}) \/ Load(s) \/ Reload(s) \/ Create(s)
       \/ UndoCreate(s) \/ RemoveDir(s) \/ PurgePayload(s) \/ RejectChunk(s)
       \/ StateWriteFails(s) \/ \E c \in Chunks : WriteChunk(s, c)
  BY DEF Step, Request, SyncState, Compact, Done, SyncPurge, SyncChunk, SyncRemoval, Admit, Withdraw,
         StartPublication, Publish, Decide, Settle, AppendChunk, ReplayChunk, Commit, Cancel, Reconcile,
         VisitListed, dirVars
<1> QED BY <1>3, <1>4, <1>5, <1>6, <1>7, <1>8, <1>10, <1>11, <1>12, <1>13, <1>14

\* A step of another session leaves the directory alone.
LEMMA OthersStepKeeps ==
    ASSUME Inv, NEW s \in Sessions, NEW t \in Sessions, t # s,
           Step(t) \/ Request(t) \/ StateWriteFails(t) \/ VisitListed(t)
    PROVE  disk'[s] = disk[s]
<1>1. disk' = disk \/ \E x : disk' = Put(disk, t, x)
  BY DEF Step, Request, NameState, SyncState, Compact, Done, PurgePayload, SyncPurge,
         Reload, UndoCreate, SyncChunk, RemoveDir, SyncRemoval, StateWriteFails, RejectChunk, WriteChunk,
         Admit, Withdraw, StartPublication, Publish, Decide, Settle, Create, AppendChunk, ReplayChunk,
         Commit, Cancel, Load, Reconcile, VisitListed, dirVars
<1> QED BY <1>1, PutAt DEF Inv, Maps

\* A step leaves a committing session its directory.
LEMMA CommittingStays ==
    ASSUME Inv, ~TornRemoval, [Next]_vars, NEW s \in Sessions,
           HasState(disk[s]), Rec(s).st = "committing", HasState(kept[s])
    PROVE  HasState(disk'[s])
<1>1. CASE \E t \in Sessions : Step(t) \/ Request(t) \/ StateWriteFails(t) \/ VisitListed(t)
  <2>1. PICK t \in Sessions : Step(t) \/ Request(t) \/ StateWriteFails(t) \/ VisitListed(t)
    BY <1>1
  <2>2. CASE t = s
    BY <2>1, <2>2, OwnStepKeeps
  <2>3. CASE t # s
    BY <2>1, <2>3, OthersStepKeeps
  <2> QED BY <2>2, <2>3
<1>2. CASE PowerLoss
  <2>1. disk'[s] \in Outcomes(s) /\ Up
    BY <1>2 DEF PowerLoss, Die, Up
  <2> QED BY <2>1, OutcomesSound DEF HasState
<1>3. CASE Restart
  <2>1. HasState(Loaded(disk[s]))
    BY Here, SessionSound, LoadedSound DEF Has
  <2>2. disk'[s] = Loaded(disk[s]) \/ disk' = disk
    BY <1>3 DEF Restart, dirVars
  <2> QED BY <2>1, <2>2
<1>4. CASE \/ \E t \in Sessions : TimePasses(t)
           \/ ListExpired \/ OtherChanges \/ AllQuiet \/ Kill \/ Serve \/ GiveUp \/ UNCHANGED vars
  BY <1>4 DEF TimePasses, ListExpired, OtherChanges, AllQuiet, Kill, Serve, GiveUp, vars, dirVars
<1> QED BY <1>1, <1>2, <1>3, <1>4 DEF Next

\* UndecidedKept for every instance: no step of an expiry pass, of a failed creation or of
\* another request removes a session whose publication may have begun, nor does a power
\* loss once one of its states is durable.
THEOREM UndecidedStays ==
    ASSUME ~TornRemoval PROVE Spec => UndecidedKept
<1>1. Inv /\ [Next]_vars
      => [\A s \in Sessions :
            HasState(disk[s]) /\ Rec(s).st = "committing" /\ HasState(kept[s]) => HasState(disk'[s])]_vars
  BY CommittingStays
<1> QED BY <1>1, SessionsHold, PTL DEF Spec, UndecidedKept

-----------------------------------------------------------------------------
(***************************************************************************)
(* What an append was answered with success stays, proved for every        *)
(* instance of UploadSession.                                              *)
(*                                                                         *)
(* Keeps says of one session that each copy of its entries, read with each *)
(* copy of its payload, counts and holds what was answered (Reached; after *)
(* a failed sync only the visible copies do), that the state a         *)
(* transition wrote is durable from its sync to its answer                 *)
(* (Synced), and that a state counts bytes only once they are durable      *)
(* (AppendOK).  It rests on Inv, proved above.                             *)
(***************************************************************************)

(* What was answered with success                                           *)

\* The entries e with the payload q hold what was answered.
Holds(e, q, A) ==
    Has(e) /\ Top(e).st \in Active /\ q # NoFile => Top(e).off >= Len(A) /\ Prefix(A, q)

Reached(d, k, A, L, f) ==
    A # <<>> => /\ Holds(d, d.payload, A) /\ (Has(d) \/ L > 0)
                /\ ~f => /\ Holds(d, k.payload, A) /\ Holds(k, d.payload, A)
                         /\ Holds(k, k.payload, A) /\ (Has(k) \/ L > 0)

\* Unless a sync failed, the state a transition has synced is durable until it ends.  A
\* state found at startup need not be: loading syncs only what it changes.
Synced(d, k, o) == HasState(d) /\ o.at \in Renamed \ {"named"} => Has(k) /\ Top(k) = Latest(d)

AppendOK(d, k, o) ==
    o.at \in Writing \ {"purge", "purged"} /\ o.kind = "append" => Len(d.payload) = o.next.off /\ k.payload = d.payload

Keeps(d, k, o, A, L, f, g, u) ==
    /\ A \in Payloads /\ L \in Nat
    /\ Reached(d, k, A, L, f)
    /\ AppendOK(d, k, o)
    /\ u /\ ~f => Synced(d, k, o)
    /\ g = NoRec => ~Has(d) /\ ~Has(k) /\ o.at = "idle" /\ A = <<>>
    /\ o.kind = "create" \/ o.at = "uncreate" => A = <<>>
    /\ o.at = "remove" => L > 0

TargetOK == target \in Files \cup {Absent} /\ pubs \in [Sessions -> Nat] /\ other \in Nat

AckInv ==
    /\ acked = [s \in Sessions |-> acked[s]] /\ late = [s \in Sessions |-> late[s]]
    /\ orig = [s \in Sessions |-> orig[s]] /\ syncFailed \in BOOLEAN
    /\ \A s \in Sessions : Keeps(disk[s], kept[s], op[s], acked[s], late[s], syncFailed, orig[s], Up)

-----------------------------------------------------------------------------
\* Entries with the same newest state hold the same.
LEMMA HoldsTop ==
    ASSUME NEW e, NEW x, NEW q, NEW A, Holds(e, q, A), Has(x) => Has(e) /\ Top(x) = Top(e)
    PROVE  Holds(x, q, A)
BY DEF Holds

\* A removed payload holds nothing back.
LEMMA HoldsNoFile == \A e, A : Holds(e, NoFile, A)
BY DEF Holds

\* Durable and visible are the same.
LEMMA ReachedSame ==
    ASSUME NEW d, NEW A, NEW L, NEW f, A # <<>> => Holds(d, d.payload, A) /\ (Has(d) \/ L > 0)
    PROVE  Reached(d, d, A, L, f)
BY DEF Reached

\* A failed sync only weakens what is said of the durable copy.
LEMMA ReachedFails ==
    ASSUME NEW d, NEW k, NEW A, NEW L, NEW f, NEW c \in BOOLEAN, Reached(d, k, A, L, f), f => c
    PROVE  Reached(d, k, A, L, c)
BY DEF Reached

\* The newest state is replaced by one that counts no less.
LEMMA ReachedOn ==
    ASSUME NEW d, NEW k, NEW A \in Payloads, NEW L, NEW f, Reached(d, k, A, L, f),
           NEW e, e.payload = d.payload, Has(e), Has(d), Top(d).st \in Active, d.payload # NoFile,
           Top(d).off \in Int, Top(e).off \in Int, Top(d).off <= Top(e).off
    PROVE  Reached(e, k, A, L, f)
<1>1. Len(A) \in Nat
  BY DEF Payloads
<1> QED BY <1>1 DEF Reached, Holds

\* So it does for the sessions it did not hit.
LEMMA Others ==
    ASSUME NEW d, NEW k, NEW o, NEW A, NEW L, NEW f \in BOOLEAN, NEW g, NEW u \in BOOLEAN, NEW c \in BOOLEAN,
           Keeps(d, k, o, A, L, f, g, u), f => c
    PROVE  Keeps(d, k, o, A, L, c, g, u)
BY ReachedFails DEF Keeps

\* A step of one session leaves what was answered on the others alone.
LEMMA OneAck ==
    ASSUME AckInv, Maps, NEW s \in Sessions, sys' = sys, NEW d, NEW k, NEW o, NEW A, NEW g,
           disk' = Put(disk, s, d), kept' = Put(kept, s, k), op' = Put(op, s, o),
           acked' = Put(acked, s, A), late' = late, orig' = Put(orig, s, g),
           syncFailed' \in BOOLEAN, syncFailed => syncFailed',
           Keeps(d, k, o, A, late[s], syncFailed', g, Up)
    PROVE  AckInv'
<1>1. /\ disk'[s] = d /\ \A t \in Sessions : t # s => disk'[t] = disk[t]
  BY PutAt DEF Maps
<1>2. /\ kept'[s] = k /\ \A t \in Sessions : t # s => kept'[t] = kept[t]
  BY PutAt DEF Maps
<1>3. /\ op'[s] = o /\ \A t \in Sessions : t # s => op'[t] = op[t]
  BY PutAt DEF Maps
<1>4. /\ acked'[s] = A /\ \A t \in Sessions : t # s => acked'[t] = acked[t]
      /\ acked' = [t \in Sessions |-> acked'[t]]
  BY PutAt DEF AckInv
<1>5. /\ orig'[s] = g /\ \A t \in Sessions : t # s => orig'[t] = orig[t]
      /\ orig' = [t \in Sessions |-> orig'[t]]
  BY PutAt DEF AckInv
<1>6. ASSUME NEW t \in Sessions
      PROVE  Keeps(disk'[t], kept'[t], op'[t], acked'[t], late'[t], syncFailed', orig'[t], Up)
  <2>1. CASE t = s
    BY <1>1, <1>2, <1>3, <1>4, <1>5, <2>1
  <2>2. CASE t # s
    <3>1. Keeps(disk[t], kept[t], op[t], acked[t], late[t], syncFailed, orig[t], Up)
          /\ Up \in BOOLEAN /\ syncFailed \in BOOLEAN
      BY DEF AckInv, Up
    <3> QED BY <1>1, <1>2, <1>3, <1>4, <1>5, <2>2, <3>1, Others
  <2> QED BY <2>1, <2>2
<1>7. Up' = Up
  BY DEF Up
<1> QED BY <1>4, <1>5, <1>6, <1>7 DEF AckInv

\* What a step leaves alone, as a change to the same value.
LEMMA AckUnput ==
    ASSUME AckInv, NEW s \in Sessions
    PROVE  acked = Put(acked, s, acked[s]) /\ orig = Put(orig, s, orig[s])
BY PutAt DEF AckInv

\* Directories as they are: another operation, or none.
LEMMA OpChange ==
    ASSUME NEW d, NEW k, NEW o, NEW h, NEW A, NEW L, NEW f, NEW g, NEW u,
           SessionOK(d, k, o, h), Keeps(d, k, o, A, L, f, g, u), o.at # "named",
           NEW p, p.at # "named", p.at \notin Writing \/ p.kind # "append" 
           \/ (o.at \in Writing \ {"purge", "purged"} /\ p.kind = o.kind /\ p.next = o.next),
           p.kind = "create" => o.kind = "create", p.at # "uncreate" \/ o.kind = "create",
           p.at = "remove" => L > 0, HasState(d) \/ p.at = "idle", p.at \in Renamed => o.at \in Renamed
    PROVE  Keeps(d, k, p, A, L, f, g, u)
<1>1. HasState(d) => Has(d)
  BY DEF Has
<1> QED BY <1>1 DEF Keeps, AppendOK, Synced

Aside == acked' = acked /\ late' = late /\ orig' = orig /\ syncFailed' = syncFailed

\* What both invariants say of one session.
LEMMA AckHere ==
    ASSUME Inv, AckInv, NEW s \in Sessions
    PROVE  /\ Keeps(disk[s], kept[s], op[s], acked[s], late[s], syncFailed, orig[s], Up)
           /\ SessionOK(disk[s], kept[s], op[s], hand[s]) /\ Maps /\ Up \in BOOLEAN
           /\ syncFailed \in BOOLEAN
           /\ disk = Put(disk, s, disk[s]) /\ kept = Put(kept, s, kept[s]) /\ op = Put(op, s, op[s])
           /\ acked = Put(acked, s, acked[s]) /\ orig = Put(orig, s, orig[s])
BY Here, Unput, AckUnput DEF AckInv, Inv, Up

\* The rename of a state that counts no less.
LEMMA NameKeeps ==
    ASSUME NEW d, NEW k, NEW o, NEW h, NEW A, NEW L, NEW f, NEW g, NEW u,
           SessionOK(d, k, o, h), Keeps(d, k, o, A, L, f, g, u), o.at = "write",
           NEW e, e.payload = d.payload, Has(e), Top(e) = o.next,
           NEW p, p.at = "named", p.kind = o.kind, p.next = o.next
    PROVE  Keeps(e, k, p, A, L, f, g, u)
<1>1. WriteOK(d, k, o) /\ Follows(d, k, o) /\ DirOK(d)
  BY DEF SessionOK, OpOK, Writing
<1>2. Reached(e, k, A, L, f)
  <2>1. CASE o.kind = "create"
    BY <2>1 DEF Keeps, Reached
  <2>2. CASE o.kind # "create"
    <3>1. /\ Has(d) /\ Top(d) = Latest(d) /\ Latest(d).st \in Active /\ d.payload # NoFile
          /\ Latest(d).off <= o.next.off
      BY <1>1, <2>2 DEF Follows, WriteOK, Has, Top
    <3>2. Top(d).off \in Int /\ o.next.off \in Int
      BY <1>1, <3>1, TopOK, UploadAssumption DEF WriteOK, Recs
    <3> QED BY <3>1, <3>2, ReachedOn DEF Keeps
  <2> QED BY <2>1, <2>2
<1> QED BY <1>2 DEF Keeps, AppendOK, Synced, Writing, Renamed

\* The rename of a state file keeps what was answered.
LEMMA NameStateAck ==
    ASSUME Inv, AckInv, NEW s \in Sessions, NameState(s)
    PROVE  AckInv'
<1> DEFINE d == disk[s]
           k == kept[s]
           o == op[s]
           h == hand[s]
           e == [d EXCEPT !.chain = WithState(@, o.next)]
           p == [o EXCEPT !.at = "named"]
<1>1. /\ o.at = "write" /\ disk' = Put(disk, s, e) /\ kept' = kept /\ op' = Put(op, s, p)
      /\ sys' = sys /\ Aside
  BY DEF NameState, fileVars, histVars, Aside
<1>2. SessionOK(d, k, o, h) /\ IsDir(d) /\ o \in Ops
  BY Here
<1>3. WriteOK(d, k, o) /\ Follows(d, k, o)
  BY <1>1, <1>2 DEF SessionOK, OpOK, Writing
<1>4. p \in Ops /\ p.at = "named" /\ p.kind = o.kind /\ p.next = o.next
  BY <1>2, OpAt DEF OpAts, Writing, Renamed
<1>5. e.payload = d.payload /\ Has(e) /\ Top(e) = o.next
  BY <1>2, <1>3, NameOK DEF WriteOK, Follows
<1>6. /\ Keeps(d, k, o, acked[s], late[s], syncFailed, orig[s], Up) /\ Maps
      /\ kept = Put(kept, s, k) /\ acked = Put(acked, s, acked[s]) /\ orig = Put(orig, s, orig[s])
      /\ syncFailed \in BOOLEAN
  BY AckHere
<1> HIDE DEF d, k, o, h, e, p
<1>7. Keeps(e, k, p, acked[s], late[s], syncFailed, orig[s], Up)
  BY <1>1, <1>2, <1>4, <1>5, <1>6, NameKeeps
<1> QED BY <1>1, <1>6, <1>7, OneAck DEF Aside

\* What is visible becomes durable.
LEMMA SyncKeeps ==
    ASSUME NEW d, NEW k, NEW o, NEW h, NEW A, NEW L, NEW f, NEW g, NEW u,
           SessionOK(d, k, o, h), Keeps(d, k, o, A, L, f, g, u), o.at \in Renamed,
           NEW p, p.at \in {"compact", "idle"}, p.at = "compact" => p.kind = o.kind /\ p.next = o.next,
           p.at = "compact" => o.at \notin {"purge", "purged"}, p.at = "idle" => p.kind = "none"
    PROVE  Keeps(d, d, p, A, L, f, g, u)
<1>1. HasState(d) /\ d.pending = NoRec
  BY DEF SessionOK, OpOK, WriteOK, Writing
<1>2. Has(d) /\ Top(d) = Latest(d)
  BY <1>1 DEF Has, Top
<1>3. Reached(d, d, A, L, f)
  BY ReachedSame DEF Keeps, Reached
<1> QED BY <1>2, <1>3 DEF Keeps, AppendOK, Synced, Writing, Renamed

\* The directory sync of a state file keeps what was answered.
LEMMA SyncStateAck ==
    ASSUME Inv, AckInv, NEW s \in Sessions, SyncState(s)
    PROVE  AckInv'
<1> DEFINE d == disk[s]
           k == kept[s]
           o == op[s]
           h == hand[s]
           p == [o EXCEPT !.at = "compact"]
<1>1. /\ o.at \in Renamed \ {"purge", "purged"} /\ disk' = disk /\ kept' = Put(kept, s, d)
      /\ op' = Put(op, s, p) /\ sys' = sys /\ Aside
  BY DEF SyncState, fileVars, histVars, Aside, Renamed
<1>2. /\ SessionOK(d, k, o, h) /\ Keeps(d, k, o, acked[s], late[s], syncFailed, orig[s], Up) /\ Maps
      /\ disk = Put(disk, s, d) /\ acked = Put(acked, s, acked[s]) /\ orig = Put(orig, s, orig[s])
      /\ syncFailed \in BOOLEAN /\ o \in Ops
  BY AckHere, Here
<1>3. p.at = "compact" /\ p.kind = o.kind /\ p.next = o.next
  BY <1>2, OpAt DEF OpAts, Writing, Renamed
<1> HIDE DEF d, k, o, h, p
<1>4. Keeps(d, d, p, acked[s], late[s], syncFailed, orig[s], Up)
  BY <1>1, <1>2, <1>3, SyncKeeps
<1> QED BY <1>1, <1>2, <1>4, OneAck DEF Aside

\* The sync of that unlink keeps what was answered.
LEMMA SyncPurgeAck ==
    ASSUME Inv, AckInv, NEW s \in Sessions, SyncPurge(s)
    PROVE  AckInv'
<1> DEFINE d == disk[s]
           k == kept[s]
           o == op[s]
           h == hand[s]
<1>1. /\ o.at \in Renamed /\ disk' = disk /\ kept' = Put(kept, s, d) /\ op' = Put(op, s, NoOp)
      /\ sys' = sys /\ Aside
  BY DEF SyncPurge, fileVars, histVars, Aside, Renamed
<1>2. /\ SessionOK(d, k, o, h) /\ Keeps(d, k, o, acked[s], late[s], syncFailed, orig[s], Up) /\ Maps
      /\ disk = Put(disk, s, d) /\ acked = Put(acked, s, acked[s]) /\ orig = Put(orig, s, orig[s])
      /\ syncFailed \in BOOLEAN
  BY AckHere
<1> HIDE DEF d, k, o, h
<1>3. Keeps(d, d, NoOp, acked[s], late[s], syncFailed, orig[s], Up)
  BY <1>1, <1>2, Nothing, SyncKeeps
<1> QED BY <1>1, <1>2, <1>3, OneAck DEF Aside

\* The newest state stays and the payload stays or, of a terminal session, goes.
LEMMA TidyKeeps ==
    ASSUME NEW d, NEW k, NEW o, NEW h, NEW A, NEW L, NEW f, NEW g, NEW u,
           SessionOK(d, k, o, h), Keeps(d, k, o, A, L, f, g, u), o.at \in Renamed \ {"named"},
           NEW e, HasState(e), Latest(e) = Latest(d), e.pending = d.pending,
           e.payload = d.payload \/ (e.payload = NoFile /\ o.next.st \in Terminal),
           NEW p, p.at \in Renamed \ {"named"}, p.kind = o.kind, p.next = o.next,
           e.payload # d.payload => p.at = "purged", o.at \in {"purge", "purged"} => p.at = "purged"
    PROVE  Keeps(e, k, p, A, L, f, g, u)
<1>1. HasState(d) /\ d.pending = NoRec /\ Latest(d) = o.next
  BY DEF SessionOK, OpOK, WriteOK, Writing
<1>2. Has(d) /\ Has(e) /\ Top(d) = Latest(d) /\ Top(e) = Top(d)
  BY <1>1 DEF Has, Top
<1>3. Reached(e, k, A, L, f)
  <2>1. CASE e.payload = d.payload
    BY <1>2, <2>1, HoldsTop DEF Keeps, Reached
  <2>2. CASE e.payload = NoFile /\ o.next.st \in Terminal
    BY <1>1, <1>2, <2>2, HoldsNoFile DEF Keeps, Reached, Holds, Active, Terminal
  <2> QED BY <2>1, <2>2
<1> QED BY <1>1, <1>2, <1>3 DEF Keeps, AppendOK, Synced, Writing, Renamed

\* compactStateFiles keeps what was answered.
LEMMA CompactAck ==
    ASSUME Inv, AckInv, NEW s \in Sessions, Compact(s)
    PROVE  AckInv'
<1> DEFINE d == disk[s]
           k == kept[s]
           o == op[s]
           h == hand[s]
<1>1. o.at = "compact" /\ kept' = kept /\ sys' = sys /\ Aside
  BY DEF Compact, fileVars, histVars, Aside
<1>2. /\ SessionOK(d, k, o, h) /\ Keeps(d, k, o, acked[s], late[s], syncFailed, orig[s], Up) /\ Maps
      /\ disk = Put(disk, s, d) /\ kept = Put(kept, s, k)
      /\ acked = Put(acked, s, acked[s]) /\ orig = Put(orig, s, orig[s])
      /\ syncFailed \in BOOLEAN /\ o \in Ops /\ IsDir(d)
  BY AckHere, Here
<1>3. HasState(d) /\ Latest(d) = o.next
  BY <1>1, <1>2 DEF SessionOK, OpOK, Renamed
<1>4. CASE Stale(s) = {}
  <2> DEFINE p == [o EXCEPT !.at = "written"]
  <2>1. disk' = disk /\ op' = Put(op, s, p)
    BY <1>2, <1>4 DEF Compact
  <2>2. p.at = "written" /\ p.kind = o.kind /\ p.next = o.next
    BY <1>2, OpAt DEF OpAts, Writing, Renamed
  <2> HIDE DEF d, k, o, h, p
  <2>3. Keeps(d, k, p, acked[s], late[s], syncFailed, orig[s], Up)
    BY <1>1, <1>2, <1>3, <2>2, TidyKeeps DEF Renamed
  <2> QED BY <1>1, <1>2, <2>1, <2>3, OneAck DEF Aside
<1>5. CASE Stale(s) # {}
  <2> DEFINE p == [o EXCEPT !.at = "unlinked"]
             S == Stale(s)
             n == o.next.rev
             g == [j \in DOMAIN d.chain \ {Min(S)} |-> d.chain[j]]
             e == [d EXCEPT !.chain = g]
  <2>1. disk' = Put(disk, s, e) /\ op' = Put(op, s, p)
    BY <1>5 DEF Compact, NextStale
  <2>2. p.at = "unlinked" /\ p.kind = o.kind /\ p.next = o.next
    BY <1>2, OpAt DEF OpAts, Writing, Renamed
  <2>3. IsChain(d.chain) /\ DOMAIN d.chain # {} /\ n = Max(DOMAIN d.chain)
    BY <1>2, <1>3, NewestState DEF IsDir, HasState
  <2>4. S # {} /\ S = {i \in DOMAIN d.chain : i < n - 1}
    BY <1>5 DEF Stale
  <2> HIDE DEF d, k, o, h, p, S, n
  <2>5. IsChain(g) /\ DOMAIN g # {} /\ Max(DOMAIN g) = n /\ g[n] = d.chain[n]
    BY <2>3, <2>4, CompactChain
  <2> HIDE DEF g
  <2>6. IsDir(e) /\ e.chain = g /\ e.payload = d.payload /\ e.pending = d.pending
    BY <1>2, <2>5, EditChain
  <2> HIDE DEF e
  <2>7. HasState(e) /\ Latest(e) = Latest(d)
    BY <2>3, <2>5, <2>6 DEF HasState, Latest
  <2>8. Keeps(e, k, p, acked[s], late[s], syncFailed, orig[s], Up)
    BY <1>1, <1>2, <2>2, <2>6, <2>7, TidyKeeps DEF Renamed
  <2> QED BY <1>1, <1>2, <2>1, <2>8, OneAck DEF Aside
<1> QED BY <1>4, <1>5

\* The unlink of a terminal payload keeps what was answered.
LEMMA PurgePayloadAck ==
    ASSUME Inv, AckInv, NEW s \in Sessions, PurgePayload(s)
    PROVE  AckInv'
<1> DEFINE d == disk[s]
           k == kept[s]
           o == op[s]
           h == hand[s]
           e == [d EXCEPT !.payload = NoFile]
           p == [o EXCEPT !.at = "purged"]
<1>1. /\ o.at = "purge" /\ disk' = Put(disk, s, e) /\ kept' = kept /\ op' = Put(op, s, p)
      /\ sys' = sys /\ Aside
  BY DEF PurgePayload, fileVars, histVars, Aside
<1>2. /\ SessionOK(d, k, o, h) /\ Keeps(d, k, o, acked[s], late[s], syncFailed, orig[s], Up) /\ Maps
      /\ kept = Put(kept, s, k) /\ acked = Put(acked, s, acked[s]) /\ orig = Put(orig, s, orig[s])
      /\ syncFailed \in BOOLEAN /\ o \in Ops /\ IsDir(d)
  BY AckHere, Here
<1>3. p.at = "purged" /\ p.kind = o.kind /\ p.next = o.next
  BY <1>2, OpAt DEF OpAts, Writing, Renamed
<1>4. HasState(d) /\ o.next.st \in Terminal
  BY <1>1, <1>2 DEF SessionOK, OpOK, Renamed
<1> HIDE DEF d, k, o, h, p
<1>5. e.chain = d.chain /\ e.payload = NoFile /\ e.pending = d.pending
  BY <1>2, EditPayload
<1> HIDE DEF e
<1>6. HasState(e) /\ Latest(e) = Latest(d)
  BY <1>4, <1>5 DEF HasState, Latest
<1>7. Keeps(e, k, p, acked[s], late[s], syncFailed, orig[s], Up)
  BY <1>1, <1>2, <1>3, <1>4, <1>5, <1>6, TidyKeeps DEF Renamed
<1> QED BY <1>1, <1>2, <1>7, OneAck DEF Aside

\* The answer to an append counts the payload the durable state counts.
LEMMA AnswerKeeps ==
    ASSUME NEW d, NEW k, NEW o, NEW h, NEW A, NEW L, NEW f, NEW g,
           SessionOK(d, k, o, h), Keeps(d, k, o, A, L, f, g, TRUE),
           o.at = "written", o.kind = "append", f \in BOOLEAN
    PROVE  Keeps(d, k, o, d.payload, L, f, g, TRUE)
<1>1. WriteOK(d, k, o) /\ HasState(d) /\ Latest(d) = o.next /\ HasState(k) /\ DirOK(d) /\ IsDir(d)
  BY DEF SessionOK, OpOK, Writing, Renamed, DirOK
<1>2. Has(d) /\ Has(k) /\ Top(d) = o.next /\ o.next.st \in Active
  BY <1>1 DEF WriteOK, Has, Top, Active
<1>3. Len(d.payload) = o.next.off /\ k.payload = d.payload
  BY DEF Keeps, AppendOK, Writing, Renamed
<1>4. o.next.off \in Nat
  BY <1>1, UploadAssumption DEF WriteOK, Recs
<1>5. ~f => Top(k) = o.next
  BY <1>1 DEF Keeps, Synced, Renamed
<1>6. Prefix(d.payload, d.payload)
  BY <1>3, <1>4, PrefixSelf
<1>7. Reached(d, k, d.payload, L, f)
  BY <1>2, <1>3, <1>4, <1>5, <1>6 DEF Reached, Holds
<1>8. d.payload \in Payloads
  BY <1>1, <1>2, PayloadLen DEF SessionOK, PayloadOK
<1> QED BY <1>7, <1>8 DEF Keeps

\* The end of writeNextState keeps what was answered.
LEMMA DoneAck ==
    ASSUME Inv, AckInv, NEW s \in Sessions, Done(s), Up
    PROVE  AckInv'
<1> DEFINE d == disk[s]
           k == kept[s]
           o == op[s]
           h == hand[s]
           A == IF o.kind = "append" THEN d.payload ELSE acked[s]
           p == IF o.next.st \in Terminal THEN [o EXCEPT !.at = "purge"] ELSE NoOp
<1>1. /\ SessionOK(d, k, o, h) /\ Keeps(d, k, o, acked[s], late[s], syncFailed, orig[s], TRUE) /\ Maps
      /\ disk = Put(disk, s, d) /\ kept = Put(kept, s, k) /\ acked = Put(acked, s, acked[s])
      /\ orig = Put(orig, s, orig[s]) /\ syncFailed \in BOOLEAN /\ o \in Ops
  BY AckHere, Here
<1>2. /\ o.at = "written" /\ disk' = disk /\ kept' = kept /\ op' = Put(op, s, p) /\ acked' = Put(acked, s, A)
      /\ sys' = sys /\ late' = late /\ orig' = orig /\ syncFailed' = syncFailed
  BY <1>1 DEF Done, dirVars, fileVars
<1>3. HasState(d)
  BY <1>1, <1>2 DEF SessionOK, OpOK, Renamed
<1>4. [o EXCEPT !.at = "purge"].at = "purge" /\ [o EXCEPT !.at = "purge"].kind = o.kind
  BY <1>1, OpAt DEF OpAts, Writing, Renamed
<1>5. p.at \in {"idle", "purge"} /\ (p.at = "purge" => p.kind = o.kind) /\ (p.at = "idle" => p.kind = "none")
      /\ (p.at = "purge" => o.next.st \in Terminal)
  BY <1>4, Nothing
<1> HIDE DEF d, k, o, h, p
<1>6. Keeps(d, k, o, A, late[s], syncFailed, orig[s], TRUE)
  BY <1>1, <1>2, AnswerKeeps
<1>7. o.kind = "append" => p.at = "idle"
  BY <1>1, <1>2, <1>5 DEF SessionOK, OpOK, WriteOK, Writing, Renamed, Terminal
<1> HIDE DEF A
<1>8. Keeps(d, k, p, A, late[s], syncFailed, orig[s], TRUE)
  <2>1. p.at \notin Writing \/ p.kind # "append"
    BY <1>5, <1>7 DEF Writing, Renamed
  <2> QED BY <1>1, <1>2, <1>3, <1>5, <1>6, <2>1, OpChange DEF Renamed
<1> QED BY <1>1, <1>2, <1>8, OneAck

\* A state write fails: before the rename perhaps leaving the pending record, after it
\* with a sync that failed or a state that is durable.
LEMMA FailKeeps ==
    ASSUME NEW d, NEW k, NEW o, NEW h, NEW A, NEW L, NEW f \in BOOLEAN, NEW g, NEW u \in BOOLEAN,
           SessionOK(d, k, o, h), Keeps(d, k, o, A, L, f, g, u),
           o.at \in Writing \ {"written"}, NEW c \in BOOLEAN, f => c, o.at = "named" => c,
           NEW e, \/ o.at # "write" /\ e = d
                  \/ /\ o.at = "write" /\ IsDir(e) /\ e.chain = d.chain /\ e.payload = d.payload
                     /\ e.pending \in {NoRec, o.next},
           NEW p, \/ o.kind = "create" /\ p.at = "uncreate" /\ p.kind = "none"
                  \/ p.at = "reload" /\ p.kind = "append"
                  \/ p.at = "idle" /\ p.kind = "none"
    PROVE  Keeps(e, k, p, A, L, c, g, u)
<1>0. WriteOK(d, k, o) /\ DirOK(d) /\ g # NoRec
  BY DEF SessionOK, OpOK, Keeps, Writing, Renamed
<1>1. Reached(e, k, A, L, f)
  <2>1. CASE o.at # "write"
    BY <2>1 DEF Keeps
  <2>2. CASE o.kind = "create"
    BY <2>2 DEF Keeps, Reached
  <2>3. CASE o.at = "write" /\ o.kind # "create"
    <3>1. Follows(d, k, o)
      BY <2>3 DEF SessionOK, OpOK
    <3>2. /\ Has(d) /\ Top(d) = Latest(d) /\ Latest(d).st \in Active /\ d.payload # NoFile
          /\ Latest(d).off <= o.next.off /\ HasState(d)
      BY <1>0, <2>3, <3>1 DEF Follows, WriteOK, Has, Top
    <3>3. Top(d).off \in Int /\ o.next.off \in Int
      BY <1>0, <3>2, TopOK, UploadAssumption DEF WriteOK, Recs
    <3>4. Has(e) /\ (Top(e) = o.next \/ Top(e) = Top(d))
      BY <2>3, <3>2 DEF Has, HasState, Top, Latest
    <3> QED BY <2>3, <3>2, <3>3, <3>4, ReachedOn DEF Keeps
  <2> QED BY <2>1, <2>2, <2>3
<1>2. Reached(e, k, A, L, c)
  BY <1>1, ReachedFails
<1>3. u /\ ~c => Synced(e, k, p)
  <2>1. (HasState(e) <=> HasState(d)) /\ Latest(e) = Latest(d)
    BY DEF HasState, Latest
  <2> QED BY <2>1 DEF Keeps, Synced, Renamed
<1> QED BY <1>0, <1>2, <1>3 DEF Keeps, AppendOK, Writing, Renamed

\* A failing state write keeps what was answered.
LEMMA StateWriteFailsAck ==
    ASSUME Inv, AckInv, NEW s \in Sessions, StateWriteFails(s)
    PROVE  AckInv'
<1> DEFINE d == disk[s]
           k == kept[s]
           o == op[s]
           h == hand[s]
           c == syncFailed'
<1>1. /\ SessionOK(d, k, o, h) /\ Keeps(d, k, o, acked[s], late[s], syncFailed, orig[s], Up) /\ Maps
      /\ disk = Put(disk, s, d) /\ kept = Put(kept, s, k) /\ acked = Put(acked, s, acked[s])
      /\ orig = Put(orig, s, orig[s]) /\ syncFailed \in BOOLEAN /\ o \in Ops /\ IsDir(d) /\ Up \in BOOLEAN
  BY AckHere, Here
<1>2. /\ o.at \in Writing \ {"written"} /\ kept' = kept /\ sys' = sys
      /\ acked' = acked /\ late' = late /\ orig' = orig
      /\ c \in BOOLEAN /\ (syncFailed => c) /\ (o.at = "named" => c)
  BY <1>1 DEF StateWriteFails, Writing, Renamed, fileVars
<1>3. PICK e : /\ disk' = Put(disk, s, e)
               /\ \/ o.at # "write" /\ e = d
                  \/ /\ o.at = "write" /\ IsDir(e) /\ e.chain = d.chain /\ e.payload = d.payload
                     /\ e.pending \in {NoRec, o.next}
  <2>1. CASE o.at # "write" /\ disk' = disk
    BY <1>1, <2>1
  <2>2. ASSUME o.at = "write", NEW left \in {NoRec, o.next},
               disk' = Put(disk, s, [d EXCEPT !.pending = left])
        PROVE  \E e : /\ disk' = Put(disk, s, e)
                      /\ o.at = "write" /\ IsDir(e) /\ e.chain = d.chain /\ e.payload = d.payload
                      /\ e.pending \in {NoRec, o.next}
    <3> DEFINE e == [d EXCEPT !.pending = left]
    <3>1. left \in Recs \cup {NoRec}
      BY <1>1, <2>2 DEF SessionOK, OpOK, WriteOK, Writing
    <3>2. IsDir(d)
      BY <1>1
    <3> HIDE DEF d, o
    <3>3. IsDir(e) /\ e.chain = d.chain /\ e.payload = d.payload /\ e.pending = left
      BY <3>1, <3>2, EditPending
    <3> QED BY <2>2, <3>3
  <2> QED BY <2>1, <2>2 DEF StateWriteFails
<1>4. PICK p : /\ op' = Put(op, s, p)
               /\ \/ o.kind = "create" /\ p.at = "uncreate" /\ p.kind = "none"
                  \/ p.at = "reload" /\ p.kind = "append"
                  \/ p.at = "idle" /\ p.kind = "none"
  <2>1. [NoOp EXCEPT !.at = "uncreate"].at = "uncreate" /\ [NoOp EXCEPT !.at = "uncreate"].kind = "none"
    BY Nothing, OpAt DEF OpAts
  <2>2. [o EXCEPT !.at = "reload"].at = "reload" /\ [o EXCEPT !.at = "reload"].kind = o.kind
    BY <1>1, OpAt DEF OpAts
  <2>3. CASE o.kind = "create"
    BY <2>1, <2>3 DEF StateWriteFails
  <2>4. CASE o.kind = "append"
    BY <2>2, <2>4 DEF StateWriteFails
  <2>5. CASE o.kind \notin {"create", "append"}
    BY <2>5, Nothing DEF StateWriteFails
  <2> QED BY <2>3, <2>4, <2>5
<1> HIDE DEF d, k, o, h, c
<1>5. Keeps(e, k, p, acked[s], late[s], c, orig[s], Up)
  BY <1>1, <1>2, <1>3, <1>4, FailKeeps
<1> QED BY <1>1, <1>2, <1>3, <1>4, <1>5, OneAck DEF c

\* Loading keeps the bytes under the durable offset.
LEMMA LoadKeeps ==
    ASSUME NEW d, Sound(d), NEW A \in Payloads, NEW L, NEW f, A # <<>> => Holds(d, d.payload, A) /\ (Has(d) \/ L > 0)
    PROVE  Reached(Loaded(d), Loaded(d), A, L, f) /\ \A o : Synced(Loaded(d), Loaded(d), o)
<1> DEFINE e == Loaded(d)
<1>0. Len(A) \in Nat
  BY DEF Payloads
<1>1. CASE Has(d)
  <2>1. /\ HasState(e) /\ Has(e) /\ Top(e) = Top(d) /\ Latest(e) = Top(d)
        /\ Top(d).st \in Active =>
                /\ e.payload \in Payloads /\ Len(e.payload) = Top(d).off
                /\ \A i \in 1..Top(d).off : e.payload[i] = d.payload[i]
    BY <1>1, LoadedOK DEF Sound
  <2>2. Top(d).off \in Nat
    BY <1>1, TopOK, UploadAssumption DEF Sound, Recs
  <2>3. ASSUME A # <<>>, Top(d).st \in Active
        PROVE  Top(d).off >= Len(A) /\ Prefix(A, e.payload)
    <3>1. Top(d).off >= Len(A) /\ Prefix(A, d.payload)
      BY <1>1, <2>3 DEF Holds, Sound
    <3> HIDE DEF e
    <3> QED BY <1>0, <2>1, <2>2, <2>3, <3>1 DEF Prefix
  <2>4. A # <<>> => Holds(e, e.payload, A) /\ Has(e)
    BY <2>1, <2>3 DEF Holds
  <2> QED BY <2>1, <2>4, ReachedSame DEF Synced
<1>2. CASE ~Has(d)
  <2>1. e = NoDir
    BY <1>2, LoadedNothing DEF Sound
  <2> QED BY <1>2, <2>1, NoDirOK, ReachedSame DEF Synced, Holds
<1> QED BY <1>1, <1>2

\* Loading an idle session, or after a failed append.
LEMMA LoadedKeeps ==
    ASSUME NEW d, NEW k, NEW o, NEW h, NEW A, NEW L, NEW f, NEW g, NEW u,
           SessionOK(d, k, o, h), Keeps(d, k, o, A, L, f, g, u), o.at \in {"idle", "reload"}, Has(d) \/ o.at = "reload",
           NEW p, p.at = "idle", p.kind = "none"
    PROVE  Keeps(Loaded(d), Loaded(d), p, A, L, f, g, u)
<1>1. Sound(d) /\ g # NoRec
  BY SessionSound DEF Keeps
<1>2. Reached(Loaded(d), Loaded(d), A, L, f) /\ Synced(Loaded(d), Loaded(d), p)
  BY <1>1, LoadKeeps DEF Keeps, Reached
<1> QED BY <1>1, <1>2 DEF Keeps, AppendOK, Writing, Renamed

\* loadSession keeps what was answered.
LEMMA LoadAck ==
    ASSUME Inv, AckInv, NEW s \in Sessions, Load(s)
    PROVE  AckInv'
<1> DEFINE d == disk[s]
           k == kept[s]
           o == op[s]
           h == hand[s]
           e == Loaded(d)
<1>1. /\ SessionOK(d, k, o, h) /\ Keeps(d, k, o, acked[s], late[s], syncFailed, orig[s], Up) /\ Maps
      /\ kept = Put(kept, s, k) /\ acked = Put(acked, s, acked[s]) /\ op = Put(op, s, o)
      /\ orig = Put(orig, s, orig[s]) /\ syncFailed \in BOOLEAN /\ DirOK(d)
  BY AckHere, Here
<1>2. /\ o.at = "idle" /\ disk' = Put(disk, s, e) /\ kept' = (IF e = d THEN kept ELSE Put(kept, s, e))
      /\ op' = op /\ sys' = sys /\ Aside /\ HasState(Promote(d))
  BY DEF Load, jobVars, Idle, fileVars, histVars, Aside
<1>3. Has(d) /\ o.kind = "none"
  BY <1>1, <1>2, PromoteOK DEF SessionOK, OpOK
<1>4. Keeps(e, e, o, acked[s], late[s], syncFailed, orig[s], Up)
  BY <1>1, <1>2, <1>3, LoadedKeeps
<1> HIDE DEF d, k, o, h, e
<1>5. CASE e = d
  BY <1>1, <1>2, <1>5, OneAck DEF Aside
<1>6. CASE e # d
  BY <1>1, <1>2, <1>4, <1>6, OneAck DEF Aside
<1> QED BY <1>5, <1>6

\* The load after a failed append keeps what was answered.
LEMMA ReloadAck ==
    ASSUME Inv, AckInv, NEW s \in Sessions, Reload(s)
    PROVE  AckInv'
<1> DEFINE d == disk[s]
           k == kept[s]
           o == op[s]
           h == hand[s]
           e == Loaded(d)
<1>1. /\ SessionOK(d, k, o, h) /\ Keeps(d, k, o, acked[s], late[s], syncFailed, orig[s], Up) /\ Maps
      /\ kept = Put(kept, s, k) /\ acked = Put(acked, s, acked[s]) /\ disk = Put(disk, s, d)
      /\ orig = Put(orig, s, orig[s]) /\ syncFailed \in BOOLEAN
  BY AckHere
<1>2. /\ o.at = "reload" /\ op' = Put(op, s, NoOp) /\ sys' = sys /\ Aside
      /\ \/ disk' = disk /\ kept' = kept
         \/ disk' = Put(disk, s, e) /\ kept' = (IF e = d THEN kept ELSE Put(kept, s, e))
  BY DEF Reload, dirVars, fileVars, Aside
<1>3. Keeps(e, e, NoOp, acked[s], late[s], syncFailed, orig[s], Up)
  BY <1>1, <1>2, Nothing, LoadedKeeps
<1> HIDE DEF d, k, o, h, e
<1>4. Keeps(d, k, NoOp, acked[s], late[s], syncFailed, orig[s], Up)
  BY <1>1, <1>2, Nothing, OpChange DEF Writing, Renamed
<1>5. CASE disk' = disk /\ kept' = kept
  BY <1>1, <1>2, <1>4, <1>5, OneAck DEF Aside
<1>6. CASE disk' = Put(disk, s, e) /\ kept' = (IF e = d THEN kept ELSE Put(kept, s, e))
  <2>1. CASE e = d
    BY <1>1, <1>2, <1>4, <1>6, <2>1, OneAck DEF Aside
  <2>2. CASE e # d
    BY <1>1, <1>2, <1>3, <1>6, <2>2, OneAck DEF Aside
  <2> QED BY <2>1, <2>2
<1> QED BY <1>2, <1>5, <1>6

\* An idle session's operation begins, or ends without touching the directory.
LEMMA OpAck ==
    ASSUME Inv, AckInv, NEW s \in Sessions, op[s].at = "idle", NEW p, op' = Put(op, s, p),
           disk' = disk, kept' = kept, sys' = sys, Aside,
           p.at \notin Renamed \cup {"uncreate"}, p.kind # "create", p.at \notin Writing \/ p.kind # "append",
           p.at = "remove" => late[s] > 0, HasState(disk[s])
    PROVE  AckInv'
<1> DEFINE d == disk[s]
           k == kept[s]
           o == op[s]
           h == hand[s]
<1>1. /\ SessionOK(d, k, o, h) /\ Keeps(d, k, o, acked[s], late[s], syncFailed, orig[s], Up) /\ Maps
      /\ kept = Put(kept, s, k) /\ acked = Put(acked, s, acked[s]) /\ disk = Put(disk, s, d)
      /\ orig = Put(orig, s, orig[s]) /\ syncFailed \in BOOLEAN /\ o.at = "idle" /\ HasState(d)
  BY AckHere
<1> HIDE DEF d, k, o, h
<1>2. p.at # "named"
  BY DEF Renamed
<1>3. Keeps(d, k, p, acked[s], late[s], syncFailed, orig[s], Up)
  BY <1>1, <1>2, OpChange
<1> QED BY <1>1, <1>3, OneAck DEF Aside

\* Steps that leave directories, operations and answers alone.
LEMMA AsideAck ==
    ASSUME AckInv, disk' = disk, kept' = kept, op' = op, Aside, Up \/ ~Up'
    PROVE  AckInv'
BY DEF AckInv, Aside, Keeps, Up

\* A transition of an idle session is started.
LEMMA StartWriteAck ==
    ASSUME Inv, AckInv, NEW s \in Sessions, Idle(s), Clean(s), NEW kind, NEW n,
           StartWrite(s, kind, n), kind \notin {"create", "append"},
           disk' = disk, kept' = kept, sys' = sys, Aside
    PROVE  AckInv'
<1> DEFINE p == [at |-> "write", kind |-> kind, next |-> n]
<1>1. p.at = "write" /\ p.kind = kind
  OBVIOUS
<1>2. op' = Put(op, s, p) /\ op[s].at = "idle" /\ HasState(disk[s])
  BY CleanHere DEF StartWrite, Idle
<1> HIDE DEF p
<1> QED BY <1>1, <1>2, OpAck DEF Renamed

\* The handlers of commit, cancel and reconciliation touch no directory by themselves.
LEMMA HandlerAck ==
    ASSUME Inv, AckInv, NEW s \in Sessions, Up,
           \/ Commit(s) \/ Cancel(s) \/ Admit(s) \/ Withdraw(s) \/ StartPublication(s)
           \/ Publish(s) \/ Decide(s) \/ Reconcile(s) \/ Settle(s)
    PROVE  AckInv'
<1>1. disk' = disk /\ kept' = kept /\ sys' = sys /\ Aside
  BY DEF Commit, Cancel, Admit, Withdraw, StartPublication, Publish, Decide, Reconcile, Settle,
         dirVars, fileVars, histVars, Aside
<1>2. CASE op' = op
  BY <1>1, <1>2, AsideAck
<1>3. CASE \E st : st \notin {"create", "append"} /\ Resolve(s, st)
  BY <1>1, <1>3, StartWriteAck DEF Resolve
<1>4. CASE Commit(s)
  <2> DEFINE n == Turned(Rec(s), "committing", FALSE)
  <2>1. Idle(s) /\ Clean(s) /\ StartWrite(s, "begin", n)
    BY <1>4 DEF Commit, Open
  <2> HIDE DEF n
  <2> QED BY <1>1, <2>1, StartWriteAck
<1>5. CASE Cancel(s)
  BY <1>1, <1>5, StartWriteAck DEF Cancel, Open
<1>6. CASE StartPublication(s)
  <2> DEFINE n == Turned(Rec(s), Rec(s).st, TRUE)
  <2>1. Idle(s) /\ Clean(s) /\ StartWrite(s, "start", n)
    BY <1>6 DEF StartPublication
  <2> HIDE DEF n
  <2> QED BY <1>1, <2>1, StartWriteAck
<1>7. CASE Admit(s) \/ Publish(s) \/ Reconcile(s)
  BY <1>2, <1>7 DEF Admit, Publish, Reconcile
<1>8. CASE Withdraw(s)
  BY <1>3, <1>8 DEF Withdraw
<1>9. CASE Decide(s)
  BY <1>2, <1>3, <1>9 DEF Decide
<1>10. CASE Settle(s)
  <2>1. Verdict(s, hand[s].ev) \notin {"create", "append"}
    BY DEF Verdict
  <2> QED BY <1>2, <1>3, <1>10, <2>1 DEF Settle
<1> QED BY <1>4, <1>5, <1>6, <1>7, <1>8, <1>9, <1>10

\* The reservation of AppendChunk keeps what was answered.
LEMMA AppendChunkAck ==
    ASSUME Inv, AckInv, NEW s \in Sessions, AppendChunk(s)
    PROVE  AckInv'
<1> DEFINE p == [at |-> "reserved", kind |-> "append", next |-> Rec(s)]
<1>1. /\ op[s].at = "idle" /\ Clean(s) /\ op' = Put(op, s, p) /\ disk' = disk /\ kept' = kept
      /\ sys' = sys /\ Aside
  BY DEF AppendChunk, Open, Idle, dirVars, fileVars, histVars, Aside
<1>2. p.at = "reserved" /\ p.kind = "append"
  OBVIOUS
<1>3. HasState(disk[s])
  BY <1>1, CleanHere
<1> HIDE DEF p
<1> QED BY <1>1, <1>2, <1>3, OpAck DEF Writing, Renamed

\* The second look of CleanupExpired keeps what was answered.
LEMMA VisitListedAck ==
    ASSUME Inv, AckInv, NEW s \in Sessions, VisitListed(s), Up
    PROVE  AckInv'
<1> DEFINE p == [at |-> "remove", kind |-> "expire", next |-> NoRec]
<1>1. op[s].at = "idle" /\ disk' = disk /\ kept' = kept /\ sys' = sys /\ Aside
  BY DEF VisitListed, Idle, dirVars, fileVars, histVars, Aside
<1>2. CASE Clean(s) /\ StillExpired(s)
  <2>1. op' = Put(op, s, p) /\ p.at = "remove" /\ p.kind = "expire"
    BY <1>2 DEF VisitListed
  <2>2. HasState(disk[s]) /\ Rec(s) \in Recs /\ Rec(s).rev <= late[s] /\ late[s] \in Nat
    BY <1>2, CleanHere, AckHere DEF StillExpired, Expired, Keeps
  <2>3. late[s] > 0
    BY <2>2 DEF Recs
  <2> HIDE DEF p
  <2> QED BY <1>1, <2>1, <2>2, <2>3, OpAck DEF Writing, Renamed
<1>3. CASE ~(Clean(s) /\ StillExpired(s))
  <2>1. op' = op
    BY <1>3 DEF VisitListed
  <2> QED BY <1>1, <2>1, AsideAck
<1> QED BY <1>2, <1>3

\* The record of a new session: nothing was answered before.
LEMMA CreateAck ==
    ASSUME Inv, AckInv, TargetOK, NEW s \in Sessions, Create(s)
    PROVE  AckInv'
<1> DEFINE e == [NoDir EXCEPT !.payload = <<>>]
           n == [rev |-> 1, st |-> "uploading", off |-> 0, last |-> NoRec, started |-> FALSE]
           p == [at |-> "write", kind |-> "create", next |-> n]
<1>1. /\ orig[s] = NoRec /\ disk' = Put(disk, s, e) /\ kept' = Put(kept, s, disk'[s])
      /\ op' = Put(op, s, p) /\ orig' = Put(orig, s, target) /\ sys' = sys
      /\ acked' = acked /\ late' = late /\ syncFailed' = syncFailed
  BY DEF Create, StartWrite, histVars
<1>2. disk'[s] = e
  BY <1>1, PutAt DEF Inv, Maps
<1>3. e = [chain |-> <<>>, payload |-> <<>>, pending |-> NoRec]
  BY DEF NoDir
<1>4. ~HasState(e) /\ ~Has(e)
  BY <1>3, NoChain DEF HasState, Has
<1>5. /\ Keeps(disk[s], kept[s], op[s], acked[s], late[s], syncFailed, orig[s], Up) /\ Maps
      /\ acked = Put(acked, s, acked[s]) /\ syncFailed \in BOOLEAN
  BY AckHere
<1>6. target # NoRec
  BY AbsentAssumption DEF TargetOK
<1>7. p.at = "write" /\ p.kind = "create"
  OBVIOUS
<1> HIDE DEF e, n, p
<1>8. Keeps(e, e, p, acked[s], late[s], syncFailed, target, Up)
  BY <1>1, <1>4, <1>5, <1>6, <1>7 DEF Keeps, Reached, AppendOK, Synced
<1> QED BY <1>1, <1>2, <1>5, <1>8, OneAck

\* The removal after a failed Create keeps what was answered.
LEMMA UndoCreateAck ==
    ASSUME Inv, AckInv, NEW s \in Sessions, UndoCreate(s)
    PROVE  AckInv'
<1> DEFINE k == kept[s]
<1>1. /\ op[s].at = "uncreate" /\ disk' = Put(disk, s, NoDir)
      /\ kept' = kept \/ kept' = Put(kept, s, NoDir)
      /\ op' = Put(op, s, NoOp) /\ sys' = sys /\ Aside
  BY DEF UndoCreate, fileVars, histVars, Aside
<1>2. /\ Keeps(disk[s], k, op[s], acked[s], late[s], syncFailed, orig[s], Up) /\ Maps
      /\ kept = Put(kept, s, k) /\ acked = Put(acked, s, acked[s]) /\ orig = Put(orig, s, orig[s])
      /\ syncFailed \in BOOLEAN
  BY AckHere
<1> HIDE DEF k
<1>3. /\ Keeps(NoDir, k, NoOp, acked[s], late[s], syncFailed, orig[s], Up)
      /\ Keeps(NoDir, NoDir, NoOp, acked[s], late[s], syncFailed, orig[s], Up)
  BY <1>1, <1>2, Nothing, NoDirOK DEF Keeps, Reached, AppendOK, Synced, Writing, Renamed
<1> QED BY <1>1, <1>2, <1>3, OneAck DEF Aside

\* RemoveAll in one piece keeps what was answered.
LEMMA RemoveDirAck ==
    ASSUME Inv, AckInv, NEW s \in Sessions, RemoveDir(s), ~TornRemoval
    PROVE  AckInv'
<1> DEFINE k == kept[s]
           o == op[s]
<1>1. /\ o.at = "remove" /\ disk' = Put(disk, s, NoDir) /\ kept' = kept /\ op' = op /\ sys' = sys /\ Aside
  BY DEF RemoveDir, Remnants, jobVars, fileVars, histVars, Aside
<1>2. /\ Keeps(disk[s], k, o, acked[s], late[s], syncFailed, orig[s], Up) /\ Maps
      /\ kept = Put(kept, s, k) /\ op = Put(op, s, o)
      /\ acked = Put(acked, s, acked[s]) /\ orig = Put(orig, s, orig[s]) /\ syncFailed \in BOOLEAN
  BY AckHere
<1> HIDE DEF k, o
<1>3. Keeps(NoDir, k, o, acked[s], late[s], syncFailed, orig[s], Up)
  BY <1>1, <1>2, NoDirOK DEF Keeps, Reached, Holds, AppendOK, Synced, Writing, Renamed
<1> QED BY <1>1, <1>2, <1>3, OneAck DEF Aside

\* The root sync after a removal keeps what was answered.
LEMMA SyncRemovalAck ==
    ASSUME Inv, AckInv, NEW s \in Sessions, SyncRemoval(s)
    PROVE  AckInv'
<1> DEFINE k == kept[s]
           o == op[s]
<1>1. /\ o.at = "remove" /\ disk[s] = NoDir /\ disk' = disk
      /\ kept' = kept \/ kept' = Put(kept, s, NoDir)
      /\ op' = Put(op, s, NoOp) /\ sys' = sys /\ Aside
  BY DEF SyncRemoval, fileVars, histVars, Aside
<1>2. /\ Keeps(NoDir, k, o, acked[s], late[s], syncFailed, orig[s], Up) /\ Maps
      /\ disk = Put(disk, s, NoDir) /\ kept = Put(kept, s, k)
      /\ acked = Put(acked, s, acked[s]) /\ orig = Put(orig, s, orig[s]) /\ syncFailed \in BOOLEAN
  BY <1>1, AckHere
<1> HIDE DEF k, o
<1>3. /\ Keeps(NoDir, k, NoOp, acked[s], late[s], syncFailed, orig[s], Up)
      /\ Keeps(NoDir, NoDir, NoOp, acked[s], late[s], syncFailed, orig[s], Up)
  BY <1>1, <1>2, Nothing, NoDirOK DEF Keeps, Reached, Holds, AppendOK, Synced, Writing, Renamed
<1> QED BY <1>1, <1>2, <1>3, OneAck DEF Aside

\* Bytes are added behind those that were answered.
LEMMA CopyKeeps ==
    ASSUME NEW d, NEW k, NEW o, NEW h, NEW A, NEW L, NEW f, NEW g, NEW u, NEW c \in Chunks,
           SessionOK(d, k, o, h), Keeps(d, k, o, A, L, f, g, u), o.at = "reserved",
           NEW e, e.chain = d.chain, e.pending = d.pending, e.payload = Append(d.payload, c),
           NEW p, p.at = "copied", p.kind = o.kind
    PROVE  Keeps(e, k, p, A, L, f, g, u)
<1>1. /\ d.payload \in Payloads /\ d.payload # NoFile /\ HasState(d) /\ o.kind = "append" /\ Has(d)
  BY CopyFacts DEF Copying, CopyOK
<1>2. (Has(e) <=> Has(d)) /\ (HasState(e) <=> HasState(d)) /\ Top(e) = Top(d) /\ Latest(e) = Latest(d)
  BY SameEntries
<1>3. A \in Payloads
  BY DEF Keeps
<1>4. Prefix(A, d.payload) => Prefix(A, e.payload)
  BY <1>1, <1>3, Appended DEF Prefix
<1>5. \A x : Holds(x, d.payload, A) => Holds(x, e.payload, A)
  BY <1>1, <1>4 DEF Holds
<1>6. Reached(e, k, A, L, f)
  BY <1>2, <1>5, HoldsTop DEF Keeps, Reached
<1> QED BY <1>1, <1>2, <1>6 DEF Keeps, AppendOK, Synced, Writing, Renamed

\* The copy of AppendChunk keeps what was answered.
LEMMA WriteChunkAck ==
    ASSUME Inv, AckInv, NEW s \in Sessions, NEW c \in Chunks, WriteChunk(s, c)
    PROVE  AckInv'
<1> DEFINE d == disk[s]
           k == kept[s]
           o == op[s]
           h == hand[s]
           q == Append(d.payload, c)
           e == [d EXCEPT !.payload = q]
           p == [o EXCEPT !.at = "copied"]
<1>1. /\ o.at = "reserved" /\ disk' = Put(disk, s, e) /\ op' = Put(op, s, p) /\ kept' = kept
      /\ sys' = sys /\ Aside
  BY DEF WriteChunk, fileVars, histVars, Aside
<1>2. /\ SessionOK(d, k, o, h) /\ Keeps(d, k, o, acked[s], late[s], syncFailed, orig[s], Up) /\ Maps
      /\ kept = Put(kept, s, k) /\ acked = Put(acked, s, acked[s]) /\ orig = Put(orig, s, orig[s])
      /\ syncFailed \in BOOLEAN /\ o \in Ops /\ IsDir(d)
  BY AckHere, Here
<1>3. p.at = "copied" /\ p.kind = o.kind
  BY <1>2, OpAt DEF OpAts, Copying
<1> HIDE DEF d, k, o, h, p
<1>4. q \in Payloads
  BY <1>1, <1>2, CopyFacts, Appended DEF Copying
<1> HIDE DEF q
<1>5. e.chain = d.chain /\ e.payload = q /\ e.pending = d.pending
  BY <1>2, <1>4, EditPayload
<1> HIDE DEF e
<1>6. Keeps(e, k, p, acked[s], late[s], syncFailed, orig[s], Up)
  BY <1>1, <1>2, <1>3, <1>5, CopyKeeps DEF q
<1> QED BY <1>1, <1>2, <1>6, OneAck DEF Aside

\* Cutting back to the durable offset takes nothing that was answered.
LEMMA RejectKeeps ==
    ASSUME NEW d, NEW k, NEW o, NEW h, NEW A, NEW L, NEW f, NEW g, NEW u,
           SessionOK(d, k, o, h), Keeps(d, k, o, A, L, f, g, u), o.at \in Copying,
           NEW e, e.chain = d.chain, e.pending = d.pending,
           e.payload = SubSeq(d.payload, 1, o.next.off),
           NEW x, x.chain = k.chain, x.pending = k.pending,
           x.payload = SubSeq(d.payload, 1, o.next.off)
    PROVE  /\ Keeps(d, k, NoOp, A, L, f, g, u) /\ Keeps(e, k, NoOp, A, L, f, g, u)
           /\ Keeps(e, x, NoOp, A, L, f, g, u)
<1>1. /\ d.payload \in Payloads /\ d.payload # NoFile /\ HasState(d) /\ Has(d) /\ Top(d) = o.next
      /\ o.next.st \in Active /\ o.next.off \in Nat /\ o.next.off <= Len(d.payload)
  BY CopyFacts DEF CopyOK
<1>2. (Has(e) <=> Has(d)) /\ (HasState(e) <=> HasState(d)) /\ Top(e) = Top(d) /\ Latest(e) = Latest(d)
  BY SameEntries
<1>3. (Has(x) <=> Has(k)) /\ Top(x) = Top(k)
  BY SameEntries
<1>4. A \in Payloads /\ Len(A) \in Nat
  BY DEF Keeps, Payloads
<1> DEFINE q == SubSeq(d.payload, 1, o.next.off)
<1>5. Len(q) = o.next.off /\ \A i \in 1..o.next.off : q[i] = d.payload[i]
  BY <1>1, CutBack
<1> HIDE DEF q
<1>6. A # <<>> => Prefix(A, q)
  <2>1. A # <<>> => o.next.off >= Len(A) /\ Prefix(A, d.payload)
    BY <1>1 DEF Keeps, Reached, Holds
  <2> QED BY <1>1, <1>4, <1>5, <2>1 DEF Prefix
<1>7. A # <<>> => \A y : Holds(y, d.payload, A) => Holds(y, q, A)
  BY <1>1, <1>6 DEF Holds
<1>8. Reached(e, k, A, L, f) /\ Reached(e, x, A, L, f)
  BY <1>2, <1>3, <1>7, HoldsTop DEF Keeps, Reached, q
<1>9. g # NoRec
  BY <1>1 DEF Keeps
<1> QED BY <1>1, <1>2, <1>3, <1>8, <1>9, Nothing DEF Keeps, AppendOK, Synced, Writing, Renamed, Copying

\* A refused chunk keeps what was answered.
LEMMA RejectChunkAck ==
    ASSUME Inv, AckInv, NEW s \in Sessions, RejectChunk(s)
    PROVE  AckInv'
<1> DEFINE d == disk[s]
           k == kept[s]
           o == op[s]
           h == hand[s]
           cut == SubSeq(d.payload, 1, o.next.off)
           e == [d EXCEPT !.payload = cut]
           x == [k EXCEPT !.payload = cut]
<1>1. o.at \in Copying /\ op' = Put(op, s, NoOp) /\ sys' = sys /\ Aside
  BY DEF RejectChunk, Copying, fileVars, histVars, Aside
<1>2. \/ disk' = Put(disk, s, e) /\ kept' = Put(kept, s, x)
      \/ disk' = disk /\ kept' = kept
      \/ disk' = Put(disk, s, e) /\ kept' = kept
  BY DEF RejectChunk
<1>3. /\ SessionOK(d, k, o, h) /\ Keeps(d, k, o, acked[s], late[s], syncFailed, orig[s], Up) /\ Maps
      /\ disk = Put(disk, s, d) /\ kept = Put(kept, s, k)
      /\ acked = Put(acked, s, acked[s]) /\ orig = Put(orig, s, orig[s])
      /\ syncFailed \in BOOLEAN /\ IsDir(d) /\ IsDir(k)
  BY AckHere, Here
<1> HIDE DEF d, k, o, h
<1>4. cut \in Payloads
  BY <1>1, <1>3, CopyFacts, CutBack
<1> HIDE DEF cut
<1>5. e.chain = d.chain /\ e.payload = cut /\ e.pending = d.pending
  BY <1>3, <1>4, EditPayload
<1>6. x.chain = k.chain /\ x.payload = cut /\ x.pending = k.pending
  BY <1>3, <1>4, EditPayload
<1> HIDE DEF e, x
<1>7. /\ Keeps(d, k, NoOp, acked[s], late[s], syncFailed, orig[s], Up)
      /\ Keeps(e, k, NoOp, acked[s], late[s], syncFailed, orig[s], Up)
      /\ Keeps(e, x, NoOp, acked[s], late[s], syncFailed, orig[s], Up)
  BY <1>1, <1>3, <1>5, <1>6, RejectKeeps DEF cut
<1>8. CASE disk' = Put(disk, s, e) /\ kept' = Put(kept, s, x)
  BY <1>1, <1>3, <1>7, <1>8, OneAck DEF Aside
<1>9. CASE disk' = disk /\ kept' = kept
  BY <1>1, <1>3, <1>7, <1>9, OneAck DEF Aside
<1>10. CASE disk' = Put(disk, s, e) /\ kept' = kept
  BY <1>1, <1>3, <1>7, <1>10, OneAck DEF Aside
<1> QED BY <1>2, <1>8, <1>9, <1>10

\* The payload is durable before the state that counts the new bytes is written.
LEMMA SyncChunkKeeps ==
    ASSUME NEW d, NEW k, NEW o, NEW h, NEW A, NEW L, NEW f, NEW g, NEW u,
           SessionOK(d, k, o, h), Keeps(d, k, o, A, L, f, g, u), o.at = "copied",
           NEW x, x.chain = k.chain, x.pending = k.pending, x.payload = d.payload,
           NEW p, p.at = "write", p.kind = "append", p.next.off = o.next.off + 1
    PROVE  Keeps(d, x, p, A, L, f, g, u)
<1>1. HasState(d) /\ Has(d) /\ Len(d.payload) = o.next.off + 1
  BY CopyFacts DEF CopyOK, Copying
<1>2. (Has(x) <=> Has(k)) /\ Top(x) = Top(k)
  BY SameEntries
<1>3. Reached(d, x, A, L, f)
  BY <1>2, HoldsTop DEF Keeps, Reached
<1>4. g # NoRec
  BY <1>1 DEF Keeps
<1> QED BY <1>1, <1>2, <1>3, <1>4 DEF Keeps, AppendOK, Synced, Renamed

\* The payload sync of AppendChunk keeps what was answered.
LEMMA SyncChunkAck ==
    ASSUME Inv, AckInv, NEW s \in Sessions, SyncChunk(s)
    PROVE  AckInv'
<1> DEFINE d == disk[s]
           k == kept[s]
           o == op[s]
           h == hand[s]
           q == d.payload
           n == Grown(o.next, q[o.next.off + 1])
           x == [k EXCEPT !.payload = q]
           p == [at |-> "write", kind |-> "append", next |-> n]
<1>1. /\ o.at = "copied" /\ disk' = disk /\ kept' = Put(kept, s, x) /\ op' = Put(op, s, p)
      /\ sys' = sys /\ Aside
  BY DEF SyncChunk, StartWrite, fileVars, histVars, Aside
<1>2. /\ SessionOK(d, k, o, h) /\ Keeps(d, k, o, acked[s], late[s], syncFailed, orig[s], Up) /\ Maps
      /\ disk = Put(disk, s, d) /\ acked = Put(acked, s, acked[s]) /\ orig = Put(orig, s, orig[s])
      /\ syncFailed \in BOOLEAN /\ IsDir(k)
  BY AckHere, Here
<1>3. p.at = "write" /\ p.kind = "append" /\ p.next.off = o.next.off + 1
  BY DEF Grown
<1> HIDE DEF d, k, o, h, n, p
<1>4. q \in Payloads
  BY <1>1, <1>2, CopyFacts DEF Copying
<1> HIDE DEF q
<1>5. x.chain = k.chain /\ x.payload = q /\ x.pending = k.pending
  BY <1>2, <1>4, EditPayload
<1> HIDE DEF x
<1>6. Keeps(d, x, p, acked[s], late[s], syncFailed, orig[s], Up)
  BY <1>1, <1>2, <1>3, <1>5, SyncChunkKeeps DEF q
<1> QED BY <1>1, <1>2, <1>6, OneAck DEF Aside

\* A repeated chunk is answered from a state that is durable.
LEMMA ReplayKeeps ==
    ASSUME NEW d, NEW k, NEW o, NEW h, NEW A, NEW L, NEW f \in BOOLEAN, NEW g,
           SessionOK(d, k, o, h), Keeps(d, k, o, A, L, f, g, TRUE), o.at = "idle",
           HasState(d), Loaded(d) = d, Latest(d).st \in Active, f \/ k = d,
           NEW B, B = SubSeq(d.payload, 1, Latest(d).off)
    PROVE  Keeps(d, k, o, B, L, f, g, TRUE)
<1>1. /\ Has(d) /\ Top(d) = Latest(d) /\ Latest(d) \in Recs /\ d.payload \in Payloads
      /\ Len(d.payload) = Latest(d).off /\ d.payload # NoFile
  BY SessionSound, CleanFacts
<1>2. Latest(d).off \in Nat /\ o.kind = "none" /\ g # NoRec
  BY <1>1, UploadAssumption DEF Recs, SessionOK, OpOK, Keeps
<1>3. B \in Payloads /\ Len(B) = Latest(d).off /\ \A i \in 1..Latest(d).off : B[i] = d.payload[i]
  BY <1>1, <1>2, CutBack
<1>4. Prefix(B, d.payload)
  BY <1>1, <1>2, <1>3 DEF Prefix
<1>5. k.payload # NoFile => Prefix(B, k.payload)
  <2> SUFFICES ASSUME k.payload # NoFile PROVE Prefix(B, k.payload)
    OBVIOUS
  <2>1. Len(k.payload) = Latest(d).off
    BY BothCut
  <2>2. Prefix(k.payload, d.payload)
    BY <1>1 DEF SessionOK, PayloadOK
  <2>3. \A i \in 1..Latest(d).off : B[i] = k.payload[i]
    BY <1>3, <2>1, <2>2 DEF Prefix
  <2> QED BY <1>2, <1>3, <2>1, <2>3 DEF Prefix
<1>6. ~f => Has(k) /\ Top(k) = Latest(d)
  BY <1>1
<1>7. Reached(d, k, B, L, f)
  BY <1>1, <1>2, <1>3, <1>4, <1>5, <1>6 DEF Reached, Holds
<1> QED BY <1>2, <1>3, <1>7 DEF Keeps

\* A repeated chunk is answered from the state that is there.
LEMMA ReplayChunkAck ==
    ASSUME Inv, AckInv, NEW s \in Sessions, ReplayChunk(s), Up
    PROVE  AckInv'
<1> DEFINE d == disk[s]
           k == kept[s]
           o == op[s]
           h == hand[s]
           B == SubSeq(d.payload, 1, Latest(d).off)
<1>1. /\ o.at = "idle" /\ Clean(s) /\ Latest(d).st \in Active /\ acked' = Put(acked, s, B)
      /\ disk' = disk /\ kept' = kept /\ op' = op /\ sys' = sys /\ (syncFailed \/ k = d)
      /\ late' = late /\ orig' = orig /\ syncFailed' = syncFailed
  BY DEF ReplayChunk, Open, Idle, Rec, dirVars, jobVars, fileVars
<1>2. HasState(d) /\ Loaded(d) = d
  BY <1>1, CleanHere
<1>3. /\ SessionOK(d, k, o, h) /\ Keeps(d, k, o, acked[s], late[s], syncFailed, orig[s], TRUE) /\ Maps
      /\ disk = Put(disk, s, d) /\ kept = Put(kept, s, k) /\ op = Put(op, s, o)
      /\ orig = Put(orig, s, orig[s]) /\ syncFailed \in BOOLEAN
  BY AckHere
<1> HIDE DEF d, k, o, h
<1>4. Keeps(d, k, o, B, late[s], syncFailed, orig[s], TRUE)
  BY <1>1, <1>2, <1>3, ReplayKeeps
<1> HIDE DEF B
<1> QED BY <1>1, <1>3, <1>4, OneAck

\* Expiry passes; directories stay as they are.
LEMMA TimePassesAck ==
    ASSUME Inv, AckInv, NEW s \in Sessions, TimePasses(s)
    PROVE  AckInv'
<1>1. /\ HasState(disk[s]) /\ late' = Put(late, s, Rec(s).rev) /\ disk' = disk /\ kept' = kept /\ op' = op
      /\ acked' = acked /\ orig' = orig /\ syncFailed' = syncFailed /\ sys' = sys
  BY DEF TimePasses, dirVars, jobVars, fileVars, histVars
<1>2. Rec(s).rev \in Nat \ {0}
  BY <1>1, Here, NewestState DEF Rec
<1>3. /\ late'[s] = Rec(s).rev /\ \A t \in Sessions : t # s => late'[t] = late[t]
      /\ late' = [t \in Sessions |-> late'[t]]
  BY <1>1, PutAt DEF AckInv
<1>4. Keeps(disk[s], kept[s], op[s], acked[s], late'[s], syncFailed, orig[s], Up)
  BY <1>2, <1>3, AckHere DEF Keeps, Reached
<1>5. \A t \in Sessions : Keeps(disk[t], kept[t], op[t], acked[t], late'[t], syncFailed, orig[t], Up)
  BY <1>3, <1>4 DEF AckInv
<1>6. Up' = Up
  BY <1>1 DEF Up
<1> QED BY <1>1, <1>3, <1>5, <1>6 DEF AckInv

\* A kill keeps what was answered.
LEMMA KillAck ==
    ASSUME Inv, AckInv, Kill
    PROVE  AckInv'
<1>1. /\ disk' = disk /\ kept' = kept /\ Aside /\ op' = [s \in Sessions |-> NoOp] /\ Up' = FALSE
  BY DEF Kill, Die, dirVars, Aside, Up
<1>2. ASSUME NEW s \in Sessions
      PROVE  Keeps(disk[s], kept[s], NoOp, acked[s], late[s], syncFailed, orig[s], FALSE)
  BY AckHere, Nothing DEF Keeps, AppendOK, Writing, Renamed
<1>3. \A s \in Sessions :
        Keeps(disk'[s], kept'[s], op'[s], acked'[s], late'[s], syncFailed', orig'[s], Up')
  BY <1>1, <1>2 DEF Aside
<1> QED BY <1>1, <1>3 DEF AckInv, Aside

\* Whatever a power loss leaves holds what was answered, unless a sync failed.
LEMMA OutcomeHolds ==
    ASSUME Inv, AckInv, ~syncFailed, NEW s \in Sessions, NEW x \in Outcomes(s), acked[s] # <<>>
    PROVE  Holds(x, x.payload, acked[s]) /\ (Has(x) \/ late[s] > 0)
<1> DEFINE d == disk[s]
           k == kept[s]
           A == acked[s]
<1>1. PICK e \in {d, k}, p \in {d.payload, k.payload} :
        x = [chain |-> e.chain, pending |-> e.pending,
             payload |-> IF e.payload = NoFile \/ p = NoFile THEN e.payload ELSE p]
  BY DEF Outcomes
<1>2. x.chain = e.chain /\ x.pending = e.pending /\ x.payload \in {d.payload, k.payload}
  BY <1>1
<1>3. Keeps(d, k, op[s], A, late[s], syncFailed, orig[s], Up)
  BY AckHere
<1> HIDE DEF d, k, A
<1>4. \A y \in {d, k}, q \in {d.payload, k.payload} : Holds(y, q, A) /\ (Has(y) \/ late[s] > 0)
  BY <1>3 DEF Keeps, Reached, A
<1>5. (Has(x) <=> Has(e)) /\ Top(x) = Top(e)
  BY <1>2, SameEntries
<1>6. Holds(e, x.payload, A) /\ (Has(e) \/ late[s] > 0)
  BY <1>2, <1>4
<1>7. Holds(x, x.payload, A) /\ (Has(x) \/ late[s] > 0)
  BY <1>5, <1>6, HoldsTop
<1> QED BY <1>7 DEF A

\* A power loss keeps what was answered.
LEMMA PowerLossAck ==
    ASSUME Inv, AckInv, PowerLoss
    PROVE  AckInv'
<1>1. /\ \A s \in Sessions : disk'[s] \in Outcomes(s)
      /\ kept' = disk' /\ Up' = FALSE /\ op' = [s \in Sessions |-> NoOp]
      /\ acked' = (IF syncFailed THEN [s \in Sessions |-> <<>>] ELSE acked)
      /\ late' = late /\ orig' = orig /\ syncFailed' = syncFailed
  BY DEF PowerLoss, Die, Up
<1>2. ASSUME NEW s \in Sessions
      PROVE  Keeps(disk'[s], disk'[s], NoOp, acked'[s], late[s], syncFailed, orig[s], FALSE)
  <2> DEFINE x == disk'[s]
             B == acked'[s]
  <2>1. x \in Outcomes(s)
    BY <1>1
  <2>2. /\ Keeps(disk[s], kept[s], op[s], acked[s], late[s], syncFailed, orig[s], Up)
        /\ syncFailed \in BOOLEAN
    BY AckHere
  <2>3. B = <<>> \/ (~syncFailed /\ B = acked[s])
    BY <1>1, <2>2
  <2>4. B \in Payloads
    BY <2>2, <2>3, NoBytes DEF Keeps
  <2>5. orig[s] = NoRec => ~Has(x)
    <3>1. PICK e \in {disk[s], kept[s]}, p \in {disk[s].payload, kept[s].payload} :
            x = [chain |-> e.chain, pending |-> e.pending,
                 payload |-> IF e.payload = NoFile \/ p = NoFile THEN e.payload ELSE p]
      BY <2>1 DEF Outcomes
    <3>2. x.chain = e.chain /\ x.pending = e.pending
      BY <3>1
    <3>3. Has(x) <=> Has(e)
      BY <3>2, SameEntries
    <3> QED BY <2>2, <3>3 DEF Keeps
  <2>6. orig[s] = NoRec => B = <<>>
    BY <2>2, <2>3 DEF Keeps
  <2>7. B # <<>> => Holds(x, x.payload, B) /\ (Has(x) \/ late[s] > 0)
    BY <2>1, <2>3, OutcomeHolds
  <2> HIDE DEF x, B
  <2>8. Reached(x, x, B, late[s], syncFailed)
    BY <2>7, ReachedSame
  <2>9. Keeps(x, x, NoOp, B, late[s], syncFailed, orig[s], FALSE)
    BY <2>2, <2>4, <2>5, <2>6, <2>8, Nothing DEF Keeps, AppendOK, Writing, Renamed
  <2> QED BY <2>9 DEF x, B
<1>3. \A s \in Sessions :
        Keeps(disk'[s], kept'[s], op'[s], acked'[s], late'[s], syncFailed', orig'[s], Up')
  BY <1>1, <1>2
<1>4. acked' = [s \in Sessions |-> acked'[s]]
  BY <1>1 DEF AckInv
<1> QED BY <1>1, <1>3, <1>4 DEF AckInv

\* Open and recoverAll keeps what was answered.
LEMMA RestartAck ==
    ASSUME Inv, AckInv, Asleep, Restart
    PROVE  AckInv'
<1>1. op' = op /\ Aside /\ ~Up
  BY DEF Restart, jobVars, fileVars, histVars, Aside, Up
<1>2. CASE \A s \in Sessions : Loadable(disk[s])
  <2>1. /\ disk' = [s \in Sessions |-> Loaded(disk[s])]
        /\ kept' = [s \in Sessions |->
                       IF Loaded(disk[s]) = disk[s] /\ disk[s] # NoDir THEN kept[s] ELSE Loaded(disk[s])]
    BY <1>2, RestartMaps
  <2>2. ASSUME NEW s \in Sessions
        PROVE  Keeps(disk'[s], kept'[s], op'[s], acked'[s], late'[s], syncFailed', orig'[s], TRUE)
    <3> DEFINE d == disk[s]
               e == Loaded(d)
    <3>1. /\ SessionOK(d, kept[s], op[s], hand[s])
          /\ Keeps(d, kept[s], op[s], acked[s], late[s], syncFailed, orig[s], Up) /\ op[s].at = "idle"
      BY <1>1, AckHere DEF Asleep
    <3>2. Sound(d) /\ op[s].kind = "none"
      BY <3>1, SessionSound DEF SessionOK, OpOK
    <3>3. (Has(e) <=> Has(d))
      BY <3>2, LoadedSound
    <3>4. Reached(e, e, acked[s], late[s], syncFailed) /\ Synced(e, e, op[s])
      BY <3>1, <3>2, LoadKeeps DEF Keeps, Reached
    <3>5. disk'[s] = e /\ (kept'[s] = e \/ (disk'[s] = d /\ kept'[s] = kept[s]))
      <4>1. disk'[s] = Loaded(disk[s])
        BY <2>1
      <4>2. kept'[s] = IF Loaded(disk[s]) = disk[s] /\ disk[s] # NoDir THEN kept[s] ELSE Loaded(disk[s])
        BY <2>1
      <4> QED BY <4>1, <4>2
    <3>8. op'[s] = op[s] /\ acked'[s] = acked[s] /\ late'[s] = late[s]
          /\ syncFailed' = syncFailed /\ orig'[s] = orig[s]
      BY <1>1 DEF Aside
    <3> HIDE DEF d, e
    <3>6. Keeps(e, e, op[s], acked[s], late[s], syncFailed, orig[s], TRUE)
      BY <3>1, <3>2, <3>3, <3>4 DEF Keeps, AppendOK, Writing, Renamed
    <3>7. Keeps(d, kept[s], op[s], acked[s], late[s], syncFailed, orig[s], TRUE)
      BY <3>1 DEF Keeps, Synced, Renamed
    <3> QED BY <3>5, <3>6, <3>7, <3>8
  <2>3. Up' = TRUE
    BY <1>2 DEF Restart, Up
  <2> QED BY <1>1, <2>2, <2>3 DEF AckInv, Aside
<1>3. CASE ~\A s \in Sessions : Loadable(disk[s])
  <2>1. disk' = disk /\ kept' = kept /\ ~Up'
    BY <1>3 DEF Restart, dirVars, Up
  <2> QED BY <1>1, <2>1, AsideAck
<1> QED BY <1>2, <1>3

-----------------------------------------------------------------------------
(* The target is a file or absent                                           *)

\* A published payload is a file.
LEMMA MineOK ==
    ASSUME Inv, TargetOK, NEW s \in Sessions, hand[s].at \in Deciding
    PROVE  Mine(s) \in Files /\ Put(pubs, s, pubs[s] + 1) \in [Sessions -> Nat]
<1>1. Has(disk[s]) /\ Top(disk[s]).st = "committing"
  BY Decider
<1>2. disk[s].payload # NoFile
  BY <1>1, Here DEF SessionOK, PayloadOK, Active
<1>3. disk[s].payload \in Payloads
  BY <1>2, Here, PayloadLen
<1> QED BY <1>3 DEF TargetOK, Files, Mine, Put

\* Every step leaves a file or nothing at the target.
LEMMA TargetStep ==
    ASSUME Inv, TargetOK, [Next]_vars
    PROVE  TargetOK'
<1>1. CASE UNCHANGED <<target, pubs, other>>
  BY <1>1 DEF TargetOK
<1>2. CASE \E s \in Sessions : Publish(s)
  <2>1. PICK s \in Sessions : Publish(s)
    BY <1>2
  <2>2. hand[s].at \in Deciding /\ other' = other
    BY <2>1 DEF Publish, Deciding
  <2>3. (target' = Mine(s) /\ pubs' = Put(pubs, s, pubs[s] + 1)) \/ UNCHANGED <<target, pubs>>
    BY <2>1 DEF Publish
  <2> QED BY <2>2, <2>3, MineOK DEF TargetOK
<1>3. CASE OtherChanges
  <2>1. UserFile(other + 1) \in Files /\ other + 1 \in Nat
    BY NoBytes DEF TargetOK, UserFile, Files
  <2> QED BY <1>3, <2>1 DEF OtherChanges, TargetOK, histVars
<1>4. CASE Die
  <2>1. CASE UNCHANGED <<target, pubs>>
    BY <1>4, <2>1 DEF Die, TargetOK
  <2>2. ASSUME NEW s \in Sessions, hand[s].at = "publish", target' = Mine(s),
               pubs' = Put(pubs, s, pubs[s] + 1)
        PROVE  TargetOK'
    BY <1>4, <2>2, MineOK DEF Die, TargetOK, Deciding
  <2> QED BY <1>4, <2>1, <2>2 DEF Die
<1>5. CASE \E s \in Sessions : Step(s) \/ Request(s) \/ StateWriteFails(s) \/ TimePasses(s) \/ VisitListed(s)
  <2>1. PICK s \in Sessions : Step(s) \/ Request(s) \/ StateWriteFails(s) \/ TimePasses(s) \/ VisitListed(s)
    BY <1>5
  <2>2. Publish(s) \/ UNCHANGED <<target, pubs, other>>
    BY <2>1 DEF Step, Request, NameState, SyncState, Compact, Done, PurgePayload, SyncPurge, Reload, UndoCreate,
         SyncChunk, RemoveDir, SyncRemoval, StateWriteFails, RejectChunk, WriteChunk, Admit, Withdraw,
         StartPublication, Decide, Settle, Create, AppendChunk, ReplayChunk, Commit, Cancel, Load, Reconcile,
         VisitListed, TimePasses, fileVars, histVars, bound
  <2> QED BY <1>1, <1>2, <2>2
<1>6. CASE ListExpired \/ Restart \/ Serve \/ GiveUp \/ AllQuiet \/ UNCHANGED vars
  BY <1>1, <1>6 DEF ListExpired, Restart, Serve, GiveUp, AllQuiet, vars, fileVars, histVars, bound
<1> QED BY <1>3, <1>4, <1>5, <1>6 DEF Next, Kill, PowerLoss

\* Every step of a session, one lemma per action.
LEMMA SessionStepAck ==
    ASSUME Inv, AckInv, TargetOK, NEW s \in Sessions, ~TornRemoval, Up,
           Step(s) \/ Request(s) \/ StateWriteFails(s) \/ VisitListed(s)
    PROVE  AckInv'
<1>1. CASE Step(s)
  <2>1. CASE NameState(s) \/ SyncState(s) \/ Compact(s) \/ Done(s) \/ PurgePayload(s) \/ SyncPurge(s)
    BY <2>1, NameStateAck, SyncStateAck, CompactAck, DoneAck, PurgePayloadAck, SyncPurgeAck
  <2>2. CASE Reload(s) \/ UndoCreate(s) \/ SyncChunk(s) \/ RemoveDir(s) \/ SyncRemoval(s)
    BY <2>2, ReloadAck, UndoCreateAck, SyncChunkAck, RemoveDirAck, SyncRemovalAck
  <2>3. CASE Admit(s) \/ Withdraw(s) \/ StartPublication(s) \/ Publish(s) \/ Decide(s) \/ Settle(s)
    BY <2>3, HandlerAck
  <2> QED BY <1>1, <2>1, <2>2, <2>3 DEF Step
<1>2. CASE Request(s)
  <2>1. CASE Create(s) \/ AppendChunk(s) \/ (\E c \in Chunks : WriteChunk(s, c)) \/ RejectChunk(s)
    BY <2>1, CreateAck, AppendChunkAck, WriteChunkAck, RejectChunkAck
  <2>2. CASE Commit(s) \/ Cancel(s) \/ Reconcile(s)
    BY <2>2, HandlerAck
  <2>3. CASE Load(s) \/ ReplayChunk(s)
    BY <2>3, LoadAck, ReplayChunkAck
  <2> QED BY <1>2, <2>1, <2>2, <2>3 DEF Request
<1> QED BY <1>1, <1>2, StateWriteFailsAck, VisitListedAck

\* Every step.
LEMMA NextAck ==
    ASSUME Inv, Asleep, AckInv, TargetOK, ~TornRemoval, [Next]_vars
    PROVE  AckInv'
<1>1. CASE \E s \in Sessions : Step(s) \/ Request(s) \/ StateWriteFails(s) \/ VisitListed(s)
  BY <1>1, Awake, SessionStepAck
<1>2. CASE \E s \in Sessions : TimePasses(s)
  BY <1>2, TimePassesAck
<1>3. CASE ListExpired \/ OtherChanges \/ Serve \/ GiveUp \/ AllQuiet \/ UNCHANGED vars
  <2>1. disk' = disk /\ kept' = kept /\ op' = op /\ Aside /\ (Up \/ ~Up')
    BY <1>3 DEF ListExpired, OtherChanges, Serve, GiveUp, AllQuiet, vars, dirVars, jobVars, fileVars,
                histVars, Aside, Up, Serving
  <2> QED BY <2>1, AsideAck
<1>4. CASE Kill \/ PowerLoss \/ Restart
  BY <1>4, KillAck, PowerLossAck, RestartAck
<1> QED BY <1>1, <1>2, <1>3, <1>4 DEF Next

\* The empty store: nothing was answered.
LEMMA InitAck == Init => AckInv /\ TargetOK
<1> SUFFICES ASSUME Init PROVE AckInv /\ TargetOK
  OBVIOUS
<1>1. /\ disk = [s \in Sessions |-> NoDir] /\ kept = [s \in Sessions |-> NoDir]
      /\ op = [s \in Sessions |-> NoOp] /\ late = [s \in Sessions |-> 0]
      /\ orig = [s \in Sessions |-> NoRec] /\ acked = [s \in Sessions |-> <<>>] /\ syncFailed = FALSE
      /\ pubs = [s \in Sessions |-> 0] /\ other = 0 /\ target \in {Absent, UserFile(0)}
  BY DEF Init
<1>2. \A u : Keeps(NoDir, NoDir, NoOp, <<>>, 0, FALSE, NoRec, u)
  BY NoDirOK, NoBytes, Nothing DEF Keeps, Reached, AppendOK, Synced, Writing, Renamed
<1>3. UserFile(0) \in Files
  BY NoBytes DEF UserFile, Files
<1> QED BY <1>1, <1>2, <1>3 DEF AckInv, TargetOK

\* A payload that holds what was answered begins with it.
LEMMA BeginsWith ==
    ASSUME NEW q \in Payloads, NEW A \in Payloads, Prefix(A, q)
    PROVE  SubSeq(q, 1, Len(A)) = A
<1> DEFINE b == SubSeq(q, 1, Len(A))
<1>1. Len(A) \in Nat /\ Len(A) <= Len(q) /\ \A i \in 1..Len(A) : A[i] = q[i]
  BY DEF Prefix, Payloads
<1>2. b \in Payloads /\ Len(b) = Len(A) /\ \A i \in 1..Len(A) : b[i] = q[i]
  BY <1>1, CutBack
<1> HIDE DEF b
<1>3. Len(b) = Len(A) /\ \A i \in 1..Len(A) : b[i] = A[i]
  BY <1>1, <1>2
<1>4. b = A
  BY <1>2, <1>3, SeqEqual DEF Payloads
<1> QED BY <1>4 DEF b

\* The invariants imply the property.
LEMMA HeldIsKept ==
    ASSUME Inv, AckInv
    PROVE  AckedKept
<1> SUFFICES ASSUME NEW s \in Sessions, NEW d \in (IF syncFailed THEN {disk[s]} ELSE Outcomes(s)), acked[s] # <<>>
             PROVE  IF HasState(Promote(d))
                      THEN LET r == Latest(Promote(d)) IN
                           r.st \in Active => /\ r.off >= Len(acked[s])
                                              /\ SubSeq(d.payload, 1, Len(acked[s])) = acked[s]
                      ELSE late[s] > 0
  BY DEF AckedKept
<1>1. Keeps(disk[s], kept[s], op[s], acked[s], late[s], syncFailed, orig[s], Up) /\ syncFailed \in BOOLEAN
  BY AckHere
<1>2. Sound(d) /\ Holds(d, d.payload, acked[s]) /\ (Has(d) \/ late[s] > 0)
  <2>1. CASE syncFailed
    BY <1>1, <2>1, Here, SessionSound DEF Keeps, Reached
  <2>2. CASE ~syncFailed
    BY <2>2, OutcomesSound, OutcomeHolds
  <2> QED BY <2>1, <2>2
<1>3. (HasState(Promote(d)) <=> Has(d)) /\ (Has(d) => Latest(Promote(d)) = Top(d))
  BY <1>2, PromoteOK DEF Sound
<1>4. Has(d) /\ Top(d).st \in Active => d.payload # NoFile /\ d.payload \in Payloads
  BY <1>2, PayloadLen DEF Sound, DirOK
<1>5. Has(d) /\ Top(d).st \in Active => Top(d).off >= Len(acked[s]) /\ Prefix(acked[s], d.payload)
  BY <1>2, <1>4 DEF Holds
<1>6. Has(d) /\ Top(d).st \in Active => SubSeq(d.payload, 1, Len(acked[s])) = acked[s]
  BY <1>1, <1>4, <1>5, BeginsWith DEF Keeps
<1> QED BY <1>2, <1>3, <1>5, <1>6

\* AckedKept for every instance: a chunk answered with success stays in the payload, under
\* the offset the state counts, over every interleaving, kill and, unless an fsync failed,
\* power loss, until the session ends or expires.
THEOREM AnsweredStays == ASSUME ~TornRemoval PROVE Spec => []AckedKept
<1>1. Init => Inv /\ Asleep /\ AckInv /\ TargetOK
  BY InitInv, InitAck
<1>2. Inv /\ Asleep /\ AckInv /\ TargetOK /\ [Next]_vars => (Inv /\ Asleep /\ AckInv /\ TargetOK)'
  BY NextInv, NextAck, TargetStep
<1>3. Inv /\ AckInv => AckedKept
  BY HeldIsKept
<1> QED BY <1>1, <1>2, <1>3, PTL DEF Spec

-----------------------------------------------------------------------------
(***************************************************************************)
(* What a session says about the target is true, proved for every instance *)
(* of UploadSession.                                                       *)
(*                                                                         *)
(* Truth says of one session that if its payload is at the target then     *)
(* both copies of its directory record the publication, with the bytes     *)
(* that are there (OwnOK); that the publication window is durable before   *)
(* storage can change the target (StartOK, PublishOK); and that success is *)
(* recorded only of a target with its bytes (CommittedOK).  LeaseOne keeps *)
(* two sessions from deciding at once.  PubsInv counts publications: every *)
(* file that was ever at the target has an identity of its own, and a      *)
(* publication needs the file the session was opened on.                   *)
(***************************************************************************)

(* What a session says about the target                                     *)

\* The target is the session's own payload.
Own(T, s) == T # Absent /\ T.by = s

\* The entries e belong to a session whose publication was recorded.
Told(e) ==
    Has(e) => /\ Top(e).st \in {"committing", "committed"}
              /\ Top(e).st = "committing" => Top(e).started

\* A payload that may still have to be compared with the target is the one published.
SameBytes(d, k, b) ==
    \A e \in {d, k}, q \in {d.payload, k.payload} :
        Has(e) /\ Top(e).st = "committing" /\ q # NoFile => q = b

OwnOK(d, k, o, h, b) ==
    /\ Told(d) /\ Told(k) /\ SameBytes(d, k, b) /\ b \in Payloads /\ Len(b) = Total
    /\ o.kind \in {"none", "committed", "expire"} /\ h.at \in {"free", "ok", "probe", "settle"}

\* The publication window is durable before storage can change the target.
StartOK(d, k, o) ==
    o.kind = "start" =>
        /\ o.next.started /\ Len(d.payload) = o.next.off
        /\ o.at \in {"compact", "unlinked", "written"} =>
            Has(k) /\ Top(k) = o.next /\ k.payload = d.payload
PublishOK(d, k, h) ==
    h.at = "publish" =>
        /\ Has(k) /\ Top(k) = Top(d) /\ Top(d).started
        /\ k.payload = d.payload /\ Len(d.payload) = Top(d).off

\* Success is recorded of a target with the session's content.
CommittedOK(d, o, T) ==
    o.kind = "committed" => T # Absent /\ d.payload \in {T.body, NoFile} /\ o.next.st = "committed"

Truth(s, d, k, o, h, T, g) ==
    /\ Own(T, s) => OwnOK(d, k, o, h, T.body)
    /\ h.at = "ok" => Own(T, s)
    /\ StartOK(d, k, o) /\ PublishOK(d, k, h) /\ CommittedOK(d, o, T)
    /\ g \in Files \cup {Absent, NoRec} /\ (g \in Files => g.by # s)
    /\ g = NoRec => ~Own(T, s)

TruthInv == \A s \in Sessions : Truth(s, disk[s], kept[s], op[s], hand[s], target, orig[s])

\* The leases: one session at a time decides.
LeaseOne == \A s, t \in Sessions : hand[s].at \in LeaseSteps /\ hand[t].at \in LeaseSteps => s = t

-----------------------------------------------------------------------------
\* Where the newest state of a directory came from.
Came(d, k, o, e) ==
    Has(e) => \/ Has(d) /\ Top(e) = Top(d)
              \/ Has(k) /\ Top(e) = Top(k)
              \/ o.kind = "committed" /\ Top(e) = o.next

\* A step that leaves the target alone.
LEMMA TruthOn ==
    ASSUME NEW s, NEW d, NEW k, NEW o, NEW h, NEW T, NEW g, Truth(s, d, k, o, h, T, g),
           NEW e, NEW x, NEW p, NEW j,
           Own(T, s) => /\ Came(d, k, o, e) /\ Came(d, k, o, x)
                        /\ e.payload \in {d.payload, k.payload, NoFile}
                        /\ x.payload \in {d.payload, k.payload, NoFile}
                        /\ p.kind \in {"none", "committed", "expire"}
                        /\ j.at \in {"free", "ok", "probe", "settle"},
           j.at = "ok" => h.at = "ok",
           StartOK(e, x, p), PublishOK(e, x, j), CommittedOK(e, p, T)
    PROVE  Truth(s, e, x, p, j, T, g)
<1>1. ASSUME Own(T, s) PROVE OwnOK(e, x, p, j, T.body)
  <2>1. OwnOK(d, k, o, h, T.body) /\ CommittedOK(d, o, T)
    BY <1>1 DEF Truth
  <2>2. Told(e) /\ Told(x)
    BY <1>1, <2>1 DEF OwnOK, Told, Came, CommittedOK
  <2>3. SameBytes(e, x, T.body)
    BY <1>1, <2>1 DEF OwnOK, SameBytes, Came, CommittedOK
  <2> QED BY <1>1, <2>1, <2>2, <2>3 DEF OwnOK
<1> QED BY <1>1 DEF Truth

\* A session whose payload is not at the target, and which is not about to say it is.
LEMMA TruthFree ==
    ASSUME NEW s, NEW d, NEW k, NEW o, NEW h, NEW T, NEW g, Truth(s, d, k, o, h, T, g), ~Own(T, s),
           NEW e, NEW x, NEW p, NEW j, p.kind \notin {"start", "committed"}, j.at \notin {"ok", "publish"}
    PROVE  Truth(s, e, x, p, j, T, g)
BY DEF Truth, StartOK, PublishOK, CommittedOK

\* A step of one session that leaves the target alone.
LEMMA OneTruth ==
    ASSUME Inv, TruthInv, NEW s \in Sessions, NEW d, NEW k, NEW o, NEW h,
           disk' = Put(disk, s, d), kept' = Put(kept, s, k), op' = Put(op, s, o),
           hand' = Put(hand, s, h), target' = target, orig' = orig,
           Truth(s, d, k, o, h, target, orig[s])
    PROVE  TruthInv'
<1>1. /\ disk'[s] = d /\ \A t \in Sessions : t # s => disk'[t] = disk[t]
  BY PutAt DEF Inv, Maps
<1>2. /\ kept'[s] = k /\ \A t \in Sessions : t # s => kept'[t] = kept[t]
  BY PutAt DEF Inv, Maps
<1>3. /\ op'[s] = o /\ \A t \in Sessions : t # s => op'[t] = op[t]
  BY PutAt DEF Inv, Maps
<1>4. /\ hand'[s] = h /\ \A t \in Sessions : t # s => hand'[t] = hand[t]
  BY PutAt DEF Inv, Maps
<1>5. ASSUME NEW t \in Sessions
      PROVE  Truth(t, disk'[t], kept'[t], op'[t], hand'[t], target', orig'[t])
  BY <1>1, <1>2, <1>3, <1>4 DEF TruthInv
<1> QED BY <1>5 DEF TruthInv

\* What the invariants say of one session.
LEMMA TruthHere ==
    ASSUME Inv, TruthInv, NEW s \in Sessions
    PROVE  /\ Truth(s, disk[s], kept[s], op[s], hand[s], target, orig[s])
           /\ SessionOK(disk[s], kept[s], op[s], hand[s]) /\ op[s] \in Ops /\ hand[s] \in Hands(hand[s])
           /\ IsDir(disk[s]) /\ IsDir(kept[s])
           /\ disk = Put(disk, s, disk[s]) /\ kept = Put(kept, s, kept[s])
           /\ op = Put(op, s, op[s]) /\ hand = Put(hand, s, hand[s])
BY Here, Unput DEF TruthInv

\* The same for a session whose payload is not at the target.
LEMMA FreeTruth ==
    ASSUME Inv, TruthInv, NEW s \in Sessions, ~Own(target, s), NEW e, NEW x, NEW p, NEW j,
           disk' = Put(disk, s, e), kept' = Put(kept, s, x), op' = Put(op, s, p),
           hand' = Put(hand, s, j), target' = target, orig' = orig,
           p.kind \notin {"start", "committed"}, j.at \notin {"ok", "publish"}
    PROVE  TruthInv'
BY TruthHere, TruthFree, OneTruth

\* Nobody at work on an append, a creation or a commit that starts owns the target.
LEMMA NotOwn ==
    ASSUME Inv, TruthInv, NEW s \in Sessions,
           \/ op[s].kind \notin {"none", "committed", "expire"}
           \/ hand[s].at \notin {"free", "ok", "probe", "settle"}
           \/ Has(disk[s]) /\ Top(disk[s]).st \notin {"committing", "committed"}
    PROVE  ~Own(target, s)
BY TruthHere DEF Truth, OwnOK, Told

\* An operation under way: no handler of the session decides.
LEMMA Working ==
    ASSUME NEW d, NEW k, NEW o, NEW h, SessionOK(d, k, o, h), o.at # "idle"
    PROVE  h.at \notin Deciding /\ h.at \notin {"ok", "publish"}
BY DEF SessionOK, HandOK, Deciding

\* The steps of an append keeps what the sessions say true.
LEMMA AppendTruth ==
    ASSUME Inv, TruthInv, NEW s \in Sessions,
           \/ AppendChunk(s) \/ (\E c \in Chunks : WriteChunk(s, c)) \/ RejectChunk(s) \/ SyncChunk(s)
           \/ Reload(s)
    PROVE  TruthInv'
<1>0. /\ SessionOK(disk[s], kept[s], op[s], hand[s]) /\ op[s] \in Ops
      /\ disk = Put(disk, s, disk[s]) /\ kept = Put(kept, s, kept[s])
      /\ hand = Put(hand, s, hand[s])
  BY TruthHere
<1>1. hand' = hand /\ target' = target /\ orig' = orig
  BY DEF AppendChunk, WriteChunk, RejectChunk, SyncChunk, Reload, fileVars
<1>2. CASE AppendChunk(s)
  <2> DEFINE p == [at |-> "reserved", kind |-> "append", next |-> Rec(s)]
  <2>1. op[s].at = "idle" /\ Clean(s) /\ Rec(s).st = "uploading" /\ op' = Put(op, s, p)
        /\ disk' = disk /\ kept' = kept
    BY <1>2 DEF AppendChunk, Open, Idle, dirVars
  <2>2. Has(disk[s]) /\ Top(disk[s]) = Rec(s)
    BY <2>1, CleanHere
  <2>3. ~Own(target, s)
    BY <2>1, <2>2, NotOwn
  <2>4. hand[s].at \notin Deciding
    BY <2>1, <2>2, Decider
  <2>5. p.kind = "append"
    OBVIOUS
  <2> HIDE DEF p
  <2> QED BY <1>0, <1>1, <2>1, <2>3, <2>4, <2>5, FreeTruth DEF Deciding
<1>3. ASSUME op[s].at \in Copying \cup {"reload"}
      PROVE  ~Own(target, s) /\ hand[s].at \notin {"ok", "publish"} /\ op[s].kind = "append"
  <2>1. op[s].kind = "append"
    BY <1>0, <1>3 DEF SessionOK, OpOK, CopyOK
  <2> QED BY <1>0, <1>3, <2>1, NotOwn, Working DEF Copying
<1>4. CASE \E c \in Chunks : WriteChunk(s, c)
  <2>1. PICK c \in Chunks : WriteChunk(s, c)
    BY <1>4
  <2> DEFINE p == [op[s] EXCEPT !.at = "copied"]
             e == [disk[s] EXCEPT !.payload = Append(@, c)]
  <2>2. op[s].at = "reserved" /\ disk' = Put(disk, s, e) /\ op' = Put(op, s, p) /\ kept' = kept
    BY <2>1 DEF WriteChunk
  <2>3. p.kind = op[s].kind
    BY <1>0, OpAt DEF OpAts, Copying
  <2> HIDE DEF p, e
  <2> QED BY <1>0, <1>1, <1>3, <2>2, <2>3, FreeTruth DEF Copying
<1>5. CASE RejectChunk(s)
  <2>1. op[s].at \in Copying /\ op' = Put(op, s, NoOp)
    BY <1>5 DEF RejectChunk, Copying
  <2>2. PICK e, x : disk' = Put(disk, s, e) /\ kept' = Put(kept, s, x)
    BY <1>0, <1>5 DEF RejectChunk
  <2> QED BY <1>0, <1>1, <1>3, <2>1, <2>2, Nothing, FreeTruth
<1>6. CASE SyncChunk(s)
  <2> DEFINE n == Grown(op[s].next, disk[s].payload[op[s].next.off + 1])
             p == [at |-> "write", kind |-> "append", next |-> n]
             x == [kept[s] EXCEPT !.payload = disk[s].payload]
  <2>1. op[s].at = "copied" /\ disk' = disk /\ kept' = Put(kept, s, x) /\ op' = Put(op, s, p)
    BY <1>6 DEF SyncChunk, StartWrite
  <2>2. p.kind = "append"
    OBVIOUS
  <2> HIDE DEF n, p, x
  <2> QED BY <1>0, <1>1, <1>3, <2>1, <2>2, FreeTruth DEF Copying
<1>7. CASE Reload(s)
  <2>1. op[s].at = "reload" /\ op' = Put(op, s, NoOp)
    BY <1>7 DEF Reload
  <2>2. PICK e, x : disk' = Put(disk, s, e) /\ kept' = Put(kept, s, x)
    <3>1. \/ disk' = disk /\ kept' = kept
          \/ disk' = Put(disk, s, Loaded(disk[s])) /\ kept' = kept
          \/ disk' = Put(disk, s, Loaded(disk[s])) /\ kept' = Put(kept, s, Loaded(disk[s]))
      BY <1>7 DEF Reload, dirVars
    <3> QED BY <1>0, <3>1
  <2> QED BY <1>0, <1>1, <1>3, <2>1, <2>2, Nothing, FreeTruth
<1> QED BY <1>2, <1>4, <1>5, <1>6, <1>7

\* A state write goes on: the directory shows the old or the new state.
LEMMA CarryTruth ==
    ASSUME NEW s, NEW d, NEW k, NEW o, NEW h, NEW T, NEW g, SessionOK(d, k, o, h),
           Truth(s, d, k, o, h, T, g), o.at \in Writing,
           NEW e, Has(e) => Top(e) = o.next \/ (Has(d) /\ Top(e) = Top(d)),
           NEW x, Has(x) => Top(x) = o.next \/ (Has(k) /\ Top(x) = Top(k)),
           e.payload \in {d.payload, NoFile}, x.payload \in {d.payload, k.payload},
           NEW p, p.kind = o.kind, p.next = o.next, StartOK(e, x, p)
    PROVE  Truth(s, e, x, p, h, T, g)
<1>1. h.at # "publish" /\ o.kind # "none" /\ o.kind # "expire"
  BY Working DEF SessionOK, OpOK, WriteOK, Writing, Renamed
<1>2. Own(T, s) => /\ o.kind = "committed" /\ h.at \in {"free", "ok", "probe", "settle"}
                   /\ Came(d, k, o, e) /\ Came(d, k, o, x)
  BY <1>1 DEF Truth, OwnOK, Came
<1>3. PublishOK(e, x, h) /\ CommittedOK(e, p, T)
  BY <1>1 DEF Truth, PublishOK, CommittedOK
<1> QED BY <1>2, <1>3, TruthOn

\* It ends: nothing is recorded any more, the handler is free, fails or goes on.
LEMMA EndTruth ==
    ASSUME NEW s, NEW d, NEW k, NEW o, NEW h, NEW T, NEW g, SessionOK(d, k, o, h),
           Truth(s, d, k, o, h, T, g), o.at \in Writing,
           NEW e, Has(e) => Top(e) = o.next \/ (Has(d) /\ Top(e) = Top(d)),
           NEW x, Has(x) => Top(x) = o.next \/ (Has(k) /\ Top(x) = Top(k)),
           e.payload \in {d.payload, NoFile}, x.payload \in {d.payload, k.payload},
           NEW p, p.kind \in {"none", "append"}, p.kind = "append" => o.kind = "append",
           NEW j, j.at # "ok", PublishOK(e, x, j), h.at = "settle" => j.at = "free"
    PROVE  Truth(s, e, x, p, j, T, g)
<1>1. o.kind # "none" /\ o.kind # "expire" /\ (o.kind = "committed" => h.at = "settle")
  BY DEF SessionOK, OpOK, HandOK, WriteOK, Writing, Renamed, Decisions
<1>2. Own(T, s) => /\ o.kind = "committed" /\ h.at = "settle"
                   /\ Came(d, k, o, e) /\ Came(d, k, o, x)
  BY <1>1 DEF Truth, OwnOK, Came
<1>3. StartOK(e, x, p) /\ CommittedOK(e, p, T)
  BY DEF StartOK, CommittedOK
<1> QED BY <1>1, <1>2, <1>3, TruthOn

\* What a write under way says of the directory.
LEMMA RenamedFacts ==
    ASSUME NEW d, NEW k, NEW o, NEW h, SessionOK(d, k, o, h), o.at \in Renamed
    PROVE  HasState(d) /\ Latest(d) = o.next /\ Has(d) /\ Top(d) = o.next /\ d.pending = NoRec
<1>1. HasState(d) /\ Latest(d) = o.next /\ d.pending = NoRec
  BY DEF SessionOK, OpOK, WriteOK, Writing
<1> QED BY <1>1 DEF Has, Top

\* The rename of a state file keeps what the sessions say true.
LEMMA NameStateTruth ==
    ASSUME Inv, TruthInv, NEW s \in Sessions, NameState(s)
    PROVE  TruthInv'
<1> DEFINE d == disk[s]
           k == kept[s]
           o == op[s]
           h == hand[s]
           e == [d EXCEPT !.chain = WithState(@, o.next)]
           p == [o EXCEPT !.at = "named"]
<1>1. /\ o.at = "write" /\ disk' = Put(disk, s, e) /\ kept' = kept /\ op' = Put(op, s, p)
      /\ hand' = hand /\ target' = target /\ orig' = orig
  BY DEF NameState, fileVars
<1>2. /\ SessionOK(d, k, o, h) /\ Truth(s, d, k, o, h, target, orig[s]) /\ IsDir(d) /\ o \in Ops
      /\ kept = Put(kept, s, k) /\ hand = Put(hand, s, h)
  BY TruthHere
<1>3. WriteOK(d, k, o) /\ Follows(d, k, o)
  BY <1>1, <1>2 DEF SessionOK, OpOK, Writing
<1>4. p.at = "named" /\ p.kind = o.kind /\ p.next = o.next
  BY <1>2, OpAt DEF OpAts, Writing, Renamed
<1>5. e.payload = d.payload /\ Has(e) /\ Top(e) = o.next
  BY <1>2, <1>3, NameOK DEF WriteOK, Follows
<1> HIDE DEF d, k, o, h, e, p
<1>6. StartOK(e, k, p)
  BY <1>2, <1>4, <1>5 DEF Truth, StartOK
<1>7. Truth(s, e, k, p, h, target, orig[s])
  BY <1>1, <1>2, <1>4, <1>5, <1>6, CarryTruth DEF Writing
<1> QED BY <1>1, <1>2, <1>7, OneTruth

\* The directory sync of a state file keeps what the sessions say true.
LEMMA SyncStateTruth ==
    ASSUME Inv, TruthInv, NEW s \in Sessions, SyncState(s)
    PROVE  TruthInv'
<1> DEFINE d == disk[s]
           k == kept[s]
           o == op[s]
           h == hand[s]
           p == [o EXCEPT !.at = "compact"]
<1>1. /\ o.at \in Renamed /\ disk' = disk /\ kept' = Put(kept, s, d) /\ op' = Put(op, s, p)
      /\ hand' = hand /\ target' = target /\ orig' = orig
  BY DEF SyncState, fileVars, Renamed
<1>2. /\ SessionOK(d, k, o, h) /\ Truth(s, d, k, o, h, target, orig[s]) /\ o \in Ops
      /\ disk = Put(disk, s, d) /\ hand = Put(hand, s, h)
  BY TruthHere
<1>3. p.at = "compact" /\ p.kind = o.kind /\ p.next = o.next
  BY <1>2, OpAt DEF OpAts, Writing, Renamed
<1> HIDE DEF d, k, o, h, p
<1>4. Has(d) /\ Top(d) = o.next
  BY <1>1, <1>2, RenamedFacts
<1>5. StartOK(d, d, p)
  BY <1>2, <1>3, <1>4 DEF Truth, StartOK
<1>6. Truth(s, d, d, p, h, target, orig[s])
  BY <1>1, <1>2, <1>3, <1>4, <1>5, CarryTruth DEF Writing
<1> QED BY <1>1, <1>2, <1>6, OneTruth

\* compactStateFiles keeps what the sessions say true.
LEMMA CompactTruth ==
    ASSUME Inv, TruthInv, NEW s \in Sessions, Compact(s)
    PROVE  TruthInv'
<1> DEFINE d == disk[s]
           k == kept[s]
           o == op[s]
           h == hand[s]
<1>1. /\ o.at = "compact" /\ kept' = kept /\ hand' = hand /\ target' = target /\ orig' = orig
  BY DEF Compact, fileVars
<1>2. /\ SessionOK(d, k, o, h) /\ Truth(s, d, k, o, h, target, orig[s]) /\ o \in Ops /\ IsDir(d)
      /\ disk = Put(disk, s, d) /\ kept = Put(kept, s, k) /\ hand = Put(hand, s, h)
  BY TruthHere
<1>3. HasState(d) /\ Latest(d) = o.next /\ d.pending = NoRec /\ Has(d) /\ Top(d) = o.next
  BY <1>1, <1>2, RenamedFacts DEF Renamed
<1>4. CASE Stale(s) = {}
  <2> DEFINE p == [o EXCEPT !.at = "written"]
  <2>1. disk' = disk /\ op' = Put(op, s, p)
    BY <1>2, <1>4 DEF Compact
  <2>2. p.at = "written" /\ p.kind = o.kind /\ p.next = o.next
    BY <1>2, OpAt DEF OpAts, Writing, Renamed
  <2> HIDE DEF d, k, o, h, p
  <2>3. StartOK(d, k, p)
    BY <1>1, <1>2, <2>2 DEF Truth, StartOK
  <2>4. Truth(s, d, k, p, h, target, orig[s])
    BY <1>1, <1>2, <2>2, <2>3, CarryTruth DEF Writing, Renamed
  <2> QED BY <1>1, <1>2, <2>1, <2>4, OneTruth
<1>5. CASE Stale(s) # {}
  <2> DEFINE p == [o EXCEPT !.at = "unlinked"]
             S == Stale(s)
             n == o.next.rev
             f == [j \in DOMAIN d.chain \ {Min(S)} |-> d.chain[j]]
             e == [d EXCEPT !.chain = f]
  <2>1. disk' = Put(disk, s, e) /\ op' = Put(op, s, p)
    BY <1>5 DEF Compact, NextStale
  <2>2. p.at = "unlinked" /\ p.kind = o.kind /\ p.next = o.next
    BY <1>2, OpAt DEF OpAts, Writing, Renamed
  <2>3. IsChain(d.chain) /\ DOMAIN d.chain # {} /\ n = Max(DOMAIN d.chain)
    BY <1>2, <1>3, NewestState DEF IsDir, HasState
  <2>4. S # {} /\ S = {i \in DOMAIN d.chain : i < n - 1}
    BY <1>5 DEF Stale
  <2> HIDE DEF d, k, o, h, p, S, n
  <2>5. IsChain(f) /\ DOMAIN f # {} /\ Max(DOMAIN f) = n /\ f[n] = d.chain[n]
    BY <2>3, <2>4, CompactChain
  <2> HIDE DEF f
  <2>6. e.chain = f /\ e.payload = d.payload /\ e.pending = d.pending
    BY <1>2, <2>5, EditChain
  <2> HIDE DEF e
  <2>7. HasState(e) /\ Latest(e) = Latest(d)
    BY <2>3, <2>5, <2>6 DEF HasState, Latest
  <2>8. Has(e) /\ Top(e) = o.next
    BY <1>3, <2>6, <2>7 DEF Has, Top
  <2>9. StartOK(e, k, p)
    BY <1>1, <1>2, <2>2, <2>6 DEF Truth, StartOK
  <2>10. Truth(s, e, k, p, h, target, orig[s])
    BY <1>1, <1>2, <2>2, <2>6, <2>8, <2>9, CarryTruth DEF Writing, Renamed
  <2> QED BY <1>1, <1>2, <2>1, <2>10, OneTruth
<1> QED BY <1>4, <1>5

\* The end of writeNextState keeps what the sessions say true.
LEMMA DoneTruth ==
    ASSUME Inv, TruthInv, NEW s \in Sessions, Done(s)
    PROVE  TruthInv'
<1> DEFINE d == disk[s]
           k == kept[s]
           o == op[s]
           h == hand[s]
<1>1. /\ o.at = "written" /\ disk' = disk /\ kept' = kept /\ target' = target /\ orig' = orig
  BY DEF Done, dirVars, fileVars
<1>2. /\ SessionOK(d, k, o, h) /\ Truth(s, d, k, o, h, target, orig[s]) /\ o \in Ops
      /\ disk = Put(disk, s, d) /\ kept = Put(kept, s, k) /\ hand = Put(hand, s, h)
  BY TruthHere
<1>3. HasState(d) /\ Latest(d) = o.next /\ Has(d) /\ Top(d) = o.next
  BY <1>1, <1>2, RenamedFacts DEF Renamed
<1>4. CASE o.next.st \in Terminal
  <2> DEFINE p == [o EXCEPT !.at = "purge"]
  <2>1. op' = Put(op, s, p) /\ hand' = hand
    BY <1>4 DEF Done
  <2>2. p.at = "purge" /\ p.kind = o.kind /\ p.next = o.next
    BY <1>2, OpAt DEF OpAts, Writing, Renamed
  <2> HIDE DEF d, k, o, h, p
  <2>3. StartOK(d, k, p)
    BY <1>1, <1>2, <2>2 DEF Truth, StartOK
  <2>4. Truth(s, d, k, p, h, target, orig[s])
    BY <1>1, <1>2, <2>2, <2>3, CarryTruth DEF Writing, Renamed
  <2> QED BY <1>1, <1>2, <2>1, <2>4, OneTruth
<1>5. CASE o.next.st \notin Terminal
  <2>1. op' = Put(op, s, NoOp) /\ HandOn(s)
    BY <1>5 DEF Done
  <2>2. PICK j : hand' = Put(hand, s, j) /\ Handed(o, h, j)
    BY <1>1, <2>1, HandOnTo
  <2> HIDE DEF d, k, o, h
  <2>3. j.at = "publish" => o.kind = "start"
    BY <1>2, <2>2 DEF Handed, SessionOK, HandOK
  <2>4. PublishOK(d, k, j)
    BY <1>1, <1>2, <1>3, <2>3 DEF Truth, StartOK, PublishOK
  <2>5. j.at # "ok" /\ (h.at = "settle" => j.at = "free")
    BY <2>2 DEF Handed
  <2>6. Truth(s, d, k, NoOp, j, target, orig[s])
    BY <1>1, <1>2, <1>3, <2>4, <2>5, Nothing, EndTruth DEF Writing, Renamed
  <2> QED BY <1>1, <1>2, <2>1, <2>2, <2>6, OneTruth
<1> QED BY <1>4, <1>5

\* The unlink of a terminal payload keeps what the sessions say true.
LEMMA PurgeTruth ==
    ASSUME Inv, TruthInv, NEW s \in Sessions, PurgePayload(s)
    PROVE  TruthInv'
<1> DEFINE d == disk[s]
           k == kept[s]
           o == op[s]
           h == hand[s]
           e == [d EXCEPT !.payload = NoFile]
           p == [o EXCEPT !.at = "purged"]
<1>1. /\ o.at = "purge" /\ disk' = Put(disk, s, e) /\ kept' = kept /\ op' = Put(op, s, p)
      /\ hand' = hand /\ target' = target /\ orig' = orig
  BY DEF PurgePayload, fileVars
<1>2. /\ SessionOK(d, k, o, h) /\ Truth(s, d, k, o, h, target, orig[s]) /\ o \in Ops /\ IsDir(d)
      /\ kept = Put(kept, s, k) /\ hand = Put(hand, s, h)
  BY TruthHere
<1>3. p.at = "purged" /\ p.kind = o.kind /\ p.next = o.next
  BY <1>2, OpAt DEF OpAts, Writing, Renamed
<1>4. Has(d) /\ Top(d) = o.next
  BY <1>1, <1>2, RenamedFacts DEF Renamed
<1>5. o.kind # "start"
  BY <1>1, <1>2 DEF SessionOK, OpOK, WriteOK, Writing, Renamed, Terminal
<1> HIDE DEF d, k, o, h, p
<1>6. e.chain = d.chain /\ e.payload = NoFile /\ e.pending = d.pending
  BY <1>2, EditPayload
<1> HIDE DEF e
<1>7. Has(e) /\ Top(e) = o.next
  BY <1>4, <1>6, SameEntries
<1>8. StartOK(e, k, p)
  BY <1>3, <1>5 DEF StartOK
<1>9. Truth(s, e, k, p, h, target, orig[s])
  BY <1>1, <1>2, <1>3, <1>6, <1>7, <1>8, CarryTruth DEF Writing, Renamed
<1> QED BY <1>1, <1>2, <1>9, OneTruth

\* The sync of that unlink keeps what the sessions say true.
LEMMA SyncPurgeTruth ==
    ASSUME Inv, TruthInv, NEW s \in Sessions, SyncPurge(s)
    PROVE  TruthInv'
<1> DEFINE d == disk[s]
           k == kept[s]
           o == op[s]
           h == hand[s]
<1>1. /\ o.at = "purged" /\ disk' = disk /\ kept' = Put(kept, s, d) /\ op' = Put(op, s, NoOp)
      /\ target' = target /\ orig' = orig /\ HandOn(s)
  BY DEF SyncPurge, fileVars
<1>2. /\ SessionOK(d, k, o, h) /\ Truth(s, d, k, o, h, target, orig[s]) /\ disk = Put(disk, s, d)
  BY TruthHere
<1>3. Has(d) /\ Top(d) = o.next
  BY <1>1, <1>2, RenamedFacts DEF Renamed
<1>4. PICK j : hand' = Put(hand, s, j) /\ Handed(o, h, j)
  BY <1>1, HandOnTo
<1> HIDE DEF d, k, o, h
<1>5. h.at # "start"
  BY <1>1, <1>2 DEF SessionOK, OpOK, HandOK, WriteOK, Writing, Renamed, Terminal
<1>6. j.at # "ok" /\ j.at # "publish" /\ (h.at = "settle" => j.at = "free")
  BY <1>4, <1>5 DEF Handed
<1>7. Truth(s, d, d, NoOp, j, target, orig[s])
  BY <1>1, <1>2, <1>3, <1>6, Nothing, EndTruth DEF PublishOK, Writing, Renamed
<1> QED BY <1>1, <1>2, <1>4, <1>7, OneTruth

\* A failing state write keeps what the sessions say true.
LEMMA StateWriteFailsTruth ==
    ASSUME Inv, TruthInv, NEW s \in Sessions, StateWriteFails(s)
    PROVE  TruthInv'
<1> DEFINE d == disk[s]
           k == kept[s]
           o == op[s]
           h == hand[s]
<1>1. /\ SessionOK(d, k, o, h) /\ Truth(s, d, k, o, h, target, orig[s]) /\ o \in Ops /\ IsDir(d)
      /\ disk = Put(disk, s, d) /\ kept = Put(kept, s, k) /\ hand = Put(hand, s, h)
  BY TruthHere
<1>2. /\ o.at \in Writing \ {"written"} /\ kept' = kept /\ target' = target /\ orig' = orig
  BY <1>1 DEF StateWriteFails, Writing, Renamed, fileVars
<1>3. PICK e : /\ disk' = Put(disk, s, e) /\ e.payload = d.payload
               /\ Has(e) => Top(e) = o.next \/ (Has(d) /\ Top(e) = Top(d))
  <2>1. CASE o.at # "write" /\ disk' = disk
    BY <1>1, <2>1
  <2>2. ASSUME o.at = "write", NEW left \in {NoRec, o.next},
               disk' = Put(disk, s, [d EXCEPT !.pending = left])
        PROVE  \E e : /\ disk' = Put(disk, s, e) /\ e.payload = d.payload
                      /\ Has(e) => Top(e) = o.next \/ (Has(d) /\ Top(e) = Top(d))
    <3> DEFINE e == [d EXCEPT !.pending = left]
    <3>1. left \in Recs \cup {NoRec}
      BY <1>1, <2>2 DEF SessionOK, OpOK, WriteOK, Writing
    <3>2. IsDir(d) /\ d.pending = NoRec
      BY <1>1, <2>2 DEF SessionOK, OpOK, WriteOK, Writing
    <3> HIDE DEF d, o
    <3>3. e.chain = d.chain /\ e.payload = d.payload /\ e.pending = left
      BY <3>1, <3>2, EditPending
    <3> HIDE DEF e
    <3>4. Has(e) => Top(e) = o.next \/ (Has(d) /\ Top(e) = Top(d))
      BY <2>2, <3>2, <3>3 DEF Has, HasState, Top, Latest
    <3> QED BY <2>2, <3>3, <3>4 DEF e
  <2> QED BY <2>1, <2>2 DEF StateWriteFails
<1>4. PICK p : /\ op' = Put(op, s, p) /\ p.kind \in {"none", "append"}
               /\ p.kind = "append" => o.kind = "append"
  <2>1. [NoOp EXCEPT !.at = "uncreate"].kind = "none"
    BY Nothing, OpAt DEF OpAts
  <2>2. [o EXCEPT !.at = "reload"].kind = o.kind
    BY <1>1, OpAt DEF OpAts
  <2>3. CASE o.kind = "create"
    BY <2>1, <2>3 DEF StateWriteFails
  <2>4. CASE o.kind = "append"
    BY <2>2, <2>4 DEF StateWriteFails
  <2>5. CASE o.kind \notin {"create", "append"}
    BY <2>5, Nothing DEF StateWriteFails
  <2> QED BY <2>3, <2>4, <2>5
<1>5. PICK j : /\ hand' = Put(hand, s, j) /\ j.at \notin {"ok", "publish"}
               /\ h.at = "settle" => j.at = "free"
  <2>1. h.at \notin {"ok", "publish"} /\ (h.at = "settle" => o.kind \notin {"create", "append"})
    BY <1>1, <1>2, Working DEF SessionOK, HandOK, Writing, Renamed, Decisions
  <2>2. CASE o.kind \in {"create", "append"}
    <3>1. hand' = hand
      BY <2>2 DEF StateWriteFails
    <3> QED BY <1>1, <2>1, <2>2, <3>1
  <2>3. CASE o.kind \notin {"create", "append"}
    <3>1. HandFails(s)
      BY <2>3 DEF StateWriteFails
    <3>2. [NoHand EXCEPT !.at = "failed"].at = "failed"
      BY HandMade DEF Deciding
    <3> QED BY <3>1, <3>2, Nothing DEF HandFails
  <2> QED BY <2>2, <2>3
<1> HIDE DEF d, k, o, h
<1>6. PublishOK(e, k, j)
  BY <1>5 DEF PublishOK
<1>7. Truth(s, e, k, p, j, target, orig[s])
  BY <1>1, <1>2, <1>3, <1>4, <1>5, <1>6, EndTruth
<1> QED BY <1>1, <1>2, <1>3, <1>4, <1>5, <1>7, OneTruth

\* The directory goes away, or is about to.
LEMMA GoneTruth ==
    ASSUME NEW s, NEW d, NEW k, NEW o, NEW h, NEW T, NEW g, Truth(s, d, k, o, h, T, g),
           h.at \notin {"ok", "publish"}, NEW p, p.kind \in {"none", "expire"},
           NEW e \in {d, NoDir}, NEW x \in {k, NoDir}
    PROVE  Truth(s, e, x, p, h, T, g)
<1>1. Came(d, k, o, e) /\ Came(d, k, o, x)
  BY NoDirOK DEF Came
<1>2. Own(T, s) => h.at \in {"free", "ok", "probe", "settle"}
  BY DEF Truth, OwnOK
<1>3. StartOK(e, x, p) /\ PublishOK(e, x, h) /\ CommittedOK(e, p, T)
  BY DEF StartOK, PublishOK, CommittedOK
<1>4. NoDir.payload = NoFile
  BY NoDirOK
<1> QED BY <1>1, <1>2, <1>3, <1>4, TruthOn

\* Removing a directory keeps what the sessions say true.
LEMMA RemovalTruth ==
    ASSUME Inv, TruthInv, NEW s \in Sessions, ~TornRemoval,
           UndoCreate(s) \/ RemoveDir(s) \/ SyncRemoval(s)
    PROVE  TruthInv'
<1> DEFINE d == disk[s]
           k == kept[s]
           o == op[s]
           h == hand[s]
<1>1. /\ SessionOK(d, k, o, h) /\ Truth(s, d, k, o, h, target, orig[s])
      /\ disk = Put(disk, s, d) /\ kept = Put(kept, s, k) /\ op = Put(op, s, o) /\ hand = Put(hand, s, h)
  BY TruthHere
<1>2. /\ o.at \in {"uncreate", "remove"} /\ hand' = hand /\ target' = target /\ orig' = orig
      /\ disk' = disk \/ disk' = Put(disk, s, NoDir)
      /\ kept' = kept \/ kept' = Put(kept, s, NoDir)
      /\ op' = op \/ op' = Put(op, s, NoOp)
  BY DEF UndoCreate, RemoveDir, SyncRemoval, Remnants, jobVars, fileVars
<1>3. o.kind \in {"none", "expire"} /\ h.at \notin {"ok", "publish"}
  BY <1>1, <1>2, Working DEF SessionOK, OpOK
<1>4. PICK e \in {d, NoDir} : disk' = Put(disk, s, e)
  BY <1>1, <1>2
<1>5. PICK x \in {k, NoDir} : kept' = Put(kept, s, x)
  BY <1>1, <1>2
<1>6. PICK p : op' = Put(op, s, p) /\ p.kind \in {"none", "expire"}
  BY <1>1, <1>2, <1>3, Nothing
<1> HIDE DEF d, k, o, h
<1>7. Truth(s, e, x, p, h, target, orig[s])
  BY <1>1, <1>3, <1>6, GoneTruth
<1> QED BY <1>1, <1>2, <1>4, <1>5, <1>6, <1>7, OneTruth

\* The second look of CleanupExpired keeps what the sessions say true.
LEMMA VisitListedTruth ==
    ASSUME Inv, TruthInv, NEW s \in Sessions, VisitListed(s)
    PROVE  TruthInv'
<1> DEFINE d == disk[s]
           k == kept[s]
           o == op[s]
           h == hand[s]
           p == [at |-> "remove", kind |-> "expire", next |-> NoRec]
<1>1. /\ SessionOK(d, k, o, h) /\ Truth(s, d, k, o, h, target, orig[s])
      /\ disk = Put(disk, s, d) /\ kept = Put(kept, s, k) /\ op = Put(op, s, o) /\ hand = Put(hand, s, h)
  BY TruthHere
<1>2. disk' = disk /\ kept' = kept /\ hand' = hand /\ target' = target /\ orig' = orig
  BY DEF VisitListed, dirVars, fileVars
<1>3. CASE Clean(s) /\ StillExpired(s)
  <2>1. op' = Put(op, s, p) /\ p.kind = "expire"
    BY <1>3 DEF VisitListed
  <2>2. Has(d) /\ Top(d).st # "committing"
    BY <1>3, CleanHere DEF StillExpired, Expired
  <2>3. h.at \notin {"ok", "publish"}
    BY <1>1, <2>2 DEF SessionOK, HandOK, Deciding
  <2> HIDE DEF d, k, o, h, p
  <2>4. Truth(s, d, k, p, h, target, orig[s])
    BY <1>1, <2>1, <2>3, GoneTruth
  <2> QED BY <1>1, <1>2, <2>1, <2>4, OneTruth
<1>4. CASE ~(Clean(s) /\ StillExpired(s))
  <2>1. op' = op
    BY <1>4 DEF VisitListed
  <2> HIDE DEF d, k, o, h
  <2> QED BY <1>1, <1>2, <2>1, OneTruth
<1> QED BY <1>3, <1>4

\* Loading cuts nothing off a payload that ends at the durable offset.
LEMMA LoadedWhole ==
    ASSUME NEW d, Sound(d), Has(d), Top(d).st \in Active, Len(d.payload) = Top(d).off
    PROVE  Loaded(d).payload = d.payload
<1> DEFINE q == Loaded(d).payload
<1>1. q \in Payloads /\ Len(q) = Top(d).off /\ \A i \in 1..Top(d).off : q[i] = d.payload[i]
  BY LoadedOK DEF Sound
<1>2. d.payload \in Payloads
  BY PayloadLen DEF Sound, DirOK
<1> HIDE DEF q
<1>3. q = d.payload
  BY <1>1, <1>2, SeqEqual DEF Payloads
<1> QED BY <1>3 DEF q

\* Loading an idle session.
LEMMA LoadedTruth ==
    ASSUME NEW s, NEW d, NEW k, NEW o, NEW h, NEW T, NEW g, SessionOK(d, k, o, h),
           Truth(s, d, k, o, h, T, g), o.at = "idle", Has(d)
    PROVE  Truth(s, Loaded(d), Loaded(d), o, h, T, g)
<1> DEFINE e == Loaded(d)
<1>1. Sound(d) /\ o.kind = "none" /\ Top(d) \in Recs /\ ValidRec(Top(d))
  BY SessionSound, TopOK DEF SessionOK, OpOK, Sound
<1>2. Has(e) /\ Top(e) = Top(d) /\ (Top(d).st \in Terminal => e.payload = NoFile)
  BY <1>1, LoadedOK DEF Sound
<1>3. Own(T, s) => e.payload \in {d.payload, NoFile}
  <2> SUFFICES ASSUME Own(T, s), Top(d).st \notin Terminal PROVE e.payload = d.payload
    BY <1>2
  <2>1. Top(d).st = "committing" /\ d.payload # NoFile
    BY <1>1 DEF Truth, OwnOK, Told, Terminal, Sound, Active
  <2>2. Len(d.payload) = Total /\ Top(d).off = Total
    BY <1>1, <2>1 DEF Truth, OwnOK, SameBytes, ValidRec
  <2> QED BY <1>1, <2>1, <2>2, LoadedWhole DEF Active
<1>4. PublishOK(e, e, h)
  <2> SUFFICES ASSUME h.at = "publish" PROVE PublishOK(e, e, h)
    BY DEF PublishOK
  <2>1. Top(d).st = "committing" /\ Len(d.payload) = Top(d).off /\ Top(d).started
    BY DEF Truth, PublishOK, SessionOK, HandOK, Deciding
  <2>2. e.payload = d.payload
    BY <1>1, <2>1, LoadedWhole DEF Active
  <2> HIDE DEF e
  <2> QED BY <1>2, <2>1, <2>2 DEF PublishOK
<1>5. StartOK(e, e, o) /\ CommittedOK(e, o, T)
  BY <1>1 DEF StartOK, CommittedOK
<1>6. Came(d, k, o, e)
  BY <1>2 DEF Came
<1>7. Own(T, s) => o.kind \in {"none", "committed", "expire"} /\ h.at \in {"free", "ok", "probe", "settle"}
  BY DEF Truth, OwnOK
<1> HIDE DEF e
<1>8. Truth(s, e, e, o, h, T, g)
  BY <1>3, <1>4, <1>5, <1>6, <1>7, TruthOn
<1> QED BY <1>8 DEF e

\* loadSession keeps what the sessions say true.
LEMMA LoadTruth ==
    ASSUME Inv, TruthInv, NEW s \in Sessions, Load(s)
    PROVE  TruthInv'
<1> DEFINE d == disk[s]
           k == kept[s]
           o == op[s]
           h == hand[s]
           e == Loaded(d)
<1>1. /\ SessionOK(d, k, o, h) /\ Truth(s, d, k, o, h, target, orig[s]) /\ DirOK(d)
      /\ kept = Put(kept, s, k) /\ op = Put(op, s, o) /\ hand = Put(hand, s, h)
  BY TruthHere, Here
<1>2. /\ o.at = "idle" /\ disk' = Put(disk, s, e) /\ kept' = (IF e = d THEN kept ELSE Put(kept, s, e))
      /\ op' = op /\ hand' = hand /\ target' = target /\ orig' = orig /\ HasState(Promote(d))
  BY DEF Load, jobVars, Idle, fileVars
<1>3. Has(d)
  BY <1>1, <1>2, PromoteOK
<1>4. Truth(s, e, e, o, h, target, orig[s])
  BY <1>1, <1>2, <1>3, LoadedTruth
<1> HIDE DEF d, k, o, h, e
<1>5. CASE e = d
  BY <1>1, <1>2, <1>5, OneTruth
<1>6. CASE e # d
  BY <1>1, <1>2, <1>4, <1>6, OneTruth
<1> QED BY <1>5, <1>6

\* The session's directories and operation at an idle position.
LEMMA IdleTruth ==
    ASSUME Inv, NEW s \in Sessions, op[s].at = "idle"
    PROVE  op[s].kind = "none" /\ hand[s].at \notin {"begin", "start", "settle", "cancel"}
BY Here DEF SessionOK, OpOK, HandOK, Decisions

\* A new session remembers a target that is not its own.
LEMMA CreateTruth ==
    ASSUME Inv, AckInv, TargetOK, TruthInv, NEW s \in Sessions, Create(s)
    PROVE  TruthInv'
<1> DEFINE e == [NoDir EXCEPT !.payload = <<>>]
           n == [rev |-> 1, st |-> "uploading", off |-> 0, last |-> NoRec, started |-> FALSE]
           p == [at |-> "write", kind |-> "create", next |-> n]
<1>1. /\ disk[s] = NoDir /\ orig[s] = NoRec /\ orig' = Put(orig, s, target) /\ target' = target /\ hand' = hand
      /\ disk' = Put(disk, s, e) /\ kept' = Put(kept, s, disk'[s]) /\ op' = Put(op, s, p)
  BY DEF Create, StartWrite
<1>2. hand[s].at \notin {"ok", "publish"}
  BY <1>1, Decider, NoDirOK DEF Deciding
<1>3. p.kind = "create"
  OBVIOUS
<1>4. ~Own(target, s)
  BY <1>1, TruthHere DEF Truth
<1>5. target \in Files \cup {Absent, NoRec} /\ (target \in Files => target.by # s)
  BY <1>4, AbsentAssumption DEF TargetOK, Own
<1> HIDE DEF e, p, n
<1>6. Truth(s, e, e, p, hand[s], target, target)
  BY <1>2, <1>3, <1>4, <1>5 DEF Truth, StartOK, PublishOK, CommittedOK
<1>7. /\ disk'[s] = e /\ kept'[s] = e /\ op'[s] = p /\ orig'[s] = target
      /\ \A t \in Sessions : t # s => /\ disk'[t] = disk[t] /\ kept'[t] = kept[t] /\ op'[t] = op[t]
                                      /\ orig'[t] = orig[t]
  <2>1. disk'[s] = e /\ \A t \in Sessions : t # s => disk'[t] = disk[t]
    BY <1>1, PutAt DEF Inv, Maps
  <2>2. kept'[s] = disk'[s] /\ \A t \in Sessions : t # s => kept'[t] = kept[t]
    BY <1>1, PutAt DEF Inv, Maps
  <2>3. op'[s] = p /\ \A t \in Sessions : t # s => op'[t] = op[t]
    BY <1>1, PutAt DEF Inv, Maps
  <2>4. orig'[s] = target /\ \A t \in Sessions : t # s => orig'[t] = orig[t]
    BY <1>1, PutAt DEF AckInv
  <2> QED BY <2>1, <2>2, <2>3, <2>4
<1>8. ASSUME NEW t \in Sessions
      PROVE  Truth(t, disk'[t], kept'[t], op'[t], hand'[t], target', orig'[t])
  BY <1>1, <1>6, <1>7 DEF TruthInv
<1> QED BY <1>8 DEF TruthInv

\* A step of a handler of a session whose payload is not at the target.
LEMMA HandTruth ==
    ASSUME Inv, TruthInv, NEW s \in Sessions, ~Own(target, s), NEW p, NEW j,
           disk' = disk, kept' = kept, op' = Put(op, s, p), hand' = Put(hand, s, j),
           target' = target, orig' = orig,
           p.kind \notin {"start", "committed"}, j.at \notin {"ok", "publish"}
    PROVE  TruthInv'
<1>1. disk' = Put(disk, s, disk[s]) /\ kept' = Put(kept, s, kept[s])
  BY Unput
<1> QED BY <1>1, FreeTruth

\* BeginCommit and Cancel keeps what the sessions say true.
LEMMA BeginTruth ==
    ASSUME Inv, TruthInv, NEW s \in Sessions, Commit(s) \/ Cancel(s)
    PROVE  TruthInv'
<1>1. Clean(s) /\ Rec(s).st \in {"uploading", "ready"}
  BY DEF Commit, Cancel, Open
<1>2. ~Own(target, s)
  BY <1>1, CleanHere, NotOwn
<1>3. disk' = disk /\ kept' = kept /\ target' = target /\ orig' = orig
  BY DEF Commit, Cancel, dirVars, fileVars
<1>4. PICK p, j : /\ op' = Put(op, s, p) /\ hand' = Put(hand, s, j)
                  /\ p.kind \in {"begin", "cancelled"} /\ j.at \in {"begin", "cancel"}
  <2>1. CASE Commit(s)
    <3> DEFINE p == [at |-> "write", kind |-> "begin", next |-> Turned(Rec(s), "committing", FALSE)]
               j == [NoHand EXCEPT !.at = "begin"]
    <3>1. op' = Put(op, s, p) /\ hand' = Put(hand, s, j) /\ p.kind = "begin" /\ j.at = "begin"
      BY <2>1 DEF Commit, StartWrite, NoHand
    <3> QED BY <3>1
  <2>2. CASE Cancel(s)
    <3> DEFINE p == [at |-> "write", kind |-> "cancelled", next |-> Turned(Rec(s), "cancelled", Rec(s).started)]
               j == [NoHand EXCEPT !.at = "cancel"]
    <3>1. op' = Put(op, s, p) /\ hand' = Put(hand, s, j) /\ p.kind = "cancelled" /\ j.at = "cancel"
      BY <2>2 DEF Cancel, StartWrite, NoHand
    <3> QED BY <3>1
  <2> QED BY <2>1, <2>2
<1> QED BY <1>2, <1>3, <1>4, HandTruth

\* OpenPayload and admission keeps what the sessions say true.
LEMMA AdmitTruth ==
    ASSUME Inv, TruthInv, NEW s \in Sessions, Admit(s)
    PROVE  TruthInv'
<1>1. /\ hand[s].at = "open" /\ op[s].at = "idle" /\ disk' = disk /\ kept' = kept /\ op' = op
      /\ target' = target /\ orig' = orig
  BY DEF Admit, Idle, dirVars, fileVars
<1>2. PICK to \in {"rollback", "opened", "resolve"} : hand' = Put(hand, s, [NoHand EXCEPT !.at = to])
  BY DEF Admit
<1> DEFINE j == [NoHand EXCEPT !.at = to]
<1>3. j.at = to
  BY DEF NoHand
<1>4. ~Own(target, s) /\ op[s].kind = "none" /\ op' = Put(op, s, op[s])
  BY <1>1, NotOwn, IdleTruth, Unput
<1> HIDE DEF j
<1> QED BY <1>1, <1>2, <1>3, <1>4, HandTruth DEF j

\* The shape of a decision.
LEMMA Resolving ==
    ASSUME Inv, NEW s \in Sessions, NEW st, Resolve(s, st)
    PROVE  \E p, j : /\ op' = Put(op, s, p) /\ hand' = Put(hand, s, j) /\ p.kind = st /\ p.at = "write"
                     /\ p.next = Turned(Rec(s), st, Rec(s).started /\ st # "ready")
                     /\ j.at = "settle"
<1> DEFINE n == Turned(Rec(s), st, Rec(s).started /\ st # "ready")
           p == [at |-> "write", kind |-> st, next |-> n]
           j == [hand[s] EXCEPT !.at = "settle"]
<1>1. op' = Put(op, s, p) /\ hand' = Put(hand, s, j)
  BY DEF Resolve, StartWrite
<1>2. j.at = "settle"
  BY Here, HandAt DEF Asked
<1> HIDE DEF n
<1>3. p.kind = st /\ p.at = "write" /\ p.next = n
  OBVIOUS
<1> HIDE DEF p, j
<1> QED BY <1>1, <1>2, <1>3 DEF n

\* A decision against the session, whose payload is not at the target.
LEMMA RefusedTruth ==
    ASSUME Inv, TruthInv, NEW s \in Sessions, NEW st \in {"ready", "conflict"}, Resolve(s, st), ~Own(target, s),
           disk' = disk, kept' = kept, target' = target, orig' = orig
    PROVE  TruthInv'
<1>1. PICK p, j : op' = Put(op, s, p) /\ hand' = Put(hand, s, j) /\ p.kind = st /\ j.at = "settle"
  BY Resolving
<1> QED BY <1>1, HandTruth

\* Success is recorded of a target with the session's bytes.
LEMMA CommittedTruth ==
    ASSUME Inv, TruthInv, NEW s \in Sessions, Resolve(s, "committed"), hand[s].at \in Deciding,
           target # Absent, disk[s].payload = target.body,
           disk' = disk, kept' = kept, target' = target, orig' = orig
    PROVE  TruthInv'
<1> DEFINE d == disk[s]
           k == kept[s]
           o == op[s]
           h == hand[s]
<1>1. PICK p, j : /\ op' = Put(op, s, p) /\ hand' = Put(hand, s, j) /\ p.kind = "committed" /\ j.at = "settle"
                  /\ p.next = Turned(Rec(s), "committed", Rec(s).started /\ "committed" # "ready")
  BY Resolving
<1>2. /\ Truth(s, d, k, o, h, target, orig[s]) /\ disk' = Put(disk, s, d) /\ kept' = Put(kept, s, k)
  BY TruthHere
<1>3. p.next.st = "committed"
  BY <1>1 DEF Turned
<1>4. StartOK(d, k, p) /\ PublishOK(d, k, j) /\ CommittedOK(d, p, target)
  BY <1>1, <1>3 DEF StartOK, PublishOK, CommittedOK
<1> HIDE DEF d, k, o, h
<1>5. Came(d, k, o, d) /\ Came(d, k, o, k)
  BY DEF Came
<1>6. Truth(s, d, k, p, j, target, orig[s])
  BY <1>1, <1>2, <1>4, <1>5, TruthOn
<1> QED BY <1>1, <1>2, <1>6, OneTruth

\* A handler lets go, or takes up the question.
LEMMA LetGoTruth ==
    ASSUME Inv, TruthInv, NEW s \in Sessions, NEW j, hand' = Put(hand, s, j), j.at \in {"free", "probe"},
           op[s].at = "idle", disk' = disk, kept' = kept, op' = op, target' = target, orig' = orig
    PROVE  TruthInv'
<1> DEFINE d == disk[s]
           k == kept[s]
           o == op[s]
           h == hand[s]
<1>1. /\ Truth(s, d, k, o, h, target, orig[s]) /\ disk' = Put(disk, s, d) /\ kept' = Put(kept, s, k)
      /\ op' = Put(op, s, o)
  BY TruthHere
<1>2. o.kind = "none"
  BY IdleTruth
<1>3. StartOK(d, k, o) /\ PublishOK(d, k, j) /\ CommittedOK(d, o, target)
  BY <1>2 DEF StartOK, PublishOK, CommittedOK
<1> HIDE DEF d, k, o, h
<1>4. Came(d, k, o, d) /\ Came(d, k, o, k)
  BY DEF Came
<1>5. Truth(s, d, k, o, j, target, orig[s])
  BY <1>1, <1>2, <1>3, <1>4, TruthOn
<1> QED BY <1>1, <1>5, OneTruth

\* A commit given up before publication keeps what the sessions say true.
LEMMA WithdrawTruth ==
    ASSUME Inv, TruthInv, NEW s \in Sessions, Withdraw(s)
    PROVE  TruthInv'
<1> DEFINE st == IF hand[s].at = "rollback" \/ Original(s, target) THEN "ready" ELSE "conflict"
<1>1. /\ hand[s].at \in {"rollback", "resolve"} /\ Resolve(s, st) /\ st \in {"ready", "conflict"}
      /\ disk' = disk /\ kept' = kept /\ target' = target /\ orig' = orig
  BY DEF Withdraw, dirVars, fileVars
<1>2. ~Own(target, s)
  BY <1>1, NotOwn
<1> HIDE DEF st
<1> QED BY <1>1, <1>2, RefusedTruth

\* MarkPublicationStarted keeps what the sessions say true.
LEMMA StartPublicationTruth ==
    ASSUME Inv, TruthInv, NEW s \in Sessions, StartPublication(s)
    PROVE  TruthInv'
<1> DEFINE d == disk[s]
           k == kept[s]
           n == Turned(Rec(s), Rec(s).st, TRUE)
           p == [at |-> "write", kind |-> "start", next |-> n]
           j == [NoHand EXCEPT !.at = "start"]
<1>1. /\ hand[s].at = "opened" /\ Clean(s) /\ op' = Put(op, s, p) /\ hand' = Put(hand, s, j)
      /\ disk' = Put(disk, s, d) /\ kept' = Put(kept, s, k) /\ target' = target /\ orig' = orig
  BY Unput DEF StartPublication, StartWrite, dirVars, fileVars
<1>2. ~Own(target, s) /\ Truth(s, d, k, op[s], hand[s], target, orig[s])
  BY <1>1, NotOwn, TruthHere
<1>3. HasState(d) /\ Loaded(d) = d /\ Sound(d) /\ Rec(s) = Latest(d) /\ Latest(d).st = "committing"
  BY <1>1, CleanHere, Decider DEF Deciding
<1>4. Len(d.payload) = Latest(d).off
  BY <1>3, CleanFacts DEF Active
<1>5. n.started /\ n.off = Rec(s).off
  BY DEF Turned
<1> HIDE DEF n
<1>6. p.kind = "start" /\ p.at = "write" /\ p.next = n
  OBVIOUS
<1>7. j.at = "start"
  BY DEF NoHand
<1> HIDE DEF d, k, p, j
<1>8. StartOK(d, k, p) /\ PublishOK(d, k, j) /\ CommittedOK(d, p, target)
  BY <1>3, <1>4, <1>5, <1>6, <1>7 DEF StartOK, PublishOK, CommittedOK
<1>9. Truth(s, d, k, p, j, target, orig[s])
  BY <1>2, <1>7, <1>8 DEF Truth
<1> QED BY <1>1, <1>9, OneTruth

\* A session that owns the target, with the directory loading leaves: the bytes are there.
LEMMA OwnBytes ==
    ASSUME Inv, TruthInv, NEW s \in Sessions, Own(target, s), hand[s].at \in Deciding
    PROVE  Top(disk[s]).started /\ disk[s].payload = target.body
<1>1. Has(disk[s]) /\ Top(disk[s]).st = "committing"
  BY Decider
<1>2. disk[s].payload # NoFile
  BY <1>1, Here DEF SessionOK, PayloadOK, Active
<1> QED BY <1>1, <1>2, TruthHere DEF Truth, OwnOK, Told, SameBytes

\* The decision after the write keeps what the sessions say true.
LEMMA DecideTruth ==
    ASSUME Inv, TruthInv, NEW s \in Sessions, Decide(s)
    PROVE  TruthInv'
<1>1. /\ hand[s].at \in Deciding /\ disk' = disk /\ kept' = kept /\ target' = target /\ orig' = orig
  BY DEF Decide, Deciding, dirVars, fileVars
<1>2. CASE hand[s].at = "ok"
  <2>1. Own(target, s)
    BY <1>2, TruthHere DEF Truth
  <2>2. CASE Resolve(s, "committed")
    BY <1>1, <2>1, <2>2, OwnBytes, CommittedTruth DEF Own
  <2>3. CASE hand' = Put(hand, s, NoHand) /\ op' = op
    BY <1>1, <2>3, Decider, Nothing, LetGoTruth
  <2> QED BY <1>2, <2>2, <2>3 DEF Decide
<1>3. CASE hand[s].at \in {"conflict", "failed"}
  <2> DEFINE st == IF hand[s].at = "failed" /\ Original(s, target) THEN "ready" ELSE "conflict"
  <2>1. Resolve(s, st) /\ st \in {"ready", "conflict"} /\ ~Own(target, s)
    BY <1>3, NotOwn DEF Decide
  <2> HIDE DEF st
  <2> QED BY <1>1, <2>1, RefusedTruth
<1> QED BY <1>2, <1>3 DEF Decide

\* The evidence of a reconciliation keeps what the sessions say true.
LEMMA ReconcileTruth ==
    ASSUME Inv, TruthInv, NEW s \in Sessions, Reconcile(s)
    PROVE  TruthInv'
<1> DEFINE j == [at |-> "probe", ev |-> target]
<1>1. /\ op[s].at = "idle" /\ hand' = Put(hand, s, j) /\ j.at = "probe"
      /\ disk' = disk /\ kept' = kept /\ op' = op /\ target' = target /\ orig' = orig
  BY DEF Reconcile, Open, Idle, dirVars, fileVars
<1> HIDE DEF j
<1> QED BY <1>1, LetGoTruth

\* Reconciliation takes no published payload for a conflict, and finds success only where
\* the bytes are.
LEMMA SettleTruth ==
    ASSUME Inv, TargetOK, TruthInv, NEW s \in Sessions, Settle(s)
    PROVE  TruthInv'
<1>1. /\ hand[s].at = "probe" /\ hand[s].at \in Deciding
      /\ disk' = disk /\ kept' = kept /\ target' = target /\ orig' = orig
  BY DEF Settle, Deciding, dirVars, fileVars
<1>2. CASE target = hand[s].ev /\ Resolve(s, Verdict(s, hand[s].ev))
  <2> DEFINE st == Verdict(s, target)
  <2>1. Resolve(s, st) /\ Clean(s)
    BY <1>2 DEF Resolve
  <2>2. CASE st = "committed"
    <3>1. target # Absent /\ disk[s].payload = target.body
      BY <2>2 DEF Verdict, ContentMatches
    <3> QED BY <1>1, <2>1, <2>2, <3>1, CommittedTruth
  <2>3. CASE st # "committed"
    <3>1. st \in {"ready", "conflict"}
      BY <2>3 DEF Verdict
    <3>2. ~Own(target, s)
      <4> SUFFICES ASSUME Own(target, s) PROVE FALSE
        OBVIOUS
      <4>1. target \in Files /\ target.by = s
        BY DEF TargetOK, Own
      <4>2. orig[s] # target
        BY <4>1, TruthHere DEF Truth
      <4>3. Rec(s).started /\ disk[s].payload = target.body /\ target # Absent
        BY <1>1, <2>1, OwnBytes, CleanHere DEF Own
      <4> QED BY <2>3, <4>2, <4>3 DEF Verdict, Original, ContentMatches
    <3> HIDE DEF st
    <3> QED BY <1>1, <2>1, <3>1, <3>2, RefusedTruth
  <2> QED BY <2>2, <2>3
<1>3. CASE hand' = Put(hand, s, NoHand) /\ op' = op
  BY <1>1, <1>3, Decider, Nothing, LetGoTruth
<1> QED BY <1>2, <1>3 DEF Settle

-----------------------------------------------------------------------------
(* Changes of the target                                                    *)

\* Somebody else's file is put there, and nobody is about to answer or record success.
LEMMA ReplacedTruth ==
    ASSUME NEW s, NEW d, NEW k, NEW o, NEW h, NEW T, NEW g, Truth(s, d, k, o, h, T, g),
           NEW U, ~Own(U, s), h.at # "ok", o.kind # "committed"
    PROVE  Truth(s, d, k, o, h, U, g)
BY DEF Truth, CommittedOK

\* The session's own payload is put there.
LEMMA PublishedTruth ==
    ASSUME Inv, AckInv, TargetOK, TruthInv, NEW s \in Sessions, hand[s].at = "publish",
           NEW o, o.kind = "none", NEW j, j.at \in {"free", "ok"}
    PROVE  Truth(s, disk[s], kept[s], o, j, Mine(s), orig[s])
<1> DEFINE d == disk[s]
           k == kept[s]
           T == Mine(s)
<1>1. Has(d) /\ Top(d).st = "committing"
  BY Decider DEF Deciding
<1>2. Truth(s, d, k, op[s], hand[s], target, orig[s]) /\ SessionOK(d, k, op[s], hand[s])
  BY TruthHere
<1>3. /\ Has(k) /\ Top(k) = Top(d) /\ Top(d).started
      /\ k.payload = d.payload /\ Len(d.payload) = Top(d).off
  BY <1>2 DEF Truth, PublishOK
<1>4. ValidRec(Top(d)) /\ d.payload # NoFile /\ IsDir(d)
  BY <1>1, <1>2, TopOK DEF SessionOK, PayloadOK, Active, DirOK
<1>5. d.payload \in Payloads /\ Len(d.payload) = Total
  BY <1>1, <1>3, <1>4, PayloadLen DEF ValidRec
<1>6. T.by = s /\ T.body = d.payload
  BY DEF Mine
<1>7. T # Absent
  BY MineOK, AbsentAssumption DEF Deciding
<1>8. orig[s] # NoRec
  BY <1>1, AckHere DEF Keeps
<1> HIDE DEF d, k, T
<1>9. OwnOK(d, k, o, j, T.body)
  BY <1>1, <1>3, <1>5, <1>6 DEF OwnOK, Told, SameBytes
<1>10. StartOK(d, k, o) /\ PublishOK(d, k, j) /\ CommittedOK(d, o, T)
  BY DEF StartOK, PublishOK, CommittedOK
<1>11. Own(T, s)
  BY <1>6, <1>7 DEF Own
<1>12. Truth(s, d, k, o, j, T, orig[s])
  BY <1>2, <1>8, <1>9, <1>10, <1>11 DEF Truth
<1> QED BY <1>12 DEF d, k, T

\* Nobody at a position of the leases is about to answer or record success.
LEMMA Bystander ==
    ASSUME Inv, LeaseOne, NEW s \in Sessions, NEW t \in Sessions, t # s, hand[s].at \in LeaseSteps
    PROVE  hand[t].at # "ok" /\ op[t].kind # "committed"
<1>1. hand[t].at \notin LeaseSteps
  BY DEF LeaseOne
<1>2. op[t].kind = "committed" => hand[t].at = "settle"
  BY Here DEF SessionOK, HandOK, Decisions
<1> QED BY <1>1, <1>2 DEF LeaseSteps

\* The payload of one session is not that of another.
LEMMA NotMine ==
    ASSUME NEW s \in Sessions, NEW t \in Sessions, t # s
    PROVE  ~Own(Mine(s), t)
BY DEF Own, Mine

\* WriteFileIfUnchanged keeps what the sessions say true.
LEMMA PublishTruth ==
    ASSUME Inv, AckInv, TargetOK, TruthInv, LeaseOne, NEW s \in Sessions, Publish(s)
    PROVE  TruthInv'
<1>1. /\ hand[s].at = "publish" /\ op[s].at = "idle" /\ disk' = disk /\ kept' = kept /\ op' = op /\ orig' = orig
  BY DEF Publish, Idle, dirVars
<1>2. PICK to \in {"ok", "failed", "conflict", "free"} :
        /\ hand' = Put(hand, s, [NoHand EXCEPT !.at = to])
        /\ \/ target' = Mine(s) /\ to \in {"ok", "free"}
           \/ target' = target /\ to # "ok"
  BY DEF Publish
<1> DEFINE j == [NoHand EXCEPT !.at = to]
<1>3. j.at = to /\ op[s].kind = "none" /\ op' = Put(op, s, op[s]) /\ hand' = Put(hand, s, j)
  BY <1>1, <1>2, IdleTruth, Unput DEF NoHand
<1> HIDE DEF j
<1>4. CASE target' = target /\ to # "ok"
  <2>1. ~Own(target, s)
    BY <1>1, NotOwn
  <2> QED BY <1>1, <1>2, <1>3, <1>4, <2>1, HandTruth
<1>5. CASE target' = Mine(s) /\ to \in {"ok", "free"}
  <2>1. hand'[s] = j /\ \A t \in Sessions : t # s => hand'[t] = hand[t]
    BY <1>3, PutAt DEF Inv, Maps
  <2>2. Truth(s, disk[s], kept[s], op[s], j, Mine(s), orig[s])
    BY <1>1, <1>3, <1>5, PublishedTruth
  <2>3. ASSUME NEW t \in Sessions, t # s
        PROVE  Truth(t, disk[t], kept[t], op[t], hand[t], Mine(s), orig[t])
    <3>1. hand[s].at \in LeaseSteps
      BY <1>1 DEF LeaseSteps
    <3> QED BY <2>3, <3>1, Bystander, NotMine, ReplacedTruth, TruthHere
  <2>4. ASSUME NEW t \in Sessions
        PROVE  Truth(t, disk'[t], kept'[t], op'[t], hand'[t], target', orig'[t])
    BY <1>1, <1>5, <2>1, <2>2, <2>3
  <2> QED BY <2>4 DEF TruthInv
<1> QED BY <1>2, <1>4, <1>5

\* A change of the target by somebody else keeps what the sessions say true.
LEMMA OtherChangesTruth ==
    ASSUME Inv, TruthInv, OtherChanges
    PROVE  TruthInv'
<1>1. /\ disk' = disk /\ kept' = kept /\ op' = op /\ hand' = hand /\ orig' = orig
      /\ target' = Absent \/ target' = UserFile(other')
      /\ \A s \in Sessions : hand[s].at \notin {"ok", "settle"}
  BY DEF OtherChanges, dirVars, jobVars, LeaseSteps
<1>2. ASSUME NEW s \in Sessions
      PROVE  Truth(s, disk[s], kept[s], op[s], hand[s], target', orig[s])
  <2>1. op[s].kind # "committed"
    BY <1>1, Here DEF SessionOK, HandOK, Decisions
  <2>2. ~Own(target', s)
    BY <1>1, AbsentAssumption DEF Own, UserFile
  <2> QED BY <1>1, <2>1, <2>2, TruthHere, ReplacedTruth
<1>3. \A s \in Sessions : Truth(s, disk'[s], kept'[s], op'[s], hand'[s], target', orig'[s])
  BY <1>1, <1>2
<1> QED BY <1>3 DEF TruthInv

\* The process is gone: what the directories say stays true.
LEMMA RestTruth ==
    ASSUME NEW s, NEW d, NEW k, NEW o, NEW h, NEW T, NEW g, Truth(s, d, k, o, h, T, g)
    PROVE  Truth(s, d, k, NoOp, NoHand, T, g)
<1>1. StartOK(d, k, NoOp) /\ PublishOK(d, k, NoHand) /\ CommittedOK(d, NoOp, T)
  BY Nothing DEF StartOK, PublishOK, CommittedOK
<1>2. Came(d, k, o, d) /\ Came(d, k, o, k)
  BY DEF Came
<1> QED BY <1>1, <1>2, Nothing, TruthOn

\* The process dies, with or without a publication under way.
LEMMA DieTruth ==
    ASSUME Inv, AckInv, TargetOK, TruthInv, LeaseOne, Die, NEW t \in Sessions
    PROVE  Truth(t, disk[t], kept[t], NoOp, NoHand, target', orig[t])
<1>1. CASE target' = target
  BY <1>1, TruthHere, RestTruth
<1>2. ASSUME NEW s \in Sessions, hand[s].at = "publish", target' = Mine(s)
      PROVE  Truth(t, disk[t], kept[t], NoOp, NoHand, target', orig[t])
  <2>1. CASE t = s
    BY <1>2, <2>1, Nothing, PublishedTruth
  <2>2. CASE t # s
    <3>1. Truth(t, disk[t], kept[t], NoOp, NoHand, target, orig[t])
      BY TruthHere, RestTruth
    <3> QED BY <1>2, <2>2, <3>1, NotMine, Nothing, ReplacedTruth
  <2> QED BY <2>1, <2>2
<1> QED BY <1>1, <1>2 DEF Die

\* A kill keeps what the sessions say true.
LEMMA KillTruth ==
    ASSUME Inv, AckInv, TargetOK, TruthInv, LeaseOne, Kill
    PROVE  TruthInv'
<1>1. /\ Die /\ disk' = disk /\ kept' = kept /\ orig' = orig
      /\ op' = [s \in Sessions |-> NoOp] /\ hand' = [s \in Sessions |-> NoHand]
  BY DEF Kill, Die, dirVars
<1>2. \A s \in Sessions : Truth(s, disk'[s], kept'[s], op'[s], hand'[s], target', orig'[s])
  BY <1>1, DieTruth
<1> QED BY <1>2 DEF TruthInv

\* A power loss keeps what the sessions say true.
LEMMA PowerLossTruth ==
    ASSUME Inv, AckInv, TargetOK, TruthInv, LeaseOne, PowerLoss
    PROVE  TruthInv'
<1>1. /\ Die /\ (\A s \in Sessions : disk'[s] \in Outcomes(s)) /\ kept' = disk' /\ orig' = orig
      /\ op' = [s \in Sessions |-> NoOp] /\ hand' = [s \in Sessions |-> NoHand]
  BY DEF PowerLoss, Die
<1>2. ASSUME NEW s \in Sessions
      PROVE  Truth(s, disk'[s], kept'[s], op'[s], hand'[s], target', orig'[s])
  <2> DEFINE d == disk[s]
             k == kept[s]
             x == disk'[s]
  <2>1. Truth(s, d, k, NoOp, NoHand, target', orig[s])
    BY <1>1, DieTruth
  <2>2. x \in Outcomes(s)
    BY <1>1
  <2>3. PICK e \in {d, k}, p \in {d.payload, k.payload} :
          x = [chain |-> e.chain, pending |-> e.pending,
               payload |-> IF e.payload = NoFile \/ p = NoFile THEN e.payload ELSE p]
    BY <2>2 DEF Outcomes
  <2>4. x.chain = e.chain /\ x.pending = e.pending /\ x.payload \in {d.payload, k.payload}
    BY <2>3
  <2> HIDE DEF d, k, x
  <2>5. (Has(x) <=> Has(e)) /\ Top(x) = Top(e)
    BY <2>4, SameEntries
  <2>6. Came(d, k, NoOp, x)
    BY <2>5 DEF Came
  <2>7. StartOK(x, x, NoOp) /\ PublishOK(x, x, NoHand) /\ CommittedOK(x, NoOp, target')
    BY Nothing DEF StartOK, PublishOK, CommittedOK
  <2>8. Truth(s, x, x, NoOp, NoHand, target', orig[s])
    BY <2>1, <2>4, <2>6, <2>7, Nothing, TruthOn
  <2> QED BY <1>1, <2>8 DEF x
<1> QED BY <1>2 DEF TruthInv

\* Open and recoverAll keeps what the sessions say true.
LEMMA RestartTruth ==
    ASSUME Inv, Asleep, TruthInv, Restart
    PROVE  TruthInv'
<1>1. op' = op /\ hand' = hand /\ ~Up /\ target' = target /\ orig' = orig
  BY DEF Restart, jobVars, Up, fileVars
<1>2. CASE \A s \in Sessions : Loadable(disk[s])
  <2>1. /\ disk' = [s \in Sessions |-> Loaded(disk[s])]
        /\ kept' = [s \in Sessions |->
                       IF Loaded(disk[s]) = disk[s] /\ disk[s] # NoDir THEN kept[s] ELSE Loaded(disk[s])]
    BY <1>2, RestartMaps
  <2>2. ASSUME NEW s \in Sessions
        PROVE  Truth(s, disk'[s], kept'[s], op'[s], hand'[s], target', orig'[s])
    <3> DEFINE d == disk[s]
               e == Loaded(d)
    <3>1. /\ SessionOK(d, kept[s], op[s], hand[s]) /\ Truth(s, d, kept[s], op[s], hand[s], target, orig[s])
          /\ op[s].at = "idle" /\ hand[s].at = "free" /\ op[s].kind = "none" /\ DirOK(d)
      BY <1>1, TruthHere, IdleTruth, Here DEF Asleep
    <3>2. CASE Has(d)
      <4>1. Truth(s, e, e, op[s], hand[s], target, orig[s])
        BY <3>1, <3>2, LoadedTruth
      <4> QED BY <1>1, <2>1, <3>1, <4>1
    <3>3. CASE ~Has(d)
      <4>1. e = NoDir
        BY <3>1, <3>3, LoadedNothing
      <4>2. Truth(s, NoDir, NoDir, op[s], hand[s], target, orig[s])
        BY <3>1, GoneTruth
      <4> QED BY <1>1, <2>1, <3>1, <4>1, <4>2
    <3> QED BY <3>2, <3>3
  <2> QED BY <2>2 DEF TruthInv
<1>3. CASE ~\A s \in Sessions : Loadable(disk[s])
  BY <1>1, <1>3 DEF Restart, dirVars, TruthInv
<1> QED BY <1>2, <1>3

\* Steps that touch neither the directories nor the target.
LEMMA StillTruth ==
    ASSUME TruthInv, disk' = disk, kept' = kept, op' = op, hand' = hand, target' = target, orig' = orig
    PROVE  TruthInv'
BY DEF TruthInv

\* Every step of a session, one lemma per action.
LEMMA SessionStepTruth ==
    ASSUME Inv, AckInv, TargetOK, TruthInv, LeaseOne, NEW s \in Sessions, ~TornRemoval,
           Step(s) \/ Request(s) \/ StateWriteFails(s) \/ VisitListed(s)
    PROVE  TruthInv'
<1>1. CASE Step(s)
  <2>1. CASE NameState(s) \/ SyncState(s) \/ Compact(s) \/ Done(s) \/ PurgePayload(s) \/ SyncPurge(s)
    BY <2>1, NameStateTruth, SyncStateTruth, CompactTruth, DoneTruth, PurgeTruth, SyncPurgeTruth
  <2>2. CASE Reload(s) \/ SyncChunk(s)
    BY <2>2, AppendTruth
  <2>3. CASE UndoCreate(s) \/ RemoveDir(s) \/ SyncRemoval(s)
    BY <2>3, RemovalTruth
  <2>4. CASE Admit(s) \/ Withdraw(s) \/ StartPublication(s) \/ Publish(s) \/ Decide(s) \/ Settle(s)
    BY <2>4, AdmitTruth, WithdrawTruth, StartPublicationTruth, PublishTruth, DecideTruth, SettleTruth
  <2> QED BY <1>1, <2>1, <2>2, <2>3, <2>4 DEF Step
<1>2. CASE Request(s)
  <2>1. CASE Create(s)
    BY <2>1, CreateTruth
  <2>2. CASE AppendChunk(s) \/ (\E c \in Chunks : WriteChunk(s, c)) \/ RejectChunk(s)
    BY <2>2, AppendTruth
  <2>3. CASE Commit(s) \/ Cancel(s) \/ Reconcile(s)
    BY <2>3, BeginTruth, ReconcileTruth
  <2>4. CASE Load(s)
    BY <2>4, LoadTruth
  <2>5. CASE ReplayChunk(s)
    BY <2>5, StillTruth DEF ReplayChunk, dirVars, jobVars, fileVars
  <2> QED BY <1>2, <2>1, <2>2, <2>3, <2>4, <2>5 DEF Request
<1> QED BY <1>1, <1>2, StateWriteFailsTruth, VisitListedTruth

\* Every step.
LEMMA NextTruth ==
    ASSUME Inv, Asleep, AckInv, TargetOK, TruthInv, LeaseOne, ~TornRemoval, [Next]_vars
    PROVE  TruthInv'
<1>1. CASE \E s \in Sessions : Step(s) \/ Request(s) \/ StateWriteFails(s) \/ VisitListed(s)
  BY <1>1, SessionStepTruth
<1>2. CASE (\E s \in Sessions : TimePasses(s)) \/ ListExpired \/ Serve \/ GiveUp \/ AllQuiet \/ UNCHANGED vars
  BY <1>2, StillTruth DEF TimePasses, ListExpired, Serve, GiveUp, AllQuiet, vars, dirVars, jobVars, fileVars
<1>3. CASE OtherChanges \/ Kill \/ PowerLoss \/ Restart
  BY <1>3, OtherChangesTruth, KillTruth, PowerLossTruth, RestartTruth
<1> QED BY <1>1, <1>2, <1>3 DEF Next

-----------------------------------------------------------------------------
(* The leases                                                               *)

\* A session takes the leases only when nobody holds them.
LEMMA OneLease ==
    ASSUME Inv, LeaseOne, NEW s \in Sessions, NEW j, hand' = Put(hand, s, j),
           j.at \in LeaseSteps => LeaseFree \/ hand[s].at \in LeaseSteps
    PROVE  LeaseOne'
<1>1. hand'[s] = j /\ \A t \in Sessions : t # s => hand'[t] = hand[t]
  BY PutAt DEF Inv, Maps
<1> QED BY <1>1 DEF LeaseOne, LeaseFree

\* Every step leaves the leases to one session.
LEMMA LeaseStep ==
    ASSUME Inv, LeaseOne, [Next]_vars
    PROVE  LeaseOne'
<1>1. CASE hand' = hand
  BY <1>1 DEF LeaseOne
<1>2. ASSUME NEW s \in Sessions, Done(s) \/ SyncPurge(s) PROVE LeaseOne'
  <2>1. CASE hand' = hand
    BY <1>1, <2>1
  <2>2. CASE HandOn(s)
    <3>1. op[s].at \in {"written", "purged"}
      BY <1>2 DEF Done, SyncPurge
    <3>2. PICK g : hand' = Put(hand, s, g) /\ Handed(op[s], hand[s], g)
      BY <2>2, <3>1, HandOnTo
    <3> QED BY <3>2, OneLease DEF Handed, LeaseSteps
  <2> QED BY <1>2, <2>1, <2>2 DEF Done, SyncPurge
<1>3. ASSUME NEW s \in Sessions, StateWriteFails(s) PROVE LeaseOne'
  <2>1. CASE hand' = hand
    BY <1>1, <2>1
  <2>2. CASE HandFails(s)
    <3> DEFINE g == IF hand[s].at = "start" THEN [NoHand EXCEPT !.at = "failed"] ELSE NoHand
    <3>1. hand' = Put(hand, s, g)
      BY <2>2 DEF HandFails
    <3>2. g.at = "free" \/ hand[s].at = "start"
      BY Nothing
    <3> HIDE DEF g
    <3> QED BY <3>1, <3>2, OneLease DEF LeaseSteps
  <2>3. HandFails(s) \/ hand' = hand
    BY <1>3 DEF StateWriteFails
  <2> QED BY <2>1, <2>2, <2>3
<1>4. ASSUME NEW s \in Sessions, NEW to, hand' = Put(hand, s, [NoHand EXCEPT !.at = to]),
             to \in LeaseSteps => LeaseFree \/ hand[s].at \in LeaseSteps
      PROVE  LeaseOne'
  <2> DEFINE g == [NoHand EXCEPT !.at = to]
  <2>1. g.at = to
    BY DEF NoHand
  <2> HIDE DEF g
  <2> QED BY <1>4, <2>1, OneLease DEF g
<1>5. ASSUME NEW s \in Sessions, Commit(s) \/ Cancel(s) \/ Admit(s) \/ StartPublication(s) \/ Publish(s)
      PROVE  LeaseOne'
  <2>1. CASE Commit(s) \/ Cancel(s)
    BY <1>4, <2>1 DEF Commit, Cancel, LeaseSteps
  <2>2. CASE Admit(s)
    BY <1>4, <2>2 DEF Admit, LeaseSteps
  <2>3. CASE StartPublication(s)
    BY <1>4, <2>3 DEF StartPublication
  <2>4. CASE Publish(s)
    BY <1>4, <2>4 DEF Publish, LeaseSteps
  <2> QED BY <1>5, <2>1, <2>2, <2>3, <2>4
<1>6. ASSUME NEW s \in Sessions, NEW st, Resolve(s, st), LeaseFree \/ hand[s].at \in LeaseSteps
      PROVE  LeaseOne'
  BY <1>6, Resolving, OneLease
<1>7. ASSUME NEW s \in Sessions, hand' = Put(hand, s, NoHand)
      PROVE  LeaseOne'
  BY <1>7, Nothing, OneLease DEF LeaseSteps
<1>8. ASSUME NEW s \in Sessions, Withdraw(s) \/ Decide(s) \/ Settle(s) \/ Reconcile(s)
      PROVE  LeaseOne'
  <2>1. CASE Withdraw(s)
    BY <1>6, <2>1 DEF Withdraw
  <2>2. CASE Decide(s)
    BY <1>6, <1>7, <2>2 DEF Decide, LeaseSteps
  <2>3. CASE Settle(s)
    BY <1>6, <1>7, <2>3 DEF Settle, LeaseSteps
  <2>4. CASE Reconcile(s)
    BY <2>4, OneLease DEF Reconcile
  <2> QED BY <1>8, <2>1, <2>2, <2>3, <2>4
<1>9. CASE Kill \/ PowerLoss
  <2>1. hand' = [s \in Sessions |-> NoHand]
    BY <1>9 DEF Kill, PowerLoss, Die
  <2> QED BY <2>1, Nothing DEF LeaseOne, LeaseSteps
<1>10. CASE \E s \in Sessions : Step(s) \/ Request(s) \/ StateWriteFails(s) \/ TimePasses(s) \/ VisitListed(s)
  <2>1. PICK s \in Sessions : Step(s) \/ Request(s) \/ StateWriteFails(s) \/ TimePasses(s) \/ VisitListed(s)
    BY <1>10
  <2>2. \/ hand' = hand \/ Done(s) \/ SyncPurge(s) \/ StateWriteFails(s)
        \/ Commit(s) \/ Cancel(s) \/ Admit(s) \/ StartPublication(s) \/ Publish(s)
        \/ Withdraw(s) \/ Decide(s) \/ Settle(s) \/ Reconcile(s)
    BY <2>1 DEF Step, Request, NameState, SyncState, Compact, PurgePayload, Reload, UndoCreate,
         SyncChunk, RemoveDir, SyncRemoval, RejectChunk, WriteChunk, Create, AppendChunk, ReplayChunk, Load,
         VisitListed, TimePasses, jobVars
  <2> QED BY <1>1, <1>2, <1>3, <1>5, <1>8, <2>2
<1>11. CASE ListExpired \/ OtherChanges \/ Restart \/ Serve \/ GiveUp \/ AllQuiet \/ UNCHANGED vars
  BY <1>1, <1>11 DEF ListExpired, OtherChanges, Restart, Serve, GiveUp, AllQuiet, vars, jobVars
<1> QED BY <1>9, <1>10, <1>11 DEF Next

-----------------------------------------------------------------------------
(* Publications                                                             *)

\* Identity tokens are never used twice.
Known(f, n, p) == f \in Files => IF f.by = Absent THEN f.gen <= n ELSE f.gen < p[f.by]

\* A payload that replaces a file is published while that file is there, and never again.
Once(s) ==
    /\ orig[s] = NoRec => pubs[s] = 0
    /\ orig[s] \in Files => pubs[s] = 0 \/ (pubs[s] = 1 /\ target # orig[s])

PubsInv == Known(target, other, pubs) /\ \A s \in Sessions : Known(orig[s], other, pubs) /\ Once(s)

\* A publication, by a process that lives or by one that is killed.
LEMMA PublicationCounts ==
    ASSUME Inv, AckInv, TargetOK, TruthInv, PubsInv, NEW s \in Sessions, hand[s].at = "publish",
           Original(s, target), target' = Mine(s), pubs' = Put(pubs, s, pubs[s] + 1), orig' = orig, other' = other
    PROVE  PubsInv'
<1>1. /\ pubs[s] \in Nat /\ pubs'[s] = pubs[s] + 1 /\ \A t \in Sessions : t # s => pubs'[t] = pubs[t]
      /\ \A t \in Sessions : pubs[t] \in Nat
  BY DEF TargetOK, Put
<1>2. Mine(s) \in Files /\ Mine(s).by = s /\ Mine(s).gen = pubs[s]
  BY MineOK DEF Deciding, Mine
<1>3. s # Absent
  BY AbsentAssumption
<1>4. ASSUME NEW f, Known(f, other, pubs) PROVE Known(f, other', pubs')
  <2> SUFFICES ASSUME f \in Files PROVE IF f.by = Absent THEN f.gen <= other' ELSE f.gen < pubs'[f.by]
    BY DEF Known
  <2>1. f.by \in Sessions \cup {Absent} /\ f.gen \in Nat
    BY DEF Files
  <2> QED BY <1>1, <1>4, <2>1 DEF Known
<1>5. Known(target', other', pubs')
  BY <1>1, <1>2, <1>3 DEF Known
<1>6. ASSUME NEW t \in Sessions PROVE Once(t)'
  <2>1. orig[t] = NoRec => pubs'[t] = 0
    <3>1. orig[s] # NoRec
      BY Decider, AckHere DEF Keeps, Deciding
    <3> QED BY <1>1, <3>1 DEF PubsInv, Once
  <2>2. ASSUME orig[t] \in Files PROVE pubs'[t] = 0 \/ (pubs'[t] = 1 /\ target' # orig[t])
    <3>1. CASE t = s
      <4>1. pubs[s] = 0
        BY <2>2, <3>1 DEF PubsInv, Once, Original
      <4>2. orig[s].by # s
        BY <2>2, <3>1, TruthHere DEF Truth
      <4> QED BY <1>1, <1>2, <3>1, <4>1, <4>2
    <3>2. CASE t # s
      <4>1. orig[t] # Mine(s)
        BY <1>1, <1>2, <1>3, <2>2 DEF PubsInv, Known
      <4> QED BY <1>1, <2>2, <3>2, <4>1 DEF PubsInv, Once
    <3> QED BY <3>1, <3>2
  <2> QED BY <2>1, <2>2 DEF Once
<1>7. \A t \in Sessions : Known(orig'[t], other', pubs')
  BY <1>4 DEF PubsInv
<1> QED BY <1>5, <1>6, <1>7 DEF PubsInv

\* Every step.
LEMMA PubsStep ==
    ASSUME Inv, AckInv, TargetOK, TruthInv, PubsInv, [Next]_vars
    PROVE  PubsInv'
<1>1. CASE UNCHANGED <<target, orig, pubs, other>>
  BY <1>1 DEF PubsInv, Known, Once
<1>2. ASSUME NEW s \in Sessions, Create(s) PROVE PubsInv'
  <2>1. orig[s] = NoRec /\ orig' = Put(orig, s, target) /\ UNCHANGED <<target, pubs, other>>
    BY <1>2 DEF Create, histVars, bound
  <2>2. orig'[s] = target /\ \A t \in Sessions : t # s => orig'[t] = orig[t]
    BY <2>1, PutAt DEF AckInv
  <2>3. pubs[s] = 0
    BY <2>1 DEF PubsInv, Once
  <2>5. \A t \in Sessions : Once(t)'
    BY <2>1, <2>2, <2>3 DEF PubsInv, Once
  <2>6. \A t \in Sessions : Known(orig'[t], other', pubs')
    BY <2>1, <2>2 DEF PubsInv
  <2>7. Known(target', other', pubs')
    BY <2>1 DEF PubsInv
  <2> QED BY <2>5, <2>6, <2>7 DEF PubsInv
<1>3. ASSUME NEW s \in Sessions, Publish(s) PROVE PubsInv'
  <2>1. \/ UNCHANGED <<target, orig, pubs, other>>
        \/ /\ Original(s, target) /\ target' = Mine(s) /\ pubs' = Put(pubs, s, pubs[s] + 1)
           /\ orig' = orig /\ other' = other /\ hand[s].at = "publish"
    BY <1>3 DEF Publish
  <2> QED BY <1>1, <2>1, PublicationCounts
<1>4. CASE Die
  BY <1>1, <1>4, PublicationCounts DEF Die
<1>5. CASE OtherChanges
  <2>1. /\ other \in Nat /\ other' = other + 1 /\ orig' = orig /\ pubs' = pubs
        /\ target' = Absent \/ target' = UserFile(other')
    BY <1>5 DEF OtherChanges, histVars, TargetOK
  <2>2. ASSUME NEW f, Known(f, other, pubs) PROVE Known(f, other', pubs')
    <3>1. f \in Files => f.gen \in Nat
      BY DEF Files
    <3> QED BY <2>1, <2>2, <3>1 DEF Known
  <2>3. UserFile(other').by = Absent /\ UserFile(other').gen = other'
    BY DEF UserFile
  <2>4. Known(target', other', pubs')
    BY <2>1, <2>3, AbsentAssumption DEF Known
  <2>5. ASSUME NEW t \in Sessions, orig[t] \in Files PROVE target' # orig[t]
    <3>1. orig[t].by = Absent => orig[t].gen <= other
      BY <2>5 DEF PubsInv, Known
    <3> QED BY <2>1, <2>3, <2>5, <3>1, AbsentAssumption
  <2>6. \A t \in Sessions : Once(t)'
    BY <2>1, <2>5 DEF PubsInv, Once
  <2>7. \A t \in Sessions : Known(orig'[t], other', pubs')
    BY <2>1, <2>2 DEF PubsInv
  <2> QED BY <2>4, <2>6, <2>7 DEF PubsInv
<1>6. CASE \E s \in Sessions : Step(s) \/ Request(s) \/ StateWriteFails(s) \/ TimePasses(s) \/ VisitListed(s)
  <2>1. PICK s \in Sessions : Step(s) \/ Request(s) \/ StateWriteFails(s) \/ TimePasses(s) \/ VisitListed(s)
    BY <1>6
  <2>2. Publish(s) \/ Create(s) \/ UNCHANGED <<target, orig, pubs, other>>
    BY <2>1 DEF Step, Request, NameState, SyncState, Compact, Done, PurgePayload, SyncPurge, Reload, UndoCreate,
         SyncChunk, RemoveDir, SyncRemoval, StateWriteFails, RejectChunk, WriteChunk, Admit, Withdraw,
         StartPublication, Decide, Settle, AppendChunk, ReplayChunk, Commit, Cancel, Load, Reconcile,
         VisitListed, TimePasses, fileVars, histVars, bound
  <2> QED BY <1>1, <1>2, <1>3, <2>2
<1>7. CASE ListExpired \/ Restart \/ Serve \/ GiveUp \/ AllQuiet \/ UNCHANGED vars
  BY <1>1, <1>7 DEF ListExpired, Restart, Serve, GiveUp, AllQuiet, vars, fileVars, histVars, bound
<1> QED BY <1>4, <1>5, <1>6, <1>7 DEF Next, Kill, PowerLoss

-----------------------------------------------------------------------------
\* The empty store.
LEMMA InitTruth == Init => TruthInv /\ LeaseOne /\ PubsInv
<1> SUFFICES ASSUME Init PROVE TruthInv /\ LeaseOne /\ PubsInv
  OBVIOUS
<1>1. /\ disk = [s \in Sessions |-> NoDir] /\ kept = [s \in Sessions |-> NoDir]
      /\ op = [s \in Sessions |-> NoOp] /\ hand = [s \in Sessions |-> NoHand]
      /\ orig = [s \in Sessions |-> NoRec] /\ pubs = [s \in Sessions |-> 0] /\ other = 0
      /\ target \in {Absent, UserFile(0)}
  BY DEF Init
<1>2. UserFile(0).by = Absent /\ UserFile(0).gen = 0
  BY DEF UserFile
<1>3. ASSUME NEW s \in Sessions PROVE Truth(s, NoDir, NoDir, NoOp, NoHand, target, NoRec)
  <2>1. ~Own(target, s)
    BY <1>1, <1>2, AbsentAssumption DEF Own
  <2> QED BY <2>1, Nothing, AbsentAssumption DEF Truth, StartOK, PublishOK, CommittedOK
<1>4. TruthInv
  BY <1>1, <1>3 DEF TruthInv
<1>5. LeaseOne
  BY <1>1, Nothing DEF LeaseOne, LeaseSteps
<1>6. Known(target, other, pubs) /\ \A s \in Sessions : Known(orig[s], other, pubs) /\ Once(s)
  BY <1>1, <1>2, AbsentAssumption DEF Known, Once
<1> QED BY <1>4, <1>5, <1>6 DEF PubsInv

\* The invariants imply the property.
LEMMA TruthIsHonest ==
    ASSUME Inv, AckInv, TruthInv, PubsInv
    PROVE  OutcomeHonest
<1> SUFFICES ASSUME NEW s \in Sessions
             PROVE  /\ \A d \in Outcomes(s) :
                        HasState(Promote(d)) /\ Latest(Promote(d)).st \notin {"committing", "committed"}
                        => target = Absent \/ target.by # s
                    /\ op[s].kind = "committed" =>
                        target # Absent /\ disk[s].payload \in {target.body, NoFile}
                    /\ orig[s] \notin {NoRec, Absent} => pubs[s] <= 1
  BY DEF OutcomeHonest
<1>1. ASSUME NEW d \in Outcomes(s), HasState(Promote(d)),
             Latest(Promote(d)).st \notin {"committing", "committed"}
      PROVE  target = Absent \/ target.by # s
  <2>1. PICK e \in {disk[s], kept[s]}, p \in {disk[s].payload, kept[s].payload} :
          d = [chain |-> e.chain, pending |-> e.pending,
               payload |-> IF e.payload = NoFile \/ p = NoFile THEN e.payload ELSE p]
    BY DEF Outcomes
  <2>2. d.chain = e.chain /\ d.pending = e.pending
    BY <2>1
  <2>3. (Has(d) <=> Has(e)) /\ Top(d) = Top(e)
    BY <2>2, SameEntries
  <2>4. Has(d) /\ Latest(Promote(d)) = Top(d)
    BY <1>1, OutcomesSound, PromoteOK DEF Sound
  <2>5. Has(e) /\ Top(e).st \notin {"committing", "committed"}
    BY <1>1, <2>3, <2>4
  <2> QED BY <2>5, TruthHere DEF Truth, OwnOK, Told, Own
<1>2. op[s].kind = "committed" => target # Absent /\ disk[s].payload \in {target.body, NoFile}
  BY TruthHere DEF Truth, CommittedOK
<1>3. orig[s] \notin {NoRec, Absent} => pubs[s] <= 1
  BY TruthHere DEF Truth, PubsInv, Once
<1> QED BY <1>1, <1>2, <1>3

\* OutcomeHonest for every instance: in every state a crash can leave, a session that may
\* still be committed or that ended without success is not what the target holds; success
\* is recorded only of a target with the session's bytes; and a payload that replaces a
\* file is published at most once.
THEOREM OutcomesTrue == ASSUME ~TornRemoval PROVE Spec => []OutcomeHonest
<1> DEFINE All == Inv /\ Asleep /\ AckInv /\ TargetOK /\ TruthInv /\ LeaseOne /\ PubsInv
<1>1. Init => All
  BY InitInv, InitAck, InitTruth
<1>2. All /\ [Next]_vars => All'
  BY NextInv, NextAck, TargetStep, NextTruth, LeaseStep, PubsStep
<1>3. All => OutcomeHonest
  BY TruthIsHonest
<1> QED BY <1>1, <1>2, <1>3, PTL DEF Spec

-----------------------------------------------------------------------------
(***************************************************************************)
(* The byte counters add up.  CountsOK says of one session what is counted *)
(* for it at each position of the operation at work on it: the durable     *)
(* offset when none appends, one more while a chunk is copied, and the     *)
(* offset of the new state from then on, with the newest state either that *)
(* one or the one before it, which is what the reload after a failed write *)
(* has to tell apart.                                                      *)
(***************************************************************************)

(* The bytes counted for a session                                          *)

\* n is the durable offset of an active session.
CountsTop(d, n) == Has(d) /\ Top(d).st \in Active => n = Top(d).off

\* An append has reserved a byte for the chunk it copies or the state it writes.
AppendCounts(d, o, n) ==
    /\ o.at \in Copying \cup Writing \cup {"reload"}
    /\ o.at \in Copying => n = o.next.off + 1
    /\ o.at \notin Copying =>
          /\ o.next \in Recs /\ n = o.next.off /\ o.next.off > 0
          /\ Has(d) /\ (Top(d) = o.next \/ Top(d).off = o.next.off - 1)

\* n bytes are counted for the session, g is its snapshot; u: it is unread, or no process
\* runs.
CountsOK(d, o, n, g, u) ==
    /\ n \in Nat
    /\ g = NoRec => n = 0
    /\ ~u /\ o.kind # "append" => CountsTop(d, n)
    /\ ~u /\ o.kind # "append" /\ o.at \in Writing /\ o.next.st \in Active => n = o.next.off
    /\ o.kind = "append" => g # NoRec /\ AppendCounts(d, o, n)

Loose(s) == s \in unread \/ ~Up
Appending == {s \in Sessions : op[s].kind = "append"}
One(o) == IF o.kind = "append" THEN 1 ELSE 0

CountInv ==
    /\ snap = [s \in Sessions |-> snap[s]] /\ staged = [s \in Sessions |-> staged[s]]
    /\ total = SumOver(staged, Sessions) /\ reserved = Cardinality(Appending)
    /\ \A s \in Sessions : CountsOK(disk[s], op[s], staged[s], snap[s], Loose(s))

-----------------------------------------------------------------------------

\* The counters after a step of one session.
LEMMA OneCount ==
    ASSUME CountInv, Maps, NEW s \in Sessions, NEW d, NEW o, NEW n, NEW g,
           disk' = Put(disk, s, d), op' = Put(op, s, o), staged' = Put(staged, s, n),
           snap' = Put(snap, s, g), \A t \in Sessions \ {s} : Loose(t)' <=> Loose(t),
           total' = total - staged[s] + n, reserved' = reserved - One(op[s]) + One(o),
           CountsOK(d, o, n, g, Loose(s)')
    PROVE  CountInv'
<1>1. /\ disk'[s] = d /\ \A t \in Sessions : t # s => disk'[t] = disk[t]
  BY PutAt DEF Maps
<1>2. /\ op'[s] = o /\ \A t \in Sessions : t # s => op'[t] = op[t]
  BY PutAt DEF Maps
<1>3. /\ staged'[s] = n /\ \A t \in Sessions : t # s => staged'[t] = staged[t]
      /\ staged' = [t \in Sessions |-> staged'[t]]
  BY PutAt DEF CountInv
<1>4. /\ snap'[s] = g /\ \A t \in Sessions : t # s => snap'[t] = snap[t]
      /\ snap' = [t \in Sessions |-> snap'[t]]
  BY PutAt DEF CountInv
<1>5. \A t \in Sessions : CountsOK(disk'[t], op'[t], staged'[t], snap'[t], Loose(t)')
  <2> SUFFICES ASSUME NEW t \in Sessions
               PROVE  CountsOK(disk'[t], op'[t], staged'[t], snap'[t], Loose(t)')
    OBVIOUS
  <2>1. CASE t = s
    BY <1>1, <1>2, <1>3, <1>4, <2>1
  <2>2. CASE t # s
    <3>1. CountsOK(disk[t], op[t], staged[t], snap[t], Loose(t))
      BY DEF CountInv
    <3>2. Loose(t)' = Loose(t)
      BY <2>2 DEF Loose
    <3> QED BY <1>1, <1>2, <1>3, <1>4, <2>2, <3>1, <3>2
  <2> QED BY <2>1, <2>2
<1>6. total' = SumOver(staged', Sessions)
  <2>1. IsFiniteSet(Sessions) /\ (\A t \in Sessions : staged[t] \in Nat) /\ staged'[s] \in Nat
    BY <1>3, SessionsAssumption DEF CountInv, CountsOK
  <2>2. \A t \in Sessions \ {s} : staged'[t] = staged[t]
    BY <1>3
  <2>3. SumOver(staged', Sessions) = SumOver(staged, Sessions) - staged[s] + staged'[s]
    BY ONLY <2>1, <2>2, s \in Sessions, SumChange
  <2> QED BY <1>3, <2>3 DEF CountInv
<1>7. reserved' = Cardinality(Appending')
  <2> DEFINE A == Appending
             B == Appending'
             C == Appending \ {s}
  <2>1. A \subseteq Sessions /\ C \subseteq Sessions /\ s \notin C
    BY DEF Appending
  <2>2. A = IF op[s].kind = "append" THEN C \cup {s} ELSE C
    BY DEF Appending
  <2>3. B = IF o.kind = "append" THEN C \cup {s} ELSE C
    BY <1>2 DEF Appending
  <2>4. reserved = Cardinality(A)
    BY DEF CountInv
  <2> HIDE DEF A, B, C
  <2>5. IsFiniteSet(C)
    BY <2>1, SessionsAssumption, FS_Subset
  <2>6. Cardinality(C \cup {s}) = Cardinality(C) + 1 /\ Cardinality(C) \in Nat
    BY <2>1, <2>5, FS_AddElement, FS_CardinalityType
  <2>7. Cardinality(A) = Cardinality(C) + One(op[s]) /\ Cardinality(B) = Cardinality(C) + One(o)
    BY <2>2, <2>3, <2>6 DEF One
  <2>8. One(op[s]) \in Int /\ One(o) \in Int
    BY DEF One
  <2> QED BY <2>4, <2>6, <2>7, <2>8 DEF B
<1> QED BY <1>3, <1>4, <1>5, <1>6, <1>7 DEF CountInv

SameLoose == unread' = unread /\ sys' = sys
Memory == staged' = staged /\ snap' = snap /\ total' = total /\ reserved' = reserved
          /\ unread' = unread /\ sys' = sys

\* What both invariants say of one session.
LEMMA CountHere ==
    ASSUME Inv, CountInv, NEW s \in Sessions
    PROVE  /\ CountsOK(disk[s], op[s], staged[s], snap[s], Loose(s))
           /\ SessionOK(disk[s], kept[s], op[s], hand[s]) /\ Maps /\ op[s] \in Ops /\ IsDir(disk[s])
           /\ DirOK(disk[s]) /\ Sound(disk[s])
           /\ disk = Put(disk, s, disk[s]) /\ op = Put(op, s, op[s])
           /\ staged = Put(staged, s, staged[s]) /\ snap = Put(snap, s, snap[s])
           /\ staged[s] \in Nat /\ total \in Nat /\ reserved \in Nat
<1>1. staged = Put(staged, s, staged[s]) /\ snap = Put(snap, s, snap[s])
  BY PutAt DEF CountInv
<1>2. total \in Nat
  BY SessionsAssumption, UnitsFinite DEF CountInv, CountsOK
<1>3. Appending \subseteq Sessions
  BY DEF Appending
<1>4. reserved \in Nat
  BY <1>3, SessionsAssumption, FS_Subset, FS_CardinalityType DEF CountInv
<1>5. CountsOK(disk[s], op[s], staged[s], snap[s], Loose(s))
  BY DEF CountInv
<1> QED BY <1>1, <1>2, <1>4, <1>5, Here, Unput, SessionSound DEF Inv, CountsOK

\* A step of one session that leaves the counters alone.
LEMMA StillCount ==
    ASSUME Inv, CountInv, NEW s \in Sessions, NEW d, NEW o, disk' = Put(disk, s, d),
           op' = Put(op, s, o), Memory, o.kind = "append" <=> op[s].kind = "append",
           CountsOK(d, o, staged[s], snap[s], Loose(s))
    PROVE  CountInv'
<1>1. /\ Maps /\ staged' = Put(staged, s, staged[s]) /\ snap' = Put(snap, s, snap[s])
      /\ staged[s] \in Nat /\ total \in Nat /\ reserved \in Nat
  BY CountHere DEF Memory
<1>2. total' = total - staged[s] + staged[s] /\ reserved' = reserved - One(op[s]) + One(o)
  BY <1>1 DEF Memory, One
<1>3. CountsOK(d, o, staged[s], snap[s], Loose(s)') /\ \A t \in Sessions : Loose(t)' = Loose(t)
  BY DEF Memory, Loose, Up
<1> QED BY <1>1, <1>2, <1>3, OneCount

\* The operation goes on writing and the newest state is the one before or the new one.
LEMMA WriteCounts ==
    ASSUME NEW d, NEW o, NEW n, NEW g, NEW u, CountsOK(d, o, n, g, u), o.at \in Writing,
           NEW e, NEW p, p.kind = o.kind, p.next = o.next, p.at \in Writing,
           \/ (Has(e) <=> Has(d)) /\ Top(e) = Top(d)
           \/ Has(e) /\ Top(e) = o.next
    PROVE  CountsOK(e, p, n, g, u)
<1>1. o.at \notin Copying /\ p.at \notin Copying
  BY DEF Writing, Renamed, Copying
<1> QED BY <1>1 DEF CountsOK, CountsTop, AppendCounts

\* An operation that appends nothing ends or begins.
LEMMA EndCounts ==
    ASSUME NEW d, NEW o, NEW n, NEW g, NEW u, CountsOK(d, o, n, g, u), o.kind # "append",
           NEW e, NEW p, p.kind # "append", p.at \notin Writing,
           \/ Has(e) => Has(d) /\ Top(e) = Top(d)
           \/ o.at \in Writing /\ Has(e) /\ Top(e) = o.next
    PROVE  CountsOK(e, p, n, g, u)
BY DEF CountsOK, CountsTop

-----------------------------------------------------------------------------
(* The actions                                                              *)

\* The rename of a state file.
LEMMA NameStateCount ==
    ASSUME Inv, CountInv, NEW s \in Sessions, NameState(s)
    PROVE  CountInv'
<1> DEFINE d == disk[s]
           k == kept[s]
           o == op[s]
           e == [d EXCEPT !.chain = WithState(@, o.next)]
           p == [o EXCEPT !.at = "named"]
<1>1. o.at = "write" /\ disk' = Put(disk, s, e) /\ op' = Put(op, s, p) /\ Memory
  BY DEF NameState, memVars, histVars, Memory
<1>2. SessionOK(d, k, o, hand[s]) /\ IsDir(d) /\ o \in Ops /\ CountsOK(d, o, staged[s], snap[s], Loose(s))
  BY CountHere
<1>3. WriteOK(d, k, o) /\ Follows(d, k, o)
  BY <1>1, <1>2 DEF SessionOK, OpOK, Writing
<1>4. p.at = "named" /\ p.kind = o.kind /\ p.next = o.next
  BY <1>2, OpAt DEF OpAts, Writing, Renamed
<1>5. Has(e) /\ Top(e) = o.next
  BY <1>2, <1>3, NameOK DEF WriteOK, Follows
<1> HIDE DEF d, k, o, e, p
<1>6. CountsOK(e, p, staged[s], snap[s], Loose(s))
  BY <1>1, <1>2, <1>4, <1>5, WriteCounts DEF Writing, Renamed
<1>7. p.kind = "append" <=> op[s].kind = "append"
  BY <1>4 DEF o
<1> QED BY <1>1, <1>6, <1>7, StillCount

\* The directory syncs of a state write.
LEMMA SyncStateCount ==
    ASSUME Inv, CountInv, NEW s \in Sessions, SyncState(s)
    PROVE  CountInv'
<1> DEFINE d == disk[s]
           o == op[s]
           p == [o EXCEPT !.at = "compact"]
<1>1. o.at \in {"named", "unlinked"} /\ disk' = disk /\ op' = Put(op, s, p) /\ Memory
  BY DEF SyncState, memVars, histVars, Memory
<1>2. o \in Ops /\ CountsOK(d, o, staged[s], snap[s], Loose(s)) /\ disk = Put(disk, s, d)
  BY CountHere
<1>3. p.at = "compact" /\ p.kind = o.kind /\ p.next = o.next
  BY <1>2, OpAt DEF OpAts, Writing, Renamed
<1>4. p.kind = "append" <=> op[s].kind = "append"
  BY <1>3
<1> HIDE DEF d, o, p
<1>5. CountsOK(d, p, staged[s], snap[s], Loose(s))
  BY <1>1, <1>2, <1>3, WriteCounts DEF Writing, Renamed
<1> QED BY <1>1, <1>2, <1>4, <1>5, StillCount

\* compactStateFiles.
LEMMA CompactCount ==
    ASSUME Inv, CountInv, NEW s \in Sessions, Compact(s)
    PROVE  CountInv'
<1> DEFINE d == disk[s]
           o == op[s]
<1>1. o.at = "compact" /\ Memory
  BY DEF Compact, memVars, histVars, Memory
<1>2. /\ SessionOK(d, kept[s], o, hand[s]) /\ CountsOK(d, o, staged[s], snap[s], Loose(s))
      /\ disk = Put(disk, s, d) /\ o \in Ops /\ IsDir(d)
  BY CountHere
<1>3. HasState(d) /\ Latest(d) = o.next /\ d.pending = NoRec
  BY <1>1, <1>2 DEF SessionOK, OpOK, WriteOK, Writing, Renamed
<1>4. CASE Stale(s) = {}
  <2> DEFINE p == [o EXCEPT !.at = "written"]
  <2>1. disk' = disk /\ op' = Put(op, s, p)
    BY <1>2, <1>4 DEF Compact
  <2>2. p.at = "written" /\ p.kind = o.kind /\ p.next = o.next
    BY <1>2, OpAt DEF OpAts, Writing, Renamed
  <2>3. p.kind = "append" <=> op[s].kind = "append"
    BY <2>2
  <2> HIDE DEF d, o, p
  <2>4. CountsOK(d, p, staged[s], snap[s], Loose(s))
    BY <1>1, <1>2, <2>2, WriteCounts DEF Writing, Renamed
  <2> QED BY <1>1, <1>2, <2>1, <2>3, <2>4, StillCount
<1>5. CASE Stale(s) # {}
  <2> DEFINE p == [o EXCEPT !.at = "unlinked"]
             S == Stale(s)
             n == o.next.rev
             g == [j \in DOMAIN d.chain \ {Min(S)} |-> d.chain[j]]
             e == [d EXCEPT !.chain = g]
  <2>1. disk' = Put(disk, s, e) /\ op' = Put(op, s, p)
    BY <1>5 DEF Compact, NextStale
  <2>2. p.at = "unlinked" /\ p.kind = o.kind /\ p.next = o.next
    BY <1>2, OpAt DEF OpAts, Writing, Renamed
  <2>3. IsChain(d.chain) /\ DOMAIN d.chain # {} /\ n = Max(DOMAIN d.chain)
    BY <1>2, <1>3, NewestState DEF IsDir, HasState
  <2>4. S # {} /\ S = {i \in DOMAIN d.chain : i < n - 1}
    BY <1>5 DEF Stale
  <2>5. p.kind = "append" <=> op[s].kind = "append"
    BY <2>2
  <2> HIDE DEF d, o, p, S, n
  <2>6. IsChain(g) /\ DOMAIN g # {} /\ Max(DOMAIN g) = n /\ g[n] = d.chain[n]
    BY <2>3, <2>4, CompactChain
  <2> HIDE DEF g
  <2>7. e.chain = g /\ e.pending = d.pending
    BY <1>2, <2>6, EditChain
  <2> HIDE DEF e
  <2>8. Has(e) /\ Top(e) = o.next
    BY <1>3, <2>3, <2>6, <2>7 DEF HasState, Latest, Has, Top
  <2>9. CountsOK(e, p, staged[s], snap[s], Loose(s))
    BY <1>1, <1>2, <2>2, <2>8, WriteCounts DEF Writing, Renamed
  <2> QED BY <1>1, <2>1, <2>5, <2>9, StillCount
<1> QED BY <1>4, <1>5

\* The unlink of a terminal payload.
LEMMA PurgePayloadCount ==
    ASSUME Inv, CountInv, NEW s \in Sessions, PurgePayload(s)
    PROVE  CountInv'
<1> DEFINE d == disk[s]
           o == op[s]
           e == [d EXCEPT !.payload = NoFile]
           p == [o EXCEPT !.at = "purged"]
<1>1. o.at = "purge" /\ disk' = Put(disk, s, e) /\ op' = Put(op, s, p) /\ Memory
  BY DEF PurgePayload, memVars, histVars, Memory
<1>2. o \in Ops /\ IsDir(d) /\ CountsOK(d, o, staged[s], snap[s], Loose(s))
  BY CountHere
<1>3. p.at = "purged" /\ p.kind = o.kind /\ p.next = o.next
  BY <1>2, OpAt DEF OpAts, Writing, Renamed
<1>4. p.kind = "append" <=> op[s].kind = "append"
  BY <1>3
<1> HIDE DEF d, o, p
<1>5. e.chain = d.chain /\ e.pending = d.pending
  BY <1>2, EditPayload
<1> HIDE DEF e
<1>6. (Has(e) <=> Has(d)) /\ Top(e) = Top(d)
  BY <1>5, SameEntries
<1>7. CountsOK(e, p, staged[s], snap[s], Loose(s))
  BY <1>1, <1>2, <1>3, <1>6, WriteCounts DEF Writing, Renamed
<1> QED BY <1>1, <1>4, <1>7, StillCount

\* The sync of that unlink releases the bytes.
LEMMA SyncPurgeCount ==
    ASSUME Inv, CountInv, NEW s \in Sessions, SyncPurge(s)
    PROVE  CountInv'
<1> DEFINE d == disk[s]
           o == op[s]
<1>1. /\ o.at = "purged" /\ disk' = disk /\ op' = Put(op, s, NoOp) /\ staged' = Put(staged, s, 0)
      /\ total' = total - staged[s] /\ snap' = snap /\ reserved' = reserved /\ SameLoose
  BY DEF SyncPurge, Released, histVars, SameLoose
<1>0. \A t \in Sessions : Loose(t)' = Loose(t)
  BY <1>1 DEF SameLoose, Loose, Up
<1>2. /\ SessionOK(d, kept[s], o, hand[s]) /\ CountsOK(d, o, staged[s], snap[s], Loose(s)) /\ Maps
      /\ disk = Put(disk, s, d) /\ snap = Put(snap, s, snap[s])
      /\ staged[s] \in Nat /\ total \in Nat /\ reserved \in Nat
  BY CountHere
<1>3. /\ HasState(d) /\ Latest(d) = o.next /\ d.pending = NoRec /\ o.next.st \in Terminal
      /\ o.kind # "append"
  BY <1>1, <1>2 DEF SessionOK, OpOK, WriteOK, Writing, Renamed, Terminal
<1>4. Top(d).st \notin Active
  BY <1>3 DEF Top, Terminal, Active
<1>5. CountsOK(d, NoOp, 0, snap[s], Loose(s)')
  BY <1>0, <1>1, <1>4, Nothing DEF CountsOK, CountsTop, Writing, Renamed
<1>6. total' = total - staged[s] + 0 /\ reserved' = reserved - One(op[s]) + One(NoOp)
  BY <1>1, <1>2, <1>3, Nothing DEF One
<1> HIDE DEF d, o
<1> QED BY <1>0, <1>1, <1>2, <1>5, <1>6, OneCount

\* The end of writeNextState: an append's reservation ends.
LEMMA DoneCount ==
    ASSUME Inv, CountInv, NEW s \in Sessions, Done(s)
    PROVE  CountInv'
<1> DEFINE d == disk[s]
           o == op[s]
           p == IF o.next.st \in Terminal THEN [o EXCEPT !.at = "purge"] ELSE NoOp
<1>1. /\ o.at = "written" /\ disk' = disk /\ op' = Put(op, s, p) /\ staged' = staged
      /\ total' = total /\ snap' = Put(snap, s, o.next) /\ SameLoose
      /\ reserved' = IF o.kind = "append" THEN reserved - 1 ELSE reserved
  BY DEF Done, dirVars, SameLoose
<1>0. \A t \in Sessions : Loose(t)' = Loose(t)
  BY <1>1 DEF SameLoose, Loose, Up
<1>2. /\ SessionOK(d, kept[s], o, hand[s]) /\ CountsOK(d, o, staged[s], snap[s], Loose(s)) /\ Maps
      /\ disk = Put(disk, s, d) /\ staged = Put(staged, s, staged[s]) /\ o \in Ops
      /\ staged[s] \in Nat /\ total \in Nat /\ reserved \in Nat
  BY CountHere
<1>3. /\ HasState(d) /\ Latest(d) = o.next /\ d.pending = NoRec /\ o.next \in Recs
      /\ o.kind = "append" => o.next.st \notin Terminal
  BY <1>1, <1>2 DEF SessionOK, OpOK, WriteOK, Writing, Renamed, Terminal
<1>4. Has(d) /\ Top(d) = o.next /\ o.next # NoRec
  BY <1>3, AbsentAssumption DEF Has, Top
<1>5. [o EXCEPT !.at = "purge"].at = "purge" /\ [o EXCEPT !.at = "purge"].kind = o.kind
      /\ [o EXCEPT !.at = "purge"].next = o.next
  BY <1>2, OpAt DEF OpAts, Writing, Renamed
<1>6. \/ p.at = "idle" /\ p.kind = "none"
      \/ p.at = "purge" /\ p.kind = o.kind /\ p.next = o.next /\ o.next.st \in Terminal
  BY <1>5, Nothing
<1>7. p.kind # "append"
  BY <1>3, <1>6
<1> HIDE DEF d, p
<1>8. CountsOK(d, p, staged[s], o.next, Loose(s)')
  <2>1. o.next.st \in Terminal => o.next.st \notin Active
    BY DEF Terminal, Active
  <2>2. o.at \in Writing /\ o.at \notin Copying
    BY <1>1 DEF Writing, Renamed, Copying
  <2>3. ~Loose(s) /\ o.next.st \in Active => staged[s] = o.next.off
    BY <1>2, <2>2 DEF CountsOK, AppendCounts
  <2>4. p.at \in Writing => o.next.st \in Terminal /\ p.next = o.next
    BY <1>6 DEF Writing, Renamed
  <2> HIDE DEF o
  <2> QED BY <1>0, <1>1, <1>2, <1>4, <1>7, <2>1, <2>3, <2>4 DEF CountsOK, CountsTop
<1>9. total' = total - staged[s] + staged[s] /\ reserved' = reserved - One(op[s]) + One(p)
  BY <1>1, <1>2, <1>7 DEF One
<1> HIDE DEF o
<1> QED BY <1>0, <1>1, <1>2, <1>8, <1>9, OneCount

\* A state write that fails leaves the newest state or the record that follows it.
LEMMA StateWriteFailsCount ==
    ASSUME Inv, CountInv, NEW s \in Sessions, StateWriteFails(s)
    PROVE  CountInv'
<1> DEFINE d == disk[s]
           o == op[s]
           n == staged[s]
           g == snap[s]
           u == Loose(s)
<1>1. /\ SessionOK(d, kept[s], o, hand[s]) /\ CountsOK(d, o, n, g, u) /\ disk = Put(disk, s, d)
      /\ o \in Ops /\ IsDir(d)
  BY CountHere
<1>2. o.at \in Writing \ {"written"} /\ Memory
  BY DEF StateWriteFails, Writing, Renamed, memVars, Memory
<1>3. WriteOK(d, kept[s], o)
  BY <1>1, <1>2 DEF SessionOK, OpOK
<1>4. PICK e : /\ disk' = Put(disk, s, e)
               /\ \/ (Has(e) <=> Has(d)) /\ Top(e) = Top(d)
                  \/ Has(e) /\ Top(e) = o.next
  <2>1. CASE o.at # "write" /\ disk' = disk
    BY <1>1, <2>1
  <2>2. ASSUME o.at = "write", NEW left \in {NoRec, o.next},
               disk' = Put(disk, s, [d EXCEPT !.pending = left])
        PROVE  \E e : /\ disk' = Put(disk, s, e)
                      /\ \/ (Has(e) <=> Has(d)) /\ Top(e) = Top(d)
                         \/ Has(e) /\ Top(e) = o.next
    <3> DEFINE e == [d EXCEPT !.pending = left]
    <3>1. left \in Recs \cup {NoRec} /\ d.pending = NoRec /\ o.next # NoRec
      BY <1>3, <2>2, AbsentAssumption DEF WriteOK
    <3>2. IsDir(d)
      BY <1>1
    <3> HIDE DEF d, o
    <3>3. e.chain = d.chain /\ e.pending = left
      BY <3>1, <3>2, EditPending
    <3> HIDE DEF e
    <3>4. \/ (Has(e) <=> Has(d)) /\ Top(e) = Top(d)
          \/ Has(e) /\ Top(e) = o.next
      BY <2>2, <3>1, <3>3 DEF Has, HasState, Top, Latest
    <3> QED BY <2>2, <3>4 DEF e
  <2> QED BY <2>1, <2>2 DEF StateWriteFails
<1>5. CASE o.kind = "append"
  <2> DEFINE p == [o EXCEPT !.at = "reload"]
  <2>1. op' = Put(op, s, p)
    BY <1>5 DEF StateWriteFails
  <2>2. p.at = "reload" /\ p.kind = o.kind /\ p.next = o.next
    BY <1>1, OpAt DEF OpAts
  <2>3. p.kind = "append" <=> op[s].kind = "append"
    BY <2>2
  <2> HIDE DEF d, o, p, n, g, u
  <2>4. o.at \notin Copying /\ p.at \notin Copying
    BY <1>2, <2>2 DEF Writing, Renamed, Copying
  <2>5. CountsOK(e, p, n, g, u)
    BY <1>1, <1>2, <1>4, <1>5, <2>2, <2>4 DEF CountsOK, AppendCounts
  <2> QED BY <1>2, <1>4, <2>1, <2>3, <2>5, StillCount DEF n, g, u
<1>6. CASE o.kind # "append"
  <2> DEFINE p == IF o.kind = "create" THEN [NoOp EXCEPT !.at = "uncreate"] ELSE NoOp
  <2>1. op' = Put(op, s, p)
    BY <1>6 DEF StateWriteFails
  <2>2. p.at \in {"uncreate", "idle"} /\ p.kind = "none"
    BY Nothing, OpAt DEF OpAts
  <2>3. p.kind = "append" <=> op[s].kind = "append"
    BY <1>6, <2>2
  <2> HIDE DEF d, o, p, n, g, u
  <2>4. CountsOK(e, p, n, g, u)
    BY <1>1, <1>2, <1>4, <1>6, <2>2, EndCounts DEF Writing, Renamed
  <2> QED BY <1>2, <1>4, <2>1, <2>3, <2>4, StillCount DEF n, g, u
<1> QED BY <1>5, <1>6

\* loadSession: a terminal session's bytes are released.
LEMMA LoadCount ==
    ASSUME Inv, CountInv, NEW s \in Sessions, Load(s)
    PROVE  CountInv'
<1> DEFINE d == disk[s]
           o == op[s]
           e == Loaded(d)
           n == IF Latest(e).st \in Terminal THEN 0 ELSE staged[s]
           g == snap'[s]
<1>1. /\ CountsOK(d, o, staged[s], snap[s], Loose(s)) /\ Maps /\ Sound(d) /\ DirOK(d)
      /\ op = Put(op, s, o) /\ staged = Put(staged, s, staged[s]) /\ snap = Put(snap, s, snap[s])
      /\ staged[s] \in Nat /\ total \in Nat /\ reserved \in Nat
      /\ SessionOK(d, kept[s], o, hand[s])
  BY CountHere
<1>2. /\ o.at = "idle" /\ disk' = Put(disk, s, e) /\ op' = op /\ SameLoose /\ reserved' = reserved
      /\ HasState(Promote(d)) /\ snap[s] # NoRec
      /\ (snap' = snap \/ snap' = Put(snap, s, Latest(e)))
  BY DEF Load, jobVars, histVars, Idle, SameLoose
<1>0. \A t \in Sessions : Loose(t)' = Loose(t)
  BY <1>2 DEF SameLoose, Loose, Up
<1>3. staged' = Put(staged, s, n) /\ total' = total - staged[s] + n
  <2>1. CASE Latest(e).st \in Terminal
    BY <1>1, <2>1 DEF Load, Released
  <2>2. CASE Latest(e).st \notin Terminal
    <3>1. staged' = staged /\ total' = total
      BY <2>2 DEF Load
    <3> QED BY <1>1, <2>2, <3>1
  <2> QED BY <2>1, <2>2
<1>4. Has(d) /\ o.kind = "none"
  BY <1>1, <1>2, PromoteOK DEF SessionOK, OpOK
<1>5. Has(e) /\ Top(e) = Top(d) /\ Latest(e) = Top(d) /\ Top(d) \in Recs
  BY <1>1, <1>4, LoadedOK, TopOK DEF Sound
<1>6. g # NoRec /\ snap' = Put(snap, s, g)
  <2>1. CASE snap' = snap
    BY <1>1, <1>2, <2>1
  <2>2. CASE snap' = Put(snap, s, Latest(e))
    <3>1. Put(snap, s, Latest(e))[s] = Latest(e)
      BY PutAt DEF CountInv
    <3> QED BY <1>5, <2>2, <3>1, AbsentAssumption
  <2> QED BY <1>2, <2>1, <2>2
<1>7. n \in Nat /\ (Top(d).st \in Active => n = staged[s])
  BY <1>1, <1>5 DEF Terminal, Active
<1> HIDE DEF d, e, n, g
<1>8. CountsOK(e, o, n, g, Loose(s)')
  BY <1>0, <1>1, <1>2, <1>4, <1>5, <1>6, <1>7 DEF CountsOK, CountsTop, Writing, Renamed
<1>9. reserved' = reserved - One(op[s]) + One(o)
  BY <1>1, <1>2 DEF One
<1> HIDE DEF o
<1> QED BY <1>0, <1>1, <1>2, <1>3, <1>6, <1>8, <1>9, OneCount

\* The load after a failed append: its byte stays counted if the new state is there.
LEMMA ReloadCount ==
    ASSUME Inv, CountInv, NEW s \in Sessions, Reload(s)
    PROVE  CountInv'
<1> DEFINE d == disk[s]
           o == op[s]
           e == Loaded(d)
<1>1. /\ CountsOK(d, o, staged[s], snap[s], Loose(s)) /\ Maps /\ Sound(d) /\ DirOK(d)
      /\ disk = Put(disk, s, d) /\ staged = Put(staged, s, staged[s]) /\ snap = Put(snap, s, snap[s])
      /\ staged[s] \in Nat /\ total \in Nat /\ reserved \in Nat
      /\ SessionOK(d, kept[s], o, hand[s])
  BY CountHere
<1>2. o.at = "reload" /\ op' = Put(op, s, NoOp) /\ sys' = sys
  BY DEF Reload
<1>3. o.kind = "append" /\ snap[s] # NoRec /\ AppendCounts(d, o, staged[s]) /\ o.at \notin Copying
  BY <1>1, <1>2 DEF SessionOK, OpOK, CountsOK, Copying
<1>4. /\ Has(d) /\ (Top(d) = o.next \/ Top(d).off = o.next.off - 1) /\ staged[s] = o.next.off
      /\ o.next \in Recs /\ staged[s] > 0
  BY <1>3 DEF AppendCounts
<1>5. Has(e) /\ Top(e) = Top(d) /\ Latest(e) = Top(d) /\ Top(d) \in Recs
  BY <1>1, <1>4, LoadedOK, TopOK DEF Sound
<1>6. One(op[s]) = 1 /\ One(NoOp) = 0
  BY <1>3, Nothing DEF One
<1>7. NoOp.at \notin Writing /\ NoOp.kind # "append"
  BY Nothing DEF Writing, Renamed
<1>8. CASE /\ disk' = Put(disk, s, e) /\ Latest(e) = o.next /\ reserved' = reserved - 1
           /\ snap' = Put(snap, s, Latest(e)) /\ staged' = staged /\ total' = total /\ unread' = unread
  <2>0. \A t \in Sessions : Loose(t)' = Loose(t)
    BY <1>2, <1>8 DEF Loose, Up
  <2>1. Latest(e) # NoRec
    BY <1>5, AbsentAssumption
  <2> HIDE DEF d, e
  <2>2. CountsOK(e, NoOp, staged[s], Latest(e), Loose(s)')
    BY <1>1, <1>4, <1>5, <1>7, <1>8, <2>0, <2>1 DEF CountsOK, CountsTop
  <2>3. total' = total - staged[s] + staged[s] /\ reserved' = reserved - One(op[s]) + One(NoOp)
    BY <1>1, <1>6, <1>8
  <2> HIDE DEF o
  <2> QED BY <1>1, <1>2, <1>8, <2>0, <2>2, <2>3, OneCount
<1>9. ASSUME NEW x, disk' = Put(disk, s, x), GiveBack(s), snap' = snap, unread \subseteq unread',
             unread' \subseteq unread \cup {s}, s \in unread' \/ (x = e /\ Latest(e) # o.next)
      PROVE  CountInv'
  <2>1. /\ staged' = Put(staged, s, staged[s] - 1) /\ total' = total - 1 /\ reserved' = reserved - 1
    BY <1>9 DEF GiveBack
  <2>2. staged[s] - 1 \in Nat
    BY <1>1, <1>4
  <2>3. ~Loose(s)' => Has(x) /\ Top(x) = Top(d) /\ Top(d).off = staged[s] - 1
    BY <1>4, <1>5, <1>9 DEF Loose
  <2> DEFINE m == staged[s] - 1
  <2>4. CountsOK(x, NoOp, m, snap[s], Loose(s)')
    BY <1>3, <1>7, <2>2, <2>3 DEF CountsOK, CountsTop
  <2>5. total' = total - staged[s] + m /\ reserved' = reserved - One(op[s]) + One(NoOp)
    BY <1>1, <1>6, <2>1
  <2>6. \A t \in Sessions \ {s} : Loose(t)' <=> Loose(t)
    BY <1>2, <1>9 DEF Loose, Up
  <2>7. staged' = Put(staged, s, m) /\ snap' = Put(snap, s, snap[s])
    BY <1>1, <1>9, <2>1
  <2> HIDE DEF d, o, e, m
  <2> QED BY <1>1, <1>2, <1>9, <2>4, <2>5, <2>6, <2>7, OneCount
<1>10. \/ /\ disk' = Put(disk, s, e) /\ unread' = unread
          /\ IF Latest(e) = o.next
               THEN /\ reserved' = reserved - 1 /\ snap' = Put(snap, s, Latest(e))
                    /\ staged' = staged /\ total' = total
               ELSE GiveBack(s) /\ snap' = snap
       \/ /\ GiveBack(s) /\ unread' = unread \cup {s} /\ disk' = disk /\ snap' = snap
  BY DEF Reload, dirVars
<1>11. CASE unread' = unread \cup {s} /\ GiveBack(s) /\ disk' = disk /\ snap' = snap
  BY <1>1, <1>9, <1>11
<1>12. CASE disk' = Put(disk, s, e) /\ unread' = unread /\ Latest(e) # o.next /\ GiveBack(s) /\ snap' = snap
  BY <1>9, <1>12
<1> QED BY <1>8, <1>10, <1>11, <1>12

\* A new session has no bytes yet.
LEMMA CreateCount ==
    ASSUME Inv, CountInv, NEW s \in Sessions, Create(s)
    PROVE  CountInv'
<1> DEFINE e == [NoDir EXCEPT !.payload = <<>>]
           n == [rev |-> 1, st |-> "uploading", off |-> 0, last |-> NoRec, started |-> FALSE]
           p == [at |-> "write", kind |-> "create", next |-> n]
<1>1. /\ disk' = Put(disk, s, e) /\ op' = Put(op, s, p) /\ op[s].at = "idle" /\ snap[s] = NoRec /\ Memory
  BY DEF Create, StartWrite, Idle, memVars, histVars, Memory
<1>2. CountsOK(disk[s], op[s], staged[s], snap[s], Loose(s)) /\ op[s].kind # "append"
  BY <1>1, CountHere DEF SessionOK, OpOK
<1>3. p.at = "write" /\ p.kind = "create" /\ p.next = n /\ n.off = 0
  OBVIOUS
<1>4. e.chain = <<>> /\ e.pending = NoRec
  BY DEF NoDir
<1> HIDE DEF e, n, p
<1>5. ~Has(e)
  BY <1>4 DEF Has, HasState
<1>6. CountsOK(e, p, staged[s], snap[s], Loose(s))
  BY <1>1, <1>2, <1>3, <1>5 DEF CountsOK, CountsTop
<1> QED BY <1>1, <1>2, <1>3, <1>6, StillCount

\* The removal of a directory: after a failed Create, by expiry.
LEMMA RemovalCount ==
    ASSUME Inv, CountInv, NEW s \in Sessions, UndoCreate(s) \/ RemoveDir(s), ~TornRemoval
    PROVE  CountInv'
<1> DEFINE o == op[s]
           p == IF o.at = "uncreate" THEN NoOp ELSE o
<1>1. /\ disk' = Put(disk, s, NoDir) /\ o.at \in {"uncreate", "remove"} /\ Memory
  BY DEF UndoCreate, RemoveDir, Remnants, memVars, histVars, Memory
<1>2. /\ CountsOK(disk[s], o, staged[s], snap[s], Loose(s)) /\ op = Put(op, s, o)
      /\ SessionOK(disk[s], kept[s], o, hand[s])
  BY CountHere
<1>3. op' = Put(op, s, p) /\ p.at \in {"idle", "remove"}
  BY <1>1, <1>2, Nothing DEF UndoCreate, RemoveDir, jobVars
<1>4. o.kind # "append" /\ p.kind # "append"
  BY <1>1, <1>2, Nothing DEF SessionOK, OpOK
<1>5. ~Has(NoDir)
  BY NoDirOK
<1> HIDE DEF p
<1>6. CountsOK(NoDir, p, staged[s], snap[s], Loose(s))
  BY <1>2, <1>3, <1>4, <1>5, EndCounts DEF Writing, Renamed
<1> QED BY <1>1, <1>3, <1>4, <1>6, StillCount

\* The root sync releases the bytes or, failing, leaves them counted.
LEMMA SyncRemovalCount ==
    ASSUME Inv, CountInv, NEW s \in Sessions, SyncRemoval(s)
    PROVE  CountInv'
<1> DEFINE o == op[s]
<1>1. /\ o.at = "remove" /\ disk[s] = NoDir /\ disk' = disk /\ op' = Put(op, s, NoOp)
      /\ reserved' = reserved /\ SameLoose
      /\ \/ Released(s) /\ snap' = Put(snap, s, NoRec)
         \/ staged' = staged /\ total' = total /\ snap' = snap
  BY DEF SyncRemoval, histVars, SameLoose
<1>0. \A t \in Sessions : Loose(t)' = Loose(t)
  BY <1>1 DEF SameLoose, Loose, Up
<1>2. /\ CountsOK(NoDir, o, staged[s], snap[s], Loose(s)) /\ Maps /\ disk = Put(disk, s, NoDir)
      /\ SessionOK(disk[s], kept[s], o, hand[s])
      /\ staged[s] \in Nat /\ total \in Nat /\ reserved \in Nat
  BY <1>1, CountHere
<1>3. o.kind # "append" /\ NoOp.kind # "append" /\ NoOp.at \notin Writing
  BY <1>1, <1>2, Nothing DEF SessionOK, OpOK, Writing, Renamed
<1>4. CASE Released(s) /\ snap' = Put(snap, s, NoRec)
  <2>1. staged' = Put(staged, s, 0) /\ total' = total - staged[s] + 0
    BY <1>2, <1>4 DEF Released
  <2>2. CountsOK(NoDir, NoOp, 0, NoRec, Loose(s)')
    BY <1>3, NoDirOK DEF CountsOK, CountsTop
  <2>3. reserved' = reserved - One(op[s]) + One(NoOp)
    BY <1>1, <1>2, <1>3 DEF One
  <2> HIDE DEF o
  <2> QED BY <1>0, <1>1, <1>2, <1>4, <2>1, <2>2, <2>3, OneCount
<1>5. CASE staged' = staged /\ total' = total /\ snap' = snap
  <2>1. Memory /\ disk' = Put(disk, s, NoDir)
    BY <1>1, <1>2, <1>5 DEF Memory, SameLoose
  <2>2. CountsOK(NoDir, NoOp, staged[s], snap[s], Loose(s))
    BY <1>2, <1>3, EndCounts
  <2> QED BY <1>1, <1>3, <2>1, <2>2, StillCount
<1> QED BY <1>1, <1>4, <1>5

\* AppendChunk reserves a byte.
LEMMA AppendChunkCount ==
    ASSUME Inv, CountInv, NEW s \in Sessions, AppendChunk(s)
    PROVE  CountInv'
<1> DEFINE p == [at |-> "reserved", kind |-> "append", next |-> Rec(s)]
           m == staged[s] + 1
<1>1. /\ op[s].at = "idle" /\ Clean(s) /\ op' = Put(op, s, p) /\ disk' = disk /\ snap' = snap
      /\ staged' = Put(staged, s, m) /\ total' = total + 1 /\ reserved' = reserved + 1
      /\ SameLoose /\ staged[s] = Rec(s).off /\ snap[s] # NoRec
  BY DEF AppendChunk, Open, Idle, dirVars, histVars, SameLoose
<1>0. \A t \in Sessions : Loose(t)' = Loose(t)
  BY <1>1 DEF SameLoose, Loose, Up
<1>2. /\ CountsOK(disk[s], op[s], staged[s], snap[s], Loose(s)) /\ Maps
      /\ disk = Put(disk, s, disk[s]) /\ snap = Put(snap, s, snap[s])
      /\ staged[s] \in Nat /\ total \in Nat /\ reserved \in Nat
      /\ SessionOK(disk[s], kept[s], op[s], hand[s])
  BY CountHere
<1>3. p.at = "reserved" /\ p.kind = "append" /\ p.next = Rec(s) /\ m \in Nat /\ m = staged[s] + 1
  BY <1>2
<1> HIDE DEF p, m
<1>4. CountsOK(disk[s], p, m, snap[s], Loose(s)')
  BY <1>0, <1>1, <1>3 DEF CountsOK, AppendCounts, Copying
<1>5. op[s].kind # "append"
  BY <1>1, <1>2 DEF SessionOK, OpOK
<1>6. total' = total - staged[s] + m /\ reserved' = reserved - One(op[s]) + One(p)
  BY <1>1, <1>2, <1>3, <1>5 DEF One
<1> QED BY <1>0, <1>1, <1>2, <1>4, <1>6, OneCount

\* The copy of the body.
LEMMA WriteChunkCount ==
    ASSUME Inv, CountInv, NEW s \in Sessions, NEW c \in Chunks, WriteChunk(s, c)
    PROVE  CountInv'
<1> DEFINE d == disk[s]
           o == op[s]
           q == Append(d.payload, c)
           e == [d EXCEPT !.payload = q]
           p == [o EXCEPT !.at = "copied"]
<1>1. o.at = "reserved" /\ disk' = Put(disk, s, e) /\ op' = Put(op, s, p) /\ Memory
  BY DEF WriteChunk, memVars, histVars, Memory
<1>2. /\ CountsOK(d, o, staged[s], snap[s], Loose(s)) /\ o \in Ops
      /\ SessionOK(d, kept[s], o, hand[s])
  BY CountHere
<1>3. p.at = "copied" /\ p.kind = o.kind /\ p.next = o.next
  BY <1>2, OpAt DEF OpAts, Copying
<1>4. o.kind = "append"
  BY <1>1, <1>2, CopyFacts DEF CopyOK, Copying
<1>5. CountsOK(e, p, staged[s], snap[s], Loose(s))
  <2> HIDE DEF d, e, o, p
  <2> QED BY <1>1, <1>2, <1>3, <1>4 DEF CountsOK, AppendCounts, Copying
<1>6. p.kind = "append" <=> op[s].kind = "append"
  BY <1>3
<1> HIDE DEF e, p, o, d
<1> QED BY <1>1, <1>5, <1>6, StillCount

\* A chunk that is refused gives its byte back.
LEMMA RejectChunkCount ==
    ASSUME Inv, CountInv, NEW s \in Sessions, RejectChunk(s)
    PROVE  CountInv'
<1> DEFINE d == disk[s]
           o == op[s]
           m == staged[s] - 1
           cut == SubSeq(d.payload, 1, o.next.off)
           e == [d EXCEPT !.payload = cut]
<1>1. /\ o.at \in Copying /\ op' = Put(op, s, NoOp) /\ snap' = snap /\ SameLoose
      /\ staged' = Put(staged, s, m) /\ total' = total - 1 /\ reserved' = reserved - 1
      /\ (disk' = disk \/ disk' = Put(disk, s, e))
  BY DEF RejectChunk, GiveBack, Copying, histVars, SameLoose
<1>0. \A t \in Sessions : Loose(t)' = Loose(t)
  BY <1>1 DEF SameLoose, Loose, Up
<1>2. /\ CountsOK(d, o, staged[s], snap[s], Loose(s)) /\ Maps /\ IsDir(d)
      /\ disk = Put(disk, s, d) /\ snap = Put(snap, s, snap[s])
      /\ staged[s] \in Nat /\ total \in Nat /\ reserved \in Nat
      /\ SessionOK(d, kept[s], o, hand[s])
  BY CountHere
<1>3. /\ o.kind = "append" /\ Top(d) = o.next /\ o.next.off \in Nat /\ Has(d)
      /\ d.payload \in Payloads /\ o.next.off <= Len(d.payload)
  BY <1>1, <1>2, CopyFacts DEF CopyOK
<1>4. snap[s] # NoRec /\ m = o.next.off /\ m \in Nat
  BY <1>1, <1>2, <1>3 DEF CountsOK, AppendCounts
<1>5. cut \in Payloads
  BY <1>3, CutBack
<1>6. total' = total - staged[s] + m /\ reserved' = reserved - One(op[s]) + One(NoOp)
  BY <1>1, <1>2, <1>3, Nothing DEF One
<1> HIDE DEF d, cut
<1>7. e.chain = d.chain /\ e.pending = d.pending
  BY <1>2, <1>5, EditPayload
<1> HIDE DEF e, m
<1>8. \A x : (Has(x) => Top(x) = Top(d)) => CountsOK(x, NoOp, m, snap[s], Loose(s)')
  BY <1>0, <1>3, <1>4, Nothing DEF CountsOK, CountsTop, Writing, Renamed
<1>9. CountsOK(d, NoOp, m, snap[s], Loose(s)') /\ CountsOK(e, NoOp, m, snap[s], Loose(s)')
  BY <1>0, <1>7, <1>8, SameEntries
<1> HIDE DEF o
<1>10. CASE disk' = disk
  BY <1>0, <1>1, <1>2, <1>6, <1>9, <1>10, OneCount
<1>11. CASE disk' = Put(disk, s, e)
  BY <1>0, <1>1, <1>2, <1>6, <1>9, <1>11, OneCount
<1> QED BY <1>1, <1>10, <1>11

\* The state that counts the chunk is prepared.
LEMMA SyncChunkCount ==
    ASSUME Inv, CountInv, NEW s \in Sessions, SyncChunk(s)
    PROVE  CountInv'
<1> DEFINE d == disk[s]
           o == op[s]
           c == d.payload[o.next.off + 1]
           n == Grown(o.next, c)
           p == [at |-> "write", kind |-> "append", next |-> n]
<1>1. o.at = "copied" /\ disk' = disk /\ op' = Put(op, s, p) /\ Memory
  BY DEF SyncChunk, StartWrite, memVars, histVars, Memory
<1>2. /\ CountsOK(d, o, staged[s], snap[s], Loose(s)) /\ disk = Put(disk, s, d)
      /\ SessionOK(d, kept[s], o, hand[s])
  BY CountHere
<1>3. /\ CopyOK(d, kept[s], o) /\ d.payload \in Payloads /\ Has(d) /\ Top(d) = o.next /\ o.next \in Recs
      /\ ValidRec(o.next) /\ o.next.off \in Nat
  BY <1>1, <1>2, CopyFacts DEF Copying
<1>4. c \in Chunks
  <2>1. Len(d.payload) = o.next.off + 1
    BY <1>1, <1>3 DEF CopyOK
  <2> HIDE DEF d, o
  <2> QED BY <1>3, <2>1 DEF Payloads
<1>5. n \in Recs /\ n.off = o.next.off + 1
  <2> HIDE DEF c, d, o
  <2> QED BY <1>3, <1>4, NextOfAppend DEF CopyOK, Grown
<1>6. p.at = "write" /\ p.kind = "append" /\ p.next = n
  OBVIOUS
<1> HIDE DEF n, p, c
<1>7. o.kind = "append" /\ snap[s] # NoRec /\ staged[s] = o.next.off + 1
  BY <1>1, <1>2, <1>3 DEF CountsOK, AppendCounts, CopyOK, Copying
<1>8. CountsOK(d, p, staged[s], snap[s], Loose(s))
  <2>1. p.at \in Writing /\ p.at \notin Copying
    BY <1>6 DEF Writing, Copying, Renamed
  <2>2. staged[s] \in Nat /\ n.off > 0 /\ Top(d).off = n.off - 1
    BY <1>3, <1>5, <1>7
  <2> HIDE DEF d, o
  <2> QED BY <1>3, <1>5, <1>6, <1>7, <2>1, <2>2 DEF CountsOK, AppendCounts
<1>9. p.kind = "append" <=> op[s].kind = "append"
  BY <1>6, <1>7
<1> HIDE DEF d, o
<1> QED BY <1>1, <1>2, <1>8, <1>9, StillCount

\* Directories, operations and counters stay.
LEMMA AsideCount ==
    ASSUME CountInv, disk' = disk, op' = op, staged' = staged, snap' = snap, total' = total,
           reserved' = reserved, unread' = unread, Up \/ ~Up'
    PROVE  CountInv'
<1>1. \A t \in Sessions : Loose(t) => Loose(t)'
  BY DEF Loose
<1>2. \A t \in Sessions : CountsOK(disk[t], op[t], staged[t], snap[t], Loose(t)')
  BY <1>1 DEF CountInv, CountsOK
<1> QED BY <1>2 DEF CountInv, Appending

\* A transition keeps the offset of the session.
LEMMA StartWriteCount ==
    ASSUME Inv, CountInv, NEW s \in Sessions, Idle(s), Clean(s), NEW kind,
           NEW n, StartWrite(s, kind, n), kind # "append", n.off = Rec(s).off,
           Rec(s).st \in Active, disk' = disk, Memory
    PROVE  CountInv'
<1> DEFINE p == [at |-> "write", kind |-> kind, next |-> n]
<1>1. p.at = "write" /\ p.kind = kind /\ p.next = n /\ op' = Put(op, s, p)
  BY DEF StartWrite
<1>2. /\ CountsOK(disk[s], op[s], staged[s], snap[s], Loose(s)) /\ disk = Put(disk, s, disk[s])
      /\ SessionOK(disk[s], kept[s], op[s], hand[s])
  BY CountHere
<1>3. op[s].kind # "append" /\ Has(disk[s]) /\ Top(disk[s]) = Rec(s)
  BY <1>2, CleanHere DEF Idle, SessionOK, OpOK
<1> HIDE DEF p
<1>4. CountsOK(disk[s], p, staged[s], snap[s], Loose(s))
  BY <1>1, <1>2, <1>3 DEF CountsOK, CountsTop
<1> QED BY <1>1, <1>2, <1>3, <1>4, StillCount

\* The record of a transition has the offset of the one before.
LEMMA TurnedOff == ASSUME NEW r, NEW st, NEW b PROVE Turned(r, st, b).off = r.off
BY DEF Turned

\* Commit, cancel, reconciliation and expiry count nothing.
LEMMA HandlerCount ==
    ASSUME Inv, CountInv, NEW s \in Sessions, Up,
           \/ Commit(s) \/ Cancel(s) \/ Admit(s) \/ Withdraw(s) \/ StartPublication(s)
           \/ Publish(s) \/ Decide(s) \/ Reconcile(s) \/ Settle(s) \/ ReplayChunk(s)
    PROVE  CountInv'
<1>1. disk' = disk /\ Memory
  BY DEF Commit, Cancel, Admit, Withdraw, StartPublication, Publish, Decide, Reconcile, Settle,
         ReplayChunk, dirVars, memVars, histVars, Memory
<1>2. CASE op' = op
  BY <1>1, <1>2, AsideCount DEF Memory
<1>3. ASSUME NEW kind, NEW st, NEW b, kind # "append", Idle(s), Clean(s), Rec(s).st \in Active,
             StartWrite(s, kind, Turned(Rec(s), st, b))
      PROVE  CountInv'
  <2> DEFINE n == Turned(Rec(s), st, b)
  <2>1. n.off = Rec(s).off /\ StartWrite(s, kind, n)
    BY <1>3, TurnedOff
  <2> HIDE DEF n
  <2> QED BY <1>1, <1>3, <2>1, StartWriteCount
<1>4. ASSUME NEW st, st # "append", hand[s].at \in Deciding, Resolve(s, st)
      PROVE  CountInv'
  <2>1. Clean(s) /\ Idle(s)
    BY <1>4 DEF Resolve
  <2>2. Rec(s).st \in Active
    BY <1>4, <2>1, Decider, CleanHere DEF Active
  <2> DEFINE b == Rec(s).started /\ st # "ready"
  <2>3. StartWrite(s, st, Turned(Rec(s), st, b))
    BY <1>4 DEF Resolve
  <2> HIDE DEF b
  <2> QED BY <1>3, <1>4, <2>1, <2>2, <2>3
<1>5. CASE Commit(s)
  <2>1. Idle(s) /\ Clean(s) /\ StartWrite(s, "begin", Turned(Rec(s), "committing", FALSE))
        /\ Rec(s).st \in Active
    BY <1>5 DEF Commit, Open, Active
  <2> QED BY <1>3, <2>1
<1>6. CASE Cancel(s)
  <2>1. Idle(s) /\ Clean(s) /\ StartWrite(s, "cancelled", Turned(Rec(s), "cancelled", Rec(s).started))
        /\ Rec(s).st \in Active
    BY <1>6 DEF Cancel, Open, Active
  <2> QED BY <1>3, <2>1
<1>7. CASE StartPublication(s)
  <2>1. /\ Idle(s) /\ Clean(s) /\ StartWrite(s, "start", Turned(Rec(s), Rec(s).st, TRUE))
        /\ hand[s].at \in Deciding
    BY <1>7 DEF StartPublication, Deciding
  <2>2. Rec(s).st \in Active
    BY <2>1, Decider, CleanHere DEF Active
  <2> QED BY <1>3, <2>1, <2>2
<1>8. CASE Admit(s) \/ Publish(s) \/ Reconcile(s) \/ ReplayChunk(s)
  BY <1>2, <1>8 DEF Admit, Publish, Reconcile, ReplayChunk, jobVars
<1>9. CASE Withdraw(s)
  <2> DEFINE st == IF hand[s].at = "rollback" \/ Original(s, target) THEN "ready" ELSE "conflict"
  <2>1. st # "append" /\ hand[s].at \in Deciding /\ Resolve(s, st)
    BY <1>9 DEF Withdraw, Deciding
  <2> HIDE DEF st
  <2> QED BY <1>4, <2>1
<1>10. CASE Decide(s)
  <2>1. hand[s].at \in Deciding
    BY <1>10 DEF Decide, Deciding
  <2> DEFINE st == IF hand[s].at = "failed" /\ Original(s, target) THEN "ready" ELSE "conflict"
  <2>2. op' = op \/ Resolve(s, "committed") \/ Resolve(s, st)
    BY <1>10 DEF Decide
  <2>3. st # "append"
    OBVIOUS
  <2> HIDE DEF st
  <2> QED BY <1>2, <1>4, <2>1, <2>2, <2>3
<1>11. CASE Settle(s)
  <2>1. hand[s].at \in Deciding
    BY <1>11 DEF Settle, Deciding
  <2> DEFINE st == Verdict(s, hand[s].ev)
  <2>2. op' = op \/ Resolve(s, st)
    BY <1>11 DEF Settle
  <2>3. st # "append"
    BY DEF Verdict
  <2> HIDE DEF st
  <2> QED BY <1>2, <1>4, <2>1, <2>2, <2>3
<1> QED BY <1>5, <1>6, <1>7, <1>8, <1>9, <1>10, <1>11

\* The second look of CleanupExpired.
LEMMA VisitListedCount ==
    ASSUME Inv, CountInv, NEW s \in Sessions, VisitListed(s), Up
    PROVE  CountInv'
<1> DEFINE p == [at |-> "remove", kind |-> "expire", next |-> NoRec]
<1>1. op[s].at = "idle" /\ disk' = disk /\ Memory /\ (op' = op \/ op' = Put(op, s, p))
  BY DEF VisitListed, Idle, dirVars, memVars, histVars, Memory
<1>2. /\ CountsOK(disk[s], op[s], staged[s], snap[s], Loose(s)) /\ disk = Put(disk, s, disk[s])
      /\ SessionOK(disk[s], kept[s], op[s], hand[s])
  BY CountHere
<1>3. p.at = "remove" /\ p.kind = "expire" /\ op[s].kind # "append"
  BY <1>1, <1>2 DEF SessionOK, OpOK
<1> HIDE DEF p
<1>4. CountsOK(disk[s], p, staged[s], snap[s], Loose(s))
  BY <1>2, <1>3, EndCounts DEF Writing, Renamed
<1>5. CASE op' = op
  BY <1>1, <1>5, AsideCount DEF Memory
<1>6. CASE op' = Put(op, s, p)
  BY <1>1, <1>2, <1>3, <1>4, <1>6, StillCount
<1> QED BY <1>1, <1>5, <1>6

\* Nothing is counted and nobody appends.
LEMMA NothingCounted ==
    ASSUME NEW f, f = [s \in Sessions |-> 0], NEW o, o = [s \in Sessions |-> NoOp]
    PROVE  SumOver(f, Sessions) = 0 /\ Cardinality({s \in Sessions : o[s].kind = "append"}) = 0
<1>1. {s \in Sessions : o[s].kind = "append"} = {}
  BY Nothing
<1>2. \A s \in Sessions : f[s] = 0
  OBVIOUS
<1> QED BY <1>1, <1>2, SumZero, FS_EmptySet

\* The memory of the process is gone.
LEMMA DieCount ==
    ASSUME CountInv, Die
    PROVE  CountInv'
<1>1. /\ snap' = [s \in Sessions |-> NoRec] /\ staged' = [s \in Sessions |-> 0] /\ total' = 0
      /\ reserved' = 0 /\ op' = [s \in Sessions |-> NoOp] /\ ~Up'
  BY DEF Die, Up
<1>2. total' = SumOver(staged', Sessions) /\ reserved' = Cardinality(Appending')
  BY <1>1, NothingCounted DEF Appending
<1>3. \A d, u : u => CountsOK(d, NoOp, 0, NoRec, u)
  BY Nothing DEF CountsOK
<1>4. \A s \in Sessions : CountsOK(disk'[s], op'[s], staged'[s], snap'[s], Loose(s)')
  BY <1>1, <1>3 DEF Loose
<1> QED BY <1>1, <1>2, <1>4 DEF CountInv

\* Open and recoverAll count what they find.
LEMMA RestartCount ==
    ASSUME Inv, Asleep, CountInv, Restart
    PROVE  CountInv'
<1>1. op' = op /\ unread' = unread /\ reserved' = reserved /\ ~Up
  BY DEF Restart, jobVars, histVars, Up
<1>2. CASE \A s \in Sessions : Loadable(disk[s])
  <2> DEFINE D == [s \in Sessions |-> Loaded(disk[s])]
             live == {s \in Sessions : HasState(D[s])}
  <2>1. /\ disk' = D /\ snap' = [s \in Sessions |-> IF s \in live THEN Latest(D[s]) ELSE NoRec]
        /\ staged' = [s \in Sessions |->
              IF s \in live /\ Latest(D[s]).st \in Active THEN Latest(D[s]).off ELSE 0]
        /\ total' = SumOver(staged', Sessions)
    BY <1>2 DEF Restart
  <2>2. ASSUME NEW s \in Sessions
        PROVE  CountsOK(disk'[s], op'[s], staged'[s], snap'[s], Loose(s)')
    <3> DEFINE d == disk[s]
               e == Loaded(d)
    <3>1. Sound(d) /\ DirOK(d) /\ op[s].at = "idle" /\ op[s].kind = "none"
      BY <1>1, CountHere DEF Asleep, SessionOK, OpOK
    <3>2. disk'[s] = e /\ op'[s] = op[s] /\ D[s] = e
      BY <1>1, <2>1
    <3>3. snap'[s] = IF HasState(e) THEN Latest(e) ELSE NoRec
      BY <2>1
    <3>4. staged'[s] = IF HasState(e) /\ Latest(e).st \in Active THEN Latest(e).off ELSE 0
      BY <2>1
    <3>5. (HasState(e) <=> Has(d)) /\ (Has(e) <=> Has(d))
      BY <3>1, LoadedSound
    <3>6. Has(d) => Latest(e) = Top(d) /\ Top(e) = Top(d) /\ Top(d) \in Recs
      BY <3>1, LoadedOK, TopOK DEF Sound
    <3>7. Has(d) => Top(d) # NoRec /\ Top(d).off \in Nat
      BY <3>6, AbsentAssumption, UploadAssumption DEF Recs
    <3> HIDE DEF d, e
    <3> QED BY <3>1, <3>2, <3>3, <3>4, <3>5, <3>6, <3>7 DEF CountsOK, CountsTop, Writing, Renamed
  <2>3. snap' = [s \in Sessions |-> snap'[s]] /\ staged' = [s \in Sessions |-> staged'[s]]
    BY <2>1
  <2>4. reserved' = Cardinality(Appending')
    BY <1>1 DEF Appending, CountInv
  <2> HIDE DEF D, live
  <2> QED BY <2>1, <2>2, <2>3, <2>4 DEF CountInv
<1>3. CASE ~\A s \in Sessions : Loadable(disk[s])
  <2>1. disk' = disk /\ snap' = snap /\ staged' = staged /\ total' = total /\ ~Up'
    BY <1>3 DEF Restart, dirVars, Up
  <2> QED BY <1>1, <2>1, AsideCount
<1> QED BY <1>2, <1>3

\* Every step of a session, one lemma per action.
LEMMA SessionStepCount ==
    ASSUME Inv, CountInv, NEW s \in Sessions, ~TornRemoval, Up,
           Step(s) \/ Request(s) \/ StateWriteFails(s) \/ VisitListed(s)
    PROVE  CountInv'
<1>1. CASE Step(s)
  <2>1. CASE NameState(s) \/ SyncState(s) \/ Compact(s) \/ Done(s) \/ PurgePayload(s) \/ SyncPurge(s)
    BY <2>1, NameStateCount, SyncStateCount, CompactCount, DoneCount, PurgePayloadCount, SyncPurgeCount
  <2>2. CASE Reload(s) \/ UndoCreate(s) \/ SyncChunk(s) \/ RemoveDir(s) \/ SyncRemoval(s)
    BY <2>2, ReloadCount, RemovalCount, SyncChunkCount, SyncRemovalCount
  <2>3. CASE Admit(s) \/ Withdraw(s) \/ StartPublication(s) \/ Publish(s) \/ Decide(s) \/ Settle(s)
    BY <2>3, HandlerCount
  <2> QED BY <1>1, <2>1, <2>2, <2>3 DEF Step
<1>2. CASE Request(s)
  <2>1. CASE Create(s) \/ AppendChunk(s) \/ (\E c \in Chunks : WriteChunk(s, c)) \/ RejectChunk(s)
    BY <2>1, CreateCount, AppendChunkCount, WriteChunkCount, RejectChunkCount
  <2>2. CASE Commit(s) \/ Cancel(s) \/ Reconcile(s) \/ ReplayChunk(s)
    BY <2>2, HandlerCount
  <2> QED BY <1>2, <2>1, <2>2, LoadCount DEF Request
<1> QED BY <1>1, <1>2, StateWriteFailsCount, VisitListedCount

\* Every step.
LEMMA NextCount ==
    ASSUME Inv, Asleep, CountInv, ~TornRemoval, [Next]_vars
    PROVE  CountInv'
<1>1. CASE \E s \in Sessions : Step(s) \/ Request(s) \/ StateWriteFails(s) \/ VisitListed(s)
  BY <1>1, Awake, SessionStepCount
<1>2. CASE \/ (\E s \in Sessions : TimePasses(s)) \/ ListExpired \/ OtherChanges \/ Serve \/ GiveUp
           \/ AllQuiet \/ UNCHANGED vars
  <2>1. /\ disk' = disk /\ op' = op /\ staged' = staged /\ snap' = snap /\ total' = total
        /\ reserved' = reserved /\ unread' = unread /\ (Up \/ ~Up')
    BY <1>2 DEF TimePasses, ListExpired, OtherChanges, Serve, GiveUp, AllQuiet, vars, dirVars, memVars,
                jobVars, histVars, Up, Serving
  <2> QED BY <2>1, AsideCount
<1>3. CASE Kill \/ PowerLoss \/ Restart
  BY <1>3, DieCount, RestartCount DEF Kill, PowerLoss
<1> QED BY <1>1, <1>2, <1>3 DEF Next

\* The empty store counts nothing.
LEMMA InitCount == Init => CountInv
<1> SUFFICES ASSUME Init PROVE CountInv
  OBVIOUS
<1>1. /\ disk = [s \in Sessions |-> NoDir] /\ op = [s \in Sessions |-> NoOp]
      /\ snap = [s \in Sessions |-> NoRec] /\ staged = [s \in Sessions |-> 0] /\ total = 0 /\ reserved = 0
  BY DEF Init
<1>2. total = SumOver(staged, Sessions) /\ reserved = Cardinality(Appending)
  BY <1>1, NothingCounted DEF Appending
<1>3. \A u : CountsOK(NoDir, NoOp, 0, NoRec, u)
  BY NoDirOK, Nothing DEF CountsOK, CountsTop, Writing, Renamed
<1> QED BY <1>1, <1>2, <1>3 DEF CountInv

\* Counted for every instance: stagedBytes is the sum of what is counted by session,
\* physicalReservedBytes the number of appends under way, and an idle session counts its
\* durable offset unless a failed append could not be read again, over every failing
\* state write, reload, expiry, kill and restart.
THEOREM CountersAddUp == ASSUME ~TornRemoval PROVE Spec => []Counted
<1>1. Init => Inv /\ Asleep /\ CountInv
  BY InitInv, InitCount
<1>2. Inv /\ Asleep /\ CountInv /\ [Next]_vars => (Inv /\ Asleep /\ CountInv)'
  BY NextInv, NextCount
<1>3. Inv /\ CountInv => Counted
  <2> SUFFICES ASSUME Inv, CountInv PROVE Counted
    OBVIOUS
  <2>1. ASSUME NEW s \in Sessions, Up, Idle(s), s \notin unread, HasState(Promote(disk[s]))
        PROVE  LET r == Latest(Promote(disk[s])) IN r.st \in Active => staged[s] = r.off
    <3>1. CountsOK(disk[s], op[s], staged[s], snap[s], Loose(s)) /\ DirOK(disk[s])
          /\ op[s].kind # "append" /\ ~Loose(s)
      BY <2>1, CountHere DEF Idle, SessionOK, OpOK, Loose
    <3>2. Has(disk[s]) /\ Latest(Promote(disk[s])) = Top(disk[s])
      BY <2>1, <3>1, PromoteOK
    <3> QED BY <3>1, <3>2 DEF CountsOK, CountsTop
  <2> QED BY <2>1 DEF Counted, CountInv, Appending, Up
<1> QED BY <1>1, <1>2, <1>3, PTL DEF Spec
=============================================================================
