----------------------------- MODULE CasProofs ------------------------------
(***************************************************************************)
(* Theorems about CasStore, for any number of calls and hashes, any bound  *)
(* on faults, cut-off calls, restarts and damage.                          *)
(***************************************************************************)
EXTENDS CasStore, FiniteSetTheorems, WellFoundedInduction, TLAPS

(***************************************************************************)
(* Types                                                                   *)
(***************************************************************************)

CallType == [op : {"idle", "chunk", "file", "get", "list", "scrub"},
             mode : {"put", "delete"},
             at : {"ask", "wait", "look", "write", "sync", "free", "tidy",
                   "end", "zst", "plain", "page"},
             hash : Hashes \cup {0}, todo : Seq(Hashes), arc : Arcs \cup {0},
             result : {"none", "known", "new", "error", "absent", "gone"},
             made : Seq(Hashes), added : Nat, sure : BOOLEAN,
             got : SUBSET Hashes, through : SUBSET Hashes,
             known : SUBSET Hashes]

FilesType == /\ casSeen \in [Hashes -> SUBSET Forms]
             /\ casDur \in [Hashes -> SUBSET Forms]
             /\ casRot \in [Hashes -> SUBSET Forms]
             /\ casDurRot \in [Hashes -> SUBSET Forms] /\ casIndex \subseteq Hashes
             /\ casPromise \subseteq Hashes

LocksType == /\ casArc \in [Hashes -> Arcs \cup {0}]
             /\ casHolder \in [Arcs -> CasCalls \cup {NobodyHolds}]

CasTypeOK == FilesType /\ LocksType /\ casCall \in [CasCalls -> CallType]

\* A call without a record of its own has no lock and no hash.
LEMMA UnusedType == Unused \in CallType
  BY DEF Unused, CallType

LEMMA UnusedFields ==
  /\ Unused.op = "idle" /\ Unused.mode = "put" /\ Unused.at = "ask" /\ Unused.hash = 0
  /\ Unused.todo = <<>> /\ Unused.arc = 0 /\ Unused.sure = FALSE /\ Unused.got = {}
  /\ Unused.through = {} /\ Unused.known = {}
  BY DEF Unused

LEMMA ArcsType == /\ IsFiniteSet(CasCalls) /\ IsFiniteSet(Hashes)
                  /\ Cardinality(CasCalls) \in Nat /\ Cardinality(Hashes) \in Nat
                  /\ IsFiniteSet(Arcs) /\ Arcs \subseteq Nat \ {0}
                  /\ Cardinality(Arcs) = Cardinality(CasCalls) + Cardinality(Hashes)
<1>1. IsFiniteSet(CasCalls) /\ IsFiniteSet(Hashes)
  BY HashAssumption
<1>2. Cardinality(CasCalls) \in Nat /\ Cardinality(Hashes) \in Nat
  BY <1>1, FS_CardinalityType
<1> DEFINE n == Cardinality(CasCalls) + Cardinality(Hashes)
<1>3. n \in Nat
  BY <1>2
<1> HIDE DEF n
<1>4. IsFiniteSet(1..n) /\ Cardinality(1..n) = n
  BY <1>3, FS_Interval, 1 \in Int
<1> QED
  BY <1>1, <1>2, <1>3, <1>4 DEF Arcs, n

\* The next call of a handler that goes on, or its end.
LEMMA NextType ==
  ASSUME NEW this \in CallType, this.hash \in Hashes
  PROVE  RolledBack(this) \in CallType /\ Stored1(this) \in CallType
<1>1. RolledBack(this) \in CallType
  <2>1. CASE this.made = <<>>
    BY <2>1, UnusedType DEF RolledBack
  <2>2. CASE this.made # <<>>
    <3>1. this.made \in Seq(Hashes) /\ Len(this.made) \in Nat \ {0}
      BY <2>2 DEF CallType
    <3>2. this.made[Len(this.made)] \in Hashes
      BY <3>1
    <3>3. SubSeq(this.made, 1, Len(this.made) - 1) \in Seq(Hashes)
      BY <3>1
    <3> QED
      BY <2>2, <3>2, <3>3 DEF RolledBack, CallType
  <2> QED
    BY <2>1, <2>2
<1>2. Stored1(this) \in CallType
  <2>1. CASE this.todo = <<>>
    BY <2>1, UnusedType DEF Stored1
  <2>2. CASE this.todo # <<>>
    <3>1. this.todo \in Seq(Hashes) /\ this.made \in Seq(Hashes) /\ this.added \in Nat
      BY DEF CallType
    <3>2. Head(this.todo) \in Hashes /\ Tail(this.todo) \in Seq(Hashes)
      BY <3>1, <2>2
    <3>3. Append(this.made, this.hash) \in Seq(Hashes)
      BY <3>1
    <3> DEFINE m == IF this.result = "new" THEN Append(this.made, this.hash)
                                           ELSE this.made
               n == this.added + 1
               h == Head(this.todo)
               r == Tail(this.todo)
    <3>4. m \in Seq(Hashes) /\ n \in Nat
      BY <3>1, <3>3
    <3>5. Stored1(this) = [this EXCEPT !.added = n, !.made = m, !.at = "ask",
                                       !.arc = 0, !.hash = h, !.todo = r]
      BY <2>2 DEF Stored1, CallType
    <3>6. h \in Hashes /\ r \in Seq(Hashes)
      BY <3>2
    <3> HIDE DEF m, n, h, r
    <3> QED
      BY <3>4, <3>5, <3>6 DEF CallType
  <2> QED
    BY <2>1, <2>2
<1> QED
  BY <1>1, <1>2

(***************************************************************************)
(* What a call's place says of its fields, and the mutex it names          *)
(***************************************************************************)

Naming == {"wait", "look", "write", "sync", "free", "tidy"}
Holding == {"look", "write", "sync", "free"}

\* Writers and deleters go through the lock; readers and listings do not.
ShapeOK(this) ==
    /\ this.op = "idle" => this = Unused
    /\ this.at \in {"zst", "plain"} <=> this.op \in {"get", "scrub"}
    /\ this.at = "page" <=> this.op = "list"
    /\ this.op \notin {"idle", "list"} => this.hash \in Hashes
    /\ this.arc # 0 <=> this.at \in Naming \cup {"end"}

ShapesOK == \A c \in CasCalls : ShapeOK(casCall[c])

\* The Arc a call has taken stays the one in the map until the call is done
\* with it, whoever holds the mutex is the one at work, and no two hashes
\* share an Arc.
HashLockOK ==
    /\ \A c \in CasCalls :
          /\ casCall[c].at \in Naming => casArc[casCall[c].hash] = casCall[c].arc
          /\ casCall[c].at \in Holding => casHolder[casCall[c].arc] = c
    /\ \A g, h \in Hashes : casArc[g] = casArc[h] /\ casArc[g] # 0 => g = h

LockInv == CasTypeOK /\ ShapesOK /\ HashLockOK

\* Nobody but c and the map refers to the Arc of h.
LEMMA OnlyOne ==
  ASSUME LockInv, NEW c \in CasCalls, NEW h \in Hashes, NEW a \in Arcs,
         casArc[h] = a, OtherRefs(c, a) = 1
  PROVE  \A d \in CasCalls \ {c} : casCall[d].arc # a
<1> DEFINE D == {d \in CasCalls \ {c} : casCall[d].arc = a}
           H == {g \in Hashes : casArc[g] = a}
<1>1. IsFiniteSet(D) /\ IsFiniteSet(H)
  BY ArcsType, FS_Subset, D \in SUBSET CasCalls, H \in SUBSET Hashes
<1>2. Cardinality(D) \in Nat /\ Cardinality(H) \in Nat
  BY <1>1, FS_CardinalityType
<1>3. h \in H
  OBVIOUS
<1>4. Cardinality(H) # 0
  BY <1>1, <1>3, FS_EmptySet
<1>5. Cardinality(D) + Cardinality(H) = 1
  BY DEF OtherRefs
<1>6. Cardinality(D) = 0
  BY <1>2, <1>4, <1>5
<1>7. D = {}
  BY <1>1, <1>6, FS_EmptySet
<1> QED
  BY <1>7

\* Arcs enough: whenever the map has none for a hash, one is free.
LEMMA FreshArc ==
  ASSUME LockInv, NEW c \in CasCalls, NEW h \in Hashes, casArc[h] = 0
  PROVE  \E b \in Arcs : OtherRefs(c, b) = 0
<1> DEFINE D == CasCalls \ {c}
           H == Hashes \ {h}
           f == [d \in D |-> casCall[d].arc]
           g == [k \in H |-> casArc[k]]
           U == {f[d] : d \in D}
           V == {g[k] : k \in H}
<1>1. /\ IsFiniteSet(D) /\ Cardinality(D) = Cardinality(CasCalls) - 1
      /\ IsFiniteSet(H) /\ Cardinality(H) = Cardinality(Hashes) - 1
  BY ArcsType, FS_RemoveElement
<1>2. IsFiniteSet(U) /\ Cardinality(U) <= Cardinality(D)
  <2>1. f \in Surjection(D, U)
    BY DEF Surjection
  <2> QED
    BY <1>1, <2>1, FS_Surjection
<1>3. IsFiniteSet(V) /\ Cardinality(V) <= Cardinality(H)
  <2>1. g \in Surjection(H, V)
    BY DEF Surjection
  <2> QED
    BY <1>1, <2>1, FS_Surjection
<1>4. IsFiniteSet(U \cup V) /\ Cardinality(U \cup V) <= Cardinality(U) + Cardinality(V)
  <2>1. /\ IsFiniteSet(U \cup V)
        /\ Cardinality(U \cup V) = Cardinality(U) + Cardinality(V) - Cardinality(U \cap V)
    BY <1>2, <1>3, FS_Union
  <2>2. IsFiniteSet(U \cap V)
    BY <1>2, FS_Intersection
  <2>3. Cardinality(U \cap V) \in Nat /\ Cardinality(U) \in Nat /\ Cardinality(V) \in Nat
    BY <2>2, <1>2, <1>3, FS_CardinalityType
  <2> QED
    BY <2>1, <2>3
<1>5. Cardinality(U \cup V) < Cardinality(Arcs)
  <2>1. /\ Cardinality(U) \in Nat /\ Cardinality(V) \in Nat /\ Cardinality(U \cup V) \in Nat
        /\ Cardinality(D) \in Nat /\ Cardinality(H) \in Nat
    BY <1>1, <1>2, <1>3, <1>4, FS_CardinalityType
  <2> HIDE DEF U, V, D, H
  <2> QED
    BY <2>1, <1>1, <1>2, <1>3, <1>4, ArcsType
<1>6. PICK b \in Arcs : b \notin U \cup V
  <2>1. SUFFICES ASSUME Arcs \subseteq U \cup V
                 PROVE  FALSE
    OBVIOUS
  <2>2. Cardinality(Arcs) <= Cardinality(U \cup V)
    BY <2>1, <1>4, FS_Subset
  <2>3. Cardinality(Arcs) \in Nat /\ Cardinality(U \cup V) \in Nat
    BY <1>4, ArcsType, FS_CardinalityType
  <2> QED
    BY <2>2, <2>3, <1>5
<1>7. {d \in CasCalls \ {c} : casCall[d].arc = b} = {}
  BY <1>6
<1>8. {k \in Hashes : casArc[k] = b} = {}
  BY <1>6, ArcsType
<1>9. OtherRefs(c, b) = Cardinality({}) + Cardinality({})
  BY <1>7, <1>8 DEF OtherRefs
<1>10. OtherRefs(c, b) = 0
  BY <1>9, FS_EmptySet
<1> QED
  BY <1>6, <1>10

\* What a free Arc is free of.
LEMMA FreeOf ==
  ASSUME LockInv, NEW c \in CasCalls, NEW b \in Arcs, OtherRefs(c, b) = 0
  PROVE  /\ \A d \in CasCalls \ {c} : casCall[d].arc # b
         /\ \A k \in Hashes : casArc[k] # b
<1> DEFINE D == {d \in CasCalls \ {c} : casCall[d].arc = b}
           H == {g \in Hashes : casArc[g] = b}
<1>1. IsFiniteSet(D) /\ IsFiniteSet(H)
  BY ArcsType, FS_Subset, D \in SUBSET CasCalls, H \in SUBSET Hashes
<1>2. Cardinality(D) \in Nat /\ Cardinality(H) \in Nat
  BY <1>1, FS_CardinalityType
<1>3. Cardinality(D) + Cardinality(H) = 0
  BY DEF OtherRefs
<1>4. Cardinality(D) = 0 /\ Cardinality(H) = 0
  BY <1>2, <1>3
<1>5. D = {} /\ H = {}
  BY <1>1, <1>4, FS_EmptySet
<1> QED
  BY <1>5

(***************************************************************************)
(* Every step keeps the lock invariant                                     *)
(***************************************************************************)

LEMMA LockInit == CasInit => LockInv
<1> SUFFICES ASSUME CasInit
             PROVE  LockInv
  OBVIOUS
<1>1. CasTypeOK
  BY UnusedType DEF CasInit, CasTypeOK, FilesType, LocksType
<1>2. \A c \in CasCalls : casCall[c] = Unused
  BY DEF CasInit
<1>3. ShapesOK
  BY <1>2 DEF ShapesOK, ShapeOK, Unused, Naming
<1>4. HashLockOK
  BY <1>2 DEF HashLockOK, Unused, Naming, Holding, CasInit
<1> QED
  BY <1>1, <1>3, <1>4 DEF LockInv

\* A restart forgets calls and locks.
LEMMA LockRestart ==
  ASSUME RestartCas, FilesType'
  PROVE  LockInv'
<1>1. CasTypeOK'
  BY UnusedType DEF RestartCas, CasTypeOK, LocksType
<1>2. \A c \in CasCalls : casCall'[c] = Unused
  BY DEF RestartCas
<1>3. ShapesOK'
  BY <1>2 DEF ShapesOK, ShapeOK, Unused, Naming
<1>4. HashLockOK'
  BY <1>2 DEF HashLockOK, Unused, Naming, Holding, RestartCas
<1> QED
  BY <1>1, <1>3, <1>4 DEF LockInv

\* A step that leaves the locks alone and moves no call across them.
LEMMA LockKept ==
  ASSUME LockInv, FilesType', UNCHANGED casLocks,
         casCall' \in [CasCalls -> CallType], ShapesOK',
         \A d \in CasCalls :
            \/ casCall'[d].at \notin Naming
            \/ /\ casCall'[d].arc = casCall[d].arc /\ casCall'[d].hash = casCall[d].hash
               /\ casCall[d].at \in Naming
               /\ casCall'[d].at \in Holding => casCall[d].at \in Holding
  PROVE  LockInv'
<1>1. casArc' = casArc /\ casHolder' = casHolder
  BY DEF casLocks
<1>2. CasTypeOK'
  BY <1>1 DEF LockInv, CasTypeOK, LocksType
<1>3. HashLockOK'
  BY <1>1 DEF LockInv, CasTypeOK, HashLockOK, Naming, Holding
<1> QED
  BY <1>2, <1>3 DEF LockInv

\* Doubt changes what readers count on, never where a call is.
LEMMA DoubtedSame ==
  ASSUME NEW calls \in [CasCalls -> CallType], NEW h,
         \A c \in CasCalls : ShapeOK(calls[c])
  PROVE  /\ Doubted(calls, h) \in [CasCalls -> CallType]
         /\ \A c \in CasCalls :
              LET d == Doubted(calls, h)[c]
              IN /\ ShapeOK(d)
                 /\ d.at = calls[c].at /\ d.op = calls[c].op /\ d.mode = calls[c].mode
                 /\ d.hash = calls[c].hash /\ d.arc = calls[c].arc
                 /\ d.todo = calls[c].todo /\ d.got = calls[c].got
                 /\ d.known = calls[c].known
                 /\ d.sure = (calls[c].sure /\ h # calls[c].hash
                                /\ h \notin ToSet(calls[c].todo))
                 /\ d.through = calls[c].through \ {h}
<1> DEFINE s(c) == calls[c].sure /\ h # calls[c].hash /\ h \notin ToSet(calls[c].todo)
<1>1. \A c \in CasCalls : s(c) \in BOOLEAN
  BY DEF CallType
<1>2. \A c \in CasCalls : Doubted(calls, h)[c] =
         [calls[c] EXCEPT !.sure = s(c), !.through = calls[c].through \ {h}]
  BY DEF Doubted, CallType
<1> HIDE DEF s
<1> SUFFICES ASSUME NEW c \in CasCalls
             PROVE  LET d == Doubted(calls, h)[c]
                    IN /\ d \in CallType /\ ShapeOK(d)
                       /\ d.at = calls[c].at /\ d.op = calls[c].op /\ d.mode = calls[c].mode
                       /\ d.hash = calls[c].hash /\ d.arc = calls[c].arc
                       /\ d.todo = calls[c].todo /\ d.got = calls[c].got
                       /\ d.known = calls[c].known
                       /\ d.sure = s(c)
                       /\ d.through = calls[c].through \ {h}
  BY DEF Doubted, s
<1> DEFINE d == Doubted(calls, h)[c]
<1>3. /\ d \in CallType /\ d.at = calls[c].at /\ d.op = calls[c].op
      /\ d.mode = calls[c].mode /\ d.hash = calls[c].hash /\ d.arc = calls[c].arc
      /\ d.todo = calls[c].todo /\ d.got = calls[c].got /\ d.known = calls[c].known
      /\ d.sure = s(c) /\ d.through = calls[c].through \ {h}
  <2>1. calls[c] \in CallType /\ calls[c].through \ {h} \in SUBSET Hashes
    BY DEF CallType
  <2> DEFINE T == calls[c].through \ {h}
             b == s(c)
  <2>2. T \in SUBSET Hashes /\ b \in BOOLEAN
    BY <2>1, <1>1
  <2>3. d = [calls[c] EXCEPT !.sure = b, !.through = T]
    BY <1>2
  <2> HIDE DEF T, b, d
  <2>4. /\ d \in CallType /\ d.at = calls[c].at /\ d.op = calls[c].op
        /\ d.mode = calls[c].mode /\ d.hash = calls[c].hash /\ d.arc = calls[c].arc
        /\ d.todo = calls[c].todo /\ d.got = calls[c].got /\ d.known = calls[c].known
        /\ d.sure = b /\ d.through = T
    BY <2>1, <2>2, <2>3 DEF CallType
  <2> QED
    BY <2>4 DEF T, b
<1>4. ShapeOK(d)
  <2>1. CASE calls[c].op = "idle"
    <3>1. calls[c] = Unused
      BY <2>1 DEF ShapeOK
    <3>2. s(c) = FALSE
      BY <3>1 DEF s, Unused
    <3>3. d = [Unused EXCEPT !.sure = FALSE, !.through = Unused.through \ {h}]
      BY <1>2, <3>1, <3>2
    <3>4. d = Unused
      BY <3>3 DEF Unused
    <3> QED
      BY <3>1, <3>4
  <2>2. CASE calls[c].op # "idle"
    BY <2>2, <1>3 DEF ShapeOK
  <2> QED
    BY <2>1, <2>2
<1> QED
  BY <1>3, <1>4

\* The files and the index stay what they are.
LEMMA FilesStep == ASSUME LockInv, CasNext PROVE FilesType'
<1> USE DEF LockInv, CasTypeOK, FilesType
<1>1. ASSUME NEW c \in CasCalls, CasStart(c) PROVE FilesType'
  BY <1>1 DEF CasStart, PutChunk, DeleteChunk, PutFile, GetObjects, ListObjects,
              Scrub, StartCas, casFiles, casMemory
<1>2. ASSUME NEW c \in CasCalls, CasStep(c) PROVE FilesType'
  <2>1. CASE PutDeduplicated(c)
    BY <2>1 DEF PutDeduplicated, casFiles, Putting
  <2>2. CASE PutLooks(c)
    BY <2>2 DEF PutLooks, casFiles, casMemory
  <2>3. CASE PutWrites(c)
    <3>1. WriteTarget(casCall[c].hash) \in Forms
      BY DEF WriteTarget, Forms
    <3> QED
      BY <2>3, <3>1 DEF PutWrites, casMemory
  <2>4. CASE PutSynced(c)
    <3>1. casCall[c].hash \in Hashes
      BY <2>4 DEF PutSynced, Putting, ShapesOK, ShapeOK, Unused
    <3> QED
      BY <2>4, <3>1 DEF PutSynced
  <2>5. CASE DeleteUnlinks(c)
    BY <2>5 DEF DeleteUnlinks
  <2>6. CASE DeleteSynced(c)
    BY <2>6 DEF DeleteSynced, casMemory
  <2>7. CASE ReadObject(c)
    BY <2>7 DEF ReadObject, Read, ReadEnds, casFiles, casMemory
  <2> QED
    BY <1>2, <2>1, <2>2, <2>3, <2>4, <2>5, <2>6, <2>7
    DEF CasStep, LockForHash, AcquireHash, PutWriteFails, SyncParentFails,
        DeleteFindsNothing, ReleaseHash, RemoveHashLockIfIdle, HandlerGoesOn,
        StreamFails, CutOff, ListPage, casFiles, casMemory
<1>3. ASSUME RestartProcess PROVE FilesType'
  BY <1>3 DEF RestartProcess, RestartCas, RebuildIndex, casFiles
<1>4. ASSUME LosePower PROVE FilesType'
  BY <1>4 DEF LosePower, RestartCas, RebuildIndex
<1>5. ASSUME NEW h \in Hashes, Damage(h) PROVE FilesType'
  BY <1>5 DEF Damage, casMemory
<1> QED
  BY <1>1, <1>2, <1>3, <1>4, <1>5 DEF CasNext

\* A locked operation goes one place on; what others count on may change.
LEMMA LockMoves ==
  ASSUME LockInv, NEW c \in CasCalls, FilesType', UNCHANGED casLocks,
         casCall[c].at \in Naming, casCall' \in [CasCalls -> CallType],
         \A d \in CasCalls \ {c} : /\ ShapeOK(casCall'[d])
                                   /\ casCall'[d].at = casCall[d].at
                                   /\ casCall'[d].hash = casCall[d].hash
                                   /\ casCall'[d].arc = casCall[d].arc,
         casCall'[c].at \in Naming \cup {"end"},
         casCall'[c].at \in Holding => casCall[c].at \in Holding,
         casCall'[c].op = casCall[c].op, casCall'[c].hash = casCall[c].hash,
         casCall'[c].arc = casCall[c].arc
  PROVE  LockInv'
<1>1. casCall[c] \in CallType /\ ShapeOK(casCall[c])
  BY DEF LockInv, CasTypeOK, ShapesOK
<1>2. casCall[c].op # "idle"
  BY <1>1 DEF ShapeOK, Unused, Naming
<1>3. ShapeOK(casCall'[c])
  BY <1>1, <1>2 DEF ShapeOK, Naming
<1>4. ShapesOK'
  BY <1>3 DEF ShapesOK
<1>5. \A d \in CasCalls :
            \/ casCall'[d].at \notin Naming
            \/ /\ casCall'[d].arc = casCall[d].arc /\ casCall'[d].hash = casCall[d].hash
               /\ casCall[d].at \in Naming
               /\ casCall'[d].at \in Holding => casCall[d].at \in Holding
  OBVIOUS
<1> QED
  BY <1>4, <1>5, LockKept

\* A call begins or ends, or its handler goes on to the next object.
LEMMA LockTurns ==
  ASSUME LockInv, NEW c \in CasCalls, FilesType', UNCHANGED casLocks,
         NEW new \in CallType, ShapeOK(new), new.at \notin Naming,
         casCall' = [casCall EXCEPT ![c] = new]
  PROVE  LockInv'
<1>1. casCall' \in [CasCalls -> CallType] /\ casCall'[c] = new
      /\ \A d \in CasCalls \ {c} : casCall'[d] = casCall[d]
  BY DEF LockInv, CasTypeOK
<1>2. ShapesOK'
  BY <1>1 DEF ShapesOK, LockInv
<1> QED
  BY <1>1, <1>2, LockKept

\* A scrub goes through the whole index, in some order.
LEMMA IndexOrder ==
  ASSUME LockInv, casIndex # {}, NEW s \in SetToSeqs(casIndex)
  PROVE  s \in Seq(Hashes) /\ s # <<>> /\ ToSet(s) = casIndex
<1> DEFINE n == Cardinality(casIndex)
<1>1. IsFiniteSet(casIndex) /\ casIndex \subseteq Hashes
  BY ArcsType, FS_Subset DEF LockInv, CasTypeOK, FilesType
<1>2. n \in Nat \ {0}
  BY <1>1, FS_CardinalityType, FS_EmptySet
<1>3. s \in [1..n -> casIndex] /\ \A i, j \in 1..n : i # j => s[i] # s[j]
  BY DEF SetToSeqs
<1> HIDE DEF n
<1>4. s \in Seq(Hashes) /\ s # <<>>
  BY <1>1, <1>2, <1>3
<1>5. s \in Injection(1..n, casIndex)
  BY <1>3 DEF Injection, IsInjective
<1>6. Cardinality(1..n) = n
  BY <1>2, FS_Interval, 1 \in Int, n \in Int
<1>7. s \in Surjection(1..n, casIndex)
  BY <1>1, <1>5, <1>6, FS_Injection DEF n
<1>8. ToSet(s) = casIndex
  BY <1>3, <1>7 DEF Surjection, ToSet
<1> QED
  BY <1>4, <1>8

\* What a reader counts on: the objects a sure one has yet to read are
\* promised; a listing has, or has yet to reach, everything that was indexed
\* all along; a scrub has judged what it has passed, and what was damaged
\* before it began still is.
ReaderOK(this) ==
    /\ this.op = "get" /\ this.sure =>
         /\ this.hash \in casPromise /\ ToSet(this.todo) \subseteq casPromise
         /\ this.at = "plain" => "plain" \in casSeen[this.hash] \ casRot[this.hash]
    /\ this.op = "list" =>
         \A h \in this.through : h \in casIndex /\ (h \in this.got \/ h > this.hash)
    /\ this.op = "scrub" =>
         \A h \in this.through :
            /\ h \in casIndex
            /\ h \in this.known => /\ h \in Rotten
                                   /\ h \in this.got \cup {this.hash} \cup ToSet(this.todo)
            /\ h \in this.got => h \in Rotten \/ casSeen[h] = {}
            /\ h = this.hash /\ this.at = "plain" => "zst" \notin casSeen[h]

LEMMA HeadAndTail ==
  ASSUME NEW s \in Seq(Hashes), s # <<>>
  PROVE  ToSet(s) = {Head(s)} \cup ToSet(Tail(s))
<1> DEFINE n == Len(s)
<1>1. /\ n \in Nat \ {0} /\ DOMAIN s = 1..n /\ DOMAIN Tail(s) = 1..(n - 1)
      /\ Head(s) = s[1] /\ \A i \in 1..(n - 1) : Tail(s)[i] = s[i + 1]
  OBVIOUS
<1> HIDE DEF n
<1>2. ASSUME NEW i \in 1..n PROVE s[i] = Head(s) \/ \E j \in 1..(n - 1) : s[i] = Tail(s)[j]
  <2>1. CASE i = 1
    BY <2>1, <1>1
  <2>2. CASE i # 1
    <3>1. i - 1 \in 1..(n - 1) /\ (i - 1) + 1 = i
      BY <2>2, <1>1
    <3>2. Tail(s)[i - 1] = s[i]
      BY <3>1, <1>1
    <3> QED
      BY <3>1, <3>2
  <2> QED
    BY <2>1, <2>2
<1>3. 1 \in 1..n /\ \A j \in 1..(n - 1) : j + 1 \in 1..n
  BY <1>1
<1> DEFINE r == Tail(s)
           x == Head(s)
<1>4. ToSet(s) = {s[i] : i \in 1..n} /\ ToSet(r) = {r[i] : i \in 1..(n - 1)}
  BY <1>1 DEF ToSet
<1>5. /\ x = s[1] /\ \A i \in 1..(n - 1) : r[i] = s[i + 1]
      /\ \A i \in 1..n : s[i] = x \/ \E j \in 1..(n - 1) : s[i] = r[j]
  BY <1>1, <1>2
<1> HIDE DEF r, x
<1>6. ToSet(s) \subseteq {x} \cup ToSet(r)
  BY <1>4, <1>5
<1>7. {x} \cup ToSet(r) \subseteq ToSet(s)
  BY <1>3, <1>4, <1>5
<1>8. ToSet(s) = {x} \cup ToSet(r)
  BY <1>6, <1>7
<1> QED
  BY <1>8 DEF r, x

LEMMA EmptyToSet == ToSet(<<>>) = {}
  BY DEF ToSet

\* Calls that begin: at the lock, or as a reader or a listing.
Begun(this) ==
    /\ this.arc = 0
    /\ \/ this.at = "ask" /\ this.op \in {"chunk", "file"} /\ this.hash \in Hashes
       \/ this.at = "zst" /\ this.op \in {"get", "scrub"} /\ this.hash \in Hashes
       \/ this.at = "page" /\ this.op = "list"

LEMMA BegunShape ==
  ASSUME NEW this \in CallType, Begun(this)
  PROVE  ShapeOK(this) /\ this.at \notin Naming
  BY DEF ShapeOK, Begun, Naming

LEMMA StartBegun ==
  ASSUME LockInv, NEW c \in CasCalls, CasStart(c)
  PROVE  \E this \in CallType : Begun(this) /\ ReaderOK(this) /\ StartCas(c, this)
<1>1. CASE PutChunk(c)
  <2>1. PICK h \in Hashes : StartCas(c, [Unused EXCEPT !.op = "chunk", !.hash = h])
    BY <1>1 DEF PutChunk
  <2> DEFINE new == [Unused EXCEPT !.op = "chunk", !.hash = h]
  <2>2. /\ new \in CallType /\ new.arc = 0 /\ new.at = "ask" /\ new.op = "chunk"
        /\ new.hash = h
    BY UnusedType, UnusedFields DEF CallType
  <2> HIDE DEF new
  <2>3. Begun(new) /\ ReaderOK(new)
    BY <2>2 DEF Begun, ReaderOK
  <2> QED
    BY <2>1, <2>2, <2>3 DEF new
<1>2. CASE DeleteChunk(c)
  <2>1. PICK h \in Hashes : StartCas(c, [Unused EXCEPT !.op = "chunk", !.mode = "delete",
                                                       !.hash = h])
    BY <1>2 DEF DeleteChunk
  <2> DEFINE new == [Unused EXCEPT !.op = "chunk", !.mode = "delete", !.hash = h]
  <2>2. /\ new \in CallType /\ new.arc = 0 /\ new.at = "ask" /\ new.op = "chunk"
        /\ new.hash = h
    BY UnusedType, UnusedFields DEF CallType
  <2> HIDE DEF new
  <2>3. Begun(new) /\ ReaderOK(new)
    BY <2>2 DEF Begun, ReaderOK
  <2> QED
    BY <2>1, <2>2, <2>3 DEF new
<1>3. CASE PutFile(c)
  <2>1. PICK f \in FileLayouts :
           StartCas(c, [Unused EXCEPT !.op = "file", !.hash = Head(f.chunks),
                                      !.todo = Tail(f.chunks) \o <<f.manifest>>])
    BY <1>3 DEF PutFile
  <2>2. /\ f.chunks \in Seq(Hashes) /\ f.chunks # <<>> /\ f.manifest \in Hashes
    BY HashAssumption
  <2> DEFINE h == Head(f.chunks)
             rest == Tail(f.chunks) \o <<f.manifest>>
             new == [Unused EXCEPT !.op = "file", !.hash = h, !.todo = rest]
  <2>3. h \in Hashes /\ rest \in Seq(Hashes)
    BY <2>2
  <2>4. StartCas(c, new)
    BY <2>1
  <2> HIDE DEF h, rest
  <2>5. /\ new \in CallType /\ new.arc = 0 /\ new.at = "ask" /\ new.op = "file"
        /\ new.hash = h
    BY <2>3, UnusedType, UnusedFields DEF CallType
  <2> HIDE DEF new
  <2>6. Begun(new) /\ ReaderOK(new)
    BY <2>3, <2>5 DEF Begun, ReaderOK
  <2> QED
    BY <2>4, <2>5, <2>6
<1>4. CASE GetObjects(c)
  <2>1. PICK s \in {<<h>> : h \in Hashes}
                     \cup {<<f.manifest>> \o f.chunks : f \in FileLayouts} :
          StartCas(c, [Unused EXCEPT !.op = "get", !.at = "zst", !.hash = Head(s),
                                     !.todo = Tail(s),
                                     !.sure = ToSet(s) \subseteq casPromise])
    BY <1>4 DEF GetObjects
  <2>2. s \in Seq(Hashes) /\ s # <<>>
    <3>1. CASE s \in {<<h>> : h \in Hashes}
      <4>1. PICK h \in Hashes : s = <<h>>
        BY <3>1
      <4> QED
        BY <4>1
    <3>2. CASE s \in {<<f.manifest>> \o f.chunks : f \in FileLayouts}
      <4>1. PICK f \in FileLayouts : s = <<f.manifest>> \o f.chunks
        BY <3>2
      <4>2. f.chunks \in Seq(Hashes) /\ <<f.manifest>> \in Seq(Hashes)
        BY HashAssumption
      <4> QED
        BY <4>1, <4>2
    <3> QED
      BY <2>1, <3>1, <3>2
  <2> DEFINE h == Head(s)
             rest == Tail(s)
             b == ToSet(s) \subseteq casPromise
             new == [Unused EXCEPT !.op = "get", !.at = "zst", !.hash = h,
                                   !.todo = rest, !.sure = b]
  <2>3. /\ h \in Hashes /\ rest \in Seq(Hashes) /\ b \in BOOLEAN
        /\ b => h \in casPromise /\ ToSet(rest) \subseteq casPromise
    BY <2>2, HeadAndTail
  <2>4. StartCas(c, new)
    BY <2>1
  <2> HIDE DEF h, rest, b
  <2>5. /\ new \in CallType /\ new.arc = 0 /\ new.at = "zst" /\ new.op = "get"
        /\ new.hash = h /\ new.todo = rest /\ new.sure = b
    BY <2>3, UnusedType, UnusedFields DEF CallType
  <2> HIDE DEF new
  <2>6. Begun(new) /\ ReaderOK(new)
    BY <2>3, <2>5 DEF Begun, ReaderOK
  <2> QED
    BY <2>4, <2>5, <2>6
<1>5. CASE ListObjects(c)
  <2> DEFINE new == [Unused EXCEPT !.op = "list", !.at = "page", !.through = casIndex]
  <2>1. casIndex \in SUBSET Hashes
    BY DEF LockInv, CasTypeOK, FilesType
  <2>2. /\ new \in CallType /\ new.arc = 0 /\ new.at = "page" /\ new.op = "list"
        /\ new.through = casIndex /\ new.hash = 0
    BY <2>1, UnusedType, UnusedFields DEF CallType
  <2>3. StartCas(c, new)
    BY <1>5 DEF ListObjects
  <2> HIDE DEF new
  <2>4. Begun(new) /\ ReaderOK(new)
    <3>1. \A h \in casIndex : h \in Nat \ {0}
      BY <2>1, HashAssumption
    <3>2. \A h \in casIndex : h > 0
      BY <3>1
    <3> QED
      BY <2>2, <3>2 DEF Begun, ReaderOK
  <2> QED
    BY <2>2, <2>3, <2>4
<1>6. CASE Scrub(c)
  <2>1. PICK s \in SetToSeqs(casIndex) :
          StartCas(c, [Unused EXCEPT !.op = "scrub", !.at = "zst", !.hash = Head(s),
                         !.todo = Tail(s), !.through = casIndex, !.known = Rotten])
    BY <1>6 DEF Scrub
  <2>2. s \in Seq(Hashes) /\ s # <<>> /\ ToSet(s) = casIndex
    BY <1>6, <2>1, IndexOrder DEF Scrub
  <2> DEFINE h == Head(s)
             rest == Tail(s)
             new == [Unused EXCEPT !.op = "scrub", !.at = "zst", !.hash = h,
                         !.todo = rest, !.through = casIndex, !.known = Rotten]
  <2>3. h \in Hashes /\ rest \in Seq(Hashes) /\ casIndex \in SUBSET Hashes
        /\ Rotten \in SUBSET Hashes /\ casIndex = {h} \cup ToSet(rest)
    BY <2>2, HeadAndTail DEF LockInv, CasTypeOK, FilesType, Rotten
  <2>4. StartCas(c, new)
    BY <2>1
  <2> HIDE DEF h, rest
  <2>5. /\ new \in CallType /\ new.arc = 0 /\ new.at = "zst" /\ new.op = "scrub"
        /\ new.hash = h /\ new.todo = rest /\ new.got = {}
        /\ new.through = casIndex /\ new.known = Rotten
    BY <2>3, UnusedType, UnusedFields DEF CallType
  <2> HIDE DEF new
  <2>6. Begun(new) /\ ReaderOK(new)
    BY <2>3, <2>5 DEF Begun, ReaderOK
  <2> QED
    BY <2>4, <2>5, <2>6
<1> QED
  BY <1>1, <1>2, <1>3, <1>4, <1>5, <1>6 DEF CasStart

\* Taking the Arc of the map, or a new one.
LEMMA LockAsk ==
  ASSUME LockInv, NEW c \in CasCalls, FilesType', LockForHash(c)
  PROVE  LockInv'
<1> DEFINE h == casCall[c].hash
           a == IF casArc[h] # 0 THEN casArc[h]
                ELSE CHOOSE b \in Arcs : OtherRefs(c, b) = 0
<1>1. /\ casCall[c].at = "ask" /\ casCall[c].op # "idle" /\ h \in Hashes
      /\ casCall[c].op \in {"chunk", "file"} /\ ShapeOK(casCall[c])
      /\ casCall[c] \in CallType
  <2>1. /\ casCall[c].at = "ask" /\ casCall[c].op # "idle"
        /\ casCall[c] \in CallType /\ ShapeOK(casCall[c])
    BY DEF LockForHash, LockInv, CasTypeOK, ShapesOK
  <2>2. casCall[c].op \in {"chunk", "file"}
    BY <2>1 DEF CallType, ShapeOK
  <2> QED
    BY <2>1, <2>2 DEF ShapeOK
<1>2. /\ casArc' = [casArc EXCEPT ![h] = a]
      /\ casCall' = [casCall EXCEPT ![c].arc = a, ![c].at = "wait"]
      /\ casHolder' = casHolder
  BY DEF LockForHash
<1>3. a \in Arcs /\ (casArc[h] = 0 => OtherRefs(c, a) = 0) /\ (casArc[h] # 0 => a = casArc[h])
  <2>1. CASE casArc[h] # 0
    BY <2>1, <1>1 DEF LockInv, CasTypeOK, LocksType
  <2>2. CASE casArc[h] = 0
    BY <2>2, <1>1, FreshArc
  <2> QED
    BY <2>1, <2>2
<1>4. casArc[h] = 0 => /\ \A d \in CasCalls \ {c} : casCall[d].arc # a
                       /\ \A k \in Hashes : casArc[k] # a
  BY <1>3, FreeOf
<1>5. a # 0
  BY <1>3, ArcsType
<1> HIDE DEF a
<1>6. /\ casCall' \in [CasCalls -> CallType]
      /\ \A d \in CasCalls \ {c} : casCall'[d] = casCall[d]
      /\ casCall'[c].at = "wait" /\ casCall'[c].op = casCall[c].op
      /\ casCall'[c].hash = h /\ casCall'[c].arc = a
  <2> DEFINE r == casCall[c]
             new == [r EXCEPT !.arc = a, !.at = "wait"]
  <2>1. r \in CallType /\ new = [r EXCEPT !.arc = a, !.at = "wait"]
    BY DEF LockInv, CasTypeOK
  <2>2. casCall' = [casCall EXCEPT ![c] = new]
    BY <1>2 DEF LockInv, CasTypeOK
  <2> HIDE DEF r, new
  <2>3. new \in CallType /\ new.at = "wait" /\ new.op = r.op /\ new.hash = r.hash
        /\ new.arc = a
    BY <2>1, <1>3 DEF CallType
  <2> QED
    BY <2>2, <2>3 DEF r, LockInv, CasTypeOK
<1> HIDE DEF h
<1>7. CasTypeOK'
  BY <1>2, <1>3, <1>6 DEF LockInv, CasTypeOK, LocksType
<1>8. ShapeOK(casCall'[c])
  BY <1>1, <1>5, <1>6 DEF ShapeOK, Naming
<1>9. ShapesOK'
  BY <1>6, <1>8 DEF LockInv, ShapesOK
<1>10. casArc'[h] = a /\ \A k \in Hashes \ {h} : casArc'[k] = casArc[k]
  BY <1>1, <1>2 DEF LockInv, CasTypeOK, LocksType
<1>11. ASSUME NEW d \in CasCalls
       PROVE  /\ casCall'[d].at \in Naming => casArc'[casCall'[d].hash] = casCall'[d].arc
              /\ casCall'[d].at \in Holding => casHolder'[casCall'[d].arc] = d
  <2>1. CASE d = c
    BY <2>1, <1>6, <1>10 DEF Holding
  <2>2. CASE d # c
    <3>1. casCall'[d] = casCall[d] /\ casCall[d] \in CallType /\ ShapeOK(casCall[d])
      BY <2>2, <1>6 DEF LockInv, CasTypeOK, ShapesOK
    <3>2. casCall[d].at \in Holding => casHolder'[casCall[d].arc] = d
      BY <1>2 DEF LockInv, HashLockOK
    <3>3. ASSUME casCall[d].at \in Naming PROVE casArc'[casCall[d].hash] = casCall[d].arc
      <4>1. casArc[casCall[d].hash] = casCall[d].arc /\ casCall[d].arc # 0
            /\ casCall[d].hash \in Hashes
        BY <3>1, <3>3 DEF LockInv, HashLockOK, ShapeOK, Naming, Unused
      <4> QED
        BY <4>1, <1>3, <1>10
    <3> QED
      BY <3>1, <3>2, <3>3
  <2> QED
    BY <2>1, <2>2
<1>12. ASSUME NEW g \in Hashes, NEW k \in Hashes, casArc'[g] = casArc'[k], casArc'[g] # 0
       PROVE  g = k
  BY <1>3, <1>4, <1>10, <1>12 DEF LockInv, HashLockOK
<1>13. HashLockOK'
  BY <1>11, <1>12 DEF HashLockOK
<1> QED
  BY <1>7, <1>9, <1>13 DEF LockInv

\* Holding the mutex, giving it back, and taking the entry out of the map.
LEMMA LockHold ==
  ASSUME LockInv, NEW c \in CasCalls, FilesType', AcquireHash(c) \/ ReleaseHash(c)
  PROVE  LockInv'
<1> DEFINE a == casCall[c].arc
           at == IF AcquireHash(c) THEN "look" ELSE "tidy"
           who == IF AcquireHash(c) THEN c ELSE NobodyHolds
<1>1. /\ casCall[c].at = IF AcquireHash(c) THEN "wait" ELSE "free"
      /\ AcquireHash(c) => casHolder[a] = NobodyHolds
      /\ casHolder' = [casHolder EXCEPT ![a] = who]
      /\ casCall' = [casCall EXCEPT ![c].at = at]
      /\ casArc' = casArc
  BY DEF AcquireHash, ReleaseHash
<1>2. casCall[c] \in CallType /\ ShapeOK(casCall[c])
  BY DEF LockInv, CasTypeOK, ShapesOK
<1>3. a \in Arcs /\ casCall[c].op # "idle"
  BY <1>1, <1>2 DEF CallType, ShapeOK, Naming, Unused
<1>4. ASSUME NEW d \in CasCalls \ {c}, casCall[d].at \in Holding PROVE casCall[d].arc # a
  BY <1>1, <1>4, HashAssumption DEF LockInv, HashLockOK, Naming, Holding
<1>5. at \in {"look", "tidy"} /\ who \in CasCalls \cup {NobodyHolds}
      /\ (at = "look" => who = c)
  OBVIOUS
<1> HIDE DEF at, who, a
<1>6. /\ casCall' \in [CasCalls -> CallType]
      /\ \A d \in CasCalls \ {c} : casCall'[d] = casCall[d]
      /\ casCall'[c].at = at /\ casCall'[c].op = casCall[c].op
      /\ casCall'[c].hash = casCall[c].hash /\ casCall'[c].arc = a
  <2> DEFINE r == casCall[c]
             new == [r EXCEPT !.at = at]
  <2>1. r \in CallType /\ new = [r EXCEPT !.at = at]
    BY DEF LockInv, CasTypeOK
  <2>2. casCall' = [casCall EXCEPT ![c] = new]
    BY <1>1 DEF LockInv, CasTypeOK
  <2> HIDE DEF r, new
  <2>3. new \in CallType /\ new.at = at /\ new.op = r.op /\ new.hash = r.hash
        /\ new.arc = r.arc
    BY <2>1, <1>5 DEF CallType
  <2> QED
    BY <2>2, <2>3 DEF r, LockInv, CasTypeOK, a
<1>7. CasTypeOK'
  BY <1>1, <1>3, <1>5, <1>6 DEF LockInv, CasTypeOK, LocksType
<1>8. ShapeOK(casCall'[c])
  BY <1>1, <1>2, <1>3, <1>5, <1>6 DEF ShapeOK, Naming, a
<1>9. ShapesOK'
  BY <1>6, <1>8 DEF LockInv, ShapesOK
<1>10. casHolder'[a] = who /\ \A b \in Arcs \ {a} : casHolder'[b] = casHolder[b]
  BY <1>1, <1>3 DEF LockInv, CasTypeOK, LocksType
<1>11. ASSUME NEW d \in CasCalls
       PROVE  /\ casCall'[d].at \in Naming => casArc'[casCall'[d].hash] = casCall'[d].arc
              /\ casCall'[d].at \in Holding => casHolder'[casCall'[d].arc] = d
  <2>1. CASE d = c
    BY <2>1, <1>1, <1>5, <1>6, <1>10 DEF Holding, Naming, LockInv, HashLockOK, a
  <2>2. CASE d # c
    <3>1. casCall'[d] = casCall[d] /\ casCall[d] \in CallType /\ ShapeOK(casCall[d])
      BY <2>2, <1>6 DEF LockInv, CasTypeOK, ShapesOK
    <3>2. casCall[d].at \in Holding => casCall[d].arc \in Arcs \ {a}
      BY <2>2, <3>1, <1>4 DEF CallType, ShapeOK, Naming, Holding
    <3> QED
      BY <3>1, <3>2, <1>1, <1>10 DEF LockInv, HashLockOK
  <2> QED
    BY <2>1, <2>2
<1>12. HashLockOK'
  BY <1>1, <1>11 DEF HashLockOK, LockInv
<1> QED
  BY <1>7, <1>9, <1>12 DEF LockInv

LEMMA LockTidy ==
  ASSUME LockInv, NEW c \in CasCalls, FilesType', RemoveHashLockIfIdle(c)
  PROVE  LockInv'
<1> DEFINE h == casCall[c].hash
           a == casCall[c].arc
           idle == casArc[h] = a /\ OtherRefs(c, a) = 1
<1>1. /\ casCall[c].at = "tidy" /\ casHolder' = casHolder
      /\ casArc' = [casArc EXCEPT ![h] = IF idle THEN 0 ELSE casArc[h]]
      /\ casCall' = [casCall EXCEPT ![c].at = "end"]
  BY DEF RemoveHashLockIfIdle
<1>2. casCall[c] \in CallType /\ ShapeOK(casCall[c])
  BY DEF LockInv, CasTypeOK, ShapesOK
<1>3. a \in Arcs /\ casCall[c].op # "idle" /\ h \in Hashes
  BY <1>1, <1>2 DEF CallType, ShapeOK, Naming, Unused
<1>4. idle => \A d \in CasCalls \ {c} : casCall[d].arc # a
  BY <1>3, OnlyOne
<1>5. /\ casCall' \in [CasCalls -> CallType]
      /\ \A d \in CasCalls \ {c} : casCall'[d] = casCall[d]
      /\ casCall'[c].at = "end" /\ casCall'[c].op = casCall[c].op
      /\ casCall'[c].hash = casCall[c].hash /\ casCall'[c].arc = a
  <2> DEFINE r == casCall[c]
             new == [r EXCEPT !.at = "end"]
  <2>1. r \in CallType /\ new = [r EXCEPT !.at = "end"]
    BY DEF LockInv, CasTypeOK
  <2>2. casCall' = [casCall EXCEPT ![c] = new]
    BY <1>1 DEF LockInv, CasTypeOK
  <2> HIDE DEF r, new
  <2>3. new \in CallType /\ new.at = "end" /\ new.op = r.op /\ new.hash = r.hash
        /\ new.arc = r.arc
    BY <2>1 DEF CallType
  <2> QED
    BY <2>2, <2>3 DEF r, LockInv, CasTypeOK
<1>6. /\ casArc' \in [Hashes -> Arcs \cup {0}]
      /\ \A k \in Hashes \ {h} : casArc'[k] = casArc[k]
      /\ casArc'[h] = IF idle THEN 0 ELSE casArc[h]
  BY <1>1, <1>3 DEF LockInv, CasTypeOK, LocksType
<1> HIDE DEF idle, a, h
<1>7. CasTypeOK'
  BY <1>1, <1>5, <1>6 DEF LockInv, CasTypeOK, LocksType
<1>8. ShapeOK(casCall'[c])
  BY <1>1, <1>2, <1>3, <1>5 DEF ShapeOK, Naming, a
<1>9. ShapesOK'
  BY <1>5, <1>8 DEF LockInv, ShapesOK
<1>10. ASSUME NEW d \in CasCalls
       PROVE  /\ casCall'[d].at \in Naming => casArc'[casCall'[d].hash] = casCall'[d].arc
              /\ casCall'[d].at \in Holding => casHolder'[casCall'[d].arc] = d
  <2>1. CASE d = c
    BY <2>1, <1>5 DEF Holding, Naming
  <2>2. CASE d # c
    <3>1. casCall'[d] = casCall[d] /\ casCall[d] \in CallType /\ ShapeOK(casCall[d])
      BY <2>2, <1>5 DEF LockInv, CasTypeOK, ShapesOK
    <3>2. casCall[d].at \in Holding => casHolder'[casCall[d].arc] = d
      BY <1>1 DEF LockInv, HashLockOK
    <3>3. ASSUME casCall[d].at \in Naming PROVE casArc'[casCall[d].hash] = casCall[d].arc
      <4>1. casArc[casCall[d].hash] = casCall[d].arc /\ casCall[d].hash \in Hashes
        BY <3>1, <3>3 DEF LockInv, HashLockOK, ShapeOK, Naming, Unused
      <4>2. idle => casArc[h] = a
        BY DEF idle
      <4> QED
        BY <4>1, <4>2, <1>4, <1>6, <2>2
    <3> QED
      BY <3>1, <3>2, <3>3
  <2> QED
    BY <2>1, <2>2
<1>11. ASSUME NEW g \in Hashes, NEW k \in Hashes, casArc'[g] = casArc'[k], casArc'[g] # 0
       PROVE  g = k
  BY <1>6, <1>11 DEF LockInv, HashLockOK
<1>12. HashLockOK'
  BY <1>10, <1>11 DEF HashLockOK
<1> QED
  BY <1>7, <1>9, <1>12 DEF LockInv

\* A call that is cut off lets go of its mutex.
LEMMA LockCut ==
  ASSUME LockInv, NEW c \in CasCalls, FilesType', CutOff(c)
  PROVE  LockInv'
<1>1. /\ casHolder' = [a \in Arcs |-> IF casHolder[a] = c THEN NobodyHolds
                                                          ELSE casHolder[a]]
      /\ casCall' = [casCall EXCEPT ![c] = Unused] /\ casArc' = casArc
  BY DEF CutOff
<1>2. /\ casCall' \in [CasCalls -> CallType] /\ casCall'[c] = Unused
      /\ \A d \in CasCalls \ {c} : casCall'[d] = casCall[d]
  BY <1>1, UnusedType DEF LockInv, CasTypeOK
<1>3. CasTypeOK'
  BY <1>1, <1>2 DEF LockInv, CasTypeOK, LocksType
<1>4. ShapesOK'
  BY <1>2, UnusedFields DEF LockInv, ShapesOK, ShapeOK, Naming
<1>5. ASSUME NEW d \in CasCalls
      PROVE  /\ casCall'[d].at \in Naming => casArc'[casCall'[d].hash] = casCall'[d].arc
             /\ casCall'[d].at \in Holding => casHolder'[casCall'[d].arc] = d
  <2>1. CASE d = c
    BY <2>1, <1>2, UnusedFields DEF Holding, Naming
  <2>2. CASE d # c
    <3>1. casCall'[d] = casCall[d] /\ casCall[d] \in CallType /\ ShapeOK(casCall[d])
      BY <2>2, <1>2 DEF LockInv, CasTypeOK, ShapesOK
    <3>2. casCall[d].at \in Holding => casCall[d].arc \in Arcs
      BY <3>1 DEF CallType, ShapeOK, Naming, Holding
    <3> QED
      BY <2>2, <3>1, <3>2, <1>1 DEF LockInv, HashLockOK
  <2> QED
    BY <2>1, <2>2
<1>6. HashLockOK'
  BY <1>1, <1>5 DEF LockInv, HashLockOK
<1> QED
  BY <1>3, <1>4, <1>6 DEF LockInv

(***************************************************************************)
(* How the steps under a lock change the calls                             *)
(***************************************************************************)

\* Only the place, and the result, of call c change.
Moved(c, at) ==
    /\ casCall' \in [CasCalls -> CallType]
    /\ \A d \in CasCalls \ {c} : casCall'[d] = casCall[d]
    /\ casCall'[c].at = at /\ casCall'[c].op = casCall[c].op
    /\ casCall'[c].mode = casCall[c].mode /\ casCall'[c].hash = casCall[c].hash
    /\ casCall'[c].arc = casCall[c].arc

\* Call c moves and everybody else doubts h.
MovedInDoubt(c, at, h) ==
    /\ casCall' \in [CasCalls -> CallType]
    /\ casCall'[c].at = at
    /\ \A d \in CasCalls :
         /\ d # c => casCall'[d].at = casCall[d].at /\ ShapeOK(casCall'[d])
         /\ casCall'[d].op = casCall[d].op /\ casCall'[d].mode = casCall[d].mode
         /\ casCall'[d].hash = casCall[d].hash /\ casCall'[d].arc = casCall[d].arc
         /\ casCall'[d].todo = casCall[d].todo /\ casCall'[d].got = casCall[d].got
         /\ casCall'[d].known = casCall[d].known
         /\ casCall'[d].sure => /\ casCall[d].sure /\ h # casCall[d].hash
                                /\ h \notin ToSet(casCall[d].todo)
         /\ casCall'[d].through = casCall[d].through \ {h}

LEMMA ResultMoves ==
  ASSUME LockInv, NEW c \in CasCalls, Result(c, "known") \/ Result(c, "new") \/ Result(c, "error")
                                      \/ Result(c, "absent") \/ Result(c, "gone")
  PROVE  Moved(c, "free")
<1>1. PICK x \in {"known", "new", "error", "absent", "gone"} :
         casCall' = [casCall EXCEPT ![c].at = "free", ![c].result = x]
  BY DEF Result
<1> DEFINE r == casCall[c]
           new == [r EXCEPT !.at = "free", !.result = x]
<1>2. r \in CallType /\ new = [r EXCEPT !.at = "free", !.result = x]
  BY DEF LockInv, CasTypeOK
<1>3. casCall' = [casCall EXCEPT ![c] = new]
  BY <1>1 DEF LockInv, CasTypeOK
<1> HIDE DEF r, new
<1>4. new \in CallType /\ new.at = "free" /\ new.op = r.op /\ new.hash = r.hash
      /\ new.arc = r.arc /\ new.mode = r.mode
  BY <1>2 DEF CallType
<1> QED
  BY <1>3, <1>4 DEF r, LockInv, CasTypeOK, Moved

LEMMA WriteMoves ==
  ASSUME LockInv, NEW c \in CasCalls, PutWrites(c)
  PROVE  Moved(c, "sync")
<1> DEFINE r == casCall[c]
           new == [r EXCEPT !.at = "sync"]
<1>2. r \in CallType /\ new = [r EXCEPT !.at = "sync"]
  BY DEF LockInv, CasTypeOK
<1>3. casCall' = [casCall EXCEPT ![c] = new]
  BY DEF LockInv, CasTypeOK, PutWrites
<1> HIDE DEF r, new
<1>4. new \in CallType /\ new.at = "sync" /\ new.op = r.op /\ new.hash = r.hash
      /\ new.arc = r.arc /\ new.mode = r.mode
  BY <1>2 DEF CallType
<1> QED
  BY <1>3, <1>4 DEF r, LockInv, CasTypeOK, Moved

LEMMA DoubtMoves ==
  ASSUME LockInv, NEW c \in CasCalls, NEW h,
         NEW at \in {"write", "sync"},
         casCall' = [Doubted(casCall, h) EXCEPT ![c].at = at]
  PROVE  MovedInDoubt(c, at, h)
<1> DEFINE calls == Doubted(casCall, h)
           r == calls[c]
           new == [r EXCEPT !.at = at]
<1>1. casCall \in [CasCalls -> CallType] /\ \A d \in CasCalls : ShapeOK(casCall[d])
  BY DEF LockInv, CasTypeOK, ShapesOK
<1>2. /\ calls \in [CasCalls -> CallType]
      /\ \A d \in CasCalls :
              /\ ShapeOK(calls[d])
              /\ calls[d].at = casCall[d].at /\ calls[d].op = casCall[d].op
              /\ calls[d].mode = casCall[d].mode
              /\ calls[d].hash = casCall[d].hash /\ calls[d].arc = casCall[d].arc
              /\ calls[d].todo = casCall[d].todo /\ calls[d].got = casCall[d].got
              /\ calls[d].known = casCall[d].known
              /\ calls[d].sure = (casCall[d].sure /\ h # casCall[d].hash
                                /\ h \notin ToSet(casCall[d].todo))
              /\ calls[d].through = casCall[d].through \ {h}
  BY <1>1, DoubtedSame
<1> HIDE DEF calls
<1>3. r \in CallType /\ new = [r EXCEPT !.at = at]
  BY <1>2
<1>4. casCall' = [calls EXCEPT ![c] = new]
  BY <1>2 DEF calls
<1> HIDE DEF r, new
<1>5. new \in CallType /\ new.at = at /\ new.op = r.op /\ new.hash = r.hash
      /\ new.arc = r.arc /\ new.mode = r.mode /\ new.todo = r.todo /\ new.got = r.got
      /\ new.known = r.known /\ new.sure = r.sure /\ new.through = r.through
  BY <1>3 DEF CallType
<1>6. casCall' \in [CasCalls -> CallType] /\ casCall'[c] = new
      /\ \A d \in CasCalls \ {c} : casCall'[d] = calls[d]
  BY <1>2, <1>4, <1>5
<1>7. ASSUME NEW d \in CasCalls
      PROVE  casCall'[d].sure => /\ casCall[d].sure /\ h # casCall[d].hash
                                 /\ h \notin ToSet(casCall[d].todo)
  <2>1. casCall'[d].sure = calls[d].sure
    BY <1>5, <1>6 DEF r
  <2> QED
    BY <2>1, <1>2
<1>8. ASSUME NEW d \in CasCalls
      PROVE  /\ d # c => casCall'[d].at = casCall[d].at /\ ShapeOK(casCall'[d])
             /\ casCall'[d].op = casCall[d].op /\ casCall'[d].mode = casCall[d].mode
             /\ casCall'[d].hash = casCall[d].hash /\ casCall'[d].arc = casCall[d].arc
             /\ casCall'[d].todo = casCall[d].todo /\ casCall'[d].got = casCall[d].got
             /\ casCall'[d].known = casCall[d].known
             /\ casCall'[d].through = casCall[d].through \ {h}
  <2>1. CASE d = c
    BY <2>1, <1>2, <1>5, <1>6 DEF r
  <2>2. CASE d # c
    BY <2>2, <1>2, <1>6
  <2> QED
    BY <2>1, <2>2
<1> QED
  BY <1>5, <1>6, <1>7, <1>8 DEF MovedInDoubt

\* Steps under the lock keep the lock invariant.
LEMMA LockMoved ==
  ASSUME LockInv, NEW c \in CasCalls, FilesType', UNCHANGED casLocks,
         casCall[c].at \in Holding, NEW at \in Holding, Moved(c, at)
  PROVE  LockInv'
<1>1. \A d \in CasCalls \ {c} : ShapeOK(casCall'[d])
  BY DEF Moved, LockInv, ShapesOK
<1> QED
  BY <1>1, LockMoves DEF Moved, Naming, Holding

LEMMA LockMovedInDoubt ==
  ASSUME LockInv, NEW c \in CasCalls, FilesType', UNCHANGED casLocks,
         casCall[c].at \in Holding, NEW at \in Holding, NEW h, MovedInDoubt(c, at, h)
  PROVE  LockInv'
  BY LockMoves DEF MovedInDoubt, Naming, Holding

\* A handler goes on with the next object, or it ends.
LEMMA GoesOn ==
  ASSUME LockInv, NEW c \in CasCalls, HandlerGoesOn(c) \/ StreamFails(c)
  PROVE  \E new \in CallType :
            /\ casCall' = [casCall EXCEPT ![c] = new]
            /\ new = Unused \/ (Begun(new) /\ new.at = "ask")
<1> DEFINE this == casCall[c]
<1>1. this \in CallType /\ ShapeOK(this)
  BY DEF LockInv, CasTypeOK, ShapesOK
<1>2. this.hash \in Hashes /\ this.op \in {"chunk", "file"}
  <2>1. CASE HandlerGoesOn(c)
    <3>1. this.at = "end"
      BY <2>1 DEF HandlerGoesOn
    <3>2. this.op # "idle"
      BY <1>1, <3>1, UnusedFields DEF ShapeOK
    <3> HIDE DEF this
    <3> QED
      BY <3>1, <3>2, <1>1 DEF ShapeOK, CallType
  <2>2. CASE StreamFails(c)
    <3>1. this.op = "file"
      BY <2>2 DEF StreamFails
    <3> HIDE DEF this
    <3> QED
      BY <1>1, <3>1 DEF ShapeOK
  <2> QED
    BY <2>1, <2>2
<1>3. \/ casCall' = [casCall EXCEPT ![c] = Unused]
      \/ this.op = "file" /\ casCall' = [casCall EXCEPT ![c] = RolledBack(this)]
      \/ this.op = "file" /\ casCall' = [casCall EXCEPT ![c] = Stored1(this)]
  <2>1. CASE StreamFails(c)
    BY <2>1 DEF StreamFails
  <2>2. CASE HandlerGoesOn(c) /\ this.op = "chunk"
    BY <2>2 DEF HandlerGoesOn
  <2>3. CASE HandlerGoesOn(c) /\ this.op = "file"
    <3>1. casCall' = [casCall EXCEPT ![c] = RolledBack(this)]
          \/ casCall' = [casCall EXCEPT ![c] = Stored1(this)]
      BY <2>3 DEF HandlerGoesOn
    <3> QED
      BY <2>3, <3>1
  <2> QED
    BY <1>2, <2>1, <2>2, <2>3
<1> HIDE DEF this
<1>4. RolledBack(this) \in CallType /\ Stored1(this) \in CallType
  BY <1>1, <1>2, NextType
<1>5. ASSUME this.op = "file"
      PROVE  \/ RolledBack(this) = Unused
             \/ Begun(RolledBack(this)) /\ RolledBack(this).at = "ask"
  <2>1. CASE this.made = <<>>
    <3>1. RolledBack(this) = Unused
      BY <2>1 DEF RolledBack
    <3> QED
      BY <3>1
  <2>2. CASE this.made # <<>>
    <3> DEFINE h == this.made[Len(this.made)]
               m == SubSeq(this.made, 1, Len(this.made) - 1)
               new == [this EXCEPT !.mode = "delete", !.at = "ask", !.arc = 0,
                                   !.hash = h, !.made = m]
    <3>1. this.made \in Seq(Hashes) /\ Len(this.made) \in Nat \ {0}
      BY <1>1, <2>2 DEF CallType
    <3>2. h \in Hashes
      BY <3>1
    <3>3. RolledBack(this) = new
      BY <2>2 DEF RolledBack
    <3>4. new = [this EXCEPT !.mode = "delete", !.at = "ask", !.arc = 0,
                             !.hash = h, !.made = m]
      OBVIOUS
    <3> HIDE DEF h, m, new
    <3>5. new.arc = 0 /\ new.at = "ask" /\ new.hash = h /\ new.op = this.op
      BY <1>1, <3>4 DEF CallType
    <3> QED
      BY <1>5, <3>2, <3>3, <3>5 DEF Begun
  <2> QED
    BY <2>1, <2>2
<1>6. ASSUME this.op = "file"
      PROVE  \/ Stored1(this) = Unused
             \/ Begun(Stored1(this)) /\ Stored1(this).at = "ask"
  <2>1. CASE this.todo = <<>>
    <3>1. Stored1(this) = Unused
      BY <2>1 DEF Stored1
    <3> QED
      BY <3>1
  <2>2. CASE this.todo # <<>>
    <3> DEFINE m == IF this.result = "new" THEN Append(this.made, this.hash)
                                           ELSE this.made
               n == this.added + 1
               h == Head(this.todo)
               r == Tail(this.todo)
               new == [this EXCEPT !.added = n, !.made = m, !.at = "ask",
                                   !.arc = 0, !.hash = h, !.todo = r]
    <3>1. h \in Hashes
      BY <1>1, <2>2 DEF CallType
    <3>2. Stored1(this) = new
      BY <1>1, <2>2 DEF Stored1, CallType
    <3>3. new = [this EXCEPT !.added = n, !.made = m, !.at = "ask",
                             !.arc = 0, !.hash = h, !.todo = r]
      OBVIOUS
    <3> HIDE DEF m, n, h, r, new
    <3>4. new.arc = 0 /\ new.at = "ask" /\ new.hash = h /\ new.op = this.op
      BY <1>1, <3>3 DEF CallType
    <3> QED
      BY <1>6, <3>1, <3>2, <3>4 DEF Begun
  <2> QED
    BY <2>1, <2>2
<1>7. CASE casCall' = [casCall EXCEPT ![c] = Unused]
  BY <1>7, UnusedType
<1>8. CASE this.op = "file" /\ casCall' = [casCall EXCEPT ![c] = RolledBack(this)]
  <2> DEFINE new == RolledBack(this)
  <2>1. new \in CallType /\ casCall' = [casCall EXCEPT ![c] = new]
        /\ (new = Unused \/ (Begun(new) /\ new.at = "ask"))
    BY <1>4, <1>5, <1>8
  <2> HIDE DEF new
  <2> QED
    BY <2>1
<1>9. CASE this.op = "file" /\ casCall' = [casCall EXCEPT ![c] = Stored1(this)]
  <2> DEFINE new == Stored1(this)
  <2>1. new \in CallType /\ casCall' = [casCall EXCEPT ![c] = new]
        /\ (new = Unused \/ (Begun(new) /\ new.at = "ask"))
    BY <1>4, <1>6, <1>9
  <2> HIDE DEF new
  <2> QED
    BY <2>1
<1> QED
  BY <1>3, <1>7, <1>8, <1>9

(***************************************************************************)
(* Pages and reads                                                         *)
(***************************************************************************)

\* A set of numbers has a least element.
LEMMA Least ==
  ASSUME NEW S \in SUBSET Nat, S # {}
  PROVE  \E x \in S : \A y \in S : x <= y
<1>1. \E x \in S : \A y \in S : <<y, x>> \notin OpToRel(<, Nat)
  BY NatLessThanWellFounded, WFMin
<1>2. PICK x \in S : \A y \in S : <<y, x>> \notin OpToRel(<, Nat)
  BY <1>1
<1>3. ASSUME NEW y \in S PROVE x <= y
  <2>1. x \in Nat /\ y \in Nat
    OBVIOUS
  <2>2. ASSUME y < x PROVE <<y, x>> \in OpToRel(<, Nat)
    BY <2>1, <2>2 DEF OpToRel
  <2>3. <<y, x>> \notin OpToRel(<, Nat)
    BY <1>2
  <2>4. ~(y < x)
    BY <2>2, <2>3, Zenon
  <2> QED
    BY <2>1, <2>4
<1> QED
  BY <1>3

\* A finite one has a largest: the one with most elements below it.
LEMMA Largest ==
  ASSUME NEW S \in SUBSET Nat, IsFiniteSet(S), S # {}
  PROVE  Max(S) \in S /\ \A y \in S : y <= Max(S)
<1> DEFINE Below(x) == {y \in S : y < x}
           n == Cardinality(S)
           Ranks == {n - Cardinality(Below(x)) : x \in S}
<1>1. n \in Nat /\ \A x \in S : IsFiniteSet(Below(x)) /\ Cardinality(Below(x)) \in 0..n
  <2>1. n \in Nat
    BY FS_CardinalityType
  <2>2. \A x \in S : Below(x) \in SUBSET S
    OBVIOUS
  <2> QED
    BY <2>1, <2>2, FS_Subset, FS_CardinalityType
<1>2. Ranks \in SUBSET Nat /\ Ranks # {}
  <2>1. ASSUME NEW x \in S PROVE n - Cardinality(Below(x)) \in Nat
    <3> DEFINE m == Cardinality(Below(x))
    <3>1. m \in 0..n /\ n \in Nat
      BY <1>1
    <3> HIDE DEF n, m
    <3> QED
      BY <3>1 DEF m
  <2> QED
    BY <2>1
<1>3. PICK k \in Ranks : \A j \in Ranks : k <= j
  BY <1>2, Least
<1>4. PICK x \in S : k = n - Cardinality(Below(x))
  OBVIOUS
<1>5. ASSUME NEW y \in S PROVE y <= x
  <2>1. SUFFICES ASSUME x < y PROVE FALSE
    BY <1>5
  <2>2. Below(x) \cup {x} \in SUBSET Below(y)
    <3>1. ASSUME NEW z \in Below(x) \cup {x} PROVE z \in S /\ z < y
      <4>1. z \in Nat /\ x \in Nat /\ y \in Nat /\ z \in S
        OBVIOUS
      <4>2. z <= x
        BY <4>1
      <4> QED
        BY <2>1, <4>1, <4>2
    <3> QED
      BY <3>1
  <2>3. /\ Cardinality(Below(x) \cup {x}) = Cardinality(Below(x)) + 1
        /\ Cardinality(Below(x) \cup {x}) <= Cardinality(Below(y))
    <3>1. x \notin Below(x)
      OBVIOUS
    <3> QED
      BY <3>1, <2>2, <1>1, FS_AddElement, FS_Subset
  <2>4. n - Cardinality(Below(y)) \in Ranks
    OBVIOUS
  <2>5. n - Cardinality(Below(x)) <= n - Cardinality(Below(y))
    BY <1>3, <1>4, <2>4
  <2> HIDE DEF n, Below, Ranks
  <2> QED
    BY <2>3, <2>5, <1>1
<1>6. \E z \in S : \A y \in S : z >= y
  BY <1>5
<1> QED
  BY <1>6 DEF Max

\* A page is a beginning of what is left: it has something, and what it does
\* not have comes after everything it has.
Rest(c) == {h \in casIndex : h > casCall[c].hash}
Page(c) == {h \in Rest(c) : Cardinality({g \in Rest(c) : g < h}) < ListLimit}

LEMMA PageOrder ==
  ASSUME LockInv, NEW c \in CasCalls, Page(c) # Rest(c)
  PROVE  /\ Page(c) \subseteq Hashes /\ Max(Page(c)) \in Page(c)
         /\ \A h \in Page(c) : h <= Max(Page(c))
         /\ \A h \in Rest(c) \ Page(c) : h > Max(Page(c))
<1> DEFINE rest == Rest(c)
           page == Page(c)
           Below(h) == {g \in rest : g < h}
<1>0. /\ rest = {h \in casIndex : h > casCall[c].hash}
      /\ page = {h \in rest : Cardinality({g \in rest : g < h}) < ListLimit}
      /\ page # rest
  BY DEF Rest, Page
<1> HIDE DEF rest, page
<1>1. rest \in SUBSET Nat /\ rest \subseteq Hashes /\ IsFiniteSet(rest)
  BY <1>0, ArcsType, HashAssumption, FS_Subset DEF LockInv, CasTypeOK, FilesType
<1>2. page \subseteq rest /\ rest # {}
  BY <1>0
<1>3. PICK m \in rest : \A g \in rest : m <= g
  BY <1>1, <1>2, Least
<1>4. m \in page
  <2>1. Below(m) = {}
    <3>1. \A g \in rest : g \in Nat /\ m \in Nat /\ m <= g
      BY <1>1, <1>3
    <3>2. \A g \in rest : ~(g < m)
      BY <3>1
    <3> QED
      BY <3>2
  <2>2. Cardinality(Below(m)) = 0
    BY <2>1, FS_EmptySet
  <2>3. 0 < ListLimit
    BY HashAssumption
  <2> QED
    BY <1>0, <2>2, <2>3
<1>5. Max(page) \in page /\ \A h \in page : h <= Max(page)
  <2>1. page \in SUBSET Nat /\ IsFiniteSet(page) /\ page # {}
    BY <1>1, <1>2, <1>4, FS_Subset
  <2> QED
    BY <2>1, Largest
<1>6. ASSUME NEW h \in rest \ page PROVE h > Max(page)
  <2> DEFINE p == Max(page)
  <2>1. p \in page /\ p \in rest /\ p \in Nat /\ h \in Nat
    BY <1>1, <1>2, <1>5
  <2> HIDE DEF p
  <2>2. SUFFICES ASSUME h <= p PROVE FALSE
    BY <2>1 DEF p
  <2>3. Below(h) \in SUBSET Below(p)
    <3>1. ASSUME NEW g \in rest, g < h PROVE g < p
      BY <3>1, <2>1, <2>2, <1>1
    <3> QED
      BY <3>1
  <2>4. IsFiniteSet(Below(p)) /\ IsFiniteSet(Below(h))
    BY <1>1, FS_Subset, Below(p) \in SUBSET rest, Below(h) \in SUBSET rest
  <2>5. Cardinality(Below(h)) <= Cardinality(Below(p))
    BY <2>3, <2>4, FS_Subset
  <2>6. Cardinality(Below(h)) \in Nat /\ Cardinality(Below(p)) \in Nat
    BY <2>4, FS_CardinalityType
  <2>7. Cardinality(Below(p)) < ListLimit /\ ~(Cardinality(Below(h)) < ListLimit)
    BY <1>0, <1>6, <2>1
  <2> QED
    BY <2>5, <2>6, <2>7, HashAssumption
<1> QED
  BY <1>1, <1>2, <1>5, <1>6 DEF rest, page

\* A reader or a listing that goes on, or ends.
Reading(new) ==
    /\ new.arc = 0
    /\ \/ new.at \in {"zst", "plain"} /\ new.op \in {"get", "scrub"} /\ new.hash \in Hashes
       \/ new.at = "page" /\ new.op = "list"

LEMMA ReadingShape ==
  ASSUME NEW new \in CallType, Reading(new)
  PROVE  ShapeOK(new) /\ new.at \notin Naming
  BY DEF ShapeOK, Reading, Naming

\* The next object of a reader; got collects what it found wrong.
Next1(c, got) == [casCall[c] EXCEPT !.at = "zst", !.hash = Head(casCall[c].todo),
                                    !.todo = Tail(casCall[c].todo), !.got = got]

LEMMA Next1Fields ==
  ASSUME LockInv, NEW c \in CasCalls, casCall[c].at \in {"zst", "plain"},
         NEW got \in SUBSET Hashes, casCall[c].todo # <<>>
  PROVE  LET new == Next1(c, got) IN
         /\ new \in CallType /\ Reading(new) /\ new.at = "zst"
         /\ new.op = casCall[c].op
         /\ new.hash = Head(casCall[c].todo) /\ new.todo = Tail(casCall[c].todo)
         /\ new.got = got /\ new.sure = casCall[c].sure
         /\ new.through = casCall[c].through /\ new.known = casCall[c].known
<1> DEFINE r == casCall[c]
           h == Head(r.todo)
           rest == Tail(r.todo)
           new == [r EXCEPT !.at = "zst", !.hash = h, !.todo = rest, !.got = got]
<1>1. r \in CallType /\ ShapeOK(r)
  BY DEF LockInv, CasTypeOK, ShapesOK
<1>2. r.arc = 0 /\ r.op \in {"get", "scrub"}
  BY <1>1 DEF ShapeOK, Naming
<1>3. h \in Hashes /\ rest \in Seq(Hashes)
  <2>1. r.todo \in Seq(Hashes)
    BY <1>1 DEF CallType
  <2> QED
    BY <2>1
<1>4. new = Next1(c, got) /\ new = [r EXCEPT !.at = "zst", !.hash = h, !.todo = rest, !.got = got]
  BY DEF Next1
<1> HIDE DEF new, h, rest
<1>5. new \in CallType /\ new.at = "zst" /\ new.op = r.op /\ new.hash = h
      /\ new.todo = rest /\ new.got = got /\ new.sure = r.sure /\ new.arc = r.arc
      /\ new.through = r.through /\ new.known = r.known
  <2> HIDE DEF r
  <2> QED
    BY <1>1, <1>3, <1>4 DEF CallType
<1>6. Reading(new)
  BY <1>2, <1>3, <1>5 DEF Reading
<1> QED
  BY <1>4, <1>5, <1>6 DEF h, rest

\* A read goes on to the plain name, to the next object or to its end.
LEMMA ReadGoes ==
  ASSUME LockInv, NEW c \in CasCalls, ReadObject(c)
  PROVE  \E new \in CallType : /\ casCall' = [casCall EXCEPT ![c] = new]
                               /\ new = Unused \/ Reading(new)
<1> DEFINE this == casCall[c]
<1>1. this \in CallType /\ ShapeOK(this) /\ this.at \in {"zst", "plain"}
  BY DEF ReadObject, Forms, LockInv, CasTypeOK, ShapesOK
<1>2. this.op \in {"get", "scrub"} /\ this.hash \in Hashes /\ this.arc = 0
  BY <1>1 DEF ShapeOK, Naming
<1>3. ASSUME NEW outcome, ReadEnds(c, outcome)
      PROVE  \E new \in CallType : /\ casCall' = [casCall EXCEPT ![c] = new]
                                   /\ new = Unused \/ Reading(new)
  <2> DEFINE bad == this.got \cup (IF outcome = "data" THEN {} ELSE {this.hash})
             new == Next1(c, bad)
  <2>1. bad \in SUBSET Hashes
    <3>1. this.got \in SUBSET Hashes
      BY <1>1 DEF CallType
    <3> QED
      BY <3>1, <1>2
  <2>2. \/ casCall' = [casCall EXCEPT ![c] = Unused]
        \/ this.todo # <<>> /\ casCall' = [casCall EXCEPT ![c] = new]
    BY <1>3 DEF ReadEnds, Next1
  <2> HIDE DEF bad
  <2>3. this.todo # <<>> => new \in CallType /\ Reading(new)
    BY <1>1, <2>1, Next1Fields
  <2> HIDE DEF new, this
  <2> QED
    BY <2>2, <2>3, UnusedType
<1>4. CASE casCall' = [casCall EXCEPT ![c].at = "plain"]
  <2> DEFINE new == [this EXCEPT !.at = "plain"]
  <2>1. casCall' = [casCall EXCEPT ![c] = new] /\ new = [this EXCEPT !.at = "plain"]
    BY <1>4 DEF LockInv, CasTypeOK
  <2> HIDE DEF new, this
  <2>2. new \in CallType /\ new.at = "plain" /\ new.op = this.op /\ new.hash = this.hash
        /\ new.arc = this.arc
    BY <2>1, <1>1 DEF CallType
  <2>3. Reading(new)
    BY <2>2, <1>2 DEF Reading
  <2> QED
    BY <2>1, <2>2, <2>3
<1>5. (\E outcome : ReadEnds(c, outcome)) \/ casCall' = [casCall EXCEPT ![c].at = "plain"]
  BY DEF ReadObject, Read
<1> QED
  BY <1>3, <1>4, <1>5

\* A listing goes on to the next page or to its end.
LEMMA PageGoes ==
  ASSUME LockInv, NEW c \in CasCalls, ListPage(c)
  PROVE  \E new \in CallType : /\ casCall' = [casCall EXCEPT ![c] = new]
                               /\ new = Unused \/ Reading(new)
<1> DEFINE this == casCall[c]
           rest == Rest(c)
           page == Page(c)
           got == this.got \cup page
           last == Max(page)
           new == [this EXCEPT !.got = got, !.hash = last]
<1>1. this \in CallType /\ ShapeOK(this) /\ this.at = "page"
  BY DEF ListPage, LockInv, CasTypeOK, ShapesOK
<1>2. this.op = "list" /\ this.arc = 0
  BY <1>1 DEF ShapeOK, Naming
<1>3. \/ casCall' = [casCall EXCEPT ![c] = Unused]
      \/ page # rest /\ casCall' = [casCall EXCEPT ![c] = new]
  BY DEF ListPage, Rest, Page
<1>4. ASSUME page # rest PROVE got \in SUBSET Hashes /\ last \in Hashes
  <2>1. page \subseteq Hashes /\ last \in page
    BY <1>4, PageOrder
  <2>2. this.got \in SUBSET Hashes
    BY <1>1 DEF CallType
  <2> HIDE DEF page, last, this
  <2> QED
    BY <2>1, <2>2
<1>5. new = [this EXCEPT !.got = got, !.hash = last]
  OBVIOUS
<1> HIDE DEF new, this, got, last, page, rest
<1>6. ASSUME page # rest PROVE new \in CallType /\ Reading(new)
  <2>1. new \in CallType /\ new.at = "page" /\ new.op = "list" /\ new.arc = 0
    BY <1>1, <1>2, <1>4, <1>5, <1>6 DEF CallType
  <2> QED
    BY <2>1 DEF Reading
<1> QED
  BY <1>3, <1>6, UnusedType

(***************************************************************************)
(* Writers of one hash exclude each other                                  *)
(***************************************************************************)

LEMMA LockStep == LockInv /\ [CasNext]_casVars => LockInv'
<1> SUFFICES ASSUME LockInv, [CasNext]_casVars
             PROVE  LockInv'
  OBVIOUS
<1>1. CASE UNCHANGED casVars
  BY <1>1 DEF casVars, casFiles, casMemory, casLocks, LockInv, CasTypeOK, FilesType,
              LocksType, ShapesOK, ShapeOK, HashLockOK
<1>2. CASE CasNext
  <2>1. FilesType'
    BY <1>2, FilesStep
  <2>2. ASSUME NEW c \in CasCalls, CasStart(c)
        PROVE  LockInv'
    <3>1. PICK this \in CallType : Begun(this) /\ StartCas(c, this)
      BY <2>2, StartBegun
    <3>2. casCall' = [casCall EXCEPT ![c] = this] /\ UNCHANGED casLocks
      BY <3>1 DEF StartCas
    <3> QED
      BY <2>1, <3>1, <3>2, BegunShape, LockTurns
  <2>3. ASSUME NEW c \in CasCalls, CasStep(c)
        PROVE  LockInv'
    <3>1. CASE LockForHash(c)
      BY <2>1, <3>1, LockAsk
    <3>2. CASE AcquireHash(c) \/ ReleaseHash(c)
      BY <2>1, <3>2, LockHold
    <3>3. CASE RemoveHashLockIfIdle(c)
      BY <2>1, <3>3, LockTidy
    <3>4. CASE CutOff(c)
      BY <2>1, <3>4, LockCut
    <3>5. CASE \/ PutDeduplicated(c) \/ PutWriteFails(c) \/ PutSynced(c)
               \/ SyncParentFails(c) \/ DeleteFindsNothing(c) \/ DeleteSynced(c)
      <4>1. /\ UNCHANGED casLocks /\ casCall[c].at \in Holding
            /\ \/ Result(c, "known") \/ Result(c, "new") \/ Result(c, "error")
               \/ Result(c, "absent") \/ Result(c, "gone")
        BY <3>5 DEF PutDeduplicated, PutWriteFails, PutSynced, SyncParentFails,
                    DeleteFindsNothing, DeleteSynced, Putting, Deleting, Holding
      <4>2. Moved(c, "free")
        BY <4>1, ResultMoves
      <4> QED
        BY <2>1, <4>1, <4>2, LockMoved, "free" \in Holding DEF Holding
    <3>6. CASE PutWrites(c)
      <4>1. UNCHANGED casLocks /\ casCall[c].at \in Holding
        BY <3>6 DEF PutWrites, Putting, Holding
      <4>2. Moved(c, "sync")
        BY <3>6, WriteMoves
      <4> QED
        BY <2>1, <4>1, <4>2, LockMoved, "sync" \in Holding DEF Holding
    <3>7. CASE PutLooks(c)
      <4> DEFINE h == IF casCall[c].hash \in casIndex THEN casCall[c].hash ELSE 0
      <4>1. UNCHANGED casLocks /\ casCall[c].at \in Holding
        BY <3>7 DEF PutLooks, Putting, Holding
      <4>2. casCall' = [Doubted(casCall, h) EXCEPT ![c].at = "write"]
        BY <3>7 DEF PutLooks
      <4> HIDE DEF h
      <4>3. MovedInDoubt(c, "write", h)
        BY <4>2, DoubtMoves
      <4> QED
        BY <2>1, <4>1, <4>3, LockMovedInDoubt, "write" \in Holding DEF Holding
    <3>8. CASE DeleteUnlinks(c)
      <4>1. UNCHANGED casLocks /\ casCall[c].at \in Holding
            /\ casCall' = [Doubted(casCall, casCall[c].hash) EXCEPT ![c].at = "sync"]
        BY <3>8 DEF DeleteUnlinks, Deleting, Holding
      <4>2. MovedInDoubt(c, "sync", casCall[c].hash)
        BY <4>1, DoubtMoves
      <4> QED
        BY <2>1, <4>1, <4>2, LockMovedInDoubt, "sync" \in Holding DEF Holding
    <3>9. CASE HandlerGoesOn(c) \/ StreamFails(c)
      <4>1. PICK new \in CallType : /\ casCall' = [casCall EXCEPT ![c] = new]
                                    /\ new = Unused \/ (Begun(new) /\ new.at = "ask")
        BY <3>9, GoesOn
      <4>2. ShapeOK(new) /\ new.at \notin Naming
        BY <4>1, BegunShape, UnusedFields DEF ShapeOK, Naming
      <4>3. UNCHANGED casLocks
        BY <3>9 DEF HandlerGoesOn, StreamFails
      <4> QED
        BY <2>1, <4>1, <4>2, <4>3, LockTurns
    <3>10. CASE ReadObject(c) \/ ListPage(c)
      <4>1. PICK new \in CallType : /\ casCall' = [casCall EXCEPT ![c] = new]
                                    /\ new = Unused \/ Reading(new)
        BY <3>10, ReadGoes, PageGoes
      <4>2. ShapeOK(new) /\ new.at \notin Naming
        BY <4>1, ReadingShape, UnusedFields DEF ShapeOK, Naming
      <4>3. UNCHANGED casLocks
        BY <3>10 DEF ReadObject, Read, ReadEnds, ListPage
      <4> QED
        BY <2>1, <4>1, <4>2, <4>3, LockTurns
    <3> QED
      BY <2>3, <3>1, <3>2, <3>3, <3>4, <3>5, <3>6, <3>7, <3>8, <3>9, <3>10 DEF CasStep
  <2>4. CASE RestartProcess \/ LosePower
    BY <2>1, <2>4, LockRestart DEF RestartProcess, LosePower
  <2>5. ASSUME NEW h \in Hashes, Damage(h)
        PROVE  LockInv'
    <3>1. casCall \in [CasCalls -> CallType] /\ \A c \in CasCalls : ShapeOK(casCall[c])
      BY DEF LockInv, CasTypeOK, ShapesOK
    <3>2. casCall' = Doubted(casCall, h) /\ UNCHANGED casLocks
      BY <2>5 DEF Damage
    <3>3. /\ casCall' \in [CasCalls -> CallType]
          /\ \A c \in CasCalls : /\ ShapeOK(casCall'[c]) /\ casCall'[c].at = casCall[c].at
                                 /\ casCall'[c].hash = casCall[c].hash
                                 /\ casCall'[c].arc = casCall[c].arc
      BY <3>1, <3>2, DoubtedSame
    <3>4. ShapesOK'
      BY <3>3 DEF ShapesOK
    <3> QED
      BY <2>1, <3>2, <3>3, <3>4, LockKept
  <2> QED
    BY <1>2, <2>2, <2>3, <2>4, <2>5 DEF CasNext
<1> QED
  BY <1>1, <1>2

\* Whatever entries of the lock map come and go, two calls never work on one
\* object at a time: both would hold the mutex of the Arc the map has for it.
LEMMA LockExcludes == LockInv => HashesExclusive
<1> SUFFICES ASSUME LockInv, NEW c \in CasCalls, NEW d \in CasCalls,
                    c # d, casCall[c].hash = casCall[d].hash,
                    casCall[c].at \in {"look", "write", "sync"},
                    casCall[d].at \in {"look", "write", "sync"}
             PROVE  FALSE
  BY DEF HashesExclusive
<1> QED
  BY DEF LockInv, HashLockOK, Naming, Holding

(***************************************************************************)
(* What was answered survives                                              *)
(***************************************************************************)

\* The files of an indexed object are on the medium as they are seen, unless
\* a rebuild took it over with changes never synced.
IndexSynced == \A h \in casIndex \ casLoose :
                  casDur[h] = casSeen[h] /\ casDurRot[h] = casRot[h]

\* A promised object the index does not have is a compressed file that the
\* last rebuild could not read: a new put leaves it in front.
UnreadFirst == \A h \in casPromise \ casIndex : "zst" \in casSeen[h]

\* A put past its look at the index works on an object the index does not
\* have: no damage, no deduplicated put and no deletion meets its file.
WritersApart ==
    \A c \in CasCalls :
       casCall[c].mode = "put" =>
         /\ casCall[c].at \in {"write", "sync"} => casCall[c].hash \notin casIndex
         /\ casCall[c].at = "sync" => casSeen[casCall[c].hash] # {}

PromiseInv == PromisesKept /\ IndexSynced /\ UnreadFirst /\ WritersApart

\* A file in front that is there is one of the two forms.
LEMMA FirstIn ==
  ASSUME NEW forms \in SUBSET Forms, forms # {}
  PROVE  First(forms) \in forms
  BY DEF First, Forms

\* Nobody gets to write or to sync an object by this step.
NoNewWriter ==
    \A d \in CasCalls : casCall'[d].mode = "put" /\ casCall'[d].at \in {"write", "sync"}
       => /\ casCall[d].mode = "put" /\ casCall[d].at = casCall'[d].at
          /\ casCall[d].hash = casCall'[d].hash

\* The hashes of two calls at work differ.
LEMMA WorkApart ==
  ASSUME LockInv, NEW c \in CasCalls, NEW d \in CasCalls \ {c},
         casCall[c].at \in {"look", "write", "sync"},
         casCall[d].at \in {"look", "write", "sync"}
  PROVE  casCall[c].hash # casCall[d].hash
  BY DEF LockInv, HashLockOK, Naming, Holding

LEMMA WorkHash ==
  ASSUME LockInv, NEW c \in CasCalls, casCall[c].at \in Naming
  PROVE  casCall[c].hash \in Hashes /\ casCall[c] \in CallType
<1>1. casCall[c] \in CallType /\ ShapeOK(casCall[c])
  BY DEF LockInv, CasTypeOK, ShapesOK
<1>2. casCall[c].op # "idle" /\ casCall[c].op # "list"
  BY <1>1, UnusedFields DEF ShapeOK, Naming
<1> QED
  BY <1>1, <1>2 DEF ShapeOK, Naming

\* A step that touches neither files nor index, and begins no write.
LEMMA PromiseQuiet ==
  ASSUME PromiseInv, NoNewWriter,
         UNCHANGED <<casSeen, casDur, casRot, casDurRot, casIndex, casLoose, casUnread,
                     casPromise>>
  PROVE  PromiseInv'
  BY DEF PromiseInv, PromisesKept, Whole, IndexSynced, UnreadFirst, WritersApart, NoNewWriter

\* A call that becomes another one, not yet at a write.
LEMMA TurnsQuiet ==
  ASSUME LockInv, NEW c \in CasCalls, NEW new \in CallType,
         new.at \notin {"write", "sync"}, casCall' = [casCall EXCEPT ![c] = new]
  PROVE  NoNewWriter
<1>1. casCall'[c] = new /\ \A d \in CasCalls \ {c} : casCall'[d] = casCall[d]
  BY DEF LockInv, CasTypeOK
<1> QED
  BY <1>1 DEF NoNewWriter

\* A call that moves to a place other than a write.
LEMMA MovesQuiet ==
  ASSUME LockInv, NEW c \in CasCalls, NEW at, at \notin {"write", "sync"},
         casCall' = [casCall EXCEPT ![c].at = at]
  PROVE  NoNewWriter
<1> DEFINE r == casCall[c]
           new == [r EXCEPT !.at = at]
<1>1. r \in CallType /\ new = [r EXCEPT !.at = at]
  BY DEF LockInv, CasTypeOK
<1>2. casCall' = [casCall EXCEPT ![c] = new]
  BY DEF LockInv, CasTypeOK
<1> HIDE DEF new, r
<1>3. new.at = at
  BY <1>1 DEF CallType
<1>4. casCall'[c] = new /\ \A d \in CasCalls \ {c} : casCall'[d] = casCall[d]
  BY <1>2 DEF LockInv, CasTypeOK
<1> QED
  BY <1>3, <1>4 DEF NoNewWriter

LEMMA PromiseInit == CasInit => PromiseInv
<1> SUFFICES ASSUME CasInit PROVE PromiseInv
  OBVIOUS
<1>1. IndexSynced /\ UnreadFirst
  BY DEF CasInit, IndexSynced, UnreadFirst
<1>3. ASSUME NEW h \in casPromise
      PROVE  Whole(h) /\ h \in casIndex
  <2>1. /\ h \in Hashes /\ casSeen[h] \in SUBSET Forms /\ casSeen[h] # {} /\ h \in casIndex
        /\ casDur = casSeen /\ casRot[h] = {} /\ casDurRot = casRot
    BY <1>3 DEF CasInit
  <2> QED
    BY <2>1, FirstIn DEF Whole
<1>2. WritersApart
  BY UnusedFields DEF CasInit, WritersApart
<1> QED
  BY <1>1, <1>2, <1>3 DEF PromiseInv, PromisesKept

\* A restart rebuilds the index from what survives.
LEMMA PromiseRestart ==
  ASSUME FilesType', RestartCas,
         \A h \in casPromise' : Whole(h)'
  PROVE  PromiseInv'
<1>1. PICK unread \in {{}} \cup {{h} : h \in {g \in Hashes : casSeen'[g] = {"zst"}}} :
         RebuildIndex(casSeen', unread)
  BY DEF RestartCas
<1>2. /\ casIndex' = {h \in Hashes : casSeen'[h] # {} /\ h \notin unread}
      /\ casLoose' = {h \in casIndex' : \/ casSeen'[h] # casDur'[h]
                                       \/ casRot'[h] # casDurRot'[h]}
      /\ casUnread' = unread
  BY <1>1 DEF RebuildIndex
<1>6. \A h \in casPromise' : h \in Hashes /\ casSeen'[h] # {}
  BY DEF FilesType, Whole
<1>7. \A h \in casPromise' : h \in casIndex' \/ (h \in unread /\ casSeen'[h] = {"zst"})
  BY <1>2, <1>6
<1>3. PromisesKept'
  BY <1>2, <1>7 DEF PromisesKept
<1>8. UnreadFirst'
  BY <1>7 DEF UnreadFirst
<1>4. IndexSynced'
  BY <1>2 DEF IndexSynced
<1>5. WritersApart'
  BY UnusedFields DEF RestartCas, WritersApart
<1> QED
  BY <1>3, <1>4, <1>5, <1>8 DEF PromiseInv

\* What one step does to the files of other hashes, and of this one.
SameFiles(k) == /\ casSeen'[k] = casSeen[k] /\ casDur'[k] = casDur[k]
                /\ casRot'[k] = casRot[k] /\ casDurRot'[k] = casDurRot[k]

LEMMA SameWhole ==
  ASSUME NEW k, SameFiles(k), Whole(k)
  PROVE  Whole(k)'
  BY DEF SameFiles, Whole

LEMMA PromiseStep == LockInv /\ PromiseInv /\ [CasNext]_casVars => PromiseInv'
<1> SUFFICES ASSUME LockInv, PromiseInv, [CasNext]_casVars
             PROVE  PromiseInv'
  OBVIOUS
<1>1. CASE UNCHANGED casVars
  BY <1>1 DEF casVars, casFiles, casMemory, PromiseInv, PromisesKept, Whole, IndexSynced, UnreadFirst,
              WritersApart
<1>2. CASE CasNext
  <2>1. FilesType /\ FilesType'
    BY <1>2, FilesStep DEF LockInv, CasTypeOK
  <2>2. ASSUME NEW c \in CasCalls, CasStart(c)
        PROVE  PromiseInv'
    <3>1. PICK this \in CallType : Begun(this) /\ StartCas(c, this)
      BY <2>2, StartBegun
    <3>2. casCall' = [casCall EXCEPT ![c] = this] /\ this.at \notin {"write", "sync"}
      BY <3>1 DEF StartCas, Begun
    <3>3. NoNewWriter
      BY <3>2, TurnsQuiet
    <3> QED
      BY <3>1, <3>3, PromiseQuiet DEF StartCas, casFiles, casMemory
  <2>3. ASSUME NEW c \in CasCalls, CasStep(c)
        PROVE  PromiseInv'
    <3> DEFINE h == casCall[c].hash
    <3>1. CASE LockForHash(c)
      <4>1. NoNewWriter
        <5> DEFINE a == IF casArc[h] # 0 THEN casArc[h]
                        ELSE CHOOSE b \in Arcs : OtherRefs(c, b) = 0
                   r == casCall[c]
                   new == [r EXCEPT !.arc = a, !.at = "wait"]
        <5>0. casCall' = [casCall EXCEPT ![c].arc = a, ![c].at = "wait"]
          BY <3>1 DEF LockForHash
        <5> HIDE DEF a
        <5>1. r \in CallType /\ new = [r EXCEPT !.arc = a, !.at = "wait"]
          BY DEF LockInv, CasTypeOK
        <5>2. casCall' = [casCall EXCEPT ![c] = new]
          BY <5>0 DEF LockInv, CasTypeOK
        <5> HIDE DEF new, r
        <5>3. new.at = "wait"
          BY <5>1 DEF CallType
        <5>4. casCall'[c] = new /\ \A d \in CasCalls \ {c} : casCall'[d] = casCall[d]
          BY <5>2 DEF LockInv, CasTypeOK
        <5> QED
          BY <5>3, <5>4 DEF NoNewWriter
      <4> QED
        BY <3>1, <4>1, PromiseQuiet DEF LockForHash, casFiles, casMemory
    <3>2. CASE AcquireHash(c) \/ ReleaseHash(c) \/ RemoveHashLockIfIdle(c)
      <4>1. \/ casCall' = [casCall EXCEPT ![c].at = "look"]
            \/ casCall' = [casCall EXCEPT ![c].at = "tidy"]
            \/ casCall' = [casCall EXCEPT ![c].at = "end"]
        BY <3>2 DEF AcquireHash, ReleaseHash, RemoveHashLockIfIdle
      <4>2. NoNewWriter
        BY <4>1, MovesQuiet
      <4> QED
        BY <3>2, <4>2, PromiseQuiet DEF AcquireHash, ReleaseHash, RemoveHashLockIfIdle,
                                        casFiles, casMemory
    <3>3. CASE CutOff(c)
      <4>1. NoNewWriter
        BY <3>3, TurnsQuiet, UnusedType, UnusedFields DEF CutOff
      <4> QED
        BY <3>3, <4>1, PromiseQuiet DEF CutOff, casFiles, casMemory
    <3>4. CASE PutWriteFails(c) \/ SyncParentFails(c) \/ DeleteFindsNothing(c)
      <4>1. Result(c, "error") \/ Result(c, "absent")
        BY <3>4 DEF PutWriteFails, SyncParentFails, DeleteFindsNothing
      <4>2. Moved(c, "free")
        BY <4>1, ResultMoves
      <4>3. NoNewWriter
        BY <4>2 DEF Moved, NoNewWriter
      <4> QED
        BY <3>4, <4>3, PromiseQuiet DEF PutWriteFails, SyncParentFails, DeleteFindsNothing,
                                        casFiles, casMemory
    <3>5. CASE HandlerGoesOn(c) \/ StreamFails(c)
      <4>1. PICK new \in CallType : /\ casCall' = [casCall EXCEPT ![c] = new]
                                    /\ new = Unused \/ (Begun(new) /\ new.at = "ask")
        BY <3>5, GoesOn
      <4>2. NoNewWriter
        BY <4>1, TurnsQuiet, UnusedFields
      <4> QED
        BY <3>5, <4>2, PromiseQuiet DEF HandlerGoesOn, StreamFails, casFiles
    <3>6. CASE ReadObject(c) \/ ListPage(c)
      <4>1. PICK new \in CallType : /\ casCall' = [casCall EXCEPT ![c] = new]
                                    /\ new = Unused \/ Reading(new)
        BY <3>6, ReadGoes, PageGoes
      <4>2. new.at \notin {"write", "sync"}
        BY <4>1, UnusedFields DEF Reading
      <4>3. NoNewWriter
        BY <4>1, <4>2, TurnsQuiet
      <4> QED
        BY <3>6, <4>3, PromiseQuiet DEF ReadObject, Read, ReadEnds, ListPage,
                                        casFiles, casMemory
    <3>7. CASE PutDeduplicated(c)
      <4>1. /\ h \in casIndex /\ casSeen[h] # {} /\ Result(c, "known")
            /\ casPromise' = casPromise \cup ({h} \ (Rotten \cup casLoose))
            /\ UNCHANGED <<casSeen, casDur, casRot, casDurRot, casIndex, casLoose, casUnread>>
        BY <3>7 DEF PutDeduplicated, casFiles
      <4>2. Moved(c, "free")
        BY <4>1, ResultMoves
      <4>3. IndexSynced' /\ WritersApart'
        BY <4>1, <4>2 DEF PromiseInv, IndexSynced, WritersApart, Moved
      <4>5. h \in Hashes /\ casSeen[h] \in SUBSET Forms
        BY <2>1, <4>1 DEF FilesType
      <4>6. h \notin Rotten \cup casLoose => Whole(h)
        BY <4>1, <4>5, FirstIn DEF Whole, Rotten, PromiseInv, IndexSynced
      <4>4. PromisesKept'
        BY <4>1, <4>6 DEF PromiseInv, PromisesKept, Whole
      <4>7. UnreadFirst'
        BY <4>1 DEF PromiseInv, UnreadFirst
      <4> QED
        BY <4>3, <4>4, <4>7 DEF PromiseInv
    <3>8. CASE PutLooks(c)
      <4> DEFINE g == IF h \in casIndex THEN h ELSE 0
      <4>1. /\ casCall[c].at = "look" /\ (h \in casIndex => casSeen[h] = {})
            /\ casIndex' = casIndex \ {h}
            /\ casCall' = [Doubted(casCall, g) EXCEPT ![c].at = "write"]
            /\ UNCHANGED <<casSeen, casDur, casRot, casDurRot, casLoose, casUnread, casPromise>>
        BY <3>8 DEF PutLooks, Putting, casFiles
      <4> HIDE DEF g
      <4>2. MovedInDoubt(c, "write", g)
        BY <4>1, DoubtMoves
      <4>3. PromisesKept' /\ UnreadFirst'
        BY <4>1 DEF PromiseInv, PromisesKept, Whole, UnreadFirst
      <4>4. IndexSynced'
        BY <4>1 DEF PromiseInv, IndexSynced
      <4>5. WritersApart'
        <5>1. ASSUME NEW d \in CasCalls, casCall'[d].mode = "put"
              PROVE  /\ casCall'[d].at \in {"write", "sync"} => casCall'[d].hash \notin casIndex'
                     /\ casCall'[d].at = "sync" => casSeen'[casCall'[d].hash] # {}
          <6>1. CASE d = c
            BY <4>1, <4>2, <6>1 DEF MovedInDoubt
          <6>2. CASE d # c
            <7>1. casCall[d].mode = "put" /\ casCall'[d].at = casCall[d].at
                  /\ casCall'[d].hash = casCall[d].hash
              BY <5>1, <4>2, <6>2 DEF MovedInDoubt
            <7> QED
              BY <7>1, <4>1 DEF PromiseInv, WritersApart
          <6> QED
            BY <6>1, <6>2
        <5> QED
          BY <5>1 DEF WritersApart
      <4> QED
        BY <4>3, <4>4, <4>5 DEF PromiseInv
    <3>9. CASE PutWrites(c)
      <4>1. /\ casCall[c].at = "write" /\ casCall[c].mode = "put"
            /\ casSeen' = [casSeen EXCEPT ![h] = @ \cup {WriteTarget(h)}]
            /\ casRot' = [casRot EXCEPT ![h] = @ \ {WriteTarget(h)}]
            /\ UNCHANGED <<casDur, casDurRot, casIndex, casLoose, casUnread, casPromise>>
        BY <3>9 DEF PutWrites, Putting, casMemory
      <4>2. Moved(c, "sync")
        BY <3>9, WriteMoves
      <4>3. h \in Hashes
        BY <4>1, WorkHash DEF Naming
      <4>4. /\ \A k \in Hashes : casSeen[k] \subseteq casSeen'[k]
            /\ casSeen'[h] # {} /\ \A k \in Hashes \ {h} : SameFiles(k)
            /\ casRot'[h] \subseteq casRot[h]
        BY <2>1, <4>1, <4>3 DEF FilesType, SameFiles
      <4>5. h \notin casIndex
        BY <4>1 DEF PromiseInv, WritersApart
      <4>6. PromisesKept'
        <5>1. ASSUME NEW k \in casPromise, k = h PROVE Whole(k)'
          <6>1. Whole(k) /\ "zst" \in casSeen[k]
            BY <4>5, <5>1 DEF PromiseInv, PromisesKept, UnreadFirst
          <6>2. /\ First(casSeen[k]) = "zst" /\ First(casSeen'[k]) = "zst"
                /\ casRot'[k] \subseteq casRot[k] /\ "zst" \in casSeen'[k]
                /\ casDur' = casDur /\ casDurRot' = casDurRot
            BY <4>1, <4>3, <4>4, <5>1, <6>1 DEF First
          <6> QED
            BY <6>1, <6>2 DEF Whole
        <5>2. \A k \in casPromise \ {h} : Whole(k)'
          BY <2>1, <4>4, SameWhole DEF PromiseInv, PromisesKept, FilesType
        <5> QED
          BY <4>1, <5>1, <5>2 DEF PromiseInv, PromisesKept
      <4>7. IndexSynced' /\ UnreadFirst'
        BY <2>1, <4>1, <4>4, <4>5 DEF PromiseInv, IndexSynced, UnreadFirst, FilesType, SameFiles
      <4>8. WritersApart'
        <5>1. ASSUME NEW d \in CasCalls, casCall'[d].mode = "put"
              PROVE  /\ casCall'[d].at \in {"write", "sync"} => casCall'[d].hash \notin casIndex'
                     /\ casCall'[d].at = "sync" => casSeen'[casCall'[d].hash] # {}
          <6>1. CASE d = c
            BY <4>1, <4>2, <4>4, <4>5, <6>1 DEF Moved
          <6>2. CASE d # c
            <7>1. casCall'[d] = casCall[d]
              BY <4>2, <6>2 DEF Moved
            <7>2. casCall[d].at = "sync" => casCall[d].hash \in Hashes
              BY WorkHash DEF Naming
            <7> QED
              BY <5>1, <7>1, <7>2, <4>1, <4>4 DEF PromiseInv, WritersApart
          <6> QED
            BY <6>1, <6>2
        <5> QED
          BY <5>1 DEF WritersApart
      <4> QED
        BY <4>6, <4>7, <4>8 DEF PromiseInv
    <3>10. CASE PutSynced(c)
      <4>1. /\ casCall[c].at = "sync" /\ casCall[c].mode = "put"
            /\ casDur' = [casDur EXCEPT ![h] = casSeen[h]]
            /\ casDurRot' = [casDurRot EXCEPT ![h] = casRot[h]]
            /\ casIndex' = casIndex \cup {h} /\ casPromise' = casPromise \cup ({h} \ Rotten)
            /\ Result(c, "new")
            /\ UNCHANGED <<casSeen, casRot, casLoose, casUnread>>
        BY <3>10 DEF PutSynced, Putting
      <4>2. Moved(c, "free")
        BY <4>1, ResultMoves
      <4>3. h \in Hashes /\ casSeen[h] # {} /\ casSeen[h] \in SUBSET Forms
        BY <2>1, <4>1, WorkHash DEF Naming, PromiseInv, WritersApart, FilesType
      <4>4. /\ casDur'[h] = casSeen[h] /\ casDurRot'[h] = casRot[h]
            /\ \A k \in Hashes \ {h} : SameFiles(k)
        BY <2>1, <4>1, <4>3 DEF FilesType, SameFiles
      <4>5. PromisesKept'
        <5>1. ASSUME NEW k \in casPromise', k = h PROVE Whole(k)'
          <6>1. First(casSeen[k]) \notin casRot[k]
            BY <4>1, <4>3, <5>1 DEF PromiseInv, PromisesKept, Whole, Rotten
          <6>2. First(casSeen[k]) \in casSeen[k]
            BY <4>3, <5>1, FirstIn
          <6>3. casDur'[k] = casSeen[k] /\ casDurRot'[k] = casRot[k]
            BY <4>4, <5>1
          <6> QED
            BY <4>1, <6>1, <6>2, <6>3 DEF Whole
        <5>2. \A k \in casPromise \ {h} : Whole(k)'
          BY <2>1, <4>4, SameWhole DEF PromiseInv, PromisesKept, FilesType
        <5> QED
          BY <4>1, <5>1, <5>2 DEF PromiseInv, PromisesKept
      <4>6. IndexSynced' /\ UnreadFirst'
        BY <2>1, <4>1, <4>3, <4>4 DEF PromiseInv, IndexSynced, UnreadFirst, FilesType, SameFiles
      <4>7. WritersApart'
        <5>1. ASSUME NEW d \in CasCalls, casCall'[d].mode = "put"
              PROVE  /\ casCall'[d].at \in {"write", "sync"} => casCall'[d].hash \notin casIndex'
                     /\ casCall'[d].at = "sync" => casSeen'[casCall'[d].hash] # {}
          <6>1. CASE d = c
            BY <4>2, <6>1 DEF Moved
          <6>2. CASE d # c
            <7>1. casCall'[d] = casCall[d]
              BY <4>2, <6>2 DEF Moved
            <7>2. casCall[d].at \in {"write", "sync"} => casCall[d].hash # h
              BY <4>1, <6>2, WorkApart
            <7> QED
              BY <5>1, <7>1, <7>2, <4>1 DEF PromiseInv, WritersApart
          <6> QED
            BY <6>1, <6>2
        <5> QED
          BY <5>1 DEF WritersApart
      <4> QED
        BY <4>5, <4>6, <4>7 DEF PromiseInv
    <3>11. CASE DeleteUnlinks(c)
      <4>1. PICK gone \in SUBSET casSeen[h] : /\ casSeen' = [casSeen EXCEPT ![h] = @ \ gone]
                                             /\ casRot' = [casRot EXCEPT ![h] = @ \ gone]
        BY <3>11 DEF DeleteUnlinks
      <4>2. /\ casCall[c].at = "look" /\ casCall[c].mode = "delete"
            /\ casIndex' = casIndex \ {h} /\ casPromise' = casPromise \ {h}
            /\ casCall' = [Doubted(casCall, h) EXCEPT ![c].at = "sync"]
            /\ UNCHANGED <<casDur, casDurRot, casLoose, casUnread>>
        BY <3>11 DEF DeleteUnlinks, Deleting
      <4>3. MovedInDoubt(c, "sync", h)
        BY <4>2, DoubtMoves
      <4>4. \A k \in Hashes \ {h} : SameFiles(k)
        BY <2>1, <4>1, <4>2 DEF FilesType, SameFiles
      <4>5. PromisesKept'
        BY <2>1, <4>2, <4>4, SameWhole DEF PromiseInv, PromisesKept, FilesType
      <4>6. IndexSynced' /\ UnreadFirst'
        BY <2>1, <4>2, <4>4 DEF PromiseInv, IndexSynced, UnreadFirst, FilesType, SameFiles
      <4>7. WritersApart'
        <5>1. ASSUME NEW d \in CasCalls, casCall'[d].mode = "put"
              PROVE  /\ casCall'[d].at \in {"write", "sync"} => casCall'[d].hash \notin casIndex'
                     /\ casCall'[d].at = "sync" => casSeen'[casCall'[d].hash] # {}
          <6>1. CASE d = c
            BY <5>1, <4>2, <4>3, <6>1 DEF MovedInDoubt
          <6>2. CASE d # c
            <7>1. casCall[d].mode = "put" /\ casCall'[d].at = casCall[d].at
                  /\ casCall'[d].hash = casCall[d].hash
              BY <5>1, <4>3, <6>2 DEF MovedInDoubt
            <7>2. casCall[d].at = "sync" => casCall[d].hash \in Hashes \ {h}
              BY <4>2, <6>2, WorkApart, WorkHash DEF Naming
            <7> QED
              BY <7>1, <7>2, <4>2, <4>4 DEF PromiseInv, WritersApart, SameFiles
          <6> QED
            BY <6>1, <6>2
        <5> QED
          BY <5>1 DEF WritersApart
      <4> QED
        BY <4>5, <4>6, <4>7 DEF PromiseInv
    <3>12. CASE DeleteSynced(c)
      <4>1. /\ casCall[c].at = "sync" /\ Result(c, "gone")
            /\ casDur' = [casDur EXCEPT ![h] = casSeen[h]]
            /\ casDurRot' = [casDurRot EXCEPT ![h] = casRot[h]]
            /\ UNCHANGED <<casSeen, casRot, casIndex, casLoose, casUnread, casPromise>>
        BY <3>12 DEF DeleteSynced, Deleting, casMemory
      <4>2. Moved(c, "free")
        BY <4>1, ResultMoves
      <4>3. \A k \in Hashes : (casDur'[k] = casDur[k] /\ casDurRot'[k] = casDurRot[k])
                              \/ (casDur'[k] = casSeen[k] /\ casDurRot'[k] = casRot[k])
        BY <2>1, <4>1 DEF FilesType
      <4>4. PromisesKept' /\ UnreadFirst'
        BY <2>1, <4>1, <4>3 DEF PromiseInv, PromisesKept, Whole, UnreadFirst, FilesType
      <4>5. IndexSynced'
        BY <2>1, <4>1, <4>3 DEF PromiseInv, IndexSynced, FilesType
      <4>6. WritersApart'
        BY <4>1, <4>2 DEF PromiseInv, WritersApart, Moved
      <4> QED
        BY <4>4, <4>5, <4>6 DEF PromiseInv
    <3> QED
      BY <2>3, <3>1, <3>2, <3>3, <3>4, <3>5, <3>6, <3>7, <3>8, <3>9, <3>10, <3>11, <3>12
      DEF CasStep
  <2>4. CASE RestartProcess
    <3>1. \A h \in casPromise' : Whole(h)'
      BY <2>4 DEF RestartProcess, casFiles, PromiseInv, PromisesKept, Whole
    <3> QED
      BY <2>1, <2>4, <3>1, PromiseRestart DEF RestartProcess
  <2>5. CASE LosePower
    <3>1. ASSUME NEW h \in casPromise'
          PROVE  Whole(h)'
      <4>1. h \in casPromise /\ h \in Hashes /\ casDirs'[h] # "none"
        BY <2>1, <2>5, <3>1 DEF LosePower, FilesType
      <4>2. /\ casSeen'[h] \in AfterLoss(h, casDirs') /\ casDur' = casSeen' /\ casDurRot' = casRot'
            /\ RotAfterLoss(h, casSeen'[h], casRot'[h])
        BY <2>5, <4>1 DEF LosePower
      <4>3. casSeen[h] \cap casDur[h] \subseteq casSeen'[h] /\ casSeen'[h] \subseteq casSeen[h] \cup casDur[h]
        BY <4>1, <4>2 DEF AfterLoss
      <4>4. Whole(h)
        BY <4>1 DEF PromiseInv, PromisesKept
      <4> DEFINE f == First(casSeen[h])
      <4>5. /\ f \in casSeen[h] \cap casDur[h] /\ f = First(casDur[h])
            /\ f \notin casRot[h] \cup casDurRot[h]
        BY <4>4 DEF Whole
      <4>6. f \in casSeen'[h] /\ First(casSeen'[h]) = f
        BY <4>3, <4>5 DEF First
      <4>7. f \notin casRot'[h]
        BY <4>2, <4>5, <4>6 DEF RotAfterLoss
      <4> QED
        BY <4>2, <4>6, <4>7 DEF Whole
    <3>2. RestartCas
      BY <2>5 DEF LosePower
    <3> QED
      BY <2>1, <3>1, <3>2, PromiseRestart
  <2>6. ASSUME NEW h \in Hashes, Damage(h)
        PROVE  PromiseInv'
    <3>1. /\ h \in casIndex /\ casPromise' = casPromise \ {h}
          /\ casCall' = Doubted(casCall, h)
          /\ UNCHANGED <<casIndex, casLoose, casUnread>>
      BY <2>6 DEF Damage, casMemory
    <3>2. /\ \A k \in Hashes \ {h} : SameFiles(k)
          /\ casDur[h] = casSeen[h] /\ casDurRot[h] = casRot[h]
             => casDur'[h] = casSeen'[h] /\ casDurRot'[h] = casRot'[h]
      <4>1. ASSUME NEW f \in casSeen[h],
                   casRot' = [casRot EXCEPT ![h] = @ \cup {f}],
                   casDurRot' = [casDurRot EXCEPT ![h] = @ \cup ({f} \cap casDur[h])],
                   UNCHANGED <<casSeen, casDur>>
            PROVE  /\ \A k \in Hashes \ {h} : SameFiles(k)
                   /\ casDur[h] = casSeen[h] /\ casDurRot[h] = casRot[h]
                      => casDur'[h] = casSeen'[h] /\ casDurRot'[h] = casRot'[h]
        BY <2>1, <4>1 DEF FilesType, SameFiles
      <4>2. CASE /\ casSeen' = [casSeen EXCEPT ![h] = {}] /\ casDur' = [casDur EXCEPT ![h] = {}]
                 /\ casRot' = [casRot EXCEPT ![h] = {}] /\ casDurRot' = [casDurRot EXCEPT ![h] = {}]
        BY <2>1, <4>2 DEF FilesType, SameFiles
      <4> QED
        BY <2>6, <4>1, <4>2 DEF Damage
    <3>3. \A c \in CasCalls : /\ casCall'[c].at = casCall[c].at
                              /\ casCall'[c].mode = casCall[c].mode
                              /\ casCall'[c].hash = casCall[c].hash
      <4>1. casCall \in [CasCalls -> CallType] /\ \A c \in CasCalls : ShapeOK(casCall[c])
        BY DEF LockInv, CasTypeOK, ShapesOK
      <4> QED
        BY <3>1, <4>1, DoubtedSame
    <3>4. PromisesKept' /\ UnreadFirst'
      BY <2>1, <3>1, <3>2, SameWhole DEF PromiseInv, PromisesKept, UnreadFirst, FilesType, SameFiles
    <3>5. IndexSynced'
      BY <2>1, <3>1, <3>2 DEF PromiseInv, IndexSynced, FilesType, SameFiles
    <3>6. WritersApart'
      <4>1. ASSUME NEW d \in CasCalls, casCall[d].mode = "put",
                   casCall[d].at \in {"write", "sync"}
            PROVE  casCall[d].hash \in Hashes \ {h}
        BY <3>1, <4>1, WorkHash DEF Naming, PromiseInv, WritersApart
      <4> QED
        BY <3>1, <3>2, <3>3, <4>1 DEF PromiseInv, WritersApart, SameFiles
    <3> QED
      BY <3>4, <3>5, <3>6 DEF PromiseInv
  <2> QED
    BY <1>2, <2>2, <2>3, <2>4, <2>5, <2>6 DEF CasNext
<1> QED
  BY <1>1, <1>2

(***************************************************************************)
(* Answers to reads, listings and scrubs                                   *)
(***************************************************************************)

AnswerInv == casWrong = {} /\ \A c \in CasCalls : ReaderOK(casCall[c])

ReadInv == LockInv /\ PromiseInv /\ AnswerInv

\* Nothing happens to a reader but that it counts on less, and everything it
\* still counts on stays as it was.
StillOK(d) ==
    /\ casCall'[d].op = casCall[d].op /\ casCall'[d].at = casCall[d].at
    /\ casCall'[d].hash = casCall[d].hash /\ casCall'[d].todo = casCall[d].todo
    /\ casCall'[d].got = casCall[d].got /\ casCall'[d].known = casCall[d].known
    /\ casCall'[d].through \subseteq casCall[d].through
    /\ casCall'[d].sure =>
         /\ casCall[d].sure /\ casSeen[casCall[d].hash] \subseteq casSeen'[casCall[d].hash]
         /\ casRot'[casCall[d].hash] \subseteq casRot[casCall[d].hash]
         /\ \A h \in {casCall[d].hash} \cup ToSet(casCall[d].todo) :
               h \in casPromise => h \in casPromise'
    /\ \A h \in casCall'[d].through \cap casIndex :
         /\ h \in casIndex' /\ (h \in Rotten => h \in Rotten')
         /\ casSeen'[h] \subseteq casSeen[h]

Writer(this) == this.op \notin {"get", "list", "scrub"}

LEMMA AnswersStill ==
  ASSUME AnswerInv, casWrong' = casWrong,
         \A d \in CasCalls : Writer(casCall'[d]) \/ StillOK(d)
  PROVE  AnswerInv'
<1> SUFFICES ASSUME NEW d \in CasCalls PROVE ReaderOK(casCall[d])'
  BY DEF AnswerInv
<1>1. CASE Writer(casCall'[d])
  BY <1>1 DEF Writer, ReaderOK
<1>2. CASE StillOK(d)
  <2>1. ReaderOK(casCall[d])
    BY DEF AnswerInv
  <2>2. CASE casCall[d].op = "get"
    BY <1>2, <2>1, <2>2 DEF StillOK, ReaderOK
  <2>3. CASE casCall[d].op = "list"
    BY <1>2, <2>1, <2>3 DEF StillOK, ReaderOK
  <2>4. CASE casCall[d].op = "scrub"
    <3>1. ASSUME NEW h \in casCall'[d].through
          PROVE  /\ h \in casIndex'
                 /\ h \in casCall'[d].known =>
                      /\ h \in Rotten'
                      /\ h \in casCall'[d].got \cup {casCall'[d].hash} \cup ToSet(casCall'[d].todo)
                 /\ h \in casCall'[d].got => h \in Rotten' \/ casSeen'[h] = {}
                 /\ h = casCall'[d].hash /\ casCall'[d].at = "plain" => "zst" \notin casSeen'[h]
      <4>1. /\ h \in casIndex
            /\ h \in casCall[d].known =>
                 /\ h \in Rotten
                 /\ h \in casCall[d].got \cup {casCall[d].hash} \cup ToSet(casCall[d].todo)
            /\ h \in casCall[d].got => h \in Rotten \/ casSeen[h] = {}
            /\ h = casCall[d].hash /\ casCall[d].at = "plain" => "zst" \notin casSeen[h]
        BY <1>2, <2>1, <2>4, <3>1 DEF StillOK, ReaderOK
      <4>2. h \in casIndex' /\ (h \in Rotten => h \in Rotten') /\ casSeen'[h] \subseteq casSeen[h]
        BY <1>2, <3>1, <4>1 DEF StillOK
      <4>3. /\ casCall'[d].known = casCall[d].known /\ casCall'[d].got = casCall[d].got
            /\ casCall'[d].hash = casCall[d].hash /\ casCall'[d].at = casCall[d].at
            /\ casCall'[d].todo = casCall[d].todo
        BY <1>2 DEF StillOK
      <4> QED
        BY <4>1, <4>2, <4>3
    <3>2. casCall'[d].op = "scrub"
      BY <1>2, <2>4 DEF StillOK
    <3> QED
      BY <3>1, <3>2 DEF ReaderOK
  <2>5. CASE Writer(casCall[d])
    BY <1>2, <2>5 DEF StillOK, Writer, ReaderOK
  <2> QED
    BY <2>2, <2>3, <2>4, <2>5 DEF Writer
<1> QED
  BY <1>1, <1>2

\* A call turns into one that is as it should be; nothing else happens.
LEMMA AnswersTurn ==
  ASSUME LockInv, AnswerInv, casWrong' = casWrong, NEW c \in CasCalls, NEW new \in CallType,
         casCall' = [casCall EXCEPT ![c] = new], ReaderOK(new),
         UNCHANGED <<casSeen, casRot, casIndex, casPromise>>
  PROVE  AnswerInv'
<1>1. casCall'[c] = new /\ \A d \in CasCalls \ {c} : casCall'[d] = casCall[d]
  BY DEF LockInv, CasTypeOK
<1>2. \A d \in CasCalls : ReaderOK(casCall'[d])
  BY <1>1 DEF AnswerInv
<1>3. \A d \in CasCalls : ReaderOK(casCall[d])'
  BY <1>2 DEF ReaderOK, Rotten
<1> QED
  BY <1>3 DEF AnswerInv

\* Calls that go through the lock are no readers.
LEMMA WritersOnly ==
  ASSUME LockInv, NEW c \in CasCalls, casCall[c].at \notin {"zst", "plain", "page"}
  PROVE  Writer(casCall[c])
<1>1. ShapeOK(casCall[c])
  BY DEF LockInv, ShapesOK
<1> QED
  BY <1>1 DEF ShapeOK, Writer

\* One object read.
LEMMA AnswersRead ==
  ASSUME ReadInv, NEW c \in CasCalls, ReadObject(c)
  PROVE  AnswerInv'
<1> DEFINE this == casCall[c]
           h == this.hash
<1>1. /\ this \in CallType /\ ShapeOK(this) /\ this.at \in {"zst", "plain"}
      /\ LockInv /\ AnswerInv /\ ReaderOK(this)
  BY DEF ReadObject, Forms, ReadInv, LockInv, CasTypeOK, ShapesOK, AnswerInv
<1>2. this.op \in {"get", "scrub"} /\ h \in Hashes
  BY <1>1 DEF ShapeOK
<1>3. UNCHANGED <<casSeen, casRot, casIndex, casPromise>>
  BY DEF ReadObject, Read, ReadEnds, casFiles, casMemory
<1>4. this.got \in SUBSET Hashes /\ this.todo \in Seq(Hashes) /\ casSeen[h] \subseteq Forms
  BY <1>1, <1>2 DEF CallType, LockInv, CasTypeOK, FilesType
<1>5. CASE this.at = "zst" /\ "zst" \notin casSeen[h]
           /\ casCall' = [casCall EXCEPT ![c].at = "plain"] /\ casWrong' = casWrong
  <2> DEFINE new == [this EXCEPT !.at = "plain"]
  <2>1. casCall' = [casCall EXCEPT ![c] = new] /\ new = [this EXCEPT !.at = "plain"]
    BY <1>5, <1>1 DEF LockInv, CasTypeOK
  <2> HIDE DEF new
  <2>2. /\ new \in CallType /\ new.at = "plain" /\ new.op = this.op /\ new.hash = h
        /\ new.todo = this.todo /\ new.got = this.got /\ new.sure = this.sure
        /\ new.through = this.through /\ new.known = this.known
    <3> HIDE DEF this
    <3> QED
      BY <2>1, <1>1 DEF CallType, h
  <2>3. this.op = "get" /\ this.sure => "plain" \in casSeen[h] \ casRot[h]
    <3>1. this.op = "get" /\ this.sure => Whole(h)
      BY <1>1 DEF ReaderOK, ReadInv, PromiseInv, PromisesKept
    <3> QED
      BY <3>1, <1>5 DEF Whole, First
  <2>4. ReaderOK(new)
    <3>1. CASE this.op = "get"
      BY <3>1, <1>1, <2>2, <2>3 DEF ReaderOK
    <3>2. CASE this.op = "scrub"
      BY <3>2, <1>1, <1>5, <2>2 DEF ReaderOK
    <3> QED
      BY <1>2, <3>1, <3>2
  <2> QED
    BY <1>1, <1>3, <1>5, <2>1, <2>2, <2>4, AnswersTurn
<1>6. ASSUME NEW outcome \in {"data", "mismatch", "missing"}, ReadEnds(c, outcome),
             outcome = "data" => this.at \in casSeen[h] \ casRot[h],
             outcome = "mismatch" => this.at \in casSeen[h] \cap casRot[h],
             outcome = "missing" => this.at = "plain" /\ "plain" \notin casSeen[h]
      PROVE  AnswerInv'
  <2> DEFINE bad == this.got \cup (IF outcome = "data" THEN {} ELSE {h})
             over == this.todo = <<>> \/ (this.op = "get" /\ outcome # "data")
             new == Next1(c, bad)
  <2>1. bad \in SUBSET Hashes /\ this.got \subseteq bad /\ (outcome # "data" => h \in bad)
        /\ bad \subseteq this.got \cup {h} /\ (outcome = "data" => bad = this.got)
    BY <1>2, <1>4
  \* A sure reader finds its object.
  <2>2. this.op = "get" /\ this.sure => outcome = "data"
    <3>1. this.op = "get" /\ this.sure => Whole(h)
      BY <1>1 DEF ReaderOK, ReadInv, PromiseInv, PromisesKept
    <3>2. this.op = "get" /\ this.sure => (this.at = "plain" => "plain" \in casSeen[h] \ casRot[h])
      BY <1>1 DEF ReaderOK
    <3> QED
      BY <1>1, <1>6, <3>1, <3>2 DEF Whole, First
  \* A scrub judges what it read.
  <2>3. ASSUME this.op = "scrub", NEW k \in this.through
        PROVE  /\ k \in casIndex
               /\ k \in this.known => k \in Rotten /\ k \in bad \cup ToSet(this.todo)
               /\ k \in bad => k \in Rotten \/ casSeen[k] = {}
    <3>1. /\ k \in casIndex
          /\ k \in this.known => k \in Rotten /\ k \in this.got \cup {h} \cup ToSet(this.todo)
          /\ k \in this.got => k \in Rotten \/ casSeen[k] = {}
          /\ k = h /\ this.at = "plain" => "zst" \notin casSeen[k]
      BY <1>1, <2>3 DEF ReaderOK
    <3>2. CASE k # h
      BY <2>1, <3>1, <3>2
    <3>3. CASE k = h
      <4>1. outcome = "missing" => casSeen[h] = {}
        BY <1>4, <1>6, <3>1, <3>3 DEF Forms
      <4>3. outcome # "missing" => this.at = First(casSeen[h])
        BY <1>1, <1>6, <3>1, <3>3 DEF First
      <4>4. (outcome = "data" => h \notin Rotten) /\ (outcome = "mismatch" => h \in Rotten)
        BY <1>2, <1>6, <4>3 DEF Rotten
      <4>2. k \in this.known => outcome # "data"
        BY <3>1, <3>3, <4>4
      <4> QED
        BY <1>6, <2>1, <3>1, <3>3, <4>1, <4>2, <4>4
    <3> QED
      BY <3>2, <3>3
  <2>4. /\ casCall' = [casCall EXCEPT ![c] = IF over THEN Unused ELSE new]
        /\ casWrong' = casWrong
             \cup (IF this.op = "get" /\ this.sure /\ outcome # "data" THEN {"missed"} ELSE {})
             \cup (IF this.op = "scrub" /\ over
                        /\ \E k \in this.through \cap casIndex :
                              \/ k \in this.known /\ k \notin bad
                              \/ k \in bad /\ k \notin Rotten /\ casSeen[k] # {}
                   THEN {"misjudged"} ELSE {})
    BY <1>6 DEF ReadEnds, Next1
  <2> HIDE DEF bad, new, over
  <2>5. casWrong' = casWrong
    <3>1. this.op = "scrub" /\ over => ToSet(this.todo) = {}
      BY EmptyToSet DEF over
    <3>2. ASSUME this.op = "scrub", over, NEW k \in this.through
          PROVE  ~(\/ k \in this.known /\ k \notin bad
                   \/ k \in bad /\ k \notin Rotten /\ casSeen[k] # {})
      BY <2>3, <3>1, <3>2
    <3> HIDE DEF this, h
    <3> QED
      BY <2>2, <2>4, <3>2
  <2>6. CASE over
    <3>1. casCall' = [casCall EXCEPT ![c] = Unused]
      BY <2>4, <2>6
    <3>2. ReaderOK(Unused)
      BY UnusedFields DEF ReaderOK
    <3> QED
      BY <1>1, <1>3, <2>5, <3>1, <3>2, UnusedType, AnswersTurn
  <2>7. CASE ~over
    <3>1. this.todo # <<>> /\ casCall' = [casCall EXCEPT ![c] = new]
      BY <2>4, <2>7 DEF over
    <3>2. /\ new \in CallType /\ new.at = "zst" /\ new.op = this.op
          /\ new.hash = Head(this.todo) /\ new.todo = Tail(this.todo)
          /\ new.got = bad /\ new.sure = this.sure
          /\ new.through = this.through /\ new.known = this.known
      BY <1>1, <2>1, <3>1, Next1Fields DEF new
    <3>3. ToSet(this.todo) = {new.hash} \cup ToSet(new.todo)
      BY <1>4, <3>1, <3>2, HeadAndTail
    <3>4. ReaderOK(new)
      <4>1. CASE this.op = "get"
        BY <1>1, <3>2, <3>3, <4>1 DEF ReaderOK
      <4>2. CASE this.op = "scrub"
        BY <2>3, <3>2, <3>3, <4>2 DEF ReaderOK
      <4> QED
        BY <1>2, <4>1, <4>2
    <3> QED
      BY <1>1, <1>3, <2>5, <3>1, <3>2, <3>4, AnswersTurn
  <2> QED
    BY <2>6, <2>7
<1>7. PICK form \in Forms : this.at = form /\ Read(c, form)
  BY DEF ReadObject
<1>8. CASE form \in casSeen[h] /\ form \in casRot[h]
  <2>1. ReadEnds(c, "mismatch")
    BY <1>7, <1>8 DEF Read
  <2> QED
    BY <1>6, <1>7, <1>8, <2>1
<1>9. CASE form \in casSeen[h] /\ form \notin casRot[h]
  <2>1. ReadEnds(c, "data")
    BY <1>7, <1>9 DEF Read
  <2> QED
    BY <1>6, <1>7, <1>9, <2>1
<1>10. CASE form \notin casSeen[h] /\ form = "plain"
  <2>1. ReadEnds(c, "missing")
    BY <1>7, <1>10 DEF Read
  <2> QED
    BY <1>6, <1>7, <1>10, <2>1
<1>11. CASE form \notin casSeen[h] /\ form # "plain"
  <2>1. form = "zst" /\ casCall' = [casCall EXCEPT ![c].at = "plain"] /\ casWrong' = casWrong
    BY <1>7, <1>11 DEF Read, Forms
  <2> QED
    BY <1>5, <1>7, <1>11, <2>1
<1> QED
  BY <1>8, <1>9, <1>10, <1>11

\* One page listed.
LEMMA AnswersPage ==
  ASSUME ReadInv, NEW c \in CasCalls, ListPage(c)
  PROVE  AnswerInv'
<1> DEFINE this == casCall[c]
           rest == Rest(c)
           page == Page(c)
           got == this.got \cup page
           last == Max(page)
           new == [this EXCEPT !.got = got, !.hash = last]
<1>1. /\ this \in CallType /\ ShapeOK(this) /\ this.at = "page"
      /\ LockInv /\ AnswerInv /\ ReaderOK(this)
  BY DEF ListPage, ReadInv, LockInv, CasTypeOK, ShapesOK, AnswerInv
<1>2. this.op = "list" /\ UNCHANGED <<casSeen, casRot, casIndex, casPromise>>
  BY <1>1 DEF ShapeOK, ListPage, casFiles, casMemory
<1>3. /\ casCall' = [casCall EXCEPT ![c] = IF page = rest THEN Unused ELSE new]
      /\ casWrong' = casWrong \cup (IF page = rest /\ ~(this.through \subseteq got)
                                    THEN {"unlisted"} ELSE {})
  BY DEF ListPage, Rest, Page
<1>4. \A h \in this.through : h \in casIndex /\ (h \in this.got \/ h \in rest)
  BY <1>1, <1>2 DEF ReaderOK, Rest
<1>5. new = [this EXCEPT !.got = got, !.hash = last]
  OBVIOUS
<1>6. page # rest => /\ page \subseteq Hashes /\ last \in page
                     /\ \A h \in rest \ page : h > last
  BY <1>1, PageOrder
<1>7. got = this.got \cup page
  OBVIOUS
<1> HIDE DEF new, got, last, page, rest
<1>8. casWrong' = casWrong
  BY <1>3, <1>4, <1>7
<1>9. CASE page = rest
  <2>1. casCall' = [casCall EXCEPT ![c] = Unused] /\ ReaderOK(Unused)
    BY <1>3, <1>9, UnusedFields DEF ReaderOK
  <2> QED
    BY <1>1, <1>2, <1>8, <2>1, UnusedType, AnswersTurn
<1>10. CASE page # rest
  <2>1. got \in SUBSET Hashes /\ last \in Hashes
    <3>1. this.got \in SUBSET Hashes
      BY <1>1 DEF CallType
    <3> QED
      BY <1>6, <1>7, <1>10, <3>1
  <2>2. /\ new \in CallType /\ new.op = "list" /\ new.got = got /\ new.hash = last
        /\ new.through = this.through
    <3> HIDE DEF this
    <3> QED
      BY <1>1, <1>2, <1>5, <2>1 DEF CallType
  <2>3. ReaderOK(new)
    BY <1>4, <1>6, <1>7, <1>10, <2>2 DEF ReaderOK
  <2> QED
    BY <1>1, <1>2, <1>3, <1>8, <1>10, <2>2, <2>3, AnswersTurn
<1> QED
  BY <1>9, <1>10

LEMMA AnswerStep == ReadInv /\ [CasNext]_casVars => AnswerInv'
<1> SUFFICES ASSUME ReadInv, [CasNext]_casVars
             PROVE  AnswerInv'
  OBVIOUS
<1>0. LockInv /\ PromiseInv /\ AnswerInv /\ FilesType
  BY DEF ReadInv, LockInv, CasTypeOK
<1>1. CASE UNCHANGED casVars
  BY <1>0, <1>1 DEF casVars, casFiles, casMemory, AnswerInv, ReaderOK, Rotten
<1>2. CASE CasNext
  <2>2. ASSUME NEW c \in CasCalls, CasStart(c)
        PROVE  AnswerInv'
    <3>1. PICK this \in CallType : Begun(this) /\ ReaderOK(this) /\ StartCas(c, this)
      BY <1>0, <2>2, StartBegun
    <3>2. /\ casCall' = [casCall EXCEPT ![c] = this] /\ casWrong' = casWrong
          /\ UNCHANGED <<casSeen, casRot, casIndex, casPromise>>
      BY <3>1 DEF StartCas, casFiles, casMemory
    <3> QED
      BY <1>0, <3>1, <3>2, AnswersTurn
  <2>3. ASSUME NEW c \in CasCalls, CasStep(c)
        PROVE  AnswerInv'
    <3> DEFINE h == casCall[c].hash
    <3>1. CASE ReadObject(c)
      BY <3>1, AnswersRead
    <3>2. CASE ListPage(c)
      BY <3>2, AnswersPage
    <3>3. CASE HandlerGoesOn(c) \/ StreamFails(c)
      <4>1. PICK new \in CallType : /\ casCall' = [casCall EXCEPT ![c] = new]
                                    /\ new = Unused \/ (Begun(new) /\ new.at = "ask")
        BY <1>0, <3>3, GoesOn
      <4>2. new.op \in {"idle", "chunk", "file"}
        BY <4>1, UnusedFields DEF Begun
      <4>3. ReaderOK(new)
        BY <4>2 DEF ReaderOK
      <4>4. casWrong' = casWrong /\ UNCHANGED <<casSeen, casRot, casIndex, casPromise>>
        BY <3>3 DEF HandlerGoesOn, StreamFails, casFiles
      <4> QED
        BY <1>0, <4>1, <4>3, <4>4, AnswersTurn
    <3>4. CASE CutOff(c)
      <4>1. /\ casCall' = [casCall EXCEPT ![c] = Unused] /\ casWrong' = casWrong
            /\ UNCHANGED <<casSeen, casRot, casIndex, casPromise>>
        BY <3>4 DEF CutOff, casFiles, casMemory
      <4>2. ReaderOK(Unused)
        BY UnusedFields DEF ReaderOK
      <4> QED
        BY <1>0, <4>1, <4>2, UnusedType, AnswersTurn
    \* Everything else is a step of a writer c.
    <3>5. CASE LockForHash(c) \/ AcquireHash(c) \/ ReleaseHash(c) \/ RemoveHashLockIfIdle(c)
      <4>1. casCall[c].at \notin {"zst", "plain", "page"} /\ casWrong' = casWrong
            /\ UNCHANGED <<casSeen, casRot, casIndex, casPromise>>
        BY <3>5 DEF LockForHash, AcquireHash, ReleaseHash, RemoveHashLockIfIdle,
                    casFiles, casMemory
      <4>2. Writer(casCall[c])
        BY <1>0, <4>1, WritersOnly
      <4>3. PICK a, at : casCall' = [casCall EXCEPT ![c].arc = a, ![c].at = at]
                         \/ casCall' = [casCall EXCEPT ![c].at = at]
        <5>1. CASE LockForHash(c)
          <6> DEFINE b == IF casArc[h] # 0 THEN casArc[h]
                          ELSE CHOOSE x \in Arcs : OtherRefs(c, x) = 0
          <6>1. casCall' = [casCall EXCEPT ![c].arc = b, ![c].at = "wait"]
            BY <5>1 DEF LockForHash
          <6> HIDE DEF b
          <6> QED
            BY <6>1
        <5>2. CASE AcquireHash(c) \/ ReleaseHash(c) \/ RemoveHashLockIfIdle(c)
          BY <5>2 DEF AcquireHash, ReleaseHash, RemoveHashLockIfIdle
        <5> QED
          BY <3>5, <5>1, <5>2
      <4>4. casCall'[c].op = casCall[c].op /\ \A d \in CasCalls \ {c} : casCall'[d] = casCall[d]
        <5> DEFINE r == casCall[c]
                   new1 == [r EXCEPT !.arc = a, !.at = at]
                   new2 == [r EXCEPT !.at = at]
        <5>1. r \in CallType /\ new1 = [r EXCEPT !.arc = a, !.at = at]
              /\ new2 = [r EXCEPT !.at = at] /\ casCall \in [CasCalls -> CallType]
          BY <1>0 DEF LockInv, CasTypeOK
        <5>2. casCall' = [casCall EXCEPT ![c] = new1] \/ casCall' = [casCall EXCEPT ![c] = new2]
          BY <4>3, <5>1
        <5> HIDE DEF r, new1, new2
        <5>3. new1.op = r.op /\ new2.op = r.op
          BY <5>1 DEF CallType
        <5> QED
          BY <5>1, <5>2, <5>3 DEF r
      <4>5. \A d \in CasCalls : Writer(casCall'[d]) \/ StillOK(d)
        BY <4>1, <4>2, <4>4 DEF Writer, StillOK, Rotten
      <4> QED
        BY <1>0, <4>1, <4>5, AnswersStill
    <3>6. CASE \/ PutDeduplicated(c) \/ PutWriteFails(c) \/ PutSynced(c)
               \/ SyncParentFails(c) \/ DeleteFindsNothing(c) \/ DeleteSynced(c)
      <4>1. /\ casCall[c].at \in Holding
            /\ \/ Result(c, "known") \/ Result(c, "new") \/ Result(c, "error")
               \/ Result(c, "absent") \/ Result(c, "gone")
        BY <3>6 DEF PutDeduplicated, PutWriteFails, PutSynced, SyncParentFails,
                    DeleteFindsNothing, DeleteSynced, Putting, Deleting, Holding
      <4>2. /\ casIndex \subseteq casIndex' /\ casPromise \subseteq casPromise'
            /\ casWrong' = casWrong /\ UNCHANGED <<casSeen, casRot>>
        BY <3>6 DEF PutDeduplicated, PutWriteFails, PutSynced, SyncParentFails,
                    DeleteFindsNothing, DeleteSynced, casFiles, casMemory
      <4>3. Moved(c, "free") /\ Writer(casCall[c])
        BY <1>0, <4>1, ResultMoves, WritersOnly DEF Holding
      <4>4. \A d \in CasCalls : Writer(casCall'[d]) \/ StillOK(d)
        BY <4>2, <4>3 DEF Moved, Writer, StillOK, Rotten
      <4> QED
        BY <1>0, <4>2, <4>4, AnswersStill
    <3>7. CASE PutWrites(c)
      <4>1. /\ casCall[c].at = "write" /\ casCall[c].mode = "put"
            /\ casSeen' = [casSeen EXCEPT ![h] = @ \cup {WriteTarget(h)}]
            /\ casRot' = [casRot EXCEPT ![h] = @ \ {WriteTarget(h)}] /\ casWrong' = casWrong
            /\ UNCHANGED <<casIndex, casPromise>>
        BY <3>7 DEF PutWrites, Putting, casMemory
      <4>2. Moved(c, "sync") /\ Writer(casCall[c]) /\ h \in Hashes
        BY <1>0, <3>7, <4>1, WriteMoves, WritersOnly, WorkHash DEF Naming
      <4>3. h \notin casIndex
        BY <1>0, <4>1 DEF PromiseInv, WritersApart
      <4>4. /\ \A k \in Hashes : casSeen[k] \subseteq casSeen'[k]
            /\ \A k \in Hashes : casRot'[k] \subseteq casRot[k]
            /\ \A k \in Hashes \ {h} : casSeen'[k] = casSeen[k] /\ casRot'[k] = casRot[k]
        BY <1>0, <4>1, <4>2 DEF FilesType
      <4>5. ASSUME NEW d \in CasCalls PROVE Writer(casCall'[d]) \/ StillOK(d)
        <5>1. CASE d = c
          BY <4>2, <5>1 DEF Moved, Writer
        <5>2. CASE d # c
          <6>1. casCall'[d] = casCall[d] /\ ShapeOK(casCall[d])
            BY <1>0, <4>2, <5>2 DEF Moved, LockInv, ShapesOK
          <6>2. CASE Writer(casCall[d])
            BY <6>1, <6>2
          <6>3. CASE casCall[d].op \in {"get", "scrub"}
            <7>1. casCall[d].hash \in Hashes
              BY <6>1, <6>3 DEF ShapeOK
            <7>2. ASSUME NEW k \in casCall'[d].through \cap casIndex
                  PROVE  /\ k \in casIndex' /\ (k \in Rotten => k \in Rotten')
                         /\ casSeen'[k] \subseteq casSeen[k]
              BY <1>0, <4>1, <4>3, <4>4 DEF FilesType, Rotten
            <7> QED
              BY <6>1, <7>1, <7>2, <4>1, <4>4 DEF StillOK
          <6>4. CASE casCall[d].op = "list"
            <7>1. ASSUME NEW k \in casCall'[d].through \cap casIndex
                  PROVE  /\ k \in casIndex' /\ (k \in Rotten => k \in Rotten')
                         /\ casSeen'[k] \subseteq casSeen[k]
              BY <1>0, <4>1, <4>3, <4>4 DEF FilesType, Rotten
            <7> QED
              BY <6>1, <6>4, <7>1, <4>1, <4>4 DEF StillOK
          <6> QED
            BY <6>2, <6>3, <6>4 DEF Writer
        <5> QED
          BY <5>1, <5>2
      <4> QED
        BY <1>0, <4>1, <4>5, AnswersStill
    <3>8. CASE PutLooks(c)
      <4> DEFINE g == IF h \in casIndex THEN h ELSE 0
      <4>1. /\ casCall[c].at = "look" /\ casIndex' = casIndex \ {h}
            /\ casCall' = [Doubted(casCall, g) EXCEPT ![c].at = "write"]
            /\ casWrong' = casWrong /\ UNCHANGED <<casSeen, casRot, casPromise>>
        BY <3>8 DEF PutLooks, Putting, casFiles
      <4>2. h \in casIndex => g = h
        OBVIOUS
      <4> HIDE DEF g
      <4>3. MovedInDoubt(c, "write", g) /\ Writer(casCall[c])
        BY <1>0, <4>1, DoubtMoves, WritersOnly
      <4>4. ASSUME NEW d \in CasCalls PROVE Writer(casCall'[d]) \/ StillOK(d)
        <5>1. CASE d = c
          BY <4>3, <5>1 DEF MovedInDoubt, Writer
        <5>2. CASE d # c
          BY <4>1, <4>2, <4>3, <5>2 DEF MovedInDoubt, StillOK, Rotten
        <5> QED
          BY <5>1, <5>2
      <4> QED
        BY <1>0, <4>1, <4>4, AnswersStill
    <3>9. CASE DeleteUnlinks(c)
      <4>1. PICK gone \in SUBSET casSeen[h] : /\ casSeen' = [casSeen EXCEPT ![h] = @ \ gone]
                                             /\ casRot' = [casRot EXCEPT ![h] = @ \ gone]
        BY <3>9 DEF DeleteUnlinks
      <4>2. /\ casCall[c].at = "look" /\ casIndex' = casIndex \ {h}
            /\ casPromise' = casPromise \ {h}
            /\ casCall' = [Doubted(casCall, h) EXCEPT ![c].at = "sync"]
            /\ casWrong' = casWrong
        BY <3>9 DEF DeleteUnlinks, Deleting
      <4>3. MovedInDoubt(c, "sync", h) /\ Writer(casCall[c])
        BY <1>0, <4>2, DoubtMoves, WritersOnly
      <4>4. /\ \A k : k # h => casSeen'[k] = casSeen[k] /\ casRot'[k] = casRot[k]
            /\ \A k \in Rotten : k # h => k \in Rotten'
        BY <1>0, <4>1 DEF FilesType, Rotten
      <4>5. ASSUME NEW d \in CasCalls PROVE Writer(casCall'[d]) \/ StillOK(d)
        <5>1. CASE d = c
          BY <4>3, <5>1 DEF MovedInDoubt, Writer
        <5>2. CASE d # c
          BY <4>2, <4>3, <4>4, <5>2 DEF MovedInDoubt, StillOK
        <5> QED
          BY <5>1, <5>2
      <4> QED
        BY <1>0, <4>2, <4>5, AnswersStill
    <3> QED
      BY <2>3, <3>1, <3>2, <3>3, <3>4, <3>5, <3>6, <3>7, <3>8, <3>9 DEF CasStep
  <2>4. CASE RestartProcess \/ LosePower
    <3>1. \A c \in CasCalls : casCall'[c] = Unused
      BY <2>4 DEF RestartProcess, LosePower, RestartCas
    <3>2. casWrong' = casWrong
      BY <2>4 DEF RestartProcess, LosePower, RestartCas
    <3> QED
      BY <1>0, <3>1, <3>2, UnusedFields, AnswersStill DEF Writer
  <2>5. ASSUME NEW h \in Hashes, Damage(h)
        PROVE  AnswerInv'
    <3>1. /\ casPromise' = casPromise \ {h} /\ casIndex' = casIndex
          /\ casCall' = Doubted(casCall, h) /\ casWrong' = casWrong
      BY <2>5 DEF Damage, casMemory
    <3>2. /\ \A k : k # h => casSeen'[k] = casSeen[k] /\ casRot'[k] = casRot[k]
          /\ \A k \in Rotten : k # h => k \in Rotten'
      <4>1. CASE (\E f \in casSeen[h] : casRot' = [casRot EXCEPT ![h] = @ \cup {f}]) /\ casSeen' = casSeen
        BY <4>1, <1>0 DEF FilesType, Rotten
      <4>2. CASE casSeen' = [casSeen EXCEPT ![h] = {}] /\ casRot' = [casRot EXCEPT ![h] = {}]
        BY <4>2, <1>0 DEF FilesType, Rotten
      <4> QED
        BY <2>5, <4>1, <4>2 DEF Damage
    <3>3. casCall \in [CasCalls -> CallType] /\ \A c \in CasCalls : ShapeOK(casCall[c])
      BY <1>0 DEF LockInv, CasTypeOK, ShapesOK
    <3>4. \A d \in CasCalls :
            /\ casCall'[d].at = casCall[d].at /\ casCall'[d].op = casCall[d].op
            /\ casCall'[d].hash = casCall[d].hash /\ casCall'[d].todo = casCall[d].todo
            /\ casCall'[d].got = casCall[d].got /\ casCall'[d].known = casCall[d].known
            /\ casCall'[d].sure = (casCall[d].sure /\ h # casCall[d].hash
                                     /\ h \notin ToSet(casCall[d].todo))
            /\ casCall'[d].through = casCall[d].through \ {h}
      BY <3>1, <3>3, DoubtedSame
    <3>5. ASSUME NEW d \in CasCalls
          PROVE  StillOK(d)
      <4>1. casCall'[d].sure =>
              /\ casCall[d].sure /\ casSeen[casCall[d].hash] \subseteq casSeen'[casCall[d].hash]
              /\ casRot'[casCall[d].hash] \subseteq casRot[casCall[d].hash]
              /\ \A k \in {casCall[d].hash} \cup ToSet(casCall[d].todo) :
                    k \in casPromise => k \in casPromise'
        BY <3>1, <3>2, <3>4
      <4>2. ASSUME NEW k \in casCall'[d].through \cap casIndex
            PROVE  /\ k \in casIndex' /\ (k \in Rotten => k \in Rotten')
                   /\ casSeen'[k] \subseteq casSeen[k]
        <5>1. k # h
          BY <3>4, <4>2
        <5> QED
          BY <3>1, <3>2, <4>2, <5>1
      <4> QED
        BY <3>4, <4>1, <4>2 DEF StillOK
    <3> QED
      BY <1>0, <3>1, <3>5, AnswersStill
  <2> QED
    BY <1>2, <2>2, <2>3, <2>4, <2>5 DEF CasNext
<1> QED
  BY <1>1, <1>2

(***************************************************************************)
(* The chunk counter                                                       *)
(***************************************************************************)

\* Beyond the hashes a rebuild counts at most one file more for each.
CountInv == /\ casStats \in [chunks : Nat, logical : Nat]
            /\ casTwins \in 0..Cardinality(Hashes)
            /\ ChunksExact

CasInv == ReadInv /\ CountInv

\* The counters are wide enough to wrap around neither way.
LEMMA WordType == /\ CasWord \in Nat \ {0} /\ Cardinality(Hashes) \in Nat
                  /\ 2 * Cardinality(Hashes) < CasWord
  BY HashAssumption, ArcsType

LEMMA MinusOne ==
  ASSUME NEW n \in Nat, 0 < n, n < CasWord
  PROVE  Minus(n, 1) = n - 1
<1>1. CasWord \in Nat /\ 1 < CasWord
  BY WordType
<1>2. 1 % CasWord = 1
  BY <1>1
<1>3. Minus(n, 1) = (n + CasWord - 1) % CasWord
  BY <1>2 DEF Minus
<1>4. n - 1 \in 0..(CasWord - 1) /\ n + CasWord - 1 = CasWord * 1 + (n - 1)
  BY <1>1
<1> QED
  BY <1>1, <1>3, <1>4

LEMMA WordNat ==
  ASSUME NEW n \in Nat, NEW k \in Nat
  PROVE  Minus(n, k) \in Nat /\ (n + k) % CasWord \in Nat
<1>1. CasWord \in Nat \ {0}
  BY WordType
<1>2. k % CasWord \in 0..(CasWord - 1)
  BY <1>1
<1>3. n + CasWord - (k % CasWord) \in Nat /\ n + k \in Nat
  BY <1>1, <1>2
<1> QED
  BY <1>1, <1>3 DEF Minus

\* Only the logical size changes.
LEMMA CountLogical ==
  ASSUME CountInv, casStats' = casStats \/ \E n \in Nat : casStats' = [casStats EXCEPT !.logical = n],
         casIndex' = casIndex, casTwins' = casTwins
  PROVE  CountInv'
  BY DEF CountInv, ChunksExact

\* An object leaves the index, or comes to it, and is counted.
LEMMA CountLess ==
  ASSUME FilesType, CountInv, NEW h \in casIndex, casIndex' = casIndex \ {h},
         casStats' = [casStats EXCEPT !.chunks = Minus(@, 1)], casTwins' = casTwins
  PROVE  CountInv'
<1> DEFINE n == Cardinality(casIndex)
           k == casStats.chunks
<1>1. /\ IsFiniteSet(casIndex) /\ n \in Nat /\ n <= Cardinality(Hashes)
      /\ Cardinality(casIndex') = n - 1 /\ n # 0
  <2>1. IsFiniteSet(casIndex) /\ n <= Cardinality(Hashes)
    BY ArcsType, FS_Subset DEF FilesType
  <2> QED
    BY <2>1, FS_CardinalityType, FS_RemoveElement, FS_EmptySet
<1>2. k \in Nat /\ k = n + casTwins /\ casTwins \in 0..Cardinality(Hashes)
  BY DEF CountInv, ChunksExact
<1> HIDE DEF n, k
<1>3. 0 < k /\ k < CasWord
  BY <1>1, <1>2, WordType
<1>4. Minus(k, 1) = k - 1 /\ k - 1 \in Nat
  BY <1>2, <1>3, MinusOne
<1>5. casStats' = [casStats EXCEPT !.chunks = k - 1]
  BY <1>4 DEF k
<1>6. casStats' \in [chunks : Nat, logical : Nat] /\ casStats'.chunks = k - 1
  BY <1>4, <1>5 DEF CountInv
<1>7. k - 1 = (n - 1) + casTwins
  BY <1>1, <1>2, WordType
<1> QED
  BY <1>1, <1>2, <1>6, <1>7 DEF CountInv, ChunksExact

LEMMA CountMore ==
  ASSUME FilesType, CountInv, NEW h \in Hashes \ casIndex, casIndex' = casIndex \cup {h},
         casStats' = [chunks |-> (casStats.chunks + 1) % CasWord,
                      logical |-> (casStats.logical + 1) % CasWord],
         casTwins' = casTwins
  PROVE  CountInv'
<1> DEFINE n == Cardinality(casIndex)
           k == casStats.chunks
           l == (casStats.logical + 1) % CasWord
<1>1. /\ n \in Nat /\ n + 1 <= Cardinality(Hashes) /\ Cardinality(casIndex') = n + 1
  <2>1. IsFiniteSet(casIndex)
    BY ArcsType, FS_Subset DEF FilesType
  <2>2. Cardinality(casIndex \cup {h}) = n + 1 /\ n \in Nat
    BY <2>1, FS_CardinalityType, FS_AddElement
  <2>3. Cardinality(casIndex \cup {h}) <= Cardinality(Hashes)
    BY ArcsType, FS_Subset DEF FilesType
  <2> QED
    BY <2>2, <2>3
<1>2. k \in Nat /\ k = n + casTwins /\ casTwins \in 0..Cardinality(Hashes)
  BY DEF CountInv, ChunksExact
<1>3. l \in Nat
  BY WordNat DEF CountInv
<1> HIDE DEF n, k, l
<1>4. k + 1 \in 0..(CasWord - 1)
  BY <1>1, <1>2, WordType
<1>5. (k + 1) % CasWord = k + 1
  BY <1>4, WordType
<1>6. casStats' = [chunks |-> k + 1, logical |-> l]
  BY <1>5 DEF k, l
<1>7. k + 1 = (n + 1) + casTwins
  BY <1>1, <1>2, WordType
<1> QED
  BY <1>1, <1>2, <1>3, <1>6, <1>7 DEF CountInv, ChunksExact

\* A rebuild counts files; a hash has one or two.
LEMMA CountRestart ==
  ASSUME FilesType', RestartCas
  PROVE  CountInv'
<1>1. PICK unread \in {{}} \cup {{h} : h \in {g \in Hashes : casSeen'[g] = {"zst"}}} :
         RebuildIndex(casSeen', unread)
  BY DEF RestartCas
<1> DEFINE found == {h \in Hashes : casSeen'[h] # {} /\ h \notin unread}
           files == {p \in found \X Forms : p[2] \in casSeen'[p[1]]}
           n == Cardinality(found)
           m == Cardinality(files)
<1>2. /\ casIndex' = found /\ casStats' = [chunks |-> m, logical |-> m]
      /\ casTwins' = m - n
  BY <1>1 DEF RebuildIndex
<1>3. IsFiniteSet(found) /\ n \in Nat /\ n <= Cardinality(Hashes)
  BY ArcsType, FS_Subset, FS_CardinalityType, found \in SUBSET Hashes
<1>4. IsFiniteSet(Forms) /\ Cardinality(Forms) = 2
  <2>1. IsFiniteSet({"plain"}) /\ Cardinality({"plain"}) = 1
    BY FS_Singleton
  <2>2. Forms = {"plain"} \cup {"zst"} /\ "zst" \notin {"plain"}
    BY DEF Forms
  <2> QED
    BY <2>1, <2>2, FS_AddElement
<1>5. IsFiniteSet(found \X Forms) /\ Cardinality(found \X Forms) = n * 2
  BY <1>3, <1>4, FS_Product
<1>6. IsFiniteSet(files) /\ m \in Nat /\ m <= n * 2
  BY <1>5, FS_Subset, FS_CardinalityType, files \in SUBSET (found \X Forms)
<1>7. n <= m
  <2> DEFINE f == [p \in files |-> p[1]]
  <2>1. \A h \in found : \E x \in Forms : <<h, x>> \in files
    BY DEF FilesType
  <2>2. f \in [files -> found]
    OBVIOUS
  <2>3. \A h \in found : \E p \in files : f[p] = h
    <3>1. ASSUME NEW h \in found PROVE \E p \in files : f[p] = h
      <4>1. PICK x \in Forms : <<h, x>> \in files
        BY <2>1
      <4>2. <<h, x>>[1] = h
        OBVIOUS
      <4>3. f[<<h, x>>] = h
        BY <4>1, <4>2
      <4> QED
        BY <4>1, <4>3
    <3> QED
      BY <3>1
  <2>4. f \in Surjection(files, found)
    <3> HIDE DEF f
    <3> QED
      BY <2>2, <2>3 DEF Surjection
  <2> QED
    BY <2>4, <1>6, FS_Surjection
<1> HIDE DEF n, m
<1>8. m - n \in 0..Cardinality(Hashes) /\ m = n + (m - n)
  BY <1>3, <1>6, <1>7, WordType
<1>9. ChunksExact'
  BY <1>2, <1>8 DEF ChunksExact, n
<1> QED
  BY <1>2, <1>6, <1>8, <1>9 DEF CountInv

LEMMA CountStep == LockInv /\ PromiseInv /\ CountInv /\ [CasNext]_casVars => CountInv'
<1> SUFFICES ASSUME LockInv, PromiseInv, CountInv, [CasNext]_casVars
             PROVE  CountInv'
  OBVIOUS
<1>1. CASE UNCHANGED casVars
  BY <1>1 DEF casVars, casMemory, CountInv, ChunksExact
<1>2. CASE CasNext
  <2>1. FilesType /\ FilesType'
    BY <1>2, FilesStep DEF LockInv, CasTypeOK
  <2>2. ASSUME NEW c \in CasCalls, CasStart(c)
        PROVE  CountInv'
    <3>1. UNCHANGED casMemory
      BY <2>2 DEF CasStart, PutChunk, DeleteChunk, PutFile, GetObjects, ListObjects,
                  Scrub, StartCas
    <3> QED
      BY <3>1, CountLogical DEF casMemory
  <2>3. ASSUME NEW c \in CasCalls, CasStep(c)
        PROVE  CountInv'
    <3>1. CASE PutDeduplicated(c)
      <4>1. (casStats.logical + 1) % CasWord \in Nat
        BY WordNat DEF CountInv
      <4> QED
        BY <3>1, <4>1, CountLogical DEF PutDeduplicated
    <3>2. CASE PutLooks(c)
      <4>1. /\ casIndex' = casIndex \ {casCall[c].hash} /\ casTwins' = casTwins
            /\ casStats' = [casStats EXCEPT !.chunks = IF casCall[c].hash \in casIndex
                                                       THEN Minus(@, 1) ELSE @]
        BY <3>2 DEF PutLooks
      <4>2. CASE casCall[c].hash \in casIndex
        BY <2>1, <4>1, <4>2, CountLess
      <4>3. CASE casCall[c].hash \notin casIndex
        <5>1. casIndex' = casIndex /\ casStats' = casStats
          BY <4>1, <4>3 DEF CountInv
        <5> QED
          BY <4>1, <5>1, CountLogical
      <4> QED
        BY <4>2, <4>3
    <3>3. CASE PutSynced(c)
      <4>1. casCall[c].hash \in Hashes \ casIndex
        BY <3>3, WorkHash DEF PutSynced, Putting, Naming, PromiseInv, WritersApart
      <4> QED
        BY <2>1, <3>3, <4>1, CountMore DEF PutSynced
    <3>4. CASE DeleteUnlinks(c)
      BY <2>1, <3>4, CountLess DEF DeleteUnlinks
    <3>5. CASE HandlerGoesOn(c) \/ StreamFails(c)
      <4>1. casCall[c].added \in Nat
        BY DEF LockInv, CasTypeOK, CallType
      <4>2. Minus(casStats.logical, casCall[c].added) \in Nat
        BY <4>1, WordNat DEF CountInv
      <4>3. /\ casStats' = casStats \/ GivenBack(casCall[c].added)
            /\ casIndex' = casIndex /\ casTwins' = casTwins
        BY <3>5 DEF HandlerGoesOn, StreamFails
      <4> QED
        BY <4>2, <4>3, CountLogical DEF GivenBack
    <3>6. CASE UNCHANGED casMemory
      BY <3>6, CountLogical DEF casMemory
    <3> QED
      BY <2>3, <3>1, <3>2, <3>3, <3>4, <3>5, <3>6
      DEF CasStep, LockForHash, AcquireHash, PutWrites, PutWriteFails, SyncParentFails,
          DeleteFindsNothing, DeleteSynced, ReleaseHash, RemoveHashLockIfIdle, CutOff,
          ReadObject, Read, ReadEnds, ListPage
  <2>4. CASE RestartProcess \/ LosePower
    BY <2>1, <2>4, CountRestart DEF RestartProcess, LosePower
  <2>5. ASSUME NEW h \in Hashes, Damage(h)
        PROVE  CountInv'
    BY <2>5, CountLogical DEF Damage, casMemory
  <2> QED
    BY <1>2, <2>2, <2>3, <2>4, <2>5 DEF CasNext
<1> QED
  BY <1>1, <1>2

LEMMA CasAlways == CasSpec => []CasInv
<1>1. CasInit => CasInv
  <2> SUFFICES ASSUME CasInit PROVE CasInv
    OBVIOUS
  <2>1. AnswerInv
    BY UnusedFields DEF CasInit, AnswerInv, ReaderOK
  <2>2. CountInv
    <3>1. Cardinality(casIndex) \in Nat
      BY ArcsType, FS_Subset, FS_CardinalityType, casIndex \in SUBSET Hashes DEF CasInit
    <3> QED
      BY <3>1, WordType DEF CasInit, CountInv, ChunksExact
  <2> QED
    BY <2>1, <2>2, LockInit, PromiseInit DEF CasInv, ReadInv
<1>2. CasInv /\ [CasNext]_casVars => CasInv'
  BY LockStep, PromiseStep, AnswerStep, CountStep DEF CasInv, ReadInv
<1> QED
  BY <1>1, <1>2, PTL DEF CasSpec

(***************************************************************************)
(* What the object store promises                                          *)
(***************************************************************************)

\* Writers and deleters of one hash exclude each other although the entries
\* of the lock map are made on demand, removed when idle and left behind by
\* calls that were cut off (lock_for_hash, remove_hash_lock_if_idle).
THEOREM WritersExcluded == CasSpec => []HashesExclusive
<1>1. CasInv => HashesExclusive
  BY LockExcludes DEF CasInv, ReadInv
<1> QED
  BY <1>1, CasAlways, PTL

\* An object whose put was answered stays visible, on the medium, undamaged
\* and indexed (or reported unreadable) until somebody removes or damages it:
\* put_locked answers after the directory sync only, and neither another
\* call, a failed sync, a cut-off call, a restart nor a power loss takes the
\* object away, unless the loss took its shard directory, which nobody syncs.
THEOREM PromisesHold == CasSpec => []PromisesKept
<1>1. CasInv => PromisesKept
  BY DEF CasInv, ReadInv, PromiseInv
<1> QED
  BY <1>1, CasAlways, PTL

\* The chunk counter is the number of indexed objects, and of the second
\* files the last rebuild counted, whatever puts, stale entries and deletions
\* of any calls have added and taken since (the atomic stats of CasStore).
THEOREM ChunksCounted == CasSpec => []ChunksExact
<1>1. CasInv => ChunksExact
  BY DEF CasInv, CountInv
<1> QED
  BY <1>1, CasAlways, PTL

\* Although readers take no lock, a read of promised objects that nobody
\* removes meanwhile finds each of them, a paged listing holds every object
\* that was indexed from its first page to its last, and a scrub reports the
\* damaged ones among them and no other (get, list_objects, scrub).
THEOREM AnswersAreRight == CasSpec => []AnswersRight
<1>1. CasInv => AnswersRight
  BY DEF CasInv, ReadInv, AnswerInv, AnswersRight
<1> QED
  BY <1>1, CasAlways, PTL
=============================================================================
