--------------------------- MODULE AdmissionProofs ---------------------------
(***************************************************************************)
(* How concurrent requests are let in: the bytes they may stage and the    *)
(* paths they may touch.                                                   *)
(*                                                                         *)
(* The staging budget adds up, proved for every number of concurrent bodies,*)
(* every limit, floor and chunk size and any run of failures and restarts. *)
(* Accounted and FloorKept relate the service-wide counters to sums over the*)
(* bodies; they are inductive together with BodyFits, which says of one body*)
(* what its place in the run tells of its reservation, of what it has not  *)
(* spent and of what it has on disk.                                       *)
(*                                                                         *)
(* The path locks of WebDAV exclude each other and never knot, for every   *)
(* namespace and every finite number of requests. PathsExclusive is        *)
(* inductive once an entry is known to count the requests that hold or     *)
(* await its mutex, and a request to take its locks in ascending order.    *)
(***************************************************************************)
EXTENDS StagingBudget, SumProofs, WebDAVLocks, WellFoundedInduction

-----------------------------------------------------------------------------
(* The inductive invariant of the staging budget                           *)

\* Where a body can be.
Places == {"idle", "copy", "reserve", "write", "consume", "ended", "sealed",
           "failed", "published", "retained", "halted", "done"}
Buffer == [len : Nat, request : Nat, wrote : Nat]
\* What each body wrote and has not yet settled with the budget.
Written == [w \in Writers |-> chunk[w].wrote]

BudgetType ==
    /\ used \in Nat /\ pending \in Nat /\ base \in Nat
    /\ orphans \in Nat /\ free \in Nat /\ other \in Nat
    /\ reserved \in [Writers -> Nat] /\ unspent \in [Writers -> Nat]
    /\ stage \in [Writers -> Nat] /\ captured \in [Writers -> Nat]
    /\ pc \in [Writers -> Places] /\ chunk \in [Writers -> Buffer]
    /\ blocked \in BOOLEAN /\ marker \in BOOLEAN

\* What one body holds at each place of its run.
BodyFits(w) ==
    /\ stage[w] + unspent[w] = reserved[w] + chunk[w].wrote
    /\ chunk[w].wrote <= unspent[w] /\ chunk[w].wrote <= stage[w]
    /\ pc[w] # "consume" => chunk[w].wrote = 0
    /\ pc[w] = "reserve" => unspent[w] < chunk[w].request
    /\ pc[w] = "write" => chunk[w].request <= unspent[w]
    /\ pc[w] \in {"idle", "sealed", "failed", "published", "retained", "halted", "done"}
         => unspent[w] = 0
    /\ pc[w] \in {"idle", "done"} => stage[w] = 0

\* The counters are the sums, orphans are under the bytes found at startup, and the
\* floor holds.
BudgetInv ==
    /\ BudgetType
    /\ \A w \in Writers : BodyFits(w)
    /\ Accounted
    /\ used <= Limit /\ orphans <= base
    /\ FloorKept

\* At most one write is in the journal: the lock keeps a second one out while it is
\* being published, the gate once it halted. Only such a write has a captured target.
CaptureInv ==
    /\ \A w \in Writers : captured[w] > 0 => w \in Journaled
    /\ \A w \in Writers : pc[w] = "halted" => blocked
    /\ \A v, w \in Journaled : v = w

-----------------------------------------------------------------------------
(* The counters and the sums                                               *)

\* A sum under the limit does not wrap around.
LEMMA NoWrap ==
    ASSUME NEW n \in Nat, n < Word
    PROVE  n % Word = n
BY BudgetAssumption

LEMMA TotalType ==
    ASSUME NEW f \in [Writers -> Nat]
    PROVE  Total(f) \in Nat
BY UnitsFinite, BudgetAssumption DEF Total

LEMMA TotalTerm ==
    ASSUME NEW f \in [Writers -> Nat], NEW w \in Writers
    PROVE  f[w] <= Total(f)
BY TermBelow, BudgetAssumption DEF Total

LEMMA TotalChange ==
    ASSUME NEW f \in [Writers -> Nat], NEW g \in [Writers -> Nat], NEW w \in Writers,
           \A x \in Writers \ {w} : g[x] = f[x]
    PROVE  Total(g) = Total(f) - f[w] + g[w]
<1>1. IsFiniteSet(Writers) /\ g[w] \in Nat /\ \A x \in Writers : f[x] \in Nat
  BY BudgetAssumption
<1>2. \A x \in Writers \ {w} : g[x] = f[x]
  OBVIOUS
<1>3. SumOver(g, Writers) = SumOver(f, Writers) - f[w] + g[w]
  BY ONLY <1>1, <1>2, SumChange, w \in Writers
<1> QED
  BY <1>3 DEF Total

LEMMA TotalNone ==
    ASSUME NEW f, \A w \in Writers : f[w] = 0
    PROVE  Total(f) = 0
BY SumZero DEF Total

LEMMA TotalBelow ==
    ASSUME NEW f \in [Writers -> Nat], NEW g \in [Writers -> Nat],
           \A w \in Writers : f[w] <= g[w]
    PROVE  Total(f) <= Total(g)
BY SumBelow, BudgetAssumption DEF Total

LEMMA WrittenType ==
    ASSUME chunk \in [Writers -> Buffer]
    PROVE  Written \in [Writers -> Nat]
BY DEF Written, Buffer

-----------------------------------------------------------------------------
(* One lemma per operation                                                 *)

LEMMA BudgetStarts == Init => BudgetInv
<1> SUFFICES ASSUME Init PROVE BudgetInv
  OBVIOUS
<1> USE BudgetAssumption
<1>1. BudgetType
  BY DEF Init, BudgetType, Places, Buffer, NoChunk
<1>2. ASSUME NEW w \in Writers PROVE BodyFits(w)
  BY DEF Init, BodyFits, NoChunk
<1>3. Total(reserved) = 0 /\ Total(unspent) = 0 /\ Total(Written) = 0
  BY TotalNone DEF Init, Written, NoChunk
<1>4. Accounted
  BY <1>3 DEF Init, Accounted
<1>5. FloorKept
  BY <1>3 DEF Init, FloorKept, Written
<1> QED
  BY <1>1, <1>2, <1>4, <1>5 DEF Init, BudgetInv

LEMMA OpenKeeps ==
    ASSUME BudgetInv, NEW w \in Writers, Open(w)
    PROVE  BudgetInv'
<1>1. BudgetType'
  BY DEF BudgetInv, BudgetType, Open, Goto, budget, disk, gate, Places
<1>2. ASSUME NEW x \in Writers PROVE BodyFits(x)'
  BY DEF BudgetInv, BudgetType, BodyFits, Open, Goto, budget, disk, gate, Places
<1>3. Accounted' /\ FloorKept' /\ used' <= Limit /\ orphans' <= base'
  BY DEF BudgetInv, Accounted, FloorKept, Open, budget, disk, Total
<1> QED
  BY <1>1, <1>2, <1>3 DEF BudgetInv

LEMMA WriteKeeps ==
    ASSUME BudgetInv, NEW w \in Writers, NEW n \in Chunks, Write(w, n)
    PROVE  BudgetInv'
<1> DEFINE request == IF n > Limit - stage[w] THEN Limit - stage[w] ELSE n
<1> USE BudgetAssumption
<1>1. stage[w] <= Limit
  <2>1. stage[w] <= reserved[w]
    BY DEF BudgetInv, BudgetType, BodyFits, Buffer
  <2>2. reserved[w] <= Total(reserved) /\ Total(reserved) \in Nat
    BY TotalTerm, TotalType DEF BudgetInv, BudgetType
  <2> QED
    BY <2>1, <2>2 DEF BudgetInv, BudgetType, Accounted
<1>2. request \in Nat /\ n \in Nat
  BY <1>1 DEF BudgetInv, BudgetType
<1>3. /\ chunk' = [chunk EXCEPT ![w] = [len |-> n, request |-> request, wrote |-> 0]]
      /\ pc' = [pc EXCEPT ![w] = IF request = 0 THEN "ended"
                                 ELSE IF unspent[w] < request THEN "reserve" ELSE "write"]
      /\ pc[w] = "copy" /\ UNCHANGED <<budget, disk, gate, bound>>
  BY DEF Write, Goto
<1> HIDE DEF request
<1>4. BudgetType'
  BY <1>2, <1>3 DEF BudgetInv, BudgetType, budget, disk, gate, Places, Buffer
<1>5. ASSUME NEW x \in Writers PROVE BodyFits(x)'
  <2>1. CASE x = w
    BY <1>2, <1>3, <2>1 DEF BudgetInv, BudgetType, BodyFits, budget, disk, gate, Places, Buffer
  <2>2. CASE x # w
    BY <1>3, <2>2 DEF BudgetInv, BudgetType, BodyFits, budget, disk, gate
  <2> QED BY <2>1, <2>2
<1>6. Written' = Written
  BY <1>3 DEF BudgetInv, BudgetType, BodyFits, Written
<1>7. Accounted' /\ FloorKept' /\ used' <= Limit /\ orphans' <= base'
  BY <1>3, <1>6 DEF BudgetInv, Accounted, FloorKept, budget, disk, Total, Written
<1> QED
  BY <1>4, <1>5, <1>7 DEF BudgetInv

\* What a body may hold: its bytes are within the total, and the total within
\* the limit, so none of the counters comes near the word's end.
LEMMA Small ==
    ASSUME BudgetInv, NEW w \in Writers
    PROVE  /\ Total(reserved) \in Nat /\ Total(unspent) \in Nat
           /\ Total(stage) \in Nat /\ Total(Written) \in Nat
           /\ reserved[w] <= Total(reserved) /\ unspent[w] <= Total(unspent)
           /\ unspent[w] <= reserved[w] /\ Total(unspent) <= Total(reserved)
           /\ Total(Written) <= Total(unspent) /\ Total(stage) <= Total(reserved)
           /\ used < Word /\ pending <= used /\ Word \in Nat
<1> USE BudgetAssumption
<1>1. /\ reserved \in [Writers -> Nat] /\ unspent \in [Writers -> Nat]
      /\ stage \in [Writers -> Nat] /\ Written \in [Writers -> Nat]
  BY WrittenType DEF BudgetInv, BudgetType
<1>2. ASSUME NEW x \in Writers
      PROVE  /\ unspent[x] <= reserved[x] /\ stage[x] <= reserved[x]
             /\ Written[x] <= unspent[x]
  <2>1. chunk[x].wrote \in Nat /\ Written[x] = chunk[x].wrote
    BY DEF BudgetInv, BudgetType, Buffer, Written
  <2> QED BY <1>1, <2>1 DEF BudgetInv, BodyFits
<1>3. /\ Total(reserved) \in Nat /\ Total(unspent) \in Nat
      /\ Total(stage) \in Nat /\ Total(Written) \in Nat
  BY <1>1, TotalType
<1>4. reserved[w] <= Total(reserved) /\ unspent[w] <= Total(unspent)
  BY <1>1, TotalTerm
<1>5. /\ Total(unspent) <= Total(reserved)
      /\ Total(Written) <= Total(unspent) /\ Total(stage) <= Total(reserved)
  BY <1>1, <1>2, TotalBelow
<1>6. used < Word /\ pending <= used
  BY <1>3, <1>5 DEF BudgetInv, BudgetType, Accounted
<1> QED
  BY <1>2, <1>3, <1>4, <1>5, <1>6

LEMMA ReserveKeeps ==
    ASSUME BudgetInv, NEW w \in Writers, Reserve(w)
    PROVE  BudgetInv'
<1> USE BudgetAssumption
<1>1. CASE Admits(Grow(w)) /\ used' = Plus(used, Grow(w)) /\ pending' = Plus(pending, Grow(w))
           /\ reserved' = [reserved EXCEPT ![w] = Plus(@, Grow(w))]
           /\ unspent' = [unspent EXCEPT ![w] = Plus(@, Grow(w))]
           /\ Goto(w, "write") /\ UNCHANGED base
  <2> DEFINE n == Grow(w)
  <2>1. n \in Nat /\ n > 0 /\ chunk[w].request = unspent[w] + n /\ pc[w] = "reserve"
    BY DEF Reserve, Grow, BudgetInv, BudgetType, BodyFits, Buffer
  <2>2. /\ used + n <= Limit /\ free >= MinFree + pending + n
    BY <1>1 DEF Admits
  <2> HIDE DEF n
  <2>3. /\ (used + n) % Word = used + n /\ (pending + n) % Word = pending + n
        /\ (reserved[w] + n) % Word = reserved[w] + n
        /\ (unspent[w] + n) % Word = unspent[w] + n
    <3>1. /\ used + n \in Nat /\ pending + n \in Nat /\ reserved[w] + n \in Nat /\ unspent[w] + n \in Nat
          /\ used + n < Word /\ pending + n < Word /\ reserved[w] + n < Word /\ unspent[w] + n < Word
      BY <2>1, <2>2, Small DEF BudgetInv, BudgetType, Accounted
    <3> QED BY <3>1, NoWrap
  <2>4. /\ used' = used + n /\ pending' = pending + n
        /\ reserved' = [reserved EXCEPT ![w] = reserved[w] + n]
        /\ unspent' = [unspent EXCEPT ![w] = unspent[w] + n]
    BY <1>1, <2>3 DEF n, Plus, BudgetInv, BudgetType
  <2>5. /\ pc' = [pc EXCEPT ![w] = "write"]
        /\ UNCHANGED <<base, stage, captured, orphans, free, other, chunk, blocked, marker>>
    BY <1>1 DEF Goto, Reserve, disk, gate
  <2>6. /\ Total(reserved') = Total(reserved) + n /\ reserved' \in [Writers -> Nat]
        /\ Total(unspent') = Total(unspent) + n /\ unspent' \in [Writers -> Nat]
    <3>1. reserved \in [Writers -> Nat] /\ unspent \in [Writers -> Nat]
          /\ reserved[w] + n \in Nat /\ unspent[w] + n \in Nat
      BY <2>1 DEF BudgetInv, BudgetType
    <3>2. /\ reserved' \in [Writers -> Nat] /\ unspent' \in [Writers -> Nat]
          /\ reserved'[w] = reserved[w] + n /\ unspent'[w] = unspent[w] + n
          /\ \A x \in Writers \ {w} : reserved'[x] = reserved[x] /\ unspent'[x] = unspent[x]
      BY <3>1, <2>4
    <3>3. Total(reserved') = Total(reserved) - reserved[w] + reserved'[w]
      BY <3>1, <3>2, TotalChange
    <3>4. Total(unspent') = Total(unspent) - unspent[w] + unspent'[w]
      BY <3>1, <3>2, TotalChange
    <3> QED BY <3>1, <3>2, <3>3, <3>4, <2>1, Small
  <2>7. BudgetType'
    BY <2>1, <2>4, <2>5, <2>6 DEF BudgetInv, BudgetType, Places
  <2>8. ASSUME NEW x \in Writers PROVE BodyFits(x)'
    <3>1. CASE x = w
      BY <3>1, <2>1, <2>4, <2>5 DEF BudgetInv, BudgetType, BodyFits, Buffer
    <3>2. CASE x # w
      BY <3>2, <2>4, <2>5 DEF BudgetInv, BudgetType, BodyFits
    <3> QED BY <3>1, <3>2
  <2>9. Accounted' /\ used' <= Limit /\ orphans' <= base'
    BY <2>1, <2>2, <2>4, <2>5, <2>6, Small DEF BudgetInv, BudgetType, Accounted
  <2>10. FloorKept'
    <3>1. Written' = Written
      BY <2>5 DEF Written
    <3> QED BY <3>1, <2>1, <2>2, <2>5, <2>6, Small DEF BudgetInv, BudgetType, Accounted, FloorKept, Written
  <2> QED BY <2>7, <2>8, <2>9, <2>10 DEF BudgetInv
<1>2. CASE Goto(w, "ended") /\ UNCHANGED budget
  <2>1. /\ pc' = [pc EXCEPT ![w] = "ended"] /\ pc[w] = "reserve"
        /\ UNCHANGED <<used, pending, reserved, unspent, base, stage, captured, orphans, free, other, chunk, blocked, marker>>
    BY <1>2 DEF Goto, Reserve, disk, gate, budget
  <2>2. BudgetType'
    BY <2>1 DEF BudgetInv, BudgetType, Places
  <2>3. ASSUME NEW x \in Writers PROVE BodyFits(x)'
    BY <2>1 DEF BudgetInv, BudgetType, BodyFits
  <2>4. Accounted' /\ FloorKept' /\ used' <= Limit /\ orphans' <= base'
    BY <2>1 DEF BudgetInv, Accounted, FloorKept, Total
  <2> QED BY <2>2, <2>3, <2>4 DEF BudgetInv
<1> QED
  BY <1>1, <1>2 DEF Reserve

LEMMA WriteStageKeeps ==
    ASSUME BudgetInv, NEW w \in Writers, NEW n \in 0..Limit, WriteStage(w, n)
    PROVE  BudgetInv'
<1> USE BudgetAssumption
<1>1. /\ pc[w] = "write" /\ n <= chunk[w].request /\ n <= free /\ n \in Nat
      /\ stage' = [stage EXCEPT ![w] = @ + n] /\ free' = free - n
      /\ chunk' = [chunk EXCEPT ![w].wrote = n]
      /\ pc' = [pc EXCEPT ![w] = IF n = 0 THEN "ended" ELSE "consume"]
      /\ UNCHANGED <<used, pending, reserved, unspent, base, captured, orphans, other, blocked, marker>>
  BY DEF WriteStage, Goto, budget, gate
<1>2. BudgetType'
  BY <1>1 DEF BudgetInv, BudgetType, Places, Buffer
<1>3. ASSUME NEW x \in Writers PROVE BodyFits(x)'
  <2>1. CASE x = w
    <3>1. chunk[w] \in Buffer /\ chunk'[w] = [chunk[w] EXCEPT !.wrote = n]
      BY <1>1 DEF BudgetInv, BudgetType
    <3>2. chunk'[w].wrote = n /\ chunk'[w].request = chunk[w].request /\ chunk[w].request \in Nat
      BY <3>1 DEF Buffer
    <3>3. chunk[w].wrote = 0 /\ chunk[w].request <= unspent[w] /\ stage[w] + unspent[w] = reserved[w]
      BY <1>1 DEF BudgetInv, BudgetType, BodyFits
    <3>4. stage'[w] = stage[w] + n /\ pc'[w] = IF n = 0 THEN "ended" ELSE "consume"
      BY <1>1 DEF BudgetInv, BudgetType
    <3> QED BY <2>1, <1>1, <3>2, <3>3, <3>4 DEF BudgetInv, BudgetType, BodyFits
  <2>2. CASE x # w
    BY <2>2, <1>1 DEF BudgetInv, BudgetType, BodyFits, Buffer
  <2> QED BY <2>1, <2>2
<1>4. Accounted' /\ used' <= Limit /\ orphans' <= base'
  BY <1>1 DEF BudgetInv, Accounted, Total
<1>5. FloorKept'
  <2>1. /\ Written \in [Writers -> Nat] /\ Written' \in [Writers -> Nat]
        /\ Written[w] = 0 /\ Written'[w] = n
        /\ \A x \in Writers \ {w} : Written'[x] = Written[x]
    BY <1>1, <1>2 DEF BudgetInv, BudgetType, BodyFits, Written, Buffer
  <2>2. Total(Written') = Total(Written) - Written[w] + Written'[w]
    BY <2>1, TotalChange
  <2> QED BY <1>1, <2>1, <2>2, Small DEF BudgetInv, BudgetType, FloorKept, Written, Total
<1> QED
  BY <1>2, <1>3, <1>4, <1>5 DEF BudgetInv

LEMMA ConsumeKeeps ==
    ASSUME BudgetInv, NEW w \in Writers, Consume(w)
    PROVE  BudgetInv'
<1> USE BudgetAssumption
<1> DEFINE n == chunk[w].wrote
<1>1. n \in Nat /\ n <= unspent[w] /\ n <= pending /\ pc[w] = "consume"
  BY DEF Consume, BudgetInv, BudgetType, Buffer
<1>2. (unspent[w] - n) % Word = unspent[w] - n /\ (pending - n) % Word = pending - n
  <2>1. /\ unspent[w] - n \in Nat /\ pending - n \in Nat
        /\ unspent[w] - n < Word /\ pending - n < Word
    BY <1>1, Small DEF BudgetInv, BudgetType, Accounted
  <2> QED BY <2>1, NoWrap
<1>3. /\ unspent' = [unspent EXCEPT ![w] = unspent[w] - n] /\ pending' = pending - n
      /\ pc' = [pc EXCEPT ![w] = IF n = chunk[w].len THEN "copy" ELSE "ended"]
      /\ chunk' = [chunk EXCEPT ![w].wrote = 0]
      /\ UNCHANGED <<used, reserved, base, stage, captured, orphans, free, other, blocked, marker>>
  BY <1>2 DEF Consume, Goto, Minus, BudgetInv, BudgetType, disk, gate
<1> HIDE DEF n
<1>4. chunk[w] \in Buffer /\ chunk'[w] = [chunk[w] EXCEPT !.wrote = 0]
  BY <1>3 DEF BudgetInv, BudgetType
<1>5. chunk'[w].wrote = 0 /\ chunk'[w] \in Buffer
  BY <1>4 DEF Buffer
<1>6. BudgetType'
  <2>1. unspent' \in [Writers -> Nat] /\ pending' \in Nat
    BY <1>1, <1>3 DEF BudgetInv, BudgetType
  <2>2. chunk' \in [Writers -> Buffer]
    BY <1>3, <1>5 DEF BudgetInv, BudgetType
  <2> QED BY <2>1, <2>2, <1>3 DEF BudgetInv, BudgetType, Places
<1>7. ASSUME NEW x \in Writers PROVE BodyFits(x)'
  <2>1. CASE x = w
    <3>1. stage[w] + unspent[w] = reserved[w] + n
      BY DEF BudgetInv, BodyFits, n
    <3>2. unspent'[w] = unspent[w] - n /\ pc'[w] \in {"copy", "ended"}
      BY <1>3 DEF BudgetInv, BudgetType
    <3>3. /\ stage'[w] = stage[w] /\ reserved'[w] = reserved[w] /\ stage[w] \in Nat /\ reserved[w] \in Nat
          /\ unspent[w] \in Nat
      BY <1>3 DEF BudgetInv, BudgetType
    <3> QED BY <2>1, <1>1, <1>5, <3>1, <3>2, <3>3 DEF BodyFits
  <2>2. CASE x # w
    BY <2>2, <1>3 DEF BudgetInv, BudgetType, BodyFits
  <2> QED BY <2>1, <2>2
<1>8. /\ Total(unspent') = Total(unspent) - n /\ Total(Written') = Total(Written) - n
  <2>1. /\ unspent \in [Writers -> Nat] /\ unspent' \in [Writers -> Nat]
        /\ unspent'[w] = unspent[w] - n
        /\ \A x \in Writers \ {w} : unspent'[x] = unspent[x]
    BY <1>3, <1>6 DEF BudgetInv, BudgetType
  <2>2. /\ Written \in [Writers -> Nat] /\ Written' \in [Writers -> Nat]
        /\ Written[w] = n /\ Written'[w] = 0
        /\ \A x \in Writers \ {w} : Written'[x] = Written[x]
    BY <1>3, <1>5, <1>6 DEF BudgetInv, BudgetType, Written, Buffer, n
  <2>3. Total(unspent') = Total(unspent) - unspent[w] + unspent'[w]
    BY <2>1, TotalChange
  <2>4. Total(Written') = Total(Written) - Written[w] + Written'[w]
    BY <2>2, TotalChange
  <2> QED BY <1>1, <2>1, <2>2, <2>3, <2>4, Small
<1>9. Accounted' /\ used' <= Limit /\ orphans' <= base'
  BY <1>3, <1>8 DEF BudgetInv, Accounted, Total
<1>10. FloorKept'
  BY <1>1, <1>3, <1>8, Small DEF BudgetInv, BudgetType, FloorKept, Written
<1> QED
  BY <1>6, <1>7, <1>9, <1>10 DEF BudgetInv

LEMMA EndCopyKeeps ==
    ASSUME BudgetInv, NEW w \in Writers, EndCopy(w)
    PROVE  BudgetInv'
<1> USE BudgetAssumption
<1> DEFINE n == unspent[w]
<1>1. n \in Nat /\ n <= reserved[w] /\ n <= pending /\ n <= used /\ pc[w] \in {"copy", "ended"}
  BY Small DEF EndCopy, BudgetInv, BudgetType, Accounted
<1>2. /\ (reserved[w] - n) % Word = reserved[w] - n
      /\ (pending - n) % Word = pending - n /\ (used - n) % Word = used - n
  <2>1. /\ reserved[w] - n \in Nat /\ pending - n \in Nat /\ used - n \in Nat
        /\ reserved[w] - n < Word /\ pending - n < Word /\ used - n < Word
    BY <1>1, Small DEF BudgetInv, BudgetType, Accounted
  <2> QED BY <2>1, NoWrap
<1>3. /\ unspent' = [unspent EXCEPT ![w] = 0]
      /\ reserved' = [reserved EXCEPT ![w] = reserved[w] - n]
      /\ pending' = pending - n /\ used' = used - n
      /\ pc' = [pc EXCEPT ![w] = IF pc[w] = "copy" THEN "sealed" ELSE "failed"]
      /\ chunk' = [chunk EXCEPT ![w] = NoChunk]
      /\ UNCHANGED <<base, stage, captured, orphans, free, other, blocked, marker>>
  BY <1>2 DEF EndCopy, TrimPending, Goto, Minus, BudgetInv, BudgetType, disk, gate
<1> HIDE DEF n
<1>4. BudgetType'
  <2>1. unspent' \in [Writers -> Nat] /\ reserved' \in [Writers -> Nat] /\ pending' \in Nat /\ used' \in Nat
    BY <1>1, <1>3 DEF BudgetInv, BudgetType
  <2>2. chunk' \in [Writers -> Buffer]
    BY <1>3 DEF BudgetInv, BudgetType, Buffer, NoChunk
  <2> QED BY <2>1, <2>2, <1>3 DEF BudgetInv, BudgetType, Places
<1>5. ASSUME NEW x \in Writers PROVE BodyFits(x)'
  <2>1. CASE x = w
    <3>1. stage[w] + n = reserved[w]
      BY <1>1 DEF BudgetInv, BudgetType, BodyFits, n
    <3>2. /\ unspent'[w] = 0 /\ reserved'[w] = reserved[w] - n /\ chunk'[w].wrote = 0
          /\ pc'[w] = IF pc[w] = "copy" THEN "sealed" ELSE "failed"
      BY <1>3 DEF BudgetInv, BudgetType, NoChunk
    <3> QED BY <2>1, <1>1, <1>3, <3>1, <3>2 DEF BudgetInv, BudgetType, BodyFits
  <2>2. CASE x # w
    BY <2>2, <1>3 DEF BudgetInv, BudgetType, BodyFits
  <2> QED BY <2>1, <2>2
<1>6. /\ Total(unspent') = Total(unspent) - n /\ Total(reserved') = Total(reserved) - n
  <2>1. /\ unspent \in [Writers -> Nat] /\ unspent' \in [Writers -> Nat]
        /\ unspent'[w] = 0 /\ unspent[w] = n
        /\ \A x \in Writers \ {w} : unspent'[x] = unspent[x]
    BY <1>3, <1>4 DEF BudgetInv, BudgetType, n
  <2>2. /\ reserved \in [Writers -> Nat] /\ reserved' \in [Writers -> Nat]
        /\ reserved'[w] = reserved[w] - n
        /\ \A x \in Writers \ {w} : reserved'[x] = reserved[x]
    BY <1>3, <1>4 DEF BudgetInv, BudgetType
  <2>3. Total(unspent') = Total(unspent) - unspent[w] + unspent'[w]
    BY <2>1, TotalChange
  <2>4. Total(reserved') = Total(reserved) - reserved[w] + reserved'[w]
    BY <2>2, TotalChange
  <2> QED BY <1>1, <2>1, <2>2, <2>3, <2>4, Small
<1>7. Written' = Written
  BY <1>1, <1>3 DEF BudgetInv, BudgetType, BodyFits, Written, NoChunk
<1>8. Accounted' /\ used' <= Limit /\ orphans' <= base'
  BY <1>1, <1>3, <1>6, Small DEF BudgetInv, BudgetType, Accounted
<1>9. FloorKept'
  BY <1>1, <1>3, <1>6, <1>7, Small, SMTT(30) DEF BudgetInv, BudgetType, FloorKept, Written
<1> QED
  BY <1>4, <1>5, <1>8, <1>9 DEF BudgetInv

LEMMA SettleKeeps ==
    ASSUME BudgetInv, NEW w \in Writers, NEW kept \in BOOLEAN, Settle(w, kept)
    PROVE  BudgetInv'
<1> USE BudgetAssumption
<1> DEFINE n == reserved[w]
<1>1. n \in Nat /\ n <= used /\ unspent[w] = 0 /\ pc[w] \in {"sealed", "failed", "published"}
  BY Small DEF Settle, BudgetInv, BudgetType, BodyFits, Accounted
<1>2. /\ (used - n) % Word = used - n /\ (pending - unspent[w]) % Word = pending
  <2>1. used - n \in Nat /\ used - n < Word /\ pending \in Nat /\ pending < Word
    BY <1>1, Small DEF BudgetInv, BudgetType, Accounted
  <2> QED BY <1>1, <2>1, NoWrap
<1>3. /\ unspent' = [unspent EXCEPT ![w] = 0]
      /\ reserved' = [reserved EXCEPT ![w] = 0]
      /\ pending' = pending /\ used' = used - n
      /\ pc' = [pc EXCEPT ![w] = "done"]
      /\ stage' = [stage EXCEPT ![w] = 0] /\ captured' = [captured EXCEPT ![w] = 0]
      /\ free' = free + (IF kept THEN captured[w] ELSE stage[w])
      /\ UNCHANGED <<base, chunk, orphans, other, blocked, marker>>
  BY <1>2 DEF Settle, Release, Goto, Minus, BudgetInv, BudgetType, gate
<1> HIDE DEF n
<1>4. BudgetType'
  BY <1>1, <1>3 DEF BudgetInv, BudgetType, Places
<1>5. ASSUME NEW x \in Writers PROVE BodyFits(x)'
  <2>1. CASE x = w
    BY <2>1, <1>1, <1>3 DEF BudgetInv, BudgetType, BodyFits
  <2>2. CASE x # w
    BY <2>2, <1>3 DEF BudgetInv, BudgetType, BodyFits
  <2> QED BY <2>1, <2>2
<1>6. unspent' = unspent
  BY <1>1, <1>3 DEF BudgetInv, BudgetType
<1>7. Total(reserved') = Total(reserved) - n
  <2>1. /\ reserved \in [Writers -> Nat] /\ reserved' \in [Writers -> Nat]
        /\ reserved'[w] = 0 /\ reserved[w] = n
        /\ \A x \in Writers \ {w} : reserved'[x] = reserved[x]
    BY <1>3, <1>4 DEF BudgetInv, BudgetType, n
  <2>2. Total(reserved') = Total(reserved) - reserved[w] + reserved'[w]
    BY <2>1, TotalChange
  <2> QED BY <1>1, <2>1, <2>2, Small
<1>8. Accounted' /\ used' <= Limit /\ orphans' <= base'
  BY <1>1, <1>3, <1>6, <1>7, Small DEF BudgetInv, BudgetType, Accounted
<1>9. FloorKept'
  <2>1. free' >= free /\ stage[w] \in Nat /\ captured[w] \in Nat
    BY <1>3 DEF BudgetInv, BudgetType
  <2>2. Written' = Written
    BY <1>3 DEF Written
  <2>3. free' \in Nat
    BY <1>4 DEF BudgetType
  <2> QED BY <1>3, <1>6, <2>1, <2>2, <2>3, Small DEF BudgetInv, BudgetType, FloorKept, Written
<1> QED
  BY <1>4, <1>5, <1>8, <1>9 DEF BudgetInv

\* Publication, retention and a halt only move the body.
LEMMA MovedKeeps ==
    ASSUME BudgetInv, NEW w \in Writers,
           pc[w] \in {"sealed", "failed", "published"},
           NEW to \in {"published", "retained", "halted"}, pc' = [pc EXCEPT ![w] = to],
           captured' \in [Writers -> Nat], blocked' \in BOOLEAN, marker' \in BOOLEAN,
           UNCHANGED <<used, pending, reserved, unspent, base, stage, orphans, free, other, chunk>>
    PROVE  BudgetInv'
<1>1. BudgetType'
  BY DEF BudgetInv, BudgetType, Places
<1>2. ASSUME NEW x \in Writers PROVE BodyFits(x)'
  BY DEF BudgetInv, BudgetType, BodyFits
<1>3. Accounted' /\ FloorKept' /\ used' <= Limit /\ orphans' <= base'
  BY DEF BudgetInv, Accounted, FloorKept, Total
<1> QED
  BY <1>1, <1>2, <1>3 DEF BudgetInv

LEMMA PublishKeeps ==
    ASSUME BudgetInv, NEW w \in Writers, NEW n \in OldSizes, Publish(w, n)
    PROVE  BudgetInv'
<1>1. captured' \in [Writers -> Nat] /\ blocked' \in BOOLEAN /\ marker' \in BOOLEAN
  BY BudgetAssumption DEF Publish, BudgetInv, BudgetType, gate
<1> QED
  BY <1>1, MovedKeeps DEF Publish, Goto, budget

LEMMA RetainKeeps ==
    ASSUME BudgetInv, NEW w \in Writers, Retain(w) \/ Halt(w)
    PROVE  BudgetInv'
<1>1. captured' \in [Writers -> Nat] /\ blocked' \in BOOLEAN /\ marker' \in BOOLEAN
  BY DEF Retain, Halt, BudgetInv, BudgetType, gate, disk
<1>2. CASE Retain(w)
  BY <1>1, <1>2, MovedKeeps DEF Retain, Goto, budget, disk
<1>3. CASE Halt(w)
  BY <1>1, <1>3, MovedKeeps DEF Halt, Goto, budget, disk
<1> QED
  BY <1>2, <1>3

LEMMA OtherTakesKeeps ==
    ASSUME BudgetInv, OtherTakes
    PROVE  BudgetInv'
<1> USE BudgetAssumption
<1>1. /\ free > 0 /\ free' = free - 1 /\ other' = other + 1
      /\ UNCHANGED <<used, pending, reserved, unspent, base, stage, captured, orphans, pc, chunk, blocked, marker>>
  BY DEF OtherTakes, budget, gate
<1>2. BudgetType'
  BY <1>1 DEF BudgetInv, BudgetType
<1>3. ASSUME NEW x \in Writers PROVE BodyFits(x)'
  BY <1>1 DEF BudgetInv, BodyFits
<1>4. Accounted' /\ used' <= Limit /\ orphans' <= base'
  BY <1>1 DEF BudgetInv, Accounted, Total
<1>5. FloorKept'
  <2>1. free' + other' = free + other
    BY <1>1 DEF BudgetInv, BudgetType
  <2> QED BY <1>1, <2>1 DEF BudgetInv, FloorKept, Total
<1> QED
  BY <1>2, <1>3, <1>4, <1>5 DEF BudgetInv

LEMMA CleanupKeeps ==
    ASSUME BudgetInv, Cleanup
    PROVE  BudgetInv'
<1> USE BudgetAssumption
<1>1. CASE marker
  <2>1. /\ blocked' = TRUE
        /\ UNCHANGED <<used, pending, reserved, unspent, base, stage, captured, orphans, free, other, pc, chunk, marker>>
    BY <1>1 DEF Cleanup, budget
  <2>2. BudgetType'
    BY <2>1 DEF BudgetInv, BudgetType
  <2>3. ASSUME NEW x \in Writers PROVE BodyFits(x)'
    BY <2>1 DEF BudgetInv, BodyFits
  <2>4. Accounted' /\ FloorKept' /\ used' <= Limit /\ orphans' <= base'
    BY <2>1 DEF BudgetInv, Accounted, FloorKept, Total
  <2> QED BY <2>2, <2>3, <2>4 DEF BudgetInv
<1>2. CASE ~marker
  <2>1. /\ used' = 0 /\ pending' = 0 /\ base' = 0 /\ orphans' = 0
        /\ reserved' = [w \in Writers |-> 0] /\ unspent' = [w \in Writers |-> 0]
        /\ stage' = [w \in Writers |-> 0]
        /\ free' = free + orphans + Total(stage)
        /\ UNCHANGED <<captured, other, pc, chunk, blocked, marker>>
    BY <1>2 DEF Cleanup
  <2>2. ASSUME NEW x \in Writers PROVE unspent[x] = 0 /\ chunk[x].wrote = 0
    <3>1. pc[x] \in {"idle", "retained", "halted", "done"}
      BY DEF Cleanup, InFlight, BudgetInv, BudgetType, Places
    <3> QED BY <3>1 DEF BudgetInv, BudgetType, BodyFits
  <2>3. Total(reserved') = 0 /\ Total(unspent') = 0 /\ Total(unspent) = 0
    BY <2>1, <2>2, TotalNone
  <2>4. BudgetType'
    <3>1. Total(stage) \in Nat
      BY TotalType DEF BudgetInv, BudgetType
    <3> QED BY <2>1, <3>1 DEF BudgetInv, BudgetType
  <2>5. ASSUME NEW x \in Writers PROVE BodyFits(x)'
    <3>1. pc[x] \in {"idle", "retained", "halted", "done"}
      BY DEF Cleanup, InFlight, BudgetInv, BudgetType, Places
    <3> QED BY <2>1, <2>2, <3>1 DEF BodyFits
  <2>6. Accounted' /\ used' <= Limit /\ orphans' <= base'
    BY <2>1, <2>3 DEF Accounted
  <2>7. FloorKept'
    <3>1. Written \in [Writers -> Nat] /\ Total(Written) \in Nat /\ Total(stage) \in Nat
      BY WrittenType, TotalType DEF BudgetInv, BudgetType
    <3> QED BY <2>1, <2>3, <3>1 DEF BudgetInv, BudgetType, FloorKept, Written
  <2> QED BY <2>4, <2>5, <2>6, <2>7 DEF BudgetInv
<1> QED BY <1>1, <1>2

\* The bytes a body has on disk are among those it reserved, so what is found in
\* write-staging fits under what was used.
LEMMA Covered ==
    ASSUME BudgetInv
    PROVE  /\ orphans + Total(stage) <= used /\ used <= Limit
           /\ Total(stage) \in Nat
<1>1. /\ reserved \in [Writers -> Nat] /\ stage \in [Writers -> Nat]
      /\ \A x \in Writers : stage[x] <= reserved[x]
  BY DEF BudgetInv, BudgetType, BodyFits, Buffer
<1>2. Total(stage) <= Total(reserved) /\ Total(stage) \in Nat /\ Total(reserved) \in Nat
  BY <1>1, TotalBelow, TotalType
<1> QED
  BY <1>2, BudgetAssumption DEF BudgetInv, BudgetType, Accounted

LEMMA RestartKeeps ==
    ASSUME BudgetInv, NEW listed \in BOOLEAN, NEW forward \in BOOLEAN,
           Restart(listed, forward)
    PROVE  BudgetInv'
<1> USE BudgetAssumption
<1>1. /\ orphans' = orphans + Total(Unknown)
      /\ free' = free + Total(Recovered(forward))
      /\ base' = IF listed /\ orphans' < Limit THEN orphans' ELSE Limit
      /\ used' = base' /\ pending' = 0
      /\ reserved' = [w \in Writers |-> 0] /\ unspent' = [w \in Writers |-> 0]
      /\ stage' = [w \in Writers |-> 0] /\ captured' = [w \in Writers |-> 0]
      /\ pc' = [w \in Writers |-> IF pc[w] = "idle" THEN "idle" ELSE "done"]
      /\ chunk' = [w \in Writers |-> NoChunk]
      /\ blocked' = FALSE /\ UNCHANGED <<other, marker>>
  BY DEF Restart
<1>2. orphans' \in Nat /\ orphans' <= Limit /\ free' \in Nat /\ free' >= free
  <2>1. /\ stage \in [Writers -> Nat] /\ Unknown \in [Writers -> Nat]
        /\ \A x \in Writers : Unknown[x] <= stage[x]
    BY DEF BudgetInv, BudgetType, Unknown
  <2>2. Total(Unknown) <= Total(stage) /\ Total(Unknown) \in Nat
    BY <2>1, TotalBelow, TotalType
  <2>3. Recovered(forward) \in [Writers -> Nat]
    BY DEF BudgetInv, BudgetType, Recovered
  <2>4. Total(Recovered(forward)) \in Nat
    BY <2>3, TotalType
  <2> QED BY <1>1, <2>2, <2>4, Covered DEF BudgetInv, BudgetType
<1>3. base' \in Nat /\ orphans' <= base' /\ base' <= Limit
  BY <1>1, <1>2
<1>4. BudgetType'
  BY <1>1, <1>2, <1>3 DEF BudgetInv, BudgetType, Places, Buffer, NoChunk
<1>5. ASSUME NEW x \in Writers PROVE BodyFits(x)'
  BY <1>1 DEF BodyFits, NoChunk
<1>6. Total(reserved') = 0 /\ Total(unspent') = 0 /\ Total(Written') = 0
  BY <1>1, TotalNone DEF Written, NoChunk
<1>7. Accounted'
  BY <1>1, <1>3, <1>6 DEF Accounted
<1>8. FloorKept'
  <2>1. Total(Written) <= Total(unspent) /\ Total(Written) \in Nat /\ Total(unspent) \in Nat
    <3>1. /\ unspent \in [Writers -> Nat] /\ Written \in [Writers -> Nat]
          /\ \A x \in Writers : Written[x] <= unspent[x]
      BY WrittenType DEF BudgetInv, BudgetType, BodyFits, Written
    <3> QED BY <3>1, TotalBelow, TotalType
  <2> QED BY <1>1, <1>2, <1>6, <2>1 DEF BudgetInv, BudgetType, FloorKept, Written
<1> QED
  BY <1>1, <1>3, <1>4, <1>5, <1>7, <1>8 DEF BudgetInv

LEMMA BudgetStutters ==
    ASSUME BudgetInv, UNCHANGED vars
    PROVE  BudgetInv'
<1>1. UNCHANGED <<used, pending, reserved, unspent, base, stage, captured, orphans, free, other, pc, chunk, blocked, marker>>
  BY DEF vars, budget, disk, gate
<1>2. BudgetType'
  BY <1>1 DEF BudgetInv, BudgetType
<1>3. ASSUME NEW x \in Writers PROVE BodyFits(x)'
  BY <1>1 DEF BudgetInv, BodyFits
<1>4. Accounted' /\ FloorKept' /\ used' <= Limit /\ orphans' <= base'
  BY <1>1 DEF BudgetInv, Accounted, FloorKept, Total
<1> QED
  BY <1>2, <1>3, <1>4 DEF BudgetInv

LEMMA BudgetKeeps == BudgetInv /\ [Next]_vars => BudgetInv'
<1> SUFFICES ASSUME BudgetInv, [Next]_vars PROVE BudgetInv'
  OBVIOUS
<1>1. ASSUME NEW w \in Writers,
             \/ Open(w) \/ Reserve(w) \/ Consume(w) \/ EndCopy(w) \/ Retain(w) \/ Halt(w)
             \/ \E n \in Chunks : Write(w, n)
             \/ \E n \in 0..Limit : WriteStage(w, n)
             \/ \E n \in OldSizes : Publish(w, n)
             \/ \E kept \in BOOLEAN : Settle(w, kept)
      PROVE  BudgetInv'
  BY <1>1, OpenKeeps, ReserveKeeps, ConsumeKeeps, EndCopyKeeps, RetainKeeps, WriteKeeps,
     WriteStageKeeps, PublishKeeps, SettleKeeps
<1>2. CASE OtherTakes \/ Cleanup \/ AllServed \/ UNCHANGED vars
  BY <1>2, OtherTakesKeeps, CleanupKeeps, BudgetStutters DEF AllServed
<1>3. CASE \E listed, forward \in BOOLEAN : Restart(listed, forward)
  BY <1>3, RestartKeeps
<1> QED
  BY <1>1, <1>2, <1>3 DEF Next

LEMMA CaptureStarts == Init => CaptureInv
BY DEF Init, CaptureInv, Journaled

LEMMA CaptureKeeps == BudgetInv /\ CaptureInv /\ [Next]_vars => CaptureInv'
<1> SUFFICES ASSUME BudgetInv, CaptureInv, [Next]_vars PROVE CaptureInv'
  OBVIOUS
<1> DEFINE Out == {"published", "halted"}
<1>0. pc \in [Writers -> Places] /\ captured \in [Writers -> Nat]
  BY DEF BudgetInv, BudgetType
\* A step that takes no body into the journal and drops no captured bytes there.
<1>1. ASSUME captured' = captured, blocked => blocked', pc' \in [Writers -> Places],
             \A w \in Writers : /\ (pc'[w] \in Out <=> pc[w] \in Out)
                                /\ pc'[w] = "halted" => pc[w] = "halted"
      PROVE  CaptureInv'
  BY <1>0, <1>1 DEF CaptureInv, Journaled
<1>2. ASSUME NEW w \in Writers,
             \/ Open(w) \/ Reserve(w) \/ Consume(w) \/ EndCopy(w) \/ Retain(w)
             \/ \E n \in Chunks : Write(w, n)
             \/ \E n \in 0..Limit : WriteStage(w, n)
      PROVE  CaptureInv'
  <2>1. captured' = captured /\ (blocked => blocked')
    BY <1>2 DEF Open, Reserve, Consume, EndCopy, Retain, Write, WriteStage, disk, gate
  <2>2. /\ pc[w] \notin Out
        /\ \E to \in Places \ Out : pc' = [pc EXCEPT ![w] = to]
    BY <1>2 DEF Open, Reserve, Consume, EndCopy, Retain, Write, WriteStage, Goto, Places
  <2> QED
    BY <1>0, <1>1, <2>1, <2>2 DEF Places
<1>3. ASSUME NEW w \in Writers, NEW n \in OldSizes, Publish(w, n) PROVE CaptureInv'
  <2>1. /\ captured' = [captured EXCEPT ![w] = n] /\ ~blocked /\ blocked' = blocked
        /\ pc' = [pc EXCEPT ![w] = "published"] /\ LockFree
    BY <1>3 DEF Publish, Goto, gate
  <2>2. \A v \in Writers : pc[v] \notin Out
    BY <2>1 DEF LockFree, CaptureInv
  <2> QED
    BY <1>0, <2>1, <2>2 DEF CaptureInv, Journaled
<1>4. ASSUME NEW w \in Writers, NEW kept \in BOOLEAN, Settle(w, kept) PROVE CaptureInv'
  <2>1. /\ captured' = [captured EXCEPT ![w] = 0] /\ blocked' = blocked
        /\ pc' = [pc EXCEPT ![w] = "done"]
    BY <1>4 DEF Settle, Goto, gate
  <2> QED
    BY <1>0, <2>1 DEF CaptureInv, Journaled
<1>5. ASSUME NEW w \in Writers, Halt(w) PROVE CaptureInv'
  <2>1. /\ captured' = captured /\ blocked' = TRUE /\ pc[w] = "published"
        /\ pc' = [pc EXCEPT ![w] = "halted"]
    BY <1>5 DEF Halt, Goto, disk
  <2> QED
    BY <1>0, <2>1 DEF CaptureInv, Journaled
<1>6. CASE OtherTakes \/ Cleanup \/ AllServed \/ UNCHANGED vars
  <2>1. captured' = captured /\ pc' = pc /\ (blocked => blocked')
    BY <1>6 DEF OtherTakes, Cleanup, AllServed, vars, disk, gate
  <2> QED
    BY <1>0, <1>1, <2>1
<1>7. CASE \E listed, forward \in BOOLEAN : Restart(listed, forward)
  <2>1. /\ captured' = [w \in Writers |-> 0]
        /\ pc' = [w \in Writers |-> IF pc[w] = "idle" THEN "idle" ELSE "done"]
    BY <1>7 DEF Restart
  <2> QED
    BY <2>1 DEF CaptureInv, Journaled
<1> QED
  BY <1>2, <1>3, <1>4, <1>5, <1>6, <1>7 DEF Next

-----------------------------------------------------------------------------
(* The theorems about the staging budget                                   *)

\* Every counter of the staging budget is at all times the sum of the reservations,
\* whatever bodies run at once and wherever a write, a removal or the process fails.
THEOREM BudgetAccounted == Spec => []Accounted
<1>1. BudgetInv => Accounted
  BY DEF BudgetInv
<1> QED
  BY <1>1, BudgetStarts, BudgetKeeps, PTL DEF Spec

\* What was newly allocated for the bodies, and what earlier processes left in
\* write-staging, never exceeds what the budget counts as used: every byte is
\* reserved before it is written, and a removal or a recovery that fails keeps the
\* reservation. Captured targets, which have none, come on top, one at a time.
THEOREM BudgetCovers == Spec => []StageCovered
<1>1. BudgetInv /\ CaptureInv => StageCovered
  BY Covered DEF StageCovered, CaptureInv
<1>2. Init => BudgetInv /\ CaptureInv
  BY BudgetStarts, CaptureStarts
<1>3. BudgetInv /\ CaptureInv /\ [Next]_vars => (BudgetInv /\ CaptureInv)'
  BY BudgetKeeps, CaptureKeeps
<1> QED
  BY <1>1, <1>2, <1>3, PTL DEF Spec

\* The bodies together never take the filesystem below its floor: the bytes granted and
\* not yet written are covered by free space above it, beside what other programs took.
THEOREM FloorStays == Spec => []FloorKept
<1>1. BudgetInv => FloorKept
  BY DEF BudgetInv
<1> QED
  BY <1>1, BudgetStarts, BudgetKeeps, PTL DEF Spec

-----------------------------------------------------------------------------
(* The inductive invariant of the path locks                                *)

\* A request under way has these fields.
RequestFields == {"at", "then", "kind", "src", "dst", "given", "todo", "wait", "got", "seen",
                  "resources", "namespaces", "node", "lost", "gone"}
Shaped(q) == q = [f \in RequestFields |-> q[f]]
References == [path : DavPaths, obj : Nat, write : BOOLEAN]
Plans == [path : DavPaths, write : BOOLEAN]

\* The references of request q are of paths in ascending order: those it holds, the one
\* it waits for, those it has still to take.
RefOrder(q) ==
    /\ Shaped(q) /\ q.at # "idle"
    /\ q.got \subseteq References /\ q.wait \subseteq References
    /\ \A v, w \in q.wait : v = w
    /\ \A g \in q.got, w \in q.wait : Rank(g.path) < Rank(w.path)
    /\ q.at # "lock" => q.wait = {}
    /\ q.at = "body" => q.got = {}
    /\ q.at = "lock" =>
          /\ q.then \in {"check", "boundary"}
          /\ q.todo \subseteq Plans
          /\ \A v, w \in q.todo : v.path = w.path => v = w
          /\ \A g \in q.got \cup q.wait, w \in q.todo : Rank(g.path) < Rank(w.path)

RequestsOrdered ==
    /\ req = [r \in DavRequests |-> req[r]]
    /\ \A r \in DavRequests : req[r] = NoRequest \/ RefOrder(req[r])

\* What a request holds or waits for, and who does so with a path.
Refs(q) == IF q = NoRequest THEN {} ELSE q.got \cup q.wait
Uses(q, p) == \E g \in Refs(q) : g.path = p
Users(p) == {r \in DavRequests : Uses(req[r], p)}

\* An entry counts its users, and all of them have its mutex.
EntriesCounted ==
    /\ pathLocks \in [DavPaths -> [obj : Nat, refs : Nat]]
    /\ \A p \in DavPaths : pathLocks[p].refs = Cardinality(Users(p))
    /\ \A r \in DavRequests : \A g \in Refs(req[r]) : g.obj = pathLocks[g.path].obj

PathLockInv == RequestsOrdered /\ EntriesCounted /\ PathsExclusive

-----------------------------------------------------------------------------

\* Paths have different ranks.
LEMMA RankFacts ==
    ASSUME NEW p \in DavPaths
    PROVE  Rank(p) \in 1..Len(PathOrder) /\ Rank(p) \in Int /\ PathOrder[Rank(p)] = p
<1>1. \E i \in DOMAIN PathOrder : PathOrder[i] = p
  BY DEF DavPaths, Range
<1>2. Rank(p) \in DOMAIN PathOrder /\ PathOrder[Rank(p)] = p
  BY <1>1 DEF Rank
<1>3. DOMAIN PathOrder = 1..Len(PathOrder) /\ Len(PathOrder) \in Nat
  BY DavAssumption
<1> QED BY <1>2, <1>3

LEMMA IdleFacts ==
    ASSUME NEW q
    PROVE  /\ NoRequest.at = "idle" /\ (RefOrder(q) => q # NoRequest)
           /\ (q = NoRequest \/ RefOrder(q) => (q.at = "idle" <=> q = NoRequest))
  BY DEF NoRequest, RefOrder

LEMMA ActiveFacts ==
    ASSUME RequestsOrdered
    PROVE  DavActive = {r \in DavRequests : req[r] # NoRequest}
  BY IdleFacts DEF RequestsOrdered, DavActive

LEMMA UsersFinite ==
    ASSUME NEW p
    PROVE  IsFiniteSet(Users(p)) /\ Cardinality(Users(p)) \in Nat
<1>1. Users(p) \in SUBSET DavRequests
  BY DEF Users
<1> QED BY <1>1, DavAssumption, FS_Subset, FS_CardinalityType

\* One request changes: who uses a path afterwards.
LEMMA UsersChange ==
    ASSUME RequestsOrdered, NEW r \in DavRequests, NEW q, req' = [req EXCEPT ![r] = q], NEW p
    PROVE  Users(p)' = IF Uses(q, p) THEN Users(p) \cup {r} ELSE Users(p) \ {r}
<1>1. \A x \in DavRequests : req'[x] = IF x = r THEN q ELSE req[x]
  BY DEF RequestsOrdered
<1>2. \A x : x \in Users(p)' <=> x \in DavRequests /\ Uses(req'[x], p)
  BY DEF Users, Uses, Refs
<1>3. \A x : x \in Users(p) <=> x \in DavRequests /\ Uses(req[x], p)
  BY DEF Users
<1> QED BY <1>1, <1>2, <1>3

LEMMA OrderedChange ==
    ASSUME RequestsOrdered, NEW r \in DavRequests, NEW q, req' = [req EXCEPT ![r] = q],
           q = NoRequest \/ RefOrder(q)
    PROVE  RequestsOrdered'
<1>1. \A x \in DavRequests : req'[x] = IF x = r THEN q ELSE req[x]
  BY DEF RequestsOrdered
<1>2. req' = [x \in DavRequests |-> req'[x]]
  BY DEF RequestsOrdered
<1>3. \A x \in DavRequests : req'[x] = NoRequest \/ RefOrder(req'[x])
  BY <1>1 DEF RequestsOrdered
<1> QED BY <1>2, <1>3 DEF RequestsOrdered, RefOrder, Shaped

\* Holders exclude each other when the changed one holds no more than before.
LEMMA ExclusiveChange ==
    ASSUME RequestsOrdered, PathsExclusive, NEW r \in DavRequests, NEW q, req' = [req EXCEPT ![r] = q],
           q = NoRequest \/ RefOrder(q),
           q # NoRequest => q.got \subseteq IF req[r] = NoRequest THEN {} ELSE req[r].got
    PROVE  PathsExclusive'
<1>1. \A x \in DavRequests : req'[x] = IF x = r THEN q ELSE req[x]
  BY DEF RequestsOrdered
<1>2. RequestsOrdered'
  BY OrderedChange
<1>3. DavActive' = {x \in DavRequests : req'[x] # NoRequest}
  BY <1>2, IdleFacts DEF RequestsOrdered, DavActive, RefOrder, Shaped
<1>4. DavActive = {x \in DavRequests : req[x] # NoRequest}
  BY ActiveFacts
<1>5. ASSUME NEW x \in DavActive', NEW y \in DavActive' \ {x},
             NEW g \in req'[x].got, NEW h \in req'[y].got, g.path = h.path
      PROVE  ~g.write /\ ~h.write
  <2>1. x \in DavActive /\ g \in req[x].got
    BY <1>1, <1>3, <1>4, <1>5
  <2>2. y \in DavActive /\ h \in req[y].got
    BY <1>1, <1>3, <1>4, <1>5
  <2> QED BY <1>5, <2>1, <2>2 DEF PathsExclusive
<1> QED BY <1>5 DEF PathsExclusive

\* A request that keeps its references.
LEMMA SameRefs ==
    ASSUME PathLockInv, NEW r \in DavRequests, NEW q, req' = [req EXCEPT ![r] = q],
           pathLocks' = pathLocks, q = NoRequest \/ RefOrder(q), Refs(q) = Refs(req[r]),
           q # NoRequest => q.got \subseteq IF req[r] = NoRequest THEN {} ELSE req[r].got
    PROVE  PathLockInv'
<1>1. RequestsOrdered' /\ PathsExclusive'
  BY OrderedChange, ExclusiveChange DEF PathLockInv
<1>2. \A x \in DavRequests : req'[x] = IF x = r THEN q ELSE req[x]
  BY DEF PathLockInv, RequestsOrdered
<1>3. ASSUME NEW p \in DavPaths PROVE Users(p)' = Users(p)
  <2>1. Uses(q, p) <=> Uses(req[r], p)
    BY DEF Uses
  <2>2. r \in Users(p) <=> Uses(req[r], p)
    BY DEF Users
  <2>3. Users(p)' = IF Uses(q, p) THEN Users(p) \cup {r} ELSE Users(p) \ {r}
    BY UsersChange DEF PathLockInv
  <2> QED BY <2>1, <2>2, <2>3
<1>4. \A x \in DavRequests : \A g \in Refs(req'[x]) : g.obj = pathLocks[g.path].obj
  BY <1>2 DEF PathLockInv, EntriesCounted
<1>5. EntriesCounted'
  BY <1>3, <1>4 DEF PathLockInv, EntriesCounted, Refs
<1> QED BY <1>1, <1>5 DEF PathLockInv

\* A request that gives up all it holds.
LEMMA LetsGo ==
    ASSUME PathLockInv, NEW r \in DavRequests, NEW q, req' = [req EXCEPT ![r] = q],
           req[r] # NoRequest, req[r].at # "lock",
           pathLocks' = Released(r), q = NoRequest \/ RefOrder(q), Refs(q) = {}
    PROVE  PathLockInv'
<1>1. RequestsOrdered' /\ PathsExclusive'
  BY OrderedChange, ExclusiveChange DEF PathLockInv, Refs
<1>2. \A x \in DavRequests : req'[x] = IF x = r THEN q ELSE req[x]
  BY DEF PathLockInv, RequestsOrdered
<1>3. Refs(req[r]) = req[r].got
  BY DEF PathLockInv, RequestsOrdered, RefOrder, Refs
<1>4. ASSUME NEW p \in DavPaths
      PROVE  /\ pathLocks'[p] \in [obj : Nat, refs : Nat]
             /\ pathLocks'[p].refs = Cardinality(Users(p)')
             /\ Users(p)' # {} => pathLocks'[p].obj = pathLocks[p].obj
  <2>1. Users(p)' = Users(p) \ {r}
    BY UsersChange DEF PathLockInv, Uses
  <2>2. r \in Users(p) <=> \E g \in req[r].got : g.path = p
    BY <1>3 DEF Users, Uses
  <2>3. pathLocks'[p] = IF r \in Users(p) THEN Unlock(pathLocks[p]) ELSE pathLocks[p]
    BY <2>2 DEF Released
  <2>4. Cardinality(Users(p)') = IF r \in Users(p) THEN Cardinality(Users(p)) - 1 ELSE Cardinality(Users(p))
    BY <2>1, UsersFinite, FS_RemoveElement
  <2>5. Cardinality(Users(p)) \in Nat /\ (Users(p) = {} <=> Cardinality(Users(p)) = 0)
        /\ (Users(p)' = {} <=> Cardinality(Users(p)') = 0)
    <3>1. IsFiniteSet(Users(p)) /\ IsFiniteSet(Users(p)')
      BY <2>1, UsersFinite, FS_RemoveElement
    <3> QED BY <3>1, UsersFinite, FS_EmptySet
  <2>6. pathLocks[p] \in [obj : Nat, refs : Nat] /\ pathLocks[p].refs = Cardinality(Users(p))
    BY DEF PathLockInv, EntriesCounted
  <2> QED BY <2>3, <2>4, <2>5, <2>6 DEF Unlock, NoEntry
<1>5. pathLocks' \in [DavPaths -> [obj : Nat, refs : Nat]]
  BY <1>4 DEF Released
<1>6. ASSUME NEW x \in DavRequests, NEW g \in Refs(req'[x]) PROVE g.obj = pathLocks'[g.path].obj
  <2>1. x # r /\ req'[x] = req[x] /\ g \in Refs(req[x])
    BY <1>2, <1>6
  <2>2. g.path \in DavPaths
    BY <2>1 DEF PathLockInv, RequestsOrdered, RefOrder, Refs, References
  <2>3. x \in Users(g.path)'
    BY <1>6 DEF Users, Uses, Refs
  <2> QED BY <2>1, <2>2, <2>3, <1>4 DEF PathLockInv, EntriesCounted
<1>7. EntriesCounted'
  BY <1>4, <1>5, <1>6 DEF EntriesCounted, Refs
<1> QED BY <1>1, <1>7 DEF PathLockInv

-----------------------------------------------------------------------------
(* Taking locks.                                                            *)

LEMMA PlanFacts ==
    ASSUME NEW specs
    PROVE  /\ LockPlan(specs) \subseteq Plans
           /\ \A v, w \in LockPlan(specs) : v.path = w.path => v = w
<1> DEFINE Asked(p) == \E s \in specs : s.write /\ p \in Hierarchy(s.path)
<1>1. \A v \in LockPlan(specs) : v.path \in DavPaths /\ v = [path |-> v.path, write |-> Asked(v.path)]
  BY DEF LockPlan
<1>2. \A p : Asked(p) \in BOOLEAN
  OBVIOUS
<1> HIDE DEF Asked
<1> QED BY <1>1, <1>2 DEF Plans

LEMMA FreshFacts ==
    ASSUME PathLockInv, NEW p \in DavPaths, Users(p) = {}
    PROVE  FreshMutex(p) \in Nat
<1>1. DavActive = {r \in DavRequests : req[r] # NoRequest}
  BY ActiveFacts DEF PathLockInv
<1>2. \A r \in DavActive : \A g \in req[r].got \cup req[r].wait : g.path # p
  BY <1>1 DEF Users, Uses, Refs
<1>3. Cardinality(DavRequests) \in Nat
  BY DavAssumption, FS_CardinalityType
<1>4. 1 \in 1..(Cardinality(DavRequests) + 1)
  BY <1>3
<1>5. FreshMutex(p) \in 1..(Cardinality(DavRequests) + 1)
  BY <1>2, <1>4 DEF FreshMutex
<1> QED BY <1>3, <1>5

\* A new reference: the entry counts one more, and a fresh mutex has no other user.
LEMMA RefPathStep ==
    ASSUME PathLockInv, NEW r \in DavRequests, RefPath(r)
    PROVE  PathLockInv'
<1>1. PICK w \in req[r].todo :
        /\ Foremost(w, req[r].todo)
        /\ pathLocks' = [pathLocks EXCEPT ![w.path] = Acquire(pathLocks[w.path], FreshMutex(w.path))]
        /\ req' = [req EXCEPT ![r].wait = {[path |-> w.path, write |-> w.write,
                                obj |-> Acquire(pathLocks[w.path], FreshMutex(w.path)).obj]},
                              ![r].todo = @ \ {w}]
  BY DEF RefPath
<1>2. PICK e : e = Acquire(pathLocks[w.path], FreshMutex(w.path))
  OBVIOUS
<1>3. req[r] # NoRequest /\ RefOrder(req[r]) /\ req[r].at = "lock" /\ req[r].wait = {}
  BY IdleFacts DEF RefPath, PathLockInv, RequestsOrdered
<1>4. w \in Plans /\ w.path \in DavPaths /\ w.write \in BOOLEAN
  BY <1>1, <1>3 DEF RefOrder, Plans
<1>5. PICK g : g = [path |-> w.path, obj |-> e.obj, write |-> w.write]
  OBVIOUS
<1>6. PICK q : q = [req[r] EXCEPT !.wait = {g}, !.todo = @ \ {w}]
  OBVIOUS
<1>7. req' = [req EXCEPT ![r] = q]
  BY <1>1, <1>2, <1>5, <1>6
<1>8. /\ Shaped(q) /\ q.wait = {g} /\ q.todo = req[r].todo \ {w} /\ q.got = req[r].got
      /\ q.at = "lock" /\ q.then = req[r].then
  BY <1>3, <1>6 DEF RefOrder, Shaped, RequestFields
<1>9. \A h \in req[r].got : Rank(h.path) < Rank(w.path)
  BY <1>1, <1>3 DEF RefOrder
<1>10. r \notin Users(w.path) /\ ~Uses(req[r], w.path)
  <2>1. \A h \in req[r].got : h.path # w.path
    <3> SUFFICES ASSUME NEW h \in req[r].got, h.path = w.path PROVE FALSE
      OBVIOUS
    <3>1. Rank(w.path) < Rank(w.path)
      BY <1>9
    <3>2. Rank(w.path) \in Int
      BY <1>4, RankFacts
    <3> QED BY <3>1, <3>2
  <2> QED BY <2>1, <1>3 DEF Users, Uses, Refs
<1>11. pathLocks[w.path] \in [obj : Nat, refs : Nat] /\ pathLocks[w.path].refs = Cardinality(Users(w.path))
  BY <1>4 DEF PathLockInv, EntriesCounted
<1>12. /\ e \in [obj : Nat, refs : Nat] /\ e.refs = pathLocks[w.path].refs + 1
       /\ Users(w.path) # {} => e.obj = pathLocks[w.path].obj
  <2>1. CASE pathLocks[w.path].refs = 0
    <3>1. Users(w.path) = {}
      BY <2>1, <1>11, UsersFinite, FS_EmptySet
    <3> QED BY <2>1, <3>1, <1>2, <1>4, <1>11, FreshFacts DEF Acquire
  <2>2. CASE pathLocks[w.path].refs # 0
    BY <2>2, <1>2, <1>11 DEF Acquire
  <2> QED BY <2>1, <2>2
<1>13. g \in References
  BY <1>4, <1>5, <1>12 DEF References
<1>14. RefOrder(q)
  <2>1. \A h \in q.todo : Rank(w.path) < Rank(h.path)
    <3> SUFFICES ASSUME NEW h \in q.todo PROVE Rank(w.path) < Rank(h.path)
      OBVIOUS
    <3>1. h \in req[r].todo /\ h # w /\ h \in Plans
      BY <1>3, <1>8 DEF RefOrder
    <3>2. h.path # w.path
      BY <3>1, <1>1, <1>3 DEF RefOrder
    <3>3. Rank(w.path) <= Rank(h.path)
      BY <3>1, <1>1 DEF Foremost
    <3>4. h.path \in DavPaths
      BY <3>1 DEF Plans
    <3> QED BY <3>2, <3>3, <3>4, <1>4, RankFacts
  <2>2. g.path = w.path
    BY <1>5
  <2> QED BY <2>1, <2>2, <1>3, <1>8, <1>9, <1>13 DEF RefOrder
<1>15. Refs(q) = Refs(req[r]) \cup {g} /\ q # NoRequest
  BY <1>3, <1>8, <1>14, IdleFacts DEF Refs
<1>16. RequestsOrdered' /\ PathsExclusive'
  BY <1>3, <1>7, <1>8, <1>14, OrderedChange, ExclusiveChange DEF PathLockInv
<1>17. \A x \in DavRequests : req'[x] = IF x = r THEN q ELSE req[x]
  BY <1>7 DEF PathLockInv, RequestsOrdered
<1>18. ASSUME NEW p \in DavPaths
       PROVE  pathLocks'[p].refs = Cardinality(Users(p)') /\ pathLocks'[p] \in [obj : Nat, refs : Nat]
  <2>1. Users(p)' = IF Uses(q, p) THEN Users(p) \cup {r} ELSE Users(p) \ {r}
    BY <1>7, UsersChange DEF PathLockInv
  <2>2. Uses(q, p) <=> Uses(req[r], p) \/ p = w.path
    BY <1>5, <1>15 DEF Uses
  <2>3. r \in Users(p) <=> Uses(req[r], p)
    BY DEF Users
  <2>4. pathLocks[p] \in [obj : Nat, refs : Nat] /\ pathLocks[p].refs = Cardinality(Users(p))
        /\ pathLocks \in [DavPaths -> [obj : Nat, refs : Nat]]
    BY DEF PathLockInv, EntriesCounted
  <2>5. CASE p = w.path
    <3>1. Users(p)' = Users(p) \cup {r} /\ r \notin Users(p)
      BY <2>1, <2>2, <2>5, <1>10
    <3>2. Cardinality(Users(p)') = Cardinality(Users(p)) + 1
      BY <3>1, UsersFinite, FS_AddElement
    <3>3. pathLocks'[p] = e
      BY <2>4, <2>5, <1>1, <1>2
    <3> QED BY <3>2, <3>3, <2>4, <2>5, <1>12
  <2>6. CASE p # w.path
    <3>1. Users(p)' = Users(p)
      BY <2>1, <2>2, <2>3, <2>6
    <3>2. pathLocks'[p] = pathLocks[p]
      BY <2>4, <2>6, <1>1
    <3> QED BY <3>1, <3>2, <2>4
  <2> QED BY <2>5, <2>6
<1>19. ASSUME NEW x \in DavRequests, NEW h \in Refs(req'[x])
       PROVE  h.obj = pathLocks'[h.path].obj
  <2>1. pathLocks \in [DavPaths -> [obj : Nat, refs : Nat]]
    BY DEF PathLockInv, EntriesCounted
  <2>2. CASE x = r /\ h = g
    <3>1. h.obj = e.obj /\ h.path = w.path
      BY <2>2, <1>5
    <3>2. pathLocks'[w.path] = e
      BY <2>1, <1>1, <1>2, <1>4
    <3> QED BY <3>1, <3>2
  <2>3. CASE h \in Refs(req[x])
    <3>1. h.obj = pathLocks[h.path].obj
      BY <2>3 DEF PathLockInv, EntriesCounted
    <3>2. h.path \in DavPaths
      BY <2>3 DEF PathLockInv, RequestsOrdered, RefOrder, Refs, References
    <3>3. CASE h.path # w.path
      BY <3>1, <3>2, <3>3, <2>1, <1>1
    <3>4. CASE h.path = w.path
      <4>1. x \in Users(w.path)
        BY <2>3, <3>4 DEF Users, Uses
      <4>2. pathLocks'[w.path] = e
        BY <2>1, <1>1, <1>2, <1>4
      <4> QED BY <3>1, <3>4, <4>1, <4>2, <1>12
    <3> QED BY <3>3, <3>4
  <2> QED BY <2>2, <2>3, <1>15, <1>17, <1>19
<1>20. pathLocks' \in [DavPaths -> [obj : Nat, refs : Nat]]
  <2>1. pathLocks \in [DavPaths -> [obj : Nat, refs : Nat]]
    BY DEF PathLockInv, EntriesCounted
  <2> QED BY <2>1, <1>1, <1>2, <1>12
<1>21. EntriesCounted'
  BY <1>18, <1>19, <1>20 DEF EntriesCounted, Refs
<1> QED BY <1>16, <1>21 DEF PathLockInv

\* A mutex is granted: whoever holds the path holds the same mutex.
LEMMA GrabPathStep ==
    ASSUME PathLockInv, NEW r \in DavRequests, GrabPath(r)
    PROVE  PathLockInv'
<1>1. PICK q : q = [req[r] EXCEPT !.got = @ \cup req[r].wait, !.wait = {},
                                  !.at = IF req[r].todo = {} THEN req[r].then ELSE @]
  OBVIOUS
<1>2. req' = [req EXCEPT ![r] = q] /\ pathLocks' = pathLocks /\ Grabs(r)
  BY <1>1 DEF GrabPath
<1>3. req[r] # NoRequest /\ RefOrder(req[r]) /\ req[r].at = "lock"
  BY IdleFacts DEF GrabPath, PathLockInv, RequestsOrdered
<1>4. /\ Shaped(q) /\ q.got = req[r].got \cup req[r].wait /\ q.wait = {} /\ q.todo = req[r].todo
      /\ q.then = req[r].then /\ q.at = IF req[r].todo = {} THEN req[r].then ELSE "lock"
  BY <1>1, <1>3 DEF RefOrder, Shaped, RequestFields
<1>5. RefOrder(q)
  BY <1>3, <1>4 DEF RefOrder
<1>6. Refs(q) = Refs(req[r])
  BY <1>3, <1>4, <1>5, IdleFacts DEF Refs
<1>7. RequestsOrdered'
  BY <1>2, <1>5, OrderedChange DEF PathLockInv
<1>8. \A x \in DavRequests : req'[x] = IF x = r THEN q ELSE req[x]
  BY <1>2 DEF PathLockInv, RequestsOrdered
<1>9. DavActive' = {x \in DavRequests : req'[x] # NoRequest}
  BY <1>7, IdleFacts DEF RequestsOrdered, DavActive, RefOrder, Shaped
<1>10. DavActive = {x \in DavRequests : req[x] # NoRequest}
  BY ActiveFacts DEF PathLockInv
<1>11. ASSUME NEW w \in req[r].wait, NEW y \in DavActive \ {r}, NEW h \in req[y].got, h.path = w.path
       PROVE  ~h.write /\ ~w.write
  <2>1. w \in Refs(req[r]) /\ h \in Refs(req[y]) /\ y \in DavRequests
    BY <1>3, <1>10 DEF Refs
  <2>2. w.obj = h.obj
    BY <2>1, <1>11 DEF PathLockInv, EntriesCounted
  <2> QED BY <2>2, <1>2, <1>11 DEF Grabs
<1>12. ASSUME NEW x \in DavActive', NEW y \in DavActive' \ {x},
             NEW g \in req'[x].got, NEW h \in req'[y].got, g.path = h.path
      PROVE  ~g.write /\ ~h.write
  <2>1. x \in DavActive /\ y \in DavActive /\ x # y
    BY <1>3, <1>8, <1>9, <1>10
  <2>2. g \in req[x].got \/ (x = r /\ g \in req[r].wait)
    <3>1. g \in (IF x = r THEN q ELSE req[x]).got
      BY <2>1, <1>8, <1>10, <1>12
    <3> QED BY <3>1, <1>4
  <2>3. h \in req[y].got \/ (y = r /\ h \in req[r].wait)
    <3>1. h \in (IF y = r THEN q ELSE req[y]).got
      BY <2>1, <1>8, <1>10, <1>12
    <3> QED BY <3>1, <1>4
  <2> QED BY <2>1, <2>2, <2>3, <1>11, <1>12 DEF PathLockInv, PathsExclusive
<1>13. \A p \in DavPaths : Users(p)' = Users(p)
  <2> SUFFICES ASSUME NEW p \in DavPaths PROVE Users(p)' = Users(p)
    OBVIOUS
  <2>1. Users(p)' = IF Uses(q, p) THEN Users(p) \cup {r} ELSE Users(p) \ {r}
    BY <1>2, UsersChange DEF PathLockInv
  <2>2. Uses(q, p) <=> Uses(req[r], p)
    BY <1>6 DEF Uses
  <2>3. r \in Users(p) <=> Uses(req[r], p)
    BY DEF Users
  <2> QED BY <2>1, <2>2, <2>3
<1>14. EntriesCounted'
  <2>1. \A x \in DavRequests : \A g \in Refs(req'[x]) : g.obj = pathLocks[g.path].obj
    BY <1>6, <1>8 DEF PathLockInv, EntriesCounted
  <2> QED BY <2>1, <1>2, <1>13 DEF PathLockInv, EntriesCounted, Refs
<1>15. PathsExclusive'
  BY <1>12 DEF PathsExclusive
<1> QED BY <1>7, <1>14, <1>15 DEF PathLockInv

-----------------------------------------------------------------------------
(* Requests that have their locks.                                          *)

LEMMA LocksStay ==
    ASSUME PathLockInv, req' = req, pathLocks' = pathLocks
    PROVE  PathLockInv'
<1>1. RequestsOrdered'
  BY DEF PathLockInv, RequestsOrdered, RefOrder, Shaped
<1>2. \A p \in DavPaths : Users(p)' = Users(p)
  BY DEF Users, Uses, Refs
<1>3. EntriesCounted'
  BY <1>2 DEF PathLockInv, EntriesCounted, Refs
<1>4. PathsExclusive'
  BY DEF PathLockInv, PathsExclusive, DavActive
<1> QED BY <1>1, <1>3, <1>4 DEF PathLockInv

\* Behind its locks: a request that is past "lock" waits for none.
Behind(r) == req[r].at \notin {"idle", "lock"}

LEMMA BehindFacts ==
    ASSUME PathLockInv, NEW r \in DavRequests, Behind(r)
    PROVE  req[r] # NoRequest /\ RefOrder(req[r]) /\ Shaped(req[r]) /\ req[r].wait = {}
  BY IdleFacts DEF PathLockInv, RequestsOrdered, Behind, RefOrder

LEMMA GoesOn ==
    ASSUME PathLockInv, NEW r \in DavRequests, Behind(r), NEW q, req' = [req EXCEPT ![r] = q],
           pathLocks' = pathLocks, Shaped(q), q.got = req[r].got, q.wait = req[r].wait,
           q.at \notin {"idle", "lock", "body"}
    PROVE  PathLockInv'
<1>1. req[r] # NoRequest /\ RefOrder(req[r]) /\ req[r].wait = {}
  BY BehindFacts
<1>2. RefOrder(q)
  BY <1>1 DEF RefOrder
<1>3. Refs(q) = Refs(req[r])
  BY <1>1, <1>2, IdleFacts DEF Refs
<1> QED BY <1>1, <1>2, <1>3, SameRefs

LEMMA GoReqStep ==
    ASSUME PathLockInv, NEW r \in DavRequests, Behind(r), NEW at, at \notin {"idle", "lock", "body"},
           GoReq(r, at), pathLocks' = pathLocks
    PROVE  PathLockInv'
<1>1. PICK q : q = [req[r] EXCEPT !.at = at]
  OBVIOUS
<1>2. Shaped(q) /\ q.got = req[r].got /\ q.wait = req[r].wait /\ q.at = at
  <2>1. Shaped(req[r])
    BY BehindFacts
  <2> QED BY <1>1, <2>1 DEF Shaped, RequestFields
<1> QED BY <1>1, <1>2, GoesOn DEF GoReq

LEMMA EndReqStep ==
    ASSUME PathLockInv, NEW r \in DavRequests, Behind(r), EndReq(r)
    PROVE  PathLockInv'
<1>1. Refs(NoRequest) = {}
  BY DEF Refs
<1> QED BY <1>1, BehindFacts, LetsGo DEF EndReq, Behind

\* Without its locks, but not at its end.
LEMMA FreesStep ==
    ASSUME PathLockInv, NEW r \in DavRequests, Behind(r), NEW q, req' = [req EXCEPT ![r] = q],
           pathLocks' = Released(r), Shaped(q), q.got = {}, q.wait = {}, q.at \notin {"idle", "lock"}
    PROVE  PathLockInv'
<1>1. RefOrder(q) /\ Refs(q) = {}
  BY DEF RefOrder, Refs
<1> QED BY <1>1, BehindFacts, LetsGo DEF Behind

LEMMA ArriveStep == ASSUME PathLockInv, NEW r \in DavRequests, Arrive(r) PROVE PathLockInv'
<1>1. PICK src \in Targets : \E m \in Methods(src), given \in GivenBy(src) :
        req' = [req EXCEPT ![r] =
                [at |-> "lock", then |-> "check", kind |-> m.kind, src |-> src, dst |-> m.dst,
                 given |-> given, todo |-> LockPlan(m.specs), wait |-> {}, got |-> {},
                 seen |-> {}, resources |-> {}, namespaces |-> {}, node |-> NoNode,
                 lost |-> NoLock, gone |-> NoNode]]
  BY DEF Arrive
<1>2. PICK m \in Methods(src), given \in GivenBy(src) :
        req' = [req EXCEPT ![r] =
                [at |-> "lock", then |-> "check", kind |-> m.kind, src |-> src, dst |-> m.dst,
                 given |-> given, todo |-> LockPlan(m.specs), wait |-> {}, got |-> {},
                 seen |-> {}, resources |-> {}, namespaces |-> {}, node |-> NoNode,
                 lost |-> NoLock, gone |-> NoNode]]
  BY <1>1
<1>3. PICK plan : plan = LockPlan(m.specs)
  OBVIOUS
<1>4. PICK q : q = [at |-> "lock", then |-> "check", kind |-> m.kind, src |-> src, dst |-> m.dst,
                 given |-> given, todo |-> plan, wait |-> {}, got |-> {},
                 seen |-> {}, resources |-> {}, namespaces |-> {}, node |-> NoNode,
                 lost |-> NoLock, gone |-> NoNode]
  OBVIOUS
<1>5. Shaped(q) /\ q.at = "lock" /\ q.then = "check" /\ q.got = {} /\ q.wait = {} /\ q.todo = plan
  BY <1>4 DEF Shaped, RequestFields
<1>6. plan \subseteq Plans /\ \A v, w \in plan : v.path = w.path => v = w
  BY <1>3, PlanFacts
<1>7. RefOrder(q)
  BY <1>5, <1>6 DEF RefOrder
<1>8. req[r] = NoRequest /\ pathLocks' = pathLocks
  BY IdleFacts DEF Arrive, PathLockInv, RequestsOrdered
<1>9. Refs(q) = Refs(req[r])
  BY <1>5, <1>8 DEF Refs
<1> QED BY <1>2, <1>3, <1>4, <1>5, <1>7, <1>8, <1>9, SameRefs

LEMMA CheckStep == ASSUME PathLockInv, NEW r \in DavRequests, Check(r) PROVE PathLockInv'
<1>1. Behind(r) /\ req[r].at = "check"
  BY DEF Check, Behind
<1>2. Shaped(req[r]) /\ req[r].wait = {}
  BY <1>1, BehindFacts DEF RefOrder
<1>3. PICK q : q = IF req[r].kind = "put" THEN PutScope(req[r]) ELSE req[r]
  OBVIOUS
<1>4. Shaped(q) /\ q.got = req[r].got /\ q.wait = {}
  BY <1>2, <1>3 DEF PutScope, Shaped, RequestFields
<1>5. \/ GoReq(r, "serve") /\ pathLocks' = pathLocks
      \/ EndReq(r)
      \/ req' = [req EXCEPT ![r] = [q EXCEPT !.at = "body", !.got = {}]] /\ pathLocks' = Released(r)
      \/ /\ req' = [req EXCEPT ![r] = [q EXCEPT !.at = "commit", !.seen = LocksSeen, !.node = tree[q.dst]]]
         /\ pathLocks' = pathLocks
  BY <1>3 DEF Check
<1>6. CASE GoReq(r, "serve") /\ pathLocks' = pathLocks
  BY <1>1, <1>6, GoReqStep
<1>7. CASE EndReq(r)
  BY <1>1, <1>7, EndReqStep
<1>8. CASE req' = [req EXCEPT ![r] = [q EXCEPT !.at = "body", !.got = {}]] /\ pathLocks' = Released(r)
  <2>1. PICK n : n = [q EXCEPT !.at = "body", !.got = {}]
    OBVIOUS
  <2>2. Shaped(n) /\ n.got = {} /\ n.wait = {} /\ n.at = "body"
    BY <2>1, <1>4 DEF Shaped, RequestFields
  <2> QED BY <2>1, <2>2, <1>1, <1>8, FreesStep
<1>9. CASE /\ req' = [req EXCEPT ![r] = [q EXCEPT !.at = "commit", !.seen = LocksSeen, !.node = tree[q.dst]]]
           /\ pathLocks' = pathLocks
  <2>1. PICK n : n = [q EXCEPT !.at = "commit", !.seen = LocksSeen, !.node = tree[q.dst]]
    OBVIOUS
  <2>2. Shaped(n) /\ n.got = req[r].got /\ n.wait = req[r].wait /\ n.at = "commit"
    BY <2>1, <1>2, <1>4 DEF Shaped, RequestFields
  <2> QED BY <2>1, <2>2, <1>1, <1>9, GoesOn
<1> QED BY <1>5, <1>6, <1>7, <1>8, <1>9

LEMMA PutBodyStep == ASSUME PathLockInv, NEW r \in DavRequests, PutBody(r) PROVE PathLockInv'
<1>1. Behind(r) /\ req[r].at = "body"
  BY DEF PutBody, Behind
<1>2. RefOrder(req[r]) /\ Shaped(req[r]) /\ req[r].wait = {} /\ req[r].got = {} /\ req[r] # NoRequest
  BY <1>1, BehindFacts DEF RefOrder
<1>3. CASE EndReq(r)
  BY <1>1, <1>3, EndReqStep
<1>4. CASE /\ req' = [req EXCEPT ![r].at = "lock", ![r].then = "boundary",
                             ![r].todo = LockPlan({[path |-> req[r].src, write |-> TRUE]})]
           /\ pathLocks' = pathLocks
  <2>1. PICK plan : plan = LockPlan({[path |-> req[r].src, write |-> TRUE]})
    OBVIOUS
  <2>2. PICK q : q = [req[r] EXCEPT !.at = "lock", !.then = "boundary", !.todo = plan]
    OBVIOUS
  <2>3. req' = [req EXCEPT ![r] = q]
    BY <1>4, <2>1, <2>2
  <2>4. Shaped(q) /\ q.at = "lock" /\ q.then = "boundary" /\ q.got = {} /\ q.wait = {} /\ q.todo = plan
    BY <1>2, <2>2 DEF Shaped, RequestFields
  <2>5. plan \subseteq Plans /\ \A v, w \in plan : v.path = w.path => v = w
    BY <2>1, PlanFacts
  <2>6. RefOrder(q)
    BY <2>4, <2>5 DEF RefOrder
  <2>7. Refs(q) = Refs(req[r])
    BY <2>4, <2>6, <1>2, IdleFacts DEF Refs
  <2> QED BY <2>3, <2>4, <2>6, <2>7, <1>2, <1>4, SameRefs
<1> QED BY <1>3, <1>4 DEF PutBody

LEMMA PutBoundaryStep == ASSUME PathLockInv, NEW r \in DavRequests, PutBoundary(r) PROVE PathLockInv'
<1>1. Behind(r)
  BY DEF PutBoundary, Behind
<1>2. \/ EndReq(r)
      \/ req' = [req EXCEPT ![r].at = "commit", ![r].seen = LocksSeen] /\ pathLocks' = pathLocks
  BY DEF PutBoundary
<1>3. CASE req' = [req EXCEPT ![r].at = "commit", ![r].seen = LocksSeen] /\ pathLocks' = pathLocks
  <2>1. PICK q : q = [req[r] EXCEPT !.at = "commit", !.seen = LocksSeen]
    OBVIOUS
  <2>2. Shaped(q) /\ q.got = req[r].got /\ q.wait = req[r].wait /\ q.at = "commit"
    <3>1. Shaped(req[r]) /\ req[r].wait = {}
      BY <1>1, BehindFacts
    <3> QED BY <2>1, <3>1 DEF Shaped, RequestFields
  <2>3. req' = [req EXCEPT ![r] = q]
    BY <1>3, <2>1
  <2> QED BY <2>2, <2>3, <1>1, <1>3, GoesOn
<1> QED BY <1>1, <1>2, <1>3, EndReqStep

LEMMA CommitPutStep == ASSUME PathLockInv, NEW r \in DavRequests, CommitPut(r) PROVE PathLockInv'
<1>1. Behind(r)
  BY DEF CommitPut, Committing, Behind
<1>2. EndReq(r) \/ (req' = [req EXCEPT ![r].at = "tell", ![r].got = {}] /\ pathLocks' = Released(r))
  BY DEF CommitPut, WrittenButFailed, DavFails
<1>3. CASE req' = [req EXCEPT ![r].at = "tell", ![r].got = {}] /\ pathLocks' = Released(r)
  <2>1. PICK q : q = [req[r] EXCEPT !.at = "tell", !.got = {}]
    OBVIOUS
  <2>2. Shaped(q) /\ q.got = {} /\ q.wait = {} /\ q.at = "tell"
    <3>1. Shaped(req[r]) /\ req[r].wait = {}
      BY <1>1, BehindFacts
    <3> QED BY <2>1, <3>1 DEF Shaped, RequestFields
  <2>3. req' = [req EXCEPT ![r] = q]
    BY <1>3, <2>1
  <2> QED BY <2>2, <2>3, <1>1, <1>3, FreesStep
<1> QED BY <1>1, <1>2, <1>3, EndReqStep

LEMMA CommitDeleteStep == ASSUME PathLockInv, NEW r \in DavRequests, CommitDelete(r) PROVE PathLockInv'
<1>1. Behind(r)
  BY DEF CommitDelete, Committing, Behind
<1> DEFINE lost == [p \in DavPaths |-> IF AtOrBelow(req[r].src, p) THEN davLocks[p] ELSE NoLock]
<1>2. EndReq(r) \/ (/\ req' = [req EXCEPT ![r].at = "deleted", ![r].gone = tree, ![r].lost = lost]
                    /\ pathLocks' = pathLocks)
  BY DEF CommitDelete, DavFails
<1> HIDE DEF lost
<1>3. CASE /\ req' = [req EXCEPT ![r].at = "deleted", ![r].gone = tree, ![r].lost = lost]
           /\ pathLocks' = pathLocks
  <2>1. PICK q : q = [req[r] EXCEPT !.at = "deleted", !.gone = tree, !.lost = lost]
    OBVIOUS
  <2>2. Shaped(q) /\ q.got = req[r].got /\ q.wait = req[r].wait /\ q.at = "deleted"
    <3>1. Shaped(req[r]) /\ req[r].wait = {}
      BY <1>1, BehindFacts
    <3> QED BY <2>1, <3>1 DEF Shaped, RequestFields
  <2>3. req' = [req EXCEPT ![r] = q]
    BY <1>3, <2>1
  <2> QED BY <2>2, <2>3, <1>1, <1>3, GoesOn
<1> QED BY <1>1, <1>2, <1>3, EndReqStep

\* The other steps of a method: the request goes on with its locks, or ends.
GoesOrEnds(r) ==
    \/ EndReq(r)
    \/ \E at \in {"serve", "tell", "children", "displaced", "putback", "cleanup"} :
          GoReq(r, at) /\ pathLocks' = pathLocks

LEMMA GoesOrEndsStep ==
    ASSUME PathLockInv, NEW r \in DavRequests, Behind(r), GoesOrEnds(r)
    PROVE  PathLockInv'
  BY GoReqStep, EndReqStep DEF GoesOrEnds

LEMMA MethodStep ==
    ASSUME NEW r \in DavRequests,
           \/ ServeGet(r) \/ CommitMkcol(r) \/ CommitCopy(r) \/ CopyChildren(r) \/ Tell(r)
           \/ \E o \in {"ok", "fail"} : DeleteEnds(r, o) \/ MoveCleanup(r, o)
           \/ \E o \in {"ok", "warn", "fail"} : CommitMove(r, o) \/ MoveOver(r, o) \/ MovePutBack(r, o)
    PROVE  Behind(r) /\ GoesOrEnds(r)
<1>1. CASE ServeGet(r) \/ Tell(r)
  BY <1>1 DEF ServeGet, Tell, Behind, GoesOrEnds
<1>2. CASE CommitMkcol(r)
  BY <1>2 DEF CommitMkcol, Committing, DavFails, Behind, GoesOrEnds
<1>3. CASE CommitCopy(r)
  BY <1>3 DEF CommitCopy, Committing, WrittenButFailed, DavFails, Behind, GoesOrEnds
<1>4. CASE CopyChildren(r)
  BY <1>4 DEF CopyChildren, Behind, GoesOrEnds
<1>5. CASE \E o \in {"ok", "fail"} : DeleteEnds(r, o)
  BY <1>5 DEF DeleteEnds, Behind, GoesOrEnds
<1>6. CASE \E o \in {"ok", "fail"} : MoveCleanup(r, o)
  BY <1>6 DEF MoveCleanup, On, Behind, GoesOrEnds
<1>7. CASE \E o \in {"ok", "warn", "fail"} : CommitMove(r, o)
  BY <1>7 DEF CommitMove, MoveStep, Committing, On, Behind, GoesOrEnds
<1>8. CASE \E o \in {"ok", "warn", "fail"} : MoveOver(r, o)
  BY <1>8 DEF MoveOver, MoveStep, On, Behind, GoesOrEnds
<1>9. CASE \E o \in {"ok", "warn", "fail"} : MovePutBack(r, o)
  BY <1>9 DEF MovePutBack, MoveStep, On, Behind, GoesOrEnds
<1> QED BY <1>1, <1>2, <1>3, <1>4, <1>5, <1>6, <1>7, <1>8, <1>9

\* The invariant holds at the start, and every step keeps it.
LEMMA PathLocksStart == DavInit => PathLockInv
<1> SUFFICES ASSUME DavInit PROVE PathLockInv
  OBVIOUS
<1>1. req = [r \in DavRequests |-> NoRequest] /\ pathLocks = [p \in DavPaths |-> NoEntry]
  BY DEF DavInit
<1>2. RequestsOrdered
  BY <1>1 DEF RequestsOrdered
<1>3. \A p : Users(p) = {}
  BY <1>1 DEF Users, Uses, Refs
<1>4. EntriesCounted
  BY <1>1, <1>3, FS_EmptySet DEF EntriesCounted, NoEntry, Refs
<1>5. DavActive = {}
  BY <1>1 DEF DavActive, NoRequest
<1> QED BY <1>2, <1>4, <1>5 DEF PathLockInv, PathsExclusive

LEMMA PathLocksKept == PathLockInv /\ [DavNext]_davVars => PathLockInv'
<1> SUFFICES ASSUME PathLockInv, [DavNext]_davVars PROVE PathLockInv'
  OBVIOUS
<1>1. CASE UNCHANGED davVars
  BY <1>1, LocksStay DEF davVars
<1>2. CASE LockSide
  BY <1>2, LocksStay DEF LockSide, LockStat, LockGrant, UnlockOrExpire
<1>3. CASE PropfindSide
  BY <1>3, LocksStay DEF PropfindSide, PropfindStart, PropfindStat, PropfindChildren, PropfindKeep
<1>4. CASE ApiSide
  BY <1>4, LocksStay DEF ApiSide, ApiRename, ApiDelete, ApiUpload
<1>5. CASE RequestSide
  <2>1. PICK r \in DavRequests :
        \/ Arrive(r) \/ RefPath(r) \/ GrabPath(r) \/ Check(r) \/ ServeGet(r)
        \/ PutBody(r) \/ PutBoundary(r)
        \/ CommitPut(r) \/ CommitMkcol(r) \/ CommitDelete(r) \/ CommitCopy(r) \/ CopyChildren(r)
        \/ \E o \in {"ok", "fail"} : DeleteEnds(r, o) \/ MoveCleanup(r, o)
        \/ \E o \in {"ok", "warn", "fail"} : CommitMove(r, o) \/ MoveOver(r, o) \/ MovePutBack(r, o)
        \/ Tell(r)
    BY <1>5 DEF RequestSide
  <2> QED BY <2>1, ArriveStep, RefPathStep, GrabPathStep, CheckStep, PutBodyStep, PutBoundaryStep,
             CommitPutStep, CommitDeleteStep, MethodStep, GoesOrEndsStep
<1> QED BY <1>1, <1>2, <1>3, <1>4, <1>5 DEF DavNext

-----------------------------------------------------------------------------
(* Nobody waits forever for everybody.                                      *)

LEMMA HighestRank ==
    ASSUME NEW S \in SUBSET (1..Len(PathOrder)), S # {}
    PROVE  \E x \in S : \A y \in S : y <= x
<1>1. Len(PathOrder) \in Nat
  BY DavAssumption
<1> DEFINE T == {Len(PathOrder) - x : x \in S}
<1>2. T \in SUBSET Nat /\ T # {}
  <2>1. \A x \in S : Len(PathOrder) - x \in Nat
    BY <1>1
  <2> QED BY <2>1
<1> HIDE DEF T
<1>3. \E t \in T : \A u \in T : <<u, t>> \notin OpToRel(<, Nat)
  BY <1>2, NatLessThanWellFounded, WFMin, Zenon
<1>4. PICK t \in T : \A u \in T : <<u, t>> \notin OpToRel(<, Nat)
  BY <1>3, Zenon
<1>5. PICK x \in S : t = Len(PathOrder) - x
  BY DEF T
<1>6. ASSUME NEW y \in S PROVE y <= x
  <2>1. PICK u \in T : u = Len(PathOrder) - y
    BY DEF T
  <2>2. u \in Nat /\ t \in Nat
    BY <1>2
  <2>3. ~(u < t)
    BY <1>4, <2>2, Zenon DEF OpToRel
  <2> QED BY <2>1, <2>3, <1>1, <1>5
<1> QED BY <1>6

\* Nobody who waits holds the highest path anybody waits for, so its mutex is free;
\* a writer among those who wait there goes first.
LEMMA InvMoves == PathLockInv => SomebodyMoves
<1> SUFFICES ASSUME PathLockInv, DavActive # {}, \A r \in DavActive : ~(Grabs(r) /\ ReadsFreely(r))
             PROVE  FALSE
  BY DEF SomebodyMoves
<1>1. DavActive = {r \in DavRequests : req[r] # NoRequest} /\ \A r \in DavActive : RefOrder(req[r])
  BY ActiveFacts DEF PathLockInv, RequestsOrdered
<1>2. \A r \in DavActive : req[r].wait # {}
  BY DEF Grabs, ReadsFreely
<1> DEFINE S == {n \in 1..Len(PathOrder) : \E r \in DavActive : \E w \in req[r].wait : Rank(w.path) = n}
<1>3. \A r \in DavActive : \A w \in req[r].wait : w.path \in DavPaths /\ Rank(w.path) \in S
  BY <1>1, RankFacts DEF RefOrder, References
<1>4. S # {}
  BY <1>2, <1>3
<1> HIDE DEF S
<1>5. \E x \in S : \A y \in S : y <= x
  <2>1. S \in SUBSET (1..Len(PathOrder))
    BY DEF S
  <2> QED BY <1>4, <2>1, HighestRank
<1>6. PICK n \in S : \A m \in S : m <= n
  BY <1>5
<1>7. PICK r \in DavActive : \E w \in req[r].wait : Rank(w.path) = n
  BY DEF S
<1>8. PICK w \in req[r].wait : Rank(w.path) = n
  BY <1>7
<1>9. ASSUME NEW q \in DavActive, NEW g \in req[q].got PROVE g.path # w.path
  <2>1. PICK v \in req[q].wait : TRUE
    BY <1>2
  <2>2. Rank(g.path) < Rank(v.path) /\ g.path \in DavPaths
    BY <1>1, <1>9 DEF RefOrder, References
  <2>3. Rank(v.path) <= n /\ Rank(v.path) \in Int /\ Rank(g.path) \in Int
    BY <1>3, <1>6, <2>2, RankFacts
  <2> QED BY <2>2, <2>3, <1>8
\* Whoever waits at that path may take it.
<1>10. ASSUME NEW q \in DavActive, NEW v \in req[q].wait, v.path = w.path
      PROVE  Grabs(q) /\ \A x \in req[q].wait : x = v
  <2>1. \A x \in req[q].wait : x = v
    BY <1>1 DEF RefOrder
  <2> QED BY <2>1, <1>9, <1>10 DEF Grabs
<1>11. CASE \E q \in DavActive : \E v \in req[q].wait : v.path = w.path /\ v.write
  <2>1. PICK q \in DavActive : \E v \in req[q].wait : v.path = w.path /\ v.write
    BY <1>11
  <2>2. PICK v \in req[q].wait : v.path = w.path /\ v.write
    BY <2>1
  <2> QED BY <2>2, <1>10 DEF ReadsFreely
<1>12. CASE \A q \in DavActive : \A v \in req[q].wait : v.path = w.path => ~v.write
  <2>1. ReadsFreely(r)
    BY <1>8, <1>10, <1>12 DEF ReadsFreely
  <2> QED BY <2>1, <1>8, <1>10
<1> QED BY <1>11, <1>12

\* However requests take, drop and take again the entries of PathLock, two of them never
\* hold the mutexes of one path unless both only read: an entry that Unlock deletes has
\* no holder left that a newcomer's fresh mutex could miss.
THEOREM PathsStayExclusive == DavSpec => []PathsExclusive
<1>1. PathLockInv => PathsExclusive
  BY DEF PathLockInv
<1> QED BY <1>1, PathLocksStart, PathLocksKept, PTL DEF DavSpec

\* Requests that take their ancestors' locks one by one (acquireHierarchyLocks) never all
\* wait for each other: with any number of requests over any namespace some request waits
\* for nothing, or finds its mutex free and no writer queued before it there.
THEOREM SomebodyAlwaysMoves == DavSpec => []SomebodyMoves
  BY InvMoves, PathLocksStart, PathLocksKept, PTL DEF DavSpec
=============================================================================
