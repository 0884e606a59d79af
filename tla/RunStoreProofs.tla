--------------------------- MODULE RunStoreProofs ---------------------------
(***************************************************************************)
(* Proofs about RunStore, for every number of runs, tenants and days and   *)
(* every cap: the type of the store, and the invariants of MCRunStore.     *)
(***************************************************************************)
EXTENDS RunStore, FiniteSetTheorems, SequenceTheorems, TLAPS

-----------------------------------------------------------------------------
(* The queue: what LREM does to it                                           *)

Once(q) == \A i, j \in DOMAIN q : q[i] = q[j] => i = j

\* LREM closes the gap at the place of r.
LEMMA LremElements ==
    ASSUME NEW q \in Seq(Runs), NEW r \in Runs, r \in Range(q)
    PROVE  \E i \in 1 .. Len(q) :
              /\ q[i] = r
              /\ Lrem(q, r) \in Seq(Runs)
              /\ Len(Lrem(q, r)) = Len(q) - 1
              /\ \A k \in 1 .. Len(q) - 1 :
                    Lrem(q, r)[k] = IF k < i THEN q[k] ELSE q[k + 1]
<1>1. PICK i \in 1 .. Len(q) : q[i] = r /\ i = (CHOOSE j \in DOMAIN q : q[j] = r)
  BY DEF Range
<1> DEFINE a == SubSeq(q, 1, i - 1)
           b == SubSeq(q, i + 1, Len(q))
<1>2. Lrem(q, r) = a \o b
  BY <1>1 DEF Lrem, RemoveAt
<1>3. /\ a \in Seq(Runs) /\ Len(a) = i - 1
      /\ \A k \in 1 .. i - 1 : a[k] = q[k]
  BY SubSeqProperties
<1>4. /\ b \in Seq(Runs) /\ Len(b) = Len(q) - i
      /\ \A k \in 1 .. Len(q) - i : b[k] = q[k + i]
  BY SubSeqProperties
<1>5. /\ a \o b \in Seq(Runs)
      /\ Len(a \o b) = Len(q) - 1
      /\ \A k \in 1 .. Len(q) - 1 : (a \o b)[k] = IF k < i THEN q[k] ELSE q[k + 1]
  <2> HIDE DEF a, b
  <2>1. /\ a \o b \in Seq(Runs)
        /\ Len(a \o b) = Len(a) + Len(b)
        /\ \A k \in 1 .. Len(a) + Len(b) :
              (a \o b)[k] = IF k <= Len(a) THEN a[k] ELSE b[k - Len(a)]
    BY <1>3, <1>4, ConcatProperties
  <2> QED
    BY <1>3, <1>4, <2>1
<1> QED
  BY <1>1, <1>2, <1>5

\* LREM yields a queue of runs.
LEMMA LremType ==
    ASSUME NEW q \in Seq(Runs), NEW r \in Runs
    PROVE  Lrem(q, r) \in Seq(Runs)
<1>1. CASE r \notin Range(q)
  BY <1>1 DEF Lrem
<1>2. CASE r \in Range(q)
  BY <1>2, LremElements
<1> QED
  BY <1>1, <1>2

\* ... in which no id is new and none stands twice that did not before.
LEMMA LremOnce ==
    ASSUME NEW q \in Seq(Runs), NEW r \in Runs, Once(q)
    PROVE  Once(Lrem(q, r)) /\ Range(Lrem(q, r)) \subseteq Range(q)
<1>1. CASE r \notin Range(q)
  BY <1>1 DEF Lrem
<1>2. CASE r \in Range(q)
  <2>1. PICK i \in 1 .. Len(q) :
              /\ Lrem(q, r) \in Seq(Runs)
              /\ Len(Lrem(q, r)) = Len(q) - 1
              /\ \A k \in 1 .. Len(q) - 1 :
                    Lrem(q, r)[k] = IF k < i THEN q[k] ELSE q[k + 1]
    BY <1>2, LremElements
  <2>2. DOMAIN Lrem(q, r) = 1 .. Len(q) - 1 /\ DOMAIN q = 1 .. Len(q)
    BY <2>1
  <2>3. Once(Lrem(q, r))
    <3> SUFFICES ASSUME NEW j \in 1 .. Len(q) - 1, NEW k \in 1 .. Len(q) - 1,
                        Lrem(q, r)[j] = Lrem(q, r)[k]
                 PROVE  j = k
      BY <2>2 DEF Once
    <3> DEFINE old(m) == IF m < i THEN m ELSE m + 1
    <3>1. old(j) \in DOMAIN q /\ old(k) \in DOMAIN q
      BY <2>2
    <3>2. q[old(j)] = q[old(k)]
      BY <2>1
    <3>3. old(j) = old(k)
      BY <3>1, <3>2 DEF Once
    <3> QED
      BY <3>3
  <2>4. Range(Lrem(q, r)) \subseteq Range(q)
    BY <2>1, <2>2 DEF Range
  <2> QED
    BY <2>3, <2>4
<1> QED
  BY <1>1, <1>2

\* BRPOPLPUSH takes an id out of the queue that does not remain in it.
LEMMA TailOnce ==
    ASSUME NEW q \in Seq(Runs), q # <<>>, Once(q)
    PROVE  /\ Once(Tail(q))
           /\ Range(Tail(q)) \subseteq Range(q)
           /\ Head(q) \in Range(q) \ Range(Tail(q))
<1>1. /\ Tail(q) \in Seq(Runs) /\ Len(Tail(q)) = Len(q) - 1
      /\ \A i \in 1 .. Len(q) - 1 : Tail(q)[i] = q[i + 1]
  BY HeadTailProperties
<1>2. /\ DOMAIN q = 1 .. Len(q) /\ DOMAIN Tail(q) = 1 .. Len(q) - 1
      /\ Len(q) \in Nat \ {0} /\ Head(q) = q[1]
  BY <1>1
<1>3. Once(Tail(q))
  <2> SUFFICES ASSUME NEW j \in 1 .. Len(q) - 1, NEW k \in 1 .. Len(q) - 1,
                      Tail(q)[j] = Tail(q)[k]
               PROVE  j = k
    BY <1>2 DEF Once
  <2>1. q[j + 1] = q[k + 1] /\ j + 1 \in DOMAIN q /\ k + 1 \in DOMAIN q
    BY <1>1, <1>2
  <2>2. j + 1 = k + 1
    BY <2>1 DEF Once
  <2> QED
    BY <2>2
<1>4. ASSUME NEW i \in 1 .. Len(q) - 1
      PROVE  Tail(q)[i] \in Range(q) /\ Tail(q)[i] # Head(q)
  <2>1. /\ i + 1 \in DOMAIN q /\ 1 \in DOMAIN q /\ i + 1 # 1
        /\ Tail(q)[i] = q[i + 1]
    BY <1>1, <1>2
  <2> QED
    BY <1>2, <2>1 DEF Once, Range
<1>5. Head(q) \in Range(q)
  BY <1>2 DEF Range
<1> QED
  BY <1>2, <1>3, <1>4, <1>5 DEF Range

\* LPUSH of an id that is not in the queue.
LEMMA AppendOnce ==
    ASSUME NEW q \in Seq(Runs), NEW r \in Runs, Once(q), r \notin Range(q)
    PROVE  Once(Append(q, r)) /\ Range(Append(q, r)) = Range(q) \cup {r}
<1>1. /\ Append(q, r) \in Seq(Runs) /\ Len(Append(q, r)) = Len(q) + 1
      /\ \A i \in 1 .. Len(q) : Append(q, r)[i] = q[i]
      /\ Append(q, r)[Len(q) + 1] = r
  BY AppendProperties
<1>2. DOMAIN q = 1 .. Len(q) /\ DOMAIN Append(q, r) = 1 .. Len(q) + 1 /\ Len(q) \in Nat
  BY <1>1
<1>3. \A i \in 1 .. Len(q) : q[i] # r
  BY <1>2 DEF Range
<1>4. Once(Append(q, r))
  <2> SUFFICES ASSUME NEW j \in 1 .. Len(q) + 1, NEW k \in 1 .. Len(q) + 1,
                      Append(q, r)[j] = Append(q, r)[k]
               PROVE  j = k
    BY <1>2 DEF Once
  <2>1. CASE j \in 1 .. Len(q) /\ k \in 1 .. Len(q)
    BY <1>1, <1>2, <2>1 DEF Once
  <2>2. CASE j = Len(q) + 1 \/ k = Len(q) + 1
    BY <1>1, <1>3, <2>2
  <2> QED
    BY <1>2, <2>1, <2>2
<1>5. ASSUME NEW x
      PROVE  x \in Range(Append(q, r)) <=> x \in Range(q) \cup {r}
  <2>1. x \in Range(Append(q, r)) <=> \E i \in 1 .. Len(q) + 1 : x = Append(q, r)[i]
    BY <1>2 DEF Range
  <2>2. x \in Range(q) <=> \E i \in 1 .. Len(q) : x = q[i]
    BY <1>2 DEF Range
  <2>3. \A i \in 1 .. Len(q) + 1 : i \in 1 .. Len(q) \/ i = Len(q) + 1
    BY <1>2
  <2>4. 1 .. Len(q) \subseteq 1 .. Len(q) + 1 /\ Len(q) + 1 \in 1 .. Len(q) + 1
    BY <1>2
  <2> QED
    BY <1>1, <2>1, <2>2, <2>3, <2>4
<1> QED
  BY <1>4, <1>5

-----------------------------------------------------------------------------
(* The type invariant                                                        *)

\* The initial store has its type.
LEMMA StoreTypeInit == StoreInit => StoreTypeOK
  BY StoreAssumption DEF StoreInit, StoreTypeOK, Status, Active, Terminal, SubmitStep, Days

\* The steps of a submit keep it.
LEMMA SubmitType ==
    ASSUME StoreTypeOK, NEW r \in Runs, SubmitNext(r)
    PROVE  StoreTypeOK'
<1> USE StoreAssumption DEF StoreTypeOK, Status, Active, Terminal, SubmitStep, listVars,
        hashVars, quotaVars, submitVars
<1>1. ASSUME NEW t \in Tenants, NEW d \in ReservationDays, ReserveOk(r, t, d)
      PROVE  StoreTypeOK'
  <2>1. d \in Days
    BY DEF ReservationDays
  <2>2. daily' \in [Tenants -> [Days -> Nat]]
    BY <1>1, <2>1 DEF ReserveOk
  <2> QED
    BY <1>1, <2>1, <2>2 DEF ReserveOk
<1>2. ASSUME NEW t \in Tenants, NEW d \in ReservationDays, ReserveRefused(r, t, d)
      PROVE  StoreTypeOK'
  BY <1>2 DEF ReserveRefused
<1>3. CASE StoreRun(r)
  BY <1>3 DEF StoreRun
<1>4. CASE DateRun(r)
  BY <1>4 DEF DateRun
<1>5. CASE Enqueue(r)
  BY <1>5 DEF Enqueue
<1> QED
  BY <1>1, <1>2, <1>3, <1>4, <1>5 DEF SubmitNext

\* So do the worker's methods ...
LEMMA WorkerType ==
    ASSUME StoreTypeOK, NEW r \in Runs, WorkerNext(r)
    PROVE  StoreTypeOK'
<1> USE DEF StoreTypeOK, Status, Active, Terminal, SubmitStep, listVars, hashVars,
        quotaVars, submitVars
<1>1. CASE StartOrAbort(r)
  BY <1>1 DEF StartOrAbort
<1>2. CASE SetContainerName(r)
  BY <1>2 DEF SetContainerName
<1>3. CASE DropProcessing(r)
  BY <1>3 DEF DropProcessing
<1>4. ASSUME NEW t \in Tenants, NEW end \in Terminal,
             status' = [status EXCEPT ![r] = end], Retire(r, t)
      PROVE  StoreTypeOK'
  BY <1>4 DEF Retire
<1>5. ASSUME UNCHANGED storeVars
      PROVE  StoreTypeOK'
  BY <1>5 DEF storeVars
<1>6. ASSUME NEW t \in Tenants, NEW intended \in {"completed", "failed"},
             MarkTerminal(r, t, intended)
      PROVE  StoreTypeOK'
  <2>1. (IF cancelRequested[r] THEN "canceled" ELSE intended) \in Terminal
    OBVIOUS
  <2> QED
    BY <1>4, <1>5, <1>6, <2>1 DEF MarkTerminal
<1>7. ASSUME NEW t \in Tenants, MarkCanceled(r, t)
      PROVE  StoreTypeOK'
  BY <1>4, <1>5, <1>7 DEF MarkCanceled
<1> QED
  BY <1>1, <1>2, <1>3, <1>6, <1>7 DEF WorkerNext

\* ... and the cancels.
LEMMA CancelType ==
    ASSUME StoreTypeOK, NEW r \in Runs, CancelNext(r)
    PROVE  StoreTypeOK'
<1> USE DEF StoreTypeOK, Status, Active, Terminal, SubmitStep, listVars, hashVars,
        quotaVars, submitVars
<1>1. ASSUME NEW t \in Tenants, CancelQueued(r, t)
      PROVE  StoreTypeOK'
  <2>1. CASE UNCHANGED storeVars
    BY <2>1 DEF storeVars
  <2>2. CASE /\ queue' = Lrem(queue, r)
             /\ UNCHANGED <<daily, today, submitVars, owner, cancelRequested,
                            containerName, expiring>>
             /\ processing' = processing \ {r}
             /\ running' = [running EXCEPT ![t] = @ \ {r}]
             /\ status' = [status EXCEPT ![r] = "canceled"]
    <3>1. queue' \in Seq(Runs)
      BY <2>2, LremType
    <3> QED
      BY <2>2, <3>1
  <2> QED
    BY <1>1, <2>1, <2>2 DEF CancelQueued
<1>2. ASSUME NEW t \in Tenants, CancelRunning(r, t)
      PROVE  StoreTypeOK'
  BY <1>2 DEF CancelRunning, storeVars
<1>3. ASSUME NEW t \in Tenants, Release(r, t)
      PROVE  StoreTypeOK'
  BY <1>3 DEF Release
<1> QED
  BY <1>1, <1>2, <1>3 DEF CancelNext

LEMMA StoreTypeStep == StoreTypeOK /\ [StoreNext]_storeVars => StoreTypeOK'
<1> SUFFICES ASSUME StoreTypeOK, [StoreNext]_storeVars
             PROVE  StoreTypeOK'
  OBVIOUS
<1> USE DEF listVars, hashVars, quotaVars, submitVars
<1>1. CASE ClaimNext
  BY <1>1 DEF ClaimNext, StoreTypeOK
<1>2. CASE Midnight
  BY <1>2, StoreAssumption DEF Midnight, StoreTypeOK, Days
<1>3. ASSUME NEW S \in SUBSET InFlight, Abandon(S)
      PROVE  StoreTypeOK'
  BY <1>3 DEF Abandon, StoreTypeOK, SubmitStep
<1>4. ASSUME NEW r \in Runs, ExpireRun(r)
      PROVE  StoreTypeOK'
  BY <1>4 DEF ExpireRun, StoreTypeOK, Status
<1>5. CASE UNCHANGED storeVars
  BY <1>5 DEF storeVars, StoreTypeOK
<1> QED
  BY <1>1, <1>2, <1>3, <1>4, <1>5, SubmitType, WorkerType, CancelType DEF StoreNext

\* The store keeps its type, whatever its clients do.
THEOREM StoreTypeCorrect == StoreSpec => []StoreTypeOK
  BY StoreTypeInit, StoreTypeStep, PTL DEF StoreSpec

-----------------------------------------------------------------------------
(* The quotas.  Inductive: the sets that are counted are finite, and a run    *)
(* that was not accepted counts for no tenant.                                *)

QuotaInv ==
    \A t \in Tenants :
        IsFiniteSet(running[t]) /\ Cardinality(running[t]) <= MaxConcurrent

DailyInv ==
    /\ \A r \in Runs : submit[r] = "new" => submitTenant[r] = NoTenant
    /\ \A t \in Tenants, d \in Days :
          /\ IsFiniteSet(Reservations(t, d))
          /\ daily[t][d] = Cardinality(Reservations(t, d))
          /\ daily[t][d] <= MaxDaily

\* Besides the reservation no step adds to a quota set, touches a daily counter
\* or makes a submit new again.
LEMMA OnlyReserveAdds ==
    ASSUME StoreTypeOK, StoreNext
    PROVE  \/ \E r \in Runs, t \in Tenants, d \in Days : ReserveOk(r, t, d)
           \/ /\ \A t \in Tenants : running'[t] \subseteq running[t]
              /\ UNCHANGED <<daily, submitTenant, submitDay>>
              /\ \A r \in Runs : submit'[r] = "new" => submit[r] = "new"
<1> DEFINE Goal == /\ \A t \in Tenants : running'[t] \subseteq running[t]
                   /\ UNCHANGED <<daily, submitTenant, submitDay>>
                   /\ \A r \in Runs : submit'[r] = "new" => submit[r] = "new"
<1> USE DEF listVars, hashVars, quotaVars, submitVars, StoreTypeOK
<1>1. CASE ClaimNext
  BY <1>1 DEF ClaimNext
<1>2. CASE Midnight
  BY <1>2 DEF Midnight
<1>3. ASSUME NEW S \in SUBSET InFlight, Abandon(S)
      PROVE  Goal
  BY <1>3 DEF Abandon
<1>4. ASSUME NEW r \in Runs, ExpireRun(r)
      PROVE  Goal
  BY <1>4 DEF ExpireRun
<1>5. ASSUME NEW r \in Runs, SubmitNext(r)
      PROVE  Goal \/ \E t \in Tenants, d \in Days : ReserveOk(r, t, d)
  <2>1. ASSUME NEW t \in Tenants, NEW d \in ReservationDays, ReserveOk(r, t, d)
        PROVE  \E u \in Tenants, e \in Days : ReserveOk(r, u, e)
    BY <2>1 DEF ReservationDays
  <2>2. ASSUME NEW t \in Tenants, NEW d \in ReservationDays, ReserveRefused(r, t, d)
        PROVE  Goal
    BY <2>2 DEF ReserveRefused
  <2>3. CASE StoreRun(r)
    BY <2>3 DEF StoreRun
  <2>4. CASE DateRun(r)
    BY <2>4 DEF DateRun
  <2>5. CASE Enqueue(r)
    BY <2>5 DEF Enqueue
  <2> QED
    BY <1>5, <2>1, <2>2, <2>3, <2>4, <2>5 DEF SubmitNext
<1>6. ASSUME UNCHANGED storeVars
      PROVE  Goal
  BY <1>6 DEF storeVars
<1>7. ASSUME NEW r \in Runs, NEW t \in Tenants, running' = [running EXCEPT ![t] = @ \ {r}],
             UNCHANGED <<daily, submitVars>>
      PROVE  Goal
  BY <1>7
<1>8. ASSUME NEW r \in Runs, WorkerNext(r)
      PROVE  Goal
  <2>1. CASE StartOrAbort(r) \/ SetContainerName(r) \/ DropProcessing(r)
    BY <2>1 DEF StartOrAbort, SetContainerName, DropProcessing
  <2>2. ASSUME NEW t \in Tenants, NEW intended \in {"completed", "failed"},
               MarkTerminal(r, t, intended)
        PROVE  Goal
    BY <1>6, <1>7, <2>2 DEF MarkTerminal, Retire
  <2>3. ASSUME NEW t \in Tenants, MarkCanceled(r, t)
        PROVE  Goal
    BY <1>6, <1>7, <2>3 DEF MarkCanceled, Retire
  <2> QED
    BY <1>8, <2>1, <2>2, <2>3 DEF WorkerNext
<1>9. ASSUME NEW r \in Runs, CancelNext(r)
      PROVE  Goal
  <2>1. ASSUME NEW t \in Tenants, CancelQueued(r, t)
        PROVE  Goal
    BY <1>6, <1>7, <2>1 DEF CancelQueued
  <2>2. ASSUME NEW t \in Tenants, CancelRunning(r, t)
        PROVE  Goal
    BY <1>6, <2>2 DEF CancelRunning
  <2>3. ASSUME NEW t \in Tenants, Release(r, t)
        PROVE  Goal
    BY <1>7, <2>3 DEF Release
  <2> QED
    BY <1>9, <2>1, <2>2, <2>3 DEF CancelNext
<1> QED
  BY <1>1, <1>2, <1>3, <1>4, <1>5, <1>8, <1>9 DEF StoreNext

\* A reservation keeps the tenant's set within the cap.
LEMMA ReserveQuota ==
    ASSUME StoreTypeOK, QuotaInv, NEW r \in Runs, NEW t \in Tenants, NEW d \in Days,
           ReserveOk(r, t, d)
    PROVE  QuotaInv'
<1> SUFFICES ASSUME NEW u \in Tenants
             PROVE  IsFiniteSet(running'[u]) /\ Cardinality(running'[u]) <= MaxConcurrent
  BY DEF QuotaInv
<1>1. CASE u # t
  BY <1>1 DEF ReserveOk, QuotaInv, StoreTypeOK
<1>2. CASE u = t
  <2>1. running'[u] = running[t] \cup {r}
    BY <1>2 DEF ReserveOk, StoreTypeOK
  <2>2. IsFiniteSet(running[t]) /\ Cardinality(running[t]) \in Nat
    BY FS_CardinalityType DEF QuotaInv
  <2>3. Cardinality(running[t]) < MaxConcurrent
    BY <2>2, StoreAssumption DEF ReserveOk, OverConcurrent
  <2>4. /\ IsFiniteSet(running[t] \cup {r})
        /\ Cardinality(running[t] \cup {r}) \in
              {Cardinality(running[t]), Cardinality(running[t]) + 1}
    BY <2>2, FS_AddElement
  <2> QED
    BY <2>1, <2>2, <2>3, <2>4, StoreAssumption
<1> QED
  BY <1>1, <1>2

LEMMA QuotaStep == StoreTypeOK /\ QuotaInv /\ [StoreNext]_storeVars => QuotaInv'
<1> SUFFICES ASSUME StoreTypeOK, QuotaInv, [StoreNext]_storeVars
             PROVE  QuotaInv'
  OBVIOUS
<1>1. ASSUME \A t \in Tenants : running'[t] \subseteq running[t]
      PROVE  QuotaInv'
  <2> SUFFICES ASSUME NEW t \in Tenants
               PROVE  IsFiniteSet(running'[t]) /\ Cardinality(running'[t]) <= MaxConcurrent
    BY DEF QuotaInv
  <2>1. /\ IsFiniteSet(running'[t])
        /\ Cardinality(running'[t]) <= Cardinality(running[t])
    BY <1>1, FS_Subset DEF QuotaInv
  <2>2. Cardinality(running'[t]) \in Nat /\ Cardinality(running[t]) \in Nat
    BY <2>1, FS_CardinalityType DEF QuotaInv
  <2> QED
    BY <2>1, <2>2, StoreAssumption DEF QuotaInv
<1>2. CASE UNCHANGED storeVars
  BY <1>1, <1>2 DEF storeVars, quotaVars
<1> QED
  BY <1>1, <1>2, OnlyReserveAdds, ReserveQuota

LEMMA QuotaInvHolds == StoreSpec => []QuotaInv
<1>1. StoreInit => QuotaInv
  BY FS_EmptySet, StoreAssumption DEF StoreInit, QuotaInv
<1> QED
  BY <1>1, QuotaStep, StoreTypeCorrect, PTL DEF StoreSpec

\* No tenant ever holds more slots than its cap, whatever the clients do.
THEOREM QuotaHolds == StoreSpec => []QuotaCap
<1>1. QuotaInv => QuotaCap
  BY DEF QuotaInv, QuotaCap
<1> QED
  BY <1>1, QuotaInvHolds, PTL

\* An accepted submit adds its run to one day's reservations, and counts once.
LEMMA ReserveDaily ==
    ASSUME StoreTypeOK, DailyInv, NEW r \in Runs, NEW t \in Tenants, NEW d \in Days,
           ReserveOk(r, t, d)
    PROVE  DailyInv'
<1>1. \A s \in Runs : submit'[s] = "new" => submitTenant'[s] = NoTenant
  BY DEF ReserveOk, StoreTypeOK, DailyInv
<1>2. ASSUME NEW u \in Tenants, NEW e \in Days
      PROVE  /\ IsFiniteSet(Reservations(u, e)')
             /\ daily'[u][e] = Cardinality(Reservations(u, e)')
             /\ daily'[u][e] <= MaxDaily
  <2>1. submitTenant[r] = NoTenant /\ NoTenant \notin Tenants
    BY StoreAssumption DEF ReserveOk, DailyInv
  <2>2. /\ IsFiniteSet(Reservations(u, e))
        /\ daily[u][e] = Cardinality(Reservations(u, e))
        /\ daily[u][e] <= MaxDaily
    BY DEF DailyInv
  <2>3. CASE u = t /\ e = d
    <3>1. Reservations(u, e)' = Reservations(u, e) \cup {r}
      BY <2>1, <2>3 DEF ReserveOk, Reservations, StoreTypeOK
    <3>2. r \notin Reservations(u, e)
      BY <2>1 DEF Reservations
    <3>3. /\ IsFiniteSet(Reservations(u, e) \cup {r})
          /\ Cardinality(Reservations(u, e) \cup {r}) = Cardinality(Reservations(u, e)) + 1
      BY <2>2, <3>2, FS_AddElement
    <3>4. daily'[u][e] = daily[u][e] + 1
      BY <2>3 DEF ReserveOk, StoreTypeOK
    <3>5. daily[u][e] + 1 <= MaxDaily
      BY <2>3, StoreAssumption DEF ReserveOk, OverDaily, StoreTypeOK
    <3> QED
      BY <2>2, <3>1, <3>3, <3>4, <3>5
  <2>4. CASE ~(u = t /\ e = d)
    <3>1. Reservations(u, e)' = Reservations(u, e)
      BY <2>1, <2>4 DEF ReserveOk, Reservations, StoreTypeOK
    <3>2. daily'[u][e] = daily[u][e]
      BY <2>4 DEF ReserveOk, StoreTypeOK
    <3> QED
      BY <2>2, <3>1, <3>2
  <2> QED
    BY <2>3, <2>4
<1> QED
  BY <1>1, <1>2 DEF DailyInv

LEMMA DailyStep == StoreTypeOK /\ DailyInv /\ [StoreNext]_storeVars => DailyInv'
<1> SUFFICES ASSUME StoreTypeOK, DailyInv, [StoreNext]_storeVars
             PROVE  DailyInv'
  OBVIOUS
<1>1. ASSUME UNCHANGED <<daily, submitTenant, submitDay>>,
             \A r \in Runs : submit'[r] = "new" => submit[r] = "new"
      PROVE  DailyInv'
  <2>1. \A t \in Tenants, d \in Days : Reservations(t, d)' = Reservations(t, d)
    BY <1>1 DEF Reservations
  <2> QED
    BY <1>1, <2>1 DEF DailyInv
<1>2. CASE UNCHANGED storeVars
  BY <1>1, <1>2 DEF storeVars, quotaVars, submitVars
<1> QED
  BY <1>1, <1>2, OnlyReserveAdds, ReserveDaily

LEMMA DailyInvHolds == StoreSpec => []DailyInv
<1>1. StoreInit => DailyInv
  <2> SUFFICES ASSUME StoreInit
               PROVE  DailyInv
    OBVIOUS
  <2>1. \A t \in Tenants, d \in Days : Reservations(t, d) = {}
    BY StoreAssumption DEF StoreInit, Reservations
  <2>2. \A t \in Tenants, d \in Days : daily[t][d] = 0
    BY DEF StoreInit
  <2>3. \A r \in Runs : submitTenant[r] = NoTenant
    BY DEF StoreInit
  <2>4. 0 <= MaxDaily
    BY StoreAssumption
  <2> QED
    BY <2>1, <2>2, <2>3, <2>4, FS_EmptySet DEF DailyInv
<1> QED
  BY <1>1, DailyStep, StoreTypeCorrect, PTL DEF StoreSpec

\* The daily counter counts the accepted submits of its day, each once, and no
\* cancel, failure or crash gives one back.
THEOREM DailyHolds == StoreSpec => []DailyExact
<1>1. DailyInv => DailyExact
  BY DEF DailyInv, DailyExact
<1> QED
  BY <1>1, DailyInvHolds, PTL

-----------------------------------------------------------------------------
(* Cancels win, and a cancel is final                                        *)

\* The statuses a step may write over a terminal one, and the cancel flag.
LEMMA StatusStep ==
    ASSUME StoreTypeOK, StoreNext, NEW r \in Runs
    PROVE  /\ status[r] = "canceled" =>
                 status'[r] \in {"canceled", "absent"} \/ submit[r] = "reserved"
           /\ \/ status'[r] = status[r] /\ cancelRequested'[r] = cancelRequested[r]
              \/ status'[r] \notin Terminal
              \/ status'[r] = "canceled"
              \/ ~cancelRequested'[r]
<1> DEFINE Goal(s) ==
      /\ status[s] = "canceled" =>
            status'[s] \in {"canceled", "absent"} \/ submit[s] = "reserved"
      /\ \/ status'[s] = status[s] /\ cancelRequested'[s] = cancelRequested[s]
         \/ status'[s] \notin Terminal
         \/ status'[s] = "canceled"
         \/ ~cancelRequested'[s]
<1> USE DEF listVars, hashVars, quotaVars, submitVars, StoreTypeOK, Terminal
<1>1. ASSUME UNCHANGED <<status, cancelRequested>>
      PROVE  Goal(r)
  BY <1>1
<1>2. ASSUME NEW s \in Runs, SubmitNext(s)
      PROVE  Goal(r)
  <2>1. CASE StoreRun(s)
    BY <2>1 DEF StoreRun
  <2> QED
    BY <1>1, <1>2, <2>1 DEF SubmitNext, ReserveOk, ReserveRefused, DateRun, Enqueue
<1>3. ASSUME NEW s \in Runs, WorkerNext(s)
      PROVE  Goal(r)
  <2>1. CASE StartOrAbort(s)
    BY <2>1 DEF StartOrAbort
  <2>2. CASE SetContainerName(s)
    BY <2>2 DEF SetContainerName
  <2>3. CASE DropProcessing(s)
    BY <2>3 DEF DropProcessing
  <2>4. ASSUME NEW t \in Tenants, NEW intended \in {"completed", "failed"},
               MarkTerminal(s, t, intended)
        PROVE  Goal(r)
    BY <2>4 DEF MarkTerminal, Retire, storeVars
  <2>5. ASSUME NEW t \in Tenants, MarkCanceled(s, t)
        PROVE  Goal(r)
    BY <2>5 DEF MarkCanceled, Retire, storeVars
  <2> QED
    BY <1>3, <2>1, <2>2, <2>3, <2>4, <2>5 DEF WorkerNext
<1>4. ASSUME NEW s \in Runs, CancelNext(s)
      PROVE  Goal(r)
  <2>1. ASSUME NEW t \in Tenants, CancelQueued(s, t)
        PROVE  Goal(r)
    BY <2>1 DEF CancelQueued, storeVars
  <2>2. ASSUME NEW t \in Tenants, CancelRunning(s, t)
        PROVE  Goal(r)
    <3>1. CASE UNCHANGED storeVars
      BY <1>1, <3>1 DEF storeVars
    <3>2. CASE /\ CancelCode(s, t, "running") = 0
               /\ cancelRequested' = [cancelRequested EXCEPT ![s] = TRUE]
               /\ UNCHANGED status
      <4>1. status[s] = "running"
        BY <3>2 DEF CancelCode
      <4> QED
        BY <3>2, <4>1
    <3> QED
      BY <2>2, <3>1, <3>2 DEF CancelRunning
  <2>3. ASSUME NEW t \in Tenants, Release(s, t)
        PROVE  Goal(r)
    BY <2>3 DEF Release
  <2> QED
    BY <1>4, <2>1, <2>2, <2>3 DEF CancelNext
<1>5. ASSUME NEW s \in Runs, ExpireRun(s)
      PROVE  Goal(r)
  BY <1>5 DEF ExpireRun
<1> QED
  BY <1>1, <1>2, <1>3, <1>4, <1>5 DEF StoreNext, ClaimNext, Midnight, Abandon

\* A run has no hash before its submit stores one, and keeps none if refused.
Unstored == \A r \in Runs : submit[r] \in {"new", "reserved", "refused"} =>
                               status[r] = "absent"

LEMMA UnstoredStep ==
    ASSUME StoreTypeOK, Unstored, [StoreNext]_storeVars
    PROVE  Unstored'
<1> USE DEF Unstored, listVars, hashVars, quotaVars, submitVars, StoreTypeOK
<1>1. ASSUME UNCHANGED <<status, submit>>
      PROVE  Unstored'
  BY <1>1
<1>2. ASSUME NEW S \in SUBSET InFlight, Abandon(S)
      PROVE  Unstored'
  BY <1>2 DEF Abandon
<1>3. ASSUME NEW r \in Runs, SubmitNext(r)
      PROVE  Unstored'
  BY <1>3 DEF SubmitNext, ReserveOk, ReserveRefused, StoreRun, DateRun, Enqueue
<1>4. ASSUME NEW r \in Runs, submit[r] \notin {"new", "reserved", "refused"},
             UNCHANGED submit, NEW v, status' = [status EXCEPT ![r] = v]
      PROVE  Unstored'
  BY <1>4
<1>5. ASSUME NEW r \in Runs, WorkerNext(r)
      PROVE  Unstored'
  <2>1. submit[r] = "enqueued"
    BY <1>5 DEF WorkerNext
  <2>2. CASE StartOrAbort(r) \/ SetContainerName(r) \/ DropProcessing(r)
    BY <1>1, <1>4, <2>1, <2>2 DEF StartOrAbort, SetContainerName, DropProcessing
  <2>3. ASSUME NEW t \in Tenants, NEW intended \in {"completed", "failed"},
               MarkTerminal(r, t, intended) \/ MarkCanceled(r, t)
        PROVE  Unstored'
    BY <1>1, <1>4, <2>1, <2>3 DEF MarkTerminal, MarkCanceled, Retire, storeVars
  <2> QED
    BY <1>5, <2>2, <2>3 DEF WorkerNext
<1>6. ASSUME NEW r \in Runs, CancelNext(r)
      PROVE  Unstored'
  <2>1. ASSUME NEW t \in Tenants, CancelQueued(r, t)
        PROVE  Unstored'
    <3>1. CASE UNCHANGED storeVars
      BY <1>1, <3>1 DEF storeVars
    <3>2. CASE /\ CancelCode(r, t, "queued") = 0
               /\ status' = [status EXCEPT ![r] = "canceled"]
               /\ UNCHANGED submitVars
      <4>1. status[r] # "absent"
        BY <3>2 DEF CancelCode
      <4> QED
        BY <1>4, <3>2, <4>1
    <3> QED
      BY <2>1, <3>1, <3>2 DEF CancelQueued
  <2> QED
    BY <1>1, <1>6, <2>1 DEF CancelNext, CancelRunning, Release, storeVars
<1>7. ASSUME NEW r \in Runs, ExpireRun(r)
      PROVE  Unstored'
  BY <1>7 DEF ExpireRun
<1> QED
  BY <1>1, <1>2, <1>3, <1>5, <1>6, <1>7 DEF StoreNext, ClaimNext, Midnight, storeVars

LEMMA UnstoredHolds == StoreSpec => []Unstored
<1>1. StoreInit => Unstored
  BY DEF StoreInit, Unstored
<1> QED
  BY <1>1, UnstoredStep, StoreTypeCorrect, PTL DEF StoreSpec

\* Whichever terminal write comes first, a run canceled while it ran ends
\* canceled.
THEOREM CancelWinsHolds == StoreSpec => []CancelWins
<1>1. StoreInit => CancelWins
  BY DEF StoreInit, CancelWins
<1>2. StoreTypeOK /\ CancelWins /\ [StoreNext]_storeVars => CancelWins'
  <2> SUFFICES ASSUME StoreTypeOK, CancelWins, [StoreNext]_storeVars
               PROVE  CancelWins'
    OBVIOUS
  <2>1. CASE StoreNext
    BY <2>1, StatusStep DEF CancelWins
  <2>2. CASE UNCHANGED storeVars
    BY <2>2 DEF CancelWins, storeVars, hashVars
  <2> QED
    BY <2>1, <2>2
<1> QED
  BY <1>1, <1>2, StoreTypeCorrect, PTL DEF StoreSpec

\* No worker, mark or recovery takes a canceled run back.
THEOREM CanceledStickyHolds == StoreSpec => CanceledSticky
<1>1. StoreTypeOK /\ Unstored /\ [StoreNext]_storeVars =>
         [\A r \in Runs :
             status[r] = "canceled" => status'[r] \in {"canceled", "absent"}]_storeVars
  <2> SUFFICES ASSUME StoreTypeOK, Unstored, StoreNext, NEW r \in Runs,
                      status[r] = "canceled"
               PROVE  status'[r] \in {"canceled", "absent"}
    OBVIOUS
  <2>1. submit[r] # "reserved"
    BY DEF Unstored
  <2> QED
    BY <2>1, StatusStep
<1> QED
  BY <1>1, StoreTypeCorrect, UnstoredHolds, PTL DEF StoreSpec, CanceledSticky

-----------------------------------------------------------------------------
(* A run is handed out once                                                  *)

LEMMA HandedOutStep ==
    ASSUME StoreTypeOK, HandedOutOnce, [StoreNext]_storeVars
    PROVE  HandedOutOnce'
<1> USE DEF HandedOutOnce, listVars, hashVars, quotaVars, submitVars, StoreTypeOK
<1>1. ASSUME processing' \subseteq processing, UNCHANGED queue,
             \A r \in Runs : submit[r] = "enqueued" => submit'[r] = "enqueued"
      PROVE  HandedOutOnce'
  <2>1. Range(queue) \subseteq Runs
    BY DEF Range
  <2> QED
    BY <1>1, <2>1
<1>2. CASE ClaimNext
  <2>1. Once(queue)
    BY DEF Once
  <2>2. /\ Once(queue') /\ Range(queue') \subseteq Range(queue)
        /\ Head(queue) \in Range(queue) \ Range(queue')
    BY <1>2, <2>1, TailOnce DEF ClaimNext
  <2> QED
    BY <1>2, <2>2 DEF ClaimNext, Once
<1>3. ASSUME NEW S \in SUBSET InFlight, Abandon(S)
      PROVE  HandedOutOnce'
  BY <1>1, <1>3 DEF Abandon, InFlight
<1>4. ASSUME NEW r \in Runs, SubmitNext(r)
      PROVE  HandedOutOnce'
  <2>1. CASE Enqueue(r)
    <3>1. submit[r] = "dated" /\ r \notin Range(queue) \cup processing
      BY <2>1 DEF Enqueue
    <3>2. Once(queue') /\ Range(queue') = Range(queue) \cup {r}
      BY <2>1, <3>1, AppendOnce DEF Enqueue, Once
    <3>3. UNCHANGED processing /\ submit' = [submit EXCEPT ![r] = "enqueued"]
      BY <2>1 DEF Enqueue
    <3>4. Range(queue) \subseteq Runs
      BY DEF Range
    <3> QED
      BY <3>1, <3>2, <3>3, <3>4 DEF Once
  <2> QED
    BY <1>1, <1>4, <2>1 DEF SubmitNext, ReserveOk, ReserveRefused, StoreRun, DateRun
<1>5. ASSUME NEW r \in Runs, WorkerNext(r)
      PROVE  HandedOutOnce'
  BY <1>1, <1>5 DEF WorkerNext, StartOrAbort, SetContainerName, DropProcessing,
                    MarkTerminal, MarkCanceled, Retire, storeVars
<1>6. ASSUME NEW r \in Runs, CancelNext(r)
      PROVE  HandedOutOnce'
  <2>1. ASSUME NEW t \in Tenants, CancelQueued(r, t)
        PROVE  HandedOutOnce'
    <3>1. CASE UNCHANGED storeVars
      BY <1>1, <3>1 DEF storeVars
    <3>2. CASE /\ queue' = Lrem(queue, r)
               /\ processing' = processing \ {r}
               /\ UNCHANGED submitVars
      <4>1. Once(queue') /\ Range(queue') \subseteq Range(queue)
        BY <3>2, LremOnce DEF Once
      <4> QED
        BY <3>2, <4>1 DEF Once
    <3> QED
      BY <2>1, <3>1, <3>2 DEF CancelQueued
  <2> QED
    BY <1>1, <1>6, <2>1 DEF CancelNext, CancelRunning, Release, storeVars
<1> QED
  BY <1>1, <1>2, <1>3, <1>4, <1>5, <1>6 DEF StoreNext, Midnight, ExpireRun, storeVars

\* No run is handed to two workers, or to one twice, by the store.
THEOREM HandedOutOnceHolds == StoreSpec => []HandedOutOnce
<1>1. StoreInit => HandedOutOnce
  BY DEF StoreInit, HandedOutOnce, Range
<1> QED
  BY <1>1, HandedOutStep, StoreTypeCorrect, PTL DEF StoreSpec

=============================================================================
