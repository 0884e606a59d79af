-------------------------- MODULE OneRunnerProofs --------------------------
(***************************************************************************)
(* Theorems about a service of one replica (Runner with a single p), for   *)
(* any number of runs, tenants, cancel requests, crashes and faults: the   *)
(* slots match the active runs, no run is lost, a running one has a        *)
(* worker, an end is final, nothing is launched after it and, seen from    *)
(* its callers, the service is RunLifecycle.                               *)
(*                                                                         *)
(* The invariant is a predicate Good of each run.  A command to the store  *)
(* is about one run, and so is the work of the worker and of the recovery: *)
(* every other run sees no change (SameRun, SameHold) and stays Good       *)
(* (SameGood).                                                             *)
(***************************************************************************)
EXTENDS RunnerProofs

Single == \E p : Replicas = {p}

-----------------------------------------------------------------------------
(* The invariant                                                             *)

\* Statuses of a run that no worker has started.
Unstarted == {"absent", "queued", "canceled"}

\* The recovery of p has r in hand and sends a command to the store next.
Recovers(p, r) == orphan[p].run = r /\ orphan[p].step \in {"drop", "fail", "cancel"}

Untaken(r) ==
    \A p \in Replicas : wrun[p] # r /\ r \notin todo[p] /\ ~Recovers(p, r)

\* No worker without a run holds one, and only a recovery has orphans.
IdleInv ==
    \A p \in Replicas :
        /\ pc[p] \in {"off", "idle"} => wrun[p] = NoRun
        /\ life[p] # "recovering" => todo[p] = {} /\ orphan[p].step = "none"

\* Until a worker starts a run nobody has it, and it is queued or over by a cancel.
Fresh(r) ==
    /\ submit[r] # "enqueued" => status[r] \in Unstarted
    /\ r \in Range(queue) => status[r] \in Unstarted /\ Untaken(r)
    /\ \A p \in Replicas :
          wrun[p] = r /\ pc[p] \in {"claimed", "read"} => status[r] \in Unstarted

\* The hash is there from its HSET on and names the tenant of the submit.
Hashed(r) ==
    /\ status[r] # "none"
    /\ status[r] = "absent" => submit[r] \in {"new", "refused", "reserved", "abandoned"}
    /\ status[r] # "absent" => owner[r] = submitTenant[r] /\ owner[r] \in Tenants

\* The slot is the submit's, from the reservation to the end of the run; one
\* cut short before its HSET keeps it.
Slotted(r) ==
    /\ submit[r] \in {"new", "refused"} => submitTenant[r] = NoTenant
    /\ \A t \in Tenants : r \in running[t] => submitTenant[r] = t
    /\ status[r] = "absent" /\ submit[r] \in {"reserved", "abandoned"} =>
          submitTenant[r] \in Tenants /\ r \in running[submitTenant[r]]
    /\ status[r] # "absent" => (r \in running[owner[r]] <=> status[r] \in Active)

Listed(r) ==
    submit[r] = "enqueued" /\ status[r] \in Active => r \in Range(queue) \cup processing

\* What the worker and the recovery of p know of the run they have.
Staged(p, r) ==
    /\ wrun[p] = r =>
          /\ pc[p] \in {"started", "named", "running", "hung", "killed"} =>
                status[r] = "running"
          /\ pc[p] = "failing" => status[r] \in {"running"} \cup Terminal
          /\ pc[p] = "closing" => status[r] \in Terminal
          /\ pc[p] \notin {"claimed", "dead"} => wtenant[p] = owner[r]
    /\ Recovers(p, r) => orphan[p].step # "drop" /\ orphan[p].tenant = owner[r]

\* A run that was started is in the worker's hands, or the recovery will find it.
Found(p, r) ==
    status[r] = "running" =>
        /\ Serving(p) => wrun[p] = r
        /\ life[p] = "recovering" => r \in todo[p] \/ Recovers(p, r)

Good(r) ==
    /\ Fresh(r)
    /\ r \notin Expirable =>
          /\ Hashed(r) /\ Slotted(r) /\ Listed(r)
          /\ \A p \in Replicas : Staged(p, r) /\ Found(p, r)

OneInv == IdleInv /\ \A r \in Runs : Good(r)

-----------------------------------------------------------------------------
(* What is the same for a run that a step is not about                       *)

SameRun(r) ==
    /\ status'[r] = status[r] /\ owner'[r] = owner[r]
    /\ submit'[r] = submit[r] /\ submitTenant'[r] = submitTenant[r]
    /\ r \in Range(queue') <=> r \in Range(queue)
    /\ r \in processing' <=> r \in processing
    /\ \A t \in Tenants : r \in running'[t] <=> r \in running[t]

SameHold(r) ==
    \A p \in Replicas :
        /\ life'[p] = life[p]
        /\ r \in todo'[p] <=> r \in todo[p]
        /\ Recovers(p, r)' <=> Recovers(p, r)
        /\ Recovers(p, r) => orphan'[p] = orphan[p]
        /\ wrun'[p] = r <=> wrun[p] = r
        /\ wrun[p] = r => pc'[p] = pc[p] /\ wtenant'[p] = wtenant[p]

LEMMA SameGood ==
    ASSUME NEW r \in Runs, Good(r), SameRun(r), SameHold(r)
    PROVE  Good(r)'
  <1> USE DEF SameRun, SameHold
  <1>1. Fresh(r)'
    BY DEF Good, Fresh, Untaken
  <1>2. ASSUME r \notin Expirable
        PROVE  Hashed(r)' /\ Slotted(r)' /\ Listed(r)'
    <2>1. Hashed(r)'
      BY <1>2 DEF Good, Hashed
    <2>2. Slotted(r)'
      BY <1>2 DEF Good, Slotted, Hashed
    <2>3. Listed(r)'
      BY <1>2 DEF Good, Listed
    <2> QED
      BY <2>1, <2>2, <2>3
  <1>3. ASSUME r \notin Expirable, NEW p \in Replicas
        PROVE  Staged(p, r)' /\ Found(p, r)'
    <2>1. Staged(p, r)'
      BY <1>3 DEF Good, Staged
    <2>2. Found(p, r)'
      BY <1>3 DEF Good, Found, Serving
    <2> QED
      BY <2>1, <2>2
  <1> QED
    BY <1>1, <1>2, <1>3 DEF Good


-----------------------------------------------------------------------------
(* A command to the store is about one run                                   *)

\* LREM takes no other id from the queue.
LEMMA LremKeeps ==
    ASSUME NEW q \in Seq(Runs), NEW x \in Runs, NEW r \in Runs, r # x
    PROVE  r \in Range(Lrem(q, x)) <=> r \in Range(q)
  <1>1. CASE x \notin Range(q)
    BY <1>1 DEF Lrem
  <1>2. CASE x \in Range(q)
    <2>1. PICK i \in 1 .. Len(q) :
             /\ q[i] = x
             /\ Lrem(q, x) \in Seq(Runs)
             /\ Len(Lrem(q, x)) = Len(q) - 1
             /\ \A k \in 1 .. Len(q) - 1 :
                   Lrem(q, x)[k] = IF k < i THEN q[k] ELSE q[k + 1]
      BY <1>2, LremElements
    <2> DEFINE z == Lrem(q, x)
    <2> HIDE DEF z
    <2>2. /\ DOMAIN q = 1 .. Len(q) /\ DOMAIN z = 1 .. Len(q) - 1 /\ Len(q) \in Nat
          /\ \A k \in 1 .. Len(q) - 1 : z[k] = IF k < i THEN q[k] ELSE q[k + 1]
      BY <2>1 DEF z
    <2>3. ASSUME NEW j \in 1 .. Len(q), q[j] = r
          PROVE  \E k \in 1 .. Len(q) - 1 : z[k] = r
      <3>1. CASE j < i
        BY <2>2, <2>3, <3>1
      <3>2. CASE j > i
        <4>1. j - 1 \in 1 .. Len(q) - 1 /\ ~(j - 1 < i) /\ (j - 1) + 1 = j
          BY <2>2, <3>2
        <4> QED
          BY <2>2, <2>3, <4>1
      <3> QED
        BY <2>1, <2>3, <3>1, <3>2
    <2>4. ASSUME NEW k \in 1 .. Len(q) - 1, z[k] = r
          PROVE  \E j \in 1 .. Len(q) : q[j] = r
      BY <2>2, <2>4
    <2>5. r \in Range(z) <=> r \in Range(q)
      BY <2>2, <2>3, <2>4 DEF Range
    <2> QED
      BY <2>5 DEF z
  <1> QED
    BY <1>1, <1>2

\* BRPOPLPUSH takes the head and no other id.
LEMMA TailKeeps ==
    ASSUME NEW q \in Seq(Runs), q # <<>>, NEW r \in Runs, r # Head(q)
    PROVE  r \in Range(Tail(q)) <=> r \in Range(q)
  <1>1. /\ Tail(q) \in Seq(Runs) /\ Len(Tail(q)) = Len(q) - 1
        /\ \A i \in 1 .. Len(q) - 1 : Tail(q)[i] = q[i + 1]
    BY HeadTailProperties
  <1>2. /\ DOMAIN q = 1 .. Len(q) /\ DOMAIN Tail(q) = 1 .. Len(q) - 1
        /\ Len(q) \in Nat \ {0} /\ Head(q) = q[1]
    BY <1>1
  <1>3. ASSUME NEW j \in 1 .. Len(q), q[j] = r
        PROVE  \E k \in 1 .. Len(q) - 1 : Tail(q)[k] = r
    <2>1. j # 1
      BY <1>2, <1>3
    <2>2. j - 1 \in 1 .. Len(q) - 1 /\ (j - 1) + 1 = j
      BY <1>2, <2>1
    <2> QED
      BY <1>1, <1>3, <2>2
  <1>4. ASSUME NEW k \in 1 .. Len(q) - 1, Tail(q)[k] = r
        PROVE  \E j \in 1 .. Len(q) : q[j] = r
    BY <1>1, <1>2, <1>4
  <1> QED
    BY <1>2, <1>3, <1>4 DEF Range

LEMMA ClaimFrame ==
    ASSUME StoreTypeOK, ClaimNext, NEW r \in Runs, r # Head(queue)
    PROVE  SameRun(r)
  BY TailKeeps DEF ClaimNext, SameRun, StoreTypeOK, hashVars, quotaVars, submitVars

LEMMA SlotFrame ==
    ASSUME StoreTypeOK, NEW x \in Runs, NEW t \in Tenants,
           \/ running' = running
           \/ running' = [running EXCEPT ![t] = @ \cup {x}]
           \/ running' = [running EXCEPT ![t] = @ \ {x}],
           NEW r \in Runs, r # x
    PROVE  \A u \in Tenants : r \in running'[u] <=> r \in running[u]
  <1> SUFFICES ASSUME NEW u \in Tenants
               PROVE  r \in running'[u] <=> r \in running[u]
    OBVIOUS
  <1>1. running \in [Tenants -> SUBSET Runs]
    BY DEF StoreTypeOK
  <1>2. CASE u = t
    BY <1>1, <1>2
  <1>3. CASE u # t
    BY <1>1, <1>3
  <1> QED
    BY <1>2, <1>3

LEMMA SubmitFrame ==
    ASSUME StoreTypeOK, NEW x \in Runs, SubmitNext(x), NEW r \in Runs, r # x
    PROVE  SameRun(r)
  <1> USE DEF SameRun, StoreTypeOK, listVars, hashVars, quotaVars, submitVars
  <1>1. ASSUME NEW t \in Tenants, NEW d \in ReservationDays,
               ReserveOk(x, t, d) \/ ReserveRefused(x, t, d)
        PROVE  SameRun(r)
    <2>1. \A u \in Tenants : r \in running'[u] <=> r \in running[u]
      <3>1. running' = running \/ running' = [running EXCEPT ![t] = @ \cup {x}]
        BY <1>1 DEF ReserveOk, ReserveRefused
      <3> QED
        BY <3>1, SlotFrame
    <2> QED
      BY <1>1, <2>1 DEF ReserveOk, ReserveRefused
  <1>2. CASE StoreRun(x) \/ DateRun(x)
    BY <1>2 DEF StoreRun, DateRun
  <1>3. CASE Enqueue(x)
    <2>1. r \in Range(Append(queue, x)) <=> r \in Range(queue)
      <3>1. /\ DOMAIN queue = 1 .. Len(queue) /\ Len(queue) \in Nat
            /\ DOMAIN Append(queue, x) = 1 .. Len(queue) + 1
            /\ \A i \in 1 .. Len(queue) : Append(queue, x)[i] = queue[i]
            /\ Append(queue, x)[Len(queue) + 1] = x
        OBVIOUS
      <3> QED
        BY <3>1 DEF Range
    <2> QED
      BY <1>3, <2>1 DEF Enqueue
  <1> QED
    BY <1>1, <1>2, <1>3 DEF SubmitNext

LEMMA MarkFrame ==
    ASSUME StoreTypeOK, NEW x \in Runs, NEW t \in Tenants,
           MarkCompleted(x, t) \/ MarkFailed(x, t) \/ MarkCanceled(x, t),
           NEW r \in Runs, r # x
    PROVE  SameRun(r)
  <1> USE DEF SameRun, storeVars, listVars, hashVars, quotaVars, submitVars
  <1>1. CASE UNCHANGED storeVars
    BY <1>1
  <1>2. ASSUME NEW end, status' = [status EXCEPT ![x] = end], Retire(x, t)
        PROVE  SameRun(r)
    <2>1. \A u \in Tenants : r \in running'[u] <=> r \in running[u]
      BY <1>2, SlotFrame DEF Retire
    <2> QED
      BY <1>2, <2>1 DEF Retire, StoreTypeOK
  <1> QED
    BY <1>1, <1>2 DEF MarkCompleted, MarkFailed, MarkTerminal, MarkCanceled

LEMMA RunFrame ==
    ASSUME StoreTypeOK, NEW x \in Runs,
           StartOrAbort(x) \/ SetContainerName(x) \/ DropProcessing(x) \/ ExpireRun(x),
           NEW r \in Runs, r # x
    PROVE  SameRun(r)
  BY DEF StartOrAbort, SetContainerName, DropProcessing, ExpireRun, SameRun, StoreTypeOK,
         listVars, hashVars, quotaVars, submitVars

LEMMA CancelFrame ==
    ASSUME StoreTypeOK, NEW x \in Runs, NEW t \in Tenants,
           CancelQueued(x, t) \/ CancelRunning(x, t), NEW r \in Runs, r # x
    PROVE  SameRun(r)
  <1> USE DEF SameRun, StoreTypeOK, storeVars, listVars, hashVars, quotaVars, submitVars
  <1>1. CASE UNCHANGED storeVars \/ CancelRunning(x, t)
    BY <1>1 DEF CancelRunning
  <1>2. CASE CancelQueued(x, t) /\ ~UNCHANGED storeVars
    <2>1. \A u \in Tenants : r \in running'[u] <=> r \in running[u]
      BY <1>2, SlotFrame DEF CancelQueued
    <2>2. r \in Range(queue') <=> r \in Range(queue)
      BY <1>2, LremKeeps DEF CancelQueued
    <2> QED
      BY <1>2, <2>1, <2>2 DEF CancelQueued
  <1> QED
    BY <1>1, <1>2


-----------------------------------------------------------------------------
(* Submits, cancels and the clock, while nobody's work moves                 *)

HoldVars == <<life, todo, orphan, pc, wrun, wtenant>>

LEMMA HoldSame ==
    ASSUME UNCHANGED HoldVars, NEW r
    PROVE  SameHold(r)
  BY DEF HoldVars, SameHold, Recovers

\* Nobody learns of a run before it is enqueued.
LEMMA Untouched ==
    ASSUME ServiceOK, IdleInv, NEW r \in Runs, submit[r] # "enqueued"
    PROVE  Untaken(r)
  BY StoreAssumption, RunnerAssumption
     DEF ServiceOK, StartOK, WorkerOK, IdleInv, Untaken, Recovers, Enqueued

\* An id that is not enqueued is on neither list.
LEMMA NotListed ==
    ASSUME StoreInv, NEW r \in Runs, submit[r] # "enqueued"
    PROVE  r \notin Range(queue) \cup processing
  BY DEF StoreInv, HandedOutOnce

LEMMA SubmitGood ==
    ASSUME StoreInv, ServiceOK, IdleInv, NEW x \in Runs, SubmitNext(x), UNCHANGED HoldVars,
           NEW r \in Runs, Good(r)
    PROVE  Good(r)'
  <1>a. StoreTypeOK
    BY DEF StoreInv
  <1>1. CASE r # x
    BY <1>1, <1>a, SubmitFrame, HoldSame, SameGood
  <1>2. CASE r = x
    <2> USE DEF listVars, hashVars, quotaVars, submitVars
    <2>a. submit[r] # "enqueued"
      BY <1>2 DEF SubmitNext, ReserveOk, ReserveRefused, StoreRun, DateRun, Enqueue
    <2>b. Untaken(r)
      BY <2>a, Untouched
    <2>c. Untaken(r)'
      BY <2>b DEF Untaken, Recovers, HoldVars
    <2>d. r \notin Range(queue) /\ r \notin processing
      BY <2>a, NotListed
    <2>e. status[r] \in Unstarted
      BY <2>a DEF Good, Fresh
    <2>f. submit[r] \in {"new", "reserved", "refused"} => status[r] = "absent"
      BY DEF StoreInv, Unstored
    <2>1. Fresh(r)'
      <3>1. status'[r] \in Unstarted
        BY <1>2, <1>a, <2>e
           DEF SubmitNext, ReserveOk, ReserveRefused, StoreRun, DateRun, Enqueue, StoreTypeOK,
               Unstarted
      <3> QED
        BY <3>1, <2>c DEF Fresh, Unstarted
    <2>2. ASSUME r \notin Expirable
          PROVE  Hashed(r)' /\ Slotted(r)' /\ Listed(r)'
      <3>a. Hashed(r) /\ Slotted(r) /\ Listed(r)
        BY <2>2 DEF Good
      <3>1. ASSUME NEW t \in Tenants, NEW d \in ReservationDays, ReserveOk(x, t, d)
            PROVE  Hashed(r)' /\ Slotted(r)' /\ Listed(r)'
        <4>1. /\ submit[r] = "new" /\ submit'[r] = "reserved" /\ submitTenant'[r] = t
              /\ status'[r] = "absent" /\ r \in running'[t]
              /\ \A u \in Tenants : r \in running'[u] => u = t
          <5>1. submit[r] = "new" /\ submit'[r] = "reserved" /\ submitTenant'[r] = t
            BY <1>2, <1>a, <3>1 DEF ReserveOk, StoreTypeOK
          <5>2. status'[r] = "absent"
            BY <2>f, <3>1, <5>1 DEF ReserveOk
          <5>3. running' = [running EXCEPT ![t] = @ \cup {r}]
            BY <1>2, <3>1 DEF ReserveOk
          <5>4. \A u \in Tenants : r \notin running[u]
            BY <3>a, <5>1, StoreAssumption DEF Slotted
          <5> QED
            BY <1>a, <5>1, <5>2, <5>3, <5>4 DEF StoreTypeOK
        <4> QED
          BY <4>1 DEF Hashed, Slotted, Listed
      <3>2. ASSUME NEW t \in Tenants, NEW d \in ReservationDays, ReserveRefused(x, t, d)
            PROVE  Hashed(r)' /\ Slotted(r)' /\ Listed(r)'
        <4>1. /\ submit[r] = "new" /\ submit'[r] = "refused"
              /\ status'[r] = "absent" /\ status[r] = "absent"
              /\ UNCHANGED <<running, submitTenant>>
          BY <1>2, <1>a, <2>f, <3>2 DEF ReserveRefused, StoreTypeOK
        <4> QED
          BY <3>a, <4>1 DEF Hashed, Slotted, Listed
      <3>3. CASE StoreRun(x)
        <4>1. /\ submit[r] = "reserved" /\ submit'[r] = "stored" /\ status[r] = "absent"
              /\ status'[r] = "queued" /\ owner'[r] = submitTenant[r]
              /\ UNCHANGED <<running, submitTenant>>
          BY <1>2, <1>a, <2>f, <3>3 DEF StoreRun, StoreTypeOK
        <4> QED
          BY <3>a, <4>1 DEF Hashed, Slotted, Listed, Active
      <3>4. CASE DateRun(x) \/ Enqueue(x)
        <4>1. /\ submit[r] \in {"stored", "dated"} /\ submit'[r] \in {"dated", "enqueued"}
              /\ UNCHANGED <<status, owner, running, submitTenant>>
              /\ submit'[r] = "enqueued" => queue' = Append(queue, r)
          BY <1>2, <1>a, <3>4 DEF DateRun, Enqueue, StoreTypeOK
        <4>2. submit'[r] = "enqueued" => r \in Range(queue')
          BY <1>a, <2>d, <4>1, AppendOnce DEF StoreInv, HandedOutOnce, Once, StoreTypeOK
        <4> QED
          BY <3>a, <4>1, <4>2 DEF Hashed, Slotted, Listed
      <3> QED
        BY <3>1, <3>2, <3>3, <3>4 DEF SubmitNext
    <2>3. ASSUME NEW p \in Replicas
          PROVE  Staged(p, r)' /\ Found(p, r)'
      <3>1. Staged(p, r)'
        BY <2>c DEF Untaken, Staged
      <3>2. status'[r] # "running"
        BY <2>1, <2>a, <1>2, <1>a, <2>e
           DEF SubmitNext, ReserveOk, ReserveRefused, StoreRun, DateRun, Enqueue, StoreTypeOK,
               Unstarted
      <3> QED
        BY <3>1, <3>2 DEF Found
    <2> QED
      BY <2>1, <2>2, <2>3 DEF Good
  <1> QED
    BY <1>1, <1>2

\* A submit that is cut short leaves everything else as it was.
LEMMA AbandonGood ==
    ASSUME StoreInv, NEW S \in SUBSET InFlight, Abandon(S), NEW r \in Runs, Good(r),
           SameHold(r)
    PROVE  Good(r)'
  <1> USE DEF listVars, hashVars, quotaVars, submitVars
  <1>1. CASE r \notin S
    <2>1. SameRun(r)
      BY <1>1 DEF Abandon, SameRun
    <2> QED
      BY <2>1, SameGood
  <1>2. CASE r \in S
    <2>1. /\ submit[r] \in {"reserved", "stored", "dated"} /\ submit'[r] = "abandoned"
          /\ UNCHANGED <<queue, processing, status, owner, running, submitTenant>>
      BY <1>2 DEF Abandon, InFlight
    <2>2. Fresh(r)'
      BY <2>1 DEF Good, Fresh, Untaken, SameHold
    <2>3. ASSUME r \notin Expirable
          PROVE  Hashed(r)' /\ Slotted(r)' /\ Listed(r)'
      BY <2>1, <2>3 DEF Good, Hashed, Slotted, Listed
    <2>4. ASSUME r \notin Expirable, NEW p \in Replicas
          PROVE  Staged(p, r)' /\ Found(p, r)'
      BY <2>1, <2>4 DEF Good, Staged, Found, SameHold, Serving
    <2> QED
      BY <2>2, <2>3, <2>4 DEF Good
  <1> QED
    BY <1>1, <1>2

LEMMA CancelGood ==
    ASSUME StoreInv, NEW x \in Runs, NEW t \in Tenants,
           CancelQueued(x, t) \/ CancelRunning(x, t), UNCHANGED HoldVars,
           NEW r \in Runs, Good(r)
    PROVE  Good(r)'
  <1>a. StoreTypeOK
    BY DEF StoreInv
  <1>b. SameHold(r)
    BY HoldSame
  <1>1. CASE r # x
    BY <1>1, <1>a, <1>b, CancelFrame, SameGood
  <1>2. CASE UNCHANGED storeVars \/ CancelRunning(x, t)
    <2>1. SameRun(r)
      BY <1>2 DEF CancelRunning, SameRun, storeVars, listVars, hashVars, quotaVars, submitVars
    <2> QED
      BY <1>b, <2>1, SameGood
  <1>3. CASE r = x /\ CancelQueued(x, t) /\ ~UNCHANGED storeVars
    <2>1. /\ status[r] = "queued" /\ owner[r] = t /\ status'[r] = "canceled"
          /\ queue' = Lrem(queue, r)
          /\ running' = [running EXCEPT ![t] = @ \ {r}]
          /\ UNCHANGED <<owner, submit, submitTenant>>
      BY <1>3, <1>a DEF CancelQueued, CancelCode, StoreTypeOK, submitVars
    <2>2. r \in Range(queue') => r \in Range(queue)
      BY <1>a, <2>1, LremOnce DEF StoreInv, HandedOutOnce, Once, StoreTypeOK
    <2>3. Fresh(r)'
      BY <2>1, <2>2 DEF Good, Fresh, Unstarted, Untaken, Recovers, HoldVars
    <2>4. ASSUME r \notin Expirable
          PROVE  Hashed(r)' /\ Slotted(r)' /\ Listed(r)'
      <3>1. \A u \in Tenants : r \notin running'[u]
        BY <1>a, <2>1, <2>4 DEF Good, Slotted, Hashed, StoreTypeOK
      <3>2. submit[r] # "reserved"
        BY <2>1, <2>4 DEF StoreInv, Unstored
      <3> QED
        BY <2>1, <2>4, <3>1, <3>2 DEF Good, Hashed, Slotted, Listed, Active
    <2>5. ASSUME r \notin Expirable, NEW p \in Replicas
          PROVE  Staged(p, r)' /\ Found(p, r)'
      BY <2>1, <2>5 DEF Good, Staged, Found, Recovers, HoldVars, Terminal
    <2> QED
      BY <2>3, <2>4, <2>5 DEF Good
  <1> QED
    BY <1>1, <1>2, <1>3


LEMMA ClockGood ==
    ASSUME StoreInv, IdleInv, Clock, NEW r \in Runs, Good(r)
    PROVE  Good(r)'
  <1> USE DEF listVars, hashVars, quotaVars, submitVars
  <1>a. StoreTypeOK /\ UNCHANGED HoldVars
    BY DEF StoreInv, Clock, startVars, workerVars, HoldVars
  <1>b. SameHold(r)
    BY <1>a, HoldSame
  <1>1. CASE Midnight
    <2>1. SameRun(r)
      BY <1>1 DEF Midnight, SameRun
    <2> QED
      BY <1>b, <2>1, SameGood
  <1>2. ASSUME NEW x \in Runs, ExpireRun(x), r # x
        PROVE  Good(r)'
    BY <1>2, <1>a, <1>b, RunFrame, SameGood
  <1>3. CASE ExpireRun(r)
    <2>1. /\ r \in Expirable /\ status'[r] = "absent"
          /\ UNCHANGED <<queue, submit>>
      BY <1>3, <1>a DEF ExpireRun, StoreTypeOK
    <2>2. Fresh(r)'
      BY <1>a, <2>1 DEF Good, Fresh, Unstarted, Untaken, Recovers, HoldVars
    <2> QED
      BY <2>1, <2>2 DEF Good
  <1> QED
    BY <1>1, <1>2, <1>3 DEF Clock

-----------------------------------------------------------------------------
(* The process stops and starts                                              *)

LEMMA CrashGood ==
    ASSUME Single, StoreInv, ServiceOK, NEW p \in Replicas, Crash(p), NEW r \in Runs, Good(r)
    PROVE  Good(r)'
  <1> USE DEF listVars, hashVars, quotaVars, submitVars
  <1>1. PICK S \in SUBSET InFlight : Abandon(S)
    BY DEF Crash
  <1>2. /\ UNCHANGED <<queue, processing, status, owner, running, submitTenant>>
        /\ \/ submit'[r] = submit[r]
           \/ submit[r] \in {"reserved", "stored", "dated"} /\ submit'[r] = "abandoned"
    BY <1>1 DEF Abandon, InFlight
  <1>3. ASSUME NEW q \in Replicas
        PROVE  wrun'[q] # r /\ r \notin todo'[q] /\ ~Recovers(q, r)' /\ life'[q] = "down"
    <2>1. q = p
      BY DEF Single
    <2>2. wrun'[p] = NoRun /\ todo'[p] = {} /\ orphan'[p] = NoOrphan /\ life'[p] = "down"
      BY DEF Crash, ServiceOK, StartOK, WorkerOK
    <2> QED
      BY <2>1, <2>2, RunnerAssumption DEF Recovers, NoOrphan
  <1>4. Fresh(r)'
    BY <1>2, <1>3 DEF Good, Fresh, Untaken
  <1>5. ASSUME r \notin Expirable
        PROVE  Hashed(r)' /\ Slotted(r)' /\ Listed(r)'
    BY <1>2, <1>5 DEF Good, Hashed, Slotted, Listed
  <1>6. ASSUME NEW q \in Replicas
        PROVE  Staged(q, r)' /\ Found(q, r)'
    BY <1>3 DEF Staged, Found, Serving
  <1> QED
    BY <1>4, <1>5, <1>6 DEF Good

\* Nothing but the replica's progress in its startup changes.
LEMMA ReapGood ==
    ASSUME Single, StoreInv, ServiceOK, IdleInv, NEW p \in Replicas, Reap(p) \/ Serve(p),
           NEW r \in Runs, Good(r)
    PROVE  Good(r)'
  <1>1. /\ UNCHANGED <<storeVars, todo, orphan, wrun, wtenant>>
        /\ \A q \in Replicas : q = p
        /\ wrun[p] = NoRun /\ pc[p] = "off"
        /\ life[p] \in {"down", "recovering"}
        /\ life'[p] = "reaped" \/ (todo[p] = {} /\ orphan[p].step = "none")
    BY DEF Reap, Serve, workerVars, Single, ServiceOK, WorkerOK, StartOK, IdleInv, Serving
  <1>2. life'[p] = "reaped" \/ (life'[p] = "serving" /\ life[p] = "recovering")
    BY DEF Reap, Serve, ServiceOK, StartOK
  <1>3. NoRun # r
    BY RunnerAssumption
  <1> USE DEF storeVars, listVars, hashVars, quotaVars, submitVars
  <1>4. Fresh(r)'
    BY <1>1, <1>3 DEF Good, Fresh, Untaken, Recovers
  <1>5. ASSUME r \notin Expirable
        PROVE  Hashed(r)' /\ Slotted(r)' /\ Listed(r)'
    BY <1>1, <1>5 DEF Good, Hashed, Slotted, Listed
  <1>6. ASSUME r \notin Expirable, NEW q \in Replicas
        PROVE  Staged(q, r)' /\ Found(q, r)'
    <2>1. q = p
      BY <1>1
    <2>2. Staged(p, r)'
      BY <1>1, <1>3, <1>6 DEF Good, Staged, Recovers
    <2>3. Found(p, r)'
      BY <1>1, <1>2, <1>3, <1>6 DEF Good, Found, Recovers, Serving
    <2> QED
      BY <2>1, <2>2, <2>3
  <1> QED
    BY <1>4, <1>5, <1>6 DEF Good

\* Every run that was running is listed as an orphan.
LEMMA ListGood ==
    ASSUME Single, StoreInv, ServiceOK, IdleInv, NEW p \in Replicas, ListOrphans(p),
           NEW r \in Runs, Good(r)
    PROVE  Good(r)'
  <1>1. /\ UNCHANGED <<storeVars, orphan, pc, wrun, wtenant>>
        /\ \A q \in Replicas : q = p
        /\ wrun[p] = NoRun /\ todo'[p] = processing /\ life'[p] = "recovering"
    BY DEF ListOrphans, workerVars, Single, ServiceOK, WorkerOK, StartOK, IdleInv, Serving
  <1>2. NoRun # r
    BY RunnerAssumption
  <1>3. r \in Range(queue) => r \notin processing
    BY DEF StoreInv, HandedOutOnce
  <1> USE DEF storeVars, listVars, hashVars, quotaVars, submitVars
  <1>4. Fresh(r)'
    BY <1>1, <1>2, <1>3 DEF Good, Fresh, Untaken, Recovers
  <1>5. ASSUME r \notin Expirable
        PROVE  Hashed(r)' /\ Slotted(r)' /\ Listed(r)'
    BY <1>1, <1>5 DEF Good, Hashed, Slotted, Listed
  <1>6. ASSUME r \notin Expirable, NEW q \in Replicas
        PROVE  Staged(q, r)' /\ Found(q, r)'
    <2>1. q = p
      BY <1>1
    <2>2. Staged(p, r)'
      BY <1>1, <1>2, <1>6 DEF Good, Staged, Recovers
    <2>3. status[r] = "running" => r \in processing
      BY <1>6 DEF Good, Fresh, Listed, Unstarted, Active
    <2>4. Found(p, r)'
      BY <1>1, <2>3 DEF Found, Serving
    <2> QED
      BY <2>1, <2>2, <2>4
  <1> QED
    BY <1>4, <1>5, <1>6 DEF Good

LEMMA ReadGood ==
    ASSUME Single, StoreInv, ServiceOK, IdleInv, NEW p \in Replicas, NEW x \in Runs,
           ReadOrphan(p, x), NEW r \in Runs, Good(r)
    PROVE  Good(r)'
  <1>1. /\ UNCHANGED <<storeVars, life, pc, wrun, wtenant>>
        /\ \A q \in Replicas : q = p
        /\ wrun[p] = NoRun /\ life[p] = "recovering" /\ orphan[p].step = "none"
        /\ x \in todo[p] /\ todo'[p] = todo[p] \ {x}
    BY DEF ReadOrphan, workerVars, Single, ServiceOK, WorkerOK, StartOK, IdleInv, Serving
  <1>2. NoRun # r
    BY RunnerAssumption
  <1>3. /\ orphan'[p].run = x /\ orphan'[p].tenant = TenantOf(x)
        /\ orphan'[p].step \in {"drop", "fail", "cancel"}
        /\ status[x] # "absent" => orphan'[p].step # "drop"
    <2>1. orphan'[p] = [run |-> x, tenant |-> TenantOf(x), named |-> containerName[x],
                        step |-> IF status[x] = "absent" THEN "drop"
                                 ELSE IF cancelRequested[x] THEN "cancel" ELSE "fail"]
      BY DEF ReadOrphan, ServiceOK, StartOK
    <2> QED
      BY <2>1
  <1>4. /\ Recovers(p, r)' <=> r = x
        /\ ~Recovers(p, r)
    BY <1>1, <1>3 DEF Recovers
  <1> USE DEF storeVars, listVars, hashVars, quotaVars, submitVars
  <1>5. Fresh(r)'
    BY <1>1, <1>4 DEF Good, Fresh, Untaken
  <1>6. ASSUME r \notin Expirable
        PROVE  Hashed(r)' /\ Slotted(r)' /\ Listed(r)'
    BY <1>1, <1>6 DEF Good, Hashed, Slotted, Listed
  <1>7. ASSUME r \notin Expirable, NEW q \in Replicas
        PROVE  Staged(q, r)' /\ Found(q, r)'
    <2>1. q = p
      BY <1>1
    <2>2. r = x => status[r] # "absent" /\ TenantOf(r) = owner[r]
      <3>1. r = x => submit[r] = "enqueued"
        BY <1>1 DEF ServiceOK, StartOK, Enqueued
      <3> QED
        BY <1>7, <3>1, StoreAssumption DEF Good, Hashed, TenantOf
    <2>3. Staged(p, r)'
      BY <1>1, <1>2, <1>3, <1>4, <2>2 DEF Staged
    <2>4. Found(p, r)'
      BY <1>1, <1>4, <1>7 DEF Good, Found, Serving
    <2> QED
      BY <2>1, <2>3, <2>4
  <1> QED
    BY <1>5, <1>6, <1>7 DEF Good


-----------------------------------------------------------------------------
(* The recovery                                                              *)

\* A terminal write ends the run and gives the slot of its tenant back.
LEMMA MarkEnds ==
    ASSUME StoreInv, NEW x \in Runs, NEW t \in Tenants,
           MarkCompleted(x, t) \/ MarkFailed(x, t) \/ MarkCanceled(x, t)
    PROVE  /\ status'[x] \in Terminal
           /\ status[x] \in Terminal => status'[x] = status[x]
           /\ UNCHANGED <<queue, owner, submit, submitTenant>>
           /\ Hashed(x) /\ Slotted(x) /\ submit[x] = "enqueued" /\ owner[x] = t =>
                 Hashed(x)' /\ Slotted(x)' /\ Listed(x)'
  <1> USE DEF storeVars, listVars, hashVars, quotaVars, submitVars
  <1>a. StoreTypeOK
    BY DEF StoreInv
  <1>1. CASE status[x] \in Terminal
    <2>1. UNCHANGED storeVars
      BY <1>1 DEF MarkCompleted, MarkFailed, MarkTerminal, MarkCanceled
    <2> QED
      BY <1>1, <2>1 DEF Hashed, Slotted, Listed, Terminal, Active
  <1>2. CASE status[x] \notin Terminal
    <2>1. /\ \E end \in Terminal : status' = [status EXCEPT ![x] = end]
          /\ Retire(x, t)
      BY <1>2 DEF MarkCompleted, MarkFailed, MarkTerminal, MarkCanceled, Terminal
    <2>2. /\ status'[x] \in Terminal
          /\ UNCHANGED <<queue, owner, submit, submitTenant>>
          /\ running' = [running EXCEPT ![t] = @ \ {x}]
      BY <1>a, <2>1 DEF Retire, StoreTypeOK
    <2>3. ASSUME Hashed(x), Slotted(x), submit[x] = "enqueued", owner[x] = t
          PROVE  Hashed(x)' /\ Slotted(x)' /\ Listed(x)'
      <3>1. owner[x] = submitTenant[x]
        BY <2>3 DEF Hashed
      <3>2. \A u \in Tenants : x \notin running'[u]
        BY <1>a, <2>2, <2>3, <3>1 DEF Slotted, StoreTypeOK
      <3>3. Hashed(x)'
        BY <2>2, <2>3, <3>1 DEF Hashed, Terminal
      <3> QED
        BY <2>2, <2>3, <3>2, <3>3 DEF Slotted, Listed, Terminal, Active
    <2> QED
      BY <1>2, <2>2, <2>3
  <1> QED
    BY <1>1, <1>2

LEMMA RecoverGood ==
    ASSUME Single, StoreInv, ServiceOK, IdleInv, NEW p \in Replicas, RecoverOrphan(p),
           NEW r \in Runs, Good(r)
    PROVE  Good(r)'
  <1> DEFINE o == orphan[p]
  <1>a. /\ UNCHANGED <<life, todo, pc, wrun, wtenant>>
        /\ \A q \in Replicas : q = p
        /\ wrun[p] = NoRun /\ life[p] = "recovering" /\ ~Serving(p)
    BY DEF RecoverOrphan, workerVars, Single, ServiceOK, WorkerOK, StartOK, IdleInv, Serving
  <1>b. StoreTypeOK /\ NoRun # r
    BY RunnerAssumption DEF StoreInv
  <1>c. /\ orphan'[p].step \in {"none", "clean"}
        /\ \/ o.step = "drop" /\ DropProcessing(o.run)
           \/ o.step = "fail" /\ MarkFailed(o.run, o.tenant)
           \/ o.step = "cancel" /\ MarkCanceled(o.run, o.tenant)
           \/ o.step = "clean" /\ UNCHANGED storeVars
    BY DEF RecoverOrphan, NoOrphan, ServiceOK, StartOK
  <1>d. ~Recovers(p, r)'
    BY <1>c DEF Recovers
  <1>e. o.run \in Runs /\ o.tenant \in Tenants /\ submit[o.run] = "enqueued"
    BY <1>c DEF ServiceOK, StartOK, Enqueued
  <1> HIDE DEF o
  <1>1. CASE ~Recovers(p, r)
    <2>1. SameHold(r)
      BY <1>1, <1>a, <1>d DEF SameHold
    <2>2. SameRun(r)
      <3>1. CASE UNCHANGED storeVars
        BY <3>1 DEF SameRun, storeVars, listVars, hashVars, quotaVars, submitVars
      <3>2. CASE o.step # "clean"
        <4>1. r # o.run
          BY <1>1, <1>c, <3>2 DEF Recovers, o
        <4> QED
          BY <1>b, <1>c, <1>e, <3>2, <4>1, RunFrame, MarkFrame
      <3> QED
        BY <1>c, <3>1, <3>2
    <2> QED
      BY <2>1, <2>2, SameGood
  <1>2. CASE Recovers(p, r)
    <2>1. o.run = r /\ o.step \in {"drop", "fail", "cancel"}
      BY <1>2 DEF Recovers, o
    <2>2. r \notin Range(queue) /\ submit[r] = "enqueued"
      BY <1>2, <1>e, <2>1 DEF Good, Fresh, Untaken
    <2>3. CASE o.step = "drop"
      <3>1. DropProcessing(r)
        BY <1>c, <2>1, <2>3
      <3>2. r \in Expirable
        BY <1>2, <2>3 DEF Good, Staged, o
      <3>3. Fresh(r)'
        BY <1>a, <1>b, <2>2, <3>1 DEF DropProcessing, Fresh, submitVars
      <3> QED
        BY <3>2, <3>3 DEF Good
    <2>4. CASE o.step \in {"fail", "cancel"}
      <3>1. MarkFailed(r, o.tenant) \/ MarkCanceled(r, o.tenant)
        BY <1>c, <2>1, <2>4
      <3>2. /\ status'[r] \in Terminal
            /\ UNCHANGED <<queue, owner, submit, submitTenant>>
            /\ Hashed(r) /\ Slotted(r) /\ owner[r] = o.tenant =>
                  Hashed(r)' /\ Slotted(r)' /\ Listed(r)'
        BY <1>e, <2>1, <2>2, <3>1, MarkEnds
      <3>3. Fresh(r)'
        BY <1>a, <1>b, <2>2, <3>2 DEF Fresh
      <3>4. ASSUME r \notin Expirable
            PROVE  Hashed(r)' /\ Slotted(r)' /\ Listed(r)'
        BY <1>2, <3>2, <3>4 DEF Good, Staged, o
      <3>5. ASSUME NEW q \in Replicas
            PROVE  Staged(q, r)' /\ Found(q, r)'
        BY <1>a, <1>b, <1>d, <3>2 DEF Staged, Found, Terminal
      <3> QED
        BY <3>3, <3>4, <3>5 DEF Good
    <2> QED
      BY <2>1, <2>3, <2>4
  <1> QED
    BY <1>1, <1>2


-----------------------------------------------------------------------------
(* The worker                                                                *)

\* Where the worker goes without a command to the store.
Moves == {<<"named", "running">>, <<"running", "hung">>, <<"hung", "killed">>,
          <<"running", "failing">>} \cup ((WorkerStep \ {"off", "idle"}) \X {"dead"})

\* A step of the worker on its run: it moves, gives the run up, reads it, starts
\* it, names its container, or marks it.
Stays(p) == wrun'[p] = wrun[p] /\ wtenant'[p] = wtenant[p]

Leaves(p) == wrun'[p] = NoRun /\ pc'[p] = "idle"

StepMoves(p) == UNCHANGED storeVars /\ Stays(p) /\ <<pc[p], pc'[p]>> \in Moves

StepLeaves(p) ==
    /\ UNCHANGED storeVars
    /\ Leaves(p)
    /\ \/ pc[p] = "closing"
       \/ pc[p] = "claimed" /\ status[wrun[p]] = "absent"

StepReads(p) ==
    /\ UNCHANGED storeVars
    /\ pc[p] = "claimed" /\ pc'[p] = "read"
    /\ wrun'[p] = wrun[p] /\ wtenant'[p] = TenantOf(wrun[p])

StepStarts(p) ==
    /\ pc[p] = "read"
    /\ StartOrAbort(wrun[p])
    /\ \/ Leaves(p) /\ status[wrun[p]] = "canceled"
       \/ Stays(p) /\ pc'[p] = "started" /\ status[wrun[p]] # "canceled"
       \/ Stays(p) /\ pc'[p] = "dead"

StepNames(p) ==
    /\ pc[p] = "started" /\ pc'[p] \in {"named", "dead"}
    /\ Stays(p)
    /\ SetContainerName(wrun[p])

StepMarks(p) ==
    /\ pc[p] \in {"running", "failing", "killed"} /\ pc'[p] \in {"closing", "failing", "dead"}
    /\ Stays(p)
    /\ \/ MarkCompleted(wrun[p], wtenant[p])
       \/ MarkFailed(wrun[p], wtenant[p])
       \/ MarkCanceled(wrun[p], wtenant[p])

LEMMA WorkCases ==
    ASSUME ServiceOK, NEW p \in Replicas,
           Work(p) \/ Hang(p) \/ WorkerDies(p) \/ CompleteRaises(p), ~Claim(p)
    PROVE  /\ Serving(p) /\ UNCHANGED startVars /\ pc[p] \notin {"off", "idle"}
           /\ \/ StepMoves(p) \/ StepLeaves(p) \/ StepReads(p) \/ StepStarts(p)
              \/ StepNames(p) \/ StepMarks(p)
  <1> USE DEF At, GoTo, NextRun, Stays, Leaves, Moves, WorkerStep, EndUnchanged
  <1>a. /\ pc \in [Replicas -> WorkerStep] /\ wrun \in [Replicas -> Runs \cup {NoRun}]
        /\ wtenant \in [Replicas -> Tenants]
    BY DEF ServiceOK, WorkerOK
  <1>1. CASE ReadRun(p)
    BY <1>1, <1>a DEF ReadRun, StepLeaves, StepReads
  <1>2. CASE Start(p)
    BY <1>2, <1>a DEF Start, StepStarts
  <1>3. CASE NameContainer(p)
    BY <1>3, <1>a DEF NameContainer, StepNames
  <1>4. CASE Spawn(p) \/ Hang(p) \/ HangKill(p)
    BY <1>4, <1>a DEF Spawn, Hang, HangKill, StepMoves
  <1>5. CASE Complete(p) \/ Fail(p) \/ HangMark(p)
    BY <1>5, <1>a DEF Complete, Fail, HangMark, StepMarks
  <1>6. CASE Close(p)
    BY <1>6, <1>a DEF Close, StepMoves, StepLeaves
  <1>7. CASE WorkerDies(p)
    <2>1. /\ Serving(p) /\ UNCHANGED startVars /\ Stays(p) /\ pc'[p] = "dead"
          /\ pc[p] \notin {"off", "idle"}
          /\ Pending(p) \/ UNCHANGED storeVars
      BY <1>7, <1>a DEF WorkerDies
    <2>2. CASE Pending(p)
      BY <2>1, <2>2 DEF Pending, StepStarts, StepNames, StepMarks
    <2>3. CASE UNCHANGED storeVars
      BY <1>a, <2>1, <2>3 DEF StepMoves
    <2> QED
      BY <2>1, <2>2, <2>3
  <1>8. CASE CompleteRaises(p)
    BY <1>8, <1>a DEF CompleteRaises, StepMoves, StepMarks
  <1> QED
    BY <1>1, <1>2, <1>3, <1>4, <1>5, <1>6, <1>7, <1>8 DEF Work

\* While a replica serves, it recovers nothing.
LEMMA ServingOnly ==
    ASSUME Single, IdleInv, NEW p \in Replicas, Serving(p), UNCHANGED startVars, NEW r
    PROVE  /\ \A q \in Replicas : q = p
           /\ r \notin todo[p] /\ r \notin todo'[p]
           /\ ~Recovers(p, r) /\ ~Recovers(p, r)'
           /\ life'[p] = life[p] /\ life[p] = "serving"
  BY DEF Single, IdleInv, Serving, startVars, Recovers

\* A run that leaves the queue goes to the worker, or to nobody if the reply is lost.
LEMMA ClaimGood ==
    ASSUME Single, StoreInv, ServiceOK, IdleInv, NEW p \in Replicas,
           Claim(p) \/ LoseClaim(p), NEW r \in Runs, Good(r)
    PROVE  Good(r)'
  <1>a. StoreTypeOK /\ NoRun # r /\ Once(queue)
    BY RunnerAssumption DEF StoreInv, HandedOutOnce, Once
  <1>b. /\ Serving(p) /\ ClaimNext /\ UNCHANGED startVars /\ wrun[p] = NoRun
        /\ \/ wrun'[p] = Head(queue) /\ pc'[p] = "claimed"
           \/ wrun'[p] = NoRun
    BY DEF Claim, LoseClaim, At, GoTo, workerVars, IdleInv, ServiceOK, WorkerOK
  <1>c. /\ \A q \in Replicas : q = p
        /\ r \notin todo[p] /\ r \notin todo'[p]
        /\ ~Recovers(p, r) /\ ~Recovers(p, r)'
        /\ life'[p] = life[p] /\ life[p] = "serving"
    BY <1>b, ServingOnly
  <1>1. CASE r # Head(queue)
    <2>1. SameRun(r)
      BY <1>1, <1>a, <1>b, ClaimFrame
    <2>2. SameHold(r)
      BY <1>1, <1>a, <1>b, <1>c DEF SameHold
    <2> QED
      BY <2>1, <2>2, SameGood
  <1>2. CASE r = Head(queue)
    <2>1. /\ r \in Range(queue) /\ r \notin Range(queue') /\ r \in processing'
          /\ UNCHANGED <<hashVars, quotaVars, submitVars>>
      BY <1>2, <1>a, <1>b, TailOnce DEF ClaimNext, StoreTypeOK
    <2> USE DEF hashVars, quotaVars, submitVars
    <2>2. status[r] \in Unstarted /\ submit[r] = "enqueued"
      BY <2>1 DEF Good, Fresh, StoreInv, HandedOutOnce
    <2>3. Fresh(r)'
      BY <2>1, <2>2 DEF Fresh, Unstarted
    <2>4. ASSUME r \notin Expirable
          PROVE  Hashed(r)' /\ Slotted(r)' /\ Listed(r)'
      BY <2>1, <2>4 DEF Good, Hashed, Slotted, Listed
    <2>5. Staged(p, r)' /\ Found(p, r)'
      BY <1>a, <1>b, <1>c, <2>1, <2>2 DEF Staged, Found, Unstarted
    <2> QED
      BY <1>c, <2>3, <2>4, <2>5 DEF Good
  <1> QED
    BY <1>1, <1>2


\* The status of the worker's own run, if it never expires, in the steps that
\* write to the store: as the stage says, and what the write makes of it.
LEMMA StartGood ==
    ASSUME StoreInv, NEW r \in Runs \ Expirable, Hashed(r), Slotted(r), Listed(r),
           status[r] \in Unstarted, submit[r] = "enqueued", StartOrAbort(r)
    PROVE  /\ Hashed(r)' /\ Slotted(r)' /\ Listed(r)'
           /\ status'[r] = IF status[r] = "canceled" THEN "canceled" ELSE "running"
           /\ owner'[r] = owner[r]
  <1> USE DEF listVars, quotaVars, submitVars
  <1>1. status[r] \in {"queued", "canceled"}
    BY DEF Hashed, Unstarted
  <1>2. /\ status'[r] = IF status[r] = "canceled" THEN "canceled" ELSE "running"
        /\ UNCHANGED <<queue, processing, running, owner, submit, submitTenant>>
    BY DEF StartOrAbort, StoreInv, StoreTypeOK
  <1>3. Hashed(r)'
    BY <1>1, <1>2 DEF Hashed
  <1>4. Slotted(r)'
    BY <1>1, <1>2 DEF Slotted, Hashed, Active
  <1>5. Listed(r)'
    BY <1>1, <1>2 DEF Listed, Active
  <1> QED
    BY <1>2, <1>3, <1>4, <1>5

\* What is to show for the run in the worker's hands, after the worker's step.
LEMMA OwnGood ==
    ASSUME Single, IdleInv, NEW p \in Replicas, Serving(p), UNCHANGED startVars,
           NEW r \in Runs, Good(r), wrun[p] = r, submit[r] = "enqueued",
           UNCHANGED <<queue, submit>>,
           pc'[p] = "read" => status'[r] \in Unstarted, pc'[p] # "claimed",
           r \notin Expirable =>
              /\ Hashed(r)' /\ Slotted(r)' /\ Listed(r)' /\ Staged(p, r)'
              /\ wrun'[p] = r \/ status'[r] # "running"
    PROVE  Good(r)'
  <1>1. /\ \A q \in Replicas : q = p
        /\ ~Recovers(p, r)'
        /\ life'[p] = "serving"
    BY ServingOnly
  <1>2. r \notin Range(queue)
    BY DEF Good, Fresh, Untaken
  <1>3. Fresh(r)'
    BY <1>1, <1>2 DEF Fresh
  <1>4. r \notin Expirable => Found(p, r)'
    BY <1>1 DEF Found
  <1> QED
    BY <1>1, <1>3, <1>4 DEF Good

LEMMA WorkGood ==
    ASSUME Single, StoreInv, ServiceOK, IdleInv, NEW p \in Replicas,
           Work(p) \/ Hang(p) \/ WorkerDies(p) \/ CompleteRaises(p),
           NEW r \in Runs, Good(r)
    PROVE  Good(r)'
  <1>1. CASE Claim(p)
    BY <1>1, ClaimGood
  <1>2. CASE ~Claim(p)
    <2> USE DEF storeVars, listVars, hashVars, quotaVars, submitVars
    <2>a. /\ Serving(p) /\ UNCHANGED startVars /\ pc[p] \notin {"off", "idle"}
          /\ \/ StepMoves(p) \/ StepLeaves(p) \/ StepReads(p) \/ StepStarts(p)
             \/ StepNames(p) \/ StepMarks(p)
      BY <1>2, WorkCases
    <2>b. /\ \A q \in Replicas : q = p
          /\ r \notin todo[p] /\ r \notin todo'[p]
          /\ ~Recovers(p, r) /\ ~Recovers(p, r)'
          /\ life'[p] = life[p] /\ life[p] = "serving"
      BY <2>a, ServingOnly
    <2>c. /\ StoreTypeOK /\ NoRun # r
          /\ wrun[p] \in Runs /\ submit[wrun[p]] = "enqueued" /\ wtenant[p] \in Tenants
      BY <2>a, RunnerAssumption DEF StoreInv, ServiceOK, WorkerOK, Enqueued
    <2>1. CASE r # wrun[p]
      <3>1. SameHold(r)
        BY <2>1, <2>a, <2>b, <2>c
           DEF SameHold, StepMoves, StepLeaves, StepReads, StepStarts, StepNames, StepMarks,
               Stays, Leaves
      <3>2. SameRun(r)
        <4>1. CASE UNCHANGED storeVars
          BY <4>1 DEF SameRun
        <4>2. CASE StepStarts(p) \/ StepNames(p)
          BY <2>1, <2>c, <4>2, RunFrame DEF StepStarts, StepNames
        <4>3. CASE StepMarks(p)
          BY <2>1, <2>c, <4>3, MarkFrame DEF StepMarks
        <4> QED
          BY <2>a, <4>1, <4>2, <4>3 DEF StepMoves, StepLeaves, StepReads
      <3> QED
        BY <3>1, <3>2, SameGood
    <2>2. CASE r = wrun[p]
      <3>a. submit[r] = "enqueued"
        BY <2>2, <2>c
      <3>b. r \notin Expirable =>
               /\ Hashed(r) /\ Slotted(r) /\ Listed(r) /\ Staged(p, r)
               /\ status[r] # "absent"
        BY <3>a DEF Good, Hashed
      <3>1. CASE StepMoves(p)
        <4>1. /\ UNCHANGED storeVars /\ wrun'[p] = r /\ wtenant'[p] = wtenant[p]
              /\ pc'[p] \in {"running", "hung", "killed", "failing", "dead"}
              /\ pc'[p] # "dead" => pc[p] \in {"named", "running", "hung"}
          BY <2>2, <3>1 DEF StepMoves, Stays, Moves
        <4>2. r \notin Expirable => Hashed(r)' /\ Slotted(r)' /\ Listed(r)'
          BY <3>b, <4>1 DEF Hashed, Slotted, Listed
        <4>3. r \notin Expirable => Staged(p, r)'
          BY <2>2, <2>b, <3>b, <4>1 DEF Staged
        <4> QED
          BY <2>2, <2>a, <3>a, <4>1, <4>2, <4>3, OwnGood
      <3>2. CASE StepLeaves(p)
        <4>1. UNCHANGED storeVars /\ wrun'[p] = NoRun /\ pc'[p] = "idle"
          BY <3>2 DEF StepLeaves, Leaves
        <4>2. r \notin Expirable => Hashed(r)' /\ Slotted(r)' /\ Listed(r)'
          BY <3>b, <4>1 DEF Hashed, Slotted, Listed
        <4>3. r \notin Expirable => Staged(p, r)' /\ status'[r] # "running"
          BY <2>2, <2>b, <2>c, <3>2, <3>b, <4>1 DEF Staged, StepLeaves, Terminal
        <4> QED
          BY <2>2, <2>a, <3>a, <4>1, <4>2, <4>3, OwnGood
      <3>3. CASE StepReads(p)
        <4>1. /\ UNCHANGED storeVars /\ wrun'[p] = r /\ pc'[p] = "read"
              /\ pc[p] = "claimed" /\ wtenant'[p] = TenantOf(r)
          BY <2>2, <3>3 DEF StepReads
        <4>2. r \notin Expirable => Hashed(r)' /\ Slotted(r)' /\ Listed(r)'
          BY <3>b, <4>1 DEF Hashed, Slotted, Listed
        <4>3. r \notin Expirable => Staged(p, r)'
          BY <2>b, <3>b, <4>1, StoreAssumption DEF Staged, Hashed, TenantOf
        <4>4. status'[r] \in Unstarted
          BY <2>2, <4>1 DEF Good, Fresh, Unstarted
        <4> QED
          BY <2>2, <2>a, <3>a, <4>1, <4>2, <4>3, <4>4, OwnGood
      <3>4. CASE StepStarts(p)
        <4>1. /\ pc[p] = "read" /\ StartOrAbort(r)
              /\ \/ wrun'[p] = NoRun /\ pc'[p] = "idle" /\ status[r] = "canceled"
                 \/ /\ wrun'[p] = r /\ wtenant'[p] = wtenant[p]
                    /\ \/ pc'[p] = "started" /\ status[r] # "canceled"
                       \/ pc'[p] = "dead"
          BY <2>2, <3>4 DEF StepStarts, Stays, Leaves
        <4>2. UNCHANGED <<queue, submit>>
          BY <4>1 DEF StartOrAbort
        <4>3. status[r] \in Unstarted
          BY <2>2, <4>1 DEF Good, Fresh
        <4>4. ASSUME r \notin Expirable
              PROVE  /\ Hashed(r)' /\ Slotted(r)' /\ Listed(r)'
                     /\ status'[r] = IF status[r] = "canceled" THEN "canceled" ELSE "running"
                     /\ owner'[r] = owner[r]
          BY <3>a, <3>b, <4>1, <4>3, <4>4, StartGood
        <4>5. ASSUME r \notin Expirable
              PROVE  Staged(p, r)' /\ (wrun'[p] = r \/ status'[r] # "running")
          BY <2>2, <2>b, <2>c, <3>b, <4>1, <4>4, <4>5 DEF Staged
        <4> QED
          BY <2>2, <2>a, <3>a, <4>1, <4>2, <4>4, <4>5, OwnGood
      <3>5. CASE StepNames(p)
        <4>1. /\ pc[p] = "started" /\ pc'[p] \in {"named", "dead"} /\ SetContainerName(r)
              /\ wrun'[p] = r /\ wtenant'[p] = wtenant[p]
          BY <2>2, <3>5 DEF StepNames, Stays
        <4>2. /\ UNCHANGED <<queue, processing, running, owner, submit, submitTenant>>
              /\ status[r] # "absent" => status'[r] = status[r]
          BY <2>c, <4>1 DEF SetContainerName, StoreTypeOK
        <4>3. r \notin Expirable => Hashed(r)' /\ Slotted(r)' /\ Listed(r)'
          BY <3>b, <4>2 DEF Hashed, Slotted, Listed
        <4>4. r \notin Expirable => Staged(p, r)'
          BY <2>2, <2>b, <3>b, <4>1, <4>2 DEF Staged
        <4> QED
          BY <2>2, <2>a, <3>a, <4>1, <4>2, <4>3, <4>4, OwnGood
      <3>6. CASE StepMarks(p)
        <4>1. /\ pc[p] \in {"running", "failing", "killed"}
              /\ pc'[p] \in {"closing", "failing", "dead"}
              /\ wrun'[p] = r /\ wtenant'[p] = wtenant[p]
              /\ \/ MarkCompleted(r, wtenant[p])
                 \/ MarkFailed(r, wtenant[p])
                 \/ MarkCanceled(r, wtenant[p])
          BY <2>2, <3>6 DEF StepMarks, Stays
        <4>2. /\ status'[r] \in Terminal
              /\ UNCHANGED <<queue, owner, submit, submitTenant>>
              /\ Hashed(r) /\ Slotted(r) /\ owner[r] = wtenant[p] =>
                    Hashed(r)' /\ Slotted(r)' /\ Listed(r)'
          BY <2>c, <3>a, <4>1, MarkEnds
        <4>3. r \notin Expirable => wtenant[p] = owner[r]
          BY <2>2, <3>b, <4>1 DEF Staged
        <4>4. r \notin Expirable => Staged(p, r)'
          BY <2>b, <4>1, <4>2, <4>3 DEF Staged
        <4> QED
          BY <2>2, <2>a, <3>a, <3>b, <4>1, <4>2, <4>3, <4>4, OwnGood
      <3> QED
        BY <2>a, <3>1, <3>2, <3>3, <3>4, <3>5, <3>6
    <2> QED
      BY <2>1, <2>2
  <1> QED
    BY <1>1, <1>2


-----------------------------------------------------------------------------
(* Every step                                                                *)

\* The steps that neither command the store nor move the worker.
LEMMA QuietSteps ==
    ASSUME \/ \E p \in Replicas : Sandbox(p) \/ Watcher(p) \/ WatchRaises(p)
           \/ \E c \in Cancels : \/ CancelKill(c)
                                 \/ \E p \in Replicas, r \in Runs, t \in Tenants :
                                       CancelRun(c, p, r, t)
           \/ \E r \in Runs : PodUp(r) \/ PodGone(r)
           \/ UNCHANGED vars
    PROVE  UNCHANGED storeVars /\ UNCHANGED HoldVars
  <1> USE DEF HoldVars, startVars, workerVars
  <1>1. ASSUME NEW p \in Replicas, Sandbox(p) \/ Watcher(p) \/ WatchRaises(p)
        PROVE  UNCHANGED storeVars /\ UNCHANGED HoldVars
    BY <1>1 DEF Sandbox, Launch, Return, ClientTimeout, ForceKill, BoxUnchanged, Watcher,
                Watch, WatchKill, WatchRaises
  <1>2. ASSUME NEW c \in Cancels, CancelKill(c)
        PROVE  UNCHANGED storeVars /\ UNCHANGED HoldVars
    BY <1>2 DEF CancelKill
  <1>3. ASSUME NEW c \in Cancels, NEW p \in Replicas, NEW r \in Runs, NEW t \in Tenants,
               CancelRun(c, p, r, t)
        PROVE  UNCHANGED storeVars /\ UNCHANGED HoldVars
    BY <1>3 DEF CancelRun
  <1>4. ASSUME NEW r \in Runs, PodUp(r) \/ PodGone(r)
        PROVE  UNCHANGED storeVars /\ UNCHANGED HoldVars
    BY <1>4 DEF PodUp, PodGone
  <1>5. CASE UNCHANGED vars
    BY <1>5 DEF vars
  <1> QED
    BY <1>1, <1>2, <1>3, <1>4, <1>5

\* The cancel scripts, sent by a handler.
LEMMA CancelSends ==
    ASSUME ServiceOK, NEW c \in Cancels, CancelStep(c) \/ CancelRaises(c)
    PROVE  /\ UNCHANGED HoldVars
           /\ \/ UNCHANGED storeVars
              \/ \E x \in Runs, t \in Tenants : CancelQueued(x, t) \/ CancelRunning(x, t)
  <1> DEFINE x == cancel[c].run
             t == cancel[c].tenant
  <1>1. /\ UNCHANGED HoldVars
        /\ \/ UNCHANGED storeVars
           \/ /\ cancel[c].step \in {"queued", "running"}
              /\ CancelQueued(x, t) \/ CancelRunning(x, t)
    BY DEF CancelStep, CancelQueuedBranch, CancelRunningBranch, CancelKill, CancelRaises,
           HoldVars, startVars, workerVars
  <1>2. cancel[c].step \in {"queued", "running"} => x \in Runs /\ t \in Tenants
    BY DEF ServiceOK, CancelOK
  <1> HIDE DEF x, t
  <1> QED
    BY <1>1, <1>2

LEMMA QuietGood ==
    ASSUME UNCHANGED storeVars, UNCHANGED HoldVars, NEW r \in Runs, Good(r)
    PROVE  Good(r)'
  <1>1. SameRun(r)
    BY DEF SameRun, storeVars, listVars, hashVars, quotaVars, submitVars
  <1> QED
    BY <1>1, HoldSame, SameGood

LEMMA StepGood ==
    ASSUME Single, StoreInv, ServiceOK, IdleInv, [Next]_vars, NEW r \in Runs, Good(r)
    PROVE  Good(r)'
  <1>1. ASSUME NEW p \in Replicas, Startup(p)
        PROVE  Good(r)'
    BY <1>1, ReapGood, ListGood, ReadGood, RecoverGood DEF Startup
  <1>2. ASSUME NEW p \in Replicas, Work(p) \/ Hang(p)
        PROVE  Good(r)'
    BY <1>2, WorkGood
  <1>3. ASSUME NEW p \in Replicas, Crash(p)
        PROVE  Good(r)'
    BY <1>3, CrashGood
  <1>4. ASSUME NEW p \in Replicas, Raise(p), ~WatchRaises(p)
        PROVE  Good(r)'
    <2>1. ASSUME NEW x \in Runs, SubmitRaises(p, x)
          PROVE  Good(r)'
      <3>1. Abandon({x}) /\ {x} \in SUBSET InFlight /\ UNCHANGED HoldVars
        BY <2>1 DEF SubmitRaises, HoldVars, startVars, workerVars
      <3> QED
        BY <3>1, HoldSame, AbandonGood
    <2> QED
      BY <1>4, <2>1, ClaimGood, WorkGood DEF Raise
  <1>5. ASSUME NEW p \in Replicas, NEW x \in Runs, Submit(p, x)
        PROVE  Good(r)'
    <2>1. SubmitNext(x) /\ UNCHANGED HoldVars
      BY <1>5 DEF Submit, SubmitNext, HoldVars, startVars, workerVars
    <2> QED
      BY <2>1, SubmitGood
  <1>6. ASSUME NEW c \in Cancels, CancelStep(c) \/ CancelRaises(c)
        PROVE  Good(r)'
    <2>1. /\ UNCHANGED HoldVars
          /\ \/ UNCHANGED storeVars
             \/ \E x \in Runs, t \in Tenants : CancelQueued(x, t) \/ CancelRunning(x, t)
      BY <1>6, CancelSends
    <2> QED
      BY <2>1, QuietGood, CancelGood
  <1>7. CASE Clock
    BY <1>7, ClockGood
  <1>8. CASE \/ \E p \in Replicas : Sandbox(p) \/ Watcher(p) \/ WatchRaises(p)
             \/ \E c \in Cancels : \E p \in Replicas, x \in Runs, t \in Tenants :
                   CancelRun(c, p, x, t)
             \/ \E x \in Runs : PodUp(x) \/ PodGone(x)
             \/ UNCHANGED vars
    <2>1. UNCHANGED storeVars /\ UNCHANGED HoldVars
      BY <1>8, QuietSteps
    <2> QED
      BY <2>1, QuietGood
  <1> QED
    BY <1>1, <1>2, <1>3, <1>4, <1>5, <1>6, <1>7, <1>8 DEF Next

LEMMA StepIdle ==
    ASSUME Single, ServiceOK, IdleInv, [Next]_vars
    PROVE  IdleInv'
  <1> USE DEF HoldVars, startVars, workerVars
  <1>1. ASSUME UNCHANGED HoldVars
        PROVE  IdleInv'
    BY <1>1 DEF IdleInv
  <1>2. ASSUME NEW p \in Replicas,
               pc'[p] \in {"off", "idle"} => wrun'[p] = NoRun,
               life'[p] # "recovering" => todo'[p] = {} /\ orphan'[p].step = "none"
        PROVE  IdleInv'
    BY <1>2 DEF Single, IdleInv
  <1>3. ASSUME NEW p \in Replicas, Startup(p)
        PROVE  IdleInv'
    <2>1. wrun'[p] = NoRun
      BY <1>3 DEF Startup, Reap, ListOrphans, ReadOrphan, RecoverOrphan, Serve, ServiceOK,
                  StartOK, WorkerOK, IdleInv, Serving
    <2>2. life'[p] # "recovering" => todo'[p] = {} /\ orphan'[p].step = "none"
      BY <1>3 DEF Startup, Reap, ListOrphans, ReadOrphan, RecoverOrphan, Serve, ServiceOK,
                  StartOK, IdleInv
    <2> QED
      BY <1>2, <2>1, <2>2
  <1>4. ASSUME NEW p \in Replicas, Crash(p)
        PROVE  IdleInv'
    <2>1. wrun'[p] = NoRun /\ todo'[p] = {} /\ orphan'[p] = NoOrphan
      BY <1>4 DEF Crash, ServiceOK, StartOK, WorkerOK
    <2> QED
      BY <1>2, <2>1 DEF NoOrphan
  <1>5. ASSUME NEW p \in Replicas, Work(p) \/ Hang(p) \/ WorkerDies(p) \/ CompleteRaises(p)
        PROVE  IdleInv'
    <2>1. UNCHANGED startVars /\ (pc'[p] \in {"off", "idle"} => wrun'[p] = NoRun)
      <3>1. CASE Claim(p)
        BY <3>1 DEF Claim, GoTo, ServiceOK, WorkerOK
      <3>2. CASE ~Claim(p)
        BY <1>5, <3>2, WorkCases
           DEF StepMoves, StepLeaves, StepReads, StepStarts, StepNames, StepMarks, Stays,
               Leaves, Moves
      <3> QED
        BY <3>1, <3>2
    <2> QED
      BY <1>2, <2>1 DEF IdleInv
  <1>6. ASSUME NEW p \in Replicas, LoseClaim(p) \/ \E x \in Runs : SubmitRaises(p, x)
        PROVE  IdleInv'
    BY <1>1, <1>6 DEF LoseClaim, SubmitRaises
  <1>7. ASSUME NEW p \in Replicas, NEW x \in Runs, Submit(p, x)
        PROVE  IdleInv'
    BY <1>1, <1>7 DEF Submit
  <1>8. ASSUME NEW c \in Cancels, CancelStep(c) \/ CancelRaises(c)
        PROVE  IdleInv'
    BY <1>1, <1>8, CancelSends
  <1>9. CASE Clock
    BY <1>1, <1>9 DEF Clock
  <1>10. CASE \/ \E p \in Replicas : Sandbox(p) \/ Watcher(p) \/ WatchRaises(p)
              \/ \E c \in Cancels : \E p \in Replicas, x \in Runs, t \in Tenants :
                    CancelRun(c, p, x, t)
              \/ \E x \in Runs : PodUp(x) \/ PodGone(x)
              \/ UNCHANGED vars
    BY <1>1, <1>10, QuietSteps
  <1> QED
    BY <1>3, <1>4, <1>5, <1>6, <1>7, <1>8, <1>9, <1>10 DEF Next, Raise

LEMMA InitOne == Init => OneInv
  <1> SUFFICES ASSUME Init
               PROVE  OneInv
    OBVIOUS
  <1>1. IdleInv
    BY DEF Init, IdleInv, NoOrphan
  <1>2. ASSUME NEW r \in Runs
        PROVE  Good(r)
    <2>1. /\ status[r] = "absent" /\ submit[r] = "new" /\ r \notin Range(queue)
          /\ submitTenant[r] = NoTenant /\ \A t \in Tenants : r \notin running[t]
          /\ \A p \in Replicas : wrun[p] # r /\ ~Recovers(p, r)
      BY RunnerAssumption DEF Init, StoreInit, Range, NoOrphan, Recovers
    <2> QED
      BY <2>1 DEF Good, Fresh, Hashed, Slotted, Listed, Staged, Found, Unstarted
  <1> QED
    BY <1>1, <1>2 DEF OneInv

LEMMA OneHolds ==
    ASSUME Single
    PROVE  Spec => [](StoreInv /\ ServiceOK /\ OneInv)
  <1>1. Init => StoreInv /\ ServiceOK /\ OneInv
    BY InitOK, InitOne
  <1>2. StoreInv /\ ServiceOK /\ OneInv /\ [Next]_vars => (StoreInv /\ ServiceOK /\ OneInv)'
    BY StepOK, StepGood, StepIdle DEF OneInv
  <1> QED
    BY <1>1, <1>2, PTL DEF Spec


-----------------------------------------------------------------------------
(* The promises of a service of one replica                                  *)

\* The quota set of a tenant counts exactly the runs it has queued or running:
\* whichever of a mark, a cancel and a recovery ends a run takes its slot, and
\* nothing else does (queue.py: the scripts of submit, cancel and mark).
THEOREM SlotsMatch ==
    ASSUME Single
    PROVE  Spec => []SlotIffActive
  <1>1. OneInv => SlotIffActive
    BY DEF OneInv, Good, Slotted, SlotIffActive
  <1> QED
    BY <1>1, OneHolds, PTL

\* A run that was enqueued and is not over is on a list that a worker or the
\* next recovery reads (queue.py: claim_next, recover_orphans).
THEOREM NoneLost ==
    ASSUME Single
    PROVE  Spec => []NothingLost
  <1>1. OneInv => NothingLost
    BY DEF OneInv, Good, Listed, NothingLost
  <1> QED
    BY <1>1, OneHolds, PTL

\* A replica that serves has cleared up after the process before it: what is
\* running is in its own worker's hands (main.py: lifespan, _worker_loop).
THEOREM RunningIsHeld ==
    ASSUME Single
    PROVE  Spec => []RunningHasWorker
  <1>1. OneInv => RunningHasWorker
    BY DEF Single, OneInv, Good, Found, RunningHasWorker
  <1> QED
    BY <1>1, OneHolds, PTL


\* What a step may do to a run that is over.
LEMMA EndStays ==
    ASSUME StoreInv, ServiceOK, OneInv, [Next]_vars, NEW r \in Runs, status[r] \in Terminal
    PROVE  status'[r] \in {status[r], "absent"}
  <1> USE DEF storeVars, listVars, hashVars, quotaVars, submitVars
  <1>a. StoreTypeOK /\ Good(r)
    BY DEF StoreInv, OneInv
  <1> DEFINE Goal == status'[r] \in {status[r], "absent"}
  <1>0. status[r] \notin {"absent", "none", "queued", "running"}
    BY DEF Terminal
  <1>1. ASSUME NEW x \in Runs, NEW t \in Tenants,
               MarkCompleted(x, t) \/ MarkFailed(x, t) \/ MarkCanceled(x, t)
        PROVE  Goal
    <2>1. CASE r = x
      BY <1>1, <2>1, MarkEnds
    <2>2. CASE r # x
      BY <1>1, <1>a, <2>2, MarkFrame DEF SameRun
    <2> QED
      BY <2>1, <2>2
  <1>2. ASSUME NEW x \in Runs, NEW t \in Tenants, CancelQueued(x, t) \/ CancelRunning(x, t)
        PROVE  Goal
    <2>1. CASE r = x
      BY <1>0, <1>2, <1>a, <2>1 DEF CancelQueued, CancelRunning, CancelCode, StoreTypeOK
    <2>2. CASE r # x
      BY <1>2, <1>a, <2>2, CancelFrame DEF SameRun
    <2> QED
      BY <2>1, <2>2
  <1>3. ASSUME NEW x \in Runs, SubmitNext(x)
        PROVE  Goal
    <2>1. CASE r = x
      <3>1. submit[r] # "reserved"
        BY <1>0 DEF StoreInv, Unstored
      <3> QED
        BY <1>3, <2>1, <3>1
           DEF SubmitNext, ReserveOk, ReserveRefused, StoreRun, DateRun, Enqueue
    <2>2. CASE r # x
      BY <1>3, <1>a, <2>2, SubmitFrame DEF SameRun
    <2> QED
      BY <2>1, <2>2
  <1>4. ASSUME NEW x \in Runs, SetContainerName(x) \/ DropProcessing(x) \/ ExpireRun(x)
        PROVE  Goal
    BY <1>0, <1>4, <1>a DEF SetContainerName, DropProcessing, ExpireRun, StoreTypeOK
  <1>5. ASSUME NEW p \in Replicas, pc[p] = "read", wrun[p] \in Runs, StartOrAbort(wrun[p])
        PROVE  Goal
    <2>1. r = wrun[p] => status[r] = "canceled"
      BY <1>0, <1>5, <1>a DEF Good, Fresh, Unstarted
    <2> QED
      BY <1>5, <1>a, <2>1 DEF StartOrAbort, StoreTypeOK
  <1>6. ASSUME UNCHANGED status
        PROVE  Goal
    BY <1>6
  <1> HIDE DEF Goal
  <1>7. ASSUME NEW p \in Replicas, Startup(p)
        PROVE  Goal
    <2>1. \/ UNCHANGED status
          \/ /\ orphan[p].step \in {"drop", "fail", "cancel"}
             /\ \/ DropProcessing(orphan[p].run)
                \/ MarkFailed(orphan[p].run, orphan[p].tenant)
                \/ MarkCanceled(orphan[p].run, orphan[p].tenant)
      BY <1>7 DEF Startup, Reap, ListOrphans, ReadOrphan, RecoverOrphan, Serve
    <2>2. orphan[p].step \in {"drop", "fail", "cancel"} =>
             orphan[p].run \in Runs /\ orphan[p].tenant \in Tenants
      BY DEF ServiceOK, StartOK, Enqueued
    <2> QED
      BY <1>1, <1>4, <1>6, <2>1, <2>2
  <1>8. ASSUME NEW p \in Replicas, Work(p) \/ Hang(p) \/ WorkerDies(p) \/ CompleteRaises(p)
        PROVE  Goal
    <2>1. CASE Claim(p)
      BY <1>6, <2>1 DEF Claim, ClaimNext
    <2>2. CASE ~Claim(p)
      <3>1. /\ pc[p] \notin {"off", "idle"}
            /\ \/ StepMoves(p) \/ StepLeaves(p) \/ StepReads(p) \/ StepStarts(p)
               \/ StepNames(p) \/ StepMarks(p)
        BY <1>8, <2>2, WorkCases
      <3>2. wrun[p] \in Runs /\ wtenant[p] \in Tenants
        BY <3>1 DEF ServiceOK, WorkerOK, Enqueued
      <3> QED
        BY <1>1, <1>4, <1>5, <1>6, <3>1, <3>2
           DEF StepMoves, StepLeaves, StepReads, StepStarts, StepNames, StepMarks
    <2> QED
      BY <2>1, <2>2
  <1>9. ASSUME NEW p \in Replicas,
               Crash(p) \/ LoseClaim(p) \/ \E x \in Runs : SubmitRaises(p, x)
        PROVE  Goal
    <2>1. UNCHANGED status
      BY <1>9 DEF Crash, LoseClaim, SubmitRaises, ClaimNext, Abandon
    <2> QED
      BY <1>6, <2>1
  <1>10. ASSUME NEW p \in Replicas, NEW x \in Runs, Submit(p, x)
         PROVE  Goal
    BY <1>3, <1>10 DEF Submit, SubmitNext
  <1>11. ASSUME NEW c \in Cancels, CancelStep(c) \/ CancelRaises(c)
         PROVE  Goal
    BY <1>2, <1>6, <1>11, CancelSends
  <1>12. ASSUME Clock
         PROVE  Goal
    BY <1>4, <1>6, <1>12 DEF Clock, Midnight
  <1>13. ASSUME \/ \E p \in Replicas : Sandbox(p) \/ Watcher(p) \/ WatchRaises(p)
                \/ \E c \in Cancels : \E p \in Replicas, x \in Runs, t \in Tenants :
                      CancelRun(c, p, x, t)
                \/ \E x \in Runs : PodUp(x) \/ PodGone(x)
                \/ UNCHANGED vars
         PROVE  Goal
    BY <1>6, <1>13, QuietSteps
  <1>14. Goal
    BY <1>7, <1>8, <1>9, <1>10, <1>11, <1>12, <1>13 DEF Next, Raise
  <1> QED
    BY <1>14 DEF Goal

\* An end is final: a worker starts only what no mark has ended, and the marks
\* and cancels themselves leave a run alone that is over (queue.py: the scripts).
THEOREM EndsAreFinal ==
    ASSUME Single
    PROVE  Spec => TerminalFinal
  <1>1. StoreInv /\ ServiceOK /\ OneInv /\ [Next]_vars =>
           [\A r \in Runs : status[r] \in Terminal => status'[r] \in {status[r], "absent"}]_vars
    BY EndStays
  <1> QED
    BY <1>1, OneHolds, PTL DEF Spec, TerminalFinal

\* A container comes up only for a run its worker has past the start decision
\* and has not marked, and such a run is running (main.py: _execute_run).
THEOREM EndedNotLaunched ==
    ASSUME Single
    PROVE  Spec => NoLaunchAfterEnd
  <1>1. ASSUME StoreInv, ServiceOK, OneInv, [Next]_vars, NEW r \in Runs \ Expirable,
               status[r] \in Terminal, pod[r] = "none", pod'[r] # "none"
        PROVE  FALSE
    <2>1. PICK p \in Replicas : wrun[p] = r /\ box[p] = "prepare"
      BY <1>1, OnlyLaunch
    <2>2. pc[p] = "running"
      BY <1>1, <2>1 DEF ServiceOK, WorkerOK, BoxDone
    <2>3. status[r] = "running"
      BY <1>1, <2>1, <2>2 DEF OneInv, Good, Staged
    <2> QED
      BY <1>1, <2>3 DEF Terminal
  <1>2. StoreInv /\ ServiceOK /\ OneInv /\ [Next]_vars =>
           [\A r \in Runs \ Expirable :
               status[r] \in Terminal => ~(pod[r] = "none" /\ pod'[r] # "none")]_vars
    BY <1>1
  <1> QED
    BY <1>2, OneHolds, PTL DEF Spec, NoLaunchAfterEnd

-----------------------------------------------------------------------------
(* A service whose hashes do not expire implements RunLifecycle: the mapping *)
(* is the one of Runner, a run's phase is its status, or how far its submit  *)
(* has come before its hash is there.                                        *)

\* What RunLifecycle lets become of a run, its day and its cancel apart.
NextPhase(r) ==
    \/ Phase(r)' = Phase(r)
    \/ Phase(r) = "admitted" /\ Phase(r)' = "queued"
    \/ Phase(r) = "queued" /\ Phase(r)' \in {"running", "canceled", "failed"}
    \/ /\ Phase(r) = "running"
       /\ Phase(r)' \in IF cancelRequested[r] THEN {"canceled"} ELSE Terminal

LEMMA PhaseAdvances ==
    ASSUME NEW r \in Runs, NextPhase(r),
           \A x \in Runs : x # r => Phase(x)' = Phase(x),
           UNCHANGED <<submitTenant, submitDay, cancelRequested>>
    PROVE  [Lifecycle!LifeNext]_Lifecycle!lifeVars
  <1> DEFINE phase == [x \in Runs |-> Phase(x)]
  <1>1. phase' = [phase EXCEPT ![r] = Phase(r)'] /\ phase[r] = Phase(r)
    OBVIOUS
  <1>2. CASE Phase(r)' = Phase(r)
    <2>1. phase' = phase
      BY <1>2
    <2> QED
      BY <2>1 DEF Lifecycle!lifeVars
  <1>3. CASE Phase(r)' # Phase(r)
    <2>1. Lifecycle!Advance(r)
      BY <1>1, <1>3 DEF NextPhase, Lifecycle!Advance, Lifecycle!Becomes, Lifecycle!Over, Terminal
    <2> QED
      BY <2>1 DEF Lifecycle!LifeNext
  <1> QED
    BY <1>2, <1>3

\* A command to the store that takes one run through its phases.
LEMMA OneRunMaps ==
    ASSUME NEW x \in Runs, NextPhase(x),
           \A y \in Runs : y # x => SameRun(y),
           UNCHANGED <<submitTenant, submitDay, cancelRequested>>
    PROVE  [Lifecycle!LifeNext]_Lifecycle!lifeVars
  <1>1. \A y \in Runs : y # x => Phase(y)' = Phase(y)
    BY DEF SameRun, Phase
  <1> QED
    BY <1>1, PhaseAdvances

\* A command that changes no status, and no submit but one that was accepted.
LEMMA QuietMaps ==
    ASSUME UNCHANGED status,
           \A r \in Runs : submit'[r] # submit[r] =>
              /\ submit[r] \in SubmitStep \ {"new", "refused"}
              /\ submit'[r] \in SubmitStep \ {"new", "refused"},
           UNCHANGED <<submitTenant, submitDay, cancelRequested>>
    PROVE  [Lifecycle!LifeNext]_Lifecycle!lifeVars
  <1>1. \A r \in Runs : Phase(r)' = Phase(r)
    BY DEF Phase
  <1>2. UNCHANGED [r \in Runs |-> Phase(r)]
    BY <1>1
  <1> QED
    BY <1>2 DEF Lifecycle!lifeVars

-----------------------------------------------------------------------------
(* What the quotas of the life cycle count is what the store counts          *)

LEMMA BusyAre ==
    ASSUME Expirable = {}, StoreTypeOK, OneInv, NEW t \in Tenants
    PROVE  Lifecycle!Busy(t) = running[t]
  <1>1. ASSUME NEW r \in Runs
        PROVE  submitTenant[r] = t /\ Phase(r) \notin Terminal <=> r \in running[t]
    <2>1. Hashed(r) /\ Slotted(r)
      BY DEF OneInv, Good
    <2>2. CASE status[r] = "absent"
      <3>1. Phase(r) \notin Terminal
        BY <2>2 DEF Phase, Terminal
      <3> QED
        BY <2>1, <2>2, <3>1, StoreAssumption DEF Hashed, Slotted
    <2>3. CASE status[r] # "absent"
      <3>1. Phase(r) = status[r] /\ status[r] \in Active \cup Terminal
        BY <2>1, <2>3 DEF Phase, Hashed, StoreTypeOK, Status
      <3> QED
        BY <2>1, <2>3, <3>1 DEF Hashed, Slotted, Active, Terminal
    <2> QED
      BY <2>2, <2>3
  <1> QED
    BY <1>1 DEF Lifecycle!Busy, Lifecycle!Over, Terminal, StoreTypeOK

LEMMA QuotasAgree ==
    ASSUME Expirable = {}, StoreTypeOK, OneInv, QuotaInv, DailyInv,
           NEW t \in Tenants, NEW d \in Days
    PROVE  Lifecycle!WithinQuota(t, d) <=> ~OverConcurrent(t) /\ ~OverDaily(t, d)
  <1>1. Lifecycle!Busy(t) = running[t]
    BY BusyAre
  <1>2. Lifecycle!Seen(t, d) = Reservations(t, d)
    BY DEF Lifecycle!Seen, Reservations
  <1>3. Cardinality(running[t]) \in Nat /\ Cardinality(Reservations(t, d)) \in Nat
    BY FS_CardinalityType DEF QuotaInv, DailyInv
  <1>4. daily[t][d] = Cardinality(Reservations(t, d))
    BY DEF DailyInv
  <1>5. Lifecycle!WithinQuota(t, d) <=>
           /\ Cardinality(running[t]) < MaxConcurrent
           /\ Cardinality(Reservations(t, d)) < MaxDaily
    <2>1. \A S : Lifecycle!Cardinality(S) = Cardinality(S)
      BY DEF Cardinality, Lifecycle!Cardinality
    <2> QED
      BY <1>1, <1>2, <2>1 DEF Lifecycle!WithinQuota
  <1> QED
    BY <1>3, <1>4, <1>5, StoreAssumption DEF OverConcurrent, OverDaily

-----------------------------------------------------------------------------
(* What the commands are in the life cycle, one by one                       *)

LEMMA ReserveMaps ==
    ASSUME Expirable = {}, StoreInv, OneInv, QuotaInv, DailyInv,
           NEW x \in Runs, NEW t \in Tenants, NEW d \in ReservationDays,
           ReserveOk(x, t, d) \/ ReserveRefused(x, t, d)
    PROVE  [Lifecycle!LifeNext]_Lifecycle!lifeVars
  <1> DEFINE phase == [r \in Runs |-> Phase(r)]
  <1>a. StoreTypeOK /\ d \in Days /\ status[x] = "absent" /\ submit[x] = "new"
    BY DEF StoreInv, Unstored, ReservationDays, ReserveOk, ReserveRefused
  <1>b. Lifecycle!WithinQuota(t, d) <=> ~OverConcurrent(t) /\ ~OverDaily(t, d)
    BY <1>a, QuotasAgree
  <1>c. \A r \in Runs : r # x => Phase(r)' = Phase(r)
    BY <1>a, SubmitFrame DEF SubmitNext, SameRun, Phase
  <1>d. phase[x] = "new"
    BY <1>a DEF Phase
  <1>1. CASE ReserveOk(x, t, d)
    <2>1. Phase(x)' = "admitted"
      BY <1>1, <1>a DEF ReserveOk, hashVars, Phase, StoreTypeOK
    <2>2. phase' = [phase EXCEPT ![x] = "admitted"]
      BY <1>c, <2>1
    <2>3. Lifecycle!Admit(x, t, d)
      BY <1>1, <1>b, <1>d, <2>2 DEF ReserveOk, hashVars, Lifecycle!Admit, Lifecycle!Becomes
    <2> QED
      BY <1>a, <2>3 DEF Lifecycle!LifeNext, Days
  <1>2. CASE ReserveRefused(x, t, d)
    <2>1. Phase(x)' = "refused"
      BY <1>2, <1>a DEF ReserveRefused, hashVars, Phase, StoreTypeOK
    <2>2. phase' = [phase EXCEPT ![x] = "refused"]
      BY <1>c, <2>1
    <2>3. Lifecycle!Refuse(x, t, d)
      BY <1>2, <1>b, <1>d, <2>2 DEF ReserveRefused, hashVars, Lifecycle!Refuse, Lifecycle!Becomes
    <2> QED
      BY <1>a, <2>3 DEF Lifecycle!LifeNext, Days
  <1> QED
    BY <1>1, <1>2

LEMMA SubmitMaps ==
    ASSUME Expirable = {}, StoreInv, OneInv, QuotaInv, DailyInv, NEW x \in Runs, SubmitNext(x)
    PROVE  [Lifecycle!LifeNext]_Lifecycle!lifeVars
  <1>a. StoreTypeOK /\ Hashed(x)
    BY DEF StoreInv, OneInv, Good
  <1>b. \A y \in Runs : y # x => SameRun(y)
    BY <1>a, SubmitFrame
  <1>1. CASE StoreRun(x) \/ DateRun(x) \/ Enqueue(x)
    <2>1. UNCHANGED <<submitTenant, submitDay, cancelRequested>>
      BY <1>1 DEF StoreRun, DateRun, Enqueue, hashVars
    <2>2. CASE StoreRun(x)
      <3>1. status[x] = "absent" /\ submit[x] = "reserved" /\ status'[x] = "queued"
        BY <1>a, <2>2 DEF StoreInv, Unstored, StoreRun, StoreTypeOK
      <3>2. NextPhase(x)
        BY <3>1 DEF NextPhase, Phase
      <3> QED
        BY <1>b, <2>1, <3>2, OneRunMaps
    <2>3. CASE DateRun(x) \/ Enqueue(x)
      <3>1. status[x] # "absent" /\ status' = status
        BY <1>a, <2>3 DEF DateRun, Enqueue, Hashed, hashVars
      <3>2. NextPhase(x)
        BY <3>1 DEF NextPhase, Phase
      <3> QED
        BY <1>b, <2>1, <3>2, OneRunMaps
    <2> QED
      BY <1>1, <2>2, <2>3
  <1> QED
    BY <1>1, ReserveMaps DEF SubmitNext

LEMMA MarkMaps ==
    ASSUME StoreTypeOK, NEW x \in Runs, NEW t \in Tenants,
           status[x] \in Active \cup Terminal,
           \/ MarkCompleted(x, t) /\ status[x] # "queued"
           \/ MarkFailed(x, t) \/ MarkCanceled(x, t)
    PROVE  [Lifecycle!LifeNext]_Lifecycle!lifeVars
  <1>1. \A y \in Runs : y # x => SameRun(y)
    BY MarkFrame
  <1>2. UNCHANGED <<submitTenant, submitDay, cancelRequested>>
    BY DEF MarkCompleted, MarkFailed, MarkTerminal, MarkCanceled, Retire, storeVars, hashVars,
           submitVars
  <1>3. \/ status'[x] = status[x]
        \/ /\ status[x] \in Active
           /\ \/ status'[x] = "canceled"
              \/ status'[x] = "failed" /\ ~cancelRequested[x]
              \/ status'[x] = "completed" /\ status[x] = "running" /\ ~cancelRequested[x]
    BY DEF MarkCompleted, MarkFailed, MarkTerminal, MarkCanceled, StoreTypeOK, storeVars, hashVars,
           Active
  <1>4. NextPhase(x)
    BY <1>3 DEF NextPhase, Phase, Active, Terminal
  <1> QED
    BY <1>1, <1>2, <1>4, OneRunMaps

LEMMA StartMaps ==
    ASSUME StoreTypeOK, NEW x \in Runs, StartOrAbort(x), status[x] \in {"queued", "canceled"}
    PROVE  [Lifecycle!LifeNext]_Lifecycle!lifeVars
  <1>1. \A y \in Runs : y # x => SameRun(y)
    BY RunFrame
  <1>2. UNCHANGED <<submitTenant, submitDay, cancelRequested>>
    BY DEF StartOrAbort, submitVars
  <1>3. NextPhase(x)
    BY DEF StartOrAbort, NextPhase, Phase, StoreTypeOK
  <1> QED
    BY <1>1, <1>2, <1>3, OneRunMaps

LEMMA NameMaps ==
    ASSUME StoreTypeOK, NEW x \in Runs, SetContainerName(x), status[x] # "absent"
    PROVE  [Lifecycle!LifeNext]_Lifecycle!lifeVars
  <1>1. UNCHANGED <<status, submit, submitTenant, submitDay, cancelRequested>>
    BY DEF SetContainerName, submitVars, StoreTypeOK
  <1> QED
    BY <1>1, QuietMaps

LEMMA CancelMaps ==
    ASSUME StoreTypeOK, NEW x \in Runs, NEW t \in Tenants,
           CancelQueued(x, t) \/ CancelRunning(x, t)
    PROVE  [Lifecycle!LifeNext]_Lifecycle!lifeVars
  <1>a. \A y \in Runs : y # x => SameRun(y)
    BY CancelFrame
  <1>1. CASE UNCHANGED storeVars
    BY <1>1, QuietMaps DEF storeVars, hashVars, submitVars
  <1>2. CASE CancelQueued(x, t) /\ ~UNCHANGED storeVars
    <2>1. /\ status[x] = "queued" /\ status'[x] = "canceled"
          /\ UNCHANGED <<submitTenant, submitDay, cancelRequested>>
      BY <1>2 DEF CancelQueued, CancelCode, StoreTypeOK, submitVars
    <2>2. NextPhase(x)
      BY <2>1 DEF NextPhase, Phase
    <2> QED
      BY <1>a, <2>1, <2>2, OneRunMaps
  <1>3. CASE CancelRunning(x, t) /\ ~UNCHANGED storeVars
    <2>1. /\ status[x] = "running" /\ UNCHANGED <<status, submit, submitTenant, submitDay>>
          /\ cancelRequested' = [cancelRequested EXCEPT ![x] = TRUE]
      BY <1>3 DEF CancelRunning, CancelCode, submitVars
    <2>2. UNCHANGED [r \in Runs |-> Phase(r)] /\ Phase(x) = "running"
      BY <2>1 DEF Phase
    <2>3. Lifecycle!Advance(x) /\ UNCHANGED <<submitTenant, submitDay>>
      BY <2>1, <2>2 DEF Lifecycle!Advance
    <2> QED
      BY <2>3 DEF Lifecycle!LifeNext
  <1> QED
    BY <1>1, <1>2, <1>3

-----------------------------------------------------------------------------
(* ... and the steps of the service                                          *)

LEMMA WorkMaps ==
    ASSUME Expirable = {}, StoreInv, ServiceOK, OneInv, NEW p \in Replicas,
           Work(p) \/ Hang(p) \/ WorkerDies(p) \/ CompleteRaises(p)
    PROVE  [Lifecycle!LifeNext]_Lifecycle!lifeVars
  <1> DEFINE x == wrun[p]
             t == wtenant[p]
  <1>a. StoreTypeOK
    BY DEF StoreInv
  <1>1. CASE Claim(p)
    <2>1. UNCHANGED <<hashVars, submitVars>>
      BY <1>1 DEF Claim, ClaimNext
    <2> QED
      BY <2>1, QuietMaps DEF hashVars, submitVars
  <1>2. CASE ~Claim(p)
    <2>1. /\ pc[p] \notin {"off", "idle"}
          /\ \/ StepMoves(p) \/ StepLeaves(p) \/ StepReads(p) \/ StepStarts(p)
             \/ StepNames(p) \/ StepMarks(p)
      BY <1>2, WorkCases
    <2>2. x \in Runs /\ t \in Tenants /\ submit[x] = "enqueued"
      BY <2>1 DEF ServiceOK, WorkerOK, Enqueued
    <2>3. Fresh(x) /\ Hashed(x) /\ Staged(p, x)
      BY <2>2 DEF OneInv, Good
    <2>4. status[x] \in Active \cup Terminal
      BY <1>a, <2>2, <2>3 DEF Hashed, StoreTypeOK, Status
    <2>5. CASE StepMoves(p) \/ StepLeaves(p) \/ StepReads(p)
      <3>1. UNCHANGED storeVars
        BY <2>5 DEF StepMoves, StepLeaves, StepReads
      <3> QED
        BY <3>1, QuietMaps DEF storeVars, hashVars, submitVars
    <2>6. CASE StepStarts(p)
      <3>1. StartOrAbort(x) /\ status[x] \in {"queued", "canceled"}
        BY <2>3, <2>4, <2>6 DEF StepStarts, Fresh, Unstarted, Active, Terminal
      <3> HIDE DEF x
      <3> QED
        BY <1>a, <2>2, <3>1, StartMaps
    <2>7. CASE StepNames(p)
      <3>1. SetContainerName(x) /\ status[x] # "absent"
        BY <2>4, <2>7 DEF StepNames, Active, Terminal
      <3> HIDE DEF x
      <3> QED
        BY <1>a, <2>2, <3>1, NameMaps
    <2>8. CASE StepMarks(p)
      <3>1. status[x] # "queued"
        BY <2>3, <2>8 DEF StepMarks, Staged, Terminal
      <3>2. MarkCompleted(x, t) \/ MarkFailed(x, t) \/ MarkCanceled(x, t)
        BY <2>8 DEF StepMarks
      <3> HIDE DEF x, t
      <3> QED
        BY <1>a, <2>2, <2>4, <3>1, <3>2, MarkMaps
    <2> QED
      BY <2>1, <2>5, <2>6, <2>7, <2>8
  <1> QED
    BY <1>1, <1>2

LEMMA StartupMaps ==
    ASSUME Expirable = {}, StoreInv, ServiceOK, OneInv, NEW p \in Replicas, Startup(p)
    PROVE  [Lifecycle!LifeNext]_Lifecycle!lifeVars
  <1> DEFINE x == orphan[p].run
             t == orphan[p].tenant
  <1>a. StoreTypeOK
    BY DEF StoreInv
  <1>1. \/ UNCHANGED storeVars
        \/ /\ orphan[p].step \in {"drop", "fail", "cancel"}
           /\ \/ DropProcessing(x) \/ MarkFailed(x, t) \/ MarkCanceled(x, t)
    BY DEF Startup, Reap, ListOrphans, ReadOrphan, RecoverOrphan, Serve
  <1>2. CASE UNCHANGED storeVars
    BY <1>2, QuietMaps DEF storeVars, hashVars, submitVars
  <1>3. CASE DropProcessing(x)
    <2>1. UNCHANGED <<hashVars, submitVars>>
      BY <1>3 DEF DropProcessing
    <2> QED
      BY <2>1, QuietMaps DEF hashVars, submitVars
  <1>4. CASE /\ orphan[p].step \in {"drop", "fail", "cancel"}
             /\ MarkFailed(x, t) \/ MarkCanceled(x, t)
    <2>1. x \in Runs /\ t \in Tenants /\ submit[x] = "enqueued"
      BY <1>4 DEF ServiceOK, StartOK, Enqueued
    <2>2. Hashed(x)
      BY <2>1 DEF OneInv, Good
    <2>3. status[x] \in Active \cup Terminal
      BY <1>a, <2>1, <2>2 DEF Hashed, StoreTypeOK, Status
    <2> HIDE DEF x, t
    <2> QED
      BY <1>4, <1>a, <2>1, <2>3, MarkMaps
  <1> QED
    BY <1>1, <1>2, <1>3, <1>4

LEMMA StepMaps ==
    ASSUME Expirable = {}, StoreInv, ServiceOK, OneInv, QuotaInv, DailyInv, [Next]_vars
    PROVE  [Lifecycle!LifeNext]_Lifecycle!lifeVars
  <1>a. StoreTypeOK
    BY DEF StoreInv
  <1>1. ASSUME UNCHANGED storeVars
        PROVE  [Lifecycle!LifeNext]_Lifecycle!lifeVars
    BY <1>1, QuietMaps DEF storeVars, hashVars, submitVars
  <1>2. ASSUME NEW S, Abandon(S)
        PROVE  [Lifecycle!LifeNext]_Lifecycle!lifeVars
    <2>1. UNCHANGED <<hashVars, submitTenant, submitDay>>
      BY <1>2 DEF Abandon
    <2>2. ASSUME NEW r \in Runs, submit'[r] # submit[r]
          PROVE  /\ submit[r] \in SubmitStep \ {"new", "refused"}
                 /\ submit'[r] \in SubmitStep \ {"new", "refused"}
      BY <1>2, <2>2 DEF Abandon, InFlight, SubmitStep
    <2> QED
      BY <2>1, <2>2, QuietMaps DEF hashVars
  <1>3. ASSUME NEW p \in Replicas,
               Crash(p) \/ LoseClaim(p) \/ \E x \in Runs : SubmitRaises(p, x)
        PROVE  [Lifecycle!LifeNext]_Lifecycle!lifeVars
    <2>1. CASE LoseClaim(p)
      <3>1. UNCHANGED <<hashVars, submitVars>>
        BY <2>1 DEF LoseClaim, ClaimNext
      <3> QED
        BY <3>1, QuietMaps DEF hashVars, submitVars
    <2>2. CASE \E S : Abandon(S)
      BY <1>2, <2>2
    <2> QED
      BY <1>3, <2>1, <2>2 DEF Crash, SubmitRaises
  <1>4. ASSUME NEW p \in Replicas, NEW x \in Runs, Submit(p, x)
        PROVE  [Lifecycle!LifeNext]_Lifecycle!lifeVars
    <2>1. SubmitNext(x)
      BY <1>4 DEF Submit, SubmitNext
    <2> QED
      BY <2>1, SubmitMaps
  <1>5. ASSUME NEW c \in Cancels, CancelStep(c) \/ CancelRaises(c)
        PROVE  [Lifecycle!LifeNext]_Lifecycle!lifeVars
    BY <1>1, <1>5, <1>a, CancelSends, CancelMaps
  <1>6. ASSUME Clock
        PROVE  [Lifecycle!LifeNext]_Lifecycle!lifeVars
    <2>1. UNCHANGED <<hashVars, submitVars>>
      BY <1>6 DEF Clock, Midnight, ExpireRun
    <2> QED
      BY <2>1, QuietMaps DEF hashVars, submitVars
  <1>7. ASSUME \/ \E p \in Replicas : Sandbox(p) \/ Watcher(p) \/ WatchRaises(p)
               \/ \E c \in Cancels : \E p \in Replicas, x \in Runs, t \in Tenants :
                     CancelRun(c, p, x, t)
               \/ \E x \in Runs : PodUp(x) \/ PodGone(x)
               \/ UNCHANGED vars
        PROVE  [Lifecycle!LifeNext]_Lifecycle!lifeVars
    BY <1>1, <1>7, QuietSteps
  <1> QED
    BY <1>3, <1>4, <1>5, <1>6, <1>7, WorkMaps, StartupMaps DEF Next, Raise

LEMMA InitMaps == Init => Lifecycle!LifeInit
  <1> SUFFICES ASSUME Init
               PROVE  Lifecycle!LifeInit
    OBVIOUS
  <1>1. \A r \in Runs : Phase(r) = "new"
    BY DEF Init, StoreInit, Phase
  <1>2. 1 \in Days
    BY StoreAssumption DEF Days
  <1> QED
    BY <1>1, <1>2 DEF Init, StoreInit, Lifecycle!LifeInit, Days

\* Seen from its callers the service is the life cycle: quotas admit what they
\* should and refuse the rest, and no crash, fault, cancel or recovery takes a
\* run through a change of status that the cancel design does not have
\* (queue.py: the scripts; main.py: _execute_run, recover_orphans).
THEOREM RefinesLifecycle ==
    ASSUME Single, Expirable = {}
    PROVE  Spec => ImplementsLifecycle
  <1>1. Spec => [](QuotaInv /\ DailyInv)
    BY KeepsToTheStore, QuotaInvHolds, DailyInvHolds, PTL
  <1>2. StoreInv /\ ServiceOK /\ OneInv /\ QuotaInv /\ DailyInv /\ [Next]_vars =>
           [Lifecycle!LifeNext]_Lifecycle!lifeVars
    BY StepMaps
  <1> QED
    BY <1>1, <1>2, InitMaps, OneHolds, PTL DEF Spec, ImplementsLifecycle, Lifecycle!LifeSpec

=============================================================================
