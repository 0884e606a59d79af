------------------------------ MODULE RunStore ------------------------------
(***************************************************************************)
(* The Valkey store of the runner service and the operations of class      *)
(* Queue on it (services/runner/src/queue.py).  Valkey runs one command,   *)
(* or one Lua script, at a time, so a command and a script are one action  *)
(* each, and a method that sends several commands is several actions.      *)
(*                                                                         *)
(*   key in Valkey            variable                                     *)
(*   runs:queue         LIST  queue, oldest run first                      *)
(*   runs:processing    LIST  processing; an id enters it at most once and *)
(*                            LREM removes every occurrence: a set         *)
(*   run:{id}           HASH  status, owner (the field tenant_id),         *)
(*                            cancelRequested, containerName (is it set?), *)
(*                            expiring (does the key carry a TTL?)         *)
(*   tenant:{t}:running  SET  running                                      *)
(*   tenant:{t}:daily:D       daily                                        *)
(*                                                                         *)
(* StoreSpec lets any client call any method at any time: what holds of    *)
(* StoreSpec holds whatever the service above the store does.              *)
(***************************************************************************)
EXTENDS SequencesExt

CONSTANTS
    Runs,            \* run ids: one per call of submit
    Tenants,         \* tenant ids
    NoTenant,        \* a hash without a tenant_id field, and no tenant yet
    DefaultTenant,   \* the tenant "default" readers use when the field is missing
    MaxConcurrent,   \* QUOTA_CONCURRENT_DEFAULT
    MaxDaily,        \* QUOTA_DAILY_DEFAULT
    MaxDay,          \* bound: the number of days a behaviour may last
    Expirable        \* bound: the runs whose 24 h TTL may fire

ASSUME StoreAssumption ==
    /\ NoTenant \notin Tenants
    /\ DefaultTenant \in Tenants
    /\ MaxConcurrent \in Nat
    /\ MaxDaily \in Nat
    /\ MaxDay \in Nat \ {0}
    /\ Expirable \subseteq Runs

VARIABLES
    queue, processing,
    status, owner, cancelRequested, containerName, expiring,
    running, daily, today,
    submit,          \* how far the call of submit for this id has come
    submitTenant,    \* the tenant it was called for
    submitDay        \* the day whose counter it incremented

listVars   == <<queue, processing>>
hashVars   == <<status, owner, cancelRequested, containerName, expiring>>
quotaVars  == <<running, daily, today>>
submitVars == <<submit, submitTenant, submitDay>>
storeVars  == <<listVars, hashVars, quotaVars, submitVars>>

Days == 1 .. MaxDay

\* "absent": there is no key run:{id}.  "none": the hash has no status field.
Terminal == {"completed", "failed", "canceled"}
Active   == {"queued", "running"}
Status   == {"absent", "none"} \cup Active \cup Terminal

SubmitStep == {"new", "reserved", "stored", "dated", "enqueued", "refused",
               "abandoned"}

TenantOf(r) == IF owner[r] = NoTenant THEN DefaultTenant ELSE owner[r]

StoreInit ==
    /\ queue = <<>>
    /\ processing = {}
    /\ status = [r \in Runs |-> "absent"]
    /\ owner = [r \in Runs |-> NoTenant]
    /\ cancelRequested = [r \in Runs |-> FALSE]
    /\ containerName = [r \in Runs |-> FALSE]
    /\ expiring = [r \in Runs |-> FALSE]
    /\ running = [t \in Tenants |-> {}]
    /\ daily = [t \in Tenants |-> [d \in Days |-> 0]]
    /\ today = 1
    /\ submit = [r \in Runs |-> "new"]
    /\ submitTenant = [r \in Runs |-> NoTenant]
    /\ submitDay = [r \in Runs |-> 1]

-----------------------------------------------------------------------------
(* submit: reserve_or_raise, HSET, EXPIRE, LPUSH, in four round trips *)

\* Faulty variant for a mutation run: the cap is passed by one.
OverConcurrentOffByOne(t) == Cardinality(running[t]) > MaxConcurrent

OverConcurrent(t) == Cardinality(running[t]) >= MaxConcurrent
OverDaily(t, d)   == daily[t][d] >= MaxDaily

\* The date is read before the script is sent: midnight may fall in between.
ReservationDays == {today, today - 1} \cap Days

ReserveOk(r, t, d) ==
    /\ submit[r] = "new"
    /\ ~OverConcurrent(t)
    /\ ~OverDaily(t, d)
    /\ running' = [running EXCEPT ![t] = @ \cup {r}]
    /\ daily' = [daily EXCEPT ![t][d] = @ + 1]
    /\ submit' = [submit EXCEPT ![r] = "reserved"]
    /\ submitTenant' = [submitTenant EXCEPT ![r] = t]
    /\ submitDay' = [submitDay EXCEPT ![r] = d]
    /\ UNCHANGED <<listVars, hashVars, today>>

ReserveRefused(r, t, d) ==
    /\ submit[r] = "new"
    /\ OverConcurrent(t) \/ OverDaily(t, d)
    /\ submit' = [submit EXCEPT ![r] = "refused"]
    /\ UNCHANGED <<listVars, hashVars, quotaVars, submitTenant, submitDay>>

StoreRun(r) ==
    /\ submit[r] = "reserved"
    /\ status' = [status EXCEPT ![r] = "queued"]
    /\ owner' = [owner EXCEPT ![r] = submitTenant[r]]
    /\ submit' = [submit EXCEPT ![r] = "stored"]
    /\ UNCHANGED <<listVars, quotaVars, cancelRequested, containerName,
                   expiring, submitTenant, submitDay>>

DateRun(r) ==
    /\ submit[r] = "stored"
    /\ expiring' = [expiring EXCEPT ![r] = TRUE]
    /\ submit' = [submit EXCEPT ![r] = "dated"]
    /\ UNCHANGED <<listVars, quotaVars, status, owner, cancelRequested,
                   containerName, submitTenant, submitDay>>

Enqueue(r) ==
    /\ submit[r] = "dated"
    /\ queue' = Append(queue, r)
    /\ submit' = [submit EXCEPT ![r] = "enqueued"]
    /\ UNCHANGED <<processing, hashVars, quotaVars, submitTenant, submitDay>>

InFlight == {r \in Runs : submit[r] \in {"reserved", "stored", "dated"}}

\* The callers of the submits in S crash, or a command of theirs raises,
\* between two of the commands: nothing undoes the ones already sent.
Abandon(S) ==
    /\ S \subseteq InFlight
    /\ submit' = [r \in Runs |-> IF r \in S THEN "abandoned" ELSE submit[r]]
    /\ UNCHANGED <<listVars, hashVars, quotaVars, submitTenant, submitDay>>

-----------------------------------------------------------------------------
(* The worker's methods *)

\* Faulty variant: the head is copied to processing and left in the queue.
ClaimNextByCopy ==
    /\ queue # <<>>
    /\ processing' = processing \cup {Head(queue)}
    /\ UNCHANGED <<queue, hashVars, quotaVars, submitVars>>

\* BRPOPLPUSH runs:queue runs:processing
ClaimNext ==
    /\ queue # <<>>
    /\ processing' = processing \cup {Head(queue)}
    /\ queue' = Tail(queue)
    /\ UNCHANGED <<hashVars, quotaVars, submitVars>>

\* Faulty variant: mark_running as it was before the cancel script.
StartAlways(r) ==
    /\ status' = [status EXCEPT ![r] = "running"]
    /\ UNCHANGED <<listVars, quotaVars, submitVars, owner, cancelRequested,
                   containerName, expiring>>

StartOrAbort(r) ==
    /\ status' = [status EXCEPT ![r] = IF @ = "canceled" THEN @ ELSE "running"]
    /\ UNCHANGED <<listVars, quotaVars, submitVars, owner, cancelRequested,
                   containerName, expiring>>

\* HSET creates the hash when the key has expired.
SetContainerName(r) ==
    /\ containerName' = [containerName EXCEPT ![r] = TRUE]
    /\ status' = [status EXCEPT ![r] = IF @ = "absent" THEN "none" ELSE @]
    /\ UNCHANGED <<listVars, quotaVars, submitVars, owner, cancelRequested,
                   expiring>>

\* What every terminal write does besides the status itself.
Retire(r, t) ==
    /\ processing' = processing \ {r}
    /\ running' = [running EXCEPT ![t] = @ \ {r}]
    /\ UNCHANGED <<queue, daily, today, submitVars, owner, cancelRequested,
                   containerName, expiring>>

\* Faulty variants: the terminal script ignores the cancel flag, ignores that
\* the run is over, stores the status of the result, or keeps the slot.
MarkTerminalDeaf(r, t, intended) ==
    IF status[r] \in Terminal THEN UNCHANGED storeVars
    ELSE status' = [status EXCEPT ![r] = intended] /\ Retire(r, t)

MarkTerminalAgain(r, t, intended) ==
    /\ status' = [status EXCEPT ![r] = IF cancelRequested[r] THEN "canceled" ELSE intended]
    /\ Retire(r, t)

MarkTerminalResult(r, t, intended) ==
    IF status[r] \in Terminal THEN UNCHANGED storeVars
    ELSE status' = [status EXCEPT ![r] = "error"] /\ Retire(r, t)

MarkTerminalKeepsSlot(r, t, intended) ==
    IF status[r] \in Terminal THEN UNCHANGED storeVars
    ELSE /\ status' = [status EXCEPT ![r] =
                          IF cancelRequested[r] THEN "canceled" ELSE intended]
         /\ processing' = processing \ {r}
         /\ UNCHANGED <<queue, quotaVars, submitVars, owner, cancelRequested,
                        containerName, expiring>>

\* mark_completed and mark_failed: intended is "completed" or "failed".
MarkTerminal(r, t, intended) ==
    \/ /\ status[r] \in Terminal
       /\ UNCHANGED storeVars
    \/ /\ status[r] \notin Terminal
       /\ status' = [status EXCEPT ![r] =
                        IF cancelRequested[r] THEN "canceled" ELSE intended]
       /\ Retire(r, t)

MarkCompleted(r, t) == MarkTerminal(r, t, "completed")

MarkFailed(r, t) == MarkTerminal(r, t, "failed")

MarkCanceled(r, t) ==
    \/ /\ status[r] \in Terminal
       /\ UNCHANGED storeVars
    \/ /\ status[r] \notin Terminal
       /\ status' = [status EXCEPT ![r] = "canceled"]
       /\ Retire(r, t)

\* recover_orphans on an id whose hash has expired.
DropProcessing(r) ==
    /\ processing' = processing \ {r}
    /\ UNCHANGED <<queue, hashVars, quotaVars, submitVars>>

-----------------------------------------------------------------------------
(* The cancel scripts, their return code, and release *)

\* 3: no hash; 1: another tenant's run; 2: not in the wanted status; 0: done.
CancelCode(r, t, wanted) ==
    CASE status[r] = "absent" -> 3
      [] status[r] # "absent" /\ owner[r] # t -> 1
      [] status[r] # "absent" /\ owner[r] = t /\ status[r] # wanted -> 2
      [] OTHER -> 0

\* LREM: the queue without r, which occurs in it at most once.
Lrem(q, r) ==
    IF r \in Range(q) THEN RemoveAt(q, CHOOSE i \in DOMAIN q : q[i] = r) ELSE q

\* Faulty variants: the cancel gives the daily submit back, or keeps the slot.
CancelQueuedRefunds(r, t) ==
    \/ /\ CancelCode(r, t, "queued") # 0
       /\ UNCHANGED storeVars
    \/ /\ CancelCode(r, t, "queued") = 0
       /\ queue' = Lrem(queue, r)
       /\ processing' = processing \ {r}
       /\ running' = [running EXCEPT ![t] = @ \ {r}]
       /\ daily' = [daily EXCEPT ![t][today] = @ - 1]
       /\ status' = [status EXCEPT ![r] = "canceled"]
       /\ UNCHANGED <<today, submitVars, owner, cancelRequested, containerName, expiring>>

CancelQueuedKeepsSlot(r, t) ==
    \/ /\ CancelCode(r, t, "queued") # 0
       /\ UNCHANGED storeVars
    \/ /\ CancelCode(r, t, "queued") = 0
       /\ queue' = Lrem(queue, r)
       /\ processing' = processing \ {r}
       /\ status' = [status EXCEPT ![r] = "canceled"]
       /\ UNCHANGED <<quotaVars, submitVars, owner, cancelRequested, containerName,
                      expiring>>

CancelQueued(r, t) ==
    \/ /\ CancelCode(r, t, "queued") # 0
       /\ UNCHANGED storeVars
    \/ /\ CancelCode(r, t, "queued") = 0
       /\ queue' = Lrem(queue, r)
       /\ processing' = processing \ {r}
       /\ running' = [running EXCEPT ![t] = @ \ {r}]
       /\ status' = [status EXCEPT ![r] = "canceled"]
       /\ UNCHANGED <<daily, today, submitVars, owner, cancelRequested,
                      containerName, expiring>>

CancelRunning(r, t) ==
    \/ /\ CancelCode(r, t, "running") # 0
       /\ UNCHANGED storeVars
    \/ /\ CancelCode(r, t, "running") = 0
       /\ cancelRequested' = [cancelRequested EXCEPT ![r] = TRUE]
       /\ UNCHANGED <<listVars, quotaVars, submitVars, status, owner,
                      containerName, expiring>>

Release(r, t) ==
    /\ running' = [running EXCEPT ![t] = @ \ {r}]
    /\ UNCHANGED <<listVars, hashVars, submitVars, daily, today>>

-----------------------------------------------------------------------------
(* The clock: the TTL of a hash fires, midnight UTC passes *)

\* EXPIRE is sent once, at submit; no later HSET renews it.
ExpireRun(r) ==
    /\ r \in Expirable
    /\ expiring[r]
    /\ status' = [status EXCEPT ![r] = "absent"]
    /\ owner' = [owner EXCEPT ![r] = NoTenant]
    /\ cancelRequested' = [cancelRequested EXCEPT ![r] = FALSE]
    /\ containerName' = [containerName EXCEPT ![r] = FALSE]
    /\ expiring' = [expiring EXCEPT ![r] = FALSE]
    /\ UNCHANGED <<listVars, quotaVars, submitVars>>

Midnight ==
    /\ today < MaxDay
    /\ today' = today + 1
    /\ UNCHANGED <<listVars, hashVars, submitVars, running, daily>>

-----------------------------------------------------------------------------
(* The most general client *)

SubmitNext(r) ==
    \/ \E t \in Tenants, d \in ReservationDays :
          ReserveOk(r, t, d) \/ ReserveRefused(r, t, d)
    \/ StoreRun(r)
    \/ DateRun(r)
    \/ Enqueue(r)

\* A worker, or a recovery, learns of an id from the queue or from processing.
WorkerNext(r) ==
    /\ submit[r] = "enqueued"
    /\ \/ StartOrAbort(r)
       \/ SetContainerName(r)
       \/ DropProcessing(r)
       \/ \E t \in Tenants :
             \/ \E intended \in {"completed", "failed"} :
                   MarkTerminal(r, t, intended)
             \/ MarkCanceled(r, t)

CancelNext(r) ==
    \E t \in Tenants : CancelQueued(r, t) \/ CancelRunning(r, t) \/ Release(r, t)

StoreNext ==
    \/ ClaimNext
    \/ Midnight
    \/ \E S \in SUBSET InFlight : Abandon(S)
    \/ \E r \in Runs :
          SubmitNext(r) \/ WorkerNext(r) \/ CancelNext(r) \/ ExpireRun(r)

StoreSpec == StoreInit /\ [][StoreNext]_storeVars

-----------------------------------------------------------------------------
(* Properties of the store, whatever its clients do *)

\* The type of the store's keys; today never leaves the bound.
StoreTypeOK ==
    /\ queue \in Seq(Runs)
    /\ processing \subseteq Runs
    /\ status \in [Runs -> Status]
    /\ owner \in [Runs -> Tenants \cup {NoTenant}]
    /\ cancelRequested \in [Runs -> BOOLEAN]
    /\ containerName \in [Runs -> BOOLEAN]
    /\ expiring \in [Runs -> BOOLEAN]
    /\ running \in [Tenants -> SUBSET Runs]
    /\ daily \in [Tenants -> [Days -> Nat]]
    /\ today \in Days
    /\ submit \in [Runs -> SubmitStep]
    /\ submitTenant \in [Runs -> Tenants \cup {NoTenant}]
    /\ submitDay \in [Runs -> Days]

\* Concurrent submits of one tenant never exceed its cap: the check and the
\* SADD are one script, and no other command adds to the set.
QuotaCap == \A t \in Tenants : Cardinality(running[t]) <= MaxConcurrent

\* The reservations the daily counter of tenant t and day d stands for.
Reservations(t, d) ==
    {r \in Runs : submitTenant[r] = t /\ submitDay[r] = d}

\* The daily counter is the number of accepted submits of that day and stays
\* within the cap: no cancel, failure or crash gives one back, and a submit
\* that straddles midnight is counted once.
DailyExact ==
    \A t \in Tenants, d \in Days :
        /\ daily[t][d] = Cardinality(Reservations(t, d))
        /\ daily[t][d] <= MaxDaily

\* A run whose cancel was accepted while it ran ends canceled and in no other
\* terminal status, whichever of mark_completed, mark_failed, mark_canceled
\* and a second cancel comes first, and in whichever order they come.
CancelWins ==
    \A r \in Runs :
        cancelRequested[r] /\ status[r] \in Terminal => status[r] = "canceled"

\* Canceled is final: no worker that claimed the run before the cancel, and no
\* late mark, takes it back; only the TTL of the hash ends it.
CanceledSticky ==
    [][\A r \in Runs :
          status[r] = "canceled" => status'[r] \in {"canceled", "absent"}]_storeVars

\* A run is handed out at most once: an id stands in the queue at most once,
\* never in the queue and in processing together, and only an enqueued one.
HandedOutOnce ==
    /\ \A i, j \in DOMAIN queue : queue[i] = queue[j] => i = j
    /\ Range(queue) \cap processing = {}
    /\ \A r \in Range(queue) \cup processing : submit[r] = "enqueued"

=============================================================================
