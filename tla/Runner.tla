------------------------------- MODULE Runner -------------------------------
(***************************************************************************)
(* The runner service: replicas of services/runner/src/main.py over the    *)
(* store of RunStore, and the sandbox containers they drive through podman *)
(* (services/runner/src/sandbox_executor.py).  A replica is one asyncio    *)
(* process; its tasks interleave at their awaits, so an action is what a   *)
(* task does from one await to the next, with one command to Valkey or one *)
(* podman call in it.                                                      *)
(*                                                                         *)
(*   the process     down -> reaped -> recovering -> serving   life        *)
(*   the worker      one per replica, a program counter        pc          *)
(*   its sandbox     the asyncio task of run_sandbox           box         *)
(*   its watcher     the asyncio task _watch_for_cancel        watcher     *)
(*   the container   on the podman host, outlives the process  pod         *)
(*   cancel_run      one handler per request                   cancel      *)
(*   submit_run      the store's submit steps, at a replica    submitAt    *)
(***************************************************************************)
EXTENDS RunStore

CONSTANTS
    Replicas,      \* runner-service processes that share the store
    Cancels,       \* bound: the cancel requests that are ever made
    NoRun,         \* a worker or a recovery that holds no run
    KillMayFail,   \* may podman kill and podman rm -f fail?
    MaxCrashes,    \* bound: the processes that ever stop
    MaxFaults      \* bound: the commands that ever raise in the service

ASSUME RunnerAssumption ==
    /\ NoRun \notin Runs
    /\ KillMayFail \in BOOLEAN
    /\ MaxCrashes \in Nat
    /\ MaxFaults \in Nat

VARIABLES
    life,          \* how far the process of a replica is in its startup
    todo,          \* the ids recover_orphans has listed and not yet read
    orphan,        \* the one it has read, and what it does with it next
    pc, wrun, wtenant,   \* the worker: where it is, its run and its tenant
    box, watcher, pod, cancel, submitAt,
    crashes, faults

startVars  == <<life, todo, orphan>>
workerVars == <<pc, wrun, wtenant, box, watcher>>
boundVars  == <<crashes, faults>>
vars == <<storeVars, startVars, workerVars, pod, cancel, submitAt, boundVars>>

NoOrphan == [run |-> NoRun, step |-> "none", tenant |-> DefaultTenant,
             named |-> FALSE]

\* step: where cancel_run is; code: the label it gives the outcome, "error"
\* when it raises or its process stops; was: the status it reports.
NoCancel == [step |-> "new", run |-> NoRun, tenant |-> NoTenant, at |-> {},
             code |-> "none", was |-> "absent"]

\* Whether the sandbox task has ended, as sandbox_task.done() tells.
BoxDone(p) == box[p] \in {"none", "returned", "raised"}

Serving(p) == life[p] = "serving"

Init ==
    /\ StoreInit
    /\ life = [p \in Replicas |-> "down"]
    /\ todo = [p \in Replicas |-> {}]
    /\ orphan = [p \in Replicas |-> NoOrphan]
    /\ pc = [p \in Replicas |-> "off"]
    /\ wrun = [p \in Replicas |-> NoRun]
    /\ wtenant = [p \in Replicas |-> DefaultTenant]
    /\ box = [p \in Replicas |-> "none"]
    /\ watcher = [p \in Replicas |-> "off"]
    /\ pod = [r \in Runs |-> "none"]
    /\ cancel = [c \in Cancels |-> NoCancel]
    /\ submitAt = [r \in Runs |-> {}]
    /\ crashes = 0
    /\ faults = 0

-----------------------------------------------------------------------------
(* Containers: pod[r] is "none", "pending" (podman run was sent, the         *)
(* container does not run yet) or "up"                                       *)

PodUp(r) ==
    /\ pod[r] = "pending"
    /\ pod' = [pod EXCEPT ![r] = "up"]
    /\ UNCHANGED <<storeVars, startVars, workerVars, cancel, submitAt, boundVars>>

\* The script ends and --rm removes the container, or it never comes up.
PodGone(r) ==
    /\ pod[r] # "none"
    /\ pod' = [pod EXCEPT ![r] = "none"]
    /\ UNCHANGED <<storeVars, startVars, workerVars, cancel, submitAt, boundVars>>

\* podman kill or rm -f on the name of r: a container that is not there, or
\* not there yet, counts as success.  A failed call may have had its effect.
Kill(r, ok) ==
    LET stopped == [pod EXCEPT ![r] = IF @ = "up" THEN "none" ELSE @]
    IN  \/ /\ ok
           /\ pod' = stopped
        \/ /\ ~ok
           /\ KillMayFail
           /\ pod' \in {pod, stopped}

-----------------------------------------------------------------------------
(* Startup: reap_orphans_blocking, then recover_orphans, then the worker     *)

Reap(p) ==
    /\ life[p] = "down"
    /\ life' = [life EXCEPT ![p] = "reaped"]
    /\ \E left \in IF KillMayFail THEN SUBSET Runs ELSE {{}} :
          pod' = [r \in Runs |->
                     IF pod[r] = "up" /\ r \notin left THEN "none" ELSE pod[r]]
    /\ UNCHANGED <<storeVars, todo, orphan, workerVars, cancel, submitAt, boundVars>>

\* Faulty variant for a mutation run: the list is emptied as it is read.
ListOrphansAndClear(p) ==
    /\ life[p] = "reaped"
    /\ life' = [life EXCEPT ![p] = "recovering"]
    /\ todo' = [todo EXCEPT ![p] = processing]
    /\ processing' = {}
    /\ UNCHANGED <<queue, hashVars, quotaVars, submitVars, orphan, workerVars, pod,
                   cancel, submitAt, boundVars>>

ListOrphans(p) ==
    /\ life[p] = "reaped"
    /\ life' = [life EXCEPT ![p] = "recovering"]
    /\ todo' = [todo EXCEPT ![p] = processing]
    /\ UNCHANGED <<storeVars, orphan, workerVars, pod, cancel, submitAt, boundVars>>

\* HGETALL: the branch is taken on what the hash holds now.
ReadOrphan(p, r) ==
    /\ life[p] = "recovering"
    /\ orphan[p].step = "none"
    /\ r \in todo[p]
    /\ todo' = [todo EXCEPT ![p] = @ \ {r}]
    /\ orphan' = [orphan EXCEPT ![p] =
          [run |-> r, tenant |-> TenantOf(r), named |-> containerName[r],
           step |-> IF status[r] = "absent" THEN "drop"
                    ELSE IF cancelRequested[r] THEN "cancel" ELSE "fail"]]
    /\ UNCHANGED <<storeVars, life, workerVars, pod, cancel, submitAt, boundVars>>

\* LREM, mark_failed, or mark_canceled and then podman rm -f.
RecoverOrphan(p) ==
    LET o == orphan[p] IN
    /\ life[p] = "recovering"
    /\ \/ /\ o.step = "drop"
          /\ DropProcessing(o.run)
          /\ orphan' = [orphan EXCEPT ![p] = NoOrphan]
          /\ UNCHANGED pod
       \/ /\ o.step = "fail"
          /\ MarkFailed(o.run, o.tenant)
          /\ orphan' = [orphan EXCEPT ![p] = NoOrphan]
          /\ UNCHANGED pod
       \/ /\ o.step = "cancel"
          /\ MarkCanceled(o.run, o.tenant)
          /\ orphan' = [orphan EXCEPT ![p] =
                           IF o.named THEN [o EXCEPT !.step = "clean"] ELSE NoOrphan]
          /\ UNCHANGED pod
       \/ /\ o.step = "clean"
          /\ \E ok \in BOOLEAN : Kill(o.run, ok)
          /\ orphan' = [orphan EXCEPT ![p] = NoOrphan]
          /\ UNCHANGED storeVars
    /\ UNCHANGED <<life, todo, workerVars, cancel, submitAt, boundVars>>

\* Faulty variant: the worker starts without waiting for the recovery.
ServeEarly(p) ==
    /\ life[p] = "recovering"
    /\ life' = [life EXCEPT ![p] = "serving"]
    /\ pc' = [pc EXCEPT ![p] = "idle"]
    /\ UNCHANGED <<storeVars, todo, orphan, wrun, wtenant, box, watcher, pod,
                   cancel, submitAt, boundVars>>

Serve(p) ==
    /\ life[p] = "recovering"
    /\ todo[p] = {}
    /\ orphan[p].step = "none"
    /\ life' = [life EXCEPT ![p] = "serving"]
    /\ pc' = [pc EXCEPT ![p] = "idle"]
    /\ UNCHANGED <<storeVars, todo, orphan, wrun, wtenant, box, watcher, pod,
                   cancel, submitAt, boundVars>>

\* The process stops, by a crash or by a shutdown that does not wait for the
\* run.  Its tasks, handlers and podman clients go with it: a container that
\* was still pending may come up or not, one that is up stays.
Crash(p) ==
    /\ life[p] # "down"
    /\ crashes < MaxCrashes
    /\ crashes' = crashes + 1
    /\ life' = [life EXCEPT ![p] = "down"]
    /\ todo' = [todo EXCEPT ![p] = {}]
    /\ orphan' = [orphan EXCEPT ![p] = NoOrphan]
    /\ pc' = [pc EXCEPT ![p] = "off"]
    /\ wrun' = [wrun EXCEPT ![p] = NoRun]
    /\ box' = [box EXCEPT ![p] = "none"]
    /\ watcher' = [watcher EXCEPT ![p] = "off"]
    /\ pod' \in {pod, [r \in Runs |->
                          IF r = wrun[p] /\ pod[r] = "pending" THEN "none" ELSE pod[r]]}
    /\ cancel' = [c \in Cancels |->
                     IF p \in cancel[c].at /\ cancel[c].step # "done"
                     THEN [cancel[c] EXCEPT !.step = "done", !.code = "error"]
                     ELSE cancel[c]]
    /\ Abandon({r \in InFlight : p \in submitAt[r]})
    /\ UNCHANGED <<wtenant, submitAt, faults>>

-----------------------------------------------------------------------------
(* submit_run: the store's steps, taken by a process that serves             *)

Submit(p, r) ==
    /\ Serving(p)
    /\ \/ /\ \E t \in Tenants, d \in ReservationDays :
                ReserveOk(r, t, d) \/ ReserveRefused(r, t, d)
          /\ submitAt' = [submitAt EXCEPT ![r] = {p}]
       \/ /\ p \in submitAt[r]
          /\ StoreRun(r) \/ DateRun(r) \/ Enqueue(r)
          /\ UNCHANGED submitAt
    /\ UNCHANGED <<startVars, workerVars, pod, cancel, boundVars>>

-----------------------------------------------------------------------------
(* cancel_run *)

Answer(c, code, was) ==
    cancel' = [cancel EXCEPT ![c] = [@ EXCEPT !.step = "done", !.code = code,
                                              !.was = was]]

\* The handler reads the hash, answers at once or goes on in the branch of the
\* status it has read, however old that is by then.
CancelRun(c, p, r, t) ==
    LET answer(step, code) ==
          cancel' = [cancel EXCEPT ![c] =
                        [step |-> step, run |-> r, tenant |-> t, at |-> {p},
                         code |-> code, was |-> status[r]]]
    IN
    /\ Serving(p)
    /\ cancel[c].step = "new"
    /\ submit[r] \notin {"new", "refused"}
    /\ CASE status[r] = "absent" -> answer("done", "not_found")
         [] status[r] # "absent" /\ owner[r] # t -> answer("done", "cross_tenant")
         [] owner[r] = t /\ status[r] \in Active -> answer(status[r], "none")
         [] owner[r] = t /\ status[r] \in Terminal -> answer("done", "already_terminal")
         [] owner[r] = t /\ status[r] = "none" -> answer("done", "unexpected_status")
    /\ UNCHANGED <<storeVars, startVars, workerVars, pod, submitAt, boundVars>>

\* What either branch answers when its script refuses.
Refuse(c, r, code) ==
    \/ code = 3 /\ Answer(c, "not_found", "absent")
    \/ code = 1 /\ Answer(c, "cross_tenant", status[r])
    \/ code = 2 /\ Answer(c, "already_terminal", status[r])

CancelQueuedBranch(c) ==
    LET r == cancel[c].run
        t == cancel[c].tenant
        code == CancelCode(r, t, "queued")
    IN
    /\ cancel[c].step = "queued"
    /\ CancelQueued(r, t)
    /\ Refuse(c, r, code) \/ (code = 0 /\ Answer(c, "ok", "queued"))
    /\ UNCHANGED <<startVars, workerVars, pod, submitAt, boundVars>>

CancelRunningBranch(c) ==
    LET r == cancel[c].run
        t == cancel[c].tenant
        code == CancelCode(r, t, "running")
    IN
    /\ cancel[c].step = "running"
    /\ CancelRunning(r, t)
    /\ \/ Refuse(c, r, code)
       \/ code = 0 /\ ~containerName[r] /\ Answer(c, "ok", "running")
       \/ code = 0 /\ containerName[r]
          /\ cancel' = [cancel EXCEPT ![c] = [@ EXCEPT !.step = "kill"]]
    /\ UNCHANGED <<startVars, workerVars, pod, submitAt, boundVars>>

CancelKill(c) ==
    /\ cancel[c].step = "kill"
    /\ \E ok \in BOOLEAN :
          /\ Kill(cancel[c].run, ok)
          /\ Answer(c, IF ok THEN "ok" ELSE "kill_failed", "running")
    /\ UNCHANGED <<storeVars, startVars, workerVars, submitAt, boundVars>>

-----------------------------------------------------------------------------
(* _worker_loop and _execute_run, up to the sandbox task                     *)

At(p, label) == Serving(p) /\ pc[p] = label

GoTo(p, label) == pc' = [pc EXCEPT ![p] = label]

\* The worker is done with its run and goes back to claim_next.
NextRun(p) ==
    /\ GoTo(p, "idle")
    /\ wrun' = [wrun EXCEPT ![p] = NoRun]

Claim(p) ==
    /\ At(p, "idle")
    /\ ClaimNext
    /\ wrun' = [wrun EXCEPT ![p] = Head(queue)]
    /\ GoTo(p, "claimed")
    /\ UNCHANGED <<startVars, wtenant, box, watcher, pod, cancel, submitAt, boundVars>>

ReadRun(p) ==
    /\ At(p, "claimed")
    /\ \/ /\ status[wrun[p]] = "absent"
          /\ NextRun(p)
          /\ UNCHANGED wtenant
       \/ /\ status[wrun[p]] # "absent"
          /\ wtenant' = [wtenant EXCEPT ![p] = TenantOf(wrun[p])]
          /\ GoTo(p, "read")
          /\ UNCHANGED wrun
    /\ UNCHANGED <<storeVars, startVars, box, watcher, pod, cancel, submitAt, boundVars>>

\* Faulty variant: the worker does not heed the decision "abort".
StartRegardless(p) ==
    /\ At(p, "read")
    /\ StartOrAbort(wrun[p])
    /\ GoTo(p, "started")
    /\ UNCHANGED <<startVars, wrun, wtenant, box, watcher, pod, cancel, submitAt,
                   boundVars>>

Start(p) ==
    /\ At(p, "read")
    /\ StartOrAbort(wrun[p])
    /\ \/ status[wrun[p]] = "canceled" /\ NextRun(p)
       \/ status[wrun[p]] # "canceled" /\ GoTo(p, "started") /\ UNCHANGED wrun
    /\ UNCHANGED <<startVars, wtenant, box, watcher, pod, cancel, submitAt, boundVars>>

NameContainer(p) ==
    /\ At(p, "started")
    /\ SetContainerName(wrun[p])
    /\ GoTo(p, "named")
    /\ UNCHANGED <<startVars, wrun, wtenant, box, watcher, pod, cancel, submitAt,
                   boundVars>>

\* podman rm -f of a stale container, then both tasks are created at once.
Spawn(p) ==
    /\ At(p, "named")
    /\ \E ok \in BOOLEAN : Kill(wrun[p], ok)
    /\ box' = [box EXCEPT ![p] = "prepare"]
    /\ watcher' = [watcher EXCEPT ![p] = "sleep"]
    /\ GoTo(p, "running")
    /\ UNCHANGED <<storeVars, startVars, wrun, wtenant, cancel, submitAt, boundVars>>

-----------------------------------------------------------------------------
(* run_sandbox: the task beside the worker                                   *)

BoxGoes(p, from, to) == box[p] = from /\ box' = [box EXCEPT ![p] = to]

BoxUnchanged == UNCHANGED <<storeVars, startVars, pc, wrun, wtenant, watcher,
                            cancel, submitAt, boundVars>>

\* The work directory, script and allow-list are written and podman run is
\* sent; or one of them raises.
Launch(p) ==
    /\ \/ BoxGoes(p, "prepare", "run") /\ pod' = [pod EXCEPT ![wrun[p]] = "pending"]
       \/ BoxGoes(p, "prepare", "raised") /\ UNCHANGED pod
    /\ BoxUnchanged

\* The podman client returns; reading the result and the upload may raise.
Return(p) ==
    /\ \E end \in {"returned", "raised"} : BoxGoes(p, "run", end)
    /\ pod[wrun[p]] = "none"
    /\ UNCHANGED pod
    /\ BoxUnchanged

\* Faulty variant: podman run is awaited without a timeout.
ClientTimeoutNever(p) == FALSE /\ box[p] = "run" /\ UNCHANGED vars

\* overall_timeout: the client is killed, which leaves the container alone.
ClientTimeout(p) ==
    /\ BoxGoes(p, "run", "kill")
    /\ pod[wrun[p]] # "none"
    /\ UNCHANGED pod
    /\ BoxUnchanged

\* ... so podman kill and podman rm -f follow, their results ignored.
ForceKill(p) ==
    /\ \/ BoxGoes(p, "kill", "remove")
       \/ \E end \in {"returned", "raised"} : BoxGoes(p, "remove", end)
    /\ \E ok \in BOOLEAN : Kill(wrun[p], ok)
    /\ BoxUnchanged

-----------------------------------------------------------------------------
(* _watch_for_cancel: polls while the sandbox runs, kills once and returns   *)

Watch(p) ==
    /\ ~BoxDone(p)
    /\ watcher[p] = "sleep"
    /\ cancelRequested[wrun[p]]
    /\ watcher' = [watcher EXCEPT ![p] = "kill"]
    /\ UNCHANGED <<storeVars, startVars, pc, wrun, wtenant, box, pod, cancel, submitAt,
                   boundVars>>

WatchKill(p) ==
    /\ watcher[p] = "kill"
    /\ \E ok \in BOOLEAN : Kill(wrun[p], ok)
    /\ watcher' = [watcher EXCEPT ![p] = "done"]
    /\ UNCHANGED <<storeVars, startVars, pc, wrun, wtenant, box, cancel, submitAt, boundVars>>

-----------------------------------------------------------------------------
(* _execute_run, from the end of the sandbox task                            *)

EndUnchanged == UNCHANGED <<startVars, wrun, wtenant, watcher, cancel, submitAt,
                            boundVars>>

Complete(p) ==
    /\ At(p, "running")
    /\ box[p] = "returned"
    /\ MarkCompleted(wrun[p], wtenant[p])
    /\ GoTo(p, "closing")
    /\ UNCHANGED <<box, pod>>
    /\ EndUnchanged

\* The except branch, for the sandbox and for mark_completed itself.
Fail(p) ==
    /\ At(p, "failing") \/ (At(p, "running") /\ box[p] = "raised")
    /\ MarkFailed(wrun[p], wtenant[p])
    /\ GoTo(p, "closing")
    /\ UNCHANGED <<box, pod>>
    /\ EndUnchanged

\* The hung-container guard cancels the sandbox task; the client it was
\* waiting for, and the container, are not told.
Hang(p) ==
    /\ At(p, "running")
    /\ box[p] \in {"run", "kill", "remove"}
    /\ box' = [box EXCEPT ![p] = "none"]
    /\ GoTo(p, "hung")
    /\ UNCHANGED <<storeVars, pod>>
    /\ EndUnchanged

HangKill(p) ==
    /\ At(p, "hung")
    /\ \E ok \in BOOLEAN : Kill(wrun[p], ok)
    /\ GoTo(p, "killed")
    /\ UNCHANGED <<storeVars, box>>
    /\ EndUnchanged

HangMark(p) ==
    /\ At(p, "killed")
    /\ MarkCanceled(wrun[p], wtenant[p])
    /\ GoTo(p, "closing")
    /\ UNCHANGED <<box, pod>>
    /\ EndUnchanged

\* finally: the watcher is cancelled, perhaps after its kill was sent, and
\* awaited; an exception of its own surfaces here and ends the worker task.
Close(p) ==
    /\ At(p, "closing")
    /\ \/ UNCHANGED pod
       \/ watcher[p] = "kill" /\ \E ok \in BOOLEAN : Kill(wrun[p], ok)
    /\ \/ watcher[p] # "failed" /\ NextRun(p)
       \/ watcher[p] = "failed" /\ GoTo(p, "dead") /\ UNCHANGED wrun
    /\ box' = [box EXCEPT ![p] = "none"]
    /\ watcher' = [watcher EXCEPT ![p] = "off"]
    /\ UNCHANGED <<storeVars, startVars, wtenant, cancel, submitAt, boundVars>>

-----------------------------------------------------------------------------
(* Faults: a command raises in the service, with or without its effect       *)

Fault == faults < MaxFaults /\ faults' = faults + 1

\* claim_next is the one call whose exception the loop catches: BRPOPLPUSH
\* took its effect and the reply was lost.
LoseClaim(p) ==
    /\ At(p, "idle")
    /\ Fault
    /\ ClaimNext
    /\ UNCHANGED <<startVars, workerVars, pod, cancel, submitAt, crashes>>

\* What the command the worker is waiting for does to the store.
Pending(p) ==
    \/ pc[p] = "read" /\ StartOrAbort(wrun[p])
    \/ pc[p] = "started" /\ SetContainerName(wrun[p])
    \/ /\ pc[p] = "failing" \/ (pc[p] = "running" /\ box[p] = "raised")
       /\ MarkFailed(wrun[p], wtenant[p])
    \/ pc[p] = "killed" /\ MarkCanceled(wrun[p], wtenant[p])

\* Any other exception leaves _execute_run and ends the worker task, while the
\* process goes on serving requests.
WorkerDies(p) ==
    /\ Serving(p)
    /\ \/ pc[p] \in {"claimed", "read", "started", "named", "hung", "killed", "failing"}
       \/ pc[p] = "running" /\ box[p] = "raised"
    /\ Fault
    /\ Pending(p) \/ UNCHANGED storeVars
    /\ GoTo(p, "dead")
    /\ box' = [box EXCEPT ![p] = "none"]
    /\ watcher' = [watcher EXCEPT ![p] = "off"]
    /\ UNCHANGED <<startVars, wrun, wtenant, pod, cancel, submitAt, crashes>>

CompleteRaises(p) ==
    /\ At(p, "running")
    /\ box[p] = "returned"
    /\ Fault
    /\ MarkCompleted(wrun[p], wtenant[p]) \/ UNCHANGED storeVars
    /\ GoTo(p, "failing")
    /\ UNCHANGED <<startVars, wrun, wtenant, box, watcher, pod, cancel, submitAt, crashes>>

WatchRaises(p) ==
    /\ ~BoxDone(p)
    /\ watcher[p] \in {"sleep", "kill"}
    /\ Fault
    /\ watcher' = [watcher EXCEPT ![p] = "failed"]
    /\ UNCHANGED <<storeVars, startVars, pc, wrun, wtenant, box, pod, cancel, submitAt,
                   crashes>>

SubmitRaises(p, r) ==
    /\ Serving(p)
    /\ p \in submitAt[r]
    /\ r \in InFlight
    /\ Fault
    /\ Abandon({r})
    /\ UNCHANGED <<startVars, workerVars, pod, cancel, submitAt, crashes>>

CancelRaises(c) ==
    LET r == cancel[c].run
        t == cancel[c].tenant
    IN
    /\ cancel[c].step \in {"queued", "running", "kill"}
    /\ Fault
    /\ \/ UNCHANGED storeVars
       \/ cancel[c].step = "queued" /\ CancelQueued(r, t)
       \/ cancel[c].step = "running" /\ CancelRunning(r, t)
    /\ Answer(c, "error", cancel[c].was)
    /\ UNCHANGED <<startVars, workerVars, pod, submitAt, crashes>>

-----------------------------------------------------------------------------
(* The clock                                                                 *)

Clock ==
    /\ Midnight \/ \E r \in Runs : ExpireRun(r)
    /\ UNCHANGED <<startVars, workerVars, pod, cancel, submitAt, boundVars>>

-----------------------------------------------------------------------------

Startup(p) ==
    \/ Reap(p) \/ ListOrphans(p) \/ RecoverOrphan(p) \/ Serve(p)
    \/ \E r \in Runs : ReadOrphan(p, r)

\* What the worker does by itself; Hang is not among it.
Work(p) ==
    \/ Claim(p) \/ ReadRun(p) \/ Start(p) \/ NameContainer(p) \/ Spawn(p)
    \/ Complete(p) \/ Fail(p) \/ HangKill(p) \/ HangMark(p) \/ Close(p)

Sandbox(p) == Launch(p) \/ Return(p) \/ ClientTimeout(p) \/ ForceKill(p)

Watcher(p) == Watch(p) \/ WatchKill(p)

CancelStep(c) == CancelQueuedBranch(c) \/ CancelRunningBranch(c) \/ CancelKill(c)

Raise(p) ==
    \/ LoseClaim(p) \/ WorkerDies(p) \/ CompleteRaises(p) \/ WatchRaises(p)
    \/ \E r \in Runs : SubmitRaises(p, r)

Next ==
    \/ \E p \in Replicas :
          \/ Startup(p) \/ Work(p) \/ Sandbox(p) \/ Watcher(p)
          \/ Hang(p) \/ Crash(p) \/ Raise(p)
          \/ \E r \in Runs : Submit(p, r)
    \/ \E c \in Cancels :
          \/ CancelStep(c) \/ CancelRaises(c)
          \/ \E p \in Replicas, r \in Runs, t \in Tenants : CancelRun(c, p, r, t)
    \/ \E r \in Runs : PodUp(r) \/ PodGone(r)
    \/ Clock

Spec == Init /\ [][Next]_vars

\* The event loop runs every task that can run, the timeouts of run_sandbox
\* and of the watcher's sleep fire, and a process that stopped is started
\* again.  Nothing is assumed of the containers, of requests yet to be made,
\* of the clock, of faults or of the hung-container guard.
Fairness ==
    /\ \A p \in Replicas :
          WF_vars(Startup(p)) /\ WF_vars(Work(p)) /\ WF_vars(Sandbox(p))
          /\ WF_vars(Watcher(p))
    /\ \A p \in Replicas, r \in Runs : WF_vars(submit[r] # "new" /\ Submit(p, r))
    /\ \A c \in Cancels : WF_vars(CancelStep(c))

FairSpec == Spec /\ Fairness

-----------------------------------------------------------------------------
(* Properties that hold for any number of replicas, crashes and faults       *)

WorkerStep == {"off", "idle", "claimed", "read", "started", "named", "running",
               "hung", "killed", "failing", "closing", "dead"}

Outcome == {"none", "ok", "not_found", "cross_tenant", "already_terminal",
            "kill_failed", "unexpected_status", "error"}

\* The type of the service's variables.
RunnerTypeOK ==
    /\ StoreTypeOK
    /\ life \in [Replicas -> {"down", "reaped", "recovering", "serving"}]
    /\ todo \in [Replicas -> SUBSET Runs]
    /\ orphan \in [Replicas ->
          [run : Runs \cup {NoRun}, step : {"none", "drop", "fail", "cancel", "clean"},
           tenant : Tenants, named : BOOLEAN]]
    /\ pc \in [Replicas -> WorkerStep]
    /\ wrun \in [Replicas -> Runs \cup {NoRun}]
    /\ wtenant \in [Replicas -> Tenants]
    /\ box \in [Replicas -> {"none", "prepare", "run", "kill", "remove",
                             "returned", "raised"}]
    /\ watcher \in [Replicas -> {"off", "sleep", "kill", "done", "failed"}]
    /\ pod \in [Runs -> {"none", "pending", "up"}]
    /\ cancel \in [Cancels ->
          [step : {"new", "queued", "running", "kill", "done"},
           run : Runs \cup {NoRun}, tenant : Tenants \cup {NoTenant},
           at : SUBSET Replicas, code : Outcome, was : Status]]
    /\ submitAt \in [Runs -> SUBSET Replicas]
    /\ crashes \in 0 .. MaxCrashes
    /\ faults \in 0 .. MaxFaults

\* A cancel answered with success, or with "kill failed", is honoured: the run
\* is canceled or still runs with the request recorded, and stays so through
\* late results, failures, crashes and recoveries, until the TTL of its hash.
CancelHonoured ==
    \A c \in Cancels :
        LET r == cancel[c].run IN
        cancel[c].code \in {"ok", "kill_failed"} /\ r \notin Expirable =>
            \/ status[r] = "canceled"
            \/ status[r] = "running" /\ cancelRequested[r]

\* The worker of p holds its run past the start decision.
Started(p) == pc[p] \in {"started", "named", "running", "hung", "killed", "failing",
                         "closing"}

\* A run whose cancel was acknowledged while it was queued never gets a
\* container, although a worker may have claimed it before the cancel.
CanceledInQueueNeverRuns ==
    \A c \in Cancels :
        LET r == cancel[c].run IN
        cancel[c].code = "ok" /\ cancel[c].was = "queued" /\ r \notin Expirable =>
            pod[r] = "none" /\ \A p \in Replicas : wrun[p] = r => ~Started(p)

-----------------------------------------------------------------------------
(* Properties of a service of one replica                                    *)

\* The quota set counts exactly the work the tenant has: a run whose hash is
\* there is in its tenant's set if and only if it is queued or running.
SlotIffActive ==
    \A r \in Runs \ Expirable :
        status[r] # "absent" =>
            (r \in running[owner[r]] <=> status[r] \in Active)

\* A run that is enqueued and not over is on one of the two lists, where a
\* worker or the recovery of the next start will find it.
NothingLost ==
    \A r \in Runs \ Expirable :
        submit[r] = "enqueued" /\ status[r] \in Active =>
            r \in Range(queue) \cup processing

\* Once a replica serves, no run is left "running" by the process before it:
\* such a run is in the hands of this process's worker, dead or alive.
RunningHasWorker ==
    \A r \in Runs \ Expirable :
        (\A p \in Replicas : Serving(p)) /\ status[r] = "running" =>
            \E p \in Replicas : wrun[p] = r

\* A terminal status is final: no second mark, late start or recovery changes
\* it; only the TTL of the hash ends it.
TerminalFinal ==
    [][\A r \in Runs :
          status[r] \in Terminal => status'[r] \in {status[r], "absent"}]_vars

\* No container is launched for a run that is over.
NoLaunchAfterEnd ==
    [][\A r \in Runs \ Expirable :
          status[r] \in Terminal => ~(pod[r] = "none" /\ pod'[r] # "none")]_vars

\* Every enqueued run is completed, failed or canceled in the end, although a
\* process may stop at any moment, every podman kill may fail and containers
\* may never end by themselves; an accepted cancel then shows as "canceled",
\* since nothing else takes its place (CancelWins).
Settles ==
    <>[](\A r \in Runs :
            submit[r] = "enqueued" =>
                /\ status[r] \in Terminal
                /\ cancelRequested[r] => status[r] = "canceled")

-----------------------------------------------------------------------------
(* The service of one replica, without expiry, implements RunLifecycle       *)

\* A run shows no status before its hash is stored.
Phase(r) ==
    IF status[r] # "absent" THEN status[r]
    ELSE IF submit[r] \in {"new", "refused"} THEN submit[r]
    ELSE "admitted"

Lifecycle == INSTANCE RunLifecycle
    WITH phase <- [r \in Runs |-> Phase(r)], tenant <- submitTenant,
         day <- submitDay, asked <- cancelRequested

\* Seen from its callers the service is RunLifecycle: the quota admits exactly
\* the runs it should, and every status change is one the life cycle has.
ImplementsLifecycle == Lifecycle!LifeSpec

-----------------------------------------------------------------------------
(* What the documents say and the code does not do                           *)

\* A run in the queue is claimed in the end: one run's failure does not stop
\* the queue for the others.
QueueDrains ==
    \A r \in Runs : (r \in Range(queue)) ~> (r \notin Range(queue))

\* The queue design: the startup recovery clears the tenants' counters, so
\* that a submit the crash cut short holds no slot afterwards.
RecoveryFreesSlots ==
    \A p \in Replicas, r \in Runs, t \in Tenants :
        Serving(p) /\ submit[r] = "abandoned" => r \notin running[t]

=============================================================================
