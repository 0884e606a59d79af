---------------------------- MODULE RunnerProofs ----------------------------
(***************************************************************************)
(* Theorems about Runner, for any number of replicas, runs, tenants and    *)
(* cancel requests, and any number of crashes and faults: the service uses *)
(* the store as StoreSpec allows, so that what RunStoreProofs proves holds *)
(* of it; an acknowledged cancel is honoured; and a run has one worker and *)
(* one podman run in its life.                                             *)
(***************************************************************************)
EXTENDS Runner, RunStoreProofs

-----------------------------------------------------------------------------
(* The parts of the type invariant, by who writes them, and what each holds: *)
(* a run that a worker or a recovery works on was enqueued.                  *)

Enqueued == {r \in Runs : submit[r] = "enqueued"}

Box == {"none", "prepare", "run", "kill", "remove", "returned", "raised"}

StartOK ==
    /\ life \in [Replicas -> {"down", "reaped", "recovering", "serving"}]
    /\ todo \in [Replicas -> SUBSET Enqueued]
    /\ orphan \in [Replicas ->
          [run : Runs \cup {NoRun}, step : {"none", "drop", "fail", "cancel", "clean"},
           tenant : Tenants, named : BOOLEAN]]
    /\ \A p \in Replicas : orphan[p].step # "none" => orphan[p].run \in Enqueued

WorkerOK ==
    /\ pc \in [Replicas -> WorkerStep]
    /\ wrun \in [Replicas -> Runs \cup {NoRun}]
    /\ wtenant \in [Replicas -> Tenants]
    /\ box \in [Replicas -> Box]
    /\ watcher \in [Replicas -> {"off", "sleep", "kill", "done", "failed"}]
    /\ \A p \in Replicas :
          /\ ~Serving(p) => pc[p] = "off"
          /\ pc[p] \notin {"off", "idle"} => wrun[p] \in Enqueued
          /\ ~BoxDone(p) => pc[p] = "running"
          /\ watcher[p] # "off" => pc[p] \in {"running", "hung", "killed", "failing", "closing"}

Asked == [step : {"new", "queued", "running", "kill", "done"}, run : Runs \cup {NoRun},
          tenant : Tenants \cup {NoTenant}, at : SUBSET Replicas, code : Outcome,
          was : Status]

CancelOK ==
    /\ cancel \in [Cancels -> Asked]
    /\ \A c \in Cancels :
          /\ cancel[c].step \in {"queued", "running", "kill"} =>
                cancel[c].run \in Runs /\ cancel[c].tenant \in Tenants
          /\ cancel[c].step # "done" => cancel[c].code = "none"

RestOK ==
    /\ pod \in [Runs -> {"none", "pending", "up"}]
    /\ submitAt \in [Runs -> SUBSET Replicas]
    /\ crashes \in 0 .. MaxCrashes
    /\ faults \in 0 .. MaxFaults

ServiceOK == StartOK /\ WorkerOK /\ CancelOK /\ RestOK

StoreInv == StoreTypeOK /\ HandedOutOnce /\ Unstored

LEMMA ServiceTyped == StoreInv /\ ServiceOK => RunnerTypeOK
  BY DEF StoreInv, ServiceOK, StartOK, WorkerOK, CancelOK, RestOK, RunnerTypeOK, Enqueued,
         Asked, Box

-----------------------------------------------------------------------------
(* Every step of the service is a step of the store, or leaves it alone      *)

LEMMA MarkIsStore ==
    ASSUME NEW r \in Enqueued, NEW t \in Tenants,
           \/ MarkCompleted(r, t) \/ MarkFailed(r, t) \/ MarkCanceled(r, t)
    PROVE  StoreNext
  <1>1. r \in Runs /\ submit[r] = "enqueued"
    BY DEF Enqueued
  <1>2. MarkTerminal(r, t, "completed") \/ MarkTerminal(r, t, "failed") \/ MarkCanceled(r, t)
    BY DEF MarkCompleted, MarkFailed
  <1> QED
    BY <1>1, <1>2 DEF WorkerNext, StoreNext

LEMMA RunIsStore ==
    ASSUME NEW r \in Enqueued,
           StartOrAbort(r) \/ SetContainerName(r) \/ DropProcessing(r)
    PROVE  StoreNext
  <1>1. r \in Runs /\ submit[r] = "enqueued"
    BY DEF Enqueued
  <1> QED
    BY <1>1 DEF WorkerNext, StoreNext

LEMMA StartupIsStore ==
    ASSUME ServiceOK, NEW p \in Replicas, Startup(p)
    PROVE  [StoreNext]_storeVars
  <1>1. CASE RecoverOrphan(p)
    <2>1. CASE orphan[p].step = "none" \/ UNCHANGED storeVars
      BY <1>1, <2>1 DEF RecoverOrphan
    <2>2. CASE orphan[p].step # "none" /\ ~UNCHANGED storeVars
      <3>1. orphan[p].run \in Enqueued /\ orphan[p].tenant \in Tenants
        BY <2>2 DEF ServiceOK, StartOK
      <3>2. \/ DropProcessing(orphan[p].run)
            \/ MarkFailed(orphan[p].run, orphan[p].tenant)
            \/ MarkCanceled(orphan[p].run, orphan[p].tenant)
        BY <1>1, <2>2 DEF RecoverOrphan
      <3> QED
        BY <3>1, <3>2, MarkIsStore, RunIsStore
    <2> QED
      BY <2>1, <2>2
  <1>2. CASE ~RecoverOrphan(p)
    BY <1>2 DEF Startup, Reap, ListOrphans, ReadOrphan, Serve
  <1> QED
    BY <1>1, <1>2

LEMMA WorkIsStore ==
    ASSUME ServiceOK, NEW p \in Replicas, Work(p)
    PROVE  [StoreNext]_storeVars
  <1>1. CASE Claim(p)
    BY <1>1 DEF Claim, StoreNext
  <1>2. CASE ReadRun(p) \/ Spawn(p) \/ HangKill(p) \/ Close(p)
    BY <1>2 DEF ReadRun, Spawn, HangKill, Close
  <1>3. CASE Start(p) \/ NameContainer(p)
    <2>1. wrun[p] \in Enqueued
      BY <1>3 DEF Start, NameContainer, At, ServiceOK, WorkerOK
    <2> QED
      BY <1>3, <2>1, RunIsStore DEF Start, NameContainer
  <1>4. CASE Complete(p) \/ Fail(p) \/ HangMark(p)
    <2>1. wrun[p] \in Enqueued /\ wtenant[p] \in Tenants
      BY <1>4 DEF Complete, Fail, HangMark, At, ServiceOK, WorkerOK
    <2> QED
      BY <1>4, <2>1, MarkIsStore DEF Complete, Fail, HangMark
  <1> QED
    BY <1>1, <1>2, <1>3, <1>4 DEF Work

LEMMA RaiseIsStore ==
    ASSUME ServiceOK, NEW p \in Replicas, Raise(p)
    PROVE  [StoreNext]_storeVars
  <1>1. CASE LoseClaim(p)
    BY <1>1 DEF LoseClaim, StoreNext
  <1>2. CASE WorkerDies(p)
    <2>1. pc[p] \in {"read", "started", "failing", "running", "killed"} =>
             wrun[p] \in Enqueued /\ wtenant[p] \in Tenants
      BY DEF ServiceOK, WorkerOK
    <2>2. Pending(p) => StoreNext
      BY <2>1, MarkIsStore, RunIsStore DEF Pending
    <2> QED
      BY <1>2, <2>2 DEF WorkerDies
  <1>3. CASE CompleteRaises(p)
    <2>1. wrun[p] \in Enqueued /\ wtenant[p] \in Tenants
      BY <1>3 DEF CompleteRaises, At, ServiceOK, WorkerOK
    <2> QED
      BY <1>3, <2>1, MarkIsStore DEF CompleteRaises
  <1>4. CASE WatchRaises(p)
    BY <1>4 DEF WatchRaises
  <1>5. ASSUME NEW r \in Runs, SubmitRaises(p, r)
        PROVE  StoreNext
    <2>1. Abandon({r}) /\ {r} \in SUBSET InFlight
      BY <1>5 DEF SubmitRaises
    <2> QED
      BY <2>1 DEF StoreNext
  <1> QED
    BY <1>1, <1>2, <1>3, <1>4, <1>5 DEF Raise

LEMMA CancelIsStore ==
    ASSUME ServiceOK, NEW c \in Cancels, CancelStep(c) \/ CancelRaises(c)
    PROVE  [StoreNext]_storeVars
  <1> DEFINE r == cancel[c].run
             t == cancel[c].tenant
  <1>1. \/ UNCHANGED storeVars
        \/ /\ cancel[c].step \in {"queued", "running", "kill"}
           /\ CancelQueued(r, t) \/ CancelRunning(r, t)
    BY DEF CancelStep, CancelQueuedBranch, CancelRunningBranch, CancelKill, CancelRaises
  <1>2. cancel[c].step \in {"queued", "running", "kill"} => r \in Runs /\ t \in Tenants
    BY DEF ServiceOK, CancelOK
  <1> HIDE DEF r, t
  <1> QED
    BY <1>1, <1>2 DEF CancelNext, StoreNext

LEMMA StepIsStore ==
    ASSUME ServiceOK, [Next]_vars
    PROVE  [StoreNext]_storeVars
  <1>1. CASE UNCHANGED vars
    BY <1>1 DEF vars
  <1>2. ASSUME NEW p \in Replicas, Sandbox(p) \/ Watcher(p) \/ Hang(p)
        PROVE  UNCHANGED storeVars
    BY <1>2 DEF Sandbox, Launch, Return, ClientTimeout, ForceKill, BoxUnchanged, Watcher,
                Watch, WatchKill, Hang
  <1>3. ASSUME NEW p \in Replicas, Crash(p)
        PROVE  StoreNext
    <2>1. PICK S \in SUBSET InFlight : Abandon(S)
      BY <1>3 DEF Crash
    <2> QED
      BY <2>1 DEF StoreNext
  <1>4. ASSUME NEW p \in Replicas, NEW r \in Runs, Submit(p, r)
        PROVE  StoreNext
    <2>1. SubmitNext(r)
      BY <1>4 DEF Submit, SubmitNext
    <2> QED
      BY <2>1 DEF StoreNext
  <1>5. ASSUME NEW c \in Cancels, NEW p \in Replicas, NEW r \in Runs, NEW t \in Tenants,
               CancelRun(c, p, r, t)
        PROVE  UNCHANGED storeVars
    BY <1>5 DEF CancelRun
  <1>6. ASSUME NEW r \in Runs, PodUp(r) \/ PodGone(r)
        PROVE  UNCHANGED storeVars
    BY <1>6 DEF PodUp, PodGone
  <1>7. CASE Clock
    BY <1>7 DEF Clock, StoreNext
  <1> QED
    BY <1>1, <1>2, <1>3, <1>4, <1>5, <1>6, <1>7, StartupIsStore, WorkIsStore, RaiseIsStore,
       CancelIsStore DEF Next

\* No step takes an enqueued run back.
LEMMA EnqueuedStays ==
    ASSUME StoreTypeOK, [StoreNext]_storeVars
    PROVE  Enqueued \subseteq Enqueued'
  <1> USE DEF submitVars, hashVars, quotaVars, listVars
  <1>1. ASSUME NEW r \in Runs, SubmitNext(r)
        PROVE  Enqueued \subseteq Enqueued'
    BY <1>1 DEF SubmitNext, ReserveOk, ReserveRefused, StoreRun, DateRun, Enqueue, Enqueued,
                StoreTypeOK
  <1>2. ASSUME NEW S \in SUBSET InFlight, Abandon(S)
        PROVE  Enqueued \subseteq Enqueued'
    BY <1>2 DEF Abandon, InFlight, Enqueued
  <1>3. ASSUME UNCHANGED submit
        PROVE  Enqueued \subseteq Enqueued'
    BY <1>3 DEF Enqueued
  <1>4. ASSUME NEW r \in Runs, WorkerNext(r) \/ CancelNext(r) \/ ExpireRun(r)
        PROVE  UNCHANGED submit
    BY <1>4 DEF WorkerNext, StartOrAbort, SetContainerName, DropProcessing, MarkTerminal,
                MarkCanceled, Retire, CancelNext, CancelQueued, CancelRunning, Release,
                ExpireRun, storeVars
  <1>5. ClaimNext \/ Midnight \/ UNCHANGED storeVars => UNCHANGED submit
    BY DEF ClaimNext, Midnight, storeVars
  <1> QED
    BY <1>1, <1>2, <1>3, <1>4, <1>5 DEF StoreNext

-----------------------------------------------------------------------------
(* The type invariant is inductive                                           *)

LEMMA InitOK == Init => StoreInv /\ ServiceOK
  <1> SUFFICES ASSUME Init PROVE StoreInv /\ ServiceOK
    OBVIOUS
  <1>1. StoreInit
    BY DEF Init
  <1>2. StoreInv
    BY <1>1, StoreTypeInit DEF StoreInv, StoreInit, Unstored, HandedOutOnce, Range
  <1>3. StartOK
    BY StoreAssumption DEF Init, StartOK, NoOrphan
  <1>4. WorkerOK
    BY StoreAssumption DEF Init, WorkerOK, WorkerStep, Box, BoxDone, Serving
  <1>5. CancelOK
    BY DEF Init, CancelOK, Asked, NoCancel, Outcome, Status
  <1>6. RestOK
    BY RunnerAssumption DEF Init, RestOK
  <1> QED
    BY <1>2, <1>3, <1>4, <1>5, <1>6 DEF ServiceOK

LEMMA KillTyped ==
    ASSUME RestOK, NEW r \in Runs, NEW ok \in BOOLEAN, Kill(r, ok)
    PROVE  pod' \in [Runs -> {"none", "pending", "up"}]
  <1>1. [pod EXCEPT ![r] = IF @ = "up" THEN "none" ELSE @] \in [Runs -> {"none", "pending", "up"}]
    BY DEF RestOK
  <1> QED
    BY <1>1 DEF Kill, RestOK

\* Only the startup and a crash write to the startup's variables.
LEMMA StartTyped ==
    ASSUME StoreInv, StartOK, Enqueued \subseteq Enqueued', [Next]_vars
    PROVE  StartOK'
  <1>1. ASSUME UNCHANGED startVars
        PROVE  StartOK'
    <2>1. /\ life' \in [Replicas -> {"down", "reaped", "recovering", "serving"}]
          /\ orphan' \in [Replicas ->
                [run : Runs \cup {NoRun}, step : {"none", "drop", "fail", "cancel", "clean"},
                 tenant : Tenants, named : BOOLEAN]]
      BY <1>1 DEF StartOK, startVars
    <2>2. todo' \in [Replicas -> SUBSET Enqueued']
      BY <1>1 DEF StartOK, startVars
    <2>3. \A p \in Replicas : orphan'[p].step # "none" => orphan'[p].run \in Enqueued'
      BY <1>1 DEF StartOK, startVars
    <2> QED
      BY <2>1, <2>2, <2>3 DEF StartOK
  <1>2. ASSUME NEW p \in Replicas, Reap(p)
        PROVE  StartOK'
    BY <1>2 DEF Reap, StartOK
  <1>3. ASSUME NEW p \in Replicas, ListOrphans(p)
        PROVE  StartOK'
    <2>1. processing \subseteq Enqueued
      BY DEF StoreInv, HandedOutOnce, StoreTypeOK, Enqueued
    <2> QED
      BY <1>3, <2>1 DEF ListOrphans, StartOK
  <1>4. ASSUME NEW p \in Replicas, NEW r \in Runs, ReadOrphan(p, r)
        PROVE  StartOK'
    <2> DEFINE o == [run |-> r, tenant |-> TenantOf(r), named |-> containerName[r],
                     step |-> IF status[r] = "absent" THEN "drop"
                              ELSE IF cancelRequested[r] THEN "cancel" ELSE "fail"]
    <2>1. r \in Enqueued /\ todo' \in [Replicas -> SUBSET Enqueued']
      BY <1>4 DEF ReadOrphan, StartOK
    <2>2. TenantOf(r) \in Tenants /\ containerName[r] \in BOOLEAN
      BY StoreAssumption DEF TenantOf, StoreInv, StoreTypeOK
    <2>3. /\ o \in [run : Runs \cup {NoRun},
                    step : {"none", "drop", "fail", "cancel", "clean"},
                    tenant : Tenants, named : BOOLEAN]
          /\ o.run \in Enqueued'
      BY <2>1, <2>2
    <2>4. orphan' = [orphan EXCEPT ![p] = o] /\ life' = life
      BY <1>4 DEF ReadOrphan
    <2> HIDE DEF o
    <2> QED
      BY <2>1, <2>3, <2>4 DEF StartOK
  <1>5. ASSUME NEW p \in Replicas, RecoverOrphan(p)
        PROVE  StartOK'
    <2>1. PICK o \in {NoOrphan, [orphan[p] EXCEPT !.step = "clean"]} :
             /\ orphan' = [orphan EXCEPT ![p] = o]
             /\ o.step # "none" => orphan[p].step # "none"
             /\ o.run # orphan[p].run => o.step = "none"
      BY <1>5 DEF RecoverOrphan, NoOrphan, StartOK
    <2>2. o \in [run : Runs \cup {NoRun}, step : {"none", "drop", "fail", "cancel", "clean"},
                 tenant : Tenants, named : BOOLEAN]
      <3>1. orphan[p] \in [run : Runs \cup {NoRun},
                            step : {"none", "drop", "fail", "cancel", "clean"},
                            tenant : Tenants, named : BOOLEAN]
        BY DEF StartOK
      <3>2. CASE o = NoOrphan
        BY <3>2, StoreAssumption DEF NoOrphan
      <3>3. CASE o = [orphan[p] EXCEPT !.step = "clean"]
        BY <3>1, <3>3
      <3> QED
        BY <2>1, <3>2, <3>3
    <2>3. UNCHANGED <<life, todo>>
      BY <1>5 DEF RecoverOrphan
    <2> QED
      BY <2>1, <2>2, <2>3 DEF StartOK
  <1>6. ASSUME NEW p \in Replicas, Serve(p)
        PROVE  StartOK'
    BY <1>6 DEF Serve, StartOK
  <1>7. ASSUME NEW p \in Replicas, Crash(p)
        PROVE  StartOK'
    <2>1. /\ life' = [life EXCEPT ![p] = "down"]
          /\ todo' = [todo EXCEPT ![p] = {}]
          /\ orphan' = [orphan EXCEPT ![p] = NoOrphan]
      BY <1>7 DEF Crash
    <2>2. NoOrphan \in [run : Runs \cup {NoRun},
                        step : {"none", "drop", "fail", "cancel", "clean"},
                        tenant : Tenants, named : BOOLEAN]
      BY StoreAssumption DEF NoOrphan
    <2>3. NoOrphan.step = "none"
      BY DEF NoOrphan
    <2> QED
      BY <2>1, <2>2, <2>3 DEF StartOK
  <1>8. ASSUME NEW p \in Replicas,
               \/ Work(p) \/ Sandbox(p) \/ Watcher(p) \/ Hang(p) \/ Raise(p)
               \/ \E r \in Runs : Submit(p, r)
        PROVE  UNCHANGED startVars
    <2>1. CASE Work(p)
      BY <2>1 DEF Work, Claim, ReadRun, Start, NameContainer, Spawn, Complete, Fail, HangKill,
                  HangMark, Close, EndUnchanged
    <2>2. CASE Raise(p)
      BY <2>2 DEF Raise, LoseClaim, WorkerDies, CompleteRaises, WatchRaises, SubmitRaises
    <2>3. CASE \/ Sandbox(p) \/ Watcher(p) \/ Hang(p) \/ \E r \in Runs : Submit(p, r)
      BY <2>3 DEF Sandbox, Launch, Return, ClientTimeout, ForceKill, BoxUnchanged, Watcher,
                  Watch, WatchKill, Hang, EndUnchanged, Submit
    <2> QED
      BY <1>8, <2>1, <2>2, <2>3
  <1>9. ASSUME NEW c \in Cancels,
               \/ CancelStep(c) \/ CancelRaises(c)
               \/ \E p \in Replicas, r \in Runs, t \in Tenants : CancelRun(c, p, r, t)
        PROVE  UNCHANGED startVars
    BY <1>9 DEF CancelStep, CancelQueuedBranch, CancelRunningBranch, CancelKill, CancelRaises,
                CancelRun
  <1>10. Clock \/ (\E r \in Runs : PodUp(r) \/ PodGone(r)) \/ UNCHANGED vars
            => UNCHANGED startVars
    BY DEF Clock, PodUp, PodGone, vars
  <1> QED
    BY <1>1, <1>2, <1>3, <1>4, <1>5, <1>6, <1>7, <1>8, <1>9, <1>10 DEF Next, Startup

\* Of all workers only that of p moves.
OnlyWorker(p) ==
    /\ life' = life
    /\ pc' = [pc EXCEPT ![p] = pc'[p]]
    /\ wrun' = [wrun EXCEPT ![p] = wrun'[p]]
    /\ wtenant' = [wtenant EXCEPT ![p] = wtenant'[p]]
    /\ box' = [box EXCEPT ![p] = box'[p]]
    /\ watcher' = [watcher EXCEPT ![p] = watcher'[p]]

\* ... with its sandbox task and its watcher.
LEMMA WorkerMoves ==
    ASSUME WorkerOK, Enqueued \subseteq Enqueued', NEW p \in Replicas, OnlyWorker(p),
           Serving(p),
           pc'[p] \in WorkerStep, wrun'[p] \in Runs \cup {NoRun}, wtenant'[p] \in Tenants,
           box'[p] \in Box, watcher'[p] \in {"off", "sleep", "kill", "done", "failed"},
           pc'[p] \notin {"off", "idle"} => wrun'[p] \in Enqueued',
           box'[p] \notin {"none", "returned", "raised"} => pc'[p] = "running",
           watcher'[p] # "off" => pc'[p] \in {"running", "hung", "killed", "failing", "closing"}
    PROVE  WorkerOK'
  <1>1. /\ pc' \in [Replicas -> WorkerStep]
        /\ wrun' \in [Replicas -> Runs \cup {NoRun}]
        /\ wtenant' \in [Replicas -> Tenants]
        /\ box' \in [Replicas -> Box]
        /\ watcher' \in [Replicas -> {"off", "sleep", "kill", "done", "failed"}]
    BY DEF WorkerOK, OnlyWorker
  <1>2. ASSUME NEW x \in Replicas
        PROVE  /\ ~Serving(x)' => pc'[x] = "off"
               /\ pc'[x] \notin {"off", "idle"} => wrun'[x] \in Enqueued'
               /\ ~BoxDone(x)' => pc'[x] = "running"
               /\ watcher'[x] # "off" =>
                     pc'[x] \in {"running", "hung", "killed", "failing", "closing"}
    <2>1. CASE x = p
      BY <2>1 DEF OnlyWorker, BoxDone, Serving
    <2>2. CASE x # p
      <3>1. /\ pc'[x] = pc[x] /\ wrun'[x] = wrun[x] /\ box'[x] = box[x]
            /\ watcher'[x] = watcher[x] /\ life'[x] = life[x]
        BY <2>2 DEF OnlyWorker, WorkerOK
      <3> QED
        BY <3>1 DEF WorkerOK, BoxDone, Serving
    <2> QED
      BY <2>1, <2>2
  <1> QED
    BY <1>1, <1>2 DEF WorkerOK

\* The types of what the worker of p has now.
LEMMA WorkerNow ==
    ASSUME WorkerOK, Enqueued \subseteq Enqueued', NEW p \in Replicas
    PROVE  /\ wrun[p] \in Runs \cup {NoRun} /\ wtenant[p] \in Tenants
           /\ box[p] \in Box /\ watcher[p] \in {"off", "sleep", "kill", "done", "failed"}
           /\ pc[p] # "off" => Serving(p)
           /\ pc[p] \notin {"off", "idle"} => wrun[p] \in Enqueued'
           /\ box[p] \notin {"none", "returned", "raised"} => pc[p] = "running"
           /\ watcher[p] # "off" =>
                 pc[p] \in {"running", "hung", "killed", "failing", "closing"}
  BY DEF WorkerOK, BoxDone

\* _worker_loop and _execute_run.
LEMMA WorkTyped ==
    ASSUME StoreInv, WorkerOK, Enqueued \subseteq Enqueued', NEW p \in Replicas, Work(p)
    PROVE  WorkerOK'
  <1> USE DEF At, GoTo, NextRun, OnlyWorker, startVars
  <1>1. CASE Claim(p)
    <2>1. Head(queue) \in Range(queue)
      BY <1>1, TailOnce DEF Claim, ClaimNext, StoreInv, StoreTypeOK, HandedOutOnce, Once
    <2>2. Head(queue) \in Enqueued' /\ Head(queue) \in Runs
      BY <2>1 DEF StoreInv, StoreTypeOK, HandedOutOnce, Enqueued, Range
    <2>3. /\ OnlyWorker(p) /\ Serving(p) /\ pc'[p] = "claimed" /\ wrun'[p] = Head(queue)
          /\ wtenant'[p] = wtenant[p] /\ box'[p] = box[p] /\ watcher'[p] = watcher[p]
          /\ pc[p] = "idle"
      BY <1>1 DEF Claim, WorkerOK
    <2> QED
      BY <2>2, <2>3, WorkerNow, WorkerMoves DEF WorkerStep
  <1>2. CASE ReadRun(p)
    <2>1. /\ OnlyWorker(p) /\ Serving(p) /\ pc[p] = "claimed"
          /\ box'[p] = box[p] /\ watcher'[p] = watcher[p]
          /\ \/ pc'[p] = "idle" /\ wrun'[p] = NoRun /\ wtenant'[p] = wtenant[p]
             \/ pc'[p] = "read" /\ wrun'[p] = wrun[p] /\ wtenant'[p] = TenantOf(wrun[p])
      BY <1>2 DEF ReadRun, WorkerOK
    <2>2. wrun[p] \in Runs
      BY <2>1 DEF Enqueued, WorkerOK
    <2>3. TenantOf(wrun[p]) \in Tenants
      BY <2>2, StoreAssumption DEF TenantOf, StoreInv, StoreTypeOK
    <2> QED
      BY <2>1, <2>2, <2>3, WorkerNow, WorkerMoves DEF WorkerStep
  <1>3. CASE Start(p)
    <2>1. /\ OnlyWorker(p) /\ Serving(p) /\ pc[p] = "read" /\ wtenant'[p] = wtenant[p]
          /\ box'[p] = box[p] /\ watcher'[p] = watcher[p]
          /\ \/ pc'[p] = "idle" /\ wrun'[p] = NoRun
             \/ pc'[p] = "started" /\ wrun'[p] = wrun[p]
      BY <1>3 DEF Start, WorkerOK
    <2> QED
      BY <2>1, WorkerNow, WorkerMoves DEF WorkerStep
  <1>4. CASE NameContainer(p)
    <2>1. /\ OnlyWorker(p) /\ Serving(p) /\ pc[p] = "started" /\ pc'[p] = "named"
          /\ wrun'[p] = wrun[p] /\ wtenant'[p] = wtenant[p]
          /\ box'[p] = box[p] /\ watcher'[p] = watcher[p]
      BY <1>4 DEF NameContainer, WorkerOK
    <2> QED
      BY <2>1, WorkerNow, WorkerMoves DEF WorkerStep
  <1>5. CASE Spawn(p)
    <2>1. /\ OnlyWorker(p) /\ Serving(p) /\ pc[p] = "named" /\ pc'[p] = "running"
          /\ wrun'[p] = wrun[p] /\ wtenant'[p] = wtenant[p]
          /\ box'[p] = "prepare" /\ watcher'[p] = "sleep"
      BY <1>5 DEF Spawn, WorkerOK
    <2> QED
      BY <2>1, WorkerNow, WorkerMoves DEF WorkerStep, Box
  <1>6. CASE Complete(p) \/ Fail(p) \/ HangKill(p) \/ HangMark(p)
    <2>1. /\ OnlyWorker(p) /\ Serving(p) /\ pc'[p] \in {"closing", "killed"}
          /\ pc[p] \in {"running", "failing", "hung", "killed"}
          /\ wrun'[p] = wrun[p] /\ wtenant'[p] = wtenant[p]
          /\ box'[p] = box[p] /\ watcher'[p] = watcher[p]
          /\ pc[p] = "running" => box[p] \in {"returned", "raised"}
      BY <1>6 DEF Complete, Fail, HangKill, HangMark, EndUnchanged, WorkerOK
    <2> QED
      BY <2>1, WorkerNow, WorkerMoves DEF WorkerStep
  <1>7. CASE Close(p)
    <2>1. /\ OnlyWorker(p) /\ Serving(p) /\ pc[p] = "closing" /\ wtenant'[p] = wtenant[p]
          /\ box'[p] = "none" /\ watcher'[p] = "off"
          /\ \/ pc'[p] = "idle" /\ wrun'[p] = NoRun
             \/ pc'[p] = "dead" /\ wrun'[p] = wrun[p]
      BY <1>7 DEF Close, WorkerOK
    <2> QED
      BY <2>1, WorkerNow, WorkerMoves DEF WorkerStep, Box
  <1> QED
    BY <1>1, <1>2, <1>3, <1>4, <1>5, <1>6, <1>7 DEF Work

\* The sandbox task, the watcher, the guard and the faults.
LEMMA TasksTyped ==
    ASSUME WorkerOK, Enqueued \subseteq Enqueued', NEW p \in Replicas,
           Sandbox(p) \/ Watcher(p) \/ Hang(p) \/ Raise(p)
    PROVE  WorkerOK'
  <1> USE DEF At, GoTo, OnlyWorker, startVars
  <1>1. CASE Sandbox(p)
    <2>1. PICK b \in Box : box' = [box EXCEPT ![p] = b]
      BY <1>1 DEF Sandbox, Launch, Return, ClientTimeout, ForceKill, BoxGoes, Box
    <2>2. /\ ~BoxDone(p) /\ OnlyWorker(p) /\ pc'[p] = pc[p] /\ wrun'[p] = wrun[p]
          /\ wtenant'[p] = wtenant[p] /\ box'[p] = b /\ watcher'[p] = watcher[p]
      BY <1>1, <2>1 DEF Sandbox, Launch, Return, ClientTimeout, ForceKill, BoxGoes, BoxDone,
                        BoxUnchanged, WorkerOK
    <2> QED
      BY <2>2, WorkerNow, WorkerMoves DEF BoxDone, WorkerStep
  <1>2. CASE Watcher(p) \/ WatchRaises(p)
    <2>1. PICK w \in {"kill", "done", "failed"} : watcher' = [watcher EXCEPT ![p] = w]
      BY <1>2 DEF Watcher, Watch, WatchKill, WatchRaises
    <2>2. /\ OnlyWorker(p) /\ pc'[p] = pc[p] /\ wrun'[p] = wrun[p]
          /\ wtenant'[p] = wtenant[p] /\ box'[p] = box[p] /\ watcher'[p] = w
          /\ watcher[p] # "off"
      BY <1>2, <2>1 DEF Watcher, Watch, WatchKill, WatchRaises, WorkerOK
    <2> QED
      BY <2>2, WorkerNow, WorkerMoves DEF WorkerStep
  <1>3. CASE Hang(p) \/ WorkerDies(p)
    <2>1. /\ OnlyWorker(p) /\ Serving(p) /\ pc'[p] \in {"hung", "dead"}
          /\ pc[p] \notin {"off", "idle"}
          /\ wrun'[p] = wrun[p] /\ wtenant'[p] = wtenant[p] /\ box'[p] = "none"
          /\ watcher'[p] = "off" \/ (watcher'[p] = watcher[p] /\ pc'[p] = "hung")
      BY <1>3 DEF Hang, WorkerDies, EndUnchanged, WorkerOK
    <2> QED
      BY <2>1, WorkerNow, WorkerMoves DEF WorkerStep, Box
  <1>4. CASE CompleteRaises(p)
    <2>1. /\ OnlyWorker(p) /\ Serving(p) /\ pc[p] = "running" /\ pc'[p] = "failing"
          /\ wrun'[p] = wrun[p] /\ wtenant'[p] = wtenant[p]
          /\ box'[p] = box[p] /\ box[p] = "returned" /\ watcher'[p] = watcher[p]
      BY <1>4 DEF CompleteRaises, WorkerOK
    <2> QED
      BY <2>1, WorkerNow, WorkerMoves DEF WorkerStep
  <1>5. CASE LoseClaim(p) \/ \E r \in Runs : SubmitRaises(p, r)
    BY <1>5 DEF LoseClaim, SubmitRaises, workerVars, WorkerOK, BoxDone, Serving
  <1> QED
    BY <1>1, <1>2, <1>3, <1>4, <1>5 DEF Raise

\* Besides these a worker is only started, and stopped with its process.
LEMMA WorkersTyped ==
    ASSUME StoreInv, StartOK, WorkerOK, Enqueued \subseteq Enqueued', [Next]_vars
    PROVE  WorkerOK'
  <1>1. ASSUME UNCHANGED workerVars, \A p \in Replicas : Serving(p) => Serving(p)'
        PROVE  WorkerOK'
    BY <1>1 DEF WorkerOK, workerVars, BoxDone, Serving
  <1>2. ASSUME NEW p \in Replicas, Startup(p)
        PROVE  WorkerOK'
    <2>1. CASE Serve(p)
      <3>1. pc' = [pc EXCEPT ![p] = "idle"] /\ life' = [life EXCEPT ![p] = "serving"]
            /\ UNCHANGED <<wrun, wtenant, box, watcher>>
        BY <2>1 DEF Serve
      <3>2. pc[p] = "off"
        BY <2>1 DEF Serve, Serving, WorkerOK
      <3>3. ASSUME NEW x \in Replicas
            PROVE  /\ ~Serving(x)' => pc'[x] = "off"
                   /\ pc'[x] \notin {"off", "idle"} => wrun'[x] \in Enqueued'
                   /\ ~BoxDone(x)' => pc'[x] = "running"
                   /\ watcher'[x] # "off" =>
                         pc'[x] \in {"running", "hung", "killed", "failing", "closing"}
        BY <3>1, <3>2 DEF WorkerOK, StartOK, BoxDone, Serving
      <3>4. pc' \in [Replicas -> WorkerStep]
        BY <3>1 DEF WorkerOK, WorkerStep
      <3> QED
        BY <3>1, <3>3, <3>4 DEF WorkerOK
    <2>2. CASE ~Serve(p)
      <3>1. UNCHANGED workerVars
        BY <1>2, <2>2 DEF Startup, Reap, ListOrphans, ReadOrphan, RecoverOrphan
      <3>2. \A x \in Replicas : Serving(x) => Serving(x)'
        BY <1>2, <2>2 DEF Startup, Reap, ListOrphans, ReadOrphan, RecoverOrphan, Serving,
                          StartOK
      <3> QED
        BY <1>1, <3>1, <3>2
    <2> QED
      BY <2>1, <2>2
  <1>3. ASSUME NEW p \in Replicas, Crash(p)
        PROVE  WorkerOK'
    <2>1. /\ pc' = [pc EXCEPT ![p] = "off"] /\ wrun' = [wrun EXCEPT ![p] = NoRun]
          /\ box' = [box EXCEPT ![p] = "none"] /\ watcher' = [watcher EXCEPT ![p] = "off"]
          /\ life' = [life EXCEPT ![p] = "down"] /\ UNCHANGED wtenant
      BY <1>3 DEF Crash
    <2>2. ASSUME NEW x \in Replicas
          PROVE  /\ ~Serving(x)' => pc'[x] = "off"
                 /\ pc'[x] \notin {"off", "idle"} => wrun'[x] \in Enqueued'
                 /\ ~BoxDone(x)' => pc'[x] = "running"
                 /\ watcher'[x] # "off" =>
                       pc'[x] \in {"running", "hung", "killed", "failing", "closing"}
      BY <2>1 DEF WorkerOK, StartOK, BoxDone, Serving
    <2>3. /\ pc' \in [Replicas -> WorkerStep] /\ wrun' \in [Replicas -> Runs \cup {NoRun}]
          /\ box' \in [Replicas -> Box]
          /\ watcher' \in [Replicas -> {"off", "sleep", "kill", "done", "failed"}]
      BY <2>1 DEF WorkerOK, WorkerStep, Box
    <2> QED
      BY <2>1, <2>2, <2>3 DEF WorkerOK
  <1>4. ASSUME NEW p \in Replicas, NEW r \in Runs, Submit(p, r)
        PROVE  UNCHANGED <<startVars, workerVars>>
    BY <1>4 DEF Submit
  <1>5. ASSUME NEW c \in Cancels,
               \/ CancelStep(c) \/ CancelRaises(c)
               \/ \E p \in Replicas, r \in Runs, t \in Tenants : CancelRun(c, p, r, t)
        PROVE  UNCHANGED <<startVars, workerVars>>
    BY <1>5 DEF CancelStep, CancelQueuedBranch, CancelRunningBranch, CancelKill, CancelRaises,
                CancelRun
  <1>6. Clock \/ (\E r \in Runs : PodUp(r) \/ PodGone(r)) \/ UNCHANGED vars
            => UNCHANGED <<startVars, workerVars>>
    BY DEF Clock, PodUp, PodGone, vars
  <1>7. ASSUME UNCHANGED <<startVars, workerVars>>
        PROVE  WorkerOK'
    BY <1>1, <1>7 DEF Serving, startVars
  <1> QED
    BY <1>2, <1>3, <1>4, <1>5, <1>6, <1>7, WorkTyped, TasksTyped DEF Next

\* An answered cancel, and one that goes on.
LEMMA CancelMoves ==
    ASSUME CancelOK, NEW c \in Cancels, NEW x \in Asked,
           x.step \in {"queued", "running", "kill"} => x.run \in Runs /\ x.tenant \in Tenants,
           x.step # "done" => x.code = "none",
           cancel' = [cancel EXCEPT ![c] = x]
    PROVE  CancelOK'
  BY DEF CancelOK

LEMMA AnswerTyped ==
    ASSUME CancelOK, NEW c \in Cancels, NEW code \in Outcome, NEW was \in Status,
           Answer(c, code, was)
    PROVE  CancelOK'
  <1> DEFINE x == [cancel[c] EXCEPT !.step = "done", !.code = code, !.was = was]
  <1>1. cancel[c] \in Asked
    BY DEF CancelOK
  <1>2. x \in Asked /\ x.step = "done"
    BY <1>1 DEF Asked
  <1>3. cancel' = [cancel EXCEPT ![c] = x]
    BY DEF Answer
  <1> HIDE DEF x
  <1> QED
    BY <1>2, <1>3, CancelMoves

\* Only its handler, and the end of the process it is in, write to a cancel.
LEMMA CancelAlone ==
    ASSUME [Next]_vars
    PROVE  \/ UNCHANGED cancel
           \/ \E c \in Cancels : CancelStep(c) \/ CancelRaises(c)
           \/ \E c \in Cancels, p \in Replicas, r \in Runs, t \in Tenants :
                 CancelRun(c, p, r, t)
           \/ \E p \in Replicas : Crash(p)
  <1>1. ASSUME NEW p \in Replicas,
               \/ Startup(p) \/ Work(p) \/ Sandbox(p) \/ Watcher(p) \/ Hang(p) \/ Raise(p)
               \/ \E r \in Runs : Submit(p, r)
        PROVE  UNCHANGED cancel
    <2>1. CASE Startup(p)
      BY <2>1 DEF Startup, Reap, ListOrphans, ReadOrphan, RecoverOrphan, Serve
    <2>2. CASE Work(p)
      BY <2>2 DEF Work, Claim, ReadRun, Start, NameContainer, Spawn, Complete, Fail, HangKill,
                  HangMark, Close, EndUnchanged
    <2>3. CASE Raise(p)
      BY <2>3 DEF Raise, LoseClaim, WorkerDies, CompleteRaises, WatchRaises, SubmitRaises
    <2>4. CASE \/ Sandbox(p) \/ Watcher(p) \/ Hang(p) \/ \E r \in Runs : Submit(p, r)
      BY <2>4 DEF Sandbox, Launch, Return, ClientTimeout, ForceKill, BoxUnchanged, Watcher,
                  Watch, WatchKill, Hang, EndUnchanged, Submit
    <2> QED
      BY <1>1, <2>1, <2>2, <2>3, <2>4
  <1>2. Clock \/ (\E r \in Runs : PodUp(r) \/ PodGone(r)) \/ UNCHANGED vars
            => UNCHANGED cancel
    BY DEF Clock, PodUp, PodGone, vars
  <1> QED
    BY <1>1, <1>2 DEF Next

LEMMA CancelsTyped ==
    ASSUME StoreInv, CancelOK, [Next]_vars
    PROVE  CancelOK'
  <1>a. Status = {"absent", "none", "queued", "running", "completed", "failed", "canceled"}
    BY DEF Status, Active, Terminal
  <1>b. {"none", "ok", "not_found", "cross_tenant", "already_terminal", "kill_failed",
         "unexpected_status", "error"} = Outcome
    BY DEF Outcome
  <1>1. ASSUME NEW c \in Cancels, CancelStep(c) \/ CancelRaises(c)
        PROVE  CancelOK'
    <2>1. /\ cancel[c] \in Asked /\ cancel[c].was \in Status
          /\ cancel[c].step \in {"queued", "running", "kill"}
      BY <1>1 DEF CancelOK, Asked, CancelStep, CancelQueuedBranch, CancelRunningBranch,
                  CancelKill, CancelRaises
    <2>2. cancel[c].run \in Runs /\ status[cancel[c].run] \in Status
      BY <2>1 DEF CancelOK, StoreInv, StoreTypeOK
    <2>3. ASSUME NEW code, Refuse(c, cancel[c].run, code)
          PROVE  CancelOK'
      BY <1>a, <1>b, <2>2, <2>3, AnswerTyped DEF Refuse
    <2>4. ASSUME cancel' = [cancel EXCEPT ![c] = [@ EXCEPT !.step = "kill"]]
          PROVE  CancelOK'
      <3> DEFINE x == [cancel[c] EXCEPT !.step = "kill"]
      <3>1. x \in Asked /\ x.run \in Runs /\ x.tenant \in Tenants /\ x.code = "none"
        BY <2>1, <2>2 DEF Asked, CancelOK
      <3>2. cancel' = [cancel EXCEPT ![c] = x]
        BY <2>4
      <3> HIDE DEF x
      <3> QED
        BY <3>1, <3>2, CancelMoves
    <2>5. CASE CancelQueuedBranch(c) \/ CancelKill(c) \/ CancelRaises(c)
      BY <1>a, <1>b, <2>1, <2>3, <2>5, AnswerTyped
         DEF CancelQueuedBranch, CancelKill, CancelRaises
    <2>6. CASE CancelRunningBranch(c)
      BY <1>a, <1>b, <2>3, <2>4, <2>6, AnswerTyped DEF CancelRunningBranch
    <2> QED
      BY <1>1, <2>5, <2>6 DEF CancelStep
  <1>2. ASSUME NEW c \in Cancels, NEW p \in Replicas, NEW r \in Runs, NEW t \in Tenants,
               CancelRun(c, p, r, t)
        PROVE  CancelOK'
    <2>1. status[r] \in Status
      BY DEF StoreInv, StoreTypeOK
    <2>2. PICK step \in {"queued", "running", "done"}, code \in Outcome :
             /\ step # "done" => code = "none"
             /\ cancel' = [cancel EXCEPT ![c] =
                              [step |-> step, run |-> r, tenant |-> t, at |-> {p},
                               code |-> code, was |-> status[r]]]
      BY <1>2, <1>a, <1>b, <2>1 DEF CancelRun, Active, Terminal
    <2> DEFINE x == [step |-> step, run |-> r, tenant |-> t, at |-> {p}, code |-> code,
                     was |-> status[r]]
    <2>3. x \in Asked /\ x.run = r /\ x.tenant = t /\ x.step = step /\ x.code = code
      BY <2>1 DEF Asked
    <2> HIDE DEF x
    <2> QED
      BY <2>2, <2>3, CancelMoves DEF x
  <1>3. ASSUME NEW p \in Replicas, Crash(p)
        PROVE  CancelOK'
    <2> DEFINE x(c) == IF p \in cancel[c].at /\ cancel[c].step # "done"
                       THEN [cancel[c] EXCEPT !.step = "done", !.code = "error"]
                       ELSE cancel[c]
    <2>1. cancel' = [c \in Cancels |-> x(c)]
      BY <1>3 DEF Crash
    <2>2. ASSUME NEW c \in Cancels
          PROVE  /\ x(c) \in Asked
                 /\ x(c).step # "done" => x(c) = cancel[c]
      <3>1. cancel[c] \in Asked /\ "error" \in Outcome
        BY <1>b DEF CancelOK
      <3>2. [cancel[c] EXCEPT !.step = "done", !.code = "error"] \in Asked
        BY <3>1 DEF Asked
      <3>3. [cancel[c] EXCEPT !.step = "done", !.code = "error"].step = "done"
        BY <3>1 DEF Asked
      <3> QED
        BY <3>1, <3>2, <3>3
    <2> HIDE DEF x
    <2> QED
      BY <2>1, <2>2 DEF CancelOK
  <1>4. ASSUME UNCHANGED cancel PROVE CancelOK'
    BY <1>4 DEF CancelOK
  <1> QED
    BY <1>1, <1>2, <1>3, <1>4, CancelAlone

\* The containers, the submits' processes and the bounds.
LEMMA RestTyped ==
    ASSUME ServiceOK, [Next]_vars
    PROVE  RestOK'
  <1> DEFINE PodTyped == pod' \in [Runs -> {"none", "pending", "up"}]
             BoundsTyped == crashes' \in 0 .. MaxCrashes /\ faults' \in 0 .. MaxFaults
             SubmitTyped == submitAt' \in [Runs -> SUBSET Replicas]
  <1> USE DEF RestOK
  <1>a. RestOK
    BY DEF ServiceOK
  <1>b. ASSUME NEW r \in Runs, NEW ok \in BOOLEAN, Kill(r, ok)
        PROVE  PodTyped
    BY <1>a, <1>b, KillTyped
  <1>c. UNCHANGED pod => PodTyped
    BY <1>a
  <1>d. UNCHANGED submitAt => SubmitTyped
    BY <1>a
  <1>e. UNCHANGED boundVars => BoundsTyped
    BY <1>a DEF boundVars
  <1>f. Fault /\ UNCHANGED crashes => BoundsTyped
    BY <1>a, RunnerAssumption DEF Fault
  <1>g. \A p \in Replicas : pc[p] \notin {"off", "idle"} => wrun[p] \in Runs
    BY DEF ServiceOK, WorkerOK, Enqueued
  <1>h. \A p \in Replicas : /\ ~BoxDone(p) => pc[p] = "running"
                            /\ watcher[p] # "off" => pc[p] \notin {"off", "idle"}
    BY DEF ServiceOK, WorkerOK
  <1>1. ASSUME NEW p \in Replicas, Startup(p)
        PROVE  PodTyped /\ SubmitTyped /\ BoundsTyped
    <2>1. UNCHANGED <<submitAt, boundVars>>
      BY <1>1 DEF Startup, Reap, ListOrphans, ReadOrphan, RecoverOrphan, Serve
    <2>2. CASE Reap(p)
      <3>1. PICK left \in SUBSET Runs :
               pod' = [r \in Runs |-> IF pod[r] = "up" /\ r \notin left THEN "none" ELSE pod[r]]
        BY <2>2 DEF Reap
      <3> QED
        BY <1>a, <1>d, <1>e, <2>1, <3>1
    <2>3. CASE RecoverOrphan(p)
      <3>1. UNCHANGED pod \/ \E ok \in BOOLEAN : orphan[p].step = "clean" /\ Kill(orphan[p].run, ok)
        BY <2>3 DEF RecoverOrphan
      <3>2. orphan[p].step = "clean" => orphan[p].run \in Runs
        BY DEF ServiceOK, StartOK, Enqueued
      <3> QED
        BY <1>b, <1>c, <1>d, <1>e, <2>1, <3>1, <3>2
    <2>4. CASE ~Reap(p) /\ ~RecoverOrphan(p)
      BY <1>1, <1>c, <1>d, <1>e, <2>1, <2>4
         DEF Startup, ListOrphans, ReadOrphan, Serve
    <2> QED
      BY <2>2, <2>3, <2>4
  <1>2. ASSUME NEW p \in Replicas, Work(p) \/ Watcher(p) \/ Hang(p)
        PROVE  PodTyped /\ SubmitTyped /\ BoundsTyped
    <2>1. UNCHANGED <<submitAt, boundVars>>
      BY <1>2 DEF Work, Claim, ReadRun, Start, NameContainer, Spawn, Complete, Fail, HangKill,
                  HangMark, Close, EndUnchanged, Watcher, Watch, WatchKill, Hang
    <2>2. \/ UNCHANGED pod
          \/ /\ pc[p] \in {"named", "hung", "closing"} \/ watcher[p] = "kill"
             /\ \E ok \in BOOLEAN : Kill(wrun[p], ok)
      BY <1>2 DEF Work, Claim, ReadRun, Start, NameContainer, Spawn, Complete, Fail, HangKill,
                  HangMark, Close, EndUnchanged, Watcher, Watch, WatchKill, Hang, At
    <2> QED
      BY <1>b, <1>c, <1>d, <1>e, <1>g, <1>h, <2>1, <2>2
  <1>3. ASSUME NEW p \in Replicas, Sandbox(p)
        PROVE  PodTyped /\ SubmitTyped /\ BoundsTyped
    <2>1. UNCHANGED <<submitAt, boundVars>>
      BY <1>3 DEF Sandbox, Launch, Return, ClientTimeout, ForceKill, BoxUnchanged
    <2>2. wrun[p] \in Runs
      BY <1>3, <1>g, <1>h DEF Sandbox, Launch, Return, ClientTimeout, ForceKill, BoxGoes,
                              BoxDone
    <2>3. \/ UNCHANGED pod \/ pod' = [pod EXCEPT ![wrun[p]] = "pending"]
          \/ \E ok \in BOOLEAN : Kill(wrun[p], ok)
      BY <1>3 DEF Sandbox, Launch, Return, ClientTimeout, ForceKill
    <2> QED
      BY <1>a, <1>b, <1>c, <1>d, <1>e, <2>1, <2>2, <2>3
  <1>4. ASSUME NEW p \in Replicas, Crash(p)
        PROVE  PodTyped /\ SubmitTyped /\ BoundsTyped
    <2>1. PodTyped
      BY <1>4, <1>a DEF Crash
    <2>2. crashes' = crashes + 1 /\ crashes < MaxCrashes /\ UNCHANGED <<submitAt, faults>>
      BY <1>4 DEF Crash
    <2> QED
      BY <1>a, <1>d, <2>1, <2>2, RunnerAssumption
  <1>5. ASSUME NEW p \in Replicas, Raise(p)
        PROVE  PodTyped /\ SubmitTyped /\ BoundsTyped
    BY <1>5, <1>c, <1>d, <1>f DEF Raise, LoseClaim, WorkerDies, CompleteRaises, WatchRaises,
                                  SubmitRaises
  <1>6. ASSUME NEW p \in Replicas, NEW r \in Runs, Submit(p, r)
        PROVE  PodTyped /\ SubmitTyped /\ BoundsTyped
    BY <1>6, <1>a, <1>c, <1>d, <1>e DEF Submit
  <1>7. ASSUME NEW c \in Cancels, CancelStep(c) \/ CancelRaises(c)
        PROVE  PodTyped /\ SubmitTyped /\ BoundsTyped
    <2>1. UNCHANGED submitAt /\ (UNCHANGED boundVars \/ (Fault /\ UNCHANGED crashes))
      BY <1>7 DEF CancelStep, CancelQueuedBranch, CancelRunningBranch, CancelKill, CancelRaises
    <2>2. \/ UNCHANGED pod
          \/ cancel[c].step = "kill" /\ \E ok \in BOOLEAN : Kill(cancel[c].run, ok)
      BY <1>7 DEF CancelStep, CancelQueuedBranch, CancelRunningBranch, CancelKill, CancelRaises
    <2>3. cancel[c].step = "kill" => cancel[c].run \in Runs
      BY DEF ServiceOK, CancelOK
    <2> QED
      BY <1>b, <1>c, <1>d, <1>e, <1>f, <2>1, <2>2, <2>3
  <1>8. ASSUME \/ \E c \in Cancels, p \in Replicas, r \in Runs, t \in Tenants :
                     CancelRun(c, p, r, t)
               \/ Clock \/ UNCHANGED vars
        PROVE  PodTyped /\ SubmitTyped /\ BoundsTyped
    <2>1. UNCHANGED <<pod, submitAt, boundVars>>
      <3>1. ASSUME NEW c \in Cancels, NEW p \in Replicas, NEW r \in Runs, NEW t \in Tenants,
                   CancelRun(c, p, r, t)
            PROVE  UNCHANGED <<pod, submitAt, boundVars>>
        BY <3>1 DEF CancelRun
      <3>2. Clock \/ UNCHANGED vars => UNCHANGED <<pod, submitAt, boundVars>>
        BY DEF Clock, vars
      <3> QED
        BY <1>8, <3>1, <3>2
    <2> QED
      BY <1>c, <1>d, <1>e, <2>1
  <1>9. ASSUME NEW r \in Runs, PodUp(r) \/ PodGone(r)
        PROVE  PodTyped /\ SubmitTyped /\ BoundsTyped
    BY <1>9, <1>a, <1>d, <1>e DEF PodUp, PodGone
  <1>10. PodTyped /\ SubmitTyped /\ BoundsTyped
    BY <1>1, <1>2, <1>3, <1>4, <1>5, <1>6, <1>7, <1>8, <1>9 DEF Next
  <1> QED
    BY <1>10

LEMMA StepOK ==
    ASSUME StoreInv, ServiceOK, [Next]_vars
    PROVE  StoreInv' /\ ServiceOK'
  <1>1. [StoreNext]_storeVars
    BY StepIsStore
  <1>2. Enqueued \subseteq Enqueued'
    BY <1>1, EnqueuedStays DEF StoreInv
  <1>3. StoreInv'
    BY <1>1, StoreTypeStep, HandedOutStep, UnstoredStep DEF StoreInv
  <1> QED
    BY <1>2, <1>3, StartTyped, WorkersTyped, CancelsTyped, RestTyped DEF ServiceOK

LEMMA ServiceHolds == Spec => [](StoreInv /\ ServiceOK)
  <1>1. StoreInv /\ ServiceOK /\ [Next]_vars => (StoreInv /\ ServiceOK)'
    BY StepOK
  <1> QED
    BY <1>1, InitOK, PTL DEF Spec

\* Every variable of the service keeps its type, for any number of replicas.
THEOREM RunnerTypeCorrect == Spec => []RunnerTypeOK
  BY ServiceHolds, ServiceTyped, PTL

-----------------------------------------------------------------------------
(* The service implements the store                                          *)

\* Whatever replicas, crashes and faults do, the store sees only what StoreSpec
\* lets a client do: a method of class Queue on an id that its caller got from
\* the store.
THEOREM KeepsToTheStore == Spec => StoreSpec
  <1>1. Init => StoreInit
    BY DEF Init
  <1>2. ServiceOK /\ [Next]_vars => [StoreNext]_storeVars
    BY StepIsStore
  <1> QED
    BY <1>1, <1>2, ServiceHolds, PTL DEF Spec, StoreSpec

\* So the promises of the store are the service's: the caps of the quotas, the
\* daily counters, one worker per run, and the precedence of cancels.
THEOREM StorePromises ==
    Spec => [](QuotaCap /\ DailyExact /\ CancelWins /\ HandedOutOnce) /\ CanceledSticky
  BY KeepsToTheStore, QuotaHolds, DailyHolds, CancelWinsHolds, HandedOutOnceHolds,
     CanceledStickyHolds, PTL

-----------------------------------------------------------------------------
(* An acknowledged cancel is honoured.  Inductive: a handler that has had    *)
(* its success from the script and has yet to kill the container counts as   *)
(* acknowledged.                                                             *)

InHand(r) == status[r] = "running" /\ cancelRequested[r]

HonourInv ==
    \A c \in Cancels :
        cancel[c].step = "kill" \/ cancel[c].code \in {"ok", "kill_failed"} =>
            /\ cancel[c].run \in Runs
            /\ cancel[c].run \notin Expirable =>
                  status[cancel[c].run] = "canceled" \/ InHand(cancel[c].run)

\* Neither a mark, nor another start, nor another cancel takes it back.
LEMMA CancelKept ==
    ASSUME StoreInv, [StoreNext]_storeVars, NEW r \in Runs, r \notin Expirable,
           status[r] = "canceled" \/ InHand(r)
    PROVE  (status[r] = "canceled" \/ InHand(r))'
  <1> DEFINE Goal == (status[r] = "canceled" \/ InHand(r))'
  <1> USE DEF InHand, listVars, hashVars, quotaVars, submitVars
  <1>1. ASSUME UNCHANGED <<status, cancelRequested>>
        PROVE  Goal
    BY <1>1
  <1>2. ASSUME NEW s \in Runs, SubmitNext(s)
        PROVE  Goal
    <2>1. CASE StoreRun(s)
      <3>1. s # r
        BY <2>1 DEF StoreRun, StoreInv, Unstored
      <3> QED
        BY <2>1, <3>1 DEF StoreRun, StoreInv, StoreTypeOK
    <2> QED
      BY <1>1, <1>2, <2>1 DEF SubmitNext, ReserveOk, ReserveRefused, DateRun, Enqueue
  <1>3. ASSUME NEW s \in Runs, StartOrAbort(s) \/ SetContainerName(s) \/ DropProcessing(s)
        PROVE  Goal
    BY <1>3 DEF StartOrAbort, SetContainerName, DropProcessing, StoreInv, StoreTypeOK
  <1>4. ASSUME NEW s \in Runs, NEW t \in Tenants, NEW intended \in {"completed", "failed"},
               MarkTerminal(s, t, intended) \/ MarkCanceled(s, t)
        PROVE  Goal
    <2>1. CASE UNCHANGED storeVars
      BY <1>1, <2>1 DEF storeVars
    <2>2. CASE /\ Retire(s, t) /\ status[s] \notin Terminal
               /\ status' = [status EXCEPT ![s] = IF cancelRequested[s] THEN "canceled"
                                                  ELSE intended]
      BY <2>2 DEF Retire, StoreInv, StoreTypeOK, Terminal
    <2>3. CASE Retire(s, t) /\ status' = [status EXCEPT ![s] = "canceled"]
      BY <2>3 DEF Retire, StoreInv, StoreTypeOK
    <2> QED
      BY <1>4, <2>1, <2>2, <2>3 DEF MarkTerminal, MarkCanceled
  <1>5. ASSUME NEW s \in Runs, NEW t \in Tenants,
               CancelQueued(s, t) \/ CancelRunning(s, t) \/ Release(s, t)
        PROVE  Goal
    <2>1. CASE UNCHANGED storeVars
      BY <1>1, <2>1 DEF storeVars
    <2>2. CASE CancelQueued(s, t) /\ ~UNCHANGED storeVars
      BY <2>2 DEF CancelQueued, StoreInv, StoreTypeOK
    <2>3. CASE CancelRunning(s, t) /\ ~UNCHANGED storeVars
      BY <2>3 DEF CancelRunning, StoreInv, StoreTypeOK
    <2> QED
      BY <1>1, <1>5, <2>1, <2>2, <2>3 DEF Release
  <1>6. ASSUME NEW s \in Runs, ExpireRun(s)
        PROVE  Goal
    BY <1>6 DEF ExpireRun, StoreInv, StoreTypeOK
  <1>7. ASSUME NEW s \in Runs, WorkerNext(s) \/ CancelNext(s)
        PROVE  Goal
    BY <1>3, <1>4, <1>5, <1>7 DEF WorkerNext, CancelNext
  <1>8. ClaimNext \/ Midnight \/ (\E S \in SUBSET InFlight : Abandon(S)) \/ UNCHANGED storeVars
           => UNCHANGED <<status, cancelRequested>>
    BY DEF ClaimNext, Midnight, Abandon, storeVars
  <1> QED
    BY <1>1, <1>2, <1>6, <1>7, <1>8 DEF StoreNext

\* How a handler comes to its success.
LEMMA CancelCases ==
    ASSUME StoreInv, CancelOK, [Next]_vars, NEW c \in Cancels
    PROVE  \/ UNCHANGED cancel[c]
           \/ /\ cancel'[c].step # "kill"
              /\ cancel'[c].code \notin {"ok", "kill_failed"}
           \/ /\ cancel[c].step = "queued" /\ cancel[c].run \in Runs
              /\ cancel'[c].run = cancel[c].run /\ cancel'[c].was = "queued"
              /\ status[cancel[c].run] = "queued" /\ status'[cancel[c].run] = "canceled"
              /\ UNCHANGED <<pod, workerVars>>
           \/ /\ cancel[c].step = "running" /\ cancel[c].run \in Runs
              /\ cancel'[c].run = cancel[c].run
              /\ cancel'[c].step = "kill" \/ cancel'[c].was = "running"
              /\ status'[cancel[c].run] = "running" /\ cancelRequested'[cancel[c].run]
           \/ /\ cancel[c].step = "kill" /\ cancel'[c].run = cancel[c].run
              /\ cancel'[c].step = "done" /\ cancel'[c].was = "running"
  <1> DEFINE Goal(x) ==
           \/ UNCHANGED cancel[x]
           \/ /\ cancel'[x].step # "kill"
              /\ cancel'[x].code \notin {"ok", "kill_failed"}
           \/ /\ cancel[x].step = "queued" /\ cancel[x].run \in Runs
              /\ cancel'[x].run = cancel[x].run /\ cancel'[x].was = "queued"
              /\ status[cancel[x].run] = "queued" /\ status'[cancel[x].run] = "canceled"
              /\ UNCHANGED <<pod, workerVars>>
           \/ /\ cancel[x].step = "running" /\ cancel[x].run \in Runs
              /\ cancel'[x].run = cancel[x].run
              /\ cancel'[x].step = "kill" \/ cancel'[x].was = "running"
              /\ status'[cancel[x].run] = "running" /\ cancelRequested'[cancel[x].run]
           \/ /\ cancel[x].step = "kill" /\ cancel'[x].run = cancel[x].run
              /\ cancel'[x].step = "done" /\ cancel'[x].was = "running"
  <1>a. cancel \in [Cancels -> Asked]
    BY DEF CancelOK
  <1>b. ASSUME NEW d \in Cancels, NEW code, NEW was, Answer(d, code, was)
        PROVE  /\ cancel'[d].step = "done" /\ cancel'[d].code = code /\ cancel'[d].was = was
               /\ cancel'[d].run = cancel[d].run
               /\ \A x \in Cancels \ {d} : cancel'[x] = cancel[x]
    <2>1. cancel[d] \in Asked
      BY <1>a
    <2> DEFINE y == [cancel[d] EXCEPT !.step = "done", !.code = code, !.was = was]
    <2>2. y.step = "done" /\ y.code = code /\ y.was = was /\ y.run = cancel[d].run
      BY <2>1 DEF Asked
    <2>3. cancel' = [cancel EXCEPT ![d] = y]
      BY <1>b DEF Answer
    <2> HIDE DEF y
    <2> QED
      BY <1>a, <2>2, <2>3
  <1>1. ASSUME NEW d \in Cancels, CancelQueuedBranch(d)
        PROVE  Goal(c)
    <2>1. cancel[d].step = "queued" /\ cancel[d].run \in Runs
      BY <1>1 DEF CancelQueuedBranch, CancelOK
    <2>2. CASE c # d
      BY <1>1, <1>b, <2>2 DEF CancelQueuedBranch, Refuse
    <2>3. ASSUME c = d, NEW code, Refuse(d, cancel[d].run, code)
          PROVE  Goal(c)
      BY <1>b, <2>3 DEF Refuse
    <2>4. CASE c = d /\ CancelCode(cancel[d].run, cancel[d].tenant, "queued") = 0
               /\ Answer(d, "ok", "queued")
      <3>1. status[cancel[d].run] = "queued"
        BY <2>4 DEF CancelCode
      <3>2. status'[cancel[d].run] = "canceled"
        BY <1>1, <2>1, <2>4 DEF CancelQueuedBranch, CancelQueued, StoreInv, StoreTypeOK
      <3>3. UNCHANGED <<pod, workerVars>>
        BY <1>1 DEF CancelQueuedBranch
      <3> QED
        BY <1>b, <2>1, <2>4, <3>1, <3>2, <3>3
    <2> QED
      BY <1>1, <2>2, <2>3, <2>4 DEF CancelQueuedBranch
  <1>2. ASSUME NEW d \in Cancels, CancelRunningBranch(d)
        PROVE  Goal(c)
    <2> DEFINE y == [cancel[d] EXCEPT !.step = "kill"]
    <2>a. y.step = "kill" /\ y.run = cancel[d].run
      BY <1>a DEF Asked
    <2>1. cancel[d].step = "running" /\ cancel[d].run \in Runs
      BY <1>2 DEF CancelRunningBranch, CancelOK
    <2>2. CASE c # d
      <3>1. (\E code, was : Answer(d, code, was)) \/ cancel' = [cancel EXCEPT ![d] = y]
        BY <1>2 DEF CancelRunningBranch, Refuse
      <3> HIDE DEF y
      <3> QED
        BY <1>a, <1>b, <2>2, <3>1
    <2>3. ASSUME c = d, NEW code, Refuse(d, cancel[d].run, code)
          PROVE  Goal(c)
      BY <1>b, <2>3 DEF Refuse
    <2>4. CASE c = d /\ CancelCode(cancel[d].run, cancel[d].tenant, "running") = 0
               /\ (Answer(d, "ok", "running") \/ cancel' = [cancel EXCEPT ![d] = y])
      <3>1. status[cancel[d].run] = "running"
        BY <2>4 DEF CancelCode
      <3>2. status'[cancel[d].run] = "running" /\ cancelRequested'[cancel[d].run]
        <4>1. CancelRunning(cancel[d].run, cancel[d].tenant)
          BY <1>2 DEF CancelRunningBranch
        <4>2. /\ cancelRequested' = [cancelRequested EXCEPT ![cancel[d].run] = TRUE]
              /\ status' = status
          BY <2>4, <4>1 DEF CancelRunning
        <4>3. cancelRequested \in [Runs -> BOOLEAN]
          BY DEF StoreInv, StoreTypeOK
        <4>4. cancelRequested'[cancel[d].run] = TRUE
          BY <2>1, <4>2, <4>3
        <4> QED
          BY <3>1, <4>2, <4>4
      <3>3. /\ cancel'[c].run = cancel[c].run
            /\ cancel'[c].step = "kill" \/ cancel'[c].was = "running"
        <4> HIDE DEF y
        <4> QED
          BY <1>a, <1>b, <2>a, <2>4
      <3> QED
        BY <2>1, <2>4, <3>2, <3>3
    <2> QED
      BY <1>2, <2>2, <2>3, <2>4 DEF CancelRunningBranch
  <1>3. ASSUME NEW d \in Cancels, CancelKill(d) \/ CancelRaises(d)
        PROVE  Goal(c)
    <2>1. \/ cancel[d].step = "kill" /\ \E code : Answer(d, code, "running")
          \/ \E was : Answer(d, "error", was)
      BY <1>3 DEF CancelKill, CancelRaises
    <2> QED
      BY <1>b, <2>1
  <1>4. ASSUME NEW d \in Cancels, NEW p \in Replicas, NEW r \in Runs, NEW t \in Tenants,
               CancelRun(d, p, r, t)
        PROVE  Goal(c)
    <2>1. PICK step \in Status \cup {"done"},
               code \in {"none", "not_found", "cross_tenant", "already_terminal",
                         "unexpected_status"} :
             /\ step \in {"queued", "running", "done"}
             /\ cancel' = [cancel EXCEPT ![d] =
                              [step |-> step, run |-> r, tenant |-> t, at |-> {p},
                               code |-> code, was |-> status[r]]]
      BY <1>4 DEF CancelRun, Active, Terminal, Status, StoreInv, StoreTypeOK
    <2> QED
      BY <1>a, <2>1
  <1>5. ASSUME NEW p \in Replicas, Crash(p)
        PROVE  Goal(c)
    <2>1. \/ cancel'[c] = cancel[c]
          \/ cancel'[c] = [cancel[c] EXCEPT !.step = "done", !.code = "error"]
      BY <1>5, <1>a DEF Crash
    <2>2. /\ [cancel[c] EXCEPT !.step = "done", !.code = "error"].step = "done"
          /\ [cancel[c] EXCEPT !.step = "done", !.code = "error"].code = "error"
      BY <1>a DEF Asked
    <2> QED
      BY <2>1, <2>2
  <1>6. ASSUME UNCHANGED cancel
        PROVE  Goal(c)
    BY <1>6
  <1> HIDE DEF Goal
  <1>7. Goal(c)
    BY <1>1, <1>2, <1>3, <1>4, <1>5, <1>6, CancelAlone DEF CancelStep
  <1> QED
    BY <1>7 DEF Goal


LEMMA StepHonours ==
    ASSUME StoreInv, ServiceOK, HonourInv, [Next]_vars
    PROVE  HonourInv'
  <1> SUFFICES ASSUME NEW c \in Cancels,
                      cancel'[c].step = "kill" \/ cancel'[c].code \in {"ok", "kill_failed"}
               PROVE  /\ cancel'[c].run \in Runs
                      /\ cancel'[c].run \notin Expirable =>
                            \/ status'[cancel'[c].run] = "canceled"
                            \/ /\ status'[cancel'[c].run] = "running"
                               /\ cancelRequested'[cancel'[c].run]
    BY DEF HonourInv, InHand
  <1>1. [StoreNext]_storeVars
    BY StepIsStore
  <1>2. ASSUME cancel[c].step = "kill" \/ cancel[c].code \in {"ok", "kill_failed"},
               cancel'[c].run = cancel[c].run
        PROVE  /\ cancel'[c].run \in Runs
               /\ cancel'[c].run \notin Expirable =>
                     \/ status'[cancel'[c].run] = "canceled"
                     \/ /\ status'[cancel'[c].run] = "running"
                        /\ cancelRequested'[cancel'[c].run]
    <2>1. PICK r \in Runs : r = cancel[c].run
      BY <1>2 DEF HonourInv
    <2>2. r \notin Expirable => status[r] = "canceled" \/ InHand(r)
      BY <1>2, <2>1 DEF HonourInv
    <2> QED
      BY <1>1, <1>2, <2>1, <2>2, CancelKept DEF InHand
  <1> QED
    BY <1>2, CancelCases DEF ServiceOK

\* A cancel answered with success, or with "kill failed", holds: through late
\* results, second replicas that recover the run, crashes and faults.
THEOREM CancelsHonoured == Spec => []CancelHonoured
  <1>1. Init => HonourInv
    BY DEF Init, HonourInv, NoCancel
  <1>2. StoreInv /\ ServiceOK /\ HonourInv /\ [Next]_vars => HonourInv'
    BY StepHonours
  <1>3. HonourInv => CancelHonoured
    BY DEF HonourInv, CancelHonoured, InHand
  <1> QED
    BY <1>1, <1>2, <1>3, ServiceHolds, PTL DEF Spec

-----------------------------------------------------------------------------
(* A run canceled in the queue gets no container.  Inductive: only a run that *)
(* has been started, in the store, has a container or a worker past the      *)
(* start decision; and that cannot be undone.                                *)

Busy(r) == pod[r] # "none" \/ \E p \in Replicas : wrun[p] = r /\ Started(p)

StartedInv ==
    \A r \in Runs \ Expirable :
        Busy(r) => status[r] \in {"running"} \cup Terminal

QuietInv ==
    \A c \in Cancels :
        cancel[c].code = "ok" /\ cancel[c].was = "queued" =>
            /\ cancel[c].run \in Runs
            /\ cancel[c].run \notin Expirable =>
                  status[cancel[c].run] = "canceled" /\ ~Busy(cancel[c].run)

\* Killing leaves no container that was not there ...
LEMMA KillOnly ==
    ASSUME RestOK, NEW x \in Runs, NEW ok \in BOOLEAN, Kill(x, ok), NEW r \in Runs
    PROVE  pod'[r] # "none" => pod[r] # "none"
  <1>1. [pod EXCEPT ![x] = IF @ = "up" THEN "none" ELSE @][r] # "none" => pod[r] # "none"
    BY DEF RestOK
  <1> QED
    BY <1>1 DEF Kill

\* ... so that only podman run brings one.
LEMMA OnlyLaunch ==
    ASSUME ServiceOK, [Next]_vars, NEW r \in Runs, pod[r] = "none", pod'[r] # "none"
    PROVE  \E p \in Replicas : wrun[p] = r /\ box[p] = "prepare" /\ box'[p] = "run"
  <1>a. RestOK
    BY DEF ServiceOK
  <1>b. ASSUME NEW x \in Runs, NEW ok \in BOOLEAN, Kill(x, ok)
        PROVE  FALSE
    BY <1>a, <1>b, KillOnly
  <1>c. \A p \in Replicas : pc[p] \notin {"off", "idle"} => wrun[p] \in Runs
    BY DEF ServiceOK, WorkerOK, Enqueued
  <1>d. \A p \in Replicas : /\ ~BoxDone(p) => pc[p] = "running"
                            /\ watcher[p] # "off" => pc[p] \notin {"off", "idle"}
    BY DEF ServiceOK, WorkerOK
  <1>1. ASSUME NEW p \in Replicas, Startup(p)
        PROVE  FALSE
    <2>1. \/ UNCHANGED pod
          \/ \E left \in SUBSET Runs :
                pod' = [x \in Runs |-> IF pod[x] = "up" /\ x \notin left THEN "none" ELSE pod[x]]
          \/ \E ok \in BOOLEAN : orphan[p].step = "clean" /\ Kill(orphan[p].run, ok)
      BY <1>1 DEF Startup, Reap, ListOrphans, ReadOrphan, RecoverOrphan, Serve
    <2>2. orphan[p].step = "clean" => orphan[p].run \in Runs
      BY DEF ServiceOK, StartOK, Enqueued
    <2> QED
      BY <1>a, <1>b, <2>1, <2>2
  <1>2. ASSUME NEW p \in Replicas, Work(p) \/ Watcher(p) \/ Hang(p)
        PROVE  FALSE
    <2>1. \/ UNCHANGED pod
          \/ /\ pc[p] \in {"named", "hung", "closing"} \/ watcher[p] = "kill"
             /\ \E ok \in BOOLEAN : Kill(wrun[p], ok)
      BY <1>2 DEF Work, Claim, ReadRun, Start, NameContainer, Spawn, Complete, Fail, HangKill,
                  HangMark, Close, EndUnchanged, Watcher, Watch, WatchKill, Hang, At
    <2> QED
      BY <1>b, <1>c, <1>d, <2>1
  <1>3. ASSUME NEW p \in Replicas, Sandbox(p)
        PROVE  wrun[p] = r /\ box[p] = "prepare" /\ box'[p] = "run"
    <2>1. wrun[p] \in Runs
      BY <1>3, <1>c, <1>d DEF Sandbox, Launch, Return, ClientTimeout, ForceKill, BoxGoes,
                              BoxDone
    <2>2. \/ UNCHANGED pod
          \/ /\ box[p] = "prepare" /\ box' = [box EXCEPT ![p] = "run"]
             /\ pod' = [pod EXCEPT ![wrun[p]] = "pending"]
          \/ \E ok \in BOOLEAN : Kill(wrun[p], ok)
      BY <1>3 DEF Sandbox, Launch, Return, ClientTimeout, ForceKill, BoxGoes
    <2>3. box \in [Replicas -> Box]
      BY DEF ServiceOK, WorkerOK
    <2> QED
      BY <1>a, <1>b, <2>1, <2>2, <2>3 DEF RestOK
  <1>4. ASSUME NEW p \in Replicas, Crash(p)
        PROVE  FALSE
    BY <1>4, <1>a DEF Crash
  <1>5. ASSUME NEW p \in Replicas, Raise(p)
        PROVE  FALSE
    BY <1>5 DEF Raise, LoseClaim, WorkerDies, CompleteRaises, WatchRaises, SubmitRaises
  <1>6. ASSUME NEW p \in Replicas, NEW x \in Runs, Submit(p, x)
        PROVE  FALSE
    BY <1>6 DEF Submit
  <1>7. ASSUME NEW c \in Cancels, CancelStep(c) \/ CancelRaises(c)
        PROVE  FALSE
    <2>1. \/ UNCHANGED pod
          \/ cancel[c].step = "kill" /\ \E ok \in BOOLEAN : Kill(cancel[c].run, ok)
      BY <1>7 DEF CancelStep, CancelQueuedBranch, CancelRunningBranch, CancelKill, CancelRaises
    <2>2. cancel[c].step = "kill" => cancel[c].run \in Runs
      BY DEF ServiceOK, CancelOK
    <2> QED
      BY <1>b, <2>1, <2>2
  <1>8. ASSUME NEW c \in Cancels, NEW p \in Replicas, NEW x \in Runs, NEW t \in Tenants,
               CancelRun(c, p, x, t)
        PROVE  FALSE
    BY <1>8 DEF CancelRun
  <1>9. ASSUME NEW x \in Runs, PodUp(x) \/ PodGone(x)
        PROVE  FALSE
    BY <1>9, <1>a DEF PodUp, PodGone, RestOK
  <1>10. ~Clock /\ ~UNCHANGED vars
    BY DEF Clock, vars
  <1> QED
    BY <1>1, <1>2, <1>3, <1>4, <1>5, <1>6, <1>7, <1>8, <1>9, <1>10 DEF Next

\* A worker passes the start decision only by it.
LEMMA OnlyStart ==
    ASSUME ServiceOK, [Next]_vars, NEW p \in Replicas, Started(p)'
    PROVE  /\ wrun'[p] = wrun[p]
           /\ Started(p) \/ (Start(p) /\ status[wrun[p]] # "canceled")
  <1> DEFINE Goal == /\ wrun'[p] = wrun[p]
                     /\ Started(p) \/ (Start(p) /\ status[wrun[p]] # "canceled")
  <1>a. WorkerOK /\ pc'[p] \in {"started", "named", "running", "hung", "killed", "failing",
                                "closing"}
    BY DEF ServiceOK, Started
  <1>1. ASSUME UNCHANGED <<pc, wrun>>
        PROVE  Goal
    BY <1>1 DEF Started
  <1>2. ASSUME NEW q \in Replicas, Startup(q)
        PROVE  Goal
    BY <1>1, <1>2, <1>a DEF Startup, Reap, ListOrphans, ReadOrphan, RecoverOrphan, Serve,
                            workerVars, WorkerOK, Started
  <1>3. ASSUME NEW q \in Replicas, Work(q)
        PROVE  Goal
    <2>1. CASE q # p
      BY <1>3, <1>a, <2>1
         DEF Work, Claim, ReadRun, Start, NameContainer, Spawn, Complete, Fail, HangKill,
             HangMark, Close, EndUnchanged, GoTo, NextRun, WorkerOK, Started
    <2>2. CASE q = p
      BY <1>3, <1>a, <2>2
         DEF Work, Claim, ReadRun, Start, NameContainer, Spawn, Complete, Fail, HangKill,
             HangMark, Close, EndUnchanged, GoTo, NextRun, At, WorkerOK, Started
    <2> QED
      BY <2>1, <2>2
  <1>4. ASSUME NEW q \in Replicas, Hang(q) \/ WorkerDies(q) \/ CompleteRaises(q)
        PROVE  Goal
    BY <1>4, <1>a DEF Hang, WorkerDies, CompleteRaises, EndUnchanged, GoTo, At, WorkerOK,
                      Started
  <1>5. ASSUME NEW q \in Replicas, Crash(q)
        PROVE  Goal
    BY <1>5, <1>a DEF Crash, WorkerOK, Started
  <1>6. ASSUME NEW q \in Replicas,
               \/ Sandbox(q) \/ Watcher(q) \/ LoseClaim(q) \/ WatchRaises(q)
               \/ \E r \in Runs : Submit(q, r) \/ SubmitRaises(q, r)
        PROVE  UNCHANGED <<pc, wrun>>
    BY <1>6 DEF Sandbox, Launch, Return, ClientTimeout, ForceKill, BoxUnchanged, Watcher,
                Watch, WatchKill, LoseClaim, WatchRaises, Submit, SubmitRaises, workerVars
  <1>7. ASSUME NEW c \in Cancels,
               \/ CancelStep(c) \/ CancelRaises(c)
               \/ \E q \in Replicas, r \in Runs, t \in Tenants : CancelRun(c, q, r, t)
        PROVE  UNCHANGED <<pc, wrun>>
    BY <1>7 DEF CancelStep, CancelQueuedBranch, CancelRunningBranch, CancelKill, CancelRaises,
                CancelRun, workerVars
  <1>8. Clock \/ (\E r \in Runs : PodUp(r) \/ PodGone(r)) \/ UNCHANGED vars
           => UNCHANGED <<pc, wrun>>
    BY DEF Clock, PodUp, PodGone, vars, workerVars
  <1> QED
    BY <1>1, <1>2, <1>3, <1>4, <1>5, <1>6, <1>7, <1>8 DEF Next, Raise

\* So a run becomes busy by the start decision, which a cancel stops.
LEMMA BusyByStart ==
    ASSUME StoreInv, ServiceOK, [Next]_vars, NEW r \in Runs, ~Busy(r), Busy(r)'
    PROVE  status[r] # "canceled" /\ status'[r] = "running"
  <1>1. pod'[r] = "none"
    <2> SUFFICES ASSUME pod'[r] # "none" PROVE FALSE
      OBVIOUS
    <2>1. PICK p \in Replicas : wrun[p] = r /\ box[p] = "prepare"
      BY OnlyLaunch DEF Busy
    <2>2. Started(p)
      BY <2>1 DEF ServiceOK, WorkerOK, BoxDone, Started
    <2> QED
      BY <2>1, <2>2 DEF Busy
  <1>2. PICK p \in Replicas : wrun'[p] = r /\ Started(p)'
    BY <1>1 DEF Busy
  <1>3. wrun[p] = r /\ Start(p) /\ status[r] # "canceled"
    BY <1>2, OnlyStart DEF Busy
  <1> QED
    BY <1>3 DEF Start, StartOrAbort, StoreInv, StoreTypeOK

\* Started, once true of a run, stays so until its TTL.
LEMMA LiveStays ==
    ASSUME StoreInv, [StoreNext]_storeVars, NEW r \in Runs, r \notin Expirable,
           status[r] \in {"running"} \cup Terminal
    PROVE  status'[r] \in {"running"} \cup Terminal
  <1> DEFINE Live == {"running"} \cup Terminal
  <1> USE DEF listVars, hashVars, quotaVars, submitVars
  <1>a. ASSUME NEW s \in Runs, NEW v \in Live, status' = [status EXCEPT ![s] = v]
        PROVE  status'[r] \in Live
    BY <1>a DEF StoreInv, StoreTypeOK
  <1>1. ASSUME NEW s \in Runs, SubmitNext(s)
        PROVE  status'[r] \in Live
    <2>1. CASE StoreRun(s)
      <3>1. s # r
        BY <2>1 DEF StoreRun, StoreInv, Unstored, Terminal
      <3> QED
        BY <2>1, <3>1 DEF StoreRun, StoreInv, StoreTypeOK
    <2> QED
      BY <1>1, <2>1 DEF SubmitNext, ReserveOk, ReserveRefused, DateRun, Enqueue
  <1>2. ASSUME NEW s \in Runs, StartOrAbort(s) \/ SetContainerName(s) \/ DropProcessing(s)
        PROVE  status'[r] \in Live
    BY <1>2 DEF StartOrAbort, SetContainerName, DropProcessing, StoreInv, StoreTypeOK,
                Terminal
  <1>3. ASSUME NEW s \in Runs, NEW t \in Tenants, NEW intended \in {"completed", "failed"},
               MarkTerminal(s, t, intended) \/ MarkCanceled(s, t) \/ CancelQueued(s, t)
        PROVE  status'[r] \in Live
    <2>1. UNCHANGED storeVars \/ \E v \in Terminal : status' = [status EXCEPT ![s] = v]
      BY <1>3 DEF MarkTerminal, MarkCanceled, CancelQueued, Terminal
    <2> QED
      BY <1>a, <2>1 DEF storeVars
  <1>4. ASSUME NEW s \in Runs, ExpireRun(s)
        PROVE  status'[r] \in Live
    BY <1>4 DEF ExpireRun, StoreInv, StoreTypeOK
  <1>5. ASSUME NEW s \in Runs, NEW t \in Tenants, CancelRunning(s, t) \/ Release(s, t)
        PROVE  UNCHANGED status
    BY <1>5 DEF CancelRunning, Release, storeVars
  <1>6. ASSUME NEW s \in Runs, WorkerNext(s) \/ CancelNext(s)
        PROVE  status'[r] \in Live
    BY <1>2, <1>3, <1>5, <1>6 DEF WorkerNext, CancelNext
  <1>7. ClaimNext \/ Midnight \/ (\E S \in SUBSET InFlight : Abandon(S)) \/ UNCHANGED storeVars
           => UNCHANGED status
    BY DEF ClaimNext, Midnight, Abandon, storeVars
  <1> QED
    BY <1>1, <1>4, <1>6, <1>7 DEF StoreNext

\* Canceled stays canceled where no TTL fires.
LEMMA CanceledKept ==
    ASSUME StoreInv, [StoreNext]_storeVars, NEW r \in Runs, r \notin Expirable,
           status[r] = "canceled"
    PROVE  status'[r] = "canceled"
  <1>1. CASE UNCHANGED storeVars
    BY <1>1 DEF storeVars, hashVars
  <1>2. CASE StoreNext
    <2>1. status'[r] \in {"canceled", "absent"}
      BY <1>2, StatusStep DEF StoreInv, Unstored
    <2>2. status'[r] \in {"running"} \cup Terminal
      BY LiveStays DEF Terminal
    <2> QED
      BY <2>1, <2>2 DEF Terminal
  <1> QED
    BY <1>1, <1>2

LEMMA StepQuiet ==
    ASSUME StoreInv, ServiceOK, StartedInv, QuietInv, [Next]_vars
    PROVE  StartedInv' /\ QuietInv'
  <1>1. [StoreNext]_storeVars
    BY StepIsStore
  <1>2. StartedInv'
    <2> SUFFICES ASSUME NEW r \in Runs, r \notin Expirable, Busy(r)'
                 PROVE  status'[r] \in {"running"} \cup Terminal
      BY DEF StartedInv
    <2>1. CASE Busy(r)
      BY <1>1, <2>1, LiveStays DEF StartedInv
    <2>2. CASE ~Busy(r)
      BY <2>2, BusyByStart
    <2> QED
      BY <2>1, <2>2
  <1>3. QuietInv'
    <2> SUFFICES ASSUME NEW c \in Cancels, cancel'[c].code = "ok", cancel'[c].was = "queued"
                 PROVE  \E r \in Runs : /\ cancel'[c].run = r
                                        /\ r \notin Expirable =>
                                              status'[r] = "canceled" /\ ~Busy(r)'
      BY DEF QuietInv, Busy, Started
    <2>1. CASE UNCHANGED cancel[c]
      <3>1. PICK r \in Runs : cancel[c].run = r
        BY <2>1 DEF QuietInv
      <3>2. r \notin Expirable => status[r] = "canceled" /\ ~Busy(r)
        BY <2>1, <3>1 DEF QuietInv
      <3>3. r \notin Expirable => status'[r] = "canceled"
        BY <1>1, <3>2, CanceledKept
      <3> QED
        BY <2>1, <3>1, <3>2, <3>3, BusyByStart
    <2>2. CASE /\ cancel[c].run \in Runs /\ cancel'[c].run = cancel[c].run
               /\ status[cancel[c].run] = "queued" /\ status'[cancel[c].run] = "canceled"
               /\ UNCHANGED <<pod, workerVars>>
      <3>1. PICK r \in Runs : cancel[c].run = r
        BY <2>2
      <3>2. r \notin Expirable => ~Busy(r)
        BY <2>2, <3>1 DEF StartedInv, Terminal
      <3>3. r \notin Expirable => ~Busy(r)'
        BY <2>2, <3>2 DEF Busy, Started, workerVars
      <3>4. cancel'[c].run = r /\ status'[r] = "canceled"
        BY <2>2, <3>1
      <3> QED
        BY <3>3, <3>4
    <2> QED
      BY <2>1, <2>2, StepOK, CancelCases DEF ServiceOK, CancelOK
  <1> QED
    BY <1>2, <1>3

\* A run whose cancel was acknowledged while it was in the queue never gets a
\* container or a worker that runs it, whichever replica had claimed it.
THEOREM CanceledNeverRun == Spec => []CanceledInQueueNeverRuns
  <1>1. Init => StartedInv /\ QuietInv
    BY DEF Init, StartedInv, QuietInv, NoCancel, Busy, Started
  <1>2. StoreInv /\ ServiceOK /\ StartedInv /\ QuietInv /\ [Next]_vars
           => StartedInv' /\ QuietInv'
    BY StepQuiet
  <1>3. QuietInv => CanceledInQueueNeverRuns
    BY DEF QuietInv, CanceledInQueueNeverRuns, Busy
  <1> QED
    BY <1>1, <1>2, <1>3, ServiceHolds, PTL DEF Spec

-----------------------------------------------------------------------------
(* A run has one worker in its life                                          *)

\* The worker of p has a run for which it has not sent podman run yet.
Early(p) == pc[p] \in {"claimed", "read", "started", "named"} \/ box[p] = "prepare"

\* The container of r may still be launched: r is not in the queue yet, waits
\* there or has a worker that has not come so far.
Launchable(r) ==
    \/ submit[r] # "enqueued"
    \/ r \in Range(queue)
    \/ \E p \in Replicas : wrun[p] = r /\ Early(p)

\* podman run is sent for r.
Launches(r) == \E p \in Replicas : wrun[p] = r /\ box[p] = "prepare" /\ box'[p] = "run"

\* No two replicas work on one run.
OneWorker ==
    \A p, q \in Replicas : wrun[p] = wrun[q] /\ wrun[p] # NoRun => p = q

\* A run that has left the queue never comes back, and no worker that does not
\* have it gets it.
ClaimedOnce ==
    [][\A r \in Runs :
          submit[r] = "enqueued" /\ r \notin Range(queue) =>
             /\ r \notin Range(queue')
             /\ \A p \in Replicas : wrun'[p] = r => wrun[p] = r]_vars

\* Once podman run was sent for a run it is never sent again.
LaunchedOnce ==
    [][\A r \in Runs :
          /\ Launches(r) => ~Launchable(r)'
          /\ ~Launchable(r) => ~Launches(r) /\ ~Launchable(r)']_vars

HolderInv ==
    \A p \in Replicas :
        wrun[p] # NoRun =>
            /\ wrun[p] \in Enqueued
            /\ wrun[p] \notin Range(queue)
            /\ \A q \in Replicas : wrun[q] = wrun[p] => q = p

\* No command puts a run into the queue that was enqueued and has left it.
LEMMA QueueOut ==
    ASSUME StoreInv, [StoreNext]_storeVars, NEW r \in Enqueued, r \notin Range(queue)
    PROVE  r \in Enqueued' /\ r \notin Range(queue')
  <1>1. r \in Enqueued'
    BY EnqueuedStays DEF StoreInv
  <1>a. queue \in Seq(Runs) /\ Once(queue) /\ r \in Runs
    BY DEF StoreInv, StoreTypeOK, HandedOutOnce, Once, Enqueued
  <1>2. ASSUME NEW x \in Runs, SubmitNext(x)
        PROVE  r \notin Range(queue')
    <2>1. CASE UNCHANGED queue
      BY <2>1
    <2>2. CASE Enqueue(x)
      <3>1. x # r /\ x \notin Range(queue)
        BY <2>2 DEF Enqueue, Enqueued, StoreInv, HandedOutOnce
      <3>2. Range(Append(queue, x)) = Range(queue) \cup {x}
        BY <1>a, <3>1, AppendOnce
      <3> QED
        BY <2>2, <3>1, <3>2 DEF Enqueue
    <2> QED
      BY <1>2, <2>1, <2>2
         DEF SubmitNext, ReserveOk, ReserveRefused, StoreRun, DateRun, listVars
  <1>3. CASE ClaimNext
    <2>1. Range(Tail(queue)) \subseteq Range(queue)
      BY <1>3, <1>a, TailOnce DEF ClaimNext
    <2> QED
      BY <1>1, <1>3, <2>1 DEF ClaimNext
  <1>4. ASSUME NEW x \in Runs, NEW t \in Tenants, CancelQueued(x, t)
        PROVE  r \notin Range(queue')
    BY <1>4, <1>a, LremOnce DEF CancelQueued, storeVars, listVars
  <1>5. ASSUME NEW x \in Runs, NEW t \in Tenants, CancelRunning(x, t) \/ Release(x, t)
        PROVE  UNCHANGED queue
    BY <1>5 DEF CancelRunning, Release, storeVars, listVars
  <1>6. ASSUME NEW x \in Runs, WorkerNext(x) \/ ExpireRun(x)
        PROVE  UNCHANGED queue
    BY <1>6 DEF WorkerNext, StartOrAbort, SetContainerName, DropProcessing, MarkTerminal,
                MarkCanceled, Retire, ExpireRun, storeVars, listVars
  <1>7. Midnight \/ (\E S \in SUBSET InFlight : Abandon(S)) \/ UNCHANGED storeVars
           => UNCHANGED queue
    BY DEF Midnight, Abandon, storeVars, listVars
  <1>8. r \notin Range(queue')
    <2>1. CASE UNCHANGED queue
      BY <2>1
    <2>2. CASE ~UNCHANGED queue
      BY <1>2, <1>3, <1>4, <1>5, <1>6, <1>7, <2>2 DEF StoreNext, CancelNext
    <2> QED
      BY <2>1, <2>2
  <1> QED
    BY <1>1, <1>8

\* A worker has a run because it had it, and is no earlier with it than it
\* was, or because it claims the head of the queue.
LEMMA HoldsByClaim ==
    ASSUME StoreInv, ServiceOK, [Next]_vars, NEW p \in Replicas, NEW r \in Runs,
           wrun'[p] = r
    PROVE  \/ wrun[p] = r /\ (Early(p)' => Early(p))
           \/ /\ queue # <<>> /\ r = Head(queue) /\ queue' = Tail(queue)
              /\ \A q \in Replicas \ {p} : wrun'[q] = wrun[q]
  <1> DEFINE Kept == wrun[p] = r /\ (Early(p)' => Early(p))
             Claimed == /\ queue # <<>> /\ r = Head(queue) /\ queue' = Tail(queue)
                        /\ \A q \in Replicas \ {p} : wrun'[q] = wrun[q]
  <1>a. WorkerOK /\ r # NoRun
    BY RunnerAssumption DEF ServiceOK
  <1>1. ASSUME UNCHANGED <<pc, wrun, box>>
        PROVE  Kept
    BY <1>1 DEF Early
  <1>2. ASSUME NEW q \in Replicas, Startup(q)
        PROVE  Kept
    BY <1>1, <1>2, <1>a DEF Startup, Reap, ListOrphans, ReadOrphan, RecoverOrphan, Serve,
                            workerVars, WorkerOK, Early
  <1>3. ASSUME NEW q \in Replicas, Work(q)
        PROVE  Kept \/ Claimed
    <2>1. CASE Claim(q) /\ q # p
      BY <1>a, <2>1 DEF Claim, GoTo, WorkerOK, Early
    <2>2. CASE Claim(q) /\ q = p
      BY <1>a, <2>2 DEF Claim, ClaimNext, WorkerOK
    <2>3. CASE ~Claim(q) /\ q # p
      BY <1>3, <1>a, <2>3
         DEF Work, ReadRun, Start, NameContainer, Spawn, Complete, Fail, HangKill,
             HangMark, Close, EndUnchanged, GoTo, NextRun, WorkerOK, Early
    <2>4. CASE ~Claim(q) /\ q = p
      BY <1>3, <1>a, <2>4
         DEF Work, ReadRun, Start, NameContainer, Spawn, Complete, Fail, HangKill,
             HangMark, Close, EndUnchanged, GoTo, NextRun, At, WorkerOK, Early
    <2> QED
      BY <2>1, <2>2, <2>3, <2>4
  <1>4. ASSUME NEW q \in Replicas, Hang(q) \/ WorkerDies(q) \/ CompleteRaises(q)
        PROVE  Kept
    BY <1>4, <1>a DEF Hang, WorkerDies, CompleteRaises, EndUnchanged, GoTo, At, WorkerOK,
                      Early
  <1>5. ASSUME NEW q \in Replicas, Crash(q)
        PROVE  Kept
    BY <1>5, <1>a DEF Crash, WorkerOK, Early
  <1>6. ASSUME NEW q \in Replicas, Sandbox(q)
        PROVE  Kept
    <2>1. PICK b \in {"run", "raised", "returned", "kill", "remove"} :
             box' = [box EXCEPT ![q] = b] /\ UNCHANGED <<pc, wrun>>
      BY <1>6 DEF Sandbox, Launch, Return, ClientTimeout, ForceKill, BoxGoes, BoxUnchanged
    <2> QED
      BY <1>a, <2>1 DEF WorkerOK, Early
  <1>7. ASSUME NEW q \in Replicas,
               \/ Watcher(q) \/ LoseClaim(q) \/ WatchRaises(q)
               \/ \E x \in Runs : Submit(q, x) \/ SubmitRaises(q, x)
        PROVE  UNCHANGED <<pc, wrun, box>>
    BY <1>7 DEF Watcher, Watch, WatchKill, LoseClaim, WatchRaises, Submit, SubmitRaises,
                workerVars
  <1>8. ASSUME NEW c \in Cancels,
               \/ CancelStep(c) \/ CancelRaises(c)
               \/ \E q \in Replicas, x \in Runs, t \in Tenants : CancelRun(c, q, x, t)
        PROVE  UNCHANGED <<pc, wrun, box>>
    BY <1>8 DEF CancelStep, CancelQueuedBranch, CancelRunningBranch, CancelKill, CancelRaises,
                CancelRun, workerVars
  <1>9. Clock \/ (\E x \in Runs : PodUp(x) \/ PodGone(x)) \/ UNCHANGED vars
           => UNCHANGED <<pc, wrun, box>>
    BY DEF Clock, PodUp, PodGone, vars, workerVars
  <1> QED
    BY <1>1, <1>2, <1>3, <1>4, <1>5, <1>6, <1>7, <1>8, <1>9 DEF Next, Raise

\* What leaves the queue with a claim is a run nobody has.
LEMMA HeadIsFree ==
    ASSUME StoreInv, queue # <<>>, queue' = Tail(queue)
    PROVE  /\ Head(queue) \in Enqueued /\ Head(queue) \in Range(queue)
           /\ Head(queue) \notin Range(queue')
  <1>1. queue \in Seq(Runs) /\ Once(queue)
    BY DEF StoreInv, StoreTypeOK, HandedOutOnce, Once
  <1>2. Head(queue) \in Range(queue) \ Range(Tail(queue))
    BY <1>1, TailOnce
  <1>3. Range(queue) \subseteq Runs
    BY <1>1 DEF Range
  <1> QED
    BY <1>2, <1>3 DEF StoreInv, HandedOutOnce, Enqueued

LEMMA StepHolds ==
    ASSUME StoreInv, ServiceOK, HolderInv, [Next]_vars
    PROVE  HolderInv'
  <1> SUFFICES ASSUME NEW p \in Replicas, wrun'[p] # NoRun
               PROVE  /\ wrun'[p] \in Enqueued' /\ wrun'[p] \notin Range(queue')
                      /\ \A q \in Replicas : wrun'[q] = wrun'[p] => q = p
    BY DEF HolderInv
  <1>1. [StoreNext]_storeVars
    BY StepIsStore
  <1>2. PICK r \in Runs : wrun'[p] = r
    BY StepOK DEF ServiceOK, WorkerOK
  <1>3. r # NoRun
    BY RunnerAssumption
  <1>4. Enqueued \subseteq Enqueued'
    BY <1>1, EnqueuedStays DEF StoreInv
  <1>5. r \in Enqueued' /\ r \notin Range(queue')
    <2>1. CASE wrun[p] = r
      BY <1>1, <1>3, <2>1, QueueOut DEF HolderInv
    <2>2. CASE queue # <<>> /\ r = Head(queue) /\ queue' = Tail(queue)
      BY <1>4, <2>2, HeadIsFree
    <2> QED
      BY <1>2, <2>1, <2>2, HoldsByClaim
  <1>6. ASSUME NEW q \in Replicas, wrun'[q] = r, q # p
        PROVE  FALSE
    <2>1. CASE wrun[p] = r /\ wrun[q] = r
      BY <1>3, <1>6, <2>1 DEF HolderInv
    <2>2. CASE wrun[p] = r /\ wrun[q] # r
      BY <1>2, <1>3, <1>6, <2>2, HoldsByClaim, HeadIsFree DEF HolderInv
    <2>3. CASE wrun[p] # r
      <3>1. /\ queue # <<>> /\ r = Head(queue) /\ queue' = Tail(queue)
            /\ wrun[q] = r
        BY <1>2, <1>6, <2>3, HoldsByClaim
      <3> QED
        BY <1>3, <3>1, HeadIsFree DEF HolderInv
    <2> QED
      BY <2>1, <2>2, <2>3
  <1> QED
    BY <1>2, <1>5, <1>6

LEMMA HolderHolds == Spec => []HolderInv
  <1>1. Init => HolderInv
    BY DEF Init, HolderInv
  <1>2. StoreInv /\ ServiceOK /\ HolderInv /\ [Next]_vars => HolderInv'
    BY StepHolds
  <1> QED
    BY <1>1, <1>2, ServiceHolds, PTL DEF Spec

\* Two replicas never work on one run, whatever recoveries, crashes and lost
\* replies there are: a worker has a run only from the queue.
THEOREM RunHasOneWorker == Spec => []OneWorker
  <1>1. HolderInv => OneWorker
    BY DEF HolderInv, OneWorker
  <1> QED
    BY <1>1, HolderHolds, PTL

LEMMA StepClaims ==
    ASSUME StoreInv, ServiceOK, [Next]_vars, NEW r \in Runs,
           submit[r] = "enqueued", r \notin Range(queue)
    PROVE  /\ submit'[r] = "enqueued" /\ r \notin Range(queue')
           /\ \A p \in Replicas : wrun'[p] = r => wrun[p] = r /\ (Early(p)' => Early(p))
  <1>1. r \in Enqueued
    BY DEF Enqueued
  <1>2. r \in Enqueued' /\ r \notin Range(queue')
    BY <1>1, QueueOut, StepIsStore
  <1>3. ASSUME NEW p \in Replicas, wrun'[p] = r
        PROVE  wrun[p] = r /\ (Early(p)' => Early(p))
    BY <1>3, HoldsByClaim, HeadIsFree
  <1> QED
    BY <1>2, <1>3 DEF Enqueued

\* A run is claimed at most once in its life: one that was dropped, lost with
\* a reply, failed or recovered is not tried again.
THEOREM RunClaimedOnce == Spec => ClaimedOnce
  <1>1. StoreInv /\ ServiceOK /\ [Next]_vars =>
           \A r \in Runs :
              submit[r] = "enqueued" /\ r \notin Range(queue) =>
                 /\ r \notin Range(queue')
                 /\ \A p \in Replicas : wrun'[p] = r => wrun[p] = r
    BY StepClaims
  <1> QED
    BY <1>1, ServiceHolds, PTL DEF Spec, ClaimedOnce

LEMMA StepLaunches ==
    ASSUME StoreInv, ServiceOK, HolderInv, [Next]_vars, NEW r \in Runs
    PROVE  /\ Launches(r) => ~Launchable(r)'
           /\ ~Launchable(r) => ~Launches(r) /\ ~Launchable(r)'
  <1>1. ASSUME Launches(r)
        PROVE  ~Launchable(r)'
    <2>1. PICK p \in Replicas : wrun[p] = r /\ box[p] = "prepare" /\ box'[p] = "run"
      BY <1>1 DEF Launches
    <2>2. /\ submit[r] = "enqueued" /\ r \notin Range(queue)
          /\ \A q \in Replicas : wrun[q] = r => q = p
      BY <2>1, RunnerAssumption DEF HolderInv, Enqueued
    <2>3. ~Early(p)'
      BY <2>1, StepOK DEF ServiceOK, WorkerOK, BoxDone, Early
    <2> QED
      BY <2>2, <2>3, StepClaims DEF Launchable, Early
  <1>2. ASSUME ~Launchable(r)
        PROVE  ~Launches(r) /\ ~Launchable(r)'
    BY <1>2, StepClaims DEF Launchable, Launches, Early
  <1> QED
    BY <1>1, <1>2

\* podman run is sent at most once for a run: no crash, recovery, timeout or
\* second replica makes a test run a second time.
THEOREM ContainerLaunchedOnce == Spec => LaunchedOnce
  <1>1. StoreInv /\ ServiceOK /\ HolderInv /\ [Next]_vars =>
           \A r \in Runs :
              /\ Launches(r) => ~Launchable(r)'
              /\ ~Launchable(r) => ~Launches(r) /\ ~Launchable(r)'
    BY StepLaunches
  <1> QED
    BY <1>1, ServiceHolds, HolderHolds, PTL DEF Spec, LaunchedOnce

-----------------------------------------------------------------------------
(* The slot that a crash leaks is never freed (the finding of the run        *)
(* slot_leak, for every instance).  Only the mark of a run somebody works on *)
(* and the cancel of a stored run free a slot; a run whose submit stopped    *)
(* before its hash was stored has neither.                                   *)

\* The slots tenant t holds for submits that were cut short.
LostSlots(t) ==
    {r \in Runs : submit[r] = "abandoned" /\ status[r] = "absent" /\ r \in running[t]}

\* A submit that is cut short after its reservation loses a slot ...
CutSubmitLosesSlot ==
    [][\A r \in Runs :
          submit[r] = "reserved" /\ submit'[r] = "abandoned" =>
             /\ submitTenant[r] \in Tenants
             /\ r \in LostSlots(submitTenant[r])']_vars

\* ... and a lost slot stays lost.
LostSlotsStay == [][\A t \in Tenants : LostSlots(t) \subseteq LostSlots(t)']_vars

ReservedInv ==
    \A r \in Runs : submit[r] = "reserved" =>
        submitTenant[r] \in Tenants /\ r \in running[submitTenant[r]]

\* A terminal mark frees the slot of its own run only.
LEMMA MarkSpares ==
    ASSUME StoreTypeOK, NEW x \in Runs, NEW t \in Tenants,
           \/ MarkCompleted(x, t) \/ MarkFailed(x, t) \/ MarkCanceled(x, t),
           NEW r \in Runs, r # x, NEW u \in Tenants, r \in running[u]
    PROVE  r \in running'[u]
  <1>1. UNCHANGED running \/ running' = [running EXCEPT ![t] = @ \ {x}]
    BY DEF MarkCompleted, MarkFailed, MarkTerminal, MarkCanceled, Retire, storeVars, quotaVars
  <1>2. CASE running' = [running EXCEPT ![t] = @ \ {x}]
    <2>1. [running EXCEPT ![t] = @ \ {x}][u] = IF u = t THEN running[t] \ {x} ELSE running[u]
      BY DEF StoreTypeOK
    <2> QED
      BY <1>2, <2>1
  <1> QED
    BY <1>1, <1>2

\* The slot of a run that was neither stored nor enqueued is not freed.
LEMMA SlotKept ==
    ASSUME StoreInv, ServiceOK, [Next]_vars, NEW r \in Runs, NEW u \in Tenants,
           r \in running[u], r \notin Enqueued, status[r] = "absent"
    PROVE  r \in running'[u]
  <1> USE DEF listVars, hashVars, quotaVars, submitVars, storeVars
  <1>a. StoreTypeOK
    BY DEF StoreInv
  <1>1. ASSUME UNCHANGED running
        PROVE  r \in running'[u]
    BY <1>1
  <1>2. ASSUME NEW p \in Replicas, Startup(p)
        PROVE  r \in running'[u]
    <2>1. CASE RecoverOrphan(p) /\ orphan[p].step \in {"fail", "cancel"}
      <3>1. orphan[p].run \in Enqueued /\ orphan[p].tenant \in Tenants
        BY <2>1 DEF ServiceOK, StartOK
      <3>2. \/ MarkFailed(orphan[p].run, orphan[p].tenant)
            \/ MarkCanceled(orphan[p].run, orphan[p].tenant)
        BY <2>1 DEF RecoverOrphan
      <3>3. orphan[p].run \in Runs /\ orphan[p].run # r
        BY <3>1 DEF Enqueued
      <3> QED
        BY <1>a, <3>1, <3>2, <3>3, MarkSpares
    <2>2. CASE ~(RecoverOrphan(p) /\ orphan[p].step \in {"fail", "cancel"})
      BY <1>2, <2>2 DEF Startup, Reap, ListOrphans, ReadOrphan, Serve, RecoverOrphan,
                        DropProcessing
    <2> QED
      BY <2>1, <2>2
  <1>3. ASSUME NEW p \in Replicas, pc[p] \notin {"off", "idle"},
               \/ MarkCompleted(wrun[p], wtenant[p]) \/ MarkFailed(wrun[p], wtenant[p])
               \/ MarkCanceled(wrun[p], wtenant[p])
        PROVE  r \in running'[u]
    <2>1. wrun[p] \in Enqueued /\ wtenant[p] \in Tenants
      BY <1>3 DEF ServiceOK, WorkerOK
    <2>2. wrun[p] \in Runs /\ wrun[p] # r
      BY <2>1 DEF Enqueued
    <2> QED
      BY <1>3, <1>a, <2>1, <2>2, MarkSpares
  <1>4. ASSUME NEW p \in Replicas, Work(p)
        PROVE  r \in running'[u]
    <2>1. CASE Complete(p) \/ Fail(p) \/ HangMark(p)
      BY <1>3, <2>1 DEF Complete, Fail, HangMark, At
    <2>2. CASE ~(Complete(p) \/ Fail(p) \/ HangMark(p))
      BY <1>4, <2>2 DEF Work, Claim, ClaimNext, ReadRun, Start, StartOrAbort, NameContainer,
                        SetContainerName, Spawn, HangKill, Close
    <2> QED
      BY <2>1, <2>2
  <1>5. ASSUME NEW p \in Replicas, Raise(p)
        PROVE  r \in running'[u]
    <2>1. CASE WorkerDies(p) /\ Pending(p)
      BY <1>3, <2>1 DEF WorkerDies, Pending, StartOrAbort, SetContainerName
    <2>2. CASE CompleteRaises(p)
      BY <1>3, <2>2 DEF CompleteRaises, At
    <2>3. CASE ~(WorkerDies(p) /\ Pending(p)) /\ ~CompleteRaises(p)
      BY <1>5, <2>3 DEF Raise, LoseClaim, ClaimNext, WorkerDies, WatchRaises, SubmitRaises,
                        Abandon
    <2> QED
      BY <2>1, <2>2, <2>3
  <1>6. ASSUME NEW x \in Runs, NEW t \in Tenants, CancelQueued(x, t)
        PROVE  r \in running'[u]
    <2>1. CASE UNCHANGED storeVars
      BY <2>1
    <2>2. CASE CancelCode(x, t, "queued") = 0 /\ running' = [running EXCEPT ![t] = @ \ {x}]
      <3>1. x # r
        BY <2>2 DEF CancelCode
      <3> QED
        BY <1>a, <2>2, <3>1 DEF StoreTypeOK
    <2> QED
      BY <1>6, <2>1, <2>2 DEF CancelQueued
  <1>7. ASSUME NEW c \in Cancels, CancelStep(c) \/ CancelRaises(c)
        PROVE  r \in running'[u]
    <2> DEFINE x == cancel[c].run
               t == cancel[c].tenant
    <2>1. \/ UNCHANGED storeVars
          \/ /\ cancel[c].step \in {"queued", "running", "kill"}
             /\ CancelQueued(x, t) \/ CancelRunning(x, t)
      BY <1>7 DEF CancelStep, CancelQueuedBranch, CancelRunningBranch, CancelKill, CancelRaises
    <2>2. cancel[c].step \in {"queued", "running", "kill"} => x \in Runs /\ t \in Tenants
      BY DEF ServiceOK, CancelOK
    <2> HIDE DEF x, t
    <2> QED
      BY <1>6, <2>1, <2>2 DEF CancelRunning
  <1>8. ASSUME NEW p \in Replicas, NEW x \in Runs, Submit(p, x)
        PROVE  r \in running'[u]
    <2>1. \/ UNCHANGED running
          \/ \E t \in Tenants : running' = [running EXCEPT ![t] = @ \cup {x}]
      BY <1>8 DEF Submit, ReserveOk, ReserveRefused, StoreRun, DateRun, Enqueue
    <2>2. ASSUME NEW t \in Tenants, running' = [running EXCEPT ![t] = @ \cup {x}]
          PROVE  r \in running'[u]
      <3>1. running'[u] = IF u = t THEN running[t] \cup {x} ELSE running[u]
        BY <1>a, <2>2 DEF StoreTypeOK
      <3> QED
        BY <3>1
    <2> QED
      BY <2>1, <2>2
  <1>9. ASSUME NEW p \in Replicas, Sandbox(p) \/ Watcher(p) \/ Hang(p) \/ Crash(p)
        PROVE  r \in running'[u]
    BY <1>9 DEF Sandbox, Launch, Return, ClientTimeout, ForceKill, BoxUnchanged, Watcher,
                Watch, WatchKill, Hang, Crash, Abandon
  <1>10. ASSUME NEW c \in Cancels, NEW p \in Replicas, NEW x \in Runs, NEW t \in Tenants,
                CancelRun(c, p, x, t)
         PROVE  UNCHANGED running
    BY <1>10 DEF CancelRun
  <1>11. Clock \/ (\E x \in Runs : PodUp(x) \/ PodGone(x)) \/ UNCHANGED vars
            => UNCHANGED running
    BY DEF Clock, Midnight, ExpireRun, PodUp, PodGone, vars
  <1> QED
    BY <1>1, <1>2, <1>4, <1>5, <1>7, <1>8, <1>9, <1>10, <1>11 DEF Next

\* A submit that was cut short is not taken up again, and where its hash was
\* not stored nobody stores it.
LEMMA CutStays ==
    ASSUME StoreTypeOK, [StoreNext]_storeVars, NEW r \in Runs, submit[r] = "abandoned"
    PROVE  submit'[r] = "abandoned" /\ (status[r] = "absent" => status'[r] = "absent")
  <1> DEFINE Goal == submit'[r] = "abandoned" /\ (status[r] = "absent" => status'[r] = "absent")
  <1> USE DEF listVars, hashVars, quotaVars, submitVars, storeVars
  <1>1. ASSUME UNCHANGED submit, status[r] = "absent" => status'[r] = "absent"
        PROVE  Goal
    BY <1>1
  <1>2. ASSUME NEW x \in Runs, SubmitNext(x)
        PROVE  Goal
    BY <1>2 DEF SubmitNext, ReserveOk, ReserveRefused, StoreRun, DateRun, Enqueue, StoreTypeOK
  <1>3. ASSUME NEW S \in SUBSET InFlight, Abandon(S)
        PROVE  Goal
    BY <1>3 DEF Abandon
  <1>4. ASSUME NEW x \in Runs, WorkerNext(x)
        PROVE  Goal
    <2>1. x # r
      BY <1>4 DEF WorkerNext
    <2>2. UNCHANGED submit /\ (UNCHANGED status \/ \E v : status' = [status EXCEPT ![x] = v])
      <3>1. StartOrAbort(x) \/ SetContainerName(x) \/ DropProcessing(x)
               => UNCHANGED submit /\ (UNCHANGED status \/ \E v : status' = [status EXCEPT ![x] = v])
        BY DEF StartOrAbort, SetContainerName, DropProcessing
      <3>2. \A t \in Tenants :
               /\ \A i \in {"completed", "failed"} : MarkTerminal(x, t, i) =>
                     UNCHANGED submit /\ (UNCHANGED status \/ \E v : status' = [status EXCEPT ![x] = v])
               /\ MarkCanceled(x, t) =>
                     UNCHANGED submit /\ (UNCHANGED status \/ \E v : status' = [status EXCEPT ![x] = v])
        BY DEF MarkTerminal, MarkCanceled, Retire
      <3> QED
        BY <1>4, <3>1, <3>2 DEF WorkerNext
    <2> QED
      BY <2>1, <2>2 DEF StoreTypeOK
  <1>5. ASSUME NEW x \in Runs, CancelNext(x)
        PROVE  Goal
    BY <1>5 DEF CancelNext, CancelQueued, CancelRunning, Release, CancelCode, StoreTypeOK
  <1>6. ASSUME NEW x \in Runs, ExpireRun(x)
        PROVE  Goal
    BY <1>6 DEF ExpireRun, StoreTypeOK
  <1>7. ClaimNext \/ Midnight \/ UNCHANGED storeVars => Goal
    BY DEF ClaimNext, Midnight
  <1> QED
    BY <1>2, <1>3, <1>4, <1>5, <1>6, <1>7 DEF StoreNext

LEMMA StepReserved ==
    ASSUME StoreInv, ServiceOK, ReservedInv, [Next]_vars
    PROVE  ReservedInv'
  <1> USE DEF listVars, hashVars, quotaVars, submitVars, storeVars
  <1> SUFFICES ASSUME NEW r \in Runs, submit'[r] = "reserved"
               PROVE  submitTenant'[r] \in Tenants /\ r \in running'[submitTenant'[r]]
    BY DEF ReservedInv
  <1>a. StoreTypeOK /\ [StoreNext]_storeVars
    BY StepIsStore DEF StoreInv
  <1>1. CASE \E t \in Tenants, d \in Days : ReserveOk(r, t, d)
    BY <1>1, <1>a DEF ReserveOk, StoreTypeOK
  <1>2. CASE submit[r] = "reserved" /\ submitTenant'[r] = submitTenant[r]
    BY <1>2, SlotKept DEF ReservedInv, Enqueued, StoreInv, Unstored
  <1>3. ASSUME ~\E t \in Tenants, d \in Days : ReserveOk(r, t, d)
        PROVE  submit[r] = "reserved" /\ submitTenant'[r] = submitTenant[r]
    <2>1. ASSUME NEW x \in Runs, SubmitNext(x)
          PROVE  submit[r] = "reserved" /\ submitTenant'[r] = submitTenant[r]
      BY <1>3, <1>a, <2>1
         DEF SubmitNext, ReservationDays, ReserveOk, ReserveRefused, StoreRun, DateRun, Enqueue,
             StoreTypeOK
    <2>2. ASSUME NEW S \in SUBSET InFlight, Abandon(S)
          PROVE  submit[r] = "reserved" /\ submitTenant'[r] = submitTenant[r]
      BY <2>2 DEF Abandon
    <2>3. ASSUME NEW x \in Runs, WorkerNext(x) \/ CancelNext(x) \/ ExpireRun(x)
          PROVE  UNCHANGED submitVars
      BY <2>3 DEF WorkerNext, StartOrAbort, SetContainerName, DropProcessing, MarkTerminal,
                  MarkCanceled, Retire, CancelNext, CancelQueued, CancelRunning, Release,
                  ExpireRun
    <2>4. ClaimNext \/ Midnight \/ UNCHANGED storeVars => UNCHANGED submitVars
      BY DEF ClaimNext, Midnight
    <2> QED
      BY <1>a, <2>1, <2>2, <2>3, <2>4 DEF StoreNext
  <1> QED
    BY <1>1, <1>2, <1>3

LEMMA ReservedHolds == Spec => []ReservedInv
  <1>1. Init => ReservedInv
    BY DEF Init, StoreInit, ReservedInv
  <1>2. StoreInv /\ ServiceOK /\ ReservedInv /\ [Next]_vars => ReservedInv'
    BY StepReserved
  <1> QED
    BY <1>1, <1>2, ServiceHolds, PTL DEF Spec

LEMMA StepLost ==
    ASSUME StoreInv, ServiceOK, [Next]_vars, NEW t \in Tenants
    PROVE  LostSlots(t) \subseteq LostSlots(t)'
  <1>1. [StoreNext]_storeVars /\ StoreTypeOK
    BY StepIsStore DEF StoreInv
  <1> SUFFICES ASSUME NEW r \in LostSlots(t)
               PROVE  r \in LostSlots(t)'
    OBVIOUS
  <1>2. /\ r \in Runs /\ submit[r] = "abandoned" /\ status[r] = "absent"
        /\ r \in running[t] /\ r \notin Enqueued
    BY DEF LostSlots, Enqueued
  <1>3. submit'[r] = "abandoned" /\ status'[r] = "absent"
    BY <1>1, <1>2, CutStays
  <1>4. r \in running'[t]
    BY <1>2, SlotKept
  <1> QED
    BY <1>2, <1>3, <1>4 DEF LostSlots

\* A lost slot is not freed: not by the startup recovery of any replica, a
\* cancel, a terminal mark or the TTL, although any number of them happens.
THEOREM SlotsStayLost == Spec => LostSlotsStay
  <1>1. StoreInv /\ ServiceOK /\ [Next]_vars =>
           \A t \in Tenants : LostSlots(t) \subseteq LostSlots(t)'
    BY StepLost
  <1> QED
    BY <1>1, ServiceHolds, PTL DEF Spec, LostSlotsStay

LEMMA StepCuts ==
    ASSUME StoreInv, ServiceOK, ReservedInv, [Next]_vars, NEW r \in Runs,
           submit[r] = "reserved", submit'[r] = "abandoned"
    PROVE  submitTenant[r] \in Tenants /\ r \in LostSlots(submitTenant[r])'
  <1> USE DEF listVars, hashVars, quotaVars, submitVars, storeVars
  <1>1. status[r] = "absent" /\ submitTenant[r] \in Tenants /\ r \in running[submitTenant[r]]
    BY DEF ReservedInv, StoreInv, Unstored
  <1>2. r \in running'[submitTenant[r]]
    BY <1>1, SlotKept DEF Enqueued
  <1>3. UNCHANGED <<status, submitTenant>>
    <2>a. [StoreNext]_storeVars /\ StoreTypeOK
      BY StepIsStore DEF StoreInv
    <2>1. ASSUME NEW x \in Runs
          PROVE  ~SubmitNext(x)
      BY <2>a DEF SubmitNext, ReserveOk, ReserveRefused, StoreRun, DateRun, Enqueue, StoreTypeOK
    <2>2. ASSUME NEW S \in SUBSET InFlight, Abandon(S)
          PROVE  UNCHANGED <<status, submitTenant>>
      BY <2>2 DEF Abandon
    <2>3. ASSUME NEW x \in Runs, WorkerNext(x) \/ CancelNext(x) \/ ExpireRun(x)
          PROVE  UNCHANGED submit
      BY <2>3 DEF WorkerNext, StartOrAbort, SetContainerName, DropProcessing, MarkTerminal,
                  MarkCanceled, Retire, CancelNext, CancelQueued, CancelRunning, Release,
                  ExpireRun
    <2>4. ClaimNext \/ Midnight \/ UNCHANGED storeVars => UNCHANGED submit
      BY DEF ClaimNext, Midnight
    <2> QED
      BY <2>a, <2>1, <2>2, <2>3, <2>4 DEF StoreNext
  <1> QED
    BY <1>1, <1>2, <1>3 DEF LostSlots

\* Every crash, fault or lost reply between the reservation and the HSET of a
\* submit costs its tenant a slot.
THEOREM SlotLostByCut == Spec => CutSubmitLosesSlot
  <1>1. StoreInv /\ ServiceOK /\ ReservedInv /\ [Next]_vars =>
           \A r \in Runs :
              submit[r] = "reserved" /\ submit'[r] = "abandoned" =>
                 /\ submitTenant[r] \in Tenants
                 /\ r \in LostSlots(submitTenant[r])'
    BY StepCuts
  <1> QED
    BY <1>1, ServiceHolds, ReservedHolds, PTL DEF Spec, CutSubmitLosesSlot

ShutOut(t) == Cardinality(LostSlots(t)) >= MaxConcurrent

LEMMA LostCount ==
    ASSUME QuotaInv, NEW t \in Tenants
    PROVE  /\ IsFiniteSet(LostSlots(t)) /\ Cardinality(LostSlots(t)) \in Nat
           /\ Cardinality(running[t]) \in Nat
           /\ Cardinality(LostSlots(t)) <= Cardinality(running[t])
  <1>1. LostSlots(t) \subseteq running[t] /\ IsFiniteSet(running[t])
    BY DEF LostSlots, QuotaInv
  <1> QED
    BY <1>1, FS_Subset, FS_CardinalityType

\* A tenant that has lost as many slots as its cap is refused every submit
\* from then on, whatever the service does: only an operator can help.
THEOREM TenantShutOut ==
    ASSUME NEW t \in Tenants
    PROVE  Spec => [](ShutOut(t) => []OverConcurrent(t))
  <1>1. QuotaInv /\ ShutOut(t) => OverConcurrent(t)
    BY LostCount, StoreAssumption DEF ShutOut, OverConcurrent
  <1>2. StoreInv /\ ServiceOK /\ QuotaInv /\ QuotaInv' /\ ShutOut(t) /\ [Next]_vars
           => ShutOut(t)'
    <2> SUFFICES ASSUME StoreInv, ServiceOK, QuotaInv, QuotaInv', ShutOut(t), [Next]_vars
                 PROVE  ShutOut(t)'
      OBVIOUS
    <2>1. IsFiniteSet(LostSlots(t)') /\ Cardinality(LostSlots(t)') \in Nat
      <3>1. LostSlots(t)' \subseteq running'[t] /\ IsFiniteSet(running'[t])
        BY DEF LostSlots, QuotaInv
      <3> QED
        BY <3>1, FS_Subset, FS_CardinalityType
    <2>2. Cardinality(LostSlots(t)) <= Cardinality(LostSlots(t)')
      BY <2>1, StepLost, FS_Subset
    <2> QED
      BY <2>1, <2>2, LostCount, StoreAssumption DEF ShutOut
  <1> QED
    BY <1>1, <1>2, ServiceHolds, KeepsToTheStore, QuotaInvHolds, PTL DEF Spec

-----------------------------------------------------------------------------
(* A worker meets no container but its own                                   *)

\* A run that may still be launched has no container.
PodInv == \A r \in Runs : pod[r] # "none" => ~Launchable(r)

\* A worker that has not sent podman run yet finds no container of its run:
\* the podman rm -f it sends before has nothing to remove.
NoStaleContainer ==
    \A p \in Replicas : wrun[p] # NoRun /\ Early(p) => pod[wrun[p]] = "none"

LEMMA StepPods ==
    ASSUME StoreInv, ServiceOK, HolderInv, PodInv, [Next]_vars
    PROVE  PodInv'
  <1> SUFFICES ASSUME NEW r \in Runs, pod'[r] # "none"
               PROVE  ~Launchable(r)'
    BY DEF PodInv, Launchable, Early
  <1>1. CASE pod[r] # "none"
    BY <1>1, StepLaunches DEF PodInv
  <1>2. CASE pod[r] = "none"
    <2>1. Launches(r)
      BY <1>2, OnlyLaunch DEF Launches
    <2> QED
      BY <2>1, StepLaunches
  <1> QED
    BY <1>1, <1>2

\* No container of an earlier attempt, a dead process or another replica ever
\* stands in the way of a launch, or is taken for the one launched.
THEOREM NothingStale == Spec => []NoStaleContainer
  <1>1. Init => PodInv
    BY DEF Init, PodInv
  <1>2. StoreInv /\ ServiceOK /\ HolderInv /\ PodInv /\ [Next]_vars => PodInv'
    BY StepPods
  <1>3. HolderInv /\ PodInv => NoStaleContainer
    BY DEF HolderInv, PodInv, NoStaleContainer, Launchable, Enqueued
  <1> QED
    BY <1>1, <1>2, <1>3, ServiceHolds, HolderHolds, PTL DEF Spec

-----------------------------------------------------------------------------
(* A dead worker stays dead (the finding of the run dead_worker, for every   *)
(* instance)                                                                 *)

AllDead == \A p \in Replicas : pc[p] = "dead"

\* When the worker task of every process has ended, and until a process is
\* started again, nothing takes a run from the queue but its cancel, although
\* the processes serve requests.
DeadWorkersStay ==
    [][AllDead /\ crashes' = crashes =>
          /\ AllDead'
          /\ processing' \subseteq processing
          /\ \A r \in Range(queue) : r \in Range(queue') \/ status'[r] = "canceled"]_vars

\* LREM takes out no other run.
LEMMA LremOthers ==
    ASSUME NEW q \in Seq(Runs), NEW x \in Runs, NEW r \in Range(q), r # x
    PROVE  r \in Range(Lrem(q, x))
  <1>1. CASE x \notin Range(q)
    BY <1>1 DEF Lrem
  <1>2. CASE x \in Range(q)
    <2>1. PICK i \in 1 .. Len(q) :
             /\ q[i] = x /\ Lrem(q, x) \in Seq(Runs) /\ Len(Lrem(q, x)) = Len(q) - 1
             /\ \A k \in 1 .. Len(q) - 1 :
                   Lrem(q, x)[k] = IF k < i THEN q[k] ELSE q[k + 1]
      BY <1>2, LremElements
    <2>2. PICK j \in 1 .. Len(q) : q[j] = r
      BY DEF Range
    <2>3. DOMAIN Lrem(q, x) = 1 .. Len(q) - 1
      BY <2>1
    <2>4. CASE j < i
      <3>1. j \in 1 .. Len(q) - 1 /\ Lrem(q, x)[j] = r
        BY <2>1, <2>2, <2>4
      <3> QED
        BY <2>3, <3>1 DEF Range
    <2>5. CASE j > i
      <3>1. j - 1 \in 1 .. Len(q) - 1 /\ Lrem(q, x)[j - 1] = r
        BY <2>1, <2>2, <2>5
      <3> QED
        BY <2>3, <3>1 DEF Range
    <2> QED
      BY <2>1, <2>2, <2>4, <2>5
  <1> QED
    BY <1>1, <1>2

LEMMA DeadStep ==
    ASSUME StoreInv, ServiceOK, AllDead, [Next]_vars, crashes' = crashes
    PROVE  /\ AllDead' /\ processing' \subseteq processing
           /\ \A r \in Range(queue) : r \in Range(queue') \/ status'[r] = "canceled"
  <1> DEFINE Goal == /\ AllDead' /\ processing' \subseteq processing
                     /\ \A r \in Range(queue) : r \in Range(queue') \/ status'[r] = "canceled"
  <1> USE DEF listVars, hashVars, quotaVars, submitVars, storeVars, workerVars
  <1>a. /\ StoreTypeOK
        /\ \A p \in Replicas : pc[p] = "dead" /\ Serving(p) /\ BoxDone(p) /\ watcher[p] = "off"
    BY DEF StoreInv, ServiceOK, WorkerOK, AllDead
  <1>1. ASSUME UNCHANGED <<pc, queue, processing>>
        PROVE  Goal
    BY <1>1 DEF AllDead
  <1>2. ASSUME NEW p \in Replicas, Startup(p)
        PROVE  FALSE
    BY <1>2, <1>a DEF Startup, Reap, ListOrphans, ReadOrphan, RecoverOrphan, Serve, Serving
  <1>3. ASSUME NEW p \in Replicas, Work(p) \/ Hang(p)
        PROVE  FALSE
    BY <1>3, <1>a DEF Work, Claim, ReadRun, Start, NameContainer, Spawn, Complete, Fail,
                      HangKill, HangMark, Close, Hang, At
  <1>4. ASSUME NEW p \in Replicas, Sandbox(p) \/ Watcher(p)
        PROVE  FALSE
    BY <1>4, <1>a DEF Sandbox, Launch, Return, ClientTimeout, ForceKill, BoxGoes, BoxDone,
                      Watcher, Watch, WatchKill
  <1>5. ASSUME NEW p \in Replicas, Crash(p)
        PROVE  FALSE
    <2>1. crashes' = crashes + 1
      BY <1>5 DEF Crash
    <2>2. crashes \in 0 .. MaxCrashes
      BY DEF ServiceOK, RestOK
    <2> QED
      BY <2>1, <2>2, RunnerAssumption
  <1>6. ASSUME NEW p \in Replicas, Raise(p)
        PROVE  UNCHANGED <<pc, queue, processing>>
    BY <1>6, <1>a DEF Raise, LoseClaim, WorkerDies, CompleteRaises, WatchRaises, SubmitRaises,
                      Abandon, At
  <1>7. ASSUME NEW p \in Replicas, NEW x \in Runs, Submit(p, x)
        PROVE  Goal
    <2>1. CASE UNCHANGED queue
      BY <1>1, <1>7, <2>1 DEF Submit, ReserveOk, ReserveRefused, StoreRun, DateRun, Enqueue
    <2>2. CASE Enqueue(x)
      <3>1. queue' = Append(queue, x) /\ x \notin Range(queue) /\ UNCHANGED <<pc, processing>>
        BY <1>7, <2>2 DEF Enqueue, Submit, StoreInv, HandedOutOnce
      <3>2. Range(Append(queue, x)) = Range(queue) \cup {x}
        BY <3>1, AppendOnce DEF StoreInv, StoreTypeOK, HandedOutOnce, Once
      <3> QED
        BY <3>1, <3>2 DEF AllDead
    <2> QED
      BY <1>7, <2>1, <2>2 DEF Submit, ReserveOk, ReserveRefused, StoreRun, DateRun
  <1>8. ASSUME NEW x \in Runs, NEW t \in Tenants, CancelQueued(x, t), UNCHANGED pc
        PROVE  Goal
    <2>1. CASE UNCHANGED storeVars
      BY <1>1, <1>8, <2>1
    <2>2. CASE /\ queue' = Lrem(queue, x) /\ processing' = processing \ {x}
               /\ status' = [status EXCEPT ![x] = "canceled"]
      BY <1>8, <1>a, <2>2, LremOthers DEF AllDead, StoreTypeOK
    <2> QED
      BY <1>8, <2>1, <2>2 DEF CancelQueued
  <1>9. ASSUME NEW c \in Cancels, CancelStep(c) \/ CancelRaises(c)
        PROVE  Goal
    <2> DEFINE x == cancel[c].run
               t == cancel[c].tenant
    <2>1. /\ UNCHANGED pc
          /\ \/ UNCHANGED storeVars
             \/ /\ cancel[c].step \in {"queued", "running", "kill"}
                /\ CancelQueued(x, t) \/ CancelRunning(x, t)
      BY <1>9 DEF CancelStep, CancelQueuedBranch, CancelRunningBranch, CancelKill, CancelRaises
    <2>2. cancel[c].step \in {"queued", "running", "kill"} => x \in Runs /\ t \in Tenants
      BY DEF ServiceOK, CancelOK
    <2> HIDE DEF x, t
    <2> QED
      BY <1>1, <1>8, <2>1, <2>2 DEF CancelRunning
  <1>10. ASSUME NEW c \in Cancels, NEW p \in Replicas, NEW x \in Runs, NEW t \in Tenants,
                CancelRun(c, p, x, t)
         PROVE  UNCHANGED <<pc, queue, processing>>
    BY <1>10 DEF CancelRun
  <1>11. Clock \/ (\E x \in Runs : PodUp(x) \/ PodGone(x)) \/ UNCHANGED vars
            => UNCHANGED <<pc, queue, processing>>
    BY DEF Clock, Midnight, ExpireRun, PodUp, PodGone, vars
  <1> QED
    BY <1>1, <1>2, <1>3, <1>4, <1>5, <1>6, <1>7, <1>9, <1>10, <1>11 DEF Next

\* One exception outside claim_next in each worker, and the runs in the queue
\* wait until a process is started again.
THEOREM DeadStaysDead == Spec => DeadWorkersStay
  <1>1. StoreInv /\ ServiceOK /\ [Next]_vars =>
           (AllDead /\ crashes' = crashes =>
              /\ AllDead'
              /\ processing' \subseteq processing
              /\ \A r \in Range(queue) : r \in Range(queue') \/ status'[r] = "canceled")
    BY DeadStep
  <1> QED
    BY <1>1, ServiceHolds, PTL DEF Spec, DeadWorkersStay

=============================================================================
