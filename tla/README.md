# Verification of qa-aqa

TLA+ modules, TLC runs and machine-checked proofs kept beside the qa-aqa code. qa-aqa
is a stack of small Python services that designs test cases with an LLM agent, runs
them in browser sandboxes and keeps the resulting artefacts under an approval policy.

Commands, from this directory:

    tlasany Runner.tla                                  parse a module
    tlc -workers 2 -config MCRunner_one.cfg MCRunner    model-check a run of PROJECT.json
    tlapm RunStoreProofs.tla                            check the proofs of a module

## 1. Inventory of the system

| component | source (`services/…`) | state it keeps | operations |
|---|---|---|---|
| run queue and quotas | `runner/src/queue.py` | Valkey: `runs:queue`, `runs:processing`, one hash per run, one set and one daily counter per tenant | `submit`, `claim_next`, `start_or_abort`, `set_container_name`, `mark_completed/failed/canceled`, `cancel_queued`, `cancel_running`, `release`, `recover_orphans`, reads |
| runner service | `runner/src/main.py` | one worker task per process, per run a sandbox task and a cancel watcher | startup (reap, recover, serve), `POST /runs`, `POST /runs/{id}/cancel`, reads |
| sandbox executor | `runner/src/sandbox_executor.py`, `storage.py` | a podman container, a work directory, an allow-list file per run | `run_sandbox`, `reap_orphans_blocking`, uploads |
| script generator, inline Playwright, image | `runner/src/script_generator.py`, `playwright_runner.py`, `sandbox-image/` | none | text generation |
| artefact service | `artefact/src/*.py` | Postgres: `artefacts`, `artefact_history`, `idempotency_keys` | create, bulk create, patch, transition, reads, seed |
| execution workflow | `agent-workers/src/workflow_execute.py`, `executor_agent.py`, `activities.py` | Temporal history of a workflow | fetch, fan out to sandboxes (3 at a time), persist results |
| design workflow | `agent-workers/src/workflow.py`, `agent.py`, `critic.py`, `attestation.py` | Temporal history; state of the LangGraph graph | create requirement, generate / validate / critique loop, persist cases |
| worker process | `agent-workers/src/worker.py`, `start_workflow.py`, `registry.py`, `config.py` | none | connect with retries, seed, serve |
| BFF | `bff/src/*.py` | none | authenticated passthrough, role checks |
| policy service | `policy/src/main.py` | none | one call to OPA |
| egress proxy | `proxy/src/addon.py` | allow-list cache, 5 s | allow or refuse a request of a sandbox |
| RAG service | `rag/src/main.py` | Postgres `chunks`, an OpenSearch index | ingest, hybrid search |
| web client | `clients/web/` | query cache of a library | views over the BFF |
| infrastructure | `infra/infra.sh` | none | brings containers up, smoke tests |

How they interact. The web client calls the BFF, which starts workflows in Temporal and
passes artefact requests on. A workflow's activities call the artefact service, the model
gateway, the RAG service and, for `playwright_sandbox`, the runner: `POST /runs`, then a
poll of `GET /runs/{id}`. The runner puts the run in Valkey; its worker claims it, starts a
container through podman and marks the outcome. The container's traffic goes through the
proxy, which reads the allow-list file the runner wrote. Valkey, Postgres, podman, Temporal,
MinIO, OpenSearch, OPA and the model gateway are external.

What is hard here. In the runner: four kinds of tasks of one process (worker, sandbox,
watcher, request handlers), and possibly several processes, interleave at every await over
a shared store; containers outlive processes; a crash may fall between any two commands;
a cancel races the start, the end and the claim of its run. In the artefact service:
transactions at READ COMMITTED that read, decide and write. In the workflows: retried
activities over calls that are not idempotent, and two timeouts over the same wait. The
list "hazards" of `PROJECT.json` names each at its line.

What makes each component correct:

| component | properties |
|---|---|
| run queue and quotas | a tenant is never over its caps; the daily counter counts every accepted submit once; a run is handed out once; a cancel is never taken back, whatever is marked later |
| runner service and executor | a cancel that was answered with success is honoured through crashes and late results; a slot is held exactly as long as the run is active; no run is lost; a terminal status is final; nothing is launched for a run that is over; every run ends |
| artefact service | keys name rows that are there, and the tenant's own unless a seed's id was taken; a create is all or nothing and changes nothing; every version and value is accounted for; approval needs the role the policy asks for; every request ends |
| execution workflow | a result is the end of the run the workflow waits for, or the 404 of one that has expired; artefacts are stored once; no refusal without cause; the workflow ends |
| design workflow | only validated cases are stored, under the model that wrote them, reviewed or said not to be; the model is called a bounded number of times |
| sandbox, generated script, egress proxy | what a container reaches is on its run's list, however long it outlives the run, and nothing once the file is gone for as long as the cache lives; a run is reported as passed only if its script ran to the end |
| RAG service | what a search names can be found in Postgres, beside any ingest and failure; rank fusion puts what both stores found first |
| policy service, BFF, scripts, web client (not modelled) | no state of their own |

## 2. Plan

| order | modules | state |
|---|---|---|
| 1 | `RunStore` (the store under any client), `RunStoreProofs` | done |
| 2 | `Runner` over `RunStore`, abstract `RunLifecycle`, refinement checked; `RunnerProofs` | done |
| 3 | `ArtefactStore`, `ArtefactStoreProofs` | done |
| 4 | `ExecuteWorkflow` over `RunLifecycle` and `WorkflowStep`; `ExecuteWorkflowProofs` | done |
| 5 | `RagService`, and `DesignerAgent` composed with it over `WorkflowStep`; `RagProofs`, `DesignerProofs` | done |
| 6 | `Sandbox`: the executor, the container's script and the proxy; `SandboxProofs` | done |
| 7 | the promises of a service of one replica (`SlotIffActive`, `NothingLost`, `RunningHasWorker`, `TerminalFinal`, `NoLaunchAfterEnd`), then that such a service implements `RunLifecycle`, both in `OneRunnerProofs` | done |
| 8 | what any number of replicas promises (`OneWorker`, `ClaimedOnce`, `LaunchedOnce`, `NoStaleContainer`), the two runner findings for every instance, `FusionSound` and the windows of a text, the workflow's cap and the end of its results | done |

Abstract specifications: `RunLifecycle` is what the runner promises its callers. `Runner` is
shown to implement it, by TLC on an instance and by `RefinesLifecycle` for all, and
`ExecuteWorkflow` is built on it, so the two meet in one module: `RunsFollowLifecycle` says that the
workflow's runs do no more than it allows, and `LifecyclePromises` what that comes to.
`StoreSpec` is what the store promises whatever its client does; `KeepsToTheStore` proves that
`Runner` does. For the artefact service the promise is stated as invariants over the tables.

Theorems wanted: type correctness and the safety invariants of each module, from an inductive
invariant TLC has checked. Liveness stays with TLC.

## 3. The modules and the code

### RunStore

One action per command or Lua script of `queue.py`; a script is one step, a method of several
commands is several. `queue` and `processing` are the two lists (head at the right end of the
Redis list), `status`, `owner`, `cancelRequested`, `containerName` the fields of the hash
`run:{id}`, `running[t]` and `daily[t, d]` the quota keys. `submit` is cut as the code cuts it:
`ReserveOk` or `ReserveRefused` (the script), `StoreRun` (HSET), `DateRun` (EXPIRE), `Enqueue`
(LPUSH), and `Abandon` for a submit cut short. `ExpireRun` is the TTL, `Midnight` the change of
the day. `StoreSpec` lets any client call anything at any time: what is proved of it holds for
every service on top.

### Runner and RunLifecycle

`Runner` adds the processes. `life` is the start-up (`reap_orphans_blocking`, then
`recover_orphans`, which is a list read and then one read and one write per id, then serving);
`pc` the worker in `_execute_run`; `box` the task `run_sandbox`; `watcher` the task
`_watch_for_cancel`; `pod` the container, which belongs to the podman host and outlives the
process; `cancel` one handler of `cancel_run` per request; `submitAt` the replica a submit runs
at. An action is what one task does from one await to the next with one command in it.
`Crash` stops a process anywhere, `LoseClaim`, `WorkerDies`, `CompleteRaises`, `WatchRaises`,
`SubmitRaises`, `CancelRaises` let a command raise, having taken its effect or not.
`RunLifecycle` is the same service seen from a caller: admitted or refused by the quota, queued,
running, over. `ImplementsLifecycle` maps a run's status, or how far its submit is, to its phase.

### ArtefactStore

A request is a transaction at READ COMMITTED, a statement is an action, as `main.py` issues
them: key look-up, insert of the row, insert of the key, read of the row, the two reads of the
policy, the audit row with the update. `art`, `keyed` and `history` hold what is committed;
what an open transaction has inserted is in `wrote` and `wroteKeys`, and others that insert the same
wait for it (`Holders`).
`Rollback` may strike anywhere; Postgres ends one of two transactions that wait for each other
(`BreakDeadlock`). Row-level security is `Visible`; the unique indexes are not subject to it, and an
id may be used by any tenant, a seed's included. `_seed` is the call "seed": it goes on after such a
conflict and stores its key, where a create raises. `Fetched` is `_fetch_artefact` of what a key
names: null if the row is another tenant's, which FastAPI answers with 500 after the COMMIT.

### ExecuteWorkflow, WorkflowStep

`WorkflowStep` is an activity with a limited number of attempts. `ExecuteWorkflow` has a run of
`RunLifecycle` for each attempt of each test. `GiveUp` is a timeout of Temporal's: the attempt's
code is not told and goes on until `Drop`.
`Forget` is the TTL of a run's hash, which `RunLifecycle` does not know: from then on `forgotten` has
the run and its phase is how far the runner's worker is with it. `Outcomes` are what
`run_in_sandbox` may then return: "error" for a 404 (`executor_agent.py:199-208`), or the end of the
run when the worker's mark makes a hash anew, with no trace of a cancel that was accepted before. A
cancel that comes later is refused. A forgotten run keeps its slot until its worker ends it, or for
good.

### RagService and DesignerAgent

`RagService` keeps the table `chunks` (`pg`) and the index (`index`), which are written one after
the other without a transaction. A chunk is the ingest that made it, the part and the window of
tokens, since `/ingest` draws a new id each time. `seed` is `_seed_docs` of a worker that starts,
`ingest` the handler of each `POST /ingest`, which goes on when its caller has given up; `search`
reads Postgres, then OpenSearch, and `Hits` is the fused list, with ranks as fractions. Embeddings
and relevance are any ranking. `DesignerAgent` extends it: the worker's ingests, the searches of
its graph and the graph's nodes interleave. `state` is the fields of `DesignerState` that the
routing looks at, a draft is known by the number of the call that wrote it, `good`, `author` and
`reviewed` record what is true of each draft, `context` the chunks that were found, which the
attestation names.

### Sandbox

`Sandbox` looks into what `Runner` has as `box` and `pod`. `call` is `run_sandbox` from the work
directory to the clean-up; `file` the allow-list file, `gone` how long ago it was removed;
`script`, `at`, `outcome` and `result` the generated script from its first line to the two steps
in which it writes `result.json`; without that file the verdict is "fail" or "error", as the exit
code, which is not modelled, has it; `cache`, `reached` and `refused` the add-on. An action of the
script that opens an address contains the proxy's handling of that request, `_load` with the cache
and all. The three programs share no clock: `Tick` lets a second of the proxy's go by.

### The proofs

`RunStoreProofs`, `RunnerProofs`, `ArtefactStoreProofs`, `ExecuteWorkflowProofs`, `RagProofs`
(`RagService`), `DesignerProofs` and `SandboxProofs` extend the modules they are named for and define
only the strengthened invariants, and the properties that are proved and that no run has.
`DesignerProofs` extends `RagProofs`, too, as `DesignerAgent` does `RagService`. `OneRunnerProofs`
extends `RunnerProofs`: it is about `Runner` with a single replica.

## 4. What is checked

| run | configuration | what it shows |
|---|---|---|
| `store` | 2 runs, 2 tenants, caps of 1, 2 days, one run may expire | quotas, the counter, single hand-out, cancels, under any client |
| `one_replica` | 2 runs, 1 tenant, 1 cancel, 1 crash, 1 fault, failing kills, one run may expire | the promises of the service of one replica |
| `liveness` | 2 runs, 2 tenants, 1 cancel, 1 crash, failing kills | every run ends, canceled if a cancel was accepted; `Runner` implements `RunLifecycle` |
| `artefacts_create` | 3 requests, 2 tenants: bulks in both orders, replays, seeds, foreign ids, one of them a seed's | keys, all or nothing, no mutation, every request ends |
| `artefacts_write` | 4 requests: a create or seed, three patches or transitions | versions, audit, approval, one aspect per write |
| `execute_tests` | 2 tests, 1 permit, 2 attempts, quota of 1, one run may expire | results, single storage, refusals, end of the workflow |
| `design_tests` | 12 nodes, 2 and 3 attempts, one document, two workers that seed it, 2 hits | validity, attestation, traceability, review, number of calls, rank fusion |
| `sandbox` | 1 sandbox, 16 requests, 2 addresses, a cache of 3 ticks | egress by the list, a pass is earned |
| `slot_leak` | 1 run, 1 crash | **violated**: recovery does not free the slot of a submit cut short |
| `dead_worker` | 2 runs, 1 fault | **violated**: one exception ends the worker and the queue stands still |
| `artefact_race` | 4 requests | **violated**: a transition from a state the policy does not allow it from |
| `artefact_retry` | 3 requests | **violated**: one idempotency key, two artefacts |

Every property of a passing run has a mutant in `PROJECT.json`, a plausible bug of the mapped
code with which TLC finds the property violated. The mutated operators stand in the modules,
marked "Faulty variant", and nothing else uses them.

Bounds, and why they are enough. Two runs make the queue have an order, a cap of 1 be reached and
a second run wait behind one that never ends; two tenants make a slot belong to the wrong one. A
single crash and a single fault can fall between any two commands, and the properties are about
what one interruption leaves; what more of them leave is in the proofs, which bound nothing. One
cancel races every step; two cancels of one run meet the same scripts. In
`ArtefactStore` two requests make every race the code has, a third one sees its outcome; the
proofs bound nothing. Two tests and one permit (three and three in the code, where the tenant's
quota is three as well) make one test wait for another's slot; two attempts are the code's limit. The run
that may expire is that of the first attempt of a test, which has a successor and another test beside
it.
In `DesignerAgent` the limits on attempts are the code's own; 12 nodes, where LangGraph has 25,
are enough for both counters to run out, for a regeneration and for the limit itself to strike.
Two seedings beside the searches make a chunk be in neither, one or both stores at each statement;
two hits make a list that is cut off, and a rank that counts. The chunking of long texts is compared
with the loop of the code in `MCDesignerAgent` (`ChunkingSound`), at lengths about 512 and 462. In `Sandbox` one sandbox is enough:
sandboxes share the proxy's clock and nothing else, as each has a file, a cache entry and a
directory of its own. A cache of 3 ticks is young, half used and over; the requests combine a test
that goes to a listed, an unlisted or no address, with a step nobody supports, with and without
`target_url`, with a list that is empty or not.

Deadlock is not checked where a run's cfg says so: all requests may have been made and all runs be
over, and a workflow ends. `sandbox` and `store` have a clock or a client that can always go on.

Fairness. `Runner`: the event loop runs every task that can run; the timeouts of `run_sandbox` and
the watcher's sleep fire; a process that stopped is started again (`infra.sh` starts the services,
and the run that was interrupted is the reason to). Nothing is assumed of containers, of kills, of
requests to come, of the clock or of faults. `ArtefactStore`: a transaction that can take its next
statement takes it, and Postgres' deadlock detector runs. `ExecuteWorkflow`: Temporal fires its
timeouts and a worker polls; nothing is assumed of the runner or of an attempt's code.

## 5. What the runs found

Listed under "findings": the slot leak, the dead worker, the transition race and the key race. Met
while modelling and left without a run of their own:

- `cancel_run` answers 409 "run already terminal" with the status "running" when the run starts
  between its read and its script (`main.py:183`); the cancel is dropped.
- `_watch_for_cancel` kills once and returns; "no such container" counts as done, so a container
  that comes up later runs to its timeout. The cancel design (:175) says "continue polling".
- A run canceled before its LPUSH is claimed, aborted and left on `runs:processing`.
- The start-up of a second replica fails runs the first executes; `start_or_abort` refuses
  "canceled" only, so that failed becomes running again, and `TerminalFinal` is a promise of one
  replica. `main.py:231` suggests more of them. What `RunnerProofs` shows holds for any number.
- The address that `script_generator.py` puts before a test without a `goto` is opened without a
  look at the answer's status: a refusal of the proxy does not fail such a test, although the
  comment at :83 says an HTTP 4xx/5xx is a failure "rather than silently navigating". `PassEarned`
  speaks of the addresses of the steps only.
- The allow-list file and the work directory stay when the upload raises, when the hung-container
  guard cancels the task and when the process stops, although `sandbox_executor.py:20` has
  "Cleanup of allowlist files on exit". Nothing is widened by it (`EgressByList`): the list of a
  dead run goes on to hold for a container that outlived it.
- The second try of the proxy's `_matches`, which is to forgive a missing slash, appends one to
  both sides and so allows nothing that the first did not.
- The proxy is asked for requests only: a `goto` of `about:blank` or of a fragment makes none, and
  is outside `Urls`.
- The ids of artefacts are one name space for all tenants, and a create may choose its id: if another
  tenant has a row under `<type>:seed:<name>`, `_seed` leaves the document out but stores its key, so
  that no later boot adds it (`artefact/src/main.py:369-379`; the docstring says "Ingest seed YAMLs as
  artefacts in tenant=default"). A create of the default tenant that replays this key is answered with
  null, hence 500, after its COMMIT. `KeysSound` and `AllOrNothing` say so, and that nothing else does.
- A run whose hash expires while a workflow polls it is reported as "error ... disappeared"
  (`executor_agent.py:199`) although it may be running, and may yet complete. 24 h are reached when
  `sandbox_timeout_seconds`, which has no upper bound, or the wait in the queue is that long.
- Two overlapping patches store the same old version twice in the history (`main.py:252`).
- `get_approval_policy` shows drafts too, transitions are validated against approved policies only.
- One sandbox activity that fails twice fails the workflow with the results of the others; the
  cancel design (:193) says the workflow "already tolerates per-test failures".
- A retried sandbox activity submits the test again while the first run goes on; its `quota
  exceeded` result may be caused by that first run.
- The synthetic timeout result of `run_in_sandbox` is never in time: `start_to_close` is as long as
  the sum of the sleeps alone.
- An invalid answer of the model and then an unparsable one count three attempts: the agent gives
  up without the call of chat-prod that the design (:102-104) puts before it. The same counter is
  not reset when the critic asks for a regeneration, so one unparsable answer then discards cases
  that had passed.
- `retry_with_cloud` is assigned in routing functions, which LangGraph 0.2.50 hands a copy of the
  state: as far as that is so, no call goes to chat-prod and the critic's "single retry" repeats
  until the limit on nodes. The properties of `DesignerAgent` hold either way (`kept`).
- The seed of the RAG service is called idempotent (`activities.py:214`, `/ingest` "upserts"), but
  `ingest` draws a new `chunk_id` each time (`rag/src/main.py:206`): every start of a worker adds
  the documents once more, and a search may answer with the same text several times.
- The designer's two searches name two corpora, `/search` has no such parameter: both ask the same.
- The errors of single items of the OpenSearch bulk are not looked at: a chunk may be found by its
  vector only, for good. The last window of a text may lie within the one before it.
- "Found by both stores" beats "found by one" for the first 61 ranks only; `FusionSound` has the
  bound (`SearchK \in 1 .. RrfK + 1`), and the callers ask for 3 to 10.
- Requirements of medium criticality are never reviewed and carry no reason for it, where
  `critique_policy.test_case.v1.yaml` says "criticality >= medium".

## 6. What is proved

`tlapm` checks these modules to the last leaf, for all constants that satisfy the named
assumptions. `PROJECT.json` lists the theorems with the properties they state.

`RunStoreProofs`, of `StoreSpec`, from `StoreAssumption`:
`StoreTypeCorrect`; `QuotaHolds` (a tenant's set never exceeds its cap: from `QuotaInv`, the set is
finite and within the cap); `DailyHolds` (the counter is the number of accepted submits: from
`DailyInv`); `CancelWinsHolds` (nothing overrides a cancel); `CanceledStickyHolds`; and
`HandedOutOnceHolds`, which needs two invariants more: a run that is not enqueued is on no list
(`Unstored`), and no id stands twice in the queue (`Once`).

`RunnerProofs`, of `Spec` of `Runner`, from the assumptions of both modules, for any number of
replicas, cancels, crashes and faults. `RunnerTypeCorrect`. `KeepsToTheStore`: the service
implements `StoreSpec`. The general client of the store may do nearly anything, so that little is
to be shown of a step: a worker or a recovery that sends a command holds a run that was enqueued
(`ServiceOK`). `StorePromises` then carries the theorems of `RunStoreProofs` over without a new
proof. `CancelsHonoured` from `HonourInv`: a handler that has yet to send its kill has the request
recorded already, and no command of the store takes such a run anywhere but to canceled.
`CanceledNeverRun` from `StartedInv` and `QuietInv`: a run canceled from the queue is past no
start decision, and no container was launched for it.

Still for any number of replicas, what no recovery of a second one can spoil. `RunHasOneWorker` from
`HolderInv`: a run that a worker has was enqueued, is off the queue, and no other worker has it.
`RunClaimedOnce`: a run that has left the queue never comes back, for the only LPUSH is its
submit's; so that what a worker drops, loses with a reply or leaves behind is not tried again.
With the two, `ContainerLaunchedOnce`: a run is launchable while it is queued or its worker has not
sent `podman run` yet, and that is never true again once it was false.
`NothingStale` adds that there is no container of a launchable run, from `PodInv`: the `podman rm -f`
before a launch removes nothing.

Two findings of section 5 are more than an instance's bad luck. `SlotLostByCut` (from `ReservedInv`):
whichever way a submit is cut short after its reservation, the slot stays taken by a run without a
hash; `SlotsStayLost`: no step of a recovery, a cancel, a mark or the TTL takes it out of the set;
`TenantShutOut`: a tenant that has lost as many as its cap is over its cap from then on.
`DeadStaysDead`: once the worker of every process has died, and until a process starts again, the
queue only grows or loses runs to a cancel, and no worker comes back.

`OneRunnerProofs`, of `Spec` of `Runner`, from the same assumptions and `Single` (one replica): `SlotsMatch`,
`NoneLost`, `RunningIsHeld`, `EndsAreFinal`, `EndedNotLaunched`. With two replicas these are false,
as section 5 says of the second one's start-up. The invariant `OneInv` is a predicate `Good` of each
run, for a command of the store, a step of the worker and a step of the recovery are about one run:
any other sees no change (`SameRun`, `SameHold`) and stays `Good` (`SameGood`), and only the run
the step is about is left to look at. `Good` says that nobody has a run before a worker starts it
(`Fresh`); what the hash, the quota set and the lists tell of it (`Hashed`, `Slotted`, `Listed`); what
the worker at each place of `_execute_run`, and the recovery, knows of the run it has (`Staged`); and
that a run that is running is the worker's, or still to be looked at by the recovery (`Found`).
`Slotted` is stronger than `SlotIffActive`: it has the slot of a submit that is under way or was cut
short too, and says that no tenant but the run's own has one for it.

The same module has, from `Single` and `Expirable = {}` (a hash that expires is forgotten, which the
life cycle has no step for): `RefinesLifecycle`, that `Spec` implies `ImplementsLifecycle`. What
`RunLifecycle` counts is what the store counts: the runs of a tenant that are not over are its quota
set (`BusyAre`, from `Slotted`), its submits of a day are the daily counter (`DailyInv`). Every other
command moves one run along its phases (`NextPhase`) or none; that a worker completes only what is
running, and starts only what is queued, is `Staged` and `Fresh`.

`ArtefactStoreProofs`, of `Spec`: `TypeCorrect` from `Typed` (`StepOK`: a request at a statement
has an item left and the row that statement works on); `CreatesNeverMutate`; `KeysSoundHolds` and
`AllOrNothingHolds` from `Rows` (a row has a creator, which is inserting it or has committed it;
locks belong to open transactions; a key is inserted after its row), without any assumption on who
uses which ids and keys; `VersionsCount` and
`AuditAccountsHolds` from `Kept` and `Audit` (a patch leaves one history row, and nobody else's
step removes or adds one); `OneAspect`; `ApprovedByUserHolds` from `ApprovedOK` and `Allowed` (the
policy a transition was allowed by is among the known policies, however old it is by then).

`ExecuteWorkflowProofs`, of `Spec`, for any number of tests, attempts and permits:
`WorkflowTypeCorrect`; `ResultsEarned` (a result the workflow has is the end of a run the awaited
attempt submitted: `CodeType`, `StepInv` and `ResultInv` say where an attempt's code can be and
that it returns the status of its own run only, or the 404 of one that has expired);
`ArtefactsOnce` from `CopiesInv` (the requests under way all carry the workflow's key); `NeverRefused` from `CalmInv`, `PermitInv` and `AloneInv`
(as long as nothing was given up and no hash has expired, a slot is held by a test that has a permit).
`CapHolds`, from the same three: as long as no attempt fails and no hash expires there are no more runs in flight than permits; an attempt
that was given up goes on, and its permit is free again. `SettledHolds` from `BatchInv` (the batch
activity writes all results at once, and none before): a result is not written over, and a workflow
that ended stays so. `RunsFollowLifecycle`: each action of the workflow moves a run as `LifeNext`
allows or not at all, and an expiry moves none. `LifecyclePromises`, of `LifeSpec`: its quotas (`LifeQuota`), an accepted
cancel ends the run as canceled (`AskedEndsCanceled`), an end is final (`OverIsFinal`).

`RagProofs`, about `RagService`, for any corpus, chunk size, overlap and k. `WindowsFit`: a window is
within the text and no longer than a chunk; `WindowsCover`: as many tokens in a row as the overlap
has stand whole in a window, wherever the text is cut. Of the fusion: scores are fractions with
positive denominators, so `Before` is a strict total order of what was found and the places
have no gap (`FusionFollows`). `RagInv` (each ingest has its rows before it writes the index, and
rankings are of chunks that are there) is kept by every step of `RagService`.

`DesignerProofs`, of `Spec`, for any limits, corpus and number of workers: `DesignerTypeCorrect`;
`FusionHolds` from `RagInv` and the lemmas of `RagProofs`; `Traceable` from `RagInv` and
`ContextInv` (a handler about to write OpenSearch has its rows in Postgres, so that whatever a search finds has a row, and rows stay); `ValidStored`,
`ModelIsAuthor`, `Reviewed` from `GraphInv` and `OutInv` (`NodeInv`: what holds of the draft and
of the final cases at each node of the graph); `CallsStayBounded` from `Pace`, which counts the
calls against the nodes left.

`SandboxProofs`, of `Spec`, for any number of sandboxes, requests, patterns and any life of the
cache: `TypeCorrect`; `EgressHolds` from `Held` and `FreshEntry` (a young entry of the cache is
the run's list, and is no older than the removal of its file); `PassIsEarned` from `Earned`,
`Gated` and `Ran` (a script past a `goto` was let through; an outcome of "pass" is written after
the last step; a result is the outcome of a script that ended).

Every invariant and action property of a passing run is a theorem. Only model-checked: the liveness
properties (`Settles`, `RequestsEnd`, `WorkflowEnds`), for temporal reasoning under fairness and
ENABLED are out of the prover's reach, and that the windows of a text are those the loop of
`_chunk` cuts (`ChunkingSound`), which needs induction over the loop's rounds.

## 7. What is not modelled

The bodies of prompts, screenshots and results; metrics, logs and read-only endpoints, the
listing reads of the queue (`list_active`, `quota_status`) among them, which change nothing and
serve the web client; `playwright_runner.py`, which nothing calls. The BFF forwards a request to
one service and returns its answer, the policy service makes one call to OPA, and the web client
draws what the BFF answers: none keeps a state that another step of theirs could contradict.
`infra.sh` brings the containers up. Valkey, Postgres, OpenSearch, podman, Temporal and LangGraph
are modelled as the code uses them.
