--------------------------- MODULE ExecuteWorkflow ---------------------------
(***************************************************************************)
(* ExecuteTestsWorkflow (agent-workers/src/workflow_execute.py): fetch the *)
(* test cases, run each in a sandbox or all of them in one batch, store    *)
(* the results.  The runner service is what RunLifecycle promises of it,   *)
(* as long as it keeps the hash of a run: 24 h after the submit the hash   *)
(* is gone, and with it the tenant, the status and an accepted cancel.     *)
(* phase[r] then is how far the runner's worker has come with the run, and *)
(* no longer what a poll answers.                                          *)
(*                                                                         *)
(* Temporal hands an activity to a worker, gives an attempt up when its    *)
(* start_to_close or heartbeat timeout fires, and starts another.  The     *)
(* code of the attempt given up knows nothing of it until its next         *)
(* heartbeat: until then it goes on beside the new one, and what it has    *)
(* asked of the runner or of the artefact service happens all the same.    *)
(*                                                                         *)
(* Run <<i, k>> is the one that attempt k of test i submits.  The tenant   *)
(* has no other workflow: one that takes slots from this one shows as an   *)
(* attempt given up does, whose run keeps the slot the next one needs.     *)
(***************************************************************************)
EXTENDS RunLifecycle, WorkflowStep

CONSTANTS
    N,               \* test cases of the workflow
    Cap,             \* SANDBOX_PARALLEL_CAP
    Me,              \* the workflow's tenant
    Attempts,        \* maximum_attempts of an executor activity
    StoreAttempts,   \* maximum_attempts of the fetch and of the bulk create
    Expirable,       \* bound: the runs whose 24 h TTL may fire
    NoResult

Tests    == 1 .. N
Attempt  == Tests \X (1 .. Attempts)

ASSUME WorkflowAssumption ==
    /\ N \in Nat
    /\ Cap \in Nat \ {0}
    /\ Me \in Tenants /\ NoTenant \notin Tenants
    /\ MaxConcurrent \in Nat /\ MaxDaily \in Nat
    /\ Attempts \in Nat \ {0}
    /\ StoreAttempts \in Nat \ {0}
    /\ Runs = Attempt
    /\ Expirable \subseteq Runs

Result == {"reported", "error", "canceled", "quota"}

ASSUME ResultAssumption == NoResult \notin Result

VARIABLES
    mode,      \* "playwright_sandbox" or "batch", for simulate and scripts
    task,      \* per test: "waiting" for a permit, "started", "done", "failed"
    attempt,   \* the attempt the workflow waits for
    code,      \* where the code of each attempt is
    result,    \* the result of each test, as the workflow has it
    copies,    \* execution_result artefacts of each test
    late,      \* bulk creates the workflow gave up and the service has not seen
    forgotten  \* the runs whose hash has expired

wfVars  == <<mode, wf, lost, task, attempt, code, result, copies, late>>
runVars == <<lifeVars, forgotten>>
vars    == <<runVars, wfVars>>

Init ==
    /\ LifeInit
    /\ mode \in {"playwright_sandbox", "batch"}
    /\ wf = "fetch"
    /\ lost = 0
    /\ task = [i \in Tests |-> "waiting"]
    /\ attempt = [i \in Tests |-> 1]
    /\ code = [a \in Attempt |-> "none"]
    /\ result = [i \in Tests |-> NoResult]
    /\ copies = [i \in Tests |-> 0]
    /\ late = 0
    /\ forgotten = {}

-----------------------------------------------------------------------------
(* The workflow's own steps                                                  *)

Fetch ==
    /\ \/ N > 0 /\ Succeeds("fetch", "execute")
       \/ N = 0 /\ Succeeds("fetch", "done")
       \/ Fails("fetch", StoreAttempts)
    /\ UNCHANGED <<runVars, mode, task, attempt, code, result, copies, late>>

\* What the model answers to a test case, by simulate_via_llm or by
\* generate_script; in the place of an answer that is no JSON stands an "error".
Answers == {"reported", "error"}

\* One activity for all the tests.
Batch ==
    /\ mode = "batch"
    /\ \/ /\ Succeeds("execute", "persist")
          /\ result' \in [Tests -> Answers]
       \/ Fails("execute", Attempts) /\ UNCHANGED result
    /\ UNCHANGED <<runVars, mode, task, attempt, code, copies, late>>

\* Faulty variant for a mutation run: the first result is waited for.
GatheredFirst ==
    /\ mode = "playwright_sandbox"
    /\ \E i \in Tests : task[i] = "done"
    /\ Succeeds("execute", "persist")
    /\ UNCHANGED <<runVars, mode, task, attempt, code, result, copies, late>>

\* gather has every result.
Gathered ==
    /\ mode = "playwright_sandbox"
    /\ \A i \in Tests : task[i] = "done"
    /\ Succeeds("execute", "persist")
    /\ UNCHANGED <<runVars, mode, task, attempt, code, result, copies, late>>

\* Faulty variant: the artefacts have no ids of their own.
StoredTwice == copies' = [i \in Tests |-> copies[i] + 1]

\* The bulk create: an id that is there already is answered with its row.
Stored == copies' = [i \in Tests |-> 1]

\* An attempt that fails may have been handled, may never be, or may be later.
Persist ==
    /\ \/ Succeeds("persist", "done") /\ Stored /\ UNCHANGED late
       \/ /\ Fails("persist", StoreAttempts)
          /\ \/ Stored /\ UNCHANGED late
             \/ UNCHANGED copies /\ late' \in {late, late + 1}
    /\ UNCHANGED <<runVars, mode, task, attempt, code, result>>

LateStore ==
    /\ late > 0
    /\ late' = late - 1
    /\ Stored
    /\ UNCHANGED <<runVars, mode, wf, lost, task, attempt, code, result>>

-----------------------------------------------------------------------------
(* One activity per test, behind a semaphore                                 *)

Holders == {i \in Tests : task[i] = "started"}

\* Faulty variant: one permit too many.
BeginOneMore(i) ==
    /\ wf = "execute"
    /\ mode = "playwright_sandbox"
    /\ task[i] = "waiting"
    /\ \A j \in Tests : j < i => task[j] # "waiting"
    /\ Cardinality(Holders) <= Cap
    /\ task' = [task EXCEPT ![i] = "started"]
    /\ code' = [code EXCEPT ![<<i, 1>>] = "context"]
    /\ UNCHANGED <<runVars, mode, wf, lost, attempt, result, copies, late>>

\* Permits go to the tests in their order; a permit is held across attempts.
Begin(i) ==
    /\ wf = "execute"
    /\ mode = "playwright_sandbox"
    /\ task[i] = "waiting"
    /\ \A j \in Tests : j < i => task[j] # "waiting"
    /\ Cardinality(Holders) < Cap
    /\ task' = [task EXCEPT ![i] = "started"]
    /\ code' = [code EXCEPT ![<<i, 1>>] = "context"]
    /\ UNCHANGED <<runVars, mode, wf, lost, attempt, result, copies, late>>

\* The workflow waits for attempt k of test i.
Awaited(i, k) == wf = "execute" /\ task[i] = "started" /\ attempt[i] = k

\* Faulty variant: the last failure is awaited for ever.
FailedForever(i) ==
    /\ UNCHANGED <<wf, task>>
    /\ attempt' = [attempt EXCEPT ![i] = IF @ < Attempts THEN @ + 1 ELSE @]

\* What the workflow makes of a failed attempt: the next one, or, since gather
\* passes the first exception on, the end of the workflow.
Failed(i) ==
    \/ /\ attempt[i] < Attempts
       /\ attempt' = [attempt EXCEPT ![i] = @ + 1]
       /\ UNCHANGED <<wf, task>>
    \/ /\ attempt[i] = Attempts
       /\ task' = [task EXCEPT ![i] = "failed"]
       /\ wf' = "failed"
       /\ UNCHANGED attempt

\* start_to_close or heartbeat timeout: the code of the attempt goes on.
GiveUp(i) ==
    /\ Awaited(i, attempt[i])
    /\ code[<<i, attempt[i]>>] # "none"
    /\ Failed(i)
    /\ UNCHANGED <<runVars, mode, lost, code, result, copies, late>>

\* The worker takes up the attempt that Temporal has scheduled after another.
Retry(i) ==
    /\ Awaited(i, attempt[i])
    /\ code[<<i, attempt[i]>>] = "none"
    /\ code' = [code EXCEPT ![<<i, attempt[i]>>] = "context"]
    /\ UNCHANGED <<runVars, mode, wf, lost, task, attempt, result, copies, late>>

-----------------------------------------------------------------------------
(* run_executor_activity and run_in_sandbox, attempt k of test i             *)

Goes(a, from, to) == code[a] = from /\ code' = [code EXCEPT ![a] = to]

\* The search of the RAG service has answered.
Context(a) ==
    /\ Goes(a, "context", "post")
    /\ UNCHANGED <<runVars, mode, wf, lost, task, attempt, result, copies, late>>

\* The runner admits or refuses the run.
Post(a) ==
    /\ Goes(a, "post", "sent")
    /\ \E d \in Days : Admit(a, Me, d) \/ Refuse(a, Me, d)
    /\ UNCHANGED <<forgotten, mode, wf, lost, task, attempt, result, copies, late>>

\* 202 and the id of the run, once it is in the queue.
Accepted(a) ==
    /\ phase[a] \notin {"new", "refused", "admitted"}
    /\ Goes(a, "sent", "poll")
    /\ UNCHANGED <<runVars, mode, wf, lost, task, attempt, result, copies, late>>

\* Faulty variant: a run whose cancel was requested counts as canceled.
OutcomeEager(a) ==
    CASE asked[a] -> "canceled"
      [] ~asked[a] /\ phase[a] = "refused"   -> "quota"
      [] ~asked[a] /\ phase[a] = "completed" -> "reported"
      [] ~asked[a] /\ phase[a] = "failed"    -> "error"
      [] ~asked[a] /\ phase[a] = "canceled"  -> "canceled"
      [] OTHER -> NoResult

\* What an attempt makes of the answer 429, or of a status it polls.
Outcome(a) ==
    CASE phase[a] = "refused"   -> "quota"
      [] phase[a] = "completed" -> "reported"
      [] phase[a] = "failed"    -> "error"
      [] phase[a] = "canceled"  -> "canceled"
      [] OTHER -> NoResult

\* The results an attempt may return.  The poll of a run whose hash is gone is
\* answered with 404, which is an "error"; or with the end of the run, when the
\* worker's mark came after the expiry and made a hash anew.  That mark has
\* not seen a cancel accepted before the expiry.
Outcomes(a) ==
    {x \in Result :
        \/ x = Outcome(a)
        \/ x = "error" /\ a \in forgotten
        \/ x = "reported" /\ a \in forgotten /\ asked[a] /\ phase[a] = "canceled"}

\* The attempt returns.  Its result counts if the workflow waits for it.
\* The loop also ends after timeout_seconds + 60 s of sleeping, with a result
\* of its own; start_to_close is as long and includes the calls, so that the
\* attempt has been given up by then: see Drop.
Return(i, k) ==
    LET a == <<i, k>> IN
    /\ code[a] \in IF phase[a] = "refused" THEN {"sent"} ELSE {"poll"}
    /\ code' = [code EXCEPT ![a] = "ended"]
    /\ \E x \in Outcomes(a) :
          \/ /\ Awaited(i, k)
             /\ result' = [result EXCEPT ![i] = x]
             /\ task' = [task EXCEPT ![i] = "done"]
          \/ ~Awaited(i, k) /\ UNCHANGED <<result, task>>
    /\ UNCHANGED <<runVars, mode, wf, lost, attempt, copies, late>>

\* A call fails, the answer to the POST among them, and the attempt with it.
Raise(i, k) ==
    LET a == <<i, k>> IN
    /\ code[a] \in {"context", "post", "sent", "poll"}
    /\ code' = [code EXCEPT ![a] = "ended"]
    /\ \/ Awaited(i, k) /\ Failed(i)
       \/ ~Awaited(i, k) /\ UNCHANGED <<wf, task, attempt>>
    /\ UNCHANGED <<runVars, mode, lost, result, copies, late>>

\* An attempt given up ends: cancelled at its heartbeat, dead with its worker,
\* or out of its polling budget.
Drop(i, k) ==
    /\ ~Awaited(i, k)
    /\ code[<<i, k>>] \in {"context", "post", "sent", "poll"}
    /\ code' = [code EXCEPT ![<<i, k>>] = "ended"]
    /\ UNCHANGED <<runVars, mode, wf, lost, task, attempt, result, copies, late>>

-----------------------------------------------------------------------------

\* The runner and its users.  A cancel of a run whose hash is gone is refused.
Runner ==
    /\ \E r \in Runs :
          /\ Advance(r)
          /\ r \in forgotten =>
                asked' = asked /\ ~(phase[r] = "queued" /\ phase'[r] = "canceled")
    /\ UNCHANGED <<tenant, day, forgotten, wfVars>>

\* The TTL of the hash fires; it was set once, before the run was enqueued.
Forget(r) ==
    /\ r \in Expirable \ forgotten
    /\ phase[r] \notin {"new", "refused", "admitted"}
    /\ forgotten' = forgotten \cup {r}
    /\ UNCHANGED <<lifeVars, wfVars>>

Next ==
    \/ Fetch \/ Batch \/ Gathered \/ Persist \/ LateStore
    \/ \E i \in Tests : Begin(i) \/ GiveUp(i) \/ Retry(i)
    \/ \E a \in Attempt : Context(a) \/ Post(a) \/ Accepted(a)
    \/ \E i \in Tests, k \in 1 .. Attempts : Return(i, k) \/ Raise(i, k) \/ Drop(i, k)
    \/ Runner
    \/ \E r \in Runs : Forget(r)

Spec == Init /\ [][Next]_vars

\* Temporal fires its timeouts and keeps a worker for what is scheduled; the
\* activities of the workflow's own steps end, by an answer or by a timeout.
\* Nothing is assumed of the runner, of the runs or of an attempt's code.
Fairness ==
    /\ WF_vars(Fetch) /\ WF_vars(Batch) /\ WF_vars(Gathered) /\ WF_vars(Persist)
    /\ \A i \in Tests : WF_vars(Begin(i)) /\ WF_vars(GiveUp(i)) /\ WF_vars(Retry(i))

FairSpec == Spec /\ Fairness

-----------------------------------------------------------------------------
(* Properties                                                                *)

TypeOK ==
    /\ phase \in [Runs -> {"new", "refused", "admitted", "queued", "running"} \cup Over]
    /\ tenant \in [Runs -> Tenants \cup {NoTenant}]
    /\ day \in [Runs -> Days]
    /\ asked \in [Runs -> BOOLEAN]
    /\ mode \in {"playwright_sandbox", "batch"}
    /\ wf \in {"fetch", "execute", "persist", "done", "failed"}
    /\ lost <= Attempts \/ lost <= StoreAttempts
    /\ task \in [Tests -> {"waiting", "started", "done", "failed"}]
    /\ attempt \in [Tests -> 1 .. Attempts]
    /\ code \in [Attempt -> {"none", "context", "post", "sent", "poll", "ended"}]
    /\ result \in [Tests -> Result \cup {NoResult}]
    /\ copies \in [Tests -> 0 .. 1]
    /\ late \in 0 .. StoreAttempts
    /\ forgotten \subseteq Expirable

\* The result of a test is the end of the run that the awaited attempt
\* submitted: never a status that may still change, and never the end of a
\* run that an attempt given up has left behind.  Only a run whose hash has
\* expired is reported as an "error" without having failed, and only a cancel
\* accepted before that goes missing.
ResultEarned ==
    mode = "playwright_sandbox" =>
        \A i \in Tests :
            LET r == <<i, attempt[i]>> IN
            /\ result[i] = "reported" =>
                   \/ phase[r] = "completed"
                   \/ r \in forgotten /\ asked[r] /\ phase[r] = "canceled"
            /\ result[i] = "error"    => phase[r] = "failed" \/ r \in forgotten
            /\ result[i] = "canceled" => phase[r] = "canceled"
            /\ result[i] = "quota"    => phase[r] = "refused"

\* Alone, with a cap within the quota, a workflow is refused no run as long as
\* no attempt of it fails and no hash of its runs expires: a permit comes back
\* after the run's slot has.
AloneIsNeverRefused ==
    /\ Cap <= MaxConcurrent
    /\ Cardinality(Attempt) <= MaxDaily
    /\ \A i \in Tests : attempt[i] = 1 /\ task[i] # "failed"
    /\ forgotten = {}
    => \A r \in Runs : phase[r] # "refused"

\* Retried and late bulk creates leave one artefact per test, all or none, and
\* a workflow that ends well has stored them all, each with a result.
StoredOnce ==
    /\ \A i, j \in Tests : copies[i] = copies[j] /\ copies[i] <= 1
    /\ wf = "done" => \A i \in Tests : copies[i] = 1 /\ result[i] # NoResult

\* The workflow ends, whatever becomes of the runs it submitted.
WorkflowEnds == <>(wf \in {"done", "failed"})

=============================================================================
