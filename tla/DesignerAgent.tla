---------------------------- MODULE DesignerAgent ----------------------------
(***************************************************************************)
(* DesignTestsWorkflow (agent-workers/src/workflow.py): store the          *)
(* requirement, have the designer agent write test cases, store them.  The *)
(* agent is the LangGraph graph of agent.py,                               *)
(*                                                                         *)
(*   fetch_context -> policy_check -> generate -> validate -> critique     *)
(*                                       ^-----------'----------'          *)
(*                                                                         *)
(* run anew by each attempt of its activity.  The code of an attempt that  *)
(* Temporal gave up has no effect but its model calls, and is left out.    *)
(*                                                                         *)
(* Two of the graph's routing functions assign to the state they read.     *)
(* Whether the assignment reaches the next node is LangGraph's affair      *)
(* (0.2.50 hands them a copy): "kept" says so, and may be either.          *)
(***************************************************************************)
EXTENDS WorkflowStep, RagService

CONSTANTS
    RecursionLimit,    \* nodes a graph may run, 25 unless configured
    DesignAttempts,    \* maximum_attempts of run_test_designer_activity
    StoreAttempts      \* maximum_attempts of the two creates

ASSUME DesignerAssumption ==
    /\ RecursionLimit \in Nat \ {0}
    /\ DesignAttempts \in Nat \ {0}
    /\ StoreAttempts \in Nat \ {0}

Criticality == {"low", "medium", "high", "safety_critical"}
Critical    == {"high", "safety_critical"}

\* A draft is known by the model call that wrote it: 0 stands for no cases.
Drafts == 0 .. RecursionLimit

VARIABLES
    criticality,   \* of the requirement
    cloudKey,      \* is there a key for the cloud models?
    kept,          \* do the assignments of routing functions last?
    node,          \* the node that runs next, "off" or "end"
    ran,           \* nodes this graph has run
    state,         \* the DesignerState of this graph
    calls,         \* model calls of generate in this graph
    good,          \* the drafts of this graph that have the right shape
    author,        \* the model that wrote each
    reviewed,      \* the drafts the critic has answered on
    searched,      \* the searches this graph has had answered, of two
    retrieved,     \* the ids of the chunks they answered with
    out,           \* what the activity returned to the workflow
    stored         \* the test cases stored for the workflow

inputs    == <<criticality, cloudKey, kept>>
graphVars == <<node, ran, state, calls, good, author, reviewed>>
context   == <<searched, retrieved, ragVars>>
vars      == <<wf, lost, inputs, graphVars, context, out, stored>>

Blank == [attempts |-> 0, errors |-> FALSE, draft |-> 0, findings |-> FALSE,
          final |-> 0, cloud |-> FALSE, model |-> "unknown", skipped |-> "none"]

NoCases == [cases |-> 0, model |-> "unknown", skipped |-> "none", ids |-> {}]

\* A graph before its first node, or after the attempt that ran it has failed.
Reset ==
    /\ ran' = 0
    /\ state' = Blank
    /\ calls' = 0
    /\ good' = {}
    /\ author' = [d \in Drafts |-> "unknown"]
    /\ reviewed' = {}
    /\ searched' = 0
    /\ retrieved' = {}
    /\ EndSearch

Init ==
    /\ wf = "requirement"
    /\ lost = 0
    /\ criticality \in Criticality
    /\ cloudKey \in BOOLEAN
    /\ kept \in BOOLEAN
    /\ node = "off"
    /\ ran = 0
    /\ state = Blank
    /\ calls = 0
    /\ good = {}
    /\ author = [d \in Drafts |-> "unknown"]
    /\ reviewed = {}
    /\ searched = 0
    /\ retrieved = {}
    /\ RagInit
    /\ out = NoCases
    /\ stored = 0

-----------------------------------------------------------------------------
(* The workflow                                                              *)

\* A failed attempt may have stored the artefact: its id makes that harmless.
CreateRequirement ==
    /\ \/ Succeeds("requirement", "design") /\ node' = "context"
       \/ Fails("requirement", StoreAttempts) /\ UNCHANGED node
    /\ UNCHANGED <<inputs, ran, state, calls, good, author, reviewed, context, out, stored>>

\* A call raised, a timeout fired, or the worker died: the next attempt runs a
\* new graph.
AttemptFails ==
    /\ Fails("design", DesignAttempts)
    /\ node' = IF wf' = "failed" THEN "off" ELSE "context"
    /\ Reset
    /\ UNCHANGED <<inputs, storeVars, out, stored>>

\* A failed attempt may have stored the cases, and then all of them.
Persist ==
    /\ \/ Succeeds("persist", "done") /\ stored' = out.cases
       \/ Fails("persist", StoreAttempts) /\ stored' \in {stored, out.cases}
    /\ UNCHANGED <<inputs, graphVars, context, out>>

-----------------------------------------------------------------------------
(* The graph                                                                 *)

\* Faulty variant for a mutation run: one node more than the limit.
RunsOnceMore(this, next) ==
    /\ wf = "design"
    /\ node = this
    /\ ran <= RecursionLimit
    /\ ran' = ran + 1
    /\ node' = next

\* The node runs, within the limit, and the graph goes on with the next one.
Runs(this, next) ==
    /\ wf = "design"
    /\ node = this
    /\ ran < RecursionLimit
    /\ ran' = ran + 1
    /\ node' = next

\* The two searches of fetch_context, one after the other; rag-service does
\* not look at the corpus they name.
Searching ==
    /\ wf = "design"
    /\ node = "context"
    /\ SearchVectors \/ SearchText
    /\ UNCHANGED <<wf, lost, inputs, graphVars, searched, retrieved, out, stored>>

FetchContext ==
    /\ search = "fuse"
    /\ retrieved' = retrieved \cup Hits
    /\ searched' = searched + 1
    /\ \/ searched' = 1 /\ wf = "design" /\ node = "context" /\ UNCHANGED <<node, ran>>
       \/ searched' = 2 /\ Runs("context", "policy")
    /\ EndSearch
    /\ UNCHANGED <<wf, lost, inputs, state, calls, good, author, reviewed, storeVars, out,
                   stored>>

\* A denial counts for the critical requirements only, and is not retried.
PolicyCheck ==
    /\ \/ Runs("policy", "generate") /\ UNCHANGED <<wf, lost>>
       \/ /\ criticality \in Critical
          /\ Runs("policy", "off")
          /\ FailsAtOnce("design")
    /\ UNCHANGED <<inputs, state, calls, good, author, reviewed, context, out, stored>>

\* One call of the model: no JSON, or cases that have the shape or have not.
\* Without a key the gateway refuses chat-prod, and the attempt fails.
Generate ==
    LET n == calls + 1
        model == IF state.cloud THEN "chat-prod" ELSE "chat-dev"
    IN
    /\ model = "chat-prod" => cloudKey
    /\ Runs("generate", "validate")
    /\ calls' = n
    /\ author' = [author EXCEPT ![n] = model]
    /\ \/ /\ state' = [state EXCEPT !.draft = 0, !.errors = TRUE, !.model = model,
                                    !.attempts = @ + 1]
          /\ UNCHANGED good
       \/ /\ state' = [state EXCEPT !.draft = n, !.errors = FALSE, !.model = model]
          /\ good' \in {good, good \cup {n}}
    /\ UNCHANGED <<wf, lost, inputs, reviewed, context, out, stored>>

\* Faulty variant: errors are not looked at once the final
\* attempt is spent.
ValidateLenient ==
    LET bad == state.errors \/ state.draft \notin good
        tried == state.attempts + 1
    IN
    /\ state' = [state EXCEPT !.errors = bad /\ tried < 3, !.attempts = tried,
                              !.cloud = @ \/ (bad /\ tried = 2 /\ kept)]
    /\ \/ bad /\ tried < 3 /\ Runs("validate", "generate")
       \/ ~(bad /\ tried < 3) /\ criticality \in Critical /\ Runs("validate", "critique")
       \/ ~(bad /\ tried < 3) /\ criticality \notin Critical /\ Runs("validate", "end")
    /\ UNCHANGED <<wf, lost, inputs, calls, good, author, reviewed, context, out,
                   stored>>

\* Faulty variant: what the cloud model wrote goes without a review.
ValidateTrusting ==
    LET bad == state.errors \/ state.draft \notin good
        tried == state.attempts + 1
        review == criticality \in Critical /\ ~state.cloud
    IN
    /\ state' = [state EXCEPT !.errors = bad, !.attempts = tried,
                              !.cloud = @ \/ (bad /\ tried = 2 /\ kept)]
    /\ \/ bad /\ tried >= 3 /\ Runs("validate", "end")
       \/ bad /\ tried < 3 /\ Runs("validate", "generate")
       \/ ~bad /\ review /\ Runs("validate", "critique")
       \/ ~bad /\ ~review /\ Runs("validate", "end")
    /\ UNCHANGED <<wf, lost, inputs, calls, good, author, reviewed, context, out,
                   stored>>

\* Faulty variant: one attempt more.
ValidateOnceMore ==
    LET bad == state.errors \/ state.draft \notin good
        tried == state.attempts + 1
    IN
    /\ state' = [state EXCEPT !.errors = bad, !.attempts = tried,
                              !.cloud = @ \/ (bad /\ tried = 2 /\ kept)]
    /\ \/ bad /\ tried > 3 /\ Runs("validate", "end")
       \/ bad /\ tried <= 3 /\ Runs("validate", "generate")
       \/ ~bad /\ criticality \in Critical /\ Runs("validate", "critique")
       \/ ~bad /\ criticality \notin Critical /\ Runs("validate", "end")
    /\ UNCHANGED <<wf, lost, inputs, calls, good, author, reviewed, context, out,
                   stored>>

\* The shape of the cases, then _validate_decision on the new state.
Validate ==
    LET bad == state.errors \/ state.draft \notin good
        tried == state.attempts + 1
    IN
    /\ state' = [state EXCEPT !.errors = bad, !.attempts = tried,
                              !.cloud = @ \/ (bad /\ tried = 2 /\ kept)]
    /\ \/ bad /\ tried >= 3 /\ Runs("validate", "end")
       \/ bad /\ tried < 3 /\ Runs("validate", "generate")
       \/ ~bad /\ criticality \in Critical /\ Runs("validate", "critique")
       \/ ~bad /\ criticality \notin Critical /\ Runs("validate", "end")
    /\ UNCHANGED <<wf, lost, inputs, calls, good, author, reviewed, context, out,
                   stored>>

\* What critique_cases says: an answer of the critic, or why there is none.
Review ==
    IF cloudKey
    THEN [findings : BOOLEAN, skipped : {"none"}]
         \cup {[findings |-> FALSE, skipped |-> "critic_error"]}
    ELSE {[findings |-> FALSE, skipped |-> "no_cloud_key"]}

\* The review, then _critique_decision.
Critique ==
    \E review \in Review :
        LET again == review.findings /\ ~state.cloud IN
        /\ state' = [state EXCEPT !.findings = review.findings,
                                  !.skipped = review.skipped, !.final = state.draft,
                                  !.cloud = @ \/ (again /\ kept)]
        /\ reviewed' = IF review.skipped = "none" THEN reviewed \cup {state.draft}
                       ELSE reviewed
        /\ Runs("critique", IF again THEN "generate" ELSE "end")
        /\ UNCHANGED <<wf, lost, inputs, calls, good, author, context, out, stored>>

\* Faulty variant: cases that were final once are returned after all.
FinalizeAnyFinal ==
    /\ wf = "design"
    /\ node = "end"
    /\ node' = "off"
    /\ \/ /\ state.errors /\ state.attempts >= 3 /\ state.final = 0
          /\ FailsAtOnce("design")
          /\ UNCHANGED out
       \/ /\ ~(state.errors /\ state.attempts >= 3 /\ state.final = 0)
          /\ Succeeds("design", "persist")
          /\ out' = [cases |-> IF state.final # 0 THEN state.final ELSE state.draft,
                     model |-> state.model, skipped |-> state.skipped,
                     ids |-> retrieved]
    /\ UNCHANGED <<inputs, ran, state, calls, good, author, reviewed, context, stored>>

\* finalize_or_raise, and what the activity returns.
Finalize ==
    /\ wf = "design"
    /\ node = "end"
    /\ node' = "off"
    /\ \/ /\ state.errors /\ state.attempts >= 3
          /\ FailsAtOnce("design")
          /\ UNCHANGED out
       \/ /\ ~(state.errors /\ state.attempts >= 3)
          /\ Succeeds("design", "persist")
          /\ out' = [cases |-> IF state.final # 0 THEN state.final ELSE state.draft,
                     model |-> state.model, skipped |-> state.skipped,
                     ids |-> retrieved]
    /\ UNCHANGED <<inputs, ran, state, calls, good, author, reviewed, context, stored>>

\* The workers' start-ups and the handlers of their ingests.
Seeding ==
    /\ Ingesting
    /\ UNCHANGED <<wf, lost, inputs, graphVars, searched, retrieved, out, stored>>

-----------------------------------------------------------------------------

Next ==
    \/ CreateRequirement \/ AttemptFails \/ Persist
    \/ Searching \/ FetchContext \/ PolicyCheck \/ Generate \/ Validate \/ Critique \/ Finalize
    \/ Seeding

Spec == Init /\ [][Next]_vars

-----------------------------------------------------------------------------
(* Properties                                                                *)

DesignerTypeOK ==
    /\ wf \in {"requirement", "design", "persist", "done", "failed"}
    /\ lost <= DesignAttempts \/ lost <= StoreAttempts
    /\ node \in {"off", "context", "policy", "generate", "validate", "critique", "end"}
    /\ ran \in 0 .. RecursionLimit
    /\ state \in [attempts : 0 .. 2 * RecursionLimit, errors : BOOLEAN, draft : Drafts,
                  findings : BOOLEAN, final : Drafts, cloud : BOOLEAN,
                  model : {"unknown", "chat-dev", "chat-prod"},
                  skipped : {"none", "no_cloud_key", "critic_error"}]
    /\ calls \in Drafts
    /\ good \subseteq 1 .. calls
    /\ reviewed \subseteq 1 .. calls
    /\ RagTypeOK
    /\ searched \in 0 .. 2
    /\ node \notin {"off", "context"} => searched = 2
    /\ out.cases \in Drafts
    /\ stored \in {0, out.cases}

\* Test cases are stored only if there are any and they passed the validation,
\* whichever retry or regeneration wrote them.
StoredAreValid == stored # 0 => stored \in good

\* The attestation names the model that wrote the cases that are stored with
\* it, although the graph may have called both models.
AttestedModelIsAuthor ==
    wf \in {"persist", "done"} => out.model = author[out.cases]

\* The chunks an attestation names are rows of rag-service, where an auditor
\* finds them, although ingests fail, are abandoned and go on beside the search.
AttestedTraceable == out.ids \cup retrieved \subseteq pg

\* Cases for a critical requirement were reviewed in the form in which they
\* are stored, or are stored with the reason why not.
ReviewedOrSaid ==
    criticality \in Critical /\ wf \in {"persist", "done"} =>
        out.cases \in reviewed \/ out.skipped # "none"

\* A graph calls the model at most three times, the attempts being counted
\* across the critic's regeneration, if what the routing functions assign
\* lasts; if not, only the limit on its nodes ends the critic's loop.
CallsBounded ==
    IF kept THEN calls <= 3 ELSE 3 * calls <= RecursionLimit + 2

=============================================================================
