--------------------------- MODULE DesignerProofs ---------------------------
(***************************************************************************)
(* Proofs about DesignerAgent and the RAG service it searches, for every   *)
(* limit of attempts and nodes, every number of seeding workers and every  *)
(* corpus.                                                                 *)
(*                                                                         *)
(* The argument: a chunk reaches OpenSearch only from a handler that has   *)
(* committed its rows (RagInv of RagProofs), so whatever a search answers  *)
(* is a row, in the order the lemmas about fusion say of two rankings; and *)
(* at each node of the graph the draft, its author, the attempts and the   *)
(* nodes run are related as GraphInv says.                                 *)
(***************************************************************************)
EXTENDS DesignerAgent, RagProofs

Models  == {"unknown", "chat-dev", "chat-prod"}
Skipped == {"none", "no_cloud_key", "critic_error"}
Nodes   == {"off", "context", "policy", "generate", "validate", "critique", "end"}

-----------------------------------------------------------------------------
(* The workflow and the graph                                                *)

\* No step has used up its attempts, unless the workflow has failed.
WfInv ==
    /\ wf \in {"requirement", "design", "persist", "done", "failed"}
    /\ lost \in Nat
    /\ wf \in {"requirement", "persist"} => lost < StoreAttempts
    /\ wf = "design" => lost < DesignAttempts
    /\ lost <= DesignAttempts \/ lost <= StoreAttempts

States == [attempts : Nat, errors : BOOLEAN, draft : Nat, findings : BOOLEAN,
           final : Nat, cloud : BOOLEAN, model : Models, skipped : Skipped]

GraphType ==
    /\ criticality \in Criticality /\ cloudKey \in BOOLEAN /\ kept \in BOOLEAN
    /\ node \in Nodes
    /\ ran \in 0 .. RecursionLimit
    /\ state \in States
    /\ state.attempts <= ran
    /\ state.draft <= calls /\ state.final <= calls
    /\ calls \in 0 .. ran
    /\ 3 * calls <= ran + 2
    /\ good \subseteq 1 .. calls
    /\ reviewed \subseteq 1 .. calls
    /\ author \in [Drafts -> Models]

\* The nodes it took to get here: three to a model call, but for the first two
\* attempts, whose cases may go back to the model without a review.
Pace(n) == ran + Lesser(state.attempts, 2) >= 3 * calls + n

AtStart == ran = 0 /\ state = Blank /\ calls = 0

AtGenerate ==
    /\ Pace(2)
    /\ kept => /\ calls <= state.attempts /\ calls <= 2
               /\ state.attempts >= 2 => state.cloud

AtValidate ==
    /\ Pace(0)
    /\ calls >= 1
    /\ state.draft \in {0, calls}
    /\ state.model = author[calls]
    /\ kept => /\ calls <= state.attempts + 1
               /\ state.attempts >= 2 /\ ~state.errors => state.cloud

AtCritique ==
    /\ Pace(1)
    /\ criticality \in Critical
    /\ ~state.errors
    /\ state.draft \in good
    /\ state.model = author[state.draft]
    /\ kept => /\ calls <= state.attempts
               /\ state.attempts >= 3 => state.cloud

\* The cases may be returned: they are valid, of the model named, and reviewed
\* or excused.
Returnable(draft, model, skipped) ==
    /\ draft \in good
    /\ model = author[draft]
    /\ criticality \in Critical => draft \in reviewed \/ skipped # "none"

AtEnd ==
    \/ state.errors /\ state.attempts >= 3
    \/ /\ state.final \in {0, state.draft}
       /\ Returnable(state.draft, state.model, state.skipped)

NodeInv ==
    /\ wf = "requirement" => node = "off"
    /\ wf = "requirement" \/ node = "context" => AtStart
    /\ node = "policy" => ran = 1 /\ state = Blank /\ calls = 0
    /\ node = "generate" => AtGenerate
    /\ node = "validate" => AtValidate
    /\ node = "critique" => AtCritique
    /\ node = "end" => AtEnd
    /\ criticality \notin Critical => state.final = 0
    /\ kept => calls <= 3

ContextInv ==
    /\ searched \in 0 .. 2
    /\ node \notin {"off", "context"} => searched = 2
    /\ retrieved \subseteq pg

OutInv ==
    /\ out.cases \in Drafts
    /\ stored \in {0, out.cases}
    /\ wf \in {"requirement", "design"} => stored = 0
    /\ wf \in {"persist", "done"} \/ stored # 0 =>
           Returnable(out.cases, out.model, out.skipped)
    /\ out.ids \subseteq pg

GraphInv == WfInv /\ GraphType /\ NodeInv

Inv == RagInv /\ GraphInv /\ ContextInv /\ OutInv

LEMMA Initially == Init => Inv
<1> SUFFICES ASSUME Init PROVE Inv
    OBVIOUS
<1> USE DesignerAssumption
<1>1. RagInv
    BY RagInitial DEF Init
<1>2. WfInv
    BY DEF Init, WfInv
<1>3. GraphType
    BY DEF Init, GraphType, States, Blank, Models, Skipped, Nodes, Drafts
<1>4. NodeInv
    BY DEF Init, NodeInv, AtStart, Blank
<1>5. ContextInv
    BY DEF Init, ContextInv
<1>6. OutInv
    BY DEF Init, OutInv, NoCases, Drafts
<1> QED
    BY <1>1, <1>2, <1>3, <1>4, <1>5, <1>6 DEF Inv, GraphInv

-----------------------------------------------------------------------------
(* Each step keeps the invariant                                             *)

LEMMA CreateRequirementKeeps == Inv /\ CreateRequirement => Inv'
<1> SUFFICES ASSUME Inv, CreateRequirement PROVE Inv'
    OBVIOUS
<1> USE DesignerAssumption DEF CreateRequirement, Inv, GraphInv
<1>1. RagInv' /\ pg' = pg
    BY RagStutters DEF context
<1>2. WfInv'
    BY DEF WfInv, Succeeds, Fails
<1>3. GraphType'
    BY DEF GraphType, inputs, Nodes
<1>4. NodeInv'
    BY DEF NodeInv, Succeeds, Fails, inputs, AtStart
<1>5. ContextInv'
    BY <1>1 DEF ContextInv, context
<1>6. OutInv'
    BY <1>1 DEF OutInv, Returnable, Succeeds, Fails, inputs
<1> QED
    BY <1>1, <1>2, <1>3, <1>4, <1>5, <1>6

LEMMA AttemptFailsKeeps == Inv /\ AttemptFails => Inv'
<1> SUFFICES ASSUME Inv, AttemptFails PROVE Inv'
    OBVIOUS
<1> USE DesignerAssumption DEF AttemptFails, Reset, Inv, GraphInv
<1>1. RagInv' /\ pg' = pg
    BY EndSearchKeeps
<1>2. WfInv'
    BY DEF WfInv, Fails
<1>3. GraphType'
    BY DEF GraphType, inputs, Nodes, States, Blank, Models, Skipped, Drafts
<1>4. NodeInv'
    BY DEF NodeInv, Fails, inputs, AtStart, Blank
<1>5. ContextInv'
    BY <1>1 DEF ContextInv
<1>6. OutInv'
    BY <1>1 DEF OutInv, Fails
<1> QED
    BY <1>1, <1>2, <1>3, <1>4, <1>5, <1>6

LEMMA PersistKeeps == Inv /\ Persist => Inv'
<1> SUFFICES ASSUME Inv, Persist PROVE Inv'
    OBVIOUS
<1> USE DesignerAssumption DEF Persist, Inv, GraphInv
<1>1. RagInv' /\ pg' = pg
    BY RagStutters DEF context
<1>2. WfInv'
    BY DEF WfInv, Succeeds, Fails
<1>3. GraphType'
    BY DEF GraphType, inputs, graphVars
<1>4. NodeInv'
    BY DEF NodeInv, Succeeds, Fails, inputs, graphVars, AtStart, AtGenerate, AtValidate,
           AtCritique, AtEnd, Returnable, Pace
<1>5. ContextInv'
    BY <1>1 DEF ContextInv, context, graphVars
<1>6. OutInv'
    BY <1>1 DEF OutInv, Returnable, Succeeds, Fails, inputs, graphVars
<1> QED
    BY <1>1, <1>2, <1>3, <1>4, <1>5, <1>6

\* What leaves the graph alone leaves its invariant alone.
LEMMA GraphStutters ==
    ASSUME GraphInv, UNCHANGED <<wf, lost, inputs, graphVars>>
    PROVE  GraphInv'
<1> USE DEF GraphInv, inputs, graphVars
<1>1. WfInv'
    BY DEF WfInv
<1>2. GraphType'
    BY DEF GraphType
<1>3. NodeInv'
    BY DEF NodeInv, AtStart, AtGenerate, AtValidate, AtCritique, AtEnd, Returnable, Pace
<1> QED
    BY <1>1, <1>2, <1>3

LEMMA PaceKept ==
    ASSUME NEW c \in Nat, NEW r \in Nat, NEW s \in Nat, 3 * c <= r + 2, r <= s
    PROVE  3 * c <= s + 2
OBVIOUS

\* A node that leaves the draft alone leaves the types alone.
LEMMA TypeStutters ==
    ASSUME GraphType, node' \in Nodes, ran' \in 0 .. RecursionLimit, ran <= ran',
           UNCHANGED <<inputs, state, calls, good, author, reviewed>>
    PROVE  GraphType'
<1>1. ran \in Nat /\ ran' \in Nat /\ calls \in Nat /\ state.attempts \in Nat
    BY DesignerAssumption DEF GraphType, States
<1>2. state.attempts <= ran /\ calls <= ran /\ 3 * calls <= ran + 2
    BY <1>1 DEF GraphType
<1>3. state.attempts <= ran' /\ calls \in 0 .. ran'
    BY <1>1, <1>2
<1>4. 3 * calls <= ran' + 2
    BY <1>1, <1>2, PaceKept
<1> QED
    BY <1>3, <1>4 DEF GraphType, inputs

LEMMA OutStutters ==
    ASSUME OutInv, UNCHANGED <<wf, out, stored, inputs, good, author, reviewed>>,
           pg \subseteq pg'
    PROVE  OutInv'
BY DEF OutInv, Returnable, inputs

LEMMA SearchingKeeps == Inv /\ (Searching \/ Seeding) => Inv'
<1> SUFFICES ASSUME Inv, Searching \/ Seeding PROVE Inv'
    OBVIOUS
<1>1. /\ RagInv' /\ pg \subseteq pg'
      /\ UNCHANGED <<wf, lost, inputs, graphVars, searched, retrieved, out, stored>>
    BY SearchKeeps, IngestingKeeps DEF Inv, Searching, Seeding
<1>2. GraphInv'
    BY <1>1, GraphStutters DEF Inv
<1>3. ContextInv'
    BY <1>1 DEF Inv, ContextInv, graphVars
<1>4. OutInv'
    BY <1>1, OutStutters DEF Inv, graphVars
<1> QED
    BY <1>1, <1>2, <1>3, <1>4 DEF Inv

LEMMA FetchContextKeeps == Inv /\ FetchContext => Inv'
<1> SUFFICES ASSUME Inv, FetchContext PROVE Inv'
    OBVIOUS
<1> USE DesignerAssumption DEF FetchContext, Runs, Inv, GraphInv
<1>1. RagInv' /\ pg' = pg
    BY EndSearchKeeps
<1>2. WfInv'
    BY DEF WfInv
<1>3. GraphType'
    BY TypeStutters DEF GraphType, Nodes
<1>4. NodeInv'
    BY DEF NodeInv, inputs, AtStart, GraphType
<1>5. ContextInv'
    BY <1>1, HitsAreRows DEF ContextInv
<1>6. OutInv'
    BY <1>1, OutStutters
<1> QED
    BY <1>1, <1>2, <1>3, <1>4, <1>5, <1>6


LEMMA PolicyCheckKeeps == Inv /\ PolicyCheck => Inv'
<1> SUFFICES ASSUME Inv, PolicyCheck PROVE Inv'
    OBVIOUS
<1> USE DesignerAssumption DEF PolicyCheck, Runs, FailsAtOnce, Inv, GraphInv
<1>1. RagInv' /\ pg' = pg
    BY RagStutters DEF context
<1>2. WfInv'
    BY DEF WfInv
<1>3. GraphType'
    BY TypeStutters DEF GraphType, Nodes
<1>4. NodeInv'
  <2>1. ran' = 2 /\ state' = Blank /\ calls' = 0
      BY DEF NodeInv
  <2>2. AtGenerate'
      BY <2>1 DEF AtGenerate, Pace, Blank, Lesser
  <2> QED
      BY <2>1, <2>2 DEF NodeInv, inputs, Blank, GraphType
<1>5. ContextInv'
    BY <1>1 DEF ContextInv, context
<1>6. OutInv'
    BY <1>1 DEF OutInv, context
<1> QED
    BY <1>1, <1>2, <1>3, <1>4, <1>5, <1>6

LEMMA GenerateKeeps == Inv /\ Generate => Inv'
<1> SUFFICES ASSUME Inv, Generate PROVE Inv'
    OBVIOUS
<1> DEFINE n == calls + 1
           model == IF state.cloud THEN "chat-prod" ELSE "chat-dev"
           fresh == [state EXCEPT !.draft = n, !.errors = FALSE, !.model = model]
           none == [state EXCEPT !.draft = 0, !.errors = TRUE, !.model = model,
                                 !.attempts = @ + 1]
<1> USE DesignerAssumption
<1>1. RagInv' /\ pg' = pg
    BY RagStutters DEF Inv, Generate, context
<1>2. WfInv'
    BY DEF Inv, GraphInv, Generate, WfInv
<1>3. /\ wf = "design" /\ node = "generate" /\ node' = "validate"
      /\ ran < RecursionLimit /\ ran' = ran + 1
      /\ calls' = n
      /\ author' = [author EXCEPT ![n] = model]
      /\ state' \in {fresh, none}
      /\ good' \in {good, good \cup {n}}
      /\ UNCHANGED <<inputs, reviewed, context, out, stored>>
    BY DEF Generate, Runs
<1>4. GraphType /\ AtGenerate /\ NodeInv
    BY <1>3 DEF Inv, GraphInv, NodeInv
<1>5. n \in 1 .. ran' /\ n \in Drafts /\ 3 * n <= ran' + 2
    BY <1>3, <1>4 DEF GraphType, AtGenerate, Pace, Lesser, Drafts, States
<1>6. /\ state' \in States
      /\ state'.attempts \in {state.attempts, state.attempts + 1}
      /\ state'.draft \in {0, n} /\ state'.final = state.final
      /\ state'.model = model
      /\ state'.cloud = state.cloud
      /\ ~state'.errors => state'.attempts = state.attempts
  <2>1. state \in States /\ n \in Nat /\ model \in Models /\ state.attempts + 1 \in Nat
      BY <1>4 DEF GraphType, Models, States
  <2>2. CASE state' = fresh
    <3> HIDE DEF n, model
    <3> QED
        BY <2>1, <2>2 DEF States
  <2>3. CASE state' = none
    <3> HIDE DEF n, model
    <3> QED
        BY <2>1, <2>3 DEF States
  <2> QED
      BY <1>3, <2>2, <2>3
<1>7. author' \in [Drafts -> Models] /\ author'[n] = model
    BY <1>3, <1>4, <1>5 DEF GraphType, Models
<1>8. good' \subseteq 1 .. n /\ reviewed' \subseteq 1 .. n
    BY <1>3, <1>4 DEF GraphType
<1>9. GraphType'
    BY <1>3, <1>4, <1>5, <1>6, <1>7, <1>8 DEF GraphType, inputs, Nodes, States
<1>10. AtValidate'
  <2>1. Pace(0)'
      BY <1>3, <1>4, <1>6 DEF GraphType, AtGenerate, Pace, Lesser, States
  <2>2. kept' => /\ calls' <= state'.attempts + 1
                 /\ state'.attempts >= 2 /\ ~state'.errors => state'.cloud
      BY <1>3, <1>4, <1>6 DEF GraphType, AtGenerate, States, inputs
  <2> QED
      BY <1>3, <1>5, <1>6, <1>7, <2>1, <2>2 DEF AtValidate
<1>11. NodeInv'
  <2>1. kept' => calls' <= 3
      BY <1>3, <1>4 DEF AtGenerate, GraphType, inputs
  <2>2. criticality' \notin Critical => state'.final = 0
      BY <1>3, <1>4, <1>6 DEF NodeInv, inputs
  <2> QED
      BY <1>2, <1>3, <1>10, <2>1, <2>2 DEF NodeInv, Generate
<1>12. ContextInv'
    BY <1>1, <1>3 DEF Inv, ContextInv, context
<1>13. OutInv'
    BY <1>1, <1>3 DEF Inv, OutInv, Generate
<1> QED
    BY <1>1, <1>2, <1>9, <1>11, <1>12, <1>13 DEF Inv, GraphInv

LEMMA ValidateKeeps == Inv /\ Validate => Inv'
<1> SUFFICES ASSUME Inv, Validate PROVE Inv'
    OBVIOUS
<1> DEFINE bad == state.errors \/ state.draft \notin good
           tried == state.attempts + 1
           cloud == state.cloud \/ (bad /\ tried = 2 /\ kept)
<1> USE DesignerAssumption
<1>1. RagInv' /\ pg' = pg
    BY RagStutters DEF Inv, Validate, context
<1>2. WfInv'
    BY DEF Inv, GraphInv, Validate, WfInv
<1>3. /\ wf = "design" /\ node = "validate"
      /\ ran < RecursionLimit /\ ran' = ran + 1
      /\ state' = [state EXCEPT !.errors = bad, !.attempts = tried, !.cloud = cloud]
      /\ UNCHANGED <<wf, inputs, calls, good, author, reviewed, context, out, stored>>
    BY DEF Validate, Runs
<1>4. \/ bad /\ tried >= 3 /\ node' = "end"
      \/ bad /\ tried < 3 /\ node' = "generate"
      \/ ~bad /\ criticality \in Critical /\ node' = "critique"
      \/ ~bad /\ criticality \notin Critical /\ node' = "end"
    BY DEF Validate, Runs
<1>5. GraphType /\ AtValidate /\ NodeInv
    BY <1>3 DEF Inv, GraphInv, NodeInv
<1>6. /\ state' \in States
      /\ state'.errors = bad /\ state'.attempts = tried /\ state'.cloud = cloud
      /\ state'.draft = state.draft /\ state'.final = state.final
      /\ state'.model = state.model /\ state'.skipped = state.skipped
  <2>1. state \in States /\ bad \in BOOLEAN /\ tried \in Nat /\ cloud \in BOOLEAN
      BY <1>5 DEF GraphType, States
  <2> HIDE DEF bad, tried, cloud
  <2> QED
      BY <1>3, <2>1 DEF States
<1>7. GraphType'
  <2>1. node' \in Nodes /\ state'.attempts <= ran'
      BY <1>3, <1>4, <1>5, <1>6 DEF Nodes, GraphType, States
  <2> QED
      BY <1>3, <1>5, <1>6, <2>1 DEF GraphType, inputs, States
<1>8. NodeInv'
  <2>1. node' = "generate" => AtGenerate'
    <3> SUFFICES ASSUME node' = "generate" PROVE AtGenerate'
        OBVIOUS
    <3>1. bad /\ tried < 3 /\ state.attempts \in Nat /\ kept \in BOOLEAN
        BY <1>4, <1>5 DEF GraphType, States
    <3>2. Pace(2)'
        BY <1>3, <1>5, <1>6, <3>1 DEF AtValidate, Pace, Lesser, GraphType
    <3>3. kept => calls <= tried /\ calls <= 2 /\ (tried >= 2 => cloud)
        BY <1>5, <3>1 DEF AtValidate, GraphType
    <3> QED
        BY <1>3, <1>6, <3>2, <3>3 DEF AtGenerate, inputs
  <2>2. node' = "critique" => AtCritique'
    <3> SUFFICES ASSUME node' = "critique" PROVE AtCritique'
        OBVIOUS
    <3>1. ~bad /\ criticality \in Critical /\ state.attempts \in Nat
        BY <1>4, <1>5 DEF GraphType, States
    <3>2. Pace(1)'
        BY <1>3, <1>5, <1>6, <3>1 DEF AtValidate, Pace, Lesser, GraphType
    <3>3. kept => calls <= tried /\ (tried >= 3 => cloud)
        BY <1>5, <3>1 DEF AtValidate, GraphType
    <3>4. state.draft \in good /\ state.model = author[state.draft]
        BY <1>5, <3>1 DEF AtValidate, GraphType
    <3>5. /\ state'.draft \in good' /\ state'.model = author'[state'.draft]
        BY <1>3, <1>6, <3>4
    <3>7. ~state'.errors /\ criticality' \in Critical
        BY <1>3, <1>6, <3>1 DEF inputs
    <3>6. kept' => /\ calls' <= state'.attempts
                   /\ state'.attempts >= 3 => state'.cloud
        BY <1>3, <1>6, <3>3 DEF inputs
    <3> QED
        BY <3>2, <3>5, <3>6, <3>7 DEF AtCritique
  <2>3. node' = "end" => AtEnd'
    <3>1. CASE bad /\ tried >= 3
        BY <1>6, <3>1 DEF AtEnd
    <3>2. CASE ~bad /\ criticality \notin Critical
      <4>1. state.draft \in good /\ state.draft = calls /\ state.final = 0
          BY <1>5, <3>2 DEF AtValidate, GraphType, NodeInv
      <4> QED
          BY <1>3, <1>5, <1>6, <3>2, <4>1 DEF AtEnd, AtValidate, Returnable, inputs
    <3> QED
        BY <1>4, <3>1, <3>2
  <2> QED
      BY <1>3, <1>4, <1>5, <1>6, <2>1, <2>2, <2>3 DEF NodeInv, inputs
<1>9. ContextInv'
    BY <1>1, <1>3 DEF Inv, ContextInv, context
<1>10. OutInv'
    BY <1>1, <1>3, OutStutters DEF Inv
<1> QED
    BY <1>1, <1>2, <1>7, <1>8, <1>9, <1>10 DEF Inv, GraphInv

LEMMA ReviewType ==
    \A review \in Review : review.findings \in BOOLEAN /\ review.skipped \in Skipped
<1> SUFFICES ASSUME NEW review \in Review
             PROVE  review.findings \in BOOLEAN /\ review.skipped \in Skipped
    OBVIOUS
<1>1. CASE review \in [findings : BOOLEAN, skipped : {"none"}]
    BY <1>1 DEF Skipped
<1>2. \/ review \in [findings : BOOLEAN, skipped : {"none"}]
      \/ review = [findings |-> FALSE, skipped |-> "critic_error"]
      \/ review = [findings |-> FALSE, skipped |-> "no_cloud_key"]
    BY Zenon DEF Review
<1>3. CASE review = [findings |-> FALSE, skipped |-> "critic_error"]
    BY <1>3 DEF Skipped
<1>4. CASE review = [findings |-> FALSE, skipped |-> "no_cloud_key"]
    BY <1>4 DEF Skipped
<1> QED
    BY <1>1, <1>2, <1>3, <1>4

LEMMA CritiqueKeeps == Inv /\ Critique => Inv'
<1> SUFFICES ASSUME Inv, Critique PROVE Inv'
    OBVIOUS
<1> USE DesignerAssumption
<1>1. PICK review \in Review :
          LET again == review.findings /\ ~state.cloud IN
          /\ state' = [state EXCEPT !.findings = review.findings,
                                    !.skipped = review.skipped, !.final = state.draft,
                                    !.cloud = @ \/ (again /\ kept)]
          /\ reviewed' = IF review.skipped = "none" THEN reviewed \cup {state.draft}
                         ELSE reviewed
          /\ Runs("critique", IF again THEN "generate" ELSE "end")
          /\ UNCHANGED <<wf, lost, inputs, calls, good, author, context, out, stored>>
    BY DEF Critique
<1> DEFINE again == review.findings /\ ~state.cloud
<1>2. review.findings \in BOOLEAN /\ review.skipped \in Skipped
    BY ReviewType
<1>3. /\ wf = "design" /\ node = "critique"
      /\ ran < RecursionLimit /\ ran' = ran + 1
      /\ node' = IF again THEN "generate" ELSE "end"
    BY <1>1 DEF Runs
<1>4. GraphType /\ AtCritique /\ NodeInv
    BY <1>3 DEF Inv, GraphInv, NodeInv
<1>5. RagInv' /\ pg' = pg
    BY <1>1, RagStutters DEF Inv, context
<1>6. WfInv'
    BY <1>1 DEF Inv, GraphInv, WfInv
<1>7. /\ state' \in States
      /\ state'.errors = state.errors /\ state'.attempts = state.attempts
      /\ state'.cloud = (state.cloud \/ (again /\ kept))
      /\ state'.draft = state.draft /\ state'.final = state.draft
      /\ state'.model = state.model /\ state'.skipped = review.skipped
    BY <1>1, <1>2, <1>4 DEF GraphType, States
<1>8. /\ reviewed \subseteq reviewed' /\ reviewed' \subseteq 1 .. calls
      /\ state.draft \in reviewed' \/ review.skipped # "none"
    BY <1>1, <1>4 DEF GraphType, AtCritique
<1>9. GraphType'
    BY <1>1, <1>3, <1>4, <1>7, <1>8 DEF GraphType, inputs, States, Nodes
<1>10. NodeInv'
  <2>1. again => AtGenerate'
    <3> SUFFICES ASSUME again PROVE AtGenerate'
        OBVIOUS
    <3>1. Pace(2)'
        BY <1>1, <1>3, <1>4, <1>7 DEF AtCritique, Pace, Lesser, GraphType, States
    <3>2. kept => calls <= state.attempts /\ calls <= 2 /\ state'.cloud
        BY <1>4, <1>7 DEF AtCritique, GraphType, States
    <3> QED
        BY <1>1, <1>7, <3>1, <3>2 DEF AtGenerate, inputs
  <2>2. ~again => AtEnd'
      BY <1>1, <1>4, <1>7, <1>8 DEF AtEnd, AtCritique, Returnable, inputs
  <2> QED
      BY <1>1, <1>3, <1>4, <2>1, <2>2 DEF NodeInv, AtCritique, inputs
<1>11. ContextInv'
    BY <1>1, <1>3, <1>5 DEF Inv, ContextInv, context
<1>12. OutInv'
    BY <1>1, <1>3, <1>5 DEF Inv, OutInv
<1> QED
    BY <1>5, <1>6, <1>9, <1>10, <1>11, <1>12 DEF Inv, GraphInv

LEMMA FinalizeKeeps == Inv /\ Finalize => Inv'
<1> SUFFICES ASSUME Inv, Finalize PROVE Inv'
    OBVIOUS
<1> USE DesignerAssumption
<1>1. RagInv' /\ pg' = pg
    BY RagStutters DEF Inv, Finalize, context
<1>2. WfInv'
    BY DEF Inv, GraphInv, Finalize, FailsAtOnce, Succeeds, WfInv
<1>3. GraphType'
    BY TypeStutters DEF Inv, GraphInv, Finalize, GraphType, Nodes
<1>4. NodeInv'
    BY DEF Inv, GraphInv, Finalize, FailsAtOnce, Succeeds, NodeInv, inputs
<1>5. ContextInv'
    BY <1>1 DEF Inv, Finalize, ContextInv, context
<1>6. OutInv'
  <2>1. CASE state.errors /\ state.attempts >= 3
      BY <1>1, <2>1 DEF Inv, OutInv, Finalize, FailsAtOnce, Succeeds, Returnable, inputs
  <2>2. CASE ~(state.errors /\ state.attempts >= 3)
    <3>1. state.final \in {0, state.draft}
          /\ Returnable(state.draft, state.model, state.skipped)
        BY <2>2 DEF Inv, GraphInv, NodeInv, AtEnd, Finalize
    <3>2. out' = [cases |-> state.draft, model |-> state.model,
                  skipped |-> state.skipped, ids |-> retrieved]
        BY <2>2, <3>1 DEF Finalize
    <3>3. state.draft \in Drafts
      <4>1. /\ state.draft \in 1 .. calls /\ calls \in 0 .. ran
            /\ ran \in 0 .. RecursionLimit
          BY <3>1 DEF Returnable, Inv, GraphInv, GraphType
      <4> QED
          BY <4>1 DEF Drafts
    <3>4. stored' = 0
        BY DEF Finalize, Succeeds, FailsAtOnce, Inv, OutInv
    <3>5. Returnable(out.cases, out.model, out.skipped)'
        BY <3>1, <3>2 DEF Returnable, Finalize, inputs
    <3>6. out'.cases \in Drafts /\ out'.ids \subseteq pg'
        BY <1>1, <3>2, <3>3 DEF Inv, ContextInv
    <3> QED
        BY <3>4, <3>5, <3>6 DEF OutInv
  <2> QED
      BY <2>1, <2>2
<1> QED
    BY <1>1, <1>2, <1>3, <1>4, <1>5, <1>6 DEF Inv, GraphInv

LEMMA StutterKeeps == Inv /\ UNCHANGED vars => Inv'
<1> SUFFICES ASSUME Inv, UNCHANGED vars PROVE Inv'
    OBVIOUS
<1>1. RagInv' /\ pg' = pg
    BY RagStutters DEF Inv, vars, context
<1>2. GraphInv'
    BY GraphStutters DEF Inv, vars
<1>3. ContextInv'
    BY <1>1 DEF Inv, ContextInv, vars, context, graphVars
<1>4. OutInv'
    BY <1>1, OutStutters DEF Inv, vars, graphVars
<1> QED
    BY <1>1, <1>2, <1>3, <1>4 DEF Inv

LEMMA Inductive == Spec => []Inv
<1>1. Init => Inv
    BY Initially
<1>2. Inv /\ [Next]_vars => Inv'
    BY CreateRequirementKeeps, AttemptFailsKeeps, PersistKeeps, SearchingKeeps,
       FetchContextKeeps, PolicyCheckKeeps, GenerateKeeps, ValidateKeeps, CritiqueKeeps,
       FinalizeKeeps, StutterKeeps DEF Next
<1> QED
    BY <1>1, <1>2, PTL DEF Spec

-----------------------------------------------------------------------------
(* Theorems                                                                  *)

\* The state of the workflow, of the graph and of the two stores has its types.
THEOREM DesignerTypeCorrect == Spec => []DesignerTypeOK
<1>1. Inv => DesignerTypeOK
  <2> SUFFICES ASSUME Inv PROVE DesignerTypeOK
      OBVIOUS
  <2> USE DesignerAssumption
  <2>1. state \in [attempts : 0 .. 2 * RecursionLimit, errors : BOOLEAN, draft : Drafts,
                   findings : BOOLEAN, final : Drafts, cloud : BOOLEAN,
                   model : {"unknown", "chat-dev", "chat-prod"},
                   skipped : {"none", "no_cloud_key", "critic_error"}]
      BY DEF Inv, GraphInv, GraphType, States, Models, Skipped, Drafts
  <2>2. calls \in Drafts
      BY DEF Inv, GraphInv, GraphType, Drafts
  <2> QED
      BY <2>1, <2>2
         DEF Inv, GraphInv, WfInv, GraphType, Nodes, RagInv, ContextInv, OutInv, DesignerTypeOK
<1> QED
    BY <1>1, Inductive, PTL

\* What is stored has passed the validation of the graph that wrote it.
THEOREM ValidStored == Spec => []StoredAreValid
<1>1. Inv => StoredAreValid
    BY DEF Inv, OutInv, Returnable, StoredAreValid
<1> QED
    BY <1>1, Inductive, PTL

\* The model an attestation names wrote the cases it is stored with.
THEOREM ModelIsAuthor == Spec => []AttestedModelIsAuthor
<1>1. Inv => AttestedModelIsAuthor
    BY DEF Inv, OutInv, Returnable, AttestedModelIsAuthor
<1> QED
    BY <1>1, Inductive, PTL

\* The chunk ids of an attestation are rows, whatever the corpus, the number
\* of workers that seed it and the failures of their ingests.
THEOREM Traceable == Spec => []AttestedTraceable
<1>1. Inv => AttestedTraceable
    BY DEF Inv, ContextInv, OutInv, AttestedTraceable
<1> QED
    BY <1>1, Inductive, PTL

\* Whatever ingests do beside a search, what both stores found is answered
\* first, the nearest row is among the hits and no hit is missing: for every
\* corpus, every RrfK and every k up to one more.
THEOREM FusionHolds == Spec => []FusionSound
<1>1. Inv => FusionSound
    BY FusionFollows DEF Inv
<1> QED
    BY <1>1, Inductive, PTL

\* Cases for a critical requirement were reviewed as stored, or say why not.
THEOREM Reviewed == Spec => []ReviewedOrSaid
<1>1. Inv => ReviewedOrSaid
    BY DEF Inv, OutInv, Returnable, ReviewedOrSaid
<1> QED
    BY <1>1, Inductive, PTL

\* The model calls of a graph, for every limit on its nodes.
THEOREM CallsStayBounded == Spec => []CallsBounded
<1>1. Inv => CallsBounded
    BY DesignerAssumption DEF Inv, GraphInv, GraphType, NodeInv, CallsBounded
<1> QED
    BY <1>1, Inductive, PTL

=============================================================================
