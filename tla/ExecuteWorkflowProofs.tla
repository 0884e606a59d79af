----------------------- MODULE ExecuteWorkflowProofs -----------------------
(***************************************************************************)
(* Proofs about ExecuteWorkflow, for every number of tests, permits and    *)
(* attempts and every quota.                                               *)
(*                                                                         *)
(* The argument: the code of an attempt given up can no longer set a       *)
(* result (ResultInv), a bulk create that comes late is counted (StepInv), *)
(* and as long as no attempt has failed, the runs that hold slots are      *)
(* those of the tests that hold permits (CalmInv), so that they keep to    *)
(* the cap.  The batch activity answers once, with all results (BatchInv). *)
(* Every action moves a run as RunLifecycle allows, or not at all; what    *)
(* RunLifecycle promises by itself is proved at the end.                   *)
(***************************************************************************)
EXTENDS ExecuteWorkflow, FiniteSetTheorems, TLAPS

Phases == {"new", "refused", "admitted", "queued", "running"} \cup Over
Final  == {"refused"} \cup Over
Codes  == {"none", "context", "post", "sent", "poll", "ended"}

-----------------------------------------------------------------------------
(* Invariants                                                                *)

LifeType ==
    /\ phase \in [Runs -> Phases]
    /\ tenant \in [Runs -> Tenants \cup {NoTenant}]
    /\ day \in [Runs -> Days]
    /\ asked \in [Runs -> BOOLEAN]
    /\ \A r \in Runs : phase[r] = "new" => tenant[r] = NoTenant
    /\ forgotten \subseteq Expirable

CodeType ==
    /\ mode \in {"playwright_sandbox", "batch"}
    /\ task \in [Tests -> {"waiting", "started", "done", "failed"}]
    /\ attempt \in [Tests -> 1 .. Attempts]
    /\ code \in [Attempt -> Codes]
    /\ \A a \in Attempt : code[a] \in {"none", "context", "post"} => phase[a] = "new"
    /\ \A i \in Tests, k \in 1 .. Attempts : task[i] = "waiting" => code[<<i, k>>] = "none"

\* A step that is not over has attempts left, and has given up at most as many
\* bulk creates as attempts.
StepInv ==
    /\ wf \in {"fetch", "execute", "persist", "done", "failed"}
    /\ lost \in Nat
    /\ wf \in {"fetch", "persist"} => lost < StoreAttempts
    /\ wf = "execute" => lost < Attempts
    /\ lost <= Attempts \/ lost <= StoreAttempts
    /\ late \in 0 .. StoreAttempts
    /\ wf \in {"fetch", "execute"} => late = 0
    /\ wf = "persist" => late <= lost

CopiesInv ==
    /\ copies \in [Tests -> 0 .. 1]
    /\ \A i, j \in Tests : copies[i] = copies[j]
    /\ wf = "done" => \A i \in Tests : copies[i] = 1
    /\ wf \in {"persist", "done"} => \A i \in Tests : result[i] # NoResult

ResultInv ==
    /\ result \in [Tests -> Result \cup {NoResult}]
    /\ mode = "batch" => \A i \in Tests : task[i] = "waiting"
    /\ mode = "playwright_sandbox" =>
           /\ \A i \in Tests : result[i] # NoResult <=> task[i] = "done"
           /\ \A i \in Tests, k \in 1 .. Attempts :
                  task[i] = "done" /\ attempt[i] = k => result[i] \in Outcomes(<<i, k>>)

\* No attempt has failed so far.
Calm == \A i \in Tests : attempt[i] = 1 /\ task[i] # "failed"

CalmInv ==
    Calm =>
        /\ \A i \in Tests : \A k \in 1 .. Attempts : k # 1 => code[<<i, k>>] = "none"
        /\ \A i \in Tests :
               /\ task[i] = "started" => /\ wf = "execute"
                                         /\ code[<<i, 1>>] \notin {"none", "ended"}
               /\ task[i] = "done" => /\ code[<<i, 1>>] = "ended"
                                      /\ phase[<<i, 1>>] \in Final \/ <<i, 1>> \in forgotten

PermitInv == Cardinality(Holders) <= Cap

Inv == LifeType /\ CodeType /\ StepInv /\ CopiesInv /\ ResultInv /\ CalmInv /\ PermitInv

LEMMA Pairs ==
    /\ Runs = Attempt
    /\ \A a \in Attempt : a = <<a[1], a[2]>> /\ a[1] \in Tests /\ a[2] \in 1 .. Attempts
    /\ \A i \in Tests, k \in 1 .. Attempts : <<i, k>> \in Attempt
    /\ 1 \in 1 .. Attempts
BY WorkflowAssumption DEF Attempt

\* A run has an outcome once it is over, and the outcome tells how it ended.
LEMMA OutcomeOf ==
    ASSUME NEW a
    PROVE  /\ phase[a] \in Final <=> Outcome(a) # NoResult
           /\ phase[a] \in Final => Outcome(a) \in Result
           /\ Outcome(a) = "reported" => phase[a] = "completed"
           /\ Outcome(a) = "error"    => phase[a] = "failed"
           /\ Outcome(a) = "canceled" => phase[a] = "canceled"
           /\ Outcome(a) = "quota"    => phase[a] = "refused"
<1> USE ResultAssumption DEF Result, Final, Over
<1>1. CASE phase[a] = "refused"
  <2>1. Outcome(a) = "quota"
      BY <1>1 DEF Outcome
  <2> QED
      BY <1>1, <2>1
<1>2. CASE phase[a] = "completed"
  <2>1. Outcome(a) = "reported"
      BY <1>2 DEF Outcome
  <2> QED
      BY <1>2, <2>1
<1>3. CASE phase[a] = "failed"
  <2>1. Outcome(a) = "error"
      BY <1>3 DEF Outcome
  <2> QED
      BY <1>3, <2>1
<1>4. CASE phase[a] = "canceled"
  <2>1. Outcome(a) = "canceled"
      BY <1>4 DEF Outcome
  <2> QED
      BY <1>4, <2>1
<1>5. CASE phase[a] \notin Final
  <2>1. Outcome(a) = NoResult
      BY <1>5 DEF Outcome
  <2> QED
      BY <1>5, <2>1
<1> QED
    BY <1>1, <1>2, <1>3, <1>4, <1>5

\* What an attempt may return tells how its run ended, if its hash is there.
LEMMA OutcomesOf ==
    ASSUME NEW a, NEW x \in Outcomes(a)
    PROVE  /\ x \in Result
           /\ phase[a] \in Final \/ a \in forgotten
           /\ x = "reported" =>
                  \/ phase[a] = "completed"
                  \/ a \in forgotten /\ asked[a] /\ phase[a] = "canceled"
           /\ x = "error"    => phase[a] = "failed" \/ a \in forgotten
           /\ x = "canceled" => phase[a] = "canceled"
           /\ x = "quota"    => phase[a] = "refused"
<1>1. /\ x \in Result
      /\ \/ x = Outcome(a)
         \/ x = "error" /\ a \in forgotten
         \/ x = "reported" /\ a \in forgotten /\ asked[a] /\ phase[a] = "canceled"
    BY DEF Outcomes
<1>2. CASE x = Outcome(a)
    BY <1>1, <1>2, OutcomeOf, ResultAssumption
<1>3. CASE x # Outcome(a)
    BY <1>1, <1>3
<1> QED
    BY <1>2, <1>3

\* What an attempt may return it still may later: an end is final, and so are
\* the loss of a hash and an accepted cancel.
LEMMA OutcomesKept ==
    ASSUME NEW a, phase[a] \in Final => phase'[a] = phase[a],
           forgotten \subseteq forgotten', asked[a] => asked'[a]
    PROVE  \A x \in Outcomes(a) : x \in Outcomes(a)'
<1> SUFFICES ASSUME NEW x \in Outcomes(a)
             PROVE  x \in Outcomes(a)'
    OBVIOUS
<1>1. /\ x \in Result
      /\ \/ x = Outcome(a)
         \/ x = "error" /\ a \in forgotten
         \/ x = "reported" /\ a \in forgotten /\ asked[a] /\ phase[a] = "canceled"
    BY DEF Outcomes
<1>2. CASE x = Outcome(a)
  <2>1. phase'[a] = phase[a]
      BY <1>1, <1>2, OutcomeOf, ResultAssumption
  <2>2. Outcome(a)' = Outcome(a)
      BY <2>1 DEF Outcome
  <2> QED
      BY <1>1, <1>2, <2>2 DEF Outcomes
<1>3. CASE x # Outcome(a)
  <2>1. \/ x = "error" /\ a \in forgotten'
        \/ x = "reported" /\ a \in forgotten' /\ asked'[a] /\ phase'[a] = "canceled"
      BY <1>1, <1>3 DEF Final, Over
  <2> QED
      BY <1>1, <2>1 DEF Outcomes
<1> QED
    BY <1>2, <1>3

\* Steps that leave the runs alone leave what an attempt may return alone.
LEMMA OutcomesFrame ==
    ASSUME UNCHANGED runVars
    PROVE  \A j \in Tests, m \in 1 .. Attempts : Outcomes(<<j, m>>)' = Outcomes(<<j, m>>)
BY DEF Outcomes, Outcome, runVars, lifeVars

LEMMA HoldersFinite ==
    /\ IsFiniteSet(Holders) /\ IsFiniteSet(Holders')
    /\ Cardinality(Holders) \in Nat /\ Cardinality(Holders') \in Nat
<1>1. IsFiniteSet(Tests)
    BY WorkflowAssumption, FS_Interval DEF Tests
<1>2. Holders \subseteq Tests /\ Holders' \subseteq Tests
    BY DEF Holders
<1> QED
    BY <1>1, <1>2, FS_Subset, FS_CardinalityType

LEMMA Initially == Init => Inv
<1> SUFFICES ASSUME Init PROVE Inv
    OBVIOUS
<1> USE WorkflowAssumption, ResultAssumption
<1>1. LifeType
    BY DEF Init, LifeInit, LifeType, Phases
<1>2. CodeType
    BY Pairs DEF Init, LifeInit, CodeType, Codes
<1>3. StepInv
    BY DEF Init, StepInv
<1>4. CopiesInv /\ ResultInv
    BY DEF Init, CopiesInv, ResultInv
<1>5. CalmInv
    BY DEF Init, CalmInv, Attempt
<1>6. PermitInv
  <2>1. Holders = {}
      BY DEF Init, Holders
  <2> QED
      BY <2>1, FS_EmptySet DEF PermitInv
<1> QED
    BY <1>1, <1>2, <1>3, <1>4, <1>5, <1>6 DEF Inv

-----------------------------------------------------------------------------
(* The workflow's own steps leave the tests and the runs alone               *)

LEMMA FrameKeeps ==
    ASSUME Inv, UNCHANGED <<runVars, mode, task, attempt, code>>,
           Calm /\ wf = "execute" /\ wf' # "execute" => \A i \in Tests : task[i] # "started"
    PROVE  LifeType' /\ CodeType' /\ CalmInv' /\ PermitInv'
<1>1. LifeType'
    BY DEF Inv, LifeType, runVars, lifeVars
<1>2. CodeType'
    BY DEF Inv, CodeType, runVars, lifeVars
<1>3. CalmInv'
    BY DEF Inv, CalmInv, Calm, runVars, lifeVars
<1>4. PermitInv'
    BY DEF Inv, PermitInv, Holders
<1> QED
    BY <1>1, <1>2, <1>3, <1>4

LEMMA WorkflowKeeps ==
    ASSUME Inv, Fetch \/ Batch \/ Gathered \/ Persist \/ LateStore
    PROVE  Inv'
<1> USE WorkflowAssumption, ResultAssumption
<1>1. UNCHANGED <<runVars, mode, task, attempt, code>>
    BY DEF Fetch, Batch, Gathered, Persist, LateStore
<1>2. Calm /\ wf = "execute" /\ wf' # "execute" => \A i \in Tests : task[i] # "started"
  <2>1. CASE Batch
      BY <2>1 DEF Batch, Inv, ResultInv
  <2>2. CASE Gathered
      BY <2>2 DEF Gathered
  <2> QED
      BY <2>1, <2>2 DEF Fetch, Persist, LateStore, Succeeds, Fails
<1>3. LifeType' /\ CodeType' /\ CalmInv' /\ PermitInv'
    BY <1>1, <1>2, FrameKeeps
<1>4. StepInv' /\ CopiesInv' /\ ResultInv'
  <2>1. CASE Fetch
    <3>1. StepInv'
        BY <2>1 DEF Fetch, Succeeds, Fails, Inv, StepInv
    <3>2. CopiesInv'
        BY <2>1 DEF Fetch, Succeeds, Fails, Inv, StepInv, CopiesInv, Tests
    <3>3. ResultInv'
        BY <2>1, <1>1, OutcomesFrame DEF Fetch, Inv, ResultInv
    <3> QED
        BY <3>1, <3>2, <3>3
  <2>2. CASE Batch
    <3>1. StepInv'
        BY <2>2 DEF Batch, Succeeds, Fails, Inv, StepInv
    <3>2. CopiesInv'
        BY <2>2 DEF Batch, Succeeds, Fails, Inv, StepInv, CopiesInv, Answers, Result
    <3>3. ResultInv'
        BY <2>2 DEF Batch, Inv, ResultInv, Answers, Result
    <3> QED
        BY <3>1, <3>2, <3>3
  <2>3. CASE Gathered
    <3>1. StepInv'
        BY <2>3 DEF Gathered, Succeeds, Inv, StepInv
    <3>2. CopiesInv'
        BY <2>3 DEF Gathered, Succeeds, Inv, StepInv, CopiesInv, ResultInv
    <3>3. ResultInv'
        BY <2>3, <1>1, OutcomesFrame DEF Gathered, Inv, ResultInv
    <3> QED
        BY <3>1, <3>2, <3>3
  <2>4. CASE Persist
    <3>1. StepInv'
        BY <2>4 DEF Persist, Succeeds, Fails, Inv, StepInv
    <3>2. CopiesInv'
        BY <2>4 DEF Persist, Succeeds, Fails, Stored, Inv, CopiesInv
    <3>3. ResultInv'
        BY <2>4, <1>1, OutcomesFrame DEF Persist, Inv, ResultInv
    <3> QED
        BY <3>1, <3>2, <3>3
  <2>5. CASE LateStore
    <3>1. StepInv'
        BY <2>5 DEF LateStore, Inv, StepInv
    <3>2. CopiesInv'
        BY <2>5 DEF LateStore, Stored, Inv, CopiesInv
    <3>3. ResultInv'
        BY <2>5, <1>1, OutcomesFrame DEF LateStore, Inv, ResultInv
    <3> QED
        BY <3>1, <3>2, <3>3
  <2> QED
      BY <2>1, <2>2, <2>3, <2>4, <2>5
<1> QED
    BY <1>3, <1>4 DEF Inv


-----------------------------------------------------------------------------
(* The activities                                                            *)

\* A step of a test, or of an attempt's code, that leaves the runs alone.
Local == UNCHANGED <<runVars, mode, lost, copies, late>>

LEMMA LocalKeeps ==
    ASSUME Inv, Local, wf' = wf \/ (wf = "execute" /\ wf' = "failed"),
           result' = result \/ wf = "execute"
    PROVE  LifeType' /\ StepInv' /\ CopiesInv'
<1>1. LifeType'
    BY DEF Inv, LifeType, Local, runVars, lifeVars
<1>2. StepInv'
    BY DEF Inv, StepInv, Local
<1>3. CopiesInv'
    BY DEF Inv, CopiesInv, Local
<1> QED
    BY <1>1, <1>2, <1>3

\* Fewer permits are held, or as many.
LEMMA PermitKept ==
    ASSUME PermitInv, \A i \in Tests : task'[i] = "started" => task[i] = "started"
    PROVE  PermitInv'
<1>1. Holders' \subseteq Holders
    BY DEF Holders
<1>2. Cardinality(Holders') <= Cardinality(Holders)
    BY <1>1, HoldersFinite, FS_Subset
<1> QED
    BY <1>2, HoldersFinite, WorkflowAssumption DEF PermitInv

\* The code of an attempt moves on.
LEMMA CodeMoves ==
    ASSUME CodeType, NEW a \in Attempt, NEW c \in Codes,
           code' = [code EXCEPT ![a] = c],
           c \in {"none", "context", "post"} => phase[a] = "new",
           UNCHANGED <<phase, mode>>,
           task' \in [Tests -> {"waiting", "started", "done", "failed"}],
           attempt' \in [Tests -> 1 .. Attempts],
           \A i \in Tests : task'[i] = "waiting" => task[i] = "waiting" /\ a[1] # i
    PROVE  CodeType'
<1>1. code' \in [Attempt -> Codes]
    BY DEF CodeType
<1>2. \A b \in Attempt : code'[b] = IF b = a THEN c ELSE code[b]
    BY DEF CodeType
<1>3. \A b \in Attempt : code'[b] \in {"none", "context", "post"} => phase'[b] = "new"
    BY <1>2 DEF CodeType
<1>4. \A i \in Tests, k \in 1 .. Attempts : task'[i] = "waiting" => code'[<<i, k>>] = "none"
    BY <1>2, Pairs DEF CodeType
<1> QED
    BY <1>1, <1>3, <1>4 DEF CodeType

LEMMA BeginKeeps == ASSUME Inv, NEW i \in Tests, Begin(i) PROVE Inv'
<1> USE WorkflowAssumption
<1>1. Local /\ wf' = wf /\ UNCHANGED <<phase, mode, attempt, result>>
    BY DEF Begin, Local, runVars, lifeVars
<1>2. /\ wf = "execute" /\ mode = "playwright_sandbox" /\ task[i] = "waiting"
      /\ task' = [task EXCEPT ![i] = "started"]
      /\ code' = [code EXCEPT ![<<i, 1>>] = "context"]
      /\ Cardinality(Holders) < Cap
    BY DEF Begin
<1>3. LifeType' /\ StepInv' /\ CopiesInv'
    BY <1>1, LocalKeeps
<1>4. /\ task' \in [Tests -> {"waiting", "started", "done", "failed"}]
      /\ task'[i] = "started"
      /\ \A j \in Tests \ {i} : task'[j] = task[j]
      /\ code'[<<i, 1>>] = "context"
      /\ \A b \in Attempt \ {<<i, 1>>} : code'[b] = code[b]
    BY <1>2, Pairs DEF Inv, CodeType
<1>5. CodeType'
  <2>1. phase[<<i, 1>>] = "new"
      BY <1>2, Pairs DEF Inv, CodeType
  <2>2. attempt' \in [Tests -> 1 .. Attempts] /\ CodeType
      BY <1>1 DEF Inv, CodeType
  <2>3. \A j \in Tests : task'[j] = "waiting" => task[j] = "waiting" /\ <<i, 1>>[1] # j
      BY <1>4
  <2>4. "context" \in Codes /\ <<i, 1>> \in Attempt
      BY Pairs DEF Codes
  <2> QED
      BY <1>1, <1>2, <1>4, <2>1, <2>2, <2>3, <2>4, CodeMoves
<1>6. ResultInv'
  <2>1. result[i] = NoResult
      BY <1>2 DEF Inv, ResultInv
  <2>2. \A j \in Tests, m \in 1 .. Attempts : Outcomes(<<j, m>>)' = Outcomes(<<j, m>>)
      BY <1>1, OutcomesFrame DEF Local
  <2> QED
      BY <1>1, <1>2, <1>4, <2>1, <2>2 DEF Inv, ResultInv
<1>7. CalmInv'
    BY <1>1, <1>2, <1>4, Pairs DEF Inv, CalmInv, Calm, Local, runVars
<1>8. PermitInv'
  <2>1. Holders' = Holders \cup {i} /\ i \notin Holders
      BY <1>2, <1>4 DEF Holders
  <2>2. Cardinality(Holders') = Cardinality(Holders) + 1
      BY <2>1, HoldersFinite, FS_AddElement
  <2> QED
      BY <1>2, <2>2, HoldersFinite DEF PermitInv
<1> QED
    BY <1>3, <1>5, <1>6, <1>7, <1>8 DEF Inv

\* A failed attempt ends the calm; the next one starts, or the workflow ends.
LEMMA FailedKeeps ==
    ASSUME Inv, NEW i \in Tests, NEW k \in 1 .. Attempts, Awaited(i, k), Failed(i), Local,
           result' = result,
           code' = code \/ code' = [code EXCEPT ![<<i, k>>] = "ended"]
    PROVE  Inv'
<1> USE WorkflowAssumption
<1>1. /\ wf = "execute" /\ task[i] = "started" /\ attempt[i] = k
      /\ wf' = wf \/ wf' = "failed"
      /\ UNCHANGED <<phase, mode>>
    BY DEF Awaited, Failed, Local, runVars, lifeVars
<1>2. LifeType' /\ StepInv' /\ CopiesInv'
    BY <1>1, LocalKeeps
<1>3. /\ task' \in [Tests -> {"waiting", "started", "done", "failed"}]
      /\ attempt' \in [Tests -> 1 .. Attempts]
      /\ task'[i] \in {"started", "failed"}
      /\ \A j \in Tests \ {i} : task'[j] = task[j] /\ attempt'[j] = attempt[j]
      /\ task'[i] = "failed" \/ attempt'[i] # 1
    BY <1>1 DEF Failed, Inv, CodeType
<1>4. CodeType'
  <2>1. CodeType /\ <<i, k>> \in Attempt
      BY Pairs DEF Inv
  <2>2. \A j \in Tests : task'[j] = "waiting" => task[j] = "waiting" /\ <<i, k>>[1] # j
      BY <1>3
  <2>3. CASE code' = [code EXCEPT ![<<i, k>>] = "ended"]
      BY <1>1, <1>3, <2>1, <2>2, <2>3, CodeMoves DEF Codes
  <2>4. CASE code' = code
      BY <1>1, <1>3, <2>1, <2>2, <2>4 DEF CodeType
  <2> QED
      BY <2>3, <2>4
<1>5. ResultInv'
  <2>1. mode = "playwright_sandbox"
      BY <1>1 DEF Inv, ResultInv, CodeType
  <2>2. result[i] = NoResult
      BY <1>1, <2>1 DEF Inv, ResultInv
  <2>3. \A j \in Tests, m \in 1 .. Attempts : Outcomes(<<j, m>>)' = Outcomes(<<j, m>>)
      BY OutcomesFrame DEF Local
  <2> QED
      BY <1>1, <1>3, <2>1, <2>2, <2>3 DEF Inv, ResultInv
<1>6. CalmInv'
    BY <1>3 DEF CalmInv, Calm
<1>7. PermitInv'
    BY <1>1, <1>3, PermitKept DEF Inv
<1> QED
    BY <1>2, <1>4, <1>5, <1>6, <1>7 DEF Inv

\* The code of an attempt moves, and the test with it or not.
LEMMA MoveKeeps ==
    ASSUME Inv, NEW i \in Tests, NEW k \in 1 .. Attempts, NEW c \in Codes \ {"none"},
           Local, UNCHANGED <<wf, task, attempt, result>>,
           code' = [code EXCEPT ![<<i, k>>] = c],
           c \in {"context", "post"} => phase[<<i, k>>] = "new",
           task[i] # "waiting",
           Calm => /\ code[<<i, k>>] \notin {"none", "ended"}
                   /\ task[i] = "started" => c # "ended"
    PROVE  Inv'
<1> USE WorkflowAssumption
<1>1. LifeType' /\ StepInv' /\ CopiesInv'
    BY LocalKeeps
<1>2. /\ code'[<<i, k>>] = c
      /\ \A b \in Attempt \ {<<i, k>>} : code'[b] = code[b]
      /\ UNCHANGED <<phase, mode>>
    BY Pairs DEF Inv, CodeType, Local, runVars, lifeVars
<1>3. CodeType'
  <2>1. CodeType /\ <<i, k>> \in Attempt /\ c \in Codes
      BY Pairs DEF Inv
  <2>2. \A j \in Tests : task'[j] = "waiting" => task[j] = "waiting" /\ <<i, k>>[1] # j
      OBVIOUS
  <2>3. /\ task' \in [Tests -> {"waiting", "started", "done", "failed"}]
        /\ attempt' \in [Tests -> 1 .. Attempts]
      BY <2>1 DEF CodeType
  <2> QED
      BY <1>2, <2>1, <2>2, <2>3, CodeMoves
<1>4. ResultInv'
  <2>1. \A j \in Tests, m \in 1 .. Attempts : Outcomes(<<j, m>>)' = Outcomes(<<j, m>>)
      BY OutcomesFrame DEF Local
  <2> QED
      BY <1>2, <2>1 DEF Inv, ResultInv
<1>5. CalmInv'
    BY <1>2, Pairs DEF Inv, CalmInv, Calm, Codes, Local, runVars
<1>6. PermitInv'
    BY PermitKept DEF Inv
<1> QED
    BY <1>1, <1>3, <1>4, <1>5, <1>6 DEF Inv

\* In the calm, the code that is at work is that of an awaited first attempt.
LEMMA CalmCode ==
    ASSUME Inv, Calm, NEW i \in Tests, NEW k \in 1 .. Attempts,
           code[<<i, k>>] \notin {"none", "ended"}
    PROVE  k = 1 /\ Awaited(i, k)
<1>1. k = 1
    BY DEF Inv, CalmInv
<1>2. task[i] = "started"
    BY <1>1 DEF Inv, CalmInv, CodeType, Calm
<1> QED
    BY <1>1, <1>2 DEF Inv, CalmInv, Calm, Awaited


\* Code at work belongs to a test that has begun.
LEMMA CodeBegun ==
    ASSUME Inv, NEW i \in Tests, NEW k \in 1 .. Attempts, code[<<i, k>>] # "none"
    PROVE  task[i] # "waiting"
BY DEF Inv, CodeType

LEMMA GiveUpKeeps == ASSUME Inv, NEW i \in Tests, GiveUp(i) PROVE Inv'
<1>1. attempt[i] \in 1 .. Attempts
    BY DEF Inv, CodeType
<1>2. Awaited(i, attempt[i]) /\ Failed(i) /\ Local /\ UNCHANGED <<result, code>>
    BY DEF GiveUp, Local
<1> QED
    BY <1>1, <1>2, FailedKeeps

LEMMA RetryKeeps == ASSUME Inv, NEW i \in Tests, Retry(i) PROVE Inv'
<1>1. attempt[i] \in 1 .. Attempts
    BY DEF Inv, CodeType
<1>2. /\ Local /\ UNCHANGED <<wf, task, attempt, result>>
      /\ code' = [code EXCEPT ![<<i, attempt[i]>>] = "context"]
      /\ task[i] = "started" /\ code[<<i, attempt[i]>>] = "none"
    BY DEF Retry, Local, Awaited
<1>3. phase[<<i, attempt[i]>>] = "new"
    BY <1>1, <1>2, Pairs DEF Inv, CodeType
<1>4. ~Calm
    BY <1>2 DEF Inv, CalmInv, Calm
<1>5. "context" \in Codes \ {"none"}
    BY DEF Codes
<1> QED
    BY <1>1, <1>2, <1>3, <1>4, <1>5, MoveKeeps

LEMMA ContextKeeps ==
    ASSUME Inv, NEW i \in Tests, NEW k \in 1 .. Attempts,
           Context(<<i, k>>) \/ Accepted(<<i, k>>)
    PROVE  Inv'
<1>1. PICK c \in {"post", "poll"} :
          /\ code[<<i, k>>] \in {"context", "sent"}
          /\ c = "post" => code[<<i, k>>] = "context"
          /\ code' = [code EXCEPT ![<<i, k>>] = c]
    BY DEF Context, Accepted, Goes
<1>2. Local /\ UNCHANGED <<wf, task, attempt, result>>
    BY DEF Context, Accepted, Local
<1>3. c = "post" => phase[<<i, k>>] = "new"
    BY <1>1, Pairs DEF Inv, CodeType
<1>4. task[i] # "waiting"
    BY <1>1, CodeBegun
<1>5. c \in Codes \ {"none"} /\ c \notin {"context", "ended"}
    BY DEF Codes
<1> QED
    BY <1>1, <1>2, <1>3, <1>4, <1>5, MoveKeeps

\* What an attempt given up does at its end changes nothing but its code.
LEMMA StrayKeeps ==
    ASSUME Inv, NEW i \in Tests, NEW k \in 1 .. Attempts, ~Awaited(i, k),
           code[<<i, k>>] \in {"context", "post", "sent", "poll"},
           code' = [code EXCEPT ![<<i, k>>] = "ended"],
           Local, UNCHANGED <<wf, task, attempt, result>>
    PROVE  Inv'
<1>1. ~Calm
    BY CalmCode
<1>2. task[i] # "waiting"
    BY CodeBegun
<1>3. "ended" \in Codes \ {"none"} /\ "ended" \notin {"context", "post"}
    BY DEF Codes
<1> QED
    BY <1>1, <1>2, <1>3, MoveKeeps

LEMMA DropKeeps ==
    ASSUME Inv, NEW i \in Tests, NEW k \in 1 .. Attempts, Drop(i, k) PROVE Inv'
BY StrayKeeps DEF Drop, Local

LEMMA RaiseKeeps ==
    ASSUME Inv, NEW i \in Tests, NEW k \in 1 .. Attempts, Raise(i, k) PROVE Inv'
<1>1. CASE Awaited(i, k)
    BY <1>1, FailedKeeps DEF Raise, Local
<1>2. CASE ~Awaited(i, k)
    BY <1>2, StrayKeeps DEF Raise, Local
<1> QED
    BY <1>1, <1>2

LEMMA ReturnKeeps ==
    ASSUME Inv, NEW i \in Tests, NEW k \in 1 .. Attempts, Return(i, k) PROVE Inv'
<1> USE WorkflowAssumption
<1> DEFINE a == <<i, k>>
<1>1. /\ code[a] \in {"sent", "poll"}
      /\ code' = [code EXCEPT ![a] = "ended"]
      /\ Local /\ UNCHANGED <<wf, attempt, phase, mode>>
    BY DEF Return, Local, runVars, lifeVars
<1>2. CASE ~Awaited(i, k)
  <2>1. UNCHANGED <<result, task>>
      BY <1>2 DEF Return
  <2> QED
      BY <1>1, <1>2, <2>1, StrayKeeps
<1>3. CASE Awaited(i, k)
  <2>1. /\ wf = "execute" /\ task[i] = "started" /\ attempt[i] = k
        /\ task' = [task EXCEPT ![i] = "done"]
      BY <1>3 DEF Return, Awaited
  <2>0. PICK x \in Outcomes(a) : result' = [result EXCEPT ![i] = x]
      BY <1>3 DEF Return
  <2>2. /\ x \in Result /\ x # NoResult
        /\ phase[a] \in Final \/ a \in forgotten
      BY OutcomesOf, ResultAssumption
  <2>3. LifeType' /\ StepInv' /\ CopiesInv'
      BY <1>1, <2>1, LocalKeeps
  <2>4. /\ task' \in [Tests -> {"waiting", "started", "done", "failed"}]
        /\ attempt' \in [Tests -> 1 .. Attempts]
        /\ task'[i] = "done"
        /\ \A j \in Tests \ {i} : task'[j] = task[j]
        /\ code'[a] = "ended"
        /\ \A b \in Attempt \ {a} : code'[b] = code[b]
        /\ result' \in [Tests -> Result \cup {NoResult}]
        /\ result'[i] = x
        /\ \A j \in Tests \ {i} : result'[j] = result[j]
      BY <1>1, <2>0, <2>1, <2>2, Pairs DEF Inv, CodeType, ResultInv
  <2>5. CodeType'
    <3>1. CodeType /\ a \in Attempt /\ "ended" \in Codes /\ "ended" \notin {"none", "context", "post"}
        BY Pairs DEF Inv, Codes
    <3>2. \A j \in Tests : task'[j] = "waiting" => task[j] = "waiting" /\ a[1] # j
        BY <2>4
    <3> HIDE DEF a
    <3> QED
        BY <1>1, <2>4, <3>1, <3>2, CodeMoves
  <2>6. ResultInv'
    <3>1. mode = "playwright_sandbox"
        BY <2>1 DEF Inv, ResultInv, CodeType
    <3>2. \A j \in Tests, m \in 1 .. Attempts : Outcomes(<<j, m>>)' = Outcomes(<<j, m>>)
        BY <1>1, OutcomesFrame DEF Local
    <3>3. \A m \in 1 .. Attempts : attempt'[i] = m => x \in Outcomes(<<i, m>>)'
        BY <1>1, <2>1, <3>2
    <3> QED
        BY <1>1, <2>1, <2>2, <2>4, <3>1, <3>2, <3>3 DEF Inv, ResultInv
  <2>7. CalmInv'
      BY <1>1, <2>1, <2>2, <2>4, Pairs DEF Inv, CalmInv, Calm, Local, runVars
  <2>8. PermitInv'
      BY <2>4, PermitKept DEF Inv
  <2> QED
      BY <2>3, <2>5, <2>6, <2>7, <2>8 DEF Inv
<1> QED
    BY <1>2, <1>3

-----------------------------------------------------------------------------
(* The runner                                                                *)

\* A run that is over or refused stays so, and one is admitted before it is
\* anything else.
LEMMA AdvanceKeeps ==
    ASSUME LifeType, NEW r \in Runs, Advance(r), UNCHANGED <<tenant, day, forgotten>>
    PROVE  /\ LifeType'
           /\ \A q \in Runs : phase[q] \in Final => phase'[q] = phase[q]
           /\ \A q \in Runs : phase'[q] \in {"new", "refused"} <=> phase[q] \in {"new", "refused"}
           /\ \A q \in Runs : phase[q] = "new" => phase'[q] = "new"
           /\ \A q \in Runs : asked[q] => asked'[q]
<1>1. phase' = phase \/ \E from \in {"admitted", "queued", "running"}, to \in Phases \ {"new", "refused"} :
          phase[r] = from /\ phase' = [phase EXCEPT ![r] = to]
    BY DEF Advance, Becomes, Phases, Over
<1>2. asked' \in [Runs -> BOOLEAN] /\ \A q \in Runs : asked[q] => asked'[q]
    BY DEF Advance, LifeType
<1>3. /\ phase' \in [Runs -> Phases]
      /\ \A q \in Runs : phase'[q] # phase[q] =>
             /\ phase[q] \in {"admitted", "queued", "running"}
             /\ phase'[q] \notin {"new", "refused"}
    BY <1>1 DEF LifeType
<1>4. LifeType'
    BY <1>2, <1>3 DEF LifeType
<1> QED
    BY <1>2, <1>3, <1>4 DEF Final, Over

LEMMA RunnerKeeps == ASSUME Inv, Runner PROVE Inv'
<1>1. PICK r \in Runs : Advance(r)
    BY DEF Runner
<1>2. UNCHANGED <<tenant, day, forgotten, wfVars>>
    BY DEF Runner
<1>3. /\ LifeType'
      /\ \A q \in Runs : phase[q] \in Final => phase'[q] = phase[q]
      /\ \A q \in Runs : phase[q] = "new" => phase'[q] = "new"
      /\ \A q \in Runs : asked[q] => asked'[q]
    BY <1>1, <1>2, AdvanceKeeps DEF Inv
<1>4. CodeType'
    BY <1>2, <1>3, Pairs DEF Inv, CodeType, wfVars
<1>5. StepInv' /\ CopiesInv' /\ PermitInv'
    BY <1>2 DEF Inv, StepInv, CopiesInv, PermitInv, Holders, wfVars
<1>6. ResultInv'
  <2>1. \A j \in Tests, m \in 1 .. Attempts :
            \A x \in Outcomes(<<j, m>>) : x \in Outcomes(<<j, m>>)'
      BY <1>2, <1>3, OutcomesKept, Pairs
  <2> QED
      BY <1>2, <2>1 DEF Inv, ResultInv, wfVars
<1>7. CalmInv'
    BY <1>2, <1>3, Pairs DEF Inv, CalmInv, Calm, wfVars
<1> QED
    BY <1>3, <1>4, <1>5, <1>6, <1>7 DEF Inv

LEMMA ForgetKeeps == ASSUME Inv, NEW r \in Runs, Forget(r) PROVE Inv'
<1>1. /\ UNCHANGED <<lifeVars, wfVars>>
      /\ forgotten \subseteq forgotten' /\ forgotten' \subseteq Expirable
    BY DEF Forget, Inv, LifeType
<1>2. LifeType'
    BY <1>1 DEF Inv, LifeType, lifeVars
<1>3. CodeType'
    BY <1>1 DEF Inv, CodeType, lifeVars, wfVars
<1>4. StepInv' /\ CopiesInv' /\ PermitInv'
    BY <1>1 DEF Inv, StepInv, CopiesInv, PermitInv, Holders, wfVars
<1>5. ResultInv'
  <2>1. \A j \in Tests, m \in 1 .. Attempts :
            \A x \in Outcomes(<<j, m>>) : x \in Outcomes(<<j, m>>)'
      BY <1>1, OutcomesKept DEF lifeVars
  <2> QED
      BY <1>1, <2>1 DEF Inv, ResultInv, wfVars
<1>6. CalmInv'
    BY <1>1 DEF Inv, CalmInv, Calm, lifeVars, wfVars
<1> QED
    BY <1>2, <1>3, <1>4, <1>5, <1>6 DEF Inv

\* The premise of AloneIsNeverRefused that is about the constants.
Fits == Cap <= MaxConcurrent /\ Cardinality(Attempt) <= MaxDaily

AloneInv == Fits /\ Calm /\ forgotten = {} => \A r \in Runs : phase[r] # "refused"

\* In the calm, a run that holds a slot is that of another test with a permit.
LEMMA BusyHold ==
    ASSUME Inv, AloneInv, Fits, Calm, forgotten = {}, NEW i \in Tests, code[<<i, 1>>] = "post"
    PROVE  Busy(Me) \subseteq {<<j, 1>> : j \in Holders \ {i}}
<1> SUFFICES ASSUME NEW r \in Busy(Me)
             PROVE  r \in {<<j, 1>> : j \in Holders \ {i}}
    OBVIOUS
<1>1. r \in Attempt /\ tenant[r] = Me /\ phase[r] \notin Over
    BY Pairs DEF Busy
<1>2. r = <<r[1], r[2]>> /\ r[1] \in Tests /\ r[2] \in 1 .. Attempts
    BY <1>1, Pairs
<1>3. phase[r] # "new"
    BY <1>1, Pairs, WorkflowAssumption DEF Inv, LifeType
<1>4. code[r] \notin {"none", "context", "post"}
    BY <1>1, <1>3 DEF Inv, CodeType
<1>5. r[2] = 1
    BY <1>2, <1>4 DEF Inv, CalmInv
<1>6. r = <<r[1], 1>> /\ r[1] # i
    BY <1>2, <1>4, <1>5
<1>7. task[r[1]] # "waiting"
    BY <1>2, <1>4, CodeBegun
<1>8. task[r[1]] # "done"
    BY <1>1, <1>2, <1>6, Pairs DEF Inv, CalmInv, AloneInv, Final
<1>9. r[1] \in Holders
    BY <1>2, <1>7, <1>8 DEF Holders, Inv, CodeType, Calm
<1> QED
    BY <1>6, <1>9

\* So there is room for the run of a test that has a permit.
LEMMA RoomForPost ==
    ASSUME Inv, AloneInv, Fits, Calm, forgotten = {}, NEW i \in Tests, code[<<i, 1>>] = "post", NEW d
    PROVE  WithinQuota(Me, d)
<1> USE WorkflowAssumption
<1> DEFINE S == Holders \ {i}
           T == {<<j, 1>> : j \in S}
           f == [j \in S |-> <<j, 1>>]
<1>1. i \in Holders
    BY CalmCode, Pairs DEF Awaited, Holders
<1>2. IsFiniteSet(S) /\ Cardinality(S) = Cardinality(Holders) - 1
    BY <1>1, HoldersFinite, FS_RemoveElement
<1>3. f \in Surjection(S, T)
    BY DEF Surjection
<1>4. IsFiniteSet(T) /\ Cardinality(T) <= Cardinality(S)
  <2> HIDE DEF S, T, f
  <2> QED
      BY <1>2, <1>3, FS_Surjection
<1>5. IsFiniteSet(Busy(Me)) /\ Cardinality(Busy(Me)) <= Cardinality(T)
  <2>1. Busy(Me) \subseteq T
      BY BusyHold
  <2> HIDE DEF T
  <2> QED
      BY <1>4, <2>1, FS_Subset
<1>6. Cardinality(Busy(Me)) < MaxConcurrent
  <2>1. /\ Cardinality(T) \in Nat /\ Cardinality(S) \in Nat
        /\ Cardinality(Busy(Me)) \in Nat
      BY <1>2, <1>4, <1>5, FS_CardinalityType
  <2>2. Cardinality(Holders) <= Cap
      BY DEF Inv, PermitInv
  <2> HIDE DEF S, T
  <2> QED
      BY <1>2, <1>4, <1>5, <2>1, <2>2, HoldersFinite DEF Fits
<1>7. Cardinality(Seen(Me, d)) < MaxDaily
  <2> DEFINE A == Attempt \ {<<i, 1>>}
  <2>1. IsFiniteSet(Attempt)
    <3>1. IsFiniteSet(Tests) /\ IsFiniteSet(1 .. Attempts)
        BY FS_Interval DEF Tests
    <3> QED
        BY <3>1, FS_Product DEF Attempt
  <2>2. <<i, 1>> \in Attempt /\ tenant[<<i, 1>>] = NoTenant
      BY Pairs DEF Inv, LifeType, CodeType
  <2>3. IsFiniteSet(A) /\ Cardinality(A) = Cardinality(Attempt) - 1
      BY <2>1, <2>2, FS_RemoveElement
  <2>4. Seen(Me, d) \subseteq A
      BY <2>2, Pairs DEF Seen
  <2>5. IsFiniteSet(Seen(Me, d)) /\ Cardinality(Seen(Me, d)) <= Cardinality(A)
    <3> HIDE DEF A
    <3> QED
        BY <2>3, <2>4, FS_Subset
  <2>6. /\ Cardinality(A) \in Nat /\ Cardinality(Attempt) \in Nat
        /\ Cardinality(Seen(Me, d)) \in Nat
      BY <2>1, <2>3, <2>5, FS_CardinalityType
  <2> HIDE DEF A
  <2> QED
      BY <2>3, <2>5, <2>6 DEF Fits
<1> QED
    BY <1>6, <1>7 DEF WithinQuota

\* The POST: the run is admitted or refused, and is nothing else before.
LEMMA PostLife ==
    ASSUME Inv, NEW i \in Tests, NEW k \in 1 .. Attempts, Post(<<i, k>>)
    PROVE  /\ LifeType'
           /\ code[<<i, k>>] = "post" /\ phase[<<i, k>>] = "new"
           /\ phase'[<<i, k>>] \in {"admitted", "refused"}
           /\ phase'[<<i, k>>] = "refused" => \E d \in Days : ~WithinQuota(Me, d)
           /\ \A q \in Runs \ {<<i, k>>} : phase'[q] = phase[q]
           /\ UNCHANGED <<asked, forgotten>>
<1> USE WorkflowAssumption
<1> DEFINE a == <<i, k>>
<1>1. a \in Runs /\ code[a] = "post"
    BY Pairs DEF Post, Goes
<1>2. forgotten' = forgotten /\ \E d \in Days : Admit(a, Me, d) \/ Refuse(a, Me, d)
    BY DEF Post
<1>5. PICK d \in Days : Admit(a, Me, d) \/ Refuse(a, Me, d)
    BY <1>2
<1> HIDE DEF a
<1>3. CASE Admit(a, Me, d)
  <2>1. /\ phase[a] = "new" /\ phase' = [phase EXCEPT ![a] = "admitted"]
        /\ tenant' = [tenant EXCEPT ![a] = Me] /\ day' = [day EXCEPT ![a] = d]
        /\ asked' = asked
      BY <1>3 DEF Admit, Becomes
  <2>2. LifeType'
      BY <1>1, <1>2, <2>1 DEF Inv, LifeType, Phases
  <2> QED
      BY <1>1, <1>2, <2>1, <2>2 DEF Inv, LifeType, a
<1>4. CASE Refuse(a, Me, d)
  <2>1. /\ phase[a] = "new" /\ phase' = [phase EXCEPT ![a] = "refused"]
        /\ UNCHANGED <<tenant, day, asked>>
        /\ ~WithinQuota(Me, d)
      BY <1>4 DEF Refuse, Becomes
  <2>2. LifeType'
      BY <1>1, <1>2, <2>1 DEF Inv, LifeType, Phases
  <2> QED
      BY <1>1, <1>2, <2>1, <2>2 DEF Inv, LifeType, a
<1> QED
    BY <1>5, <1>3, <1>4

LEMMA PostKeeps ==
    ASSUME Inv, NEW i \in Tests, NEW k \in 1 .. Attempts, Post(<<i, k>>)
    PROVE  Inv'
<1> USE WorkflowAssumption
<1> DEFINE a == <<i, k>>
<1>1. /\ LifeType'
      /\ code[a] = "post" /\ phase[a] = "new"
      /\ phase'[a] \in {"admitted", "refused"}
      /\ \A q \in Runs \ {a} : phase'[q] = phase[q]
      /\ UNCHANGED <<asked, forgotten>>
    BY PostLife
<1>2. /\ code' = [code EXCEPT ![a] = "sent"]
      /\ UNCHANGED <<mode, wf, lost, task, attempt, result, copies, late>>
    BY DEF Post, Goes
<1>3. /\ code'[a] = "sent" /\ code' \in [Attempt -> Codes]
      /\ \A b \in Attempt \ {a} : code'[b] = code[b]
    BY <1>2, Pairs DEF Inv, CodeType, Codes
<1>4. task[i] # "waiting"
    BY <1>1, CodeBegun
<1>5. CodeType'
    BY <1>1, <1>2, <1>3, <1>4, Pairs DEF Inv, CodeType
<1>6. StepInv' /\ CopiesInv' /\ PermitInv'
    BY <1>2 DEF Inv, StepInv, CopiesInv, PermitInv, Holders
<1>7. ResultInv'
  <2>1. \A j \in Tests, m \in 1 .. Attempts :
            \A x \in Outcomes(<<j, m>>) : x \in Outcomes(<<j, m>>)'
    <3>1. \A q \in Runs : phase[q] \in Final => phase'[q] = phase[q]
        BY <1>1 DEF Final, Over
    <3> QED
        BY <1>1, <3>1, OutcomesKept, Pairs
  <2> QED
      BY <1>2, <2>1 DEF Inv, ResultInv
<1>8. CalmInv'
  <2> SUFFICES ASSUME Calm' PROVE CalmInv'
      BY DEF CalmInv
  <2>1. Calm
      BY <1>2 DEF Calm
  <2>2. k = 1 /\ task[i] = "started"
      BY <1>1, <2>1, CalmCode DEF Awaited
  <2>3. \A j \in Tests \ {i} : /\ code'[<<j, 1>>] = code[<<j, 1>>]
                               /\ phase'[<<j, 1>>] = phase[<<j, 1>>]
      BY <1>1, <1>3, Pairs
  <2>4. \A j \in Tests, m \in 1 .. Attempts : m # 1 => code'[<<j, m>>] = code[<<j, m>>]
      BY <1>3, <2>2, Pairs
  <2> QED
      BY <1>2, <1>3, <2>1, <2>2, <2>3, <2>4, <1>1 DEF Inv, CalmInv
<1> QED
    BY <1>1, <1>5, <1>6, <1>7, <1>8 DEF Inv

-----------------------------------------------------------------------------

LEMMA StutterKeeps == Inv /\ UNCHANGED vars => Inv'
<1> SUFFICES ASSUME Inv, UNCHANGED vars PROVE Inv'
    OBVIOUS
<1>1. LifeType' /\ CodeType' /\ CalmInv' /\ PermitInv'
    BY FrameKeeps DEF vars, wfVars
<1>2. StepInv' /\ CopiesInv'
    BY DEF Inv, StepInv, CopiesInv, vars, wfVars
<1>3. ResultInv'
    BY OutcomesFrame DEF Inv, ResultInv, vars, wfVars
<1> QED
    BY <1>1, <1>2, <1>3 DEF Inv

LEMMA StepKeeps == Inv /\ [Next]_vars => Inv'
<1> SUFFICES ASSUME Inv, [Next]_vars PROVE Inv'
    OBVIOUS
<1>1. CASE Fetch \/ Batch \/ Gathered \/ Persist \/ LateStore
    BY <1>1, WorkflowKeeps
<1>2. CASE \E i \in Tests : Begin(i) \/ GiveUp(i) \/ Retry(i)
    BY <1>2, BeginKeeps, GiveUpKeeps, RetryKeeps
<1>3. CASE \E a \in Attempt : Context(a) \/ Post(a) \/ Accepted(a)
  <2>1. PICK i \in Tests, k \in 1 .. Attempts :
            Context(<<i, k>>) \/ Post(<<i, k>>) \/ Accepted(<<i, k>>)
      BY <1>3, Pairs
  <2> QED
      BY <2>1, ContextKeeps, PostKeeps
<1>4. CASE \E i \in Tests, k \in 1 .. Attempts : Return(i, k) \/ Raise(i, k) \/ Drop(i, k)
    BY <1>4, ReturnKeeps, RaiseKeeps, DropKeeps
<1>5. CASE Runner
    BY <1>5, RunnerKeeps
<1>6. CASE \E r \in Runs : Forget(r)
    BY <1>6, ForgetKeeps
<1>7. CASE UNCHANGED vars
    BY <1>7, StutterKeeps
<1> QED
    BY <1>1, <1>2, <1>3, <1>4, <1>5, <1>6, <1>7 DEF Next

LEMMA Inductive == Spec => []Inv
<1> QED
    BY Initially, StepKeeps, PTL DEF Spec

-----------------------------------------------------------------------------
(* No refusal without a failure                                              *)

\* The calm does not come back, and only a POST refuses a run.
LEMMA CalmGoes ==
    ASSUME Inv, [Next]_vars, Calm'
    PROVE  /\ Calm /\ (forgotten' = {} => forgotten = {})
           /\ \/ \E a \in Attempt : Post(a)
              \/ \A r \in Runs : phase'[r] = "refused" => phase[r] = "refused"
<1> USE WorkflowAssumption
<1>1. CASE UNCHANGED <<task, attempt, phase>> /\ forgotten \subseteq forgotten'
    BY <1>1 DEF Calm
<1>2. CASE \E i \in Tests : Begin(i)
  <2>1. PICK i \in Tests : Begin(i)
      BY <1>2
  <2>2. task[i] = "waiting" /\ UNCHANGED <<attempt, phase, forgotten>>
        /\ task' = [task EXCEPT ![i] = "started"]
      BY <2>1 DEF Begin, runVars, lifeVars
  <2> QED
      BY <2>2 DEF Calm, Inv, CodeType
<1>3. CASE \E i \in Tests : Failed(i)
  <2>1. PICK i \in Tests : Failed(i)
      BY <1>3
  <2>2. ~Calm'
      BY <2>1 DEF Failed, Calm, Inv, CodeType
  <2> QED
      BY <2>2
<1>4. CASE \E i \in Tests, k \in 1 .. Attempts : Return(i, k) /\ Awaited(i, k)
  <2>1. PICK i \in Tests, k \in 1 .. Attempts : Return(i, k) /\ Awaited(i, k)
      BY <1>4
  <2>2. task[i] = "started" /\ UNCHANGED <<attempt, phase, forgotten>>
        /\ task' = [task EXCEPT ![i] = "done"]
      BY <2>1 DEF Return, Awaited, runVars, lifeVars
  <2> QED
      BY <2>2 DEF Calm, Inv, CodeType
<1>5. CASE \E a \in Attempt : Post(a)
    BY <1>5 DEF Post, Calm
<1>6. CASE Runner
  <2>1. PICK r \in Runs : Advance(r)
      BY <1>6 DEF Runner
  <2>2. \A q \in Runs : phase'[q] \in {"new", "refused"} <=> phase[q] \in {"new", "refused"}
      BY <1>6, <2>1, AdvanceKeeps DEF Runner, Inv
  <2>3. \A q \in Runs : phase[q] = "new" => phase'[q] = "new"
      BY <1>6, <2>1, AdvanceKeeps DEF Runner, Inv
  <2>4. Calm
      BY <1>6 DEF Runner, wfVars, Calm
  <2> QED
      BY <1>6, <2>2, <2>3, <2>4 DEF Runner
<1> QED
    BY <1>1, <1>2, <1>3, <1>4, <1>5, <1>6
       DEF Next, Fetch, Batch, Gathered, Persist, LateStore, GiveUp, Retry, Context,
           Accepted, Return, Raise, Drop, Forget, vars, wfVars, runVars, lifeVars

LEMMA AloneKeeps == Inv /\ AloneInv /\ [Next]_vars => AloneInv'
<1> SUFFICES ASSUME Inv, AloneInv, [Next]_vars, Fits, Calm', forgotten' = {}, NEW r \in Runs
             PROVE  phase'[r] # "refused"
    BY DEF AloneInv, Fits
<1>1. Calm /\ forgotten = {}
    BY CalmGoes
<1>2. CASE \E a \in Attempt : Post(a)
  <2>1. PICK i \in Tests, k \in 1 .. Attempts : Post(<<i, k>>)
      BY <1>2, Pairs
  <2>2. code[<<i, k>>] = "post"
      BY <2>1, PostLife
  <2>3. k = 1
      BY <1>1, <2>2, CalmCode
  <2>4. phase'[<<i, k>>] # "refused"
      BY <1>1, <2>1, <2>2, <2>3, PostLife, RoomForPost
  <2> QED
      BY <1>1, <2>1, <2>4, PostLife DEF AloneInv
<1>3. CASE ~\E a \in Attempt : Post(a)
    BY <1>1, <1>3, CalmGoes DEF AloneInv
<1> QED
    BY <1>2, <1>3

-----------------------------------------------------------------------------
(* Theorems                                                                  *)

\* The state of the workflow, its attempts and its runs has its types.
THEOREM WorkflowTypeCorrect == Spec => []TypeOK
<1>1. Inv => TypeOK
    BY WorkflowAssumption
       DEF Inv, LifeType, CodeType, StepInv, CopiesInv, ResultInv, Phases, Codes, TypeOK
<1> QED
    BY <1>1, Inductive, PTL

\* A result is the end of the run that the awaited attempt submitted; an
\* "error" may also be the 404 of a run whose hash has expired, but only that.
THEOREM ResultsEarned == Spec => []ResultEarned
<1>1. Inv => ResultEarned
  <2> SUFFICES ASSUME Inv, mode = "playwright_sandbox", NEW i \in Tests,
                      NEW k \in 1 .. Attempts, attempt[i] = k
               PROVE  /\ result[i] = "reported" =>
                             \/ phase[<<i, k>>] = "completed"
                             \/ /\ <<i, k>> \in forgotten /\ asked[<<i, k>>]
                                /\ phase[<<i, k>>] = "canceled"
                      /\ result[i] = "error" =>
                             phase[<<i, k>>] = "failed" \/ <<i, k>> \in forgotten
                      /\ result[i] = "canceled" => phase[<<i, k>>] = "canceled"
                      /\ result[i] = "quota"    => phase[<<i, k>>] = "refused"
      BY DEF ResultEarned, Inv, CodeType
  <2>1. result[i] \in Result => result[i] \in Outcomes(<<i, k>>)
      BY ResultAssumption DEF Inv, ResultInv
  <2> QED
      BY <2>1, OutcomesOf DEF Result
<1> QED
    BY <1>1, Inductive, PTL

\* One artefact per test, all or none, each with a result when all is well.
THEOREM ArtefactsOnce == Spec => []StoredOnce
<1>1. Inv => StoredOnce
    BY DEF Inv, CopiesInv, StoredOnce
<1> QED
    BY <1>1, Inductive, PTL

\* A workflow alone, none of whose attempts fails, is refused no run, for
\* every number of tests and every cap within the quota.
THEOREM NeverRefused == Spec => []AloneIsNeverRefused
<1>1. Init => AloneInv
    BY DEF Init, LifeInit, AloneInv
<1>2. AloneInv => AloneIsNeverRefused
    BY DEF AloneInv, Fits, Calm, AloneIsNeverRefused
<1> QED
    BY <1>1, <1>2, Inductive, AloneKeeps, PTL DEF Spec

-----------------------------------------------------------------------------
(* Sandboxes in flight                                                       *)

\* The runs of the workflow that the runner has taken and that are not over.
InFlight == {r \in Runs : phase[r] \in {"admitted", "queued", "running"}}

\* As long as no attempt has failed and no hash has expired,
\* SANDBOX_PARALLEL_CAP bounds the runs in flight, and not only the activities:
\* a permit comes back after the end of its run.
SandboxesWithinCap == Calm /\ forgotten = {} => Cardinality(InFlight) <= Cap

\* In the calm, a run in flight is that of a test with a permit.
LEMMA FlightHolds ==
    ASSUME Inv, Calm, forgotten = {}
    PROVE  InFlight \subseteq {<<j, 1>> : j \in Holders}
<1> SUFFICES ASSUME NEW r \in InFlight
             PROVE  r \in {<<j, 1>> : j \in Holders}
    OBVIOUS
<1>1. /\ r \in Attempt /\ phase[r] \notin Final /\ phase[r] # "new"
      /\ r = <<r[1], r[2]>> /\ r[1] \in Tests /\ r[2] \in 1 .. Attempts
    BY Pairs DEF InFlight, Final, Over
<1>2. code[r] \notin {"none", "context", "post"}
    BY <1>1 DEF Inv, CodeType
<1>3. r = <<r[1], 1>>
    BY <1>1, <1>2 DEF Inv, CalmInv
<1>4. task[r[1]] # "waiting"
    BY <1>1, <1>2, CodeBegun
<1>5. task[r[1]] # "done"
    BY <1>1, <1>3 DEF Inv, CalmInv
<1>6. r[1] \in Holders
    BY <1>1, <1>4, <1>5 DEF Holders, Inv, CodeType, Calm
<1> QED
    BY <1>3, <1>6

\* A workflow whose attempts do not fail never has more than Cap runs in
\* flight, for every number of tests; an attempt given up may add one.
THEOREM CapHolds == Spec => []SandboxesWithinCap
<1>1. ASSUME Inv, Calm, forgotten = {}
      PROVE  Cardinality(InFlight) <= Cap
  <2> DEFINE T == {<<j, 1>> : j \in Holders}
             f == [j \in Holders |-> <<j, 1>>]
  <2>1. f \in Surjection(Holders, T)
      BY DEF Surjection
  <2>2. IsFiniteSet(T) /\ Cardinality(T) <= Cardinality(Holders)
    <3> HIDE DEF T, f
    <3> QED
        BY <2>1, HoldersFinite, FS_Surjection
  <2>3. InFlight \subseteq T
      BY <1>1, FlightHolds
  <2>4. /\ Cardinality(InFlight) <= Cardinality(T)
        /\ Cardinality(InFlight) \in Nat /\ Cardinality(T) \in Nat
    <3> HIDE DEF T
    <3> QED
        BY <2>2, <2>3, FS_Subset, FS_CardinalityType
  <2>5. Cardinality(Holders) <= Cap
      BY <1>1 DEF Inv, PermitInv
  <2> HIDE DEF T, f
  <2> QED
      BY <2>2, <2>4, <2>5, HoldersFinite, WorkflowAssumption
<1>2. Inv => SandboxesWithinCap
    BY <1>1 DEF SandboxesWithinCap
<1> QED
    BY <1>2, Inductive, PTL

-----------------------------------------------------------------------------
(* What is settled stays settled                                             *)

\* The result of a test is not replaced, by a late attempt or by the end of a
\* run that was left behind, and a workflow that has ended does not go on.
SettledStays ==
    [][/\ \A i \in Tests : result[i] # NoResult => result'[i] = result[i]
       /\ wf \in {"done", "failed"} => wf' = wf]_vars

\* The batch activity has not answered while the workflow waits for it.
BatchInv ==
    mode = "batch" /\ wf \in {"fetch", "execute"} => \A i \in Tests : result[i] = NoResult

\* Only the batch, and the attempt that is awaited, write a result.
LEMMA ResultMoves ==
    ASSUME Inv, [Next]_vars
    PROVE  \/ result' = result
           \/ mode = "batch" /\ wf = "execute" /\ wf' = "persist"
           \/ /\ mode = "playwright_sandbox"
              /\ \E i \in Tests, x \in Result :
                    result[i] = NoResult /\ result' = [result EXCEPT ![i] = x]
<1>1. CASE Batch
    BY <1>1 DEF Batch, Succeeds
<1>2. ASSUME NEW i \in Tests, NEW k \in 1 .. Attempts, Return(i, k)
      PROVE  \/ result' = result
             \/ /\ mode = "playwright_sandbox"
                /\ \E j \in Tests, x \in Result :
                      result[j] = NoResult /\ result' = [result EXCEPT ![j] = x]
  <2>1. CASE Awaited(i, k)
    <3>1. PICK x \in Outcomes(<<i, k>>) : result' = [result EXCEPT ![i] = x]
        BY <1>2, <2>1 DEF Return
    <3>2. x \in Result
        BY OutcomesOf
    <3>3. mode = "playwright_sandbox" /\ result[i] = NoResult
        BY <2>1 DEF Awaited, Inv, ResultInv, CodeType
    <3> QED
        BY <3>1, <3>2, <3>3
  <2>2. CASE ~Awaited(i, k)
      BY <1>2, <2>2 DEF Return
  <2> QED
      BY <2>1, <2>2
<1>3. CASE ~Batch /\ ~\E i \in Tests, k \in 1 .. Attempts : Return(i, k)
    BY <1>3
       DEF Next, Fetch, Gathered, Persist, LateStore, Begin, GiveUp, Retry, Context, Post,
           Accepted, Raise, Drop, Runner, Forget, vars, wfVars
<1> QED
    BY <1>1, <1>2, <1>3

\* The workflow goes from one step to the next and stops at an end.
LEMMA StepMoves ==
    ASSUME [Next]_vars
    PROVE  /\ mode' = mode
           /\ \/ wf' = wf
              \/ wf = "fetch" /\ wf' \in {"execute", "done", "failed"}
              \/ wf = "execute" /\ wf' \in {"persist", "failed"}
              \/ wf = "persist" /\ wf' \in {"done", "failed"}
<1>1. CASE Fetch \/ Batch \/ Gathered \/ Persist \/ LateStore
    BY <1>1 DEF Fetch, Batch, Gathered, Persist, LateStore, Succeeds, Fails
<1>2. CASE \E i \in Tests : Begin(i) \/ GiveUp(i) \/ Retry(i)
    BY <1>2 DEF Begin, GiveUp, Retry, Awaited, Failed
<1>3. CASE \E a \in Attempt : Context(a) \/ Post(a) \/ Accepted(a)
    BY <1>3 DEF Context, Post, Accepted
<1>4. CASE \E i \in Tests, k \in 1 .. Attempts : Return(i, k) \/ Raise(i, k) \/ Drop(i, k)
    BY <1>4 DEF Return, Raise, Drop, Awaited, Failed
<1>5. CASE Runner \/ (\E r \in Runs : Forget(r)) \/ UNCHANGED vars
    BY <1>5 DEF Runner, Forget, vars, wfVars
<1> QED
    BY <1>1, <1>2, <1>3, <1>4, <1>5 DEF Next

LEMMA BatchKeeps == Inv /\ BatchInv /\ [Next]_vars => BatchInv'
<1> SUFFICES ASSUME Inv, BatchInv, [Next]_vars, mode' = "batch",
                    wf' \in {"fetch", "execute"}, NEW i \in Tests
             PROVE  result'[i] = NoResult
    BY DEF BatchInv
<1>1. mode = "batch" /\ wf \in {"fetch", "execute"} /\ wf' # "persist"
    BY StepMoves
<1>2. result' = result
    BY <1>1, ResultMoves
<1> QED
    BY <1>1, <1>2 DEF BatchInv

\* A result is written once and a workflow ends once.
THEOREM SettledHolds == Spec => SettledStays
<1>1. Init => BatchInv
    BY DEF Init, BatchInv
<1>2. ASSUME Inv, BatchInv, [Next]_vars
      PROVE  /\ \A i \in Tests : result[i] # NoResult => result'[i] = result[i]
             /\ wf \in {"done", "failed"} => wf' = wf
  <2>1. wf \in {"done", "failed"} => wf' = wf
      BY <1>2, StepMoves
  <2>2. ASSUME NEW i \in Tests, result[i] # NoResult
        PROVE  result'[i] = result[i]
    <3>1. CASE result' = result
        BY <3>1
    <3>2. CASE mode = "batch" /\ wf = "execute"
        BY <1>2, <2>2, <3>2 DEF BatchInv
    <3>3. CASE \E j \in Tests, x \in Result :
                  result[j] = NoResult /\ result' = [result EXCEPT ![j] = x]
        BY <1>2, <2>2, <3>3 DEF Inv, ResultInv
    <3> QED
        BY <1>2, <3>1, <3>2, <3>3, ResultMoves
  <2> QED
      BY <2>1, <2>2
<1>3. Inv /\ BatchInv /\ [Next]_vars =>
         /\ \A i \in Tests : result[i] # NoResult => result'[i] = result[i]
         /\ wf \in {"done", "failed"} => wf' = wf
    BY <1>2
<1> QED
    BY <1>1, <1>3, Inductive, BatchKeeps, PTL DEF Spec, SettledStays

-----------------------------------------------------------------------------
(* The runner, as the workflow meets it                                      *)

\* What the workflow and the runner do to the runs is what RunLifecycle lets
\* them do, so that what holds of LifeSpec holds of the workflow's runs.
THEOREM RunsFollowLifecycle == Spec => LifeSpec
<1>1. Init => LifeInit
    BY DEF Init
<1>2. ASSUME [Next]_vars
      PROVE  [LifeNext]_lifeVars
  <2>1. CASE \E a \in Attempt : Post(a)
    <3>1. PICK a \in Runs, d \in Days : Admit(a, Me, d) \/ Refuse(a, Me, d)
        BY <2>1, Pairs DEF Post
    <3> QED
        BY <3>1, WorkflowAssumption DEF LifeNext
  <2>2. CASE Runner
      BY <2>2 DEF Runner, LifeNext
  <2>3. CASE ~Runner /\ ~\E a \in Attempt : Post(a)
      BY <1>2, <2>3
         DEF Next, Fetch, Batch, Gathered, Persist, LateStore, Begin, GiveUp, Retry, Context,
             Accepted, Return, Raise, Drop, Forget, vars, runVars
  <2> QED
      BY <2>1, <2>2, <2>3
<1> QED
    BY <1>1, <1>2, PTL DEF Spec, LifeSpec

\* No tenant has more slots in use, or submits of one day, than its quota.
LifeQuota ==
    \A t \in Tenants :
        /\ Cardinality(Busy(t)) <= MaxConcurrent
        /\ \A d \in Days : Cardinality(Seen(t, d)) <= MaxDaily

\* A run whose cancel was accepted while it ran ends canceled.
AskedEndsCanceled ==
    \A r \in Runs : asked[r] /\ phase[r] \in Over => phase[r] = "canceled"

\* The end of a run is final.
OverIsFinal == [][\A r \in Runs : phase[r] \in Over => phase'[r] = phase[r]]_lifeVars

LifeInv ==
    /\ phase \in [Runs -> Phases]
    /\ tenant \in [Runs -> Tenants \cup {NoTenant}]
    /\ day \in [Runs -> Days]
    /\ asked \in [Runs -> BOOLEAN]
    /\ \A r \in Runs : asked[r] => phase[r] \in {"running", "canceled"}
    /\ \A t \in Tenants :
          /\ IsFiniteSet(Busy(t)) /\ Cardinality(Busy(t)) <= MaxConcurrent
          /\ \A d \in Days : IsFiniteSet(Seen(t, d)) /\ Cardinality(Seen(t, d)) <= MaxDaily

\* A set that is within its bound stays so when it loses elements, and when it
\* is below it and gets one.
LEMMA StaysWithin ==
    ASSUME NEW S, NEW T, NEW m \in Nat, IsFiniteSet(S), Cardinality(S) <= m,
           \/ T \subseteq S
           \/ Cardinality(S) < m /\ \E x : T \subseteq S \cup {x}
    PROVE  IsFiniteSet(T) /\ Cardinality(T) <= m
<1>1. CASE T \subseteq S
  <2>1. IsFiniteSet(T) /\ Cardinality(T) <= Cardinality(S)
      BY <1>1, FS_Subset
  <2> QED
      BY <2>1, FS_CardinalityType
<1>2. ASSUME NEW x, T \subseteq S \cup {x}, Cardinality(S) < m
      PROVE  IsFiniteSet(T) /\ Cardinality(T) <= m
  <2>1. /\ IsFiniteSet(S \cup {x})
        /\ Cardinality(S \cup {x}) \in {Cardinality(S), Cardinality(S) + 1}
      BY FS_AddElement
  <2>2. IsFiniteSet(T) /\ Cardinality(T) <= Cardinality(S \cup {x})
      BY <1>2, <2>1, FS_Subset
  <2>3. /\ Cardinality(S) \in Nat /\ Cardinality(S \cup {x}) \in Nat
        /\ Cardinality(T) \in Nat
      BY <2>1, <2>2, FS_CardinalityType
  <2> QED
      BY <1>2, <2>1, <2>2, <2>3
<1> QED
    BY <1>1, <1>2

LEMMA LifeStep ==
    ASSUME LifeInv, LifeNext
    PROVE  LifeInv' /\ \A r \in Runs : phase[r] \in Over => phase'[r] = phase[r]
<1> DEFINE Goal == LifeInv' /\ \A r \in Runs : phase[r] \in Over => phase'[r] = phase[r]
<1>a. MaxConcurrent \in Nat /\ MaxDaily \in Nat
    BY WorkflowAssumption
<1>1. ASSUME NEW r \in Runs, NEW t \in Tenants, NEW d \in Days, Admit(r, t, d)
      PROVE  Goal
  <2>1. /\ phase[r] = "new" /\ phase' = [phase EXCEPT ![r] = "admitted"]
        /\ tenant' = [tenant EXCEPT ![r] = t] /\ day' = [day EXCEPT ![r] = d]
        /\ asked' = asked /\ WithinQuota(t, d)
      BY <1>1 DEF Admit, Becomes
  <2>2. /\ phase' \in [Runs -> Phases] /\ tenant' \in [Runs -> Tenants \cup {NoTenant}]
        /\ day' \in [Runs -> Days] /\ asked' \in [Runs -> BOOLEAN]
        /\ \A q \in Runs : asked'[q] => phase'[q] \in {"running", "canceled"}
        /\ \A q \in Runs : phase[q] \in Over => phase'[q] = phase[q]
      BY <2>1 DEF LifeInv, Phases, Over
  <2>3. ASSUME NEW u \in Tenants
        PROVE  IsFiniteSet(Busy(u)') /\ Cardinality(Busy(u)') <= MaxConcurrent
    <3>1. Busy(u)' \subseteq IF u = t THEN Busy(u) \cup {r} ELSE Busy(u)
        BY <2>1 DEF Busy, LifeInv
    <3>2. IsFiniteSet(Busy(u)) /\ Cardinality(Busy(u)) <= MaxConcurrent
        BY DEF LifeInv
    <3>3. u = t => Cardinality(Busy(u)) < MaxConcurrent
        BY <2>1 DEF WithinQuota
    <3> QED
        BY <1>a, <3>1, <3>2, <3>3, StaysWithin
  <2>4. ASSUME NEW u \in Tenants, NEW e \in Days
        PROVE  IsFiniteSet(Seen(u, e)') /\ Cardinality(Seen(u, e)') <= MaxDaily
    <3>1. Seen(u, e)' \subseteq IF u = t /\ e = d THEN Seen(u, e) \cup {r} ELSE Seen(u, e)
        BY <2>1 DEF Seen, LifeInv
    <3>2. IsFiniteSet(Seen(u, e)) /\ Cardinality(Seen(u, e)) <= MaxDaily
        BY DEF LifeInv
    <3>3. u = t /\ e = d => Cardinality(Seen(u, e)) < MaxDaily
        BY <2>1 DEF WithinQuota
    <3> QED
        BY <1>a, <3>1, <3>2, <3>3, StaysWithin
  <2> QED
      BY <2>2, <2>3, <2>4 DEF LifeInv
<1>2. ASSUME UNCHANGED <<tenant, day>>, phase' \in [Runs -> Phases],
             asked' \in [Runs -> BOOLEAN],
             \A r \in Runs : asked'[r] => phase'[r] \in {"running", "canceled"},
             \A r \in Runs : phase[r] \in Over => phase'[r] = phase[r]
      PROVE  Goal
  <2>1. ASSUME NEW u \in Tenants
        PROVE  IsFiniteSet(Busy(u)') /\ Cardinality(Busy(u)') <= MaxConcurrent
    <3>1. Busy(u)' \subseteq Busy(u)
        BY <1>2 DEF Busy
    <3> QED
        BY <1>a, <3>1, StaysWithin DEF LifeInv
  <2>2. ASSUME NEW u \in Tenants, NEW e \in Days
        PROVE  IsFiniteSet(Seen(u, e)') /\ Cardinality(Seen(u, e)') <= MaxDaily
      BY <1>2 DEF Seen, LifeInv
  <2> QED
      BY <1>2, <2>1, <2>2 DEF LifeInv
<1>3. ASSUME NEW r \in Runs, NEW t \in Tenants, NEW d \in Days, Refuse(r, t, d)
      PROVE  Goal
    BY <1>2, <1>3 DEF Refuse, Becomes, LifeInv, Phases, Over
<1>4. ASSUME NEW r \in Runs, Advance(r), UNCHANGED <<tenant, day>>
      PROVE  Goal
  <2>1. CASE phase' # phase
    <3>1. PICK from \in Phases \ Over, to \in Phases :
             /\ phase[r] = from /\ phase' = [phase EXCEPT ![r] = to]
             /\ from = "running" /\ asked[r] => to = "canceled"
      <4>1. ASSUME NEW from \in Phases \ Over, NEW to \in Phases, Becomes(r, {from}, to),
                   from = "running" /\ asked[r] => to = "canceled"
            PROVE  \E x \in Phases \ Over, y \in Phases :
                      /\ phase[r] = x /\ phase' = [phase EXCEPT ![r] = y]
                      /\ x = "running" /\ asked[r] => y = "canceled"
          BY <4>1 DEF Becomes
      <4>2. \/ Becomes(r, {"admitted"}, "queued") \/ Becomes(r, {"queued"}, "running")
            \/ Becomes(r, {"queued"}, "canceled") \/ Becomes(r, {"queued"}, "failed")
            \/ \E end \in Over : /\ Becomes(r, {"running"}, end)
                                 /\ asked[r] => end = "canceled"
            \/ /\ phase[r] = "running" /\ asked' = [asked EXCEPT ![r] = TRUE]
               /\ phase' = phase
          BY <1>4 DEF Advance, Over
      <4> QED
          BY <2>1, <4>1, <4>2 DEF Phases, Over
    <3>2. phase' \in [Runs -> Phases]
        BY <3>1 DEF LifeInv
    <3>a. asked' = asked
        BY <1>4, <2>1 DEF Advance
    <3>3. \A q \in Runs : asked'[q] => phase'[q] \in {"running", "canceled"}
        BY <3>1, <3>a DEF LifeInv, Over
    <3>4. \A q \in Runs : phase[q] \in Over => phase'[q] = phase[q]
        BY <3>1 DEF LifeInv
    <3> QED
        BY <1>2, <1>4, <3>a, <3>2, <3>3, <3>4 DEF LifeInv
  <2>2. CASE phase' = phase
    <3>1. asked' = asked \/ (phase[r] = "running" /\ asked' = [asked EXCEPT ![r] = TRUE])
        BY <1>4 DEF Advance
    <3> QED
        BY <1>2, <1>4, <2>2, <3>1 DEF LifeInv
  <2> QED
      BY <2>1, <2>2
<1> QED
    BY <1>1, <1>3, <1>4 DEF LifeNext

\* RunLifecycle keeps the quotas, the precedence of an accepted cancel and the
\* finality of an end; the service of one replica implements it
\* (OneRunnerProofs) and the workflow relies on no more than it.
THEOREM LifecyclePromises == LifeSpec => [](LifeQuota /\ AskedEndsCanceled) /\ OverIsFinal
<1>1. LifeInit => LifeInv
  <2> SUFFICES ASSUME LifeInit PROVE LifeInv
      OBVIOUS
  <2>1. \A t \in Tenants : Busy(t) = {} /\ \A d \in Days : Seen(t, d) = {}
      BY WorkflowAssumption DEF LifeInit, Busy, Seen
  <2> QED
      BY <2>1, FS_EmptySet, WorkflowAssumption DEF LifeInit, LifeInv, Phases
<1>2. LifeInv /\ UNCHANGED lifeVars =>
         LifeInv' /\ \A r \in Runs : phase[r] \in Over => phase'[r] = phase[r]
    BY DEF LifeInv, lifeVars, Busy, Seen
<1>3. LifeInv /\ [LifeNext]_lifeVars =>
         LifeInv' /\ \A r \in Runs : phase[r] \in Over => phase'[r] = phase[r]
    BY <1>2, LifeStep
<1>4. LifeInv => LifeQuota /\ AskedEndsCanceled
    BY DEF LifeInv, LifeQuota, AskedEndsCanceled, Over
<1> QED
    BY <1>1, <1>3, <1>4, PTL DEF LifeSpec, OverIsFinal

=============================================================================
