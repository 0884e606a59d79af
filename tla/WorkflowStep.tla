---------------------------- MODULE WorkflowStep ----------------------------
(***************************************************************************)
(* A Temporal workflow that takes one step after another, each an activity *)
(* with a limited number of attempts: workflow.execute_activity with       *)
(* RetryPolicy(maximum_attempts=...).                                      *)
(***************************************************************************)
EXTENDS Integers

VARIABLES
    wf,      \* the step the workflow is at, "done" or "failed"
    lost     \* attempts of the activity of this step that have failed

\* The activity of step "from" succeeds and the workflow goes on.
Succeeds(from, to) ==
    /\ wf = from
    /\ wf' = to
    /\ lost' = 0

\* An attempt fails, by an exception or a timeout; the last one fails the
\* workflow.
Fails(from, limit) ==
    /\ wf = from
    /\ lost' = lost + 1
    /\ wf' = IF lost' = limit THEN "failed" ELSE from

\* An attempt raises one of the errors that are not retried.
FailsAtOnce(from) ==
    /\ wf = from
    /\ wf' = "failed"
    /\ lost' = lost + 1

=============================================================================
