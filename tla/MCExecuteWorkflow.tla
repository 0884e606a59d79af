------------------------- MODULE MCExecuteWorkflow -------------------------
(* ExecuteWorkflow for TLC: one tenant, one day.                             *)
EXTENDS ExecuteWorkflow

CONSTANTS t1, none

OneTenant == {t1}
OneDay    == {1}
AllRuns   == Attempt
FirstRun  == {<<1, 1>>}

=============================================================================
