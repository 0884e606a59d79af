------------------------------ MODULE MCRunner ------------------------------
(* Runner for TLC.  The cap decides whether two runs of one tenant wait for  *)
(* the worker together: 2 in the runs about the worker, 1 in "liveness".    *)
EXTENDS Runner

CONSTANTS r1, r2, t1, t2, p1, c1, none

OneRun      == {r1}
TwoRuns     == {r1, r2}
OneTenant   == {t1}
TwoTenants  == {t1, t2}
OneReplica  == {p1}
OneCancel   == {c1}
NoRuns      == {}
SecondRun   == {r2}

=============================================================================
