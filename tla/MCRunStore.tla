----------------------------- MODULE MCRunStore -----------------------------
(* RunStore for TLC: two runs, two tenants, two days.  One run may expire, the *)
(* other not, so that each is seen with and without the loss of its hash.      *)
EXTENDS RunStore

CONSTANTS r1, r2, t1, t2, none

MCRuns      == {r1, r2}
MCTenants   == {t1, t2}
MCExpirable == {r1}

=============================================================================
