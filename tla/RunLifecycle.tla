---------------------------- MODULE RunLifecycle ----------------------------
(***************************************************************************)
(* What the runner service promises its callers of a run, without lists,   *)
(* locks, workers and containers: a run is admitted within the tenant's    *)
(* quota or refused, waits, runs, and ends once; a run whose cancel was    *)
(* accepted ends canceled; the tenant has its slot back when the run ends. *)
(* This is the state machine of section 3 and the quota table of section 4 *)
(* of the cancel design, with the steps a crash adds.                      *)
(***************************************************************************)
EXTENDS Integers, FiniteSets

CONSTANTS Runs, Tenants, NoTenant, Days, MaxConcurrent, MaxDaily

VARIABLES
    phase,     \* "new", "refused", "admitted" (not stored yet) or the status
    tenant,    \* whose run it is, NoTenant until it is admitted
    day,       \* the day it counts for
    asked      \* was it canceled while it ran?

lifeVars == <<phase, tenant, day, asked>>

Over == {"completed", "failed", "canceled"}

LifeInit ==
    /\ phase = [r \in Runs |-> "new"]
    /\ tenant = [r \in Runs |-> NoTenant]
    /\ day \in [Runs -> Days]
    /\ asked = [r \in Runs |-> FALSE]

\* The slots tenant t has in use, and the submits its day d has seen.
Busy(t) == {r \in Runs : tenant[r] = t /\ phase[r] \notin Over}
Seen(t, d) == {r \in Runs : tenant[r] = t /\ day[r] = d}

WithinQuota(t, d) ==
    Cardinality(Busy(t)) < MaxConcurrent /\ Cardinality(Seen(t, d)) < MaxDaily

Becomes(r, from, to) ==
    /\ phase[r] \in from
    /\ phase' = [phase EXCEPT ![r] = to]

Admit(r, t, d) ==
    /\ WithinQuota(t, d)
    /\ Becomes(r, {"new"}, "admitted")
    /\ tenant' = [tenant EXCEPT ![r] = t]
    /\ day' = [day EXCEPT ![r] = d]
    /\ UNCHANGED asked

Refuse(r, t, d) ==
    /\ ~WithinQuota(t, d)
    /\ Becomes(r, {"new"}, "refused")
    /\ UNCHANGED <<tenant, day, asked>>

\* Each of these leaves the run's tenant and day alone.
Advance(r) ==
    \/ Becomes(r, {"admitted"}, "queued") /\ UNCHANGED asked
    \/ Becomes(r, {"queued"}, "running") /\ UNCHANGED asked
    \/ Becomes(r, {"queued"}, "canceled") /\ UNCHANGED asked
    \/ /\ phase[r] = "running"
       /\ asked' = [asked EXCEPT ![r] = TRUE]
       /\ UNCHANGED phase
    \/ /\ \E end \in IF asked[r] THEN {"canceled"} ELSE Over :
             Becomes(r, {"running"}, end)
       /\ UNCHANGED asked
    \/ Becomes(r, {"queued"}, "failed") /\ UNCHANGED asked   \* claimed at a crash

LifeNext ==
    \E r \in Runs :
        \/ \E t \in Tenants, d \in Days : Admit(r, t, d) \/ Refuse(r, t, d)
        \/ Advance(r) /\ UNCHANGED <<tenant, day>>

LifeSpec == LifeInit /\ [][LifeNext]_lifeVars

=============================================================================
