-------------------------- MODULE MCArtefactStore --------------------------
(* ArtefactStore for TLC: the requests of each run, as menus of calls.        *)
EXTENDS ArtefactStore

CONSTANTS q1, q2, q3, q4, t1, t2, a1, a2, a3, pol, k1, k2

TwoTenants == {t1, t2}
ThreeRequests == {q1, q2, q3}
FourRequests == {q1, q2, q3, q4}
Everything == {a1, a2, a3, pol}
CaseAndPolicy == {a1, pol}
PolicyAndTwo == {pol, a2, a3}
TwoKeys == {k1, k2}
OneFresh == {a3}
TwoFresh == {a2, a3}
NoFresh == {}

SomeTypes == {"test_case", "approval_policy"}
TypesOfIds == [a \in Ids |-> IF a = pol THEN "approval_policy" ELSE "test_case"]

\* A policy in which what was approved may be reopened by a user.
Reopening ==
    [applies_to |-> {"test_case"},
     transitions |-> {[from |-> "draft", to |-> "in_review", roles |-> {}],
                      [from |-> "in_review", to |-> "approved", roles |-> {"user"}],
                      [from |-> "approved", to |-> "in_review", roles |-> {"user"}]}]

Policies == [q \in Requests |-> Reopening]

Make(t, items) == [op |-> "create", tenant |-> t, items |-> items]
Seed(items) == [op |-> "seed", tenant |-> t1, items |-> items]
I(id, key) == [id |-> id, key |-> key]
Patch(t, a) == [op |-> "patch", tenant |-> t, id |-> a]
Move(t, a, to, role) ==
    [op |-> "transition", tenant |-> t, id |-> a, to |-> to, role |-> role]

\* Bulks that meet each other's rows in both orders, a replay, a generated id
\* under a key another request uses, another tenant's id, two boots at once, a
\* seed whose id another tenant has and a bulk that replays its key.
CreateMenu ==
    (q1 :> {Make(t1, <<I(a1, k1), I(a2, k2)>>), Make(t2, <<I(pol, NoKey)>>)}) @@
    (q2 :> {Make(t1, <<I(a2, k2), I(a1, k1)>>), Make(t1, <<I(a1, k1), I(a2, k2)>>),
            Make(t1, <<I(a2, k1), I(a1, k2)>>), Seed(<<I(pol, k2)>>)}) @@
    (q3 :> {Make(t1, <<I(Generated, k1)>>), Make(t1, <<I(a1, NoKey), I(a1, k1)>>),
            Make(t2, <<I(a1, k1)>>), Make(t1, <<I(a1, NoKey), I(a2, k2)>>),
            Patch(t1, a1), Make(t1, <<>>),
            Seed(<<I(pol, k2)>>)})

\* Two documents, created or seeded, then three writers of them.
WriteMenu ==
    (q1 :> {Make(t1, <<I(a1, NoKey), I(pol, NoKey)>>), Seed(<<I(a1, k1), I(pol, k2)>>)}) @@
    [q \in {q2, q3, q4} |->
        {Patch(t1, a1), Patch(t1, pol), Move(t1, a1, "in_review", "agent"),
         Move(t1, a1, "approved", "agent"), Move(t1, a1, "approved", "user"),
         Move(t1, pol, "archived", "user")}]

Writers == Permutations({q2, q3, q4})

\* Two users and a test case in review.
RaceMenu ==
    (q1 :> {Make(t1, <<I(a1, NoKey)>>)}) @@
    (q2 :> {Move(t1, a1, "in_review", "agent"), Patch(t1, a1)}) @@
    (q3 :> {Move(t1, a1, "approved", "user"), Patch(t1, a1)}) @@
    (q4 :> {Move(t1, a1, "draft", "user"), Patch(t1, a1)})

\* A create without an id and its retry; a draft of a policy.
RetryMenu ==
    (q1 :> {Make(t1, <<I(Generated, k1)>>)}) @@
    (q2 :> {Make(t1, <<I(Generated, k1)>>)}) @@
    (q3 :> {Make(t1, <<I(pol, NoKey)>>)})

=============================================================================
