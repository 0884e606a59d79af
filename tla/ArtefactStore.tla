--------------------------- MODULE ArtefactStore ---------------------------
(***************************************************************************)
(* The artefact service (services/artefact/src/main.py, policy.py) over    *)
(* Postgres.  A request is one transaction (tenant_conn) at the default    *)
(* isolation READ COMMITTED: each statement sees what is committed when it *)
(* runs and what its own transaction wrote.  An action is one statement,   *)
(* except that the last statements of a transaction, whose effects nobody  *)
(* sees before the COMMIT and whose locks nobody else holds, are one       *)
(* action with it.                                                         *)
(*                                                                         *)
(*   table              variable                                           *)
(*   artefacts          art; rows are never deleted                        *)
(*   artefact_history   history                                            *)
(*   idempotency_keys   keyed                                              *)
(*                                                                         *)
(* A payload is named by the request that wrote it.  The values of the     *)
(* other columns do not matter to what follows and are left out.           *)
(***************************************************************************)
EXTENDS SequencesExt

CONSTANTS
    Requests,      \* bound: the requests ever made
    Tenants,
    Ids,           \* artefact ids
    Keys,          \* idempotency keys
    Types,         \* artefact types
    TypeOf,        \* the type of the artefact an id is used for
    Generated,     \* an item that leaves its id to the service
    FreshIds,      \* the ids _gen_id may return
    NoKey,         \* an item without an idempotency key
    None,          \* no artefact
    Menu,          \* the calls a request may be
    PolicyOf       \* the policy in the payload a request writes

Roles == {"agent", "user", "system", "service"}
States == {"draft", "in_review", "approved", "archived"}

\* roles_any empty: no role gating.
Transition == [from : States, to : States, roles : SUBSET Roles]
Policy == [applies_to : SUBSET Types, transitions : SUBSET Transition]

Item == [id : Ids \cup {Generated}, key : Keys \cup {NoKey}]

\* A seed document's id is <type>:seed:<name> and its key seed:<sha>: it has
\* both, and nothing keeps a create of any tenant from using them too.
SeedItem == [id : Ids, key : Keys]

Call == [op : {"create"}, tenant : Tenants, items : Seq(Item)]
        \cup [op : {"seed"}, tenant : Tenants, items : Seq(SeedItem)]
        \cup [op : {"patch"}, tenant : Tenants, id : Ids]
        \cup [op : {"transition"}, tenant : Tenants, id : Ids, to : States,
              role : Roles]

Row == [tenant : Tenants, version : Nat, state : States, payload : Requests,
        creator : Requests]

ASSUME ArtefactAssumption ==
    /\ TypeOf \in [Ids -> Types]
    /\ FreshIds \subseteq Ids
    /\ Generated \notin Ids
    /\ None \notin Ids /\ None \notin Row
    /\ NoKey \notin Keys
    /\ PolicyOf \in [Requests -> Policy]
    /\ \A q \in Requests : \A c \in Menu[q] : c \in Call

VARIABLES
    art,       \* the committed row of each id, or None
    history,   \* the committed history rows
    keyed,     \* the artefact of each (tenant, key), or None
    begun,     \* the requests in the order their transactions began
    call,      \* what each request asks for
    step,      \* the statement it is about to send
    chosen,    \* create: the id of the item it is at
    wrote,     \* create: the rows it has inserted and not committed
    wroteKeys, \* create: the idempotency_keys rows likewise
    answer,    \* create: the artefacts it returns, in order
    cur        \* patch, transition: the row it has read

tables == <<art, history, keyed>>
vars == <<tables, begun, call, step, chosen, wrote, wroteKeys, answer, cur>>

NoKeys == [k \in Keys |-> None]

NoCall == [op |-> "none"]

Creates(q) == call[q].op \in {"create", "seed"}

Init ==
    /\ art = [a \in Ids |-> None]
    /\ history = {}
    /\ keyed = [t \in Tenants |-> [k \in Keys |-> None]]
    /\ begun = <<>>
    /\ call = [q \in Requests |-> NoCall]
    /\ step = [q \in Requests |-> "new"]
    /\ chosen = [q \in Requests |-> None]
    /\ wrote = [q \in Requests |-> {}]
    /\ wroteKeys = [q \in Requests |-> NoKeys]
    /\ answer = [q \in Requests |-> <<>>]
    /\ cur = [q \in Requests |-> None]

Goes(q, from, to) == step[q] = from /\ step' = [step EXCEPT ![q] = to]

\* Row-level security: a tenant sees its own rows.
Visible(q, a) == art[a] # None /\ art[a].tenant = call[q].tenant

\* A transaction sees the rows it has inserted too.
Sees(q, a) == a \in wrote[q] \/ Visible(q, a)

FirstStep(c) == IF c.op \in {"patch", "transition"} THEN "read"
                ELSE IF c.items = <<>> THEN "commit" ELSE "key"

\* BEGIN and set_config; created_at of what it inserts is the time of this.
Begin(q) ==
    /\ \E c \in Menu[q] :
          call' = [call EXCEPT ![q] = c] /\ Goes(q, "new", FirstStep(c))
    /\ begun' = Append(begun, q)
    /\ UNCHANGED <<tables, chosen, wrote, wroteKeys, answer, cur>>

-----------------------------------------------------------------------------
(* _do_create, for each item of create_artefact and bulk_create; _seed does  *)
(* the same with items of its own, and stores the key after a conflict too   *)

ThisItem(q) == call[q].items[Len(answer[q]) + 1]

\* The item is answered with a; the next one, or the COMMIT, follows.
AnswerItem(q, a) ==
    /\ answer' = [answer EXCEPT ![q] = Append(@, a)]
    /\ step' = [step EXCEPT ![q] =
                   IF Len(answer[q]) + 1 = Len(call[q].items) THEN "commit" ELSE "key"]

\* What the SELECT on idempotency_keys finds: at most one artefact.
Found(q, k) ==
    {a \in Ids : k # NoKey /\ a \in {wroteKeys[q][k], keyed[call[q].tenant][k]}}

\* _fetch_artefact of the artefact a key names: null, which is answered with
\* 500 after the COMMIT, for a row of another tenant.  _seed does not fetch it.
Fetched(q, a) == IF call[q].op = "seed" \/ Sees(q, a) THEN a ELSE None

\* A generated id is nobody else's.
Unused(a) ==
    art[a] = None /\ \A q \in Requests : a \notin wrote[q] /\ chosen[q] # a

LookupKey(q) ==
    LET i == ThisItem(q) IN
    /\ step[q] = "key"
    /\ \/ /\ \E a \in Found(q, i.key) : AnswerItem(q, Fetched(q, a))
          /\ UNCHANGED chosen
       \/ /\ Found(q, i.key) = {}
          /\ \E a \in IF i.id = Generated THEN {x \in FreshIds : Unused(x)} ELSE {i.id} :
                chosen' = [chosen EXCEPT ![q] = a]
          /\ Goes(q, "key", "insert")
          /\ UNCHANGED answer
    /\ UNCHANGED <<tables, begun, call, wrote, wroteKeys, cur>>

\* Who else has inserted the row, or the key, and not committed: an INSERT of
\* the same one waits for that transaction to end.
RowHolders(q, a) == {x \in Requests \ {q} : a \in wrote[x]}
KeyHolders(q, k) ==
    {x \in Requests \ {q} : /\ Creates(x)
                            /\ call[x].tenant = call[q].tenant
                            /\ wroteKeys[x][k] # None}

Holders(q) ==
    CASE step[q] = "insert" -> RowHolders(q, chosen[q])
      [] step[q] = "keep" -> KeyHolders(q, ThisItem(q).key)
      [] OTHER -> {}

\* Faulty variants for mutation runs: without the transaction, each INSERT is
\* committed at once; with DO UPDATE, a conflict overwrites the row.
InsertRowAtOnce(q) ==
    LET a == chosen[q] IN
    /\ step[q] = "insert"
    /\ Holders(q) = {}
    /\ art' = IF art[a] = None
              THEN [art EXCEPT ![a] = [tenant |-> call[q].tenant, version |-> 1, payload |-> q,
                                       creator |-> q, state |-> "draft"]]
              ELSE art
    /\ AnswerItem(q, a)
    /\ UNCHANGED <<history, keyed, begun, call, chosen, wrote, wroteKeys, cur>>

InsertRowUpsert(q) ==
    LET a == chosen[q] IN
    /\ step[q] = "insert"
    /\ Holders(q) = {}
    /\ wrote' = [wrote EXCEPT ![q] = @ \cup {a}]
    /\ AnswerItem(q, a)
    /\ UNCHANGED <<tables, begun, call, chosen, wroteKeys, cur>>

\* INSERT ... ON CONFLICT (id) DO NOTHING, and the SELECT after a conflict: a
\* row of another tenant is in the way and not to be seen, which raises.
InsertRow(q) ==
    LET a == chosen[q] IN
    /\ step[q] = "insert"
    /\ Holders(q) = {}
    /\ \/ /\ art[a] = None /\ a \notin wrote[q]
          /\ wrote' = [wrote EXCEPT ![q] = @ \cup {a}]
          /\ IF ThisItem(q).key = NoKey THEN AnswerItem(q, a)
             ELSE Goes(q, "insert", "keep") /\ UNCHANGED answer
       \/ /\ call[q].op = "create"
          /\ Sees(q, a)
          /\ AnswerItem(q, a)
          /\ UNCHANGED wrote
       \/ /\ call[q].op = "create"
          /\ art[a] # None /\ ~Visible(q, a)
          /\ Goes(q, "insert", "raised")
          /\ UNCHANGED <<wrote, answer>>
       \/ /\ call[q].op = "seed"
          /\ a \in wrote[q] \/ art[a] # None
          /\ Goes(q, "insert", "keep")
          /\ UNCHANGED <<wrote, answer>>
    /\ UNCHANGED <<tables, begun, call, chosen, wroteKeys, cur>>

\* Faulty variant: the key is stored on a connection of its own.
InsertKeyAtOnce(q) ==
    LET k == ThisItem(q).key IN
    /\ step[q] = "keep"
    /\ keyed' = [keyed EXCEPT ![call[q].tenant][k] = IF @ = None THEN chosen[q] ELSE @]
    /\ AnswerItem(q, chosen[q])
    /\ UNCHANGED <<art, history, begun, call, chosen, wrote, wroteKeys, cur>>

\* INSERT INTO idempotency_keys ... ON CONFLICT DO NOTHING
InsertKey(q) ==
    LET k == ThisItem(q).key IN
    /\ step[q] = "keep"
    /\ Holders(q) = {}
    /\ wroteKeys' = IF Found(q, k) = {} THEN [wroteKeys EXCEPT ![q][k] = chosen[q]]
                    ELSE wroteKeys
    /\ AnswerItem(q, chosen[q])
    /\ UNCHANGED <<tables, begun, call, chosen, wrote, cur>>

NewRow(q) == [tenant |-> call[q].tenant, version |-> 1, payload |-> q, creator |-> q,
              state |-> IF call[q].op = "seed" THEN "approved" ELSE "draft"]

CommitCreate(q) ==
    /\ Goes(q, "commit", "done")
    /\ art' = [a \in Ids |-> IF a \in wrote[q] THEN NewRow(q) ELSE art[a]]
    /\ keyed' = [keyed EXCEPT ![call[q].tenant] =
                    [k \in Keys |-> IF wroteKeys[q][k] # None THEN wroteKeys[q][k]
                                    ELSE @[k]]]
    /\ wrote' = [wrote EXCEPT ![q] = {}]
    /\ wroteKeys' = [wroteKeys EXCEPT ![q] = NoKeys]
    /\ UNCHANGED <<history, begun, call, chosen, answer, cur>>

-----------------------------------------------------------------------------
(* patch_artefact and transition_artefact: SELECT, decide, INSERT, UPDATE    *)

ReadRow(q) ==
    LET a == call[q].id IN
    /\ step[q] = "read"
    /\ \/ /\ Visible(q, a)
          /\ cur' = [cur EXCEPT ![q] = art[a]]
          /\ Goes(q, "read", IF call[q].op = "patch" THEN "write" ELSE "policy")
       \/ /\ ~Visible(q, a)
          /\ Goes(q, "read", "not_found")
          /\ UNCHANGED cur
    /\ UNCHANGED <<tables, begun, call, chosen, wrote, wroteKeys, answer>>

DefaultPolicy ==
    LET may(from, to, roles) == [from |-> from, to |-> to, roles |-> roles] IN
    [applies_to |-> Types,
     transitions |-> {may("draft", "in_review", {"agent", "user"}),
                      may("draft", "archived", {"user"}),
                      may("in_review", "approved", {"user"}),
                      may("in_review", "draft", {"user"}),
                      may("in_review", "archived", {"user"}),
                      may("approved", "archived", {"user"})}]

\* The policy artefacts of tenant t in one of the states S that apply to type.
Applicable(t, type, S) ==
    {a \in Ids : /\ TypeOf[a] = "approval_policy"
                 /\ art[a] # None
                 /\ art[a].tenant = t
                 /\ art[a].state \in S
                 /\ type \in PolicyOf[art[a].payload].applies_to}

Age(a) == CHOOSE n \in DOMAIN begun : begun[n] = art[a].creator

\* ORDER BY created_at DESC, the first one: rows of one bulk have the same
\* time.  Without any, the default.
Resolved(t, type, S) ==
    LET A == Applicable(t, type, S)
        newest == {a \in A : \A b \in A : Age(b) <= Age(a)}
    IN  IF A = {} THEN {DefaultPolicy} ELSE {PolicyOf[art[a].payload] : a \in newest}

\* Faulty variant: the roles are not looked at.
AllowsAnyRole(policy, from, to, role) ==
    \E tr \in policy.transitions : tr.from = from /\ tr.to = to

\* validate_transition
Allows(policy, from, to, role) ==
    \E tr \in policy.transitions :
        tr.from = from /\ tr.to = to /\ (tr.roles = {} \/ role \in tr.roles)

\* The SELECT of the policies; TransitionDenied is answered with 409.
ResolvePolicy(q) ==
    /\ step[q] = "policy"
    /\ \E policy \in Resolved(call[q].tenant, TypeOf[call[q].id], {"approved"}) :
          Goes(q, "policy",
               IF Allows(policy, cur[q].state, call[q].to, call[q].role)
               THEN "write" ELSE "denied")
    /\ UNCHANGED <<tables, begun, call, chosen, wrote, wroteKeys, answer, cur>>

HistoryRow(q) ==
    [artefact |-> call[q].id, by |-> q, op |-> call[q].op,
     version |-> cur[q].version, state |-> cur[q].state, payload |-> cur[q].payload]

\* Faulty variants: the UPDATE stores the row as it was read, changed; the new
\* version is computed from the one read; transitions are not audited; a patch
\* loses its payload.
WriteWholeRow(q) ==
    LET a == call[q].id IN
    /\ Goes(q, "write", "done")
    /\ history' = history \cup {HistoryRow(q)}
    /\ art' = [art EXCEPT ![a] =
                  IF call[q].op = "patch"
                  THEN [cur[q] EXCEPT !.version = art[a].version + 1, !.payload = q]
                  ELSE [cur[q] EXCEPT !.version = art[a].version, !.state = call[q].to]]
    /\ UNCHANGED <<keyed, begun, call, chosen, wrote, wroteKeys, answer, cur>>

WriteReadVersion(q) ==
    LET a == call[q].id IN
    /\ Goes(q, "write", "done")
    /\ history' = history \cup {HistoryRow(q)}
    /\ art' = [art EXCEPT ![a] =
                  IF call[q].op = "patch"
                  THEN [@ EXCEPT !.version = cur[q].version + 1, !.payload = q]
                  ELSE [@ EXCEPT !.state = call[q].to]]
    /\ UNCHANGED <<keyed, begun, call, chosen, wrote, wroteKeys, answer, cur>>

WriteUnaudited(q) ==
    LET a == call[q].id IN
    /\ Goes(q, "write", "done")
    /\ IF call[q].op = "patch"
       THEN /\ history' = history \cup {HistoryRow(q)}
            /\ art' = [art EXCEPT ![a].version = @ + 1, ![a].payload = q]
       ELSE /\ art' = [art EXCEPT ![a].state = call[q].to]
            /\ UNCHANGED history
    /\ UNCHANGED <<keyed, begun, call, chosen, wrote, wroteKeys, answer, cur>>

WriteNoPayload(q) ==
    LET a == call[q].id IN
    /\ Goes(q, "write", "done")
    /\ history' = history \cup {HistoryRow(q)}
    /\ art' = [art EXCEPT ![a].version = @ + 1, ![a].payload = None]
    /\ UNCHANGED <<keyed, begun, call, chosen, wrote, wroteKeys, answer, cur>>

\* UPDATE artefacts SET ..., of the row as it is.
Updated(q, row) ==
    IF call[q].op = "patch" THEN [row EXCEPT !.version = @ + 1, !.payload = q]
    ELSE [row EXCEPT !.state = call[q].to]

\* INSERT INTO artefact_history what was read, UPDATE the row as it is now
\* (the UPDATE waits for a concurrent one and then sees its result), COMMIT.
Write(q) ==
    LET a == call[q].id IN
    /\ Goes(q, "write", "done")
    /\ history' = history \cup {HistoryRow(q)}
    /\ art' = [art EXCEPT ![a] = Updated(q, @)]
    /\ UNCHANGED <<keyed, begun, call, chosen, wrote, wroteKeys, answer, cur>>

-----------------------------------------------------------------------------
(* ROLLBACK: an exception, the end of the process, or Postgres choosing the  *)
(* transaction to break a deadlock                                           *)

\* Faulty variant: an exception leaves the transaction open.
OpenUnlessRaised(q) == step[q] \in {"key", "insert", "keep", "commit", "read", "policy", "write"}

Open(q) == step[q] \in {"key", "insert", "keep", "commit", "read", "policy", "write",
                        "raised"}

Rollback(q) ==
    /\ step' = [step EXCEPT ![q] = "failed"]
    /\ wrote' = [wrote EXCEPT ![q] = {}]
    /\ wroteKeys' = [wroteKeys EXCEPT ![q] = NoKeys]
    /\ UNCHANGED <<tables, begun, call, chosen, answer, cur>>

Fail(q) == Open(q) /\ Rollback(q)

\* Everyone in S waits for someone in S.
Deadlocked(S) == \A x \in S : Holders(x) \cap S # {}

BreakDeadlock(q) ==
    /\ \E S \in SUBSET Requests : q \in S /\ Deadlocked(S)
    /\ Rollback(q)

-----------------------------------------------------------------------------

Statement(q) ==
    \/ LookupKey(q) \/ InsertRow(q) \/ InsertKey(q) \/ CommitCreate(q)
    \/ ReadRow(q) \/ ResolvePolicy(q) \/ Write(q)

Next == \E q \in Requests :
            Begin(q) \/ Statement(q) \/ Fail(q) \/ BreakDeadlock(q)

Spec == Init /\ [][Next]_vars

\* A transaction that can go on does; one that raised rolls back; Postgres
\* breaks every deadlock, choosing some transaction of it.
FairSpec ==
    /\ Spec
    /\ \A q \in Requests : WF_vars(Statement(q)) /\ WF_vars(step[q] = "raised" /\ Fail(q))
    /\ WF_vars(\E q \in Requests : BreakDeadlock(q))

-----------------------------------------------------------------------------
(* Properties *)

Ended == {"done", "failed", "not_found", "denied"}

\* The type of the tables and of the transactions.
TypeOK ==
    /\ art \in [Ids -> Row \cup {None}]
    /\ \A h \in history : /\ h.artefact \in Ids
                          /\ h.by \in Requests
                          /\ h.version \in Nat
                          /\ h.state \in States
                          /\ h.payload \in Requests
    /\ keyed \in [Tenants -> [Keys -> Ids \cup {None}]]
    /\ begun \in Seq(Requests)
    /\ call \in [Requests -> Call \cup {NoCall}]
    /\ \A q \in Requests : call[q] \in Menu[q] \cup {NoCall}
    /\ step \in [Requests -> {"new", "key", "insert", "keep", "commit", "read", "policy",
                              "write", "raised"} \cup Ended]
    /\ chosen \in [Requests -> Ids \cup {None}]
    /\ wrote \in [Requests -> SUBSET Ids]
    /\ wroteKeys \in [Requests -> [Keys -> Ids \cup {None}]]
    /\ answer \in [Requests -> Seq(Ids \cup {None})]
    /\ cur \in [Requests -> Row \cup {None}]

\* A seed document of tenant t, loaded, that stores key k for id a.
SeedStored(t, k, a) ==
    \E q \in Requests : /\ call[q].op = "seed" /\ call[q].tenant = t /\ step[q] = "done"
                        /\ [id |-> a, key |-> k] \in Range(call[q].items)

\* An idempotency key names an artefact that exists, whichever of the
\* transactions that used the key commit or roll back, and it is its tenant's
\* own: only a seed may have stored a key for a row another tenant holds under
\* the seed's id.
KeysSound ==
    \A t \in Tenants, k \in Keys :
        LET a == keyed[t][k] IN
        a # None => art[a] # None /\ (art[a].tenant = t \/ SeedStored(t, k, a))

\* A key of tenant t that a seed has stored for a row of another tenant.
NamesForeign(t, k) ==
    \E a \in Ids : SeedStored(t, k, a) /\ art[a] # None /\ art[a].tenant # t

\* A create that committed is there, with every artefact its answer names, the
\* caller's own, and names one for every item but those that replay a key of
\* NamesForeign; one that did not commit has left nothing, however many items
\* of the bulk it had inserted.
AllOrNothing ==
    /\ \A q \in Requests :
          Creates(q) /\ step[q] = "done" =>
              /\ Len(answer[q]) = Len(call[q].items)
              /\ call[q].op = "create" =>
                    \A i \in DOMAIN answer[q] :
                        \/ answer[q][i] # None /\ Visible(q, answer[q][i])
                        \/ /\ answer[q][i] = None
                           /\ NamesForeign(call[q].tenant, call[q].items[i].key)
    /\ \A a \in Ids : art[a] # None => step[art[a].creator] = "done"

\* A create never changes a row that is there: a replayed create, and one that
\* races it, bumps no version and resets no state.
CreateNeverMutates ==
    [][\A a \in Ids :
          art[a] # None /\ art'[a] # art[a] =>
              \E q \in Requests : /\ call[q].op \in {"patch", "transition"}
                                  /\ call[q].id = a
                                  /\ step[q] # "done" /\ step'[q] = "done"]_vars

\* The patches of artefact a in the audit table.
Patches(a) == {h \in history : h.artefact = a /\ h.op = "patch"}

\* The version counts every patch that committed, those that read the same
\* version and overlapped included.
VersionCountsPatches ==
    \A a \in Ids : art[a] # None => art[a].version = 1 + Cardinality(Patches(a))

\* Every value a row has is accounted for: its state and its payload are those
\* it was created with or those of a request the audit table names.
AuditAccounts ==
    \A a \in Ids :
        art[a] # None =>
            /\ \/ art[a].payload = art[a].creator
               \/ \E h \in Patches(a) : h.by = art[a].payload
            /\ \/ art[a].state = NewRow(art[a].creator).state
               \/ \E h \in history : /\ h.artefact = a
                                     /\ h.op = "transition"
                                     /\ call[h.by].to = art[a].state

\* A patch that overlaps a transition is not undone by it, nor the reverse: a
\* write changes payload and version together, or the state, never both.
OneAspectPerWrite ==
    [][\A a \in Ids :
          art[a] # None /\ art'[a] # art[a] =>
              \/ /\ art'[a].version = art[a].version + 1
                 /\ art'[a].payload # art[a].payload
                 /\ art'[a].state = art[a].state
              \/ art'[a] = [art[a] EXCEPT !.state = art'[a].state]]_vars

\* Where every policy asks for a user's approval, nothing but the seed is
\* approved without one, whatever agents do and however requests interleave.
ApprovedByUser ==
    (\A policy \in {DefaultPolicy} \cup Range(PolicyOf) :
        \A tr \in policy.transitions : tr.to = "approved" => tr.roles = {"user"})
    => \A a \in Ids :
          art[a] # None /\ art[a].state = "approved" =>
              \/ call[art[a].creator].op = "seed"
              \/ \E h \in history : /\ h.artefact = a
                                    /\ h.op = "transition"
                                    /\ call[h.by].to = "approved"
                                    /\ call[h.by].role = "user"

\* Every request ends, although two bulks may wait for each other's rows.
RequestsEnd == <>[](\A q \in Requests : step[q] # "new" => step[q] \in Ended)

-----------------------------------------------------------------------------
(* What the documents say and the code does not do                           *)

\* The substrate design: a transition is validated against the policy.  The
\* state it leaves is then one the policy lets it leave.
TransitionsFollowPolicy ==
    [][\A a \in Ids :
          art[a] # None /\ art'[a].state # art[a].state =>
              \E policy \in {DefaultPolicy} \cup Range(PolicyOf), role \in Roles :
                  Allows(policy, art[a].state, art'[a].state, role)]_vars

\* The substrate design: a duplicate idempotency key returns the existing row.
SameKeySameArtefact ==
    \A q, x \in Requests :
        /\ Creates(q) /\ step[q] = "done"
        /\ Creates(x) /\ step[x] = "done"
        /\ call[q].tenant = call[x].tenant
        => \A i \in DOMAIN answer[q], j \in DOMAIN answer[x] :
              call[q].items[i].key = call[x].items[j].key /\ call[q].items[i].key # NoKey
              => answer[q][i] = answer[x][j]

=============================================================================
