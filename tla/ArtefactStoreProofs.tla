------------------------ MODULE ArtefactStoreProofs ------------------------
(***************************************************************************)
(* Proofs about ArtefactStore, for any number of requests, tenants, ids    *)
(* and keys.                                                               *)
(***************************************************************************)
EXTENDS ArtefactStore, FiniteSetTheorems, TLAPS

-----------------------------------------------------------------------------
(* Types *)

\* A call a request has made is one of the calls there are.
LEMMA MenuCall ==
    ASSUME TypeOK, NEW q \in Requests, call[q] # NoCall
    PROVE  call[q] \in Menu[q] /\ call[q] \in Call
BY ArtefactAssumption DEF TypeOK

\* What a call at work is, by the statement it is about to send.
StepOK ==
    \A q \in Requests :
        /\ step[q] \in {"key", "insert", "keep", "commit"} => Creates(q)
        /\ step[q] \in {"read", "policy", "write"} => call[q].op \in {"patch", "transition"}
        /\ step[q] = "policy" => call[q].op = "transition"
        /\ step[q] \in {"policy", "write"} => cur[q] # None /\ art[call[q].id] # None
        /\ step[q] \in {"insert", "keep"} => chosen[q] # None
        /\ step[q] \in {"key", "insert", "keep"} => Len(answer[q]) < Len(call[q].items)
        /\ step[q] = "keep" => ThisItem(q).key # NoKey
        /\ step[q] = "new" => answer[q] = <<>>
        /\ step[q] = "new" <=> call[q] = NoCall

Typed == TypeOK /\ StepOK

\* The items of a seed are items like those of a create.
LEMMA CallItems ==
    ASSUME NEW c \in Call, c.op \in {"create", "seed"}
    PROVE  c.items \in Seq(Item) /\ (c.op = "seed" => c.items \in Seq(SeedItem))
<1>1. CASE c.op = "create"
  BY <1>1 DEF Call
<1>2. CASE c.op = "seed"
  <2>1. c.items \in Seq(SeedItem)
    BY <1>2 DEF Call
  <2>2. c.items \in [1..Len(c.items) -> SeedItem]
    BY <2>1
  <2>3. SeedItem \subseteq Item
    BY DEF SeedItem, Item
  <2>4. c.items \in [1..Len(c.items) -> Item]
    BY <2>2, <2>3
  <2> QED
    BY <2>1, <2>4
<1> QED
  BY <1>1, <1>2

\* The item a create is at is an item.
LEMMA ThisItemType ==
    ASSUME Typed, NEW q \in Requests, step[q] \in {"key", "insert", "keep"}
    PROVE  /\ ThisItem(q) \in Item
           /\ Len(answer[q]) + 1 \in DOMAIN call[q].items
<1>1. Creates(q) /\ Len(answer[q]) < Len(call[q].items)
  BY DEF Typed, StepOK
<1>2. call[q] # NoCall
  BY <1>1 DEF Creates, NoCall
<1>3. call[q] \in Call
  BY <1>2, MenuCall DEF Typed
<1>4. call[q].items \in Seq(Item)
  BY <1>1, <1>3, CallItems DEF Creates
<1>5. answer[q] \in Seq(Ids \cup {None})
  BY DEF Typed, TypeOK
<1> QED
  BY <1>1, <1>4, <1>5 DEF ThisItem

LEMMA InitTyped == Init => Typed
<1> SUFFICES ASSUME Init PROVE Typed
  OBVIOUS
<1>1. TypeOK
  BY DEF Init, TypeOK, NoKeys, Ended
<1>2. StepOK
  BY DEF Init, StepOK, NoCall, Creates
<1> QED
  BY <1>1, <1>2 DEF Typed

\* Answering the item a create is at.
LEMMA AnswerTyped ==
    ASSUME Typed, NEW q \in Requests, NEW a \in Ids \cup {None}, AnswerItem(q, a),
           step[q] \in {"key", "insert", "keep"}, call' = call, cur' = cur
    PROVE  /\ answer' \in [Requests -> Seq(Ids \cup {None})]
           /\ step' \in [Requests -> {"new", "key", "insert", "keep", "commit", "read",
                                     "policy", "write", "raised"} \cup Ended]
           /\ step'[q] \in {"key", "commit"}
           /\ step'[q] = "key" => Len(answer'[q]) < Len(call[q].items)
           /\ \A x \in Requests \ {q} : step'[x] = step[x] /\ answer'[x] = answer[x]
<1>1. /\ answer[q] \in Seq(Ids \cup {None})
      /\ answer \in [Requests -> Seq(Ids \cup {None})]
      /\ step \in [Requests -> {"new", "key", "insert", "keep", "commit", "read",
                                "policy", "write", "raised"} \cup Ended]
  BY DEF Typed, TypeOK
<1>2. /\ Append(answer[q], a) \in Seq(Ids \cup {None})
      /\ Len(Append(answer[q], a)) = Len(answer[q]) + 1
  BY <1>1
<1>3. Len(answer[q]) < Len(call[q].items) /\ Len(answer[q]) \in Nat
  BY <1>1 DEF Typed, StepOK
<1>4. call[q] # NoCall /\ Creates(q)
  BY DEF Typed, StepOK, Creates, NoCall
<1>5. call[q].items \in Seq(Item)
  BY <1>4, MenuCall, CallItems DEF Typed, Creates
<1>6. Len(call[q].items) \in Nat
  BY <1>5
<1> QED
  BY <1>1, <1>2, <1>3, <1>6 DEF AnswerItem

\* A step of a request.
StepOf(q) == Begin(q) \/ Statement(q) \/ Fail(q) \/ BreakDeadlock(q)

\* It leaves the other requests alone.
LEMMA OthersAlone ==
    ASSUME Typed, NEW q \in Requests, StepOf(q)
    PROVE  /\ \A x \in Requests \ {q} :
                 /\ call'[x] = call[x]
                 /\ step'[x] = step[x] /\ chosen'[x] = chosen[x] /\ wrote'[x] = wrote[x]
                 /\ wroteKeys'[x] = wroteKeys[x] /\ answer'[x] = answer[x]
                 /\ cur'[x] = cur[x]
<1> USE DEF Typed, TypeOK
<1>1. CASE LookupKey(q) BY <1>1 DEF LookupKey, AnswerItem, Goes
<1>2. CASE InsertRow(q) BY <1>2 DEF InsertRow, AnswerItem, Goes
<1>3. CASE InsertKey(q) BY <1>3 DEF InsertKey, AnswerItem
<1>4. CASE CommitCreate(q) BY <1>4 DEF CommitCreate, Goes
<1>5. CASE ReadRow(q) BY <1>5 DEF ReadRow, Goes
<1>6. CASE ResolvePolicy(q) BY <1>6 DEF ResolvePolicy, Goes
<1>7. CASE Write(q) BY <1>7 DEF Write, Goes
<1>8. CASE Rollback(q) BY <1>8 DEF Rollback
<1>9. CASE Begin(q) BY <1>9 DEF Begin, Goes
<1> QED
  BY <1>1, <1>2, <1>3, <1>4, <1>5, <1>6, <1>7, <1>8, <1>9
  DEF StepOf, Statement, Fail, BreakDeadlock

\* So what StepOK says has to be shown of q only.
StepOKOf(q) ==
    /\ step[q] \in {"key", "insert", "keep", "commit"} => Creates(q)
    /\ step[q] \in {"read", "policy", "write"} => call[q].op \in {"patch", "transition"}
    /\ step[q] = "policy" => call[q].op = "transition"
    /\ step[q] \in {"policy", "write"} => cur[q] # None /\ art[call[q].id] # None
    /\ step[q] \in {"insert", "keep"} => chosen[q] # None
    /\ step[q] \in {"key", "insert", "keep"} => Len(answer[q]) < Len(call[q].items)
    /\ step[q] = "keep" => ThisItem(q).key # NoKey
    /\ step[q] = "new" => answer[q] = <<>>
    /\ step[q] = "new" <=> call[q] = NoCall

LEMMA OnlyQ ==
    ASSUME Typed, NEW q \in Requests, StepOf(q), StepOKOf(q)',
           \A a \in Ids : art[a] # None => art'[a] # None
    PROVE  StepOK'
<1> SUFFICES ASSUME NEW x \in Requests PROVE StepOKOf(x)'
  BY DEF StepOK, StepOKOf
<1>1. CASE x = q
  BY <1>1
<1>2. CASE x # q
  <2>1. StepOKOf(x)
    BY DEF Typed, StepOK, StepOKOf
  <2>2. step[x] \in {"policy", "write"} => call[x].id \in Ids
    BY <2>1, MenuCall DEF Typed, StepOKOf, Call
  <2> QED
    BY <1>2, <2>1, <2>2, OthersAlone DEF StepOKOf, Creates, ThisItem
<1> QED
  BY <1>1, <1>2

\* Where a request that has begun stands.
LEMMA Begun ==
    ASSUME Typed, NEW q \in Requests, step[q] # "new"
    PROVE  /\ call[q] # NoCall /\ call[q] \in Call
           /\ Creates(q) => /\ call[q].tenant \in Tenants
                            /\ call[q].items \in Seq(Item)
           /\ ~Creates(q) => /\ call[q].op \in {"patch", "transition"}
                             /\ call[q].tenant \in Tenants
                             /\ call[q].id \in Ids
           /\ call[q].op = "transition" => call[q].to \in States /\ call[q].role \in Roles
<1>1. call[q] # NoCall
  BY DEF Typed, StepOK
<1>2. call[q] \in Call
  BY <1>1, MenuCall DEF Typed
<1>3. Creates(q) => call[q].items \in Seq(Item)
  BY <1>2, CallItems DEF Creates
<1> QED
  BY <1>1, <1>2, <1>3 DEF Call, Creates

\* The items of a seed have keys, and ids that are not generated.
LEMMA SeedItemType ==
    ASSUME Typed, NEW q \in Requests, step[q] \in {"key", "insert", "keep"},
           call[q].op = "seed"
    PROVE  /\ ThisItem(q).key # NoKey /\ ThisItem(q).id \in Ids
           /\ ThisItem(q) = [id |-> ThisItem(q).id, key |-> ThisItem(q).key]
           /\ ThisItem(q) \in Range(call[q].items)
<1>1. call[q].items \in Seq(SeedItem)
  BY Begun, CallItems DEF Typed
<1>2. Len(answer[q]) + 1 \in DOMAIN call[q].items
  BY ThisItemType
<1>3. ThisItem(q) \in SeedItem
  BY <1>1, <1>2 DEF ThisItem
<1> QED
  BY <1>2, <1>3, ArtefactAssumption DEF ThisItem, SeedItem, Range

LEMMA BeginTyped == ASSUME Typed, NEW q \in Requests, Begin(q) PROVE Typed'
<1>1. PICK c \in Menu[q] : call' = [call EXCEPT ![q] = c] /\ Goes(q, "new", FirstStep(c))
  BY DEF Begin
<1>2. c \in Call
  BY ArtefactAssumption
<1>3. FirstStep(c) \in {"read", "commit", "key"}
  BY DEF FirstStep
<1>4. TypeOK'
  BY <1>1, <1>2, <1>3 DEF Typed, Begin, TypeOK, tables, Goes
<1>5. StepOKOf(q)'
  <2>1. call'[q] = c /\ step'[q] = FirstStep(c)
    BY <1>1 DEF Typed, TypeOK, Goes, NoCall
  <2>2. c # NoCall
    BY <1>2 DEF Call, NoCall
  <2>3. answer'[q] = answer[q] /\ answer[q] = <<>>
    BY <1>1 DEF Begin, Typed, TypeOK, StepOK, Goes
  <2>4. CASE c.op \in {"patch", "transition"}
    BY <2>1, <2>2, <2>4 DEF StepOKOf, FirstStep, Creates
  <2>5. CASE c.op \in {"create", "seed"}
    <3>1. c.items \in Seq(Item)
      BY <1>2, <2>5, CallItems
    <3>2. c.items # <<>> => 0 < Len(c.items)
      BY <3>1
    <3>3. step'[q] \in {"commit", "key"} /\ (step'[q] = "key" => c.items # <<>>)
      BY <2>1, <2>5 DEF FirstStep
    <3> QED
      BY <2>1, <2>2, <2>3, <2>5, <3>2, <3>3 DEF StepOKOf, Creates
  <2> QED
    BY <1>2, <2>4, <2>5 DEF Call
<1> QED
  BY <1>4, <1>5, OnlyQ DEF Typed, StepOf, Begin, tables

LEMMA LookupTyped == ASSUME Typed, NEW q \in Requests, LookupKey(q) PROVE Typed'
<1> DEFINE i == ThisItem(q)
<1>1. step[q] = "key" /\ i \in Item /\ Len(answer[q]) + 1 \in DOMAIN call[q].items
  BY ThisItemType DEF LookupKey
<1>2. CASE \E a \in Found(q, i.key) : AnswerItem(q, Fetched(q, a)) /\ UNCHANGED chosen
  <2>1. PICK a \in Ids \cup {None} : AnswerItem(q, a)
    BY <1>2 DEF Found, Fetched
  <2>2. UNCHANGED <<tables, begun, call, wrote, wroteKeys, cur, chosen>>
    BY <1>2 DEF LookupKey
  <2>3. TypeOK'
    BY <1>1, <2>1, <2>2, AnswerTyped DEF Typed, TypeOK, tables
  <2>4. StepOKOf(q)'
    BY <1>1, <2>1, <2>2, AnswerTyped DEF Typed, StepOK, StepOKOf, Creates
  <2> QED
    BY <2>2, <2>3, <2>4, OnlyQ DEF Typed, StepOf, Statement, tables
<1>3. ASSUME NEW a \in IF i.id = Generated THEN {x \in FreshIds : Unused(x)} ELSE {i.id},
             chosen' = [chosen EXCEPT ![q] = a],
             Goes(q, "key", "insert"), UNCHANGED answer
      PROVE  Typed'
  <2>1. a \in Ids
    BY <1>1, ArtefactAssumption DEF Item
  <2>2. UNCHANGED <<tables, begun, call, wrote, wroteKeys, cur, answer>>
    BY <1>3 DEF LookupKey
  <2>3. TypeOK'
    BY <1>3, <2>1, <2>2 DEF Typed, TypeOK, tables, Goes
  <2>4. a # None
    BY <2>1, ArtefactAssumption
  <2>5. StepOKOf(q)'
    BY <1>1, <1>3, <2>2, <2>4 DEF Typed, TypeOK, StepOK, StepOKOf, Creates, Goes
  <2> QED
    BY <2>2, <2>3, <2>5, OnlyQ DEF Typed, StepOf, Statement, tables
<1> QED
  BY <1>2, <1>3 DEF LookupKey

\* What the request has inserted so far.
LEMMA InsertRowTyped == ASSUME Typed, NEW q \in Requests, InsertRow(q) PROVE Typed'
<1> DEFINE a == chosen[q]
<1>1. /\ step[q] = "insert" /\ ThisItem(q) \in Item /\ Creates(q)
      /\ call[q].op = "seed" => ThisItem(q).key # NoKey
  BY ThisItemType, SeedItemType DEF InsertRow, Typed, StepOK
<1>2. a \in Ids
  BY <1>1 DEF Typed, TypeOK, StepOK
<1>3. UNCHANGED <<tables, begun, call, chosen, wroteKeys, cur>>
  BY DEF InsertRow
<1>4. wrote' \in [Requests -> SUBSET Ids]
  BY <1>2 DEF InsertRow, Typed, TypeOK
<1>5. CASE AnswerItem(q, a)
  <2>1. TypeOK'
    BY <1>1, <1>2, <1>3, <1>4, <1>5, AnswerTyped DEF Typed, TypeOK, tables
  <2>2. StepOKOf(q)'
    BY <1>1, <1>2, <1>3, <1>5, AnswerTyped DEF Typed, StepOK, StepOKOf, Creates
  <2> QED
    BY <1>3, <2>1, <2>2, OnlyQ DEF Typed, StepOf, Statement, tables
<1>6. CASE /\ ThisItem(q).key # NoKey \/ call[q].op = "seed"
           /\ Goes(q, "insert", "keep")
           /\ UNCHANGED answer
  <2>1. TypeOK'
    BY <1>3, <1>4, <1>6 DEF Typed, TypeOK, tables, Goes
  <2>2. StepOKOf(q)'
    BY <1>1, <1>3, <1>6 DEF Typed, TypeOK, StepOK, StepOKOf, Creates, ThisItem, Goes
  <2> QED
    BY <1>3, <2>1, <2>2, OnlyQ DEF Typed, StepOf, Statement, tables
<1>7. CASE Goes(q, "insert", "raised") /\ UNCHANGED answer
  <2>1. TypeOK'
    BY <1>3, <1>4, <1>7 DEF Typed, TypeOK, tables, Goes
  <2>2. StepOKOf(q)'
    BY <1>1, <1>3, <1>7 DEF Typed, TypeOK, StepOK, StepOKOf, Goes
  <2> QED
    BY <1>3, <2>1, <2>2, OnlyQ DEF Typed, StepOf, Statement, tables
<1> QED
  BY <1>5, <1>6, <1>7 DEF InsertRow

LEMMA InsertKeyTyped == ASSUME Typed, NEW q \in Requests, InsertKey(q) PROVE Typed'
<1> DEFINE k == ThisItem(q).key
<1>1. step[q] = "keep" /\ k \in Keys /\ Creates(q)
  BY ThisItemType DEF InsertKey, Typed, StepOK, Item
<1>2. chosen[q] \in Ids
  BY <1>1 DEF Typed, TypeOK, StepOK
<1>3. AnswerItem(q, chosen[q]) /\ UNCHANGED <<tables, begun, call, chosen, wrote, cur>>
  BY DEF InsertKey
<1>4. wroteKeys' \in [Requests -> [Keys -> Ids \cup {None}]]
  BY <1>1, <1>2 DEF InsertKey, Typed, TypeOK
<1>5. TypeOK'
  BY <1>1, <1>2, <1>3, <1>4, AnswerTyped DEF Typed, TypeOK, tables
<1>6. StepOKOf(q)'
  BY <1>1, <1>2, <1>3, AnswerTyped DEF Typed, StepOK, StepOKOf, Creates
<1> QED
  BY <1>3, <1>5, <1>6, OnlyQ DEF Typed, StepOf, Statement, tables

\* A committed create: the rows it inserted are there, the others as before.
LEMMA NewRowType ==
    ASSUME Typed, NEW q \in Requests, step[q] = "commit"
    PROVE  NewRow(q) \in Row /\ NewRow(q) # None
<1>1. call[q].tenant \in Tenants
  BY Begun DEF Typed, StepOK
<1>2. NewRow(q) \in Row
  BY <1>1 DEF NewRow, Row, States
<1> QED
  BY <1>2, ArtefactAssumption

LEMMA CommitTyped == ASSUME Typed, NEW q \in Requests, CommitCreate(q) PROVE Typed'
<1>1. step[q] = "commit" /\ Creates(q) /\ call[q].tenant \in Tenants
  BY Begun DEF CommitCreate, Goes, Typed, StepOK
<1>2. art' \in [Ids -> Row \cup {None}] /\ \A a \in Ids : art[a] # None => art'[a] # None
  BY <1>1, NewRowType DEF CommitCreate, Typed, TypeOK
<1>3. keyed' \in [Tenants -> [Keys -> Ids \cup {None}]]
  BY <1>1 DEF CommitCreate, Typed, TypeOK
<1>4. wroteKeys' \in [Requests -> [Keys -> Ids \cup {None}]]
  BY DEF CommitCreate, Typed, TypeOK, NoKeys
<1>5. TypeOK'
  BY <1>2, <1>3, <1>4 DEF CommitCreate, Typed, TypeOK, Goes, Ended
<1>6. StepOKOf(q)'
  BY <1>1 DEF CommitCreate, Typed, TypeOK, StepOK, StepOKOf, Goes
<1> QED
  BY <1>2, <1>5, <1>6, OnlyQ DEF Typed, StepOf, Statement

LEMMA ReadTyped == ASSUME Typed, NEW q \in Requests, ReadRow(q) PROVE Typed'
<1> DEFINE a == call[q].id
<1>1. /\ step[q] = "read" /\ ~Creates(q) /\ call[q].op \in {"patch", "transition"}
      /\ a \in Ids
  BY Begun DEF ReadRow, Typed, StepOK, Creates
<1>2. UNCHANGED <<tables, begun, call, chosen, wrote, wroteKeys, answer>>
  BY DEF ReadRow
<1>3. CASE /\ Visible(q, a) /\ cur' = [cur EXCEPT ![q] = art[a]]
           /\ Goes(q, "read", IF call[q].op = "patch" THEN "write" ELSE "policy")
  <2>1. TypeOK'
    BY <1>1, <1>2, <1>3 DEF Typed, TypeOK, tables, Goes, Visible
  <2>2. StepOKOf(q)'
    BY <1>1, <1>2, <1>3 DEF Typed, TypeOK, StepOK, StepOKOf, Goes, Visible, tables
  <2> QED
    BY <1>2, <2>1, <2>2, OnlyQ DEF Typed, StepOf, Statement, tables
<1>4. CASE Goes(q, "read", "not_found") /\ UNCHANGED cur
  <2>1. TypeOK'
    BY <1>1, <1>2, <1>4 DEF Typed, TypeOK, tables, Goes, Ended
  <2>2. StepOKOf(q)'
    BY <1>1, <1>2, <1>4 DEF Typed, TypeOK, StepOK, StepOKOf, Goes
  <2> QED
    BY <1>2, <2>1, <2>2, OnlyQ DEF Typed, StepOf, Statement, tables
<1> QED
  BY <1>3, <1>4 DEF ReadRow

LEMMA ResolveTyped == ASSUME Typed, NEW q \in Requests, ResolvePolicy(q) PROVE Typed'
<1>1. /\ step[q] = "policy"
      /\ Goes(q, "policy", "write") \/ Goes(q, "policy", "denied")
      /\ UNCHANGED <<tables, begun, call, chosen, wrote, wroteKeys, answer, cur>>
  BY DEF ResolvePolicy
<1>2. TypeOK'
  BY <1>1 DEF Typed, TypeOK, tables, Goes, Ended
<1>3. StepOKOf(q)'
  BY <1>1 DEF Typed, TypeOK, StepOK, StepOKOf, Goes, tables
<1> QED
  BY <1>1, <1>2, <1>3, OnlyQ DEF Typed, StepOf, Statement, tables

\* The row a write finds, and the row it leaves.
LEMMA WriteRow ==
    ASSUME Typed, NEW q \in Requests, Write(q)
    PROVE  /\ step[q] = "write" /\ ~Creates(q) /\ call[q].id \in Ids
           /\ call[q].op = "patch" \/ (call[q].op = "transition" /\ call[q].to \in States)
           /\ cur[q] \in Row /\ art[call[q].id] \in Row
           /\ \A a \in Ids \ {call[q].id} : art'[a] = art[a]
           /\ art'[call[q].id] = Updated(q, art[call[q].id])
           /\ art'[call[q].id] \in Row /\ art'[call[q].id] # None
           /\ art' \in [Ids -> Row \cup {None}]
<1> DEFINE a == call[q].id
<1>1. step[q] = "write"
  BY DEF Write, Goes
<1>2. /\ call[q].op \in {"patch", "transition"} /\ a \in Ids /\ ~Creates(q)
      /\ call[q].op = "transition" => call[q].to \in States
  BY <1>1, Begun DEF Typed, StepOK, Creates
<1>3. cur[q] \in Row /\ art[a] \in Row
  BY <1>1, <1>2 DEF Typed, TypeOK, StepOK
<1>4. art' = [art EXCEPT ![a] = Updated(q, art[a])]
  BY DEF Write
<1>5. art'[a] = Updated(q, art[a])
  BY <1>2, <1>4 DEF Typed, TypeOK
<1>6. art'[a] \in Row
  <2>1. CASE call[q].op = "patch"
    <3>1. art'[a] = [art[a] EXCEPT !.version = @ + 1, !.payload = q]
      BY <1>5, <2>1 DEF Updated
    <3>2. art[a].version + 1 \in Nat
      BY <1>3 DEF Row
    <3> QED
      BY <1>3, <3>1, <3>2 DEF Row
  <2>2. CASE call[q].op = "transition"
    <3>1. art'[a] = [art[a] EXCEPT !.state = call[q].to]
      BY <1>5, <2>2 DEF Updated
    <3> QED
      BY <1>2, <1>3, <2>2, <3>1 DEF Row
  <2> QED
    BY <1>2, <2>1, <2>2
<1>7. art' \in [Ids -> Row \cup {None}] /\ \A b \in Ids \ {a} : art'[b] = art[b]
  BY <1>2, <1>4, <1>5, <1>6 DEF Typed, TypeOK
<1> QED
  BY <1>1, <1>2, <1>3, <1>5, <1>6, <1>7, ArtefactAssumption

\* What an UPDATE changes and what it leaves.
LEMMA UpdatedRow ==
    ASSUME NEW q \in Requests, NEW row \in Row
    PROVE  /\ Updated(q, row).creator = row.creator
           /\ Updated(q, row).tenant = row.tenant
           /\ call[q].op = "patch" =>
                 /\ Updated(q, row).version = row.version + 1
                 /\ Updated(q, row).payload = q
                 /\ Updated(q, row).state = row.state
           /\ call[q].op # "patch" =>
                 /\ Updated(q, row) = [row EXCEPT !.state = call[q].to]
                 /\ Updated(q, row).version = row.version
                 /\ Updated(q, row).payload = row.payload
                 /\ Updated(q, row).state = call[q].to
BY DEF Updated, Row

LEMMA WriteTyped == ASSUME Typed, NEW q \in Requests, Write(q) PROVE Typed'
<1>1. /\ history' = history \cup {HistoryRow(q)} /\ Goes(q, "write", "done")
      /\ UNCHANGED <<keyed, begun, call, chosen, wrote, wroteKeys, answer, cur>>
  BY DEF Write
<1>2. TypeOK'
  <2>1. /\ HistoryRow(q).artefact \in Ids /\ HistoryRow(q).by \in Requests
        /\ HistoryRow(q).version \in Nat /\ HistoryRow(q).state \in States
        /\ HistoryRow(q).payload \in Requests
    BY WriteRow DEF HistoryRow, Row
  <2> QED
    BY <1>1, <2>1, WriteRow DEF Typed, TypeOK, Goes, Ended
<1>3. StepOKOf(q)'
  BY <1>1, WriteRow DEF Typed, TypeOK, StepOK, StepOKOf, Goes
<1> QED
  BY <1>2, <1>3, OnlyQ, WriteRow DEF Typed, StepOf, Statement

LEMMA RollbackTyped ==
    ASSUME Typed, NEW q \in Requests, Fail(q) \/ BreakDeadlock(q) PROVE Typed'
<1>1. Rollback(q) /\ step[q] # "new"
  <2>1. CASE Fail(q)
    BY <2>1 DEF Fail, Open
  <2>2. CASE BreakDeadlock(q)
    BY <2>2 DEF BreakDeadlock, Deadlocked, Holders
  <2> QED
    BY <2>1, <2>2
<1>2. TypeOK'
  BY <1>1 DEF Rollback, Typed, TypeOK, tables, NoKeys, Ended
<1>3. StepOKOf(q)'
  BY <1>1 DEF Rollback, Typed, TypeOK, StepOK, StepOKOf
<1> QED
  BY <1>1, <1>2, <1>3, OnlyQ DEF Rollback, Typed, StepOf, tables

LEMMA NextTyped == ASSUME Typed, [Next]_vars PROVE Typed'
<1>1. CASE UNCHANGED vars
  BY <1>1 DEF Typed, vars, tables, TypeOK, StepOK, Creates, ThisItem
<1>2. CASE Next
  BY <1>2, BeginTyped, LookupTyped, InsertRowTyped, InsertKeyTyped, CommitTyped,
     ReadTyped, ResolveTyped, WriteTyped, RollbackTyped DEF Next, Statement
<1> QED
  BY <1>1, <1>2

\* The tables and the transactions keep their types: above all, no statement
\* works on a row that is gone, a key that is not there or an item past the end.
THEOREM TypeCorrect == Spec => []TypeOK
<1>1. Spec => []Typed
  BY InitTyped, NextTyped, PTL DEF Spec
<1> QED
  BY <1>1, PTL DEF Typed

-----------------------------------------------------------------------------
(* What changes the tables, and what does not                                *)

LEMMA TablesStep ==
    ASSUME [Next]_vars
    PROVE  \/ UNCHANGED tables
           \/ \E q \in Requests : CommitCreate(q)
           \/ \E q \in Requests : Write(q)
BY DEF Next, vars, Begin, Statement, LookupKey, InsertRow, InsertKey, ReadRow,
       ResolvePolicy, Fail, BreakDeadlock, Rollback

\* What has ended stays ended, and asked for what it asked for.
LEMMA DoneStays ==
    ASSUME Typed, [Next]_vars, NEW x \in Requests, step[x] = "done"
    PROVE  step'[x] = "done" /\ call'[x] = call[x]
<1>1. CASE UNCHANGED vars
  BY <1>1 DEF vars
<1>2. ASSUME NEW q \in Requests, StepOf(q), q # x PROVE step'[x] = "done" /\ call'[x] = call[x]
  BY <1>2, OthersAlone
<1>3. ~StepOf(x)
  BY DEF StepOf, Begin, Statement, LookupKey, InsertRow, InsertKey, CommitCreate, ReadRow,
         ResolvePolicy, Write, Fail, Open, BreakDeadlock, Deadlocked, Holders, Goes
<1> QED
  BY <1>1, <1>2, <1>3 DEF Next, StepOf

-----------------------------------------------------------------------------
(* Rows: who inserts one, and who has                                        *)

\* The ids a create may insert: those it names and those it is given.
ItemIds(c) == {c.items[i].id : i \in DOMAIN c.items}
MayInsert(q) == ItemIds(call[q]) \cup FreshIds

\* A row inserted and not committed is in nobody else's way.
Inserted ==
    \A q \in Requests : \A a \in wrote[q] :
        /\ art[a] = None
        /\ a \in MayInsert(q)
        /\ \A x \in Requests \ {q} : a \notin wrote[x]

\* Only a create at work has any.
Pending(q) == step[q] \in {"key", "insert", "keep", "commit", "raised"} /\ Creates(q)

Idle == \A q \in Requests : ~Pending(q) => wrote[q] = {} /\ wroteKeys[q] = NoKeys

\* The id a create is at is one it may insert, and a seed's is one it names.
Aimed ==
    \A q \in Requests :
        step[q] \in {"insert", "keep"} =>
            /\ chosen[q] \in MayInsert(q)
            /\ call[q].op = "seed" => chosen[q] = ThisItem(q).id

\* A row comes from a create that was answered, of the same tenant.
Origin ==
    \A a \in Ids :
        art[a] # None =>
            /\ step[art[a].creator] = "done"
            /\ Creates(art[a].creator)
            /\ art[a].tenant = call[art[a].creator].tenant
            /\ a \in MayInsert(art[a].creator)

Rows == Inserted /\ Idle /\ Aimed /\ Origin

LEMMA InitRows == Init => Rows
BY DEF Init, Rows, Inserted, Idle, Aimed, Origin, NoKeys

LEMMA MayInsertStays ==
    ASSUME Typed, NEW q \in Requests, StepOf(q), ~Begin(q)
    PROVE  call' = call
BY DEF StepOf, Statement, LookupKey, InsertRow, InsertKey, CommitCreate, ReadRow,
       ResolvePolicy, Write, Fail, BreakDeadlock, Rollback

LEMMA NextRows == ASSUME Typed, Rows, [Next]_vars PROVE Rows'
<1>1. CASE UNCHANGED vars
  BY <1>1 DEF vars, tables, Rows, Inserted, Idle, Aimed, Origin, MayInsert, Pending,
              Creates, ThisItem
<1>2. ASSUME NEW q \in Requests, Begin(q) PROVE Rows'
  <2>1. UNCHANGED <<tables, chosen, wrote, wroteKeys>> /\ step[q] = "new"
    BY <1>2 DEF Begin, Goes
  <2>2. wrote[q] = {} /\ wroteKeys[q] = NoKeys
    BY <2>1 DEF Rows, Idle, Pending
  <2>3. step'[q] \in {"read", "commit", "key"}
    BY <1>2 DEF Begin, Goes, FirstStep, Typed, TypeOK
  <2>4. \A x \in Requests \ {q} : step'[x] = step[x] /\ call'[x] = call[x]
    BY <1>2, OthersAlone DEF StepOf
  <2>5. Inserted'
    BY <2>1, <2>2, <2>4 DEF Rows, Inserted, MayInsert, tables
  <2>6. Idle'
    BY <2>1, <2>2, <2>4 DEF Rows, Idle, Pending, Creates
  <2>7. Aimed'
    BY <1>2, <2>1, <2>3, <2>4 DEF Begin, Rows, Aimed, MayInsert, ThisItem
  <2>8. Origin'
    <3>1. \A a \in Ids : art[a] # None => art[a].creator \in Requests \ {q}
      BY <2>1 DEF Rows, Origin, Typed, TypeOK, Row
    <3> QED
      BY <2>1, <2>4, <3>1 DEF Rows, Origin, MayInsert, Creates, tables
  <2> QED
    BY <2>5, <2>6, <2>7, <2>8 DEF Rows
<1>3. ASSUME NEW q \in Requests, StepOf(q), ~Begin(q), UNCHANGED art,
             \A x \in Requests : wrote'[x] \subseteq wrote[x],
             Idle', Aimed'
      PROVE  Rows'
  <2>1. call' = call
    BY <1>3, MayInsertStays
  <2>2. Inserted'
    BY <1>3, <2>1 DEF Rows, Inserted, MayInsert
  <2>3. \A x \in Requests : step[x] = "done" => step'[x] = "done"
    BY <1>3, DoneStays
  <2>4. \A a \in Ids : art[a] # None => art[a].creator \in Requests
    BY DEF Typed, TypeOK, Row
  <2>5. Origin'
    BY <1>3, <2>1, <2>3, <2>4 DEF Rows, Origin, MayInsert, Creates
  <2> QED
    BY <1>3, <2>2, <2>5 DEF Rows
<1>4. ASSUME NEW q \in Requests, LookupKey(q) PROVE Rows'
  <2>1. step[q] = "key" /\ step'[q] \in {"key", "commit", "insert"}
    BY <1>4 DEF LookupKey, AnswerItem, Goes, Typed, TypeOK
  <2>2. UNCHANGED <<tables, call, wrote, wroteKeys>>
    BY <1>4 DEF LookupKey
  <2>3. Idle'
    BY <1>4, <2>1, <2>2, OthersAlone DEF Rows, Idle, Pending, Creates, StepOf, Statement
  <2>4. Aimed'
    <3>1. CASE step'[q] # "insert"
      BY <1>4, <2>1, <2>2, <3>1, OthersAlone
      DEF Rows, Aimed, MayInsert, ThisItem, StepOf, Statement
    <3>2. CASE step'[q] = "insert"
      <4>1. /\ ThisItem(q) \in Item
            /\ Len(answer[q]) + 1 \in DOMAIN call[q].items
        BY <2>1, ThisItemType
      <4>2. chosen'[q] \in IF ThisItem(q).id = Generated THEN FreshIds ELSE {ThisItem(q).id}
        BY <1>4, <3>2 DEF LookupKey, AnswerItem, Typed, TypeOK
      <4>3. ThisItem(q).id \in ItemIds(call[q])
        BY <4>1 DEF ThisItem, ItemIds
      <4>4. call[q].op = "seed" => ThisItem(q).id # Generated
        BY <2>1, SeedItemType, ArtefactAssumption
      <4>5. /\ chosen'[q] \in MayInsert(q)
            /\ call[q].op = "seed" => chosen'[q] = ThisItem(q).id
        BY <4>2, <4>3, <4>4 DEF MayInsert
      <4>6. answer'[q] = answer[q]
        BY <1>4, <3>2 DEF LookupKey, AnswerItem, Typed, TypeOK
      <4> QED
        BY <1>4, <2>2, <4>5, <4>6, OthersAlone
        DEF Rows, Aimed, MayInsert, ThisItem, StepOf, Statement
    <3> QED
      BY <3>1, <3>2
  <2> QED
    BY <1>3, <1>4, <2>2, <2>3, <2>4 DEF StepOf, Statement, tables, Begin, LookupKey, Goes
<1>5. ASSUME NEW q \in Requests, InsertRow(q) PROVE Rows'
  <2> DEFINE a == chosen[q]
  <2>1. step[q] = "insert" /\ step'[q] \in {"key", "commit", "keep", "raised"} /\ Creates(q)
    BY <1>5 DEF InsertRow, AnswerItem, Goes, Typed, TypeOK, StepOK
  <2>2. UNCHANGED <<tables, call, chosen, wroteKeys>> /\ StepOf(q) /\ ~Begin(q)
    BY <1>5, <2>1 DEF InsertRow, StepOf, Statement, Begin, Goes
  <2>3. Idle'
    BY <2>1, <2>2, OthersAlone DEF Rows, Idle, Pending, Creates
  <2>4. Aimed'
    <3>1. step'[q] = "keep" => answer'[q] = answer[q]
      BY <1>5, <2>1 DEF InsertRow, AnswerItem, Goes, Typed, TypeOK
    <3> QED
      BY <2>1, <2>2, <3>1, OthersAlone DEF Rows, Aimed, MayInsert, ThisItem
  <2>5. CASE UNCHANGED wrote
    BY <1>3, <2>2, <2>3, <2>4, <2>5 DEF tables
  <2>6. CASE art[a] = None /\ wrote' = [wrote EXCEPT ![q] = @ \cup {a}]
    <3>1. a \in MayInsert(q) /\ RowHolders(q, a) = {}
      BY <1>5, <2>1 DEF Rows, Aimed, InsertRow, Holders
    <3>2. Inserted'
      <4> SUFFICES ASSUME NEW x \in Requests, NEW b \in wrote'[x]
                   PROVE  /\ art[b] = None
                          /\ b \in MayInsert(x)
                          /\ \A y \in Requests \ {x} : b \notin wrote'[y]
        BY <2>2 DEF Inserted, MayInsert, tables
      <4>1. wrote'[q] = wrote[q] \cup {a} /\ \A y \in Requests \ {q} : wrote'[y] = wrote[y]
        BY <2>6 DEF Typed, TypeOK
      <4>2. CASE b \in wrote[x]
        BY <3>1, <4>1, <4>2 DEF Rows, Inserted, RowHolders
      <4>3. CASE x = q /\ b = a
        BY <2>6, <3>1, <4>1, <4>3 DEF RowHolders
      <4> QED
        BY <4>1, <4>2, <4>3
    <3>3. \A x \in Requests : step[x] = "done" => step'[x] = "done"
      BY <1>5, DoneStays DEF Next, Statement
    <3>4. \A b \in Ids : art[b] # None => art[b].creator \in Requests
      BY DEF Typed, TypeOK, Row
    <3>5. Origin'
      BY <2>2, <3>3, <3>4 DEF Rows, Origin, MayInsert, Creates, tables
    <3> QED
      BY <2>3, <2>4, <3>2, <3>5 DEF Rows
  <2> QED
    BY <1>5, <2>5, <2>6 DEF InsertRow
<1>6. ASSUME NEW q \in Requests, InsertKey(q) PROVE Rows'
  <2>1. step[q] = "keep" /\ step'[q] \in {"key", "commit"} /\ Creates(q)
    BY <1>6 DEF InsertKey, AnswerItem, Typed, TypeOK, StepOK
  <2>2. UNCHANGED <<tables, call, chosen, wrote>> /\ StepOf(q) /\ ~Begin(q)
    BY <1>6, <2>1 DEF InsertKey, StepOf, Statement, Begin, Goes
  <2>3. Idle'
    BY <2>1, <2>2, OthersAlone DEF Rows, Idle, Pending, Creates
  <2>4. Aimed'
    BY <2>1, <2>2, OthersAlone DEF Rows, Aimed, MayInsert, ThisItem
  <2> QED
    BY <1>3, <2>2, <2>3, <2>4 DEF tables
<1>7. ASSUME NEW q \in Requests, CommitCreate(q) PROVE Rows'
  <2>1. /\ step[q] = "commit" /\ step'[q] = "done" /\ Creates(q)
        /\ wrote'[q] = {} /\ wroteKeys'[q] = NoKeys
    BY <1>7 DEF CommitCreate, Goes, Typed, TypeOK, StepOK
  <2>2. UNCHANGED <<call, chosen>> /\ StepOf(q)
    BY <1>7 DEF CommitCreate, StepOf, Statement
  <2>3. \A b \in Ids : art'[b] = IF b \in wrote[q] THEN NewRow(q) ELSE art[b]
    BY <1>7 DEF CommitCreate
  <2>4. Idle'
    BY <2>1, <2>2, OthersAlone DEF Rows, Idle, Pending, Creates
  <2>5. Aimed'
    BY <2>1, <2>2, OthersAlone DEF Rows, Aimed, MayInsert, ThisItem
  <2>6. wrote[q] \subseteq Ids /\ \A x \in Requests : wrote[x] \subseteq Ids
    BY DEF Typed, TypeOK
  <2>7. Inserted'
    BY <2>1, <2>2, <2>3, <2>6, OthersAlone DEF Rows, Inserted, MayInsert
  <2>8. Origin'
    <3> SUFFICES ASSUME NEW b \in Ids, art'[b] # None
                 PROVE  /\ step'[art'[b].creator] = "done"
                        /\ Creates(art'[b].creator)
                        /\ art'[b].tenant = call[art'[b].creator].tenant
                        /\ b \in MayInsert(art'[b].creator)
      BY <2>2 DEF Origin, Creates, MayInsert
    <3>1. CASE b \in wrote[q]
      BY <2>1, <2>3, <3>1 DEF NewRow, Rows, Inserted
    <3>2. CASE b \notin wrote[q]
      <4>1. art'[b] = art[b] /\ art[b].creator \in Requests
        BY <2>3, <3>2 DEF Typed, TypeOK, Row
      <4>2. step'[art[b].creator] = "done"
        BY <4>1, <1>7, DoneStays DEF Rows, Origin, Next, Statement
      <4> QED
        BY <4>1, <4>2 DEF Rows, Origin
    <3> QED
      BY <3>1, <3>2
  <2> QED
    BY <2>4, <2>5, <2>7, <2>8 DEF Rows
<1>8. ASSUME NEW q \in Requests, ReadRow(q) \/ ResolvePolicy(q) PROVE Rows'
  <2>1. /\ step[q] \in {"read", "policy"}
        /\ step'[q] \in {"write", "policy", "not_found", "denied"} /\ ~Creates(q)
    BY <1>8 DEF ReadRow, ResolvePolicy, Goes, Typed, TypeOK, StepOK, Creates
  <2>2. UNCHANGED <<tables, call, chosen, wrote, wroteKeys>> /\ StepOf(q) /\ ~Begin(q)
    BY <1>8, <2>1 DEF ReadRow, ResolvePolicy, StepOf, Statement, Begin, Goes
  <2>3. Idle'
    BY <2>1, <2>2, OthersAlone DEF Rows, Idle, Pending, Creates
  <2>4. Aimed'
    BY <2>1, <2>2, OthersAlone DEF Rows, Aimed, MayInsert, ThisItem
  <2> QED
    BY <1>3, <2>2, <2>3, <2>4 DEF tables
<1>9. ASSUME NEW q \in Requests, Write(q) PROVE Rows'
  <2> DEFINE a == call[q].id
  <2>1. step[q] = "write" /\ step'[q] = "done" /\ ~Creates(q)
    BY <1>9, WriteRow DEF Write, Goes, Typed, TypeOK
  <2>2. UNCHANGED <<call, chosen, wrote, wroteKeys>> /\ StepOf(q)
    BY <1>9 DEF Write, StepOf, Statement
  <2>3. Idle'
    BY <2>1, <2>2, OthersAlone DEF Rows, Idle, Pending, Creates
  <2>4. Aimed'
    BY <2>1, <2>2, OthersAlone DEF Rows, Aimed, MayInsert, ThisItem
  <2>5. \A b \in Ids : \/ art'[b] = art[b]
                       \/ /\ art[b] # None /\ art'[b] # None
                          /\ art'[b].creator = art[b].creator
                          /\ art'[b].tenant = art[b].tenant
    <3>1. /\ a \in Ids /\ art[a] \in Row /\ art'[a] = Updated(q, art[a])
          /\ art[a] # None /\ art'[a] # None
          /\ \A b \in Ids \ {a} : art'[b] = art[b]
      BY <1>9, WriteRow, ArtefactAssumption
    <3> QED
      BY <3>1, UpdatedRow
  <2>6. Inserted'
    <3>1. \A x \in Requests : wrote[x] \subseteq Ids
      BY DEF Typed, TypeOK
    <3> QED
      BY <2>2, <2>5, <3>1 DEF Rows, Inserted, MayInsert
  <2>7. Origin'
    <3>1. \A b \in Ids : art[b] # None => art[b].creator \in Requests
      BY DEF Typed, TypeOK, Row
    <3>2. \A x \in Requests : step[x] = "done" => step'[x] = "done"
      BY <1>9, DoneStays DEF Next, Statement
    <3> QED
      BY <2>2, <2>5, <3>1, <3>2 DEF Rows, Origin, MayInsert, Creates
  <2> QED
    BY <2>3, <2>4, <2>6, <2>7 DEF Rows
<1>10. ASSUME NEW q \in Requests, Fail(q) \/ BreakDeadlock(q) PROVE Rows'
  <2>1. Rollback(q) /\ step[q] # "new"
    BY <1>10 DEF Fail, Open, BreakDeadlock, Deadlocked, Holders
  <2>2. /\ step'[q] = "failed" /\ wrote'[q] = {} /\ wroteKeys'[q] = NoKeys
        /\ UNCHANGED <<tables, call, chosen>> /\ StepOf(q) /\ ~Begin(q)
    BY <1>10, <2>1 DEF Rollback, StepOf, Typed, TypeOK, Begin, Goes
  <2>3. Idle'
    BY <2>2, OthersAlone DEF Rows, Idle, Pending, Creates
  <2>4. Aimed'
    BY <2>2, OthersAlone DEF Rows, Aimed, MayInsert, ThisItem
  <2> QED
    BY <1>3, <2>2, <2>3, <2>4, OthersAlone DEF tables
<1> QED
  BY <1>1, <1>2, <1>4, <1>5, <1>6, <1>7, <1>8, <1>9, <1>10 DEF Next, Statement

\* Types and rows together.
LEMMA RowsHold == Spec => [](Typed /\ Rows)
BY InitTyped, NextTyped, InitRows, NextRows, PTL DEF Spec

\* CreateNeverMutates: only the write of a patch or a transition changes a row,
\* because a create inserts and commits where there was none.
THEOREM CreatesNeverMutate == Spec => CreateNeverMutates
<1>1. ASSUME Typed, Rows, [Next]_vars
      PROVE  \A a \in Ids :
                art[a] # None /\ art'[a] # art[a] =>
                    \E q \in Requests : /\ call[q].op \in {"patch", "transition"}
                                        /\ call[q].id = a
                                        /\ step[q] # "done" /\ step'[q] = "done"
  <2> SUFFICES ASSUME NEW a \in Ids, art[a] # None, art'[a] # art[a]
               PROVE  \E q \in Requests : /\ call[q].op \in {"patch", "transition"}
                                          /\ call[q].id = a
                                          /\ step[q] # "done" /\ step'[q] = "done"
    OBVIOUS
  <2>1. ~UNCHANGED tables
    BY DEF tables
  <2>2. ASSUME NEW q \in Requests, CommitCreate(q) PROVE FALSE
    <3>1. a \notin wrote[q]
      BY <1>1 DEF Rows, Inserted
    <3> QED
      BY <2>2, <3>1 DEF CommitCreate
  <2>3. PICK q \in Requests : Write(q)
    BY <1>1, <2>1, <2>2, TablesStep
  <2> QED
    BY <1>1, <2>3, WriteRow DEF Write, Goes, Typed, TypeOK
<1> QED
  BY <1>1, RowsHold, PTL DEF Spec, CreateNeverMutates

-----------------------------------------------------------------------------
(* Keys and answers                                                          *)

\* A row stays, and stays its tenant's.
LEMMA RowsStay ==
    ASSUME Typed, Rows, [Next]_vars, NEW a \in Ids, art[a] # None
    PROVE  art'[a] # None /\ art'[a].tenant = art[a].tenant
<1>1. CASE UNCHANGED tables
  BY <1>1 DEF tables
<1>2. ASSUME NEW q \in Requests, CommitCreate(q)
      PROVE  art'[a] = art[a]
  BY <1>2 DEF CommitCreate, Rows, Inserted
<1>3. ASSUME NEW q \in Requests, Write(q)
      PROVE  art'[a] # None /\ art'[a].tenant = art[a].tenant
  BY <1>3, WriteRow, UpdatedRow
<1> QED
  BY <1>1, <1>2, <1>3, TablesStep

\* What a transaction sees it sees until it ends.
LEMMA SeesStays ==
    ASSUME Typed, Rows, [Next]_vars, NEW x \in Requests, NEW a \in Ids, Sees(x, a),
           call'[x] = call[x], step'[x] # "failed"
    PROVE  Sees(x, a)'
<1>1. CASE Visible(x, a)
  BY <1>1, RowsStay DEF Visible, Sees
<1>2. CASE a \in wrote[x] /\ wrote[x] \subseteq wrote'[x]
  BY <1>2 DEF Sees
<1>3. CASE a \in wrote[x] /\ CommitCreate(x)
  <2>1. art'[a] = NewRow(x) /\ step[x] = "commit"
    BY <1>3 DEF CommitCreate, Goes
  <2>2. art'[a] # None /\ art'[a].tenant = call[x].tenant
    BY <2>1, NewRowType DEF NewRow
  <2> QED
    BY <2>2 DEF Sees, Visible
<1>4. wrote[x] \subseteq wrote'[x] \/ CommitCreate(x)
  <2>1. CASE UNCHANGED vars
    BY <2>1 DEF vars
  <2>2. ASSUME NEW q \in Requests, StepOf(q), q # x PROVE wrote'[x] = wrote[x]
    BY <2>2, OthersAlone
  <2>3. CASE StepOf(x)
    <3>1. ~Rollback(x)
      BY DEF Rollback, Typed, TypeOK
    <3> QED
      BY <2>3, <3>1 DEF StepOf, Begin, Statement, LookupKey, InsertRow, InsertKey, ReadRow,
                        ResolvePolicy, Write, Fail, BreakDeadlock, Typed, TypeOK
  <2> QED
    BY <2>1, <2>2, <2>3 DEF Next, StepOf
<1> QED
  BY <1>1, <1>2, <1>3, <1>4 DEF Sees

\* What a create may store under key k: a row it sees; a seed, for a document it
\* names, also a row of another tenant.
Bound(q, k, a) ==
    \/ Sees(q, a)
    \/ /\ call[q].op = "seed"
       /\ [id |-> a, key |-> k] \in Range(call[q].items)
       /\ art[a] # None

\* What a create may answer item i with.
Answered(q, i) ==
    \/ answer[q][i] # None /\ Sees(q, answer[q][i])
    \/ answer[q][i] = None /\ NamesForeign(call[q].tenant, call[q].items[i].key)

KeptOf(q) ==
    /\ step[q] = "keep" => Bound(q, ThisItem(q).key, chosen[q])
    /\ \A k \in Keys : wroteKeys[q][k] # None => Bound(q, k, wroteKeys[q][k])
    /\ call[q].op = "create" /\ step[q] \in {"key", "insert", "keep", "commit", "done"} =>
          \A i \in DOMAIN answer[q] : Answered(q, i)
    /\ Creates(q) /\ step[q] \in {"commit", "done"} => Len(answer[q]) = Len(call[q].items)

\* What a create has stored under a key, and what it answers, is its tenant's,
\* or was stored by a seed that names it.
Kept == \A q \in Requests : KeptOf(q)

LEMMA InitKept == Init => Kept /\ KeysSound
BY DEF Init, Kept, KeptOf, KeysSound, NoKeys, NoCall, Creates

\* What a transaction may store stays so until it ends.
LEMMA BoundStays ==
    ASSUME Typed, Rows, [Next]_vars, NEW x \in Requests, NEW a \in Ids, NEW k \in Keys,
           Bound(x, k, a), call'[x] = call[x], step'[x] # "failed"
    PROVE  Bound(x, k, a)'
BY SeesStays, RowsStay DEF Bound

\* What a seed has stored, and for whose row, it has stored for good.
LEMMA StoredStays ==
    ASSUME Typed, Rows, [Next]_vars
    PROVE  /\ \A t, k, a : SeedStored(t, k, a) => SeedStored(t, k, a)'
           /\ \A t, k : NamesForeign(t, k) => NamesForeign(t, k)'
<1>1. \A t, k, a : SeedStored(t, k, a) => SeedStored(t, k, a)'
  BY DoneStays DEF SeedStored
<1> QED
  BY <1>1, RowsStay DEF NamesForeign

\* So does what it answers.
LEMMA AnsweredStays ==
    ASSUME Typed, Rows, [Next]_vars, NEW x \in Requests, NEW i \in DOMAIN answer[x],
           Answered(x, i), call'[x] = call[x], step'[x] # "failed",
           answer'[x][i] = answer[x][i]
    PROVE  Answered(x, i)'
<1>1. answer[x][i] \in Ids \cup {None}
  BY DEF Typed, TypeOK
<1>2. CASE answer[x][i] # None
  BY <1>1, <1>2, SeesStays DEF Answered
<1>3. CASE answer[x][i] = None
  <2>1. PICK a \in Ids : /\ SeedStored(call[x].tenant, call[x].items[i].key, a)
                         /\ art[a] # None /\ art[a].tenant # call[x].tenant
    BY <1>3 DEF Answered, NamesForeign
  <2>2. PICK y \in Requests :
           /\ call[y].op = "seed" /\ call[y].tenant = call[x].tenant /\ step[y] = "done"
           /\ [id |-> a, key |-> call[x].items[i].key] \in Range(call[y].items)
    BY <2>1 DEF SeedStored
  <2>3. call'[y] = call[y] /\ step'[y] = "done"
    BY <2>2, DoneStays
  <2>4. art'[a] # None /\ art'[a].tenant # call[x].tenant
    BY <2>1, RowsStay
  <2> QED
    BY <1>3, <2>2, <2>3, <2>4 DEF Answered, NamesForeign, SeedStored
<1> QED
  BY <1>2, <1>3

\* A request keeps its word through the steps of the others.
LEMMA OthersKept ==
    ASSUME Typed, Rows, Kept, [Next]_vars, NEW q \in Requests, NEW x \in Requests \ {q},
           StepOf(q)
    PROVE  KeptOf(x)'
<1>1. /\ call'[x] = call[x] /\ step'[x] = step[x] /\ chosen'[x] = chosen[x]
      /\ wroteKeys'[x] = wroteKeys[x] /\ answer'[x] = answer[x]
  BY OthersAlone
<1>2. KeptOf(x)
  BY DEF Kept
<1>3. /\ step[x] = "keep" => chosen[x] \in Ids /\ ThisItem(x).key \in Keys
      /\ \A k \in Keys : wroteKeys[x][k] # None => wroteKeys[x][k] \in Ids
  BY ThisItemType DEF Typed, TypeOK, StepOK, Item
<1>4. CASE step[x] = "failed"
  <2>1. wroteKeys[x] = NoKeys
    BY <1>4 DEF Rows, Idle, Pending
  <2> QED
    BY <1>1, <1>4, <2>1 DEF KeptOf, NoKeys
<1>5. CASE step[x] # "failed"
  <2>1. step'[x] = "keep" => Bound(x, ThisItem(x).key, chosen[x])'
    <3> SUFFICES ASSUME step[x] = "keep"
                 PROVE  Bound(x, ThisItem(x).key, chosen[x])'
      BY <1>1
    <3>1. \A a \in Ids, k \in Keys : Bound(x, k, a) => Bound(x, k, a)'
      BY <1>1, <1>5, BoundStays
    <3> QED
      BY <1>1, <1>2, <1>3, <3>1 DEF KeptOf, ThisItem, Bound, Sees, Visible
  <2>2. \A k \in Keys : wroteKeys'[x][k] # None => Bound(x, k, wroteKeys[x][k])'
    <3>1. \A a \in Ids, k \in Keys : Bound(x, k, a) => Bound(x, k, a)'
      BY <1>1, <1>5, BoundStays
    <3> QED
      BY <1>1, <1>2, <1>3, <3>1 DEF KeptOf, Bound, Sees, Visible
  <2>3. \A i \in DOMAIN answer[x] : Answered(x, i) => Answered(x, i)'
    BY <1>1, <1>5, AnsweredStays
  <2> QED
    BY <1>1, <1>2, <2>1, <2>2, <2>3 DEF KeptOf, Creates
<1> QED
  BY <1>4, <1>5

\* Answering with something it may answer with.
LEMMA AnswerKept ==
    ASSUME Typed, Rows, Kept, [Next]_vars, NEW q \in Requests, NEW a \in Ids \cup {None},
           step[q] \in {"key", "insert", "keep"}, AnswerItem(q, a),
           call' = call, cur' = cur,
           call[q].op = "create" =>
               \/ a # None /\ Sees(q, a)'
               \/ a = None /\ NamesForeign(call[q].tenant, ThisItem(q).key),
           \A k \in Keys : wroteKeys'[q][k] # None =>
               wroteKeys'[q][k] = wroteKeys[q][k] \/ Bound(q, k, wroteKeys[q][k])'
    PROVE  KeptOf(q)'
<1>1. /\ step'[q] \in {"key", "commit"} /\ Creates(q)
      /\ answer[q] \in Seq(Ids \cup {None})
  BY AnswerTyped DEF Typed, TypeOK, StepOK
<1>2. \A k \in Keys : wroteKeys'[q][k] # None => Bound(q, k, wroteKeys[q][k])'
  <2> SUFFICES ASSUME NEW k \in Keys, wroteKeys'[q][k] # None,
                      wroteKeys'[q][k] = wroteKeys[q][k]
               PROVE  Bound(q, k, wroteKeys[q][k])'
    OBVIOUS
  <2>1. wroteKeys[q][k] \in Ids /\ Bound(q, k, wroteKeys[q][k])
    BY DEF Kept, KeptOf, Typed, TypeOK
  <2>2. \A b \in Ids : Bound(q, k, b) => Bound(q, k, b)'
    BY <1>1, BoundStays
  <2> QED
    BY <2>1, <2>2 DEF Bound, Sees, Visible
<1>3. /\ answer'[q] = Append(answer[q], a)
      /\ step'[q] = "commit" => Len(answer[q]) + 1 = Len(call[q].items)
      /\ ThisItem(q) = call[q].items[Len(answer[q]) + 1]
  BY DEF AnswerItem, Typed, TypeOK, ThisItem
<1>4. ASSUME call[q].op = "create", NEW i \in DOMAIN answer'[q] PROVE Answered(q, i)'
  <2>1. CASE i \in DOMAIN answer[q]
    <3>1. answer'[q][i] = answer[q][i]
      BY <1>1, <1>3, <2>1
    <3>2. Answered(q, i)
      BY <1>1, <1>4, <2>1 DEF Kept, KeptOf
    <3> QED
      BY <1>1, <2>1, <3>1, <3>2, AnsweredStays
  <2>2. CASE i \notin DOMAIN answer[q]
    <3>1. answer'[q][i] = a /\ i = Len(answer[q]) + 1
      BY <1>1, <1>3, <2>2
    <3>2. CASE a # None
      BY <1>4, <3>1, <3>2 DEF Answered, Sees, Visible
    <3>3. CASE a = None
      <4> DEFINE k == call[q].items[i].key
      <4>1. PICK b \in Ids : /\ SeedStored(call[q].tenant, k, b)
                             /\ art[b] # None /\ art[b].tenant # call[q].tenant
        BY <1>3, <1>4, <3>1, <3>3 DEF NamesForeign
      <4>2. PICK y \in Requests :
               /\ call[y].op = "seed" /\ call[y].tenant = call[q].tenant
               /\ step[y] = "done"
               /\ [id |-> b, key |-> k] \in Range(call[y].items)
        BY <4>1 DEF SeedStored
      <4>3. call'[y] = call[y] /\ step'[y] = "done"
        BY <4>2, DoneStays
      <4>4. art'[b] # None /\ art'[b].tenant # call[q].tenant
        BY <4>1, RowsStay
      <4> QED
        BY <3>1, <3>3, <4>2, <4>3, <4>4 DEF Answered, NamesForeign, SeedStored
    <3> QED
      BY <3>2, <3>3
  <2> QED
    BY <2>1, <2>2
<1>5. Len(answer'[q]) = Len(answer[q]) + 1
  BY <1>1, <1>3
<1> QED
  BY <1>1, <1>2, <1>3, <1>4, <1>5 DEF KeptOf, Creates

\* A key whose row does not change, in a step that commits none.
LEMMA KeysStay ==
    ASSUME Typed, Rows, KeysSound, [Next]_vars, UNCHANGED keyed
    PROVE  KeysSound'
<1> SUFFICES ASSUME NEW t \in Tenants, NEW k \in Keys, keyed[t][k] # None
             PROVE  /\ art'[keyed[t][k]] # None
                    /\ \/ art'[keyed[t][k]].tenant = t
                       \/ SeedStored(t, k, keyed[t][k])'
  BY DEF KeysSound
<1>1. keyed[t][k] \in Ids
  BY DEF Typed, TypeOK
<1>2. \A a : SeedStored(t, k, a) => SeedStored(t, k, a)'
  BY StoredStays
<1> QED
  BY <1>1, <1>2, RowsStay DEF KeysSound, SeedStored

LEMMA NextKept ==
    ASSUME Typed, Rows, Kept, KeysSound, [Next]_vars
    PROVE  Kept' /\ KeysSound'
<1>1. CASE UNCHANGED vars
  BY <1>1 DEF vars, tables, Kept, KeptOf, Bound, Answered, KeysSound, SeedStored,
              NamesForeign, Sees, Visible, Creates, ThisItem
<1>2. ASSUME NEW q \in Requests, StepOf(q), KeptOf(q)' PROVE Kept'
  BY <1>2, OthersKept DEF Kept
<1>3. ASSUME NEW q \in Requests, Begin(q) PROVE Kept' /\ KeysSound'
  <2>1. wroteKeys[q] = NoKeys /\ answer[q] = <<>>
    BY <1>3 DEF Begin, Goes, Rows, Idle, Pending, Typed, StepOK
  <2>2. /\ UNCHANGED <<tables, wroteKeys, answer>>
        /\ step'[q] \in {"read", "commit", "key"}
        /\ step'[q] = "commit" /\ Creates(q)' => call'[q].items = <<>>
    BY <1>3 DEF Begin, Goes, FirstStep, Typed, TypeOK, Creates
  <2>3. KeptOf(q)'
    BY <2>1, <2>2 DEF KeptOf, NoKeys, Creates
  <2> QED
    BY <1>2, <1>3, <2>2, <2>3, KeysStay DEF StepOf, tables
<1>4. ASSUME NEW q \in Requests, LookupKey(q) PROVE Kept' /\ KeysSound'
  <2>1. /\ step[q] = "key" /\ StepOf(q)
        /\ UNCHANGED <<tables, begun, call, wrote, wroteKeys, cur>>
    BY <1>4 DEF LookupKey, StepOf, Statement
  <2>2. ASSUME NEW a \in Found(q, ThisItem(q).key), AnswerItem(q, Fetched(q, a))
        PROVE  KeptOf(q)'
    <3> DEFINE k == ThisItem(q).key
               t == call[q].tenant
    <3>1. /\ a \in Ids /\ k \in Keys /\ t \in Tenants
          /\ a = wroteKeys[q][k] \/ a = keyed[t][k]
      BY <2>1, ThisItemType, Begun DEF Found, Item, Typed, StepOK
    <3>2. a # None
      BY <3>1, ArtefactAssumption
    <3>3. CASE call[q].op = "create" /\ Sees(q, a)
      <4>1. Fetched(q, a) = a /\ Sees(q, a)'
        BY <2>1, <3>3 DEF Fetched, Sees, Visible, tables
      <4> QED
        BY <2>1, <2>2, <3>1, <3>2, <4>1, AnswerKept DEF Typed, TypeOK
    <3>4. CASE call[q].op = "create" /\ ~Sees(q, a)
      <4>1. Fetched(q, a) = None
        BY <3>4 DEF Fetched
      <4>2. a # wroteKeys[q][k]
        BY <3>1, <3>2, <3>4 DEF Kept, KeptOf, Bound
      <4>3. NamesForeign(t, k)
        BY <3>1, <3>2, <3>4, <4>2 DEF KeysSound, Sees, Visible, NamesForeign
      <4> QED
        BY <2>1, <2>2, <4>1, <4>3, AnswerKept DEF Typed, TypeOK
    <3>5. CASE call[q].op = "seed"
      <4>1. Fetched(q, a) = a
        BY <3>5 DEF Fetched
      <4> QED
        BY <2>1, <2>2, <3>1, <3>5, <4>1, AnswerKept DEF Typed, TypeOK
    <3> QED
      BY <2>1, <3>3, <3>4, <3>5 DEF Typed, StepOK, Creates
  <2>3. CASE Goes(q, "key", "insert") /\ UNCHANGED answer
    <3>1. step'[q] = "insert"
      BY <2>3 DEF Goes, Typed, TypeOK
    <3>2. \A i \in DOMAIN answer[q] : Answered(q, i) => Answered(q, i)'
      BY <2>1, <2>3, <3>1, AnsweredStays
    <3>3. call[q].op = "create" => \A i \in DOMAIN answer[q] : Answered(q, i)
      BY <2>1 DEF Kept, KeptOf
    <3>4. \A k \in Keys : wroteKeys[q][k] # None => Bound(q, k, wroteKeys[q][k])
      BY DEF Kept, KeptOf
    <3>5. KeptOf(q)'
      <4>1. \A k \in Keys : wroteKeys'[q][k] # None => Bound(q, k, wroteKeys[q][k])'
        BY <2>1, <3>4 DEF Bound, Sees, Visible, tables
      <4> QED
        BY <2>1, <2>3, <3>1, <3>2, <3>3, <4>1 DEF KeptOf, Creates
    <3> QED
      BY <1>2, <2>1, <3>5, KeysStay DEF tables
  <2> QED
    BY <1>2, <1>4, <2>1, <2>2, <2>3, KeysStay DEF LookupKey, tables
<1>5. ASSUME NEW q \in Requests, InsertRow(q) PROVE Kept' /\ KeysSound'
  <2> DEFINE a == chosen[q]
             k == ThisItem(q).key
  <2>1. /\ step[q] = "insert" /\ StepOf(q) /\ a \in Ids /\ Creates(q)
        /\ UNCHANGED <<tables, begun, call, chosen, wroteKeys, cur>>
    BY <1>5 DEF InsertRow, StepOf, Statement, Typed, TypeOK, StepOK
  <2>2. a # None
    BY <2>1, ArtefactAssumption
  <2>3. KeysSound'
    BY <2>1, KeysStay DEF tables
  <2>4. CASE Goes(q, "insert", "raised") /\ UNCHANGED answer
    <3>1. step'[q] = "raised"
      BY <2>4 DEF Goes, Typed, TypeOK
    <3>2. \A j \in Keys : wroteKeys[q][j] # None => Bound(q, j, wroteKeys[q][j])'
      <4> SUFFICES ASSUME NEW j \in Keys, wroteKeys[q][j] # None
                   PROVE  Bound(q, j, wroteKeys[q][j])'
        OBVIOUS
      <4>1. wroteKeys[q][j] \in Ids /\ Bound(q, j, wroteKeys[q][j])
        BY DEF Kept, KeptOf, Typed, TypeOK
      <4>2. \A b \in Ids : Bound(q, j, b) => Bound(q, j, b)'
        BY <2>1, <3>1, BoundStays
      <4> QED
        BY <2>1, <4>1, <4>2 DEF Bound, Sees, Visible
    <3>3. KeptOf(q)'
      BY <2>1, <3>1, <3>2 DEF KeptOf
    <3> QED
      BY <1>2, <2>1, <2>3, <3>3
  <2>5. CASE AnswerItem(q, a)
    <3>1. call[q].op = "create" => Sees(q, a)'
      BY <1>5, <2>1, <2>5
      DEF InsertRow, Sees, Visible, tables, AnswerItem, Goes, Typed, TypeOK
    <3>2. KeptOf(q)'
      BY <2>1, <2>2, <2>5, <3>1, AnswerKept
    <3> QED
      BY <1>2, <2>1, <2>3, <3>2
  <2>6. CASE Goes(q, "insert", "keep") /\ UNCHANGED answer
    <3>1. step'[q] = "keep" /\ k \in Keys /\ ThisItem(q)' = ThisItem(q)
      <4>1. step'[q] = "keep"
        BY <2>6 DEF Goes, Typed, TypeOK
      <4>2. ThisItem(q) \in Item
        BY <2>1, ThisItemType
      <4>3. ThisItem(q).key # NoKey
        BY <1>5, <2>1, <2>6, <4>1, SeedItemType DEF InsertRow, AnswerItem, Goes, Typed, TypeOK
      <4> QED
        BY <2>1, <2>6, <4>1, <4>2, <4>3 DEF Item, ThisItem
    <3>2. Bound(q, k, a)'
      <4>1. CASE a \in wrote'[q]
        BY <2>1, <4>1 DEF Bound, Sees
      <4>2. CASE call[q].op = "seed" /\ art[a] # None
        <5>1. [id |-> a, key |-> k] \in Range(call[q].items)
          BY <2>1, <4>2, SeedItemType DEF Rows, Aimed
        <5> QED
          BY <2>1, <3>1, <4>2, <5>1 DEF Bound, tables
      <4> QED
        BY <1>5, <2>1, <2>6, <4>1, <4>2 DEF InsertRow, AnswerItem, Goes, Typed, TypeOK
    <3>3. \A j \in Keys : wroteKeys[q][j] # None => Bound(q, j, wroteKeys[q][j])'
      <4> SUFFICES ASSUME NEW j \in Keys, wroteKeys[q][j] # None
                   PROVE  Bound(q, j, wroteKeys[q][j])'
        OBVIOUS
      <4>1. wroteKeys[q][j] \in Ids /\ Bound(q, j, wroteKeys[q][j])
        BY DEF Kept, KeptOf, Typed, TypeOK
      <4>2. \A b \in Ids : Bound(q, j, b) => Bound(q, j, b)'
        BY <2>1, <3>1, BoundStays
      <4> QED
        BY <2>1, <4>1, <4>2 DEF Bound, Sees, Visible
    <3>4. \A i \in DOMAIN answer[q] : Answered(q, i) => Answered(q, i)'
      BY <2>1, <2>6, <3>1, AnsweredStays
    <3>5. call[q].op = "create" => \A i \in DOMAIN answer[q] : Answered(q, i)
      BY <2>1 DEF Kept, KeptOf
    <3>6. KeptOf(q)'
      <4>1. step'[q] = "keep" => Bound(q, ThisItem(q).key, chosen[q])'
        BY <2>1, <3>1, <3>2 DEF Bound, Sees, Visible
      <4> QED
        BY <2>1, <2>6, <3>1, <3>3, <3>4, <3>5, <4>1 DEF KeptOf, Creates
    <3> QED
      BY <1>2, <2>1, <2>3, <3>6
  <2> QED
    BY <1>5, <2>4, <2>5, <2>6 DEF InsertRow
<1>6. ASSUME NEW q \in Requests, InsertKey(q) PROVE Kept' /\ KeysSound'
  <2> DEFINE a == chosen[q]
             k == ThisItem(q).key
  <2>1. /\ step[q] = "keep" /\ StepOf(q) /\ a \in Ids /\ AnswerItem(q, a)
        /\ UNCHANGED <<tables, begun, call, chosen, wrote, cur>>
    BY <1>6 DEF InsertKey, StepOf, Statement, Typed, TypeOK, StepOK
  <2>2. a # None /\ step'[q] # "failed" /\ k \in Keys
    BY <2>1, AnswerTyped, ArtefactAssumption, ThisItemType DEF Typed, StepOK, Item
  <2>3. Bound(q, k, a)
    BY <2>1 DEF Kept, KeptOf
  <2>4. call[q].op = "create" => Sees(q, a)'
    BY <2>1, <2>3 DEF Bound, Sees, Visible, tables
  <2>5. \A j \in Keys : wroteKeys'[q][j] # None =>
           wroteKeys'[q][j] = wroteKeys[q][j] \/ (j = k /\ wroteKeys'[q][j] = a)
    BY <1>6 DEF InsertKey, Typed, TypeOK
  <2>6. \A j \in Keys : wroteKeys'[q][j] # None =>
           wroteKeys'[q][j] = wroteKeys[q][j] \/ Bound(q, j, wroteKeys[q][j])'
    BY <2>1, <2>3, <2>5 DEF Bound, Sees, Visible, tables
  <2>7. KeptOf(q)'
    BY <2>1, <2>2, <2>4, <2>6, AnswerKept
  <2> QED
    BY <1>2, <2>1, <2>7, KeysStay DEF tables
<1>7. ASSUME NEW q \in Requests, CommitCreate(q) PROVE Kept' /\ KeysSound'
  <2>1. /\ step[q] = "commit" /\ step'[q] = "done" /\ Creates(q) /\ StepOf(q)
        /\ UNCHANGED <<history, begun, call, chosen, answer, cur>>
        /\ wroteKeys'[q] = NoKeys
    BY <1>7 DEF CommitCreate, Goes, StepOf, Statement, Typed, TypeOK, StepOK
  <2>2. \A b \in Ids, k \in Keys : Bound(q, k, b) => Bound(q, k, b)'
    BY <2>1, BoundStays
  <2>3. wrote'[q] = {}
    BY <1>7 DEF CommitCreate, Typed, TypeOK
  <2>4. \A i \in DOMAIN answer[q] : Answered(q, i) => Answered(q, i)'
    BY <2>1, AnsweredStays
  <2>5. KeptOf(q)'
    BY <2>1, <2>4 DEF Kept, KeptOf, NoKeys, Creates
  <2>6. KeysSound'
    <3> SUFFICES ASSUME NEW t \in Tenants, NEW k \in Keys, keyed'[t][k] # None
                 PROVE  /\ art'[keyed'[t][k]] # None
                        /\ \/ art'[keyed'[t][k]].tenant = t
                           \/ SeedStored(t, k, keyed[t][k])'
      BY DEF KeysSound
    <3>1. CASE keyed'[t][k] = keyed[t][k]
      <4>1. keyed[t][k] \in Ids /\ keyed[t][k] # None
        BY <3>1 DEF Typed, TypeOK
      <4>2. /\ art[keyed[t][k]] # None
            /\ art[keyed[t][k]].tenant = t \/ SeedStored(t, k, keyed[t][k])
        BY <4>1 DEF KeysSound
      <4>3. \A a : SeedStored(t, k, a) => SeedStored(t, k, a)'
        BY StoredStays
      <4> QED
        BY <3>1, <4>1, <4>2, <4>3, RowsStay DEF SeedStored
    <3>2. CASE keyed'[t][k] # keyed[t][k]
      <4>1. /\ t = call[q].tenant /\ keyed'[t][k] = wroteKeys[q][k]
            /\ wroteKeys[q][k] # None
        BY <1>7, <3>2 DEF CommitCreate, Typed, TypeOK
      <4>2. wroteKeys[q][k] \in Ids /\ Bound(q, k, wroteKeys[q][k])
        BY <4>1 DEF Kept, KeptOf, Typed, TypeOK
      <4> DEFINE a == wroteKeys[q][k]
      <4>3. CASE art'[a] # None /\ art'[a].tenant = t
        BY <4>1, <4>3
      <4>4. CASE /\ call[q].op = "seed" /\ art'[a] # None
                 /\ [id |-> a, key |-> k] \in Range(call[q].items)
        BY <2>1, <4>1, <4>4 DEF SeedStored
      <4>5. \A b \in Ids : Bound(q, k, b) => Bound(q, k, b)'
        BY <2>2
      <4> QED
        BY <2>1, <2>3, <4>1, <4>2, <4>3, <4>4, <4>5 DEF Bound, Sees, Visible
    <3> QED
      BY <3>1, <3>2
  <2> QED
    BY <1>2, <2>1, <2>5, <2>6
<1>8. ASSUME NEW q \in Requests, ReadRow(q) \/ ResolvePolicy(q) \/ Write(q)
      PROVE  Kept' /\ KeysSound'
  <2>1. /\ ~Creates(q) /\ StepOf(q)
        /\ step'[q] \in {"write", "policy", "not_found", "denied", "done"}
        /\ UNCHANGED <<keyed, call, wroteKeys>>
    BY <1>8 DEF ReadRow, ResolvePolicy, Write, Goes, Typed, TypeOK, StepOK, Creates,
                StepOf, Statement, tables
  <2>2. wroteKeys[q] = NoKeys
    BY <2>1 DEF Rows, Idle, Pending
  <2>3. KeptOf(q)'
    BY <2>1, <2>2 DEF KeptOf, NoKeys, Creates
  <2> QED
    BY <1>2, <2>1, <2>3, KeysStay
<1>9. ASSUME NEW q \in Requests, Fail(q) \/ BreakDeadlock(q) PROVE Kept' /\ KeysSound'
  <2>1. Rollback(q)
    BY <1>9 DEF Fail, BreakDeadlock
  <2>2. /\ step'[q] = "failed" /\ wroteKeys'[q] = NoKeys /\ StepOf(q)
        /\ UNCHANGED tables
    BY <1>9, <2>1 DEF Rollback, StepOf, Typed, TypeOK
  <2>3. KeptOf(q)'
    BY <2>2 DEF KeptOf, NoKeys
  <2> QED
    BY <1>2, <2>2, <2>3, KeysStay DEF tables
<1> QED
  BY <1>1, <1>3, <1>4, <1>5, <1>6, <1>7, <1>8, <1>9 DEF Next, Statement

LEMMA KeptHolds == Spec => [](Typed /\ Rows /\ Kept /\ KeysSound)
BY InitTyped, NextTyped, InitRows, NextRows, InitKept, NextKept, PTL DEF Spec

\* KeysSound: no idempotency key ever names an artefact that is not there, or
\* one of another tenant that no seed stored it for.
THEOREM KeysSoundHolds == Spec => []KeysSound
BY KeptHolds, PTL

\* AllOrNothing: a create that committed is there with all it answered, and
\* every row comes from one that committed.
THEOREM AllOrNothingHolds == Spec => []AllOrNothing
<1>1. Typed /\ Rows /\ Kept => AllOrNothing
  <2> SUFFICES ASSUME Typed, Rows, Kept PROVE AllOrNothing
    OBVIOUS
  <2>1. ASSUME NEW q \in Requests, Creates(q), step[q] = "done"
        PROVE  /\ Len(answer[q]) = Len(call[q].items)
               /\ call[q].op = "create" => \A i \in DOMAIN answer[q] : Answered(q, i)
               /\ wrote[q] = {}
    BY <2>1 DEF Kept, KeptOf, Rows, Idle, Pending
  <2> QED
    BY <2>1 DEF AllOrNothing, Answered, Sees, Rows, Origin
<1> QED
  BY <1>1, KeptHolds, PTL

-----------------------------------------------------------------------------
(* The audit table                                                           *)

\* What the audit table says was asked for, and done.
Audit ==
    /\ IsFiniteSet(history)
    /\ \A h \in history :
          /\ art[h.artefact] # None
          /\ step[h.by] = "done"
          /\ call[h.by].op = h.op
          /\ call[h.by].id = h.artefact

\* Where a row's state and payload come from: AuditAccounts for one row.
Accounted(a) ==
    /\ \/ art[a].payload = art[a].creator
       \/ \E h \in Patches(a) : h.by = art[a].payload
    /\ \/ art[a].state = NewRow(art[a].creator).state
       \/ \E h \in history : /\ h.artefact = a
                             /\ h.op = "transition"
                             /\ call[h.by].to = art[a].state

\* A write adds one row, its own, to the audit table.
LEMMA WriteAudits ==
    ASSUME Typed, Audit, NEW q \in Requests, Write(q)
    PROVE  /\ history' = history \cup {HistoryRow(q)} /\ HistoryRow(q) \notin history
           /\ HistoryRow(q).artefact = call[q].id /\ HistoryRow(q).by = q
           /\ HistoryRow(q).op = call[q].op
           /\ call' = call /\ step'[q] = "done"
BY DEF Write, HistoryRow, Goes, Audit, Typed, TypeOK

LEMMA InitAudit == Init => Audit /\ VersionCountsPatches /\ AuditAccounts
BY FS_EmptySet DEF Init, Audit, VersionCountsPatches, AuditAccounts

LEMMA NextAudit == ASSUME Typed, Rows, Audit, [Next]_vars PROVE Audit'
<1>1. \A h \in history : h.artefact \in Ids /\ h.by \in Requests
  BY DEF Typed, TypeOK
<1>2. \A h \in history : /\ art'[h.artefact] # None /\ step'[h.by] = "done"
                         /\ call'[h.by] = call[h.by]
  BY <1>1, RowsStay, DoneStays DEF Audit
<1>3. CASE UNCHANGED history
  BY <1>2, <1>3 DEF Audit
<1>4. ASSUME NEW q \in Requests, Write(q) PROVE Audit'
  <2>1. IsFiniteSet(history \cup {HistoryRow(q)})
    BY FS_AddElement DEF Audit
  <2>2. art'[call[q].id] # None
    BY <1>4, WriteRow
  <2>3. /\ history' = history \cup {HistoryRow(q)}
        /\ HistoryRow(q).artefact = call[q].id /\ HistoryRow(q).by = q
        /\ HistoryRow(q).op = call[q].op
        /\ call' = call /\ step'[q] = "done"
    BY <1>4, WriteAudits
  <2>4. ASSUME NEW h \in history'
        PROVE  /\ art'[h.artefact] # None /\ step'[h.by] = "done"
               /\ call'[h.by].op = h.op /\ call'[h.by].id = h.artefact
    <3>1. CASE h \in history
      BY <1>2, <2>3, <3>1 DEF Audit
    <3>2. CASE h = HistoryRow(q)
      BY <2>2, <2>3, <3>2
    <3> QED
      BY <2>3, <2>4, <3>1, <3>2
  <2> QED
    BY <2>1, <2>3, <2>4 DEF Audit
<1> QED
  BY <1>3, <1>4, TablesStep DEF tables, CommitCreate

LEMMA NextVersions ==
    ASSUME Typed, Rows, Audit, VersionCountsPatches, [Next]_vars
    PROVE  VersionCountsPatches'
<1>1. CASE UNCHANGED tables
  BY <1>1 DEF tables, VersionCountsPatches, Patches
<1>2. ASSUME NEW q \in Requests, CommitCreate(q) PROVE VersionCountsPatches'
  <2> SUFFICES ASSUME NEW a \in Ids, art'[a] # None
               PROVE  art'[a].version = 1 + Cardinality(Patches(a)')
    BY DEF VersionCountsPatches
  <2>1. Patches(a)' = Patches(a)
    BY <1>2 DEF CommitCreate, Patches
  <2>2. CASE a \in wrote[q]
    <3>1. art[a] = None /\ art'[a].version = 1
      BY <1>2, <2>2 DEF CommitCreate, Rows, Inserted, NewRow
    <3>2. Patches(a) = {}
      BY <3>1 DEF Patches, Audit
    <3>3. Cardinality(Patches(a)) = 0
      BY <3>2, FS_EmptySet
    <3> QED
      BY <2>1, <3>1, <3>3
  <2>3. CASE a \notin wrote[q]
    BY <1>2, <2>1, <2>3 DEF CommitCreate, VersionCountsPatches
  <2> QED
    BY <2>2, <2>3
<1>3. ASSUME NEW q \in Requests, Write(q) PROVE VersionCountsPatches'
  <2> SUFFICES ASSUME NEW a \in Ids, art'[a] # None
               PROVE  art'[a].version = 1 + Cardinality(Patches(a)')
    BY DEF VersionCountsPatches
  <2>1. CASE a # call[q].id
    <3>1. Patches(a)' = Patches(a) /\ art'[a] = art[a]
      BY <1>3, <2>1, WriteAudits, WriteRow DEF Patches
    <3> QED
      BY <3>1 DEF VersionCountsPatches
  <2>2. CASE a = call[q].id /\ call[q].op = "transition"
    <3>1. Patches(a)' = Patches(a)
      BY <1>3, <2>2, WriteAudits DEF Patches
    <3>2. art'[a].version = art[a].version /\ art[a] # None
      BY <1>3, <2>2, WriteRow, UpdatedRow, ArtefactAssumption
    <3> QED
      BY <3>1, <3>2 DEF VersionCountsPatches
  <2>3. CASE a = call[q].id /\ call[q].op = "patch"
    <3>1. Patches(a)' = Patches(a) \cup {HistoryRow(q)} /\ HistoryRow(q) \notin Patches(a)
      BY <1>3, <2>3, WriteAudits DEF Patches
    <3>2. IsFiniteSet(Patches(a))
      BY FS_Subset DEF Audit, Patches
    <3>3. /\ Cardinality(Patches(a)') = Cardinality(Patches(a)) + 1
          /\ Cardinality(Patches(a)) \in Nat
      BY <3>1, <3>2, FS_AddElement, FS_CardinalityType
    <3>4. art'[a].version = art[a].version + 1 /\ art[a] # None
      BY <1>3, <2>3, WriteRow, UpdatedRow, ArtefactAssumption
    <3> QED
      BY <3>3, <3>4 DEF VersionCountsPatches
  <2> QED
    BY <1>3, <2>1, <2>2, <2>3, WriteRow
<1> QED
  BY <1>1, <1>2, <1>3, TablesStep

\* The rows a step leaves, and where they come from.
LEMMA NextAccounted ==
    ASSUME Typed, Rows, Audit, AuditAccounts, [Next]_vars
    PROVE  AuditAccounts'
<1> SUFFICES ASSUME NEW a \in Ids, art'[a] # None PROVE Accounted(a)'
  BY DEF AuditAccounts, Accounted
<1>1. history \subseteq history'
  BY TablesStep DEF tables, CommitCreate, Write
<1>2. \A h \in history : h.by \in Requests /\ call'[h.by] = call[h.by]
  BY DoneStays DEF Audit, Typed, TypeOK
<1>3. ASSUME art'[a] = art[a] PROVE Accounted(a)'
  <2>1. Accounted(a)
    BY <1>3 DEF AuditAccounts, Accounted
  <2>2. NewRow(art[a].creator)'.state = NewRow(art[a].creator).state
    <3>1. art[a].creator \in Requests /\ step[art[a].creator] = "done"
      BY <1>3 DEF Rows, Origin, Typed, TypeOK, Row
    <3>2. call'[art[a].creator] = call[art[a].creator]
      BY <3>1, DoneStays
    <3> QED
      BY <1>3, <3>2 DEF NewRow
  <2> QED
    BY <1>1, <1>2, <1>3, <2>1, <2>2 DEF Accounted, Patches
<1>4. ASSUME NEW q \in Requests, CommitCreate(q), a \in wrote[q] PROVE Accounted(a)'
  <2>1. art'[a] = NewRow(q) /\ call' = call
    BY <1>4 DEF CommitCreate
  <2>2. art'[a].payload = q /\ art'[a].creator = q /\ NewRow(q)' = NewRow(q)
    BY <2>1 DEF NewRow
  <2> QED
    BY <2>1, <2>2 DEF Accounted
<1>5. ASSUME NEW q \in Requests, Write(q), a = call[q].id PROVE Accounted(a)'
  <2> DEFINE h == HistoryRow(q)
  <2>1. /\ h \in history' /\ h.artefact = a /\ h.by = q /\ h.op = call[q].op
        /\ call' = call
    BY <1>5, WriteAudits
  <2>2. art[a] \in Row /\ art[a] # None /\ art'[a] = Updated(q, art[a])
    BY <1>5, WriteRow, ArtefactAssumption
  <2>3. Accounted(a)
    BY <2>2 DEF AuditAccounts, Accounted
  <2>4. NewRow(art[a].creator)' = NewRow(art[a].creator) /\ art'[a].creator = art[a].creator
    BY <2>1, <2>2, UpdatedRow, <1>5 DEF NewRow
  <2>5. CASE call[q].op = "patch"
    <3>1. art'[a].payload = q /\ art'[a].state = art[a].state
      BY <2>2, <2>5, UpdatedRow
    <3> QED
      BY <1>1, <2>1, <2>3, <2>4, <2>5, <3>1 DEF Accounted, Patches
  <2>6. CASE call[q].op = "transition"
    <3>1. art'[a].payload = art[a].payload /\ art'[a].state = call[q].to
      BY <2>2, <2>6, UpdatedRow
    <3> QED
      BY <1>1, <2>1, <2>3, <2>4, <2>6, <3>1 DEF Accounted, Patches
  <2> QED
    BY <1>5, <2>5, <2>6, WriteRow
<1>6. \/ art'[a] = art[a]
      \/ \E q \in Requests : CommitCreate(q) /\ a \in wrote[q]
      \/ \E q \in Requests : Write(q) /\ a = call[q].id
  BY TablesStep, WriteRow DEF tables, CommitCreate
<1> QED
  BY <1>3, <1>4, <1>5, <1>6

LEMMA AuditHolds ==
    Spec => [](Typed /\ Rows /\ Audit /\ VersionCountsPatches /\ AuditAccounts)
BY InitTyped, NextTyped, InitRows, NextRows, InitAudit, NextAudit, NextVersions,
   NextAccounted, PTL DEF Spec

\* VersionCountsPatches: the UPDATE increments the version it finds, so that no
\* patch is lost from the count, however many read the same version.
THEOREM VersionsCount == Spec => []VersionCountsPatches
BY AuditHolds, PTL

\* AuditAccounts: every payload and every state of a row is its creator's or
\* that of a request the audit table names.
THEOREM AuditAccountsHolds == Spec => []AuditAccounts
BY AuditHolds, PTL

\* OneAspectPerWrite: a patch and a transition of one row, overlapping, keep
\* each other's effect; the payload a patch writes is new because every payload
\* a row has is of a request that has ended.
THEOREM OneAspect == Spec => OneAspectPerWrite
<1> DEFINE Kind(a) ==
       \/ /\ art'[a].version = art[a].version + 1
          /\ art'[a].payload # art[a].payload
          /\ art'[a].state = art[a].state
       \/ art'[a] = [art[a] EXCEPT !.state = art'[a].state]
<1>1. ASSUME Typed, Rows, Audit, AuditAccounts, [Next]_vars,
             NEW a \in Ids, art[a] # None, art'[a] # art[a]
      PROVE  Kind(a)
  <2>1. \A q \in Requests : ~CommitCreate(q)
    BY <1>1 DEF CommitCreate, Rows, Inserted
  <2>2. PICK q \in Requests : Write(q)
    BY <1>1, <2>1, TablesStep DEF tables
  <2>3. /\ a = call[q].id /\ art[a] \in Row /\ art'[a] = Updated(q, art[a])
        /\ call[q].op \in {"patch", "transition"}
    BY <1>1, <2>2, WriteRow
  <2>4. CASE call[q].op = "patch"
    <3>1. Accounted(a)
      BY <1>1 DEF AuditAccounts, Accounted
    <3>2. step[art[a].payload] = "done"
      BY <1>1, <3>1 DEF Accounted, Patches, Audit, Rows, Origin
    <3>3. step[q] # "done"
      BY <2>2 DEF Write, Goes
    <3> QED
      BY <2>3, <2>4, <3>2, <3>3, UpdatedRow
  <2>5. CASE call[q].op = "transition"
    <3>1. /\ Updated(q, art[a]) = [art[a] EXCEPT !.state = call[q].to]
          /\ Updated(q, art[a]).state = call[q].to
      BY <2>3, <2>5, UpdatedRow
    <3> QED
      BY <2>3, <3>1
  <2> QED
    BY <2>3, <2>4, <2>5
<1>2. Typed /\ Rows /\ Audit /\ AuditAccounts /\ [Next]_vars
      => \A a \in Ids : art[a] # None /\ art'[a] # art[a] => Kind(a)
  BY <1>1
<1> QED
  BY <1>2, AuditHolds, PTL DEF Spec, OneAspectPerWrite

-----------------------------------------------------------------------------
(* Approval                                                                  *)

Policies == {DefaultPolicy} \cup Range(PolicyOf)

\* A transition that is about to be written was allowed by some policy.
Allowed ==
    \A q \in Requests :
        step[q] = "write" /\ call[q].op = "transition" =>
            \E policy \in Policies :
                Allows(policy, cur[q].state, call[q].to, call[q].role)

LEMMA ResolvedPolicy ==
    ASSUME Typed, NEW t, NEW type, NEW S
    PROVE  Resolved(t, type, S) \subseteq Policies
<1>1. \A a \in Applicable(t, type, S) : PolicyOf[art[a].payload] \in Range(PolicyOf)
  BY ArtefactAssumption DEF Applicable, Typed, TypeOK, Row, Range
<1> QED
  BY <1>1 DEF Resolved, Policies

LEMMA NextAllowed == ASSUME Typed, Allowed, [Next]_vars PROVE Allowed'
<1>1. CASE UNCHANGED vars
  BY <1>1 DEF vars, Allowed
<1>2. ASSUME NEW q \in Requests, StepOf(q),
             step'[q] = "write" /\ call'[q].op = "transition" =>
                 \E policy \in Policies :
                     Allows(policy, cur'[q].state, call'[q].to, call'[q].role)
      PROVE  Allowed'
  BY <1>2, OthersAlone DEF Allowed
<1>3. ASSUME NEW q \in Requests, StepOf(q), ~ResolvePolicy(q), step'[q] = "write",
             call'[q].op = "transition"
      PROVE  FALSE
  BY <1>3 DEF StepOf, Begin, FirstStep, Statement, LookupKey, InsertRow, InsertKey,
              CommitCreate, ReadRow, Write, Fail, BreakDeadlock, Rollback, AnswerItem,
              Goes, Typed, TypeOK
<1>4. ASSUME NEW q \in Requests, ResolvePolicy(q), step'[q] = "write"
      PROVE  \E policy \in Policies :
                 Allows(policy, cur'[q].state, call'[q].to, call'[q].role)
  <2>1. PICK policy \in Resolved(call[q].tenant, TypeOf[call[q].id], {"approved"}) :
           Goes(q, "policy",
                IF Allows(policy, cur[q].state, call[q].to, call[q].role)
                THEN "write" ELSE "denied")
    BY <1>4 DEF ResolvePolicy
  <2>2. Allows(policy, cur[q].state, call[q].to, call[q].role)
    BY <1>4, <2>1 DEF Goes, Typed, TypeOK
  <2>3. policy \in Policies /\ UNCHANGED <<cur, call>>
    BY <1>4, <2>1, ResolvedPolicy DEF ResolvePolicy
  <2> QED
    BY <2>2, <2>3
<1> QED
  BY <1>1, <1>2, <1>3, <1>4 DEF Next, StepOf

\* Every policy asks for a user before it lets an artefact be approved.
UsersApprove ==
    \A policy \in Policies :
        \A tr \in policy.transitions : tr.to = "approved" => tr.roles = {"user"}

Approved(a) ==
    \/ call[art[a].creator].op = "seed"
    \/ \E h \in history : /\ h.artefact = a
                          /\ h.op = "transition"
                          /\ call[h.by].to = "approved"
                          /\ call[h.by].role = "user"

ApprovedOK == \A a \in Ids : art[a] # None /\ art[a].state = "approved" => Approved(a)

LEMMA NextApproved ==
    ASSUME UsersApprove, Typed, Rows, Audit, Allowed, ApprovedOK, [Next]_vars
    PROVE  ApprovedOK'
<1> SUFFICES ASSUME NEW a \in Ids, art'[a] # None, art'[a].state = "approved"
             PROVE  Approved(a)'
  BY DEF ApprovedOK
<1>1. /\ history \subseteq history'
      /\ \A h \in history : h.by \in Requests /\ call'[h.by] = call[h.by]
  BY TablesStep, DoneStays DEF tables, CommitCreate, Write, Audit, Typed, TypeOK
<1>2. ASSUME art[a] # None, art[a].state = "approved", art'[a].creator = art[a].creator
      PROVE  Approved(a)'
  <2>1. art[a].creator \in Requests /\ step[art[a].creator] = "done"
    BY <1>2 DEF Rows, Origin, Typed, TypeOK, Row
  <2>2. call'[art[a].creator] = call[art[a].creator]
    BY <2>1, DoneStays
  <2>3. Approved(a)
    BY <1>2 DEF ApprovedOK
  <2> QED
    BY <1>1, <1>2, <2>2, <2>3 DEF Approved
<1>3. ASSUME NEW q \in Requests, CommitCreate(q), a \in wrote[q] PROVE Approved(a)'
  <2>1. art'[a] = NewRow(q) /\ call' = call
    BY <1>3 DEF CommitCreate
  <2> QED
    BY <2>1 DEF NewRow, Approved
<1>4. ASSUME NEW q \in Requests, Write(q), a = call[q].id PROVE Approved(a)'
  <2>1. art[a] \in Row /\ art[a] # None /\ art'[a] = Updated(q, art[a])
    BY <1>4, WriteRow, ArtefactAssumption
  <2>2. CASE call[q].op = "patch"
    BY <1>2, <2>1, <2>2, UpdatedRow
  <2>3. CASE call[q].op = "transition"
    <3>1. call[q].to = "approved"
      BY <2>1, <2>3, UpdatedRow
    <3>2. PICK policy \in Policies :
             Allows(policy, cur[q].state, call[q].to, call[q].role)
      BY <1>4, <2>3, WriteRow DEF Allowed
    <3>3. call[q].role = "user"
      BY <3>1, <3>2 DEF Allows, UsersApprove
    <3> QED
      BY <1>4, <2>3, <3>1, <3>3, WriteAudits DEF Approved
  <2> QED
    BY <1>4, <2>2, <2>3, WriteRow
<1>5. \/ art'[a] = art[a]
      \/ \E q \in Requests : CommitCreate(q) /\ a \in wrote[q]
      \/ \E q \in Requests : Write(q) /\ a = call[q].id
  BY TablesStep, WriteRow DEF tables, CommitCreate
<1> QED
  BY <1>2, <1>3, <1>4, <1>5

\* ApprovedByUser: where no policy lets anyone but a user approve, no artefact
\* is approved without one, although policies, artefacts and requests change
\* between the SELECTs of a transition and its UPDATE.
THEOREM ApprovedByUserHolds == Spec => []ApprovedByUser
<1>1. ApprovedByUser <=> (UsersApprove => ApprovedOK)
  BY DEF ApprovedByUser, UsersApprove, Policies, ApprovedOK, Approved
<1>2. CASE ~UsersApprove
  <2>1. ApprovedByUser
    BY <1>1, <1>2
  <2> QED
    BY <2>1, PTL
<1>3. CASE UsersApprove
  <2>1. Init => Allowed /\ ApprovedOK
    BY DEF Init, Allowed, ApprovedOK
  <2>2. Typed /\ Rows /\ Audit /\ Allowed /\ ApprovedOK /\ [Next]_vars
        => Allowed' /\ ApprovedOK'
    BY <1>3, NextAllowed, NextApproved
  <2> QED
    BY <1>1, <2>1, <2>2, AuditHolds, PTL DEF Spec
<1> QED
  BY <1>2, <1>3

=============================================================================
