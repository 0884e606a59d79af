----------------------------- MODULE RagService -----------------------------
(***************************************************************************)
(* The RAG service (services/rag/src/main.py) and the workers that seed it *)
(* (agent-workers/src/worker.py).  An ingest writes the chunks of a        *)
(* document to Postgres and then to OpenSearch, with no transaction over   *)
(* the two; a search reads Postgres and then OpenSearch and fuses the two  *)
(* rankings.  Both stores change between the statements of either.         *)
(*                                                                         *)
(* A chunk has no name but the random one its ingest gives it, so that the *)
(* same text ingested twice is two chunks: an id is the ingest with the    *)
(* tokens of the document it stands for.                                   *)
(***************************************************************************)
EXTENDS SequencesExt

CONSTANTS
    Seeders,         \* starts of a worker, each of which seeds the documents
    Corpus,          \* the documents in order: the tokens under each header
    ChunkSize,       \* CHUNK_SIZE, in tokens
    ChunkOverlap,    \* CHUNK_OVERLAP
    RrfK,            \* RRF_K
    SearchK          \* the hits a search asks for

ASSUME RagAssumption ==
    /\ Corpus \in Seq(Seq(Nat))
    /\ ChunkOverlap \in Nat
    /\ ChunkSize \in Nat /\ ChunkSize > ChunkOverlap
    /\ RrfK \in Nat
    /\ SearchK \in Nat

Docs    == DOMAIN Corpus
Ingests == Seeders \X Docs

VARIABLES
    seed,      \* the document a worker is at, one past the last when it is over
    ingest,    \* where the handler of each POST /ingest is
    pg,        \* chunk ids in the table chunks
    index,     \* chunk ids in the OpenSearch index
    search,    \* the search of the designer: "none", or the store it asks next
    near,      \* what its query has found in Postgres, best first
    match      \* ... and in OpenSearch

storeVars  == <<seed, ingest, pg, index>>
searchVars == <<search, near, match>>
ragVars    == <<storeVars, searchVars>>

NoSearch == search = "none" /\ near = <<>> /\ match = <<>>

EndSearch == search' = "none" /\ near' = <<>> /\ match' = <<>>

RagInit ==
    /\ seed = [s \in Seeders |-> 1]
    /\ ingest = [i \in Ingests |-> "none"]
    /\ pg = {}
    /\ index = {}
    /\ NoSearch

-----------------------------------------------------------------------------
(* Chunking                                                                  *)

Lesser(m, n) == IF m < n THEN m ELSE n

\* The windows of a text of n tokens, [from, to) each.
Windows(n) ==
    {<<i, Lesser(i + ChunkSize, n)>> :
        i \in {j \in 0 .. n - 1 : \/ j = 0
                                  \/ /\ n > ChunkSize
                                     /\ j % (ChunkSize - ChunkOverlap) = 0}}

Chunks(i) ==
    UNION {{[ingest |-> i, part |-> p, window |-> w] : w \in Windows(Corpus[i[2]][p])} :
             p \in DOMAIN Corpus[i[2]]}

-----------------------------------------------------------------------------
(* POST /ingest                                                              *)

Step(i, from, to) == ingest[i] = from /\ ingest' = [ingest EXCEPT ![i] = to]

\* A document without tokens is answered at once.
Receive(i) ==
    /\ Step(i, "none", IF Chunks(i) = {} THEN "ok" ELSE "embed")
    /\ UNCHANGED <<pg, index>>

Embed(i) ==
    /\ Step(i, "embed", "insert") \/ Step(i, "embed", "failed")
    /\ UNCHANGED <<pg, index>>

\* All rows or none; the answer to a commit may be lost.
Insert(i) ==
    /\ \/ Step(i, "insert", "index") /\ pg' = pg \cup Chunks(i)
       \/ Step(i, "insert", "failed") /\ pg' \in {pg, pg \cup Chunks(i)}
    /\ UNCHANGED index

\* The bulk takes some of its items.  It raises if the request as a whole
\* fails; the errors of single items are not looked at.
Index(i) ==
    /\ Step(i, "index", "ok") \/ Step(i, "index", "failed")
    /\ \E taken \in SUBSET Chunks(i) : index' = index \cup taken
    /\ UNCHANGED pg

\* Faulty variants for a mutation run: OpenSearch is written first.
InsertLast(i) ==
    /\ \/ Step(i, "index", "ok") /\ pg' = pg \cup Chunks(i)
       \/ Step(i, "index", "failed") /\ pg' \in {pg, pg \cup Chunks(i)}
    /\ UNCHANGED index

IndexFirst(i) ==
    /\ Step(i, "insert", "index")
    /\ index' = index \cup Chunks(i)
    /\ UNCHANGED pg

WriteIndexFirst(i) == IndexFirst(i) \/ InsertLast(i)

Write(i) == Insert(i) \/ Index(i)

-----------------------------------------------------------------------------
(* _seed_docs: the documents in order, until one is not answered with 200    *)

Here(s) == <<s, seed[s]>>

Post(s) ==
    /\ seed[s] \in Docs
    /\ Receive(Here(s))
    /\ UNCHANGED seed

Answered(s) ==
    /\ seed[s] \in Docs
    /\ ingest[Here(s)] = "ok"
    /\ seed' = [seed EXCEPT ![s] = @ + 1]
    /\ UNCHANGED <<ingest, pg, index>>

\* An error or a timeout ends the seeding; the handler may still be at work.
Unanswered(s) ==
    /\ seed[s] \in Docs
    /\ ingest[Here(s)] \notin {"none", "ok"}
    /\ seed' = [seed EXCEPT ![s] = Len(Corpus) + 1]
    /\ UNCHANGED <<ingest, pg, index>>

Ingesting ==
    /\ \/ \E s \in Seeders : Post(s) \/ Answered(s) \/ Unanswered(s)
       \/ \E i \in Ingests : (Embed(i) \/ Write(i)) /\ UNCHANGED seed
    /\ UNCHANGED searchVars

-----------------------------------------------------------------------------
(* POST /search                                                              *)

Rankings(S, n) == {r \in [1 .. n -> S] : IsInjective(r)}

\* The k nearest rows, in an order the vectors decide.
SearchVectors ==
    /\ search = "none"
    /\ search' = "text"
    /\ near' \in Rankings(pg, Lesser(SearchK, Cardinality(pg)))
    /\ UNCHANGED <<storeVars, match>>

\* The best k of the documents that match, however many do.
SearchText ==
    /\ search = "text"
    /\ search' = "fuse"
    /\ \E n \in 0 .. SearchK : match' \in Rankings(index, n)
    /\ UNCHANGED <<storeVars, near>>

Found == Range(near) \cup Range(match)

Both(c) == c \in Range(near) \cap Range(match)

Rank(ranking, c) == CHOOSE i \in DOMAIN ranking : ranking[i] = c

Denominator(ranking, c) == RrfK + Rank(ranking, c)

\* Faulty variant: the second ranking overwrites what the first has given.
ScoreLastOnly(c) ==
    IF c \in Range(match) THEN <<1, Denominator(match, c)>>
    ELSE <<1, Denominator(near, c)>>

\* The sum of 1 / (RrfK + rank) over the rankings c is in, as a fraction.
Score(c) ==
    LET n == Denominator(near, c)
        m == Denominator(match, c)
    IN  IF Both(c) THEN <<n + m, n * m>>
        ELSE IF c \in Range(near) THEN <<1, n>> ELSE <<1, m>>

Higher(s, t) == s[1] * t[2] > t[1] * s[2]

\* Where c stands in the dictionary that is sorted: Postgres' rows come first.
Entered(c) ==
    IF c \in Range(near) THEN Rank(near, c) ELSE Len(near) + Rank(match, c)

\* c stands before d in the merged list; the sort is stable.
Before(c, d) ==
    \/ Higher(Score(c), Score(d))
    \/ ~Higher(Score(d), Score(c)) /\ Entered(c) < Entered(d)

Place(c) == 1 + Cardinality({d \in Found : Before(d, c)})

\* The chunks the search answers with.
Hits == {c \in Found : Place(c) <= SearchK}

-----------------------------------------------------------------------------
(* Properties                                                                *)

RagTypeOK ==
    /\ seed \in [Seeders -> 1 .. Len(Corpus) + 1]
    /\ ingest \in [Ingests -> {"none", "embed", "insert", "index", "ok", "failed"}]
    /\ pg \subseteq UNION {Chunks(i) : i \in Ingests}
    /\ index \subseteq UNION {Chunks(i) : i \in Ingests}
    /\ search \in {"none", "text", "fuse"}

\* Whatever ingests do beside a search, its answer is sorted as rank fusion
\* promises: what both stores found stands before what one of them found, the
\* nearest row is among the hits, and the list is as long as it can be.  For a
\* larger k the first is not so: the sum of two low ranks may be the smaller.
FusionSound ==
    search = "fuse" /\ SearchK \in 1 .. RrfK + 1 =>
        /\ \A c, d \in Found : Both(c) /\ ~Both(d) => Before(c, d)
        /\ near # <<>> => near[1] \in Hits
        /\ Cardinality(Hits) = Lesser(SearchK, Cardinality(Found))

=============================================================================
