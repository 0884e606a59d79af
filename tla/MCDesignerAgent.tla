-------------------------- MODULE MCDesignerAgent --------------------------
(* DesignerAgent for TLC, with the limits of attempts the code has and a     *)
(* graph of 12 nodes, of 25 in the code: enough for three model calls and a  *)
(* review of each.  Two starts of a worker ingest one document of one chunk, *)
(* so that one text has two ids; a search asks for two hits.                 *)
EXTENDS DesignerAgent

CONSTANTS w1, w2

TwoStarts == {w1, w2}
OneText   == << <<1>> >>
Starts    == Permutations(TwoStarts)

\* The texts of the run are short: the windows of long ones are compared with
\* the loop of _chunk here, on lengths about the code's sizes.
Lengths == {0, 1, 461, 462, 463, 511, 512, 513, 924, 925, 974, 975, 1500}

Loop(n) ==
    LET from[i \in 0 .. n + ChunkSize] ==
          IF i < n
          THEN {<<i, Lesser(i + ChunkSize, n)>>} \cup from[i + ChunkSize - ChunkOverlap]
          ELSE {}
    IN  IF n = 0 THEN {} ELSE IF n <= ChunkSize THEN {<<0, n>>} ELSE from[0]

\* They leave no token out, and ChunkOverlap tokens in a row stand in one.
ASSUME ChunkingSound ==
    \A n \in Lengths :
        /\ Windows(n) = Loop(n)
        /\ \A i \in 0 .. n - 1 : \E w \in Windows(n) : w[1] <= i /\ i < w[2]
        /\ \A w \in Windows(n) : w[1] < w[2] /\ w[2] - w[1] <= ChunkSize
        /\ \A i \in 0 .. n - ChunkOverlap :
              \E w \in Windows(n) : w[1] <= i /\ i + ChunkOverlap <= w[2]

=============================================================================
