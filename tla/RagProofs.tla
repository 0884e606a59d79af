------------------------------ MODULE RagProofs ------------------------------
(***************************************************************************)
(* Proofs about RagService: the windows of a text of any length, and the   *)
(* fusion of two rankings of any length, for every corpus and every k.     *)
(*                                                                         *)
(* The argument about fusion: scores are fractions with positive           *)
(* denominators, so "stands before" is a strict total order of what was    *)
(* found, and the places are 1 .. n without a gap.  A chunk can stand      *)
(* before the nearest row only for a rank of its own, among fewer than k.  *)
(***************************************************************************)
EXTENDS RagService, FiniteSetTheorems, FunctionTheorems, TLAPS

-----------------------------------------------------------------------------
(* Chunking                                                                  *)

\* A text is cut at the multiples of the stride.
LEMMA Multiple ==
    ASSUME NEW a \in Nat, NEW b \in Nat, b > 0
    PROVE  /\ a % b \in 0 .. b - 1
           /\ a - (a % b) \in 0 .. a
           /\ (a - (a % b)) % b = 0
<1>1. a % b \in 0 .. b - 1 /\ a \div b \in Nat
    OBVIOUS
<1>2. a - (a % b) = b * (a \div b)
    OBVIOUS
<1>3. b * (a \div b) \in Nat
    BY <1>1
<1>4. (a - (a % b)) % b = 0
    OBVIOUS
<1> QED
    BY <1>1, <1>2, <1>3, <1>4

\* A window is not empty, is no longer than a chunk may be and ends in the text.
THEOREM WindowsFit ==
    ASSUME NEW n \in Nat, NEW w \in Windows(n)
    PROVE  /\ w[1] \in 0 .. n - 1
           /\ w[2] \in 1 .. n
           /\ w[1] < w[2]
           /\ w[2] - w[1] <= ChunkSize
<1>1. PICK i \in 0 .. n - 1 : w = <<i, Lesser(i + ChunkSize, n)>>
    BY DEF Windows
<1>2. ChunkSize \in Nat /\ ChunkSize > 0
    BY RagAssumption
<1> QED
    BY <1>1, <1>2 DEF Lesser

\* However long the text, every ChunkOverlap tokens in a row, and every single
\* one, stand in one window: no sentence that short is cut.
THEOREM WindowsCover ==
    ASSUME NEW n \in Nat, NEW i \in 0 .. n - 1, NEW l \in Nat,
           i + l <= n, l <= ChunkOverlap \/ l = 1
    PROVE  \E w \in Windows(n) : w[1] <= i /\ i + l <= w[2] /\ i < w[2]
<1> DEFINE stride == ChunkSize - ChunkOverlap
           from == IF n <= ChunkSize THEN 0 ELSE i - (i % stride)
           w == <<from, Lesser(from + ChunkSize, n)>>
<1>1. /\ ChunkSize \in Nat /\ ChunkOverlap \in Nat
      /\ stride \in Nat /\ stride > 0
    BY RagAssumption
<1>2. i \in Nat /\ i < n
    OBVIOUS
<1>3. CASE n <= ChunkSize
  <2>1. w \in Windows(n)
      BY <1>2, <1>3 DEF Windows
  <2>2. w[1] = 0 /\ w[2] = n
      BY <1>1, <1>3 DEF Lesser
  <2> QED
      BY <1>2, <2>1, <2>2
<1>4. CASE n > ChunkSize
  <2> HIDE DEF stride
  <2>1. /\ i % stride \in 0 .. stride - 1
        /\ i - (i % stride) \in 0 .. i
        /\ (i - (i % stride)) % stride = 0
      BY <1>1, <1>2, Multiple
  <2>2. from = i - (i % stride)
      BY <1>1, <1>4
  <2> HIDE DEF from
  <2>3. from \in 0 .. n - 1 /\ from <= i /\ i < from + stride /\ from % stride = 0
      BY <1>1, <1>2, <2>1, <2>2
  <2>4. w \in Windows(n)
      BY <1>4, <2>3 DEF Windows, stride
  <2>5. l <= ChunkOverlap \/ l = 1 => i + l <= from + ChunkSize
      BY <1>1, <1>2, <2>3 DEF stride
  <2>6. i + l <= w[2] /\ i < w[2]
      BY <1>1, <1>2, <2>3, <2>5 DEF Lesser, stride
  <2> QED
      BY <2>3, <2>4, <2>6
<1> QED
    BY <1>1, <1>3, <1>4

-----------------------------------------------------------------------------
(* Rankings                                                                  *)

LEMMA EmptyRanking == \A S : <<>> \in Rankings(S, 0)
<1>1. DOMAIN <<>> = {}
    OBVIOUS
<1>2. \A S : <<>> \in [1 .. 0 -> S]
    OBVIOUS
<1> QED
    BY <1>1, <1>2 DEF Rankings, IsInjective

LEMMA RankingRange ==
    ASSUME NEW S, NEW n, NEW r \in Rankings(S, n)
    PROVE  Range(r) \subseteq S
BY DEF Rankings, Range

LEMMA RankingGrows ==
    ASSUME NEW S, NEW T, S \subseteq T, NEW n
    PROVE  Rankings(S, n) \subseteq Rankings(T, n)
BY DEF Rankings

LEMMA RankingLength ==
    ASSUME NEW S, NEW n \in Nat, NEW r \in Rankings(S, n)
    PROVE  r \in Seq(S) /\ Len(r) = n /\ DOMAIN r = 1 .. n
BY DEF Rankings

\* The rank of what a ranking holds is the one place it stands at.
LEMMA RankOf ==
    ASSUME NEW S, NEW n \in Nat, NEW r \in Rankings(S, n)
    PROVE  /\ \A c \in Range(r) : Rank(r, c) \in 1 .. n /\ r[Rank(r, c)] = c
           /\ \A i \in 1 .. n : r[i] \in Range(r) /\ Rank(r, r[i]) = i
<1>1. DOMAIN r = 1 .. n /\ \A a, b \in 1 .. n : r[a] = r[b] => a = b
    BY DEF Rankings, IsInjective
<1>2. ASSUME NEW c \in Range(r)
      PROVE  Rank(r, c) \in 1 .. n /\ r[Rank(r, c)] = c
  <2>1. \E i \in DOMAIN r : r[i] = c
      BY DEF Range
  <2> QED
      BY <2>1, <1>1 DEF Rank
<1>3. \A i \in 1 .. n : r[i] \in Range(r)
    BY <1>1 DEF Range
<1> QED
    BY <1>1, <1>2, <1>3

-----------------------------------------------------------------------------
(* Fractions                                                                 *)

Fraction == (Nat \ {0}) \X (Nat \ {0})

LEMMA Products ==
    ASSUME NEW a \in Nat \ {0}, NEW b \in Nat \ {0}
    PROVE  a * b \in Nat \ {0}
OBVIOUS

LEMMA HigherAsymmetric ==
    ASSUME NEW s \in Fraction, NEW t \in Fraction, Higher(s, t)
    PROVE  ~Higher(t, s)
<1>1. s[1] * t[2] \in Nat /\ t[1] * s[2] \in Nat
    BY Products DEF Fraction
<1> QED
    BY <1>1 DEF Higher

\* Of fractions none of which is below the next, the first is not below the
\* last, and is above it if one of the steps is.
LEMMA HigherTransitive ==
    ASSUME NEW s \in Fraction, NEW t \in Fraction, NEW u \in Fraction,
           ~Higher(t, s), ~Higher(u, t)
    PROVE  /\ ~Higher(u, s)
           /\ Higher(s, t) \/ Higher(t, u) => Higher(s, u)
<1> DEFINE a == s[1]  b == s[2]  c == t[1]  d == t[2]  e == u[1]  f == u[2]
<1>1. /\ a \in Nat /\ b \in Nat /\ c \in Nat /\ d \in Nat /\ e \in Nat /\ f \in Nat
      /\ a > 0 /\ b > 0 /\ c > 0 /\ d > 0 /\ e > 0 /\ f > 0
    BY DEF Fraction
<1>2. /\ Higher(s, t) <=> a * d > c * b
      /\ Higher(t, s) <=> c * b > a * d
      /\ Higher(t, u) <=> c * f > e * d
      /\ Higher(u, t) <=> e * d > c * f
      /\ Higher(s, u) <=> a * f > e * b
      /\ Higher(u, s) <=> e * b > a * f
    BY DEF Higher
<1> HIDE DEF a, b, c, d, e, f
<1>3. a * d >= c * b /\ c * f >= e * d
    BY <1>1, <1>2, Products
<1>4. (a * d) * f >= (c * b) * f /\ (c * f) * b >= (e * d) * b
    BY <1>1, <1>3
<1>5. a * f >= e * b
  <2>1. d * (a * f) >= d * (e * b)
      BY <1>1, <1>4
  <2> QED
      BY <2>1, <1>1
<1>6. ASSUME a * d > c * b \/ c * f > e * d
      PROVE  a * f > e * b
  <2>1. (a * d) * f > (c * b) * f \/ (c * f) * b > (e * d) * b
      BY <1>1, <1>6
  <2>2. d * (a * f) > d * (e * b)
      BY <1>1, <1>4, <2>1
  <2> QED
      BY <2>2, <1>1
<1> QED
    BY <1>1, <1>2, <1>5, <1>6

-----------------------------------------------------------------------------
(* The order of what is found                                                *)

\* What a search has in hand when it fuses: two rankings of no more than
\* SearchK of the rows.
Fusing(n, m) ==
    /\ n \in 0 .. SearchK /\ near \in Rankings(pg, n)
    /\ m \in 0 .. SearchK /\ match \in Rankings(pg, m)

LEMMA Denominators ==
    ASSUME NEW S, NEW n \in Nat, NEW r \in Rankings(S, n), NEW c \in Range(r)
    PROVE  Denominator(r, c) \in RrfK + 1 .. RrfK + n
BY RankOf, RagAssumption DEF Denominator

LEMMA ScoreIsFraction ==
    ASSUME NEW n, NEW m, Fusing(n, m), NEW c \in Found
    PROVE  Score(c) \in Fraction
<1>1. n \in Nat /\ m \in Nat /\ RrfK \in Nat
    BY RagAssumption DEF Fusing
<1>2. c \in Range(near) => Denominator(near, c) \in Nat \ {0}
    BY <1>1, Denominators DEF Fusing
<1>3. c \in Range(match) => Denominator(match, c) \in Nat \ {0}
    BY <1>1, Denominators DEF Fusing
<1>4. CASE Both(c)
  <2>1. Denominator(near, c) \in Nat \ {0} /\ Denominator(match, c) \in Nat \ {0}
      BY <1>2, <1>3, <1>4 DEF Both
  <2> QED
      BY <1>4, <2>1, Products DEF Score, Fraction
<1>5. CASE ~Both(c) /\ c \in Range(near)
    BY <1>5, <1>2 DEF Score, Fraction
<1>6. CASE ~Both(c) /\ c \notin Range(near)
    BY <1>6, <1>3 DEF Score, Fraction, Found
<1> QED
    BY <1>4, <1>5, <1>6

LEMMA EnteredOnce ==
    ASSUME NEW n, NEW m, Fusing(n, m)
    PROVE  /\ \A c \in Found : Entered(c) \in 1 .. n + m
           /\ \A c, d \in Found : Entered(c) = Entered(d) => c = d
<1>1. n \in Nat /\ m \in Nat
    BY RagAssumption DEF Fusing
<1>2. Len(near) = n
    BY <1>1, RankingLength DEF Fusing
<1>3. \A c \in Range(near) : Rank(near, c) \in 1 .. n /\ near[Rank(near, c)] = c
    BY <1>1, RankOf DEF Fusing
<1>4. \A c \in Range(match) : Rank(match, c) \in 1 .. m /\ match[Rank(match, c)] = c
    BY <1>1, RankOf DEF Fusing
<1>5. \A c \in Found : c \in Range(near) => Entered(c) = Rank(near, c) /\ Entered(c) \in 1 .. n
    BY <1>3 DEF Entered
<1>6. \A c \in Found : c \notin Range(near) =>
        c \in Range(match) /\ Entered(c) = n + Rank(match, c) /\ Entered(c) \in n + 1 .. n + m
    BY <1>1, <1>2, <1>4 DEF Entered, Found
<1>7. \A c \in Found : Entered(c) \in 1 .. n + m
    BY <1>1, <1>5, <1>6
<1>8. ASSUME NEW c \in Found, NEW d \in Found, Entered(c) = Entered(d)
      PROVE  c = d
  <2>1. CASE c \in Range(near) /\ d \in Range(near)
      BY <1>3, <1>5, <1>8, <2>1
  <2>2. CASE c \notin Range(near) /\ d \notin Range(near)
    <3>1. Rank(match, c) = Rank(match, d)
        BY <1>1, <1>4, <1>6, <1>8, <2>2
    <3> QED
        BY <1>4, <1>6, <2>2, <3>1
  <2> QED
      BY <1>1, <1>5, <1>6, <1>8, <2>1, <2>2
<1> QED
    BY <1>7, <1>8

LEMMA BeforeIsOrder ==
    ASSUME NEW n, NEW m, Fusing(n, m)
    PROVE  /\ \A c \in Found : ~Before(c, c)
           /\ \A c, d \in Found : Before(c, d) \/ Before(d, c) \/ c = d
           /\ \A c, d, e \in Found : Before(c, d) /\ Before(d, e) => Before(c, e)
<1>1. \A c \in Found : Score(c) \in Fraction
    BY ScoreIsFraction
<1>2. \A c \in Found : Entered(c) \in Nat
  <2>1. n \in Nat /\ m \in Nat
      BY RagAssumption DEF Fusing
  <2>2. \A c \in Found : Entered(c) \in 1 .. n + m
      BY EnteredOnce
  <2> QED
      BY <2>1, <2>2
<1>3. \A c \in Found : ~Before(c, c)
    BY <1>1, <1>2, HigherAsymmetric DEF Before
<1>4. ASSUME NEW c \in Found, NEW d \in Found, c # d
      PROVE  Before(c, d) \/ Before(d, c)
  <2>1. Entered(c) < Entered(d) \/ Entered(d) < Entered(c)
      BY <1>2, <1>4, EnteredOnce
  <2> QED
      BY <2>1 DEF Before
<1>5. ASSUME NEW c \in Found, NEW d \in Found, NEW e \in Found, Before(c, d), Before(d, e)
      PROVE  Before(c, e)
  <2>1. ~Higher(Score(d), Score(c)) /\ ~Higher(Score(e), Score(d))
      BY <1>1, <1>5, HigherAsymmetric DEF Before
  <2>2. /\ ~Higher(Score(e), Score(c))
        /\ Higher(Score(c), Score(d)) \/ Higher(Score(d), Score(e)) => Higher(Score(c), Score(e))
      BY <1>1, <2>1, HigherTransitive
  <2>3. CASE Entered(c) < Entered(d) /\ Entered(d) < Entered(e)
      BY <1>2, <2>2, <2>3 DEF Before
  <2> QED
      BY <1>5, <2>2, <2>3 DEF Before
<1> QED
    BY <1>3, <1>4, <1>5

\* Two ranks within the first RrfK + 1 have a sum above that of any one rank.
LEMMA TwoBeatOne ==
    ASSUME NEW w \in Nat, w > 0,
           NEW x \in w .. 2 * w - 1, NEW y \in w .. 2 * w - 1, NEW z \in Nat, z >= w
    PROVE  Higher(<<x + y, x * y>>, <<1, z>>)
<1>1. x * y < w * (x + y)
  <2>1. x \in Nat /\ y \in Nat /\ x < 2 * w /\ y < 2 * w /\ x >= w /\ y >= w
      OBVIOUS
  <2>2. (2 * w - x) * y > 0 /\ (2 * w - y) * x > 0
      BY <2>1
  <2> QED
      BY <2>1, <2>2
<1>2. (x + y) * z >= (x + y) * w
    OBVIOUS
<1>3. (x + y) * z \in Nat /\ x * y \in Nat /\ w * (x + y) \in Nat
    OBVIOUS
<1>4. (x + y) * w = w * (x + y)
    OBVIOUS
<1>5. (x + y) * z > x * y
    BY <1>1, <1>2, <1>3, <1>4
<1> QED
    BY <1>3, <1>5 DEF Higher

LEMMA BothFirst ==
    ASSUME NEW n, NEW m, Fusing(n, m), SearchK <= RrfK + 1,
           NEW c \in Found, NEW d \in Found, Both(c), ~Both(d)
    PROVE  Before(c, d)
<1>1. n \in Nat /\ m \in Nat /\ RrfK \in Nat /\ n <= RrfK + 1 /\ m <= RrfK + 1
    BY RagAssumption DEF Fusing
<1>2. /\ Denominator(near, c) \in RrfK + 1 .. RrfK + n
      /\ Denominator(match, c) \in RrfK + 1 .. RrfK + m
    BY <1>1, Denominators DEF Fusing, Both
<1>3. \E z \in Nat : z >= RrfK + 1 /\ Score(d) = <<1, z>>
  <2>1. CASE d \in Range(near)
    <3>1. Denominator(near, d) \in RrfK + 1 .. RrfK + n
        BY <1>1, <2>1, Denominators DEF Fusing
    <3> QED
        BY <1>1, <2>1, <3>1 DEF Score
  <2>2. CASE d \in Range(match) /\ d \notin Range(near)
    <3>1. Denominator(match, d) \in RrfK + 1 .. RrfK + m
        BY <1>1, <2>2, Denominators DEF Fusing
    <3> QED
        BY <1>1, <2>2, <3>1 DEF Score
  <2> QED
      BY <2>1, <2>2 DEF Found
<1>4. PICK z \in Nat : z >= RrfK + 1 /\ Score(d) = <<1, z>>
    BY <1>3
<1>5. Score(c) = <<Denominator(near, c) + Denominator(match, c),
                   Denominator(near, c) * Denominator(match, c)>>
    BY DEF Score
<1>6. Higher(Score(c), Score(d))
  <2> DEFINE w == RrfK + 1
  <2>1. w \in Nat /\ w > 0
      BY <1>1
  <2>2. /\ Denominator(near, c) \in w .. 2 * w - 1
        /\ Denominator(match, c) \in w .. 2 * w - 1
      BY <1>1, <1>2
  <2>3. z >= w
      BY <1>4
  <2> HIDE DEF w
  <2> QED
      BY <1>4, <1>5, <2>1, <2>2, <2>3, TwoBeatOne
<1> QED
    BY <1>6 DEF Before

-----------------------------------------------------------------------------
(* Places                                                                    *)

Ahead(c) == {d \in Found : Before(d, c)}

LEMMA FoundIsFinite ==
    ASSUME NEW n, NEW m, Fusing(n, m)
    PROVE  IsFiniteSet(Found)
<1>1. n \in Int /\ m \in Int /\ IsFiniteSet(1 .. n) /\ IsFiniteSet(1 .. m)
    BY RagAssumption, FS_Interval DEF Fusing
<1>2. near \in Surjection(1 .. n, Range(near)) /\ match \in Surjection(1 .. m, Range(match))
    BY Fun_RangeProperties DEF Fusing, Rankings
<1>3. IsFiniteSet(Range(near)) /\ IsFiniteSet(Range(match))
    BY <1>1, <1>2, FS_Surjection
<1> QED
    BY <1>3, FS_Union DEF Found

\* What has a rank of its own below a bound is below the bound in number.
LEMMA RankedAreFew ==
    ASSUME NEW S, NEW n \in Nat, NEW r \in Rankings(S, n), NEW T \in SUBSET Range(r),
           NEW a \in Int, NEW b \in Int, a <= b + 1, \A c \in T : Rank(r, c) \in a .. b
    PROVE  IsFiniteSet(T) /\ Cardinality(T) <= b + 1 - a
<1> DEFINE F == [c \in T |-> Rank(r, c)]
<1>1. F \in [T -> a .. b]
    OBVIOUS
<1>2. \A c, d \in T : F[c] = F[d] => c = d
    BY RankOf
<1>3. F \in Injection(T, a .. b)
    BY <1>1, <1>2, Fun_IsInj
<1>4. IsFiniteSet(a .. b) /\ Cardinality(a .. b) = IF a > b THEN 0 ELSE b - a + 1
    BY FS_Interval
<1>5. IsFiniteSet(T) /\ Cardinality(T) <= Cardinality(a .. b)
    BY <1>3, <1>4, FS_Injection
<1>6. Cardinality(T) \in Nat
    BY <1>5, FS_CardinalityType
<1> QED
    BY <1>4, <1>5, <1>6

\* Next to a rank that is the best of its list, a higher sum needs a higher
\* rank in the other; and one rank is not worth two of which it is not better.
LEMMA SumsCompare ==
    ASSUME NEW k \in Nat, NEW p \in Nat, p >= 1, NEW q \in Nat, q >= 1,
           NEW r \in Nat, r >= 1,
           ((k + p) + (k + q)) * ((k + 1) * (k + r))
               > ((k + 1) + (k + r)) * ((k + p) * (k + q))
    PROVE  q < r
<1> DEFINE a == k + p  b == k + q  u == k + 1  v == k + r
<1>1. /\ a \in Nat /\ b \in Nat /\ u \in Nat /\ v \in Nat
      /\ u > 0 /\ a >= u /\ b >= u /\ v >= u
      /\ (a + b) * (u * v) > (u + v) * (a * b)
    OBVIOUS
<1> HIDE DEF a, b, u, v
<1>2. ASSUME b >= v PROVE FALSE
  <2>1. a * b \in Nat /\ u * v \in Nat /\ a * b > 0
      BY <1>1, Products
  <2>2. b * (u * v) <= b * (a * v) /\ a * (u * v) <= a * (u * b)
    <3>1. u * v <= a * v /\ u * v <= u * b
        BY <1>1, <1>2
    <3> QED
        BY <1>1, <3>1
  <2>3. (a + b) * (u * v) = a * (u * v) + b * (u * v)
      BY <1>1
  <2>4. (u + v) * (a * b) = a * (u * b) + b * (a * v)
      BY <1>1
  <2>5. /\ a * (u * v) \in Nat /\ b * (u * v) \in Nat
        /\ a * (u * b) \in Nat /\ b * (a * v) \in Nat
      BY <1>1
  <2> QED
      BY <1>1, <2>2, <2>3, <2>4, <2>5
<1> QED
    BY <1>1, <1>2 DEF b, v

LEMMA OneIsLower ==
    ASSUME NEW k \in Nat, NEW p \in Nat, p >= 1, NEW r \in Nat, r >= 1
    PROVE  ~(1 * ((k + 1) * (k + r)) > ((k + 1) + (k + r)) * (k + p))
<1> DEFINE u == k + 1  v == k + r  b == k + p
<1>1. u \in Nat /\ v \in Nat /\ b \in Nat /\ b >= u
    OBVIOUS
<1> HIDE DEF u, v, b
<1>2. u * v <= b * v /\ u * b \in Nat /\ u * v \in Nat /\ v * b \in Nat
    BY <1>1
<1>3. (u + v) * b = u * b + v * b /\ v * b = b * v /\ 1 * (u * v) = u * v
    BY <1>1, <1>2
<1>4. ~(1 * (u * v) > (u + v) * b)
    BY <1>2, <1>3
<1> QED
    BY <1>4 DEF u, v, b

\* Only chunks that both stores found can stand before the nearest row, and if
\* it is one of them, only those that OpenSearch ranks higher.
LEMMA NearestIsHit ==
    ASSUME NEW n, NEW m, Fusing(n, m), SearchK >= 1, near # <<>>
    PROVE  near[1] \in Hits
<1>1. /\ n \in Nat /\ m \in Nat /\ RrfK \in Nat /\ SearchK \in Nat
      /\ n <= SearchK /\ m <= SearchK
    BY RagAssumption DEF Fusing
<1>2. n >= 1
  <2>1. near \in Seq(pg) /\ Len(near) = n
      BY <1>1, RankingLength DEF Fusing
  <2>2. n # 0
      BY <2>1
  <2> QED
      BY <1>1, <2>2
<1> DEFINE x == near[1]
<1>3. x \in Range(near) /\ Rank(near, x) = 1
    BY <1>1, <1>2, RankOf DEF Fusing
<1>4. /\ \A c \in Range(near) : Rank(near, c) \in 1 .. n /\ near[Rank(near, c)] = c
      /\ \A c \in Range(match) : Rank(match, c) \in 1 .. m /\ match[Rank(match, c)] = c
    BY <1>1, RankOf DEF Fusing
<1>5. x \in Found
    BY <1>3 DEF Found
<1> HIDE DEF x
<1>6. ASSUME NEW c \in Ahead(x)
      PROVE  Higher(Score(c), Score(x)) /\ c # x /\ c \in Found
  <2>1. c \in Found /\ Before(c, x)
      BY DEF Ahead
  <2>2. Entered(c) >= 1 /\ Entered(c) \in Int
      BY <1>1, <2>1, EnteredOnce
  <2>3. Entered(x) = 1
      BY <1>3 DEF Entered
  <2>4. c # x
      BY <1>5, <2>1, BeforeIsOrder
  <2> QED
      BY <2>1, <2>2, <2>3, <2>4 DEF Before
<1>7. CASE x \in Range(match)
  <2> DEFINE r == Rank(match, x)
  <2>1. r \in 1 .. m
      BY <1>4, <1>7
  <2>2. Score(x) = <<(RrfK + 1) + (RrfK + r), (RrfK + 1) * (RrfK + r)>>
      BY <1>3, <1>7 DEF Score, Both, Denominator
  <2> HIDE DEF r
  <2>3. ASSUME NEW c \in Ahead(x)
        PROVE  c \in Range(match) /\ Rank(match, c) \in 1 .. r - 1
    <3>1. c \in Found /\ Higher(Score(c), Score(x))
        BY <1>6
    <3>2. CASE Both(c)
      <4>1. /\ Rank(near, c) \in 1 .. n /\ Rank(match, c) \in 1 .. m
            /\ c \in Range(match)
          BY <1>4, <3>2 DEF Both
      <4>2. PICK p \in 1 .. n, q \in 1 .. m :
               /\ q = Rank(match, c)
               /\ Score(c) = <<(RrfK + p) + (RrfK + q), (RrfK + p) * (RrfK + q)>>
          BY <3>2, <4>1 DEF Score, Denominator
      <4>3. ((RrfK + p) + (RrfK + q)) * ((RrfK + 1) * (RrfK + r))
               > ((RrfK + 1) + (RrfK + r)) * ((RrfK + p) * (RrfK + q))
          BY <2>2, <3>1, <4>2 DEF Higher
      <4>4. q < r
          BY <1>1, <2>1, <4>3, SumsCompare
      <4> QED
          BY <1>1, <2>1, <4>1, <4>2, <4>4
    <3>3. CASE ~Both(c) /\ c \in Range(near)
      <4>1. PICK p \in 1 .. n : Score(c) = <<1, RrfK + p>>
          BY <1>4, <3>3 DEF Score, Denominator
      <4>2. 1 * ((RrfK + 1) * (RrfK + r)) > ((RrfK + 1) + (RrfK + r)) * (RrfK + p)
          BY <2>2, <3>1, <4>1 DEF Higher
      <4> QED
          BY <1>1, <2>1, <4>2, OneIsLower
    <3>4. CASE c \notin Range(near)
      <4>1. c \in Range(match) /\ Rank(match, c) \in 1 .. m
          BY <1>4, <3>1, <3>4 DEF Found
      <4>2. PICK q \in 1 .. m : q = Rank(match, c) /\ Score(c) = <<1, RrfK + q>>
          BY <3>4, <4>1 DEF Score, Both, Denominator
      <4>3. 1 * ((RrfK + 1) * (RrfK + r)) > ((RrfK + 1) + (RrfK + r)) * (RrfK + q)
          BY <2>2, <3>1, <4>2 DEF Higher
      <4> QED
          BY <1>1, <2>1, <4>3, OneIsLower
    <3> QED
        BY <3>2, <3>3, <3>4
  <2>4. Ahead(x) \subseteq Range(match)
      BY <2>3
  <2>5. IsFiniteSet(Ahead(x)) /\ Cardinality(Ahead(x)) <= r - 1
    <3>1. /\ match \in Rankings(pg, m) /\ 1 \in Int /\ r - 1 \in Int /\ 1 <= (r - 1) + 1
          /\ \A c \in Ahead(x) : Rank(match, c) \in 1 .. r - 1
        BY <2>1, <2>3 DEF Fusing
    <3>2. IsFiniteSet(Ahead(x)) /\ Cardinality(Ahead(x)) <= ((r - 1) + 1) - 1
        BY <1>1, <2>4, <3>1, RankedAreFew
    <3> QED
        BY <2>1, <3>2
  <2>6. Cardinality(Ahead(x)) \in Nat
      BY <2>5, FS_CardinalityType
  <2>7. Place(x) <= SearchK
      BY <1>1, <2>1, <2>5, <2>6 DEF Place, Ahead
  <2> QED
      BY <1>5, <2>7 DEF Hits, x
<1>8. CASE x \notin Range(match)
  <2>1. Score(x) = <<1, RrfK + 1>>
      BY <1>3, <1>8 DEF Score, Both, Denominator
  <2>2. ASSUME NEW c \in Ahead(x)
        PROVE  c \in Range(near) /\ Rank(near, c) \in 2 .. n
    <3>1. c \in Found /\ Higher(Score(c), Score(x)) /\ c # x
        BY <1>6
    <3>2. CASE c \in Range(near)
      <4>1. Rank(near, c) \in 1 .. n /\ Rank(near, c) # 1
          BY <1>3, <1>4, <3>1, <3>2 DEF x
      <4> QED
          BY <1>1, <3>2, <4>1
    <3>3. CASE c \notin Range(near)
      <4>1. Rank(match, c) \in 1 .. m
          BY <1>4, <3>1, <3>3 DEF Found
      <4>2. PICK q \in 1 .. m : Score(c) = <<1, RrfK + q>>
          BY <3>3, <4>1 DEF Score, Both, Denominator
      <4>3. 1 * (RrfK + 1) > 1 * (RrfK + q)
          BY <2>1, <3>1, <4>2 DEF Higher
      <4> QED
          BY <1>1, <4>3
    <3> QED
        BY <3>2, <3>3
  <2>3. Ahead(x) \subseteq Range(near)
      BY <2>2
  <2>4. IsFiniteSet(Ahead(x)) /\ Cardinality(Ahead(x)) <= n - 1
    <3>1. /\ near \in Rankings(pg, n) /\ 2 \in Int /\ n \in Int /\ 2 <= n + 1
          /\ \A c \in Ahead(x) : Rank(near, c) \in 2 .. n
        BY <1>1, <1>2, <2>2 DEF Fusing
    <3>2. IsFiniteSet(Ahead(x)) /\ Cardinality(Ahead(x)) <= (n + 1) - 2
        BY <1>1, <2>3, <3>1, RankedAreFew
    <3>3. Cardinality(Ahead(x)) \in Nat
        BY <3>2, FS_CardinalityType
    <3> QED
        BY <1>1, <3>2, <3>3
  <2>5. Cardinality(Ahead(x)) \in Nat
      BY <2>4, FS_CardinalityType
  <2>6. Place(x) <= SearchK
      BY <1>1, <2>4, <2>5 DEF Place, Ahead
  <2> QED
      BY <1>5, <2>6 DEF Hits, x
<1> QED
    BY <1>7, <1>8

LEMMA AheadIsFew ==
    ASSUME NEW n, NEW m, Fusing(n, m), NEW c \in Found
    PROVE  /\ IsFiniteSet(Ahead(c))
           /\ Place(c) \in 1 .. Cardinality(Found)
<1>1. IsFiniteSet(Found) /\ Cardinality(Found) \in Nat
    BY FoundIsFinite, FS_CardinalityType
<1>2. Ahead(c) \in SUBSET (Found \ {c})
    BY BeforeIsOrder DEF Ahead
<1>3. IsFiniteSet(Found \ {c}) /\ Cardinality(Found \ {c}) = Cardinality(Found) - 1
    BY <1>1, FS_RemoveElement
<1>4. IsFiniteSet(Ahead(c)) /\ Cardinality(Ahead(c)) <= Cardinality(Found) - 1
    BY <1>2, <1>3, FS_Subset
<1>5. Cardinality(Ahead(c)) \in Nat
    BY <1>4, FS_CardinalityType
<1> QED
    BY <1>1, <1>4, <1>5 DEF Place, Ahead

LEMMA PlacesDiffer ==
    ASSUME NEW n, NEW m, Fusing(n, m), NEW c \in Found, NEW d \in Found, Before(c, d)
    PROVE  Place(c) < Place(d)
<1>1. IsFiniteSet(Ahead(c)) /\ IsFiniteSet(Ahead(d))
    BY AheadIsFew
<1>2. c \notin Ahead(c)
    BY BeforeIsOrder DEF Ahead
<1>3. Ahead(c) \cup {c} \in SUBSET Ahead(d)
    BY BeforeIsOrder DEF Ahead
<1>4. /\ IsFiniteSet(Ahead(c) \cup {c})
      /\ Cardinality(Ahead(c) \cup {c}) = Cardinality(Ahead(c)) + 1
    BY <1>1, <1>2, FS_AddElement
<1>5. Cardinality(Ahead(c) \cup {c}) <= Cardinality(Ahead(d))
    BY <1>1, <1>3, FS_Subset
<1>6. Cardinality(Ahead(c)) \in Nat /\ Cardinality(Ahead(d)) \in Nat
    BY <1>1, FS_CardinalityType
<1> QED
    BY <1>4, <1>5, <1>6 DEF Place, Ahead

\* The places are 1, 2, ... without a gap: the list has as many hits as it can.
LEMMA HitsCounted ==
    ASSUME NEW n, NEW m, Fusing(n, m)
    PROVE  Cardinality(Hits) = Lesser(SearchK, Cardinality(Found))
<1> DEFINE K == Cardinality(Found)
           L == Lesser(SearchK, K)
           F == [c \in Found |-> Place(c)]
           G == [c \in Hits |-> Place(c)]
<1>1. IsFiniteSet(Found) /\ K \in Nat /\ SearchK \in Nat
    BY FoundIsFinite, FS_CardinalityType, RagAssumption
<1>2. \A c \in Found : Place(c) \in 1 .. K
    BY AheadIsFew
<1>3. \A c, d \in Found : Place(c) = Place(d) => c = d
  <2> SUFFICES ASSUME NEW c \in Found, NEW d \in Found, c # d
               PROVE  Place(c) # Place(d)
      OBVIOUS
  <2>1. Before(c, d) \/ Before(d, c)
      BY BeforeIsOrder
  <2>2. Place(c) \in Int /\ Place(d) \in Int
      BY <1>2
  <2> QED
      BY <2>1, <2>2, PlacesDiffer
<1>4. F \in [Found -> 1 .. K]
    BY <1>2
<1>5. F \in Injection(Found, 1 .. K)
    BY <1>3, <1>4, Fun_IsInj
<1>6. IsFiniteSet(1 .. K) /\ Cardinality(1 .. K) = K
    BY <1>1, FS_Interval
<1>7. F \in Surjection(Found, 1 .. K)
    BY <1>5, <1>6, FS_Injection
<1>8. \A p \in 1 .. K : \E c \in Found : Place(c) = p
  <2>1. F \in Surjection(Found, 1 .. K) /\ \A c \in Found : F[c] = Place(c)
      BY <1>7
  <2> HIDE DEF F
  <2>2. \A p \in 1 .. K : \E c \in Found : F[c] = p
      BY <2>1, Fun_SurjectionProperties
  <2> QED
      BY <2>1, <2>2
<1>9. L \in Nat /\ L <= K /\ \A p \in 1 .. K : p <= SearchK <=> p <= L
    BY <1>1 DEF Lesser
<1> HIDE DEF L, K
<1>10. Hits \subseteq Found /\ \A c \in Found : c \in Hits <=> Place(c) <= L
    BY <1>2, <1>9 DEF Hits
<1>11. G \in [Hits -> 1 .. L]
    BY <1>1, <1>2, <1>9, <1>10
<1>12. \A c, d \in Hits : G[c] = G[d] => c = d
    BY <1>3, <1>10
<1>13. \A p \in 1 .. L : \E c \in Hits : G[c] = p
  <2> SUFFICES ASSUME NEW p \in 1 .. L PROVE \E c \in Hits : Place(c) = p
      OBVIOUS
  <2>1. p \in 1 .. K /\ p <= L
      BY <1>1, <1>9
  <2> QED
      BY <1>8, <1>10, <2>1
<1>14. G \in Bijection(Hits, 1 .. L)
    BY <1>11, <1>12, <1>13, Fun_IsBij
<1>15. IsFiniteSet(Hits)
    BY <1>1, <1>10, FS_Subset
<1>16. ExistsBijection(Hits, 1 .. L)
    BY <1>14 DEF ExistsBijection
<1>17. Cardinality(1 .. L) = Cardinality(Hits)
    BY <1>15, <1>16, FS_Bijection
<1>18. Cardinality(1 .. L) = L
    BY <1>9, FS_Interval
<1> QED
    BY <1>17, <1>18 DEF L, K

-----------------------------------------------------------------------------
(* The two stores                                                            *)

LEMMA ChunksAreFinite ==
    ASSUME NEW i \in Ingests
    PROVE  IsFiniteSet(Chunks(i))
<1> DEFINE doc == Corpus[i[2]]
           Part(p) == {[ingest |-> i, part |-> p, window |-> w] : w \in Windows(doc[p])}
           Parts == [p \in DOMAIN doc |-> Part(p)]
<1>1. doc \in Seq(Nat)
    BY RagAssumption DEF Ingests, Docs
<1>2. Len(doc) \in Nat /\ DOMAIN doc = 1 .. Len(doc) /\ \A p \in DOMAIN doc : doc[p] \in Nat
    BY <1>1
<1> HIDE DEF doc
<1>3. ASSUME NEW p \in DOMAIN doc PROVE IsFiniteSet(Part(p))
  <2> DEFINE l == doc[p]
             Row == [w \in Windows(l) |-> [ingest |-> i, part |-> p, window |-> w]]
  <2>1. l \in Nat
      BY <1>2
  <2> HIDE DEF l
  <2>2. Windows(l) \in SUBSET ((0 .. l) \X (0 .. l))
    <3>1. \A w \in Windows(l) : w = <<w[1], w[2]>> /\ w[1] \in 0 .. l /\ w[2] \in 0 .. l
      <4>1. \A w \in Windows(l) : w = <<w[1], w[2]>>
          BY DEF Windows
      <4> QED
          BY <2>1, <4>1, WindowsFit
    <3> QED
        BY <3>1
  <2>3. IsFiniteSet((0 .. l) \X (0 .. l))
    <3>1. IsFiniteSet(0 .. l)
        BY <2>1, FS_Interval
    <3> QED
        BY <3>1, FS_Product
  <2>4. IsFiniteSet(Windows(l))
      BY <2>2, <2>3, FS_Subset
  <2>5. Row \in [Windows(l) -> Part(p)] /\ \A c \in Part(p) : \E w \in Windows(l) : Row[w] = c
      BY DEF l
  <2>6. Row \in Surjection(Windows(l), Part(p))
      BY <2>5, Fun_IsSurj
  <2> QED
      BY <2>4, <2>6, FS_Surjection
<1>4. IsFiniteSet(DOMAIN doc)
    BY <1>2, FS_Interval
<1>5. Parts \in Surjection(DOMAIN doc, Range(Parts))
  <2>1. Parts \in [DOMAIN doc -> Range(Parts)]
      BY DEF Range
  <2> QED
      BY <2>1, Fun_RangeProperties
<1>6. IsFiniteSet(Range(Parts))
    BY <1>4, <1>5, FS_Surjection
<1>7. \A T \in Range(Parts) : IsFiniteSet(T)
    BY <1>3 DEF Range
<1>8. IsFiniteSet(UNION Range(Parts))
    BY <1>6, <1>7, FS_UNION
<1>9. Chunks(i) = UNION Range(Parts)
  <2>1. Chunks(i) = UNION {Part(p) : p \in DOMAIN doc}
      BY DEF Chunks, doc
  <2> HIDE DEF Part
  <2>2. Range(Parts) = {Part(p) : p \in DOMAIN doc}
      BY DEF Range
  <2> QED
      BY <2>1, <2>2
<1> QED
    BY <1>8, <1>9

\* A handler that is about to write OpenSearch has its rows in Postgres, and
\* what a search has found is ranked rows.
RagInv ==
    /\ RagTypeOK
    /\ \A i \in Ingests : ingest[i] = "index" => Chunks(i) \subseteq pg
    /\ index \subseteq pg
    /\ IsFiniteSet(pg)
    /\ \E n, m \in 0 .. SearchK : Fusing(n, m)

LEMMA NothingToFuse ==
    near = <<>> /\ match = <<>> => \E n, m \in 0 .. SearchK : Fusing(n, m)
<1> SUFFICES ASSUME near = <<>>, match = <<>> PROVE Fusing(0, 0) /\ 0 \in 0 .. SearchK
    OBVIOUS
<1>1. 0 \in 0 .. SearchK
    BY RagAssumption
<1> QED
    BY <1>1, EmptyRanking DEF Fusing

\* Rows are never deleted.
LEMMA FusingLasts ==
    ASSUME \E n, m \in 0 .. SearchK : Fusing(n, m),
           pg \subseteq pg', UNCHANGED <<near, match>>
    PROVE  \E n, m \in 0 .. SearchK : Fusing(n, m)'
<1>1. PICK n \in 0 .. SearchK, m \in 0 .. SearchK : Fusing(n, m)
    OBVIOUS
<1>2. near' \in Rankings(pg', n) /\ match' \in Rankings(pg', m)
    BY <1>1, RankingGrows DEF Fusing
<1>3. Fusing(n, m)'
    BY <1>1, <1>2 DEF Fusing
<1> QED
    BY <1>3

LEMMA RagInitial == RagInit => RagInv
<1> SUFFICES ASSUME RagInit PROVE RagInv
    OBVIOUS
<1>1. Len(Corpus) \in Nat /\ seed \in [Seeders -> 1 .. Len(Corpus) + 1]
    BY RagAssumption DEF RagInit
<1>2. ingest \in [Ingests -> {"none", "embed", "insert", "index", "ok", "failed"}]
    BY DEF RagInit
<1>3. \A i \in Ingests : ingest[i] = "none"
    BY DEF RagInit
<1> QED
    BY <1>1, <1>2, <1>3, NothingToFuse, FS_EmptySet DEF RagInit, NoSearch, RagInv, RagTypeOK

\* What the handlers of an ingest do keeps the invariant, ...
LEMMA HandlerKeeps ==
    ASSUME RagInv, NEW i \in Ingests,
           \/ Receive(i) \/ Embed(i) \/ Write(i),
           UNCHANGED <<seed, searchVars>>
    PROVE  RagInv'
<1>1. /\ ingest' \in [Ingests -> {"none", "embed", "insert", "index", "ok", "failed"}]
      /\ \A j \in Ingests \ {i} : ingest'[j] = ingest[j]
    BY DEF RagInv, RagTypeOK, Receive, Embed, Write, Insert, Index, Step
<1>2. pg \subseteq pg' /\ pg' \subseteq pg \cup Chunks(i)
    BY DEF Receive, Embed, Write, Insert, Index
<1>3. ingest'[i] = "index" => Chunks(i) \subseteq pg'
    BY <1>1 DEF RagInv, RagTypeOK, Receive, Embed, Write, Insert, Index, Step
<1>4. index' \subseteq index \cup Chunks(i) /\ index' \subseteq pg'
    BY <1>2 DEF RagInv, Receive, Embed, Write, Insert, Index, Step
<1>5. Chunks(i) \subseteq UNION {Chunks(j) : j \in Ingests}
    OBVIOUS
<1>6. IsFiniteSet(pg')
  <2>1. pg' \in SUBSET (pg \cup Chunks(i)) /\ IsFiniteSet(pg \cup Chunks(i))
      BY <1>2, ChunksAreFinite, FS_Union DEF RagInv
  <2> QED
      BY <2>1, FS_Subset
<1>7. \E n, m \in 0 .. SearchK : Fusing(n, m)'
    BY <1>2, FusingLasts DEF RagInv, searchVars
<1> QED
    BY <1>1, <1>2, <1>3, <1>4, <1>5, <1>6, <1>7 DEF RagInv, RagTypeOK, searchVars

\* ... and so does the worker whose documents they ingest.
LEMMA IngestingKeeps ==
    ASSUME RagInv, Ingesting
    PROVE  RagInv' /\ pg \subseteq pg'
<1>1. CASE \E s \in Seeders : Post(s) \/ Answered(s) \/ Unanswered(s)
  <2>1. PICK s \in Seeders : Post(s) \/ Answered(s) \/ Unanswered(s)
      BY <1>1
  <2>2. seed[s] \in Docs
      BY <2>1 DEF Post, Answered, Unanswered
  <2>3. Here(s) \in Ingests
      BY <2>2 DEF Here, Ingests
  <2>4. CASE Post(s)
    <3>1. Receive(Here(s)) /\ UNCHANGED <<seed, searchVars, pg>>
        BY <2>4 DEF Post, Receive, Ingesting
    <3> QED
        BY <3>1, <2>3, HandlerKeeps
  <2>5. CASE Answered(s) \/ Unanswered(s)
    <3>1. UNCHANGED <<ingest, pg, index, searchVars>>
        BY <2>5 DEF Answered, Unanswered, Ingesting
    <3>2. Docs = 1 .. Len(Corpus) /\ Len(Corpus) \in Nat
        BY RagAssumption DEF Docs
    <3>3. seed' \in [Seeders -> 1 .. Len(Corpus) + 1]
        BY <2>2, <2>5, <3>2 DEF Answered, Unanswered, RagInv, RagTypeOK
    <3>4. \E n, m \in 0 .. SearchK : Fusing(n, m)'
        BY <3>1, FusingLasts DEF RagInv, searchVars
    <3> QED
        BY <3>1, <3>3, <3>4 DEF RagInv, RagTypeOK, searchVars
  <2> QED
      BY <2>1, <2>4, <2>5
<1>2. CASE \E i \in Ingests : (Embed(i) \/ Write(i)) /\ UNCHANGED seed
  <2>1. PICK i \in Ingests : (Embed(i) \/ Write(i)) /\ UNCHANGED seed
      BY <1>2
  <2>2. UNCHANGED searchVars
      BY DEF Ingesting
  <2>3. pg \subseteq pg'
      BY <2>1 DEF Embed, Write, Insert, Index
  <2> QED
      BY <2>1, <2>2, <2>3, HandlerKeeps
<1> QED
    BY <1>1, <1>2 DEF Ingesting

\* A search reads rows only: those of Postgres, and those of OpenSearch that
\* are rows of Postgres as well.
LEMMA SearchKeeps ==
    ASSUME RagInv, SearchVectors \/ SearchText
    PROVE  RagInv' /\ pg' = pg
<1>1. PICK n \in 0 .. SearchK, m \in 0 .. SearchK : Fusing(n, m)
    BY DEF RagInv
<1>2. CASE SearchVectors
  <2>1. PICK l \in 0 .. SearchK : near' \in Rankings(pg, l)
    <3>1. Lesser(SearchK, Cardinality(pg)) \in 0 .. SearchK
        BY RagAssumption, FS_CardinalityType DEF RagInv, Lesser
    <3> QED
        BY <1>2, <3>1 DEF SearchVectors
  <2>2. near' \in Rankings(pg', l) /\ match' \in Rankings(pg', m)
      BY <1>1, <1>2, <2>1 DEF SearchVectors, Fusing, storeVars
  <2>3. Fusing(l, m)'
      BY <1>1, <2>1, <2>2 DEF Fusing
  <2>4. \E i, j \in 0 .. SearchK : Fusing(i, j)'
      BY <2>1, <2>3
  <2> QED
      BY <1>2, <2>4 DEF SearchVectors, RagInv, RagTypeOK, storeVars
<1>3. CASE SearchText
  <2>1. PICK l \in 0 .. SearchK : match' \in Rankings(index, l)
      BY <1>3 DEF SearchText
  <2>2. near' \in Rankings(pg', n) /\ match' \in Rankings(pg', l)
      BY <1>1, <1>3, <2>1, RankingGrows DEF SearchText, Fusing, RagInv, storeVars
  <2>3. Fusing(n, l)'
      BY <1>1, <2>1, <2>2 DEF Fusing
  <2>4. \E i, j \in 0 .. SearchK : Fusing(i, j)'
      BY <2>1, <2>3
  <2> QED
      BY <1>3, <2>4 DEF SearchText, RagInv, RagTypeOK, storeVars
<1> QED
    BY <1>2, <1>3

LEMMA EndSearchKeeps ==
    ASSUME RagInv, EndSearch, UNCHANGED storeVars
    PROVE  RagInv' /\ pg' = pg
<1>1. \E n, m \in 0 .. SearchK : Fusing(n, m)'
  <2>1. 0 \in 0 .. SearchK
      BY RagAssumption
  <2>2. Fusing(0, 0)'
      BY <2>1, EmptyRanking DEF EndSearch, Fusing
  <2> QED
      BY <2>1, <2>2
<1> QED
    BY <1>1 DEF RagInv, RagTypeOK, EndSearch, storeVars

LEMMA RagStutters ==
    ASSUME RagInv, UNCHANGED ragVars
    PROVE  RagInv' /\ pg' = pg
<1>1. \E n, m \in 0 .. SearchK : Fusing(n, m)'
    BY FusingLasts DEF RagInv, ragVars, storeVars, searchVars
<1> QED
    BY <1>1 DEF RagInv, RagTypeOK, ragVars, storeVars, searchVars

LEMMA HitsAreRows == RagInv => Hits \subseteq pg
<1> SUFFICES ASSUME RagInv PROVE Found \subseteq pg
    BY DEF Hits
<1>1. PICK n \in 0 .. SearchK, m \in 0 .. SearchK : Fusing(n, m)
    BY DEF RagInv
<1> QED
    BY <1>1, RankingRange DEF Fusing, Found

\* The fusion of two rankings, for every k, every RrfK it is small enough for
\* and whatever the two stores hold when they are asked.
LEMMA FusionFollows == RagInv => FusionSound
<1> SUFFICES ASSUME RagInv, SearchK \in 1 .. RrfK + 1
             PROVE  /\ \A c, d \in Found : Both(c) /\ ~Both(d) => Before(c, d)
                    /\ near # <<>> => near[1] \in Hits
                    /\ Cardinality(Hits) = Lesser(SearchK, Cardinality(Found))
    BY DEF FusionSound
<1>1. PICK n \in 0 .. SearchK, m \in 0 .. SearchK : Fusing(n, m)
    BY DEF RagInv
<1>2. SearchK <= RrfK + 1 /\ SearchK >= 1
    BY RagAssumption
<1> QED
    BY <1>1, <1>2, BothFirst, NearestIsHit, HitsCounted

=============================================================================
